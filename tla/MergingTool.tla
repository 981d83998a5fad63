---------------------------- MODULE MergingTool ----------------------------
(***************************************************************************)
(* aprof-helper, started over a directory of reports when the runs are     *)
(* over.  merge_by_thread and merge_by_run go round the list of reports:   *)
(* the first one that is left becomes `curr`, the reports that go with it  *)
(* are merged and struck off, and at the end of the list the sum is        *)
(* written, until nothing is left.                                         *)
(***************************************************************************)
EXTENDS IncrementalReports, Sequences, SequencesExt, Functions

VARIABLE tool       \* the state of aprof-helper

vars == <<runVars, tool>>

\* -t, -r, both or -i.
Options == {"t", "r", "tr", "i"}

Unset == [mtime |-> NoValue, metric |-> NoValue, res |-> NoValue, app |-> NoValue,
          extra |-> Nothing, sources |-> Nothing]

\* A report on the list; `parts` are the names of the files it comes from.
Entry(n) == [pid |-> n.pid, tid |-> n.tid, file |-> dir[n], parts |-> {n}]

\* `struck` are the i with list[i] = NULL, `group` the files in the runtime, and `out`
\* the list that is returned.
Off == [phase |-> "off", option |-> "t", list |-> <<>>, struck |-> {}, i |-> 1,
        curr |-> 0, merged |-> 0, rt |-> Unset, group |-> {}, out |-> <<>>]

Init == RunInit /\ tool = Off

-----------------------------------------------------------------------------
\* reset_data.  It leaves extra_cost and binary_mtime as they are.
Reset(rt) == [rt EXCEPT !.metric = NoValue, !.res = NoValue, !.app = NoValue,
                        !.sources = Nothing]

Abort == [Off EXCEPT !.phase = "aborted"]

\* Merge entry j into the group, or fail.
MustMerge(t, j) ==
  LET m == merge_report(t.rt, t.list[j].file, t.option = "i")
  IN  IF m.ok THEN [t EXCEPT !.rt = m.rt, !.merged = @ + 1, !.group = @ \cup t.list[j].parts]
      ELSE Abort

Strike(t, j) == [t EXCEPT !.struck = @ \cup {j}]

\* merge_by_thread at list[i].
LookByThread(t) ==
  IF t.i \in t.struck THEN t
  ELSE IF t.curr = 0 THEN [t EXCEPT !.curr = t.i, !.group = t.list[t.i].parts]
  ELSE IF t.list[t.i].pid # t.list[t.curr].pid THEN t
  ELSE LET begun == IF t.merged = 0
                    THEN MustMerge([t EXCEPT !.rt = Reset(@)], t.curr) ELSE t
           done == IF begun.phase = "aborted" THEN begun ELSE MustMerge(begun, t.i)
       IN  IF done.phase = "aborted" THEN done ELSE Strike(done, t.i)

\* A report of another process and of the same thread.  (merge_threads, which would admit
\* every thread, is set by main and reset by reset_data before it is read.)
GoesWith(t, e) ==
  \/ t.option = "i"
  \/ e.pid # t.list[t.curr].pid /\ e.tid = t.list[t.curr].tid

\* A plausible bug: a report that has been merged is not struck off.
LookByRunKeeping(t) ==
  LET e == t.list[t.i]
  IN  IF t.i \in t.struck THEN t
      ELSE IF t.curr = 0
      THEN MustMerge([t EXCEPT !.curr = t.i, !.rt = Reset(@), !.group = {}], t.i)
      ELSE IF ~ GoesWith(t, e) THEN t
      ELSE LET m == merge_report(t.rt, e.file, t.option = "i")
           IN  IF m.ok THEN MustMerge(t, t.i) ELSE [t EXCEPT !.rt = m.rt]

\* merge_by_run at list[i]; a report that does not fit waits for its own turn.
LookByRun(t) ==
  LET e == t.list[t.i]
  IN  IF t.i \in t.struck THEN t
      ELSE IF t.curr = 0
      THEN MustMerge([t EXCEPT !.curr = t.i, !.rt = Reset(@), !.group = {}], t.i)
      ELSE IF ~ GoesWith(t, e) THEN t
      ELSE LET m == merge_report(t.rt, e.file, t.option = "i")
           IN  IF m.ok THEN Strike(MustMerge(t, t.i), t.i) ELSE [t EXCEPT !.rt = m.rt]

\* What print_report writes of the group, under the name of its first report.  If all of it
\* were empty the lines k and t hold 0, and no reader gets past them.
Sum(t) ==
  [t.list[t.curr] EXCEPT
     !.parts = t.group,
     !.file = [@ EXCEPT !.state = IF t.rt.metric = NoValue THEN "torn" ELSE "complete",
                 !.cct = FALSE,
                 !.k = t.rt.extra, !.sources = t.rt.sources, !.mtime = t.rt.mtime,
                 !.metric = t.rt.metric, !.res = t.rt.res, !.app = t.rt.app]]

\* A plausible bug: the report that gave its name to the group stays on the list.
FinishedKeeping(t) ==
  IF t.curr # 0
  THEN [t EXCEPT !.out = Append(@, Sum(t)), !.curr = 0, !.merged = 0, !.group = {}, !.i = 1]
  ELSE [t EXCEPT !.phase = "done"]

\* A plausible bug: curr is not set back to -1.
FinishedStale(t) ==
  IF t.curr # 0
  THEN [Strike(t, t.curr) EXCEPT !.out = Append(@, Sum(t)), !.merged = 0, !.group = {}, !.i = 1]
  ELSE [t EXCEPT !.phase = "done"]

\* The end of a round: write the group (a report without companions is copied by
\* merge_by_thread), or stop when every report is gone.
Finished(t) ==
  LET new == IF t.merged > 0 THEN Sum(t) ELSE t.list[t.curr]
  IN  IF t.curr # 0
      THEN [Strike(t, t.curr) EXCEPT !.out = Append(@, new), !.curr = 0, !.merged = 0,
                                     !.group = {}, !.i = 1]
      ELSE IF t.phase = "threads" /\ t.option = "tr"
      THEN [t EXCEPT !.phase = "runs", !.list = t.out, !.struck = {}, !.out = <<>>, !.i = 1]
      ELSE [t EXCEPT !.phase = "done"]

Advance(t) ==
  IF t.phase = "aborted" THEN t
  ELSE IF t.i = Len(t.list) THEN Finished(t)
  ELSE [t EXCEPT !.i = @ + 1]

-----------------------------------------------------------------------------
\* main, with the list search_reports returns.
StartTool(list, option) ==
  /\ tool.phase = "off" /\ \A r \in Run : phase[r] \in {"ended", "crashed"}
  /\ tool' = [tool EXCEPT !.phase = IF option \in {"t", "tr"} THEN "threads" ELSE "runs",
                          !.option = option, !.list = [j \in DOMAIN list |-> Entry(list[j])]]
  /\ UNCHANGED runVars

\* One turn of the loop of merge_by_thread or merge_by_run.
ToolStep ==
  /\ tool.phase \in {"threads", "runs"}
  /\ tool' = Advance(IF tool.phase = "threads" THEN LookByThread(tool) ELSE LookByRun(tool))
  /\ UNCHANGED runVars

\* The turns that read a report.
Reads(t) ==
  /\ t.phase \in {"threads", "runs"} /\ t.i \notin t.struck
  /\ IF t.phase = "threads" THEN t.curr # 0 /\ t.list[t.i].pid = t.list[t.curr].pid
     ELSE t.curr # 0 => GoesWith(t, t.list[t.i])

\* An assertion: on a line that is cut off or holds a 0, or since a report that must be
\* merged cannot be opened.
ToolFails ==
  /\ Reads(tool)
  /\ tool.phase = "runs" /\ tool.curr # 0 => tool.list[tool.i].file.state = "torn"
  /\ tool' = Abort /\ UNCHANGED runVars

\* merge_by_run goes on if a report that might go with the first cannot be opened.
ToolSkips ==
  /\ Reads(tool) /\ tool.phase = "runs" /\ tool.curr # 0
  /\ tool' = Advance(tool) /\ UNCHANGED runVars

Next ==
  \/ tool.phase = "off" /\ (\E r \in Run : RunStep(r)) /\ UNCHANGED tool
  \/ DOMAIN dir # {} /\ \E list \in SetToSeqs(DOMAIN dir), option \in Options :
                          StartTool(list, option)
  \/ ToolStep \/ ToolFails \/ ToolSkips

Spec == Init /\ [][Next]_vars

-----------------------------------------------------------------------------
Bag == [Run -> Nat]
RuntimeOK(rt) == DOMAIN rt = DOMAIN Unset /\ rt.extra \in Bag /\ rt.sources \in Bag

TypeOK ==
  /\ phase \in [Run -> {"running", "merging", "unlinking", "writing", "ended", "crashed"}]
  /\ \A r \in Run : RuntimeOK(memory[r]) /\ (phase[r] = "unlinking" => at[r] # NoValue)
  /\ \A n \in DOMAIN dir : dir[n].state \in {"empty", "torn", "complete"}
  /\ disturbed \in BOOLEAN
  /\ tool.phase \in {"off", "threads", "runs", "done", "aborted"} /\ tool.option \in Options
  /\ RuntimeOK(tool.rt) /\ tool.curr \in 0..Len(tool.list)
  /\ tool.struck \subseteq DOMAIN tool.list /\ tool.curr \notin tool.struck
  /\ tool.merged \in 0..Len(tool.list)

Outputs == Range(tool.out)

Pids(e) == {n.pid : n \in e.parts}
Tids(e) == {n.tid : n \in e.parts}
Full(e) == {n \in e.parts : dir[n].state # "empty"}

\* When aprof-helper ends without a failed assertion, every report it was given is in one
\* of the new ones and in no second, and so is its k.  (That of a later group has the
\* earlier groups' too, as extra_cost is not reset.)
\* With -t each holds all the threads of one process, and with -r one thread of each
\* process ("this will not merge reports of different threads", aprof-helper.c:436): no two
\* reports with anything in them have the same pid, though one that a crash has left empty
\* may, as merge_report compares nothing of it but the resolution in its name.
ToolKeepsEverything ==
  tool.phase = "done" =>
    /\ \A r \in Run :
         Copies(r) = MapThenSumSet(LAMBDA j : tool.out[j].file.sources[r], DOMAIN tool.out)
    /\ UNION {e.parts : e \in Outputs} = DOMAIN dir
    /\ \A e \in Outputs : \A r \in Run :
         e.file.k[r] >= MapThenSumSet(LAMBDA n : dir[n].k[r], e.parts)
    /\ \A e \in Outputs : tool.option = "t" =>
         \A n \in DOMAIN dir : n.pid \in Pids(e) <=> n \in e.parts
    /\ \A e \in Outputs : tool.option = "r" =>
         /\ Cardinality(Tids(e)) = 1
         /\ Cardinality({n.pid : n \in Full(e)}) = Cardinality(Full(e))

Remaining(t) == Cardinality(DOMAIN t.list \ t.struck)

\* The while (1) loops over a list with holes come to an end: a turn strikes off a report,
\* or brings the loop nearer to the end of the list, or else it is the last one.
LoopsEnd ==
  [][tool.phase \in {"threads", "runs"} =>
       \/ tool'.phase = tool.phase
            /\ \/ Remaining(tool') < Remaining(tool)
               \/ Remaining(tool') = Remaining(tool) /\ tool'.i > tool.i
       \/ tool.phase = "threads" /\ tool'.phase = "runs" /\ Remaining(tool) = 0
       \/ tool'.phase = "done" /\ Remaining(tool) = 0
       \/ tool'.phase = "aborted"]_tool
=============================================================================
