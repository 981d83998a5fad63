------------------------- MODULE IncrementalReports -------------------------
(***************************************************************************)
(* The end of the runs of several profiled programs that report to the     *)
(* same directory: generate_report, and with --incremental-log             *)
(* load_reports, which merges the reports it finds and unlinks them before *)
(* the sum of all is written.  A run may crash between any two steps, and  *)
(* the runs do not know of each other.                                     *)
(***************************************************************************)
EXTENDS ReportMerge, FiniteSets, FiniteSetsExt

CONSTANTS Scenarios,    \* possible sets of runs: functions from Run to RunInfo
          Attempts      \* how many names create_report tries, 1024

RunInfo == [pid : Nat, tid : Nat \ {0}, app : STRING, mtime : Nat \ {0},
            metric : {"rms", "drms"}, res : {1, 2, 4, 8, 16},
            cct : BOOLEAN, incremental : BOOLEAN]

ASSUME ScenariosAssumption ==
  \A s \in Scenarios : /\ s \in [Run -> RunInfo]
                       /\ \A r \in Run, x \in Field : s[r][x] # NoValue

FileName == [app : STRING, pid : Nat, res : {1, 2, 4, 8, 16}, tid : Nat]

ASSUME AttemptsAssumption == Attempts \in Nat \ {0}
\* at[r] is no file as long as nothing is to be unlinked.
ASSUME NoValueAssumption == NoValue \notin FileName

VARIABLES info,       \* the runs
          phase,      \* per run: where generate_report is
          left,       \*   the reports load_reports has still to look at
          at,         \*   the report it has merged and will unlink
          memory,     \*   the runtime: extra_cost and the tuples
          name,       \*   its own report
          dir,        \* the directory: from names to files
          disturbed   \* runs have overlapped, or a read has failed

runVars == <<info, phase, left, at, memory, name, dir, disturbed>>

\* report_name.
Name(r, attempt) ==
  [app |-> info[r].app, pid |-> info[r].pid, res |-> info[r].res,
   tid |-> info[r].tid - 1 + IF attempt > 0 THEN attempt + 1024 ELSE 0]

RuntimeOf(r) == [mtime |-> info[r].mtime, metric |-> info[r].metric, res |-> info[r].res,
                 app |-> info[r].app, extra |-> Only(r), sources |-> Only(r)]

RunInit ==
  /\ info \in Scenarios
  /\ phase = [r \in Run |-> "running"]
  /\ left = [r \in Run |-> {}] /\ at = [r \in Run |-> NoValue]
  /\ memory = [r \in Run |-> RuntimeOf(r)]
  /\ name = [r \in Run |-> NoValue]
  /\ dir = <<>> /\ disturbed = FALSE

Busy(r) == phase[r] \in {"merging", "unlinking", "writing"}

\* One of two runs reads what the other may be writing.
Overlaps(r) == \E s \in Run \ {r} : Busy(s) /\ (info[r].incremental \/ info[s].incremental)

Goes(r, to) == phase' = [phase EXCEPT ![r] = to]

-----------------------------------------------------------------------------
\* The last thread exits, and search_reports lists the directory.  Threads of a process
\* exit one at a time, and a process does not share its pid with another.
Finish(r) ==
  /\ phase[r] = "running"
  /\ \A s \in Run : Busy(s) => info[s].pid # info[r].pid
  /\ Goes(r, "merging")
  /\ left' = [left EXCEPT ![r] = IF info[r].incremental THEN DOMAIN dir ELSE {}]
  /\ disturbed' = (disturbed \/ Overlaps(r))
  /\ UNCHANGED <<info, at, memory, name, dir>>

\* What merge_report never reads: a name of another resolution, or one that is gone.
Skipped(r, n) == n \notin DOMAIN dir \/ n.res # info[r].res

\* load_reports passes over a report: one of those, or open has failed, as it does in
\* the end when the reports are many, since merge_report does not close what it merges.
Skip(r, n) ==
  /\ phase[r] = "merging" /\ n \in left[r]
  /\ left' = [left EXCEPT ![r] = @ \ {n}]
  /\ UNCHANGED <<info, phase, at, memory, name, dir, disturbed>>

\* load_reports looks at a report, in the order of the directory.
Look(r, n) ==
  /\ phase[r] = "merging" /\ n \in left[r] /\ ~ Skipped(r, n)
  /\ left' = [left EXCEPT ![r] = @ \ {n}]
  /\ LET m == merge_report(memory[r], dir[n], FALSE)
     IN  /\ memory' = [memory EXCEPT ![r] = m.rt]
         /\ IF m.ok THEN Goes(r, "unlinking") /\ at' = [at EXCEPT ![r] = n]
            ELSE UNCHANGED <<phase, at>>
  /\ UNCHANGED <<info, name, dir, disturbed>>

\* read fails when the first tuples have been merged.
ReadFails(r, n) ==
  /\ phase[r] = "merging" /\ n \in left[r] /\ ~ Skipped(r, n)
  /\ left' = [left EXCEPT ![r] = @ \ {n}]
  /\ memory' = [memory EXCEPT ![r] = merge_report(@, dir[n], FALSE).rt]
  /\ disturbed' = TRUE
  /\ UNCHANGED <<info, phase, at, name, dir>>

\* A plausible bug: a report that has been merged is kept.
UnlinkForgotten(r) ==
  /\ phase[r] = "unlinking" /\ Goes(r, "merging")
  /\ at' = [at EXCEPT ![r] = NoValue]
  /\ UNCHANGED <<info, left, dir, memory, name, disturbed>>

\* unlink, which another run may have done before.
Unlink(r) ==
  /\ phase[r] = "unlinking" /\ Goes(r, "merging")
  /\ dir' = [n \in DOMAIN dir \ {at[r]} |-> dir[n]]
  /\ at' = [at EXCEPT ![r] = NoValue]
  /\ UNCHANGED <<info, left, memory, name, disturbed>>

File(r, state, k, sources) ==
  [writer |-> r, state |-> state, k |-> k, sources |-> sources, cct |-> info[r].cct,
   mtime |-> info[r].mtime, metric |-> info[r].metric, res |-> info[r].res,
   app |-> info[r].app]

Free(r) == {n \in 0..(Attempts - 1) : Name(r, n) \notin DOMAIN dir}

CreateAs(r, n) ==
  /\ phase[r] = "merging" /\ left[r] = {}
  /\ Goes(r, "writing")
  /\ name' = [name EXCEPT ![r] = n]
  /\ dir' = [m \in DOMAIN dir \cup {n} |->
               IF m = n THEN File(r, "empty", Nothing, Nothing) ELSE dir[m]]
  /\ UNCHANGED <<info, left, at, memory, disturbed>>

\* A plausible bug: the first name is opened without O_EXCL.
CreateFirst(r) == CreateAs(r, Name(r, 0))

\* create_report: the first name that O_EXCL accepts.  With none the run aborts (Crash).
Create(r) ==
  \E n \in Free(r) : (\A m \in Free(r) : n <= m) /\ CreateAs(r, Name(r, n))

\* The file as its writer has it open, if it is still linked.
Linked(r) == name[r] \in DOMAIN dir /\ dir[name[r]].writer = r

\* The buffer is full: the header and the first tuples, too few to count as a run, go to
\* the file.
Flush(r) ==
  /\ phase[r] = "writing" /\ Linked(r) /\ dir[name[r]].state = "empty"
  /\ dir' = [dir EXCEPT ![name[r]] = File(r, "torn", Only(r), Nothing)]
  /\ UNCHANGED <<info, phase, left, at, memory, name, disturbed>>

\* fclose.  The k line holds the cost of this run: generate_report has read extra_cost
\* before load_reports adds to it (report.c:267, merge.c:198).
Close(r) ==
  /\ phase[r] = "writing" /\ Goes(r, "ended")
  /\ dir' = IF Linked(r)
            THEN [dir EXCEPT ![name[r]] = File(r, "complete", Only(r), memory[r].sources)]
            ELSE dir
  /\ memory' = [memory EXCEPT ![r] = RuntimeOf(r)]
  /\ name' = [name EXCEPT ![r] = NoValue]
  /\ UNCHANGED <<info, left, at, disturbed>>

\* The run is killed, or an assertion fails: no name is free, or a line is cut off.  What
\* it had merged is kept for RunsReportedOnce.
Crash(r) ==
  /\ Busy(r) /\ Goes(r, "crashed")
  /\ left' = [left EXCEPT ![r] = {}] /\ at' = [at EXCEPT ![r] = NoValue]
  /\ name' = [name EXCEPT ![r] = NoValue]
  /\ UNCHANGED <<info, memory, dir, disturbed>>

RunStep(r) ==
  \/ Finish(r) \/ Unlink(r) \/ Create(r) \/ Flush(r) \/ Close(r) \/ Crash(r)
  \/ \E n \in left[r] : Skip(r, n) \/ Look(r, n) \/ ReadFails(r, n)

-----------------------------------------------------------------------------
Copies(r) == MapThenSumSet(LAMBDA n : dir[n].sources[r], DOMAIN dir)

\* As long as runs that read reports do not overlap with others, and reads do not fail,
\* no run is counted twice on disk, wherever a run crashes; and a run that has been
\* reported is on disk, or in the memory of a run that is merging, or went down with one
\* that crashed before its own report was written (merge.c:835 unlinks before that).
RunsReportedOnce ==
  ~ disturbed =>
    \A r \in Run :
      /\ Copies(r) <= 1
      /\ phase[r] = "ended" =>
           \/ Copies(r) = 1
           \/ \E s \in Run : (Busy(s) \/ phase[s] = "crashed") /\ memory[s].sources[r] > 0

\* A report adds up runs of one binary, one metric and one resolution, and none with
\* calling contexts but its writer ("Merge of reports with CCT is not yet supported",
\* merge.c:632), whatever other runs do meanwhile.
NothingMixed ==
  \A n \in DOMAIN dir : \A r \in Run :
    LET w == dir[n].writer
    IN  dir[n].sources[r] > 0 =>
          /\ \A x \in Field : info[r][x] = info[w][x]
          /\ r = w \/ ~ info[r].cct

\* No report is ever written over that of another run, not even when a pid comes again
\* (O_EXCL, fwrite.c:39, and the attempts of report.c:68).
NeverOverwritten ==
  [][\A n \in DOMAIN dir \cap DOMAIN dir' : dir'[n].writer = dir[n].writer]_runVars
=============================================================================
