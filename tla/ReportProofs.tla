---------------------------- MODULE ReportProofs ----------------------------
(***************************************************************************)
(* Proofs about the reports in a directory and about aprof-helper, for any *)
(* number of runs, any combination of their programs and options, any      *)
(* number of names that create_report tries and any list of reports.       *)
(***************************************************************************)
EXTENDS MergingTool, TLAPS, FiniteSetTheorems, NaturalLemmas

-----------------------------------------------------------------------------
(* What reports add up.                                                    *)

\* Run s may be counted in what run r has merged.
MayCount(r, s) ==
  /\ \A x \in Field : info[s][x] = info[r][x]
  /\ s = r \/ ~ info[s].cct

\* The counts of a report or a runtime of run r.
CountsOf(r, bag) == bag \in Bag /\ \A s \in Run : bag[s] > 0 => MayCount(r, s)

\* A runtime of run r, and a file of it.
Own(r) == [mtime : {info[r].mtime}, metric : {info[r].metric}, res : {info[r].res},
           app : {info[r].app}, extra : Bag, sources : Bag]
OwnRuntime(r, rt) == rt \in Own(r) /\ CountsOf(r, rt.sources)

States == {"empty", "torn", "complete"}
Files(r) == [writer : {r}, state : States, k : Bag, sources : Bag, cct : {info[r].cct},
             mtime : {info[r].mtime}, metric : {info[r].metric}, res : {info[r].res},
             app : {info[r].app}]
OwnFile(r, f) == f \in Files(r) /\ CountsOf(r, f.sources)

InfoOK == info \in [Run -> RunInfo] /\ \A r \in Run, x \in Field : info[r][x] # NoValue
MemoryOK == DOMAIN memory = Run /\ \A r \in Run : OwnRuntime(r, memory[r])
DirOK == \A n \in DOMAIN dir : dir[n].writer \in Run /\ OwnFile(dir[n].writer, dir[n])

\* What is inductive: what a run holds in memory is as unmixed as what is on disk, since
\* each becomes the other.
IInv == InfoOK /\ MemoryOK /\ DirOK

-----------------------------------------------------------------------------
(* Counting.                                                               *)

\* A run counts itself once.
LEMMA OnlyIsOwn ==
  ASSUME NEW r \in Run
  PROVE  CountsOf(r, Only(r)) /\ CountsOf(r, Nothing)
  BY DEF CountsOf, Only, Nothing, Bag, MayCount

\* A sum counts what its parts count.
LEMMA SumOfCounts ==
  ASSUME NEW a \in Bag, NEW b \in Bag
  PROVE  /\ (a ++ b) \in Bag
         /\ \A s \in Run : (a ++ b)[s] > 0 => a[s] > 0 \/ b[s] > 0
  BY DEF Bag, ++

-----------------------------------------------------------------------------
(* The steps.                                                              *)

\* What agrees has the same resolution.
LEMMA SameResolution ==
  ASSUME NEW rt, NEW f, NEW any, Agrees(rt, f, any)
  PROVE  Fits(rt, f, "res")
BY DEF Agrees, Field

\* merge_report leaves a runtime unmixed, whatever report it is given.
LEMMA MergeKeepsApart ==
  ASSUME IInv, NEW r \in Run, NEW n \in DOMAIN dir
  PROVE  OwnRuntime(r, merge_report(memory[r], dir[n], FALSE).rt)
<1> DEFINE rt == memory[r]
           f == dir[n]
           w == f.writer
<1>1. OwnRuntime(r, rt) /\ w \in Run /\ OwnFile(w, f)
  BY DEF IInv, MemoryOK, DirOK
<1>2. CASE f.state = "empty" \/ ~ Agrees(rt, f, FALSE)
  BY <1>1, <1>2 DEF merge_report
<1>3. CASE f.state # "empty" /\ Agrees(rt, f, FALSE)
  <2>1. \A x \in Field : rt[x] = info[r][x] /\ f[x] = info[w][x]
    BY <1>1 DEF OwnRuntime, Own, OwnFile, Files, Field
  <2>2. \A x \in Field : info[r][x] = info[w][x]
    BY <1>1, <1>3, <2>1 DEF IInv, InfoOK, Agrees, Fits
  <2>3. OwnRuntime(r, Adopted(rt, f)) /\ Adopted(rt, f).sources = rt.sources
    <3>1. (rt.extra ++ f.k) \in Bag
      BY <1>1, SumOfCounts DEF OwnRuntime, Own, OwnFile, Files
    <3>2. rt.app # NoValue /\ rt.mtime = f.mtime /\ rt.metric = f.metric /\ rt.res = f.res
      BY <1>1, <2>1, <2>2 DEF IInv, InfoOK, Field
    <3> QED
      BY <1>1, <3>1, <3>2 DEF OwnRuntime, Own, Adopted
  <2>4. CASE f.cct
    BY <1>3, <2>3, <2>4, SameResolution DEF merge_report
  <2>5. CASE ~ f.cct
    <3>1. CountsOf(r, rt.sources ++ f.sources)
      <4>1. rt.sources \in Bag /\ f.sources \in Bag
        BY <1>1 DEF OwnRuntime, OwnFile, CountsOf
      <4>2. ASSUME NEW s \in Run, f.sources[s] > 0
            PROVE  MayCount(r, s)
        <5>1. MayCount(w, s)
          BY <1>1, <4>2 DEF OwnFile, CountsOf
        <5>2. ~ info[w].cct
          BY <1>1, <2>5 DEF OwnFile, Files
        <5> QED
          BY <2>2, <5>1, <5>2 DEF MayCount
      <4>3. ASSUME NEW s \in Run, rt.sources[s] > 0
            PROVE  MayCount(r, s)
        BY <1>1, <4>3 DEF OwnRuntime, CountsOf
      <4> QED
        BY <4>1, <4>2, <4>3, SumOfCounts DEF CountsOf
    <3>2. merge_report(rt, f, FALSE).rt
            = [Adopted(rt, f) EXCEPT !.sources = rt.sources ++ f.sources]
      BY <1>3, <2>3, <2>5, SameResolution DEF merge_report, TuplesAdded
    <3> QED
      BY <2>3, <3>1, <3>2 DEF OwnRuntime, Own, CountsOf
  <2> QED
    BY <2>4, <2>5
<1> QED
  BY <1>2, <1>3

\* The three parts speak of info, memory and dir alone.
LEMMA Stuttering ==
  ASSUME IInv, UNCHANGED <<info, memory, dir>>
  PROVE  IInv'
  BY DEF IInv, InfoOK, MemoryOK, DirOK, OwnRuntime, Own, OwnFile, Files, CountsOf, MayCount

\* A step that only changes one run's memory keeps the invariant.
LEMMA MemoryStep ==
  ASSUME IInv, NEW r \in Run, NEW rt, OwnRuntime(r, rt),
         memory' = [memory EXCEPT ![r] = rt], UNCHANGED <<info, dir>>
  PROVE  IInv'
<1>1. InfoOK' /\ DirOK'
  BY DEF IInv, InfoOK, DirOK, OwnFile, Files, CountsOf, MayCount
<1>2. ASSUME NEW s \in Run
      PROVE  OwnRuntime(s, memory'[s])
  BY DEF IInv, MemoryOK
<1>3. ASSUME NEW s \in Run
      PROVE  OwnRuntime(s, memory[s])'
  BY <1>2 DEF OwnRuntime, Own, CountsOf, MayCount
<1> QED
  BY <1>1, <1>3 DEF IInv, MemoryOK

\* So does one that puts a file of its own into the directory.
LEMMA FileStep ==
  ASSUME IInv, NEW r \in Run, NEW n, NEW f, OwnFile(r, f), f.writer = r,
         DOMAIN dir' \subseteq DOMAIN dir \cup {n},
         \A m \in DOMAIN dir' : dir'[m] = f \/ (m \in DOMAIN dir /\ dir'[m] = dir[m]),
         UNCHANGED <<info, memory>>
  PROVE  IInv'
<1>1. InfoOK' /\ MemoryOK'
  BY DEF IInv, InfoOK, MemoryOK, OwnRuntime, Own, CountsOf, MayCount
<1>2. ASSUME NEW m \in DOMAIN dir'
      PROVE  dir'[m].writer \in Run /\ OwnFile(dir'[m].writer, dir'[m])
  BY DEF IInv, DirOK
<1>3. DirOK'
  BY <1>2 DEF DirOK, OwnFile, Files, CountsOf, MayCount
<1> QED
  BY <1>1, <1>3 DEF IInv

\* A run starts with itself in memory, and the directory is empty.
LEMMA Initially == Init => IInv
<1> SUFFICES ASSUME Init PROVE IInv
  OBVIOUS
<1>1. InfoOK
  BY ScenariosAssumption DEF Init, RunInit, InfoOK
<1>2. ASSUME NEW r \in Run
      PROVE  OwnRuntime(r, RuntimeOf(r))
  BY OnlyIsOwn DEF OwnRuntime, Own, RuntimeOf, CountsOf
<1>3. MemoryOK
  BY <1>2 DEF Init, RunInit, MemoryOK
<1>4. DirOK
  BY DEF Init, RunInit, DirOK
<1> QED
  BY <1>1, <1>3, <1>4 DEF IInv

\* Every step of a run keeps memory and directory unmixed.
LEMMA RunKeepsApart ==
  ASSUME IInv, NEW r \in Run, RunStep(r)
  PROVE  IInv'
<1>1. CASE Finish(r) \/ Crash(r) \/ \E n \in left[r] : Skip(r, n)
  BY <1>1, Stuttering DEF Finish, Crash, Skip
<1>2. CASE \E n \in left[r] : Look(r, n) \/ ReadFails(r, n)
  <2>1. PICK n \in DOMAIN dir :
          /\ memory' = [memory EXCEPT ![r] = merge_report(memory[r], dir[n], FALSE).rt]
          /\ UNCHANGED <<info, dir>>
    BY <1>2 DEF Look, ReadFails, Skipped
  <2> QED
    BY <2>1, MergeKeepsApart, MemoryStep
<1>3. CASE Unlink(r)
  <2>1. /\ DOMAIN dir' \subseteq DOMAIN dir
        /\ \A m \in DOMAIN dir' : dir'[m] = dir[m]
        /\ UNCHANGED <<info, memory>>
    BY <1>3 DEF Unlink
  <2>2. InfoOK' /\ MemoryOK'
    BY <2>1 DEF IInv, InfoOK, MemoryOK, OwnRuntime, Own, CountsOf, MayCount
  <2>3. DirOK'
    BY <2>1 DEF IInv, DirOK, OwnFile, Files, CountsOf, MayCount
  <2> QED
    BY <2>2, <2>3 DEF IInv
<1>4. CASE Create(r)
  <2>1. PICK n : CreateAs(r, n)
    BY <1>4 DEF Create
  <2>2. OwnFile(r, File(r, "empty", Nothing, Nothing))
    BY OnlyIsOwn DEF OwnFile, Files, File, CountsOf, States
  <2>3. File(r, "empty", Nothing, Nothing).writer = r
    BY DEF File
  <2> QED
    BY <2>1, <2>2, <2>3, FileStep DEF CreateAs
<1>5. CASE Flush(r)
  <2>1. OwnFile(r, File(r, "torn", Only(r), Nothing))
    BY OnlyIsOwn DEF OwnFile, Files, File, CountsOf, States
  <2>2. File(r, "torn", Only(r), Nothing).writer = r
    BY DEF File
  <2> QED
    BY <1>5, <2>1, <2>2, FileStep DEF Flush, Linked
<1>6. CASE Close(r)
  <2> DEFINE f == File(r, "complete", Only(r), memory[r].sources)
             written == IF Linked(r) THEN [dir EXCEPT ![name[r]] = f] ELSE dir
  <2>1. OwnFile(r, f) /\ f.writer = r
    BY OnlyIsOwn DEF IInv, MemoryOK, OwnRuntime, OwnFile, Files, File, CountsOf, States
  <2>2. /\ dir' = written /\ info' = info
        /\ memory' = [memory EXCEPT ![r] = RuntimeOf(r)]
    BY <1>6 DEF Close
  <2>3. DirOK'
    <3>1. ASSUME NEW m \in DOMAIN written
          PROVE  written[m].writer \in Run /\ OwnFile(written[m].writer, written[m])
      BY <2>1 DEF IInv, DirOK, Linked
    <3> HIDE DEF written
    <3>2. ASSUME NEW q, NEW g, OwnFile(q, g)
          PROVE  OwnFile(q, g)'
      BY <2>2, <3>2 DEF OwnFile, Files, CountsOf, MayCount
    <3>3. \A m \in DOMAIN dir' : /\ m \in DOMAIN written /\ dir'[m] = written[m]
                                /\ dir'[m].writer \in Run
      BY <2>2, <3>1
    <3>4. \A m \in DOMAIN dir' : OwnFile(dir[m].writer, dir[m])'
      BY <3>1, <3>2, <3>3
    <3> QED
      BY <3>3, <3>4 DEF DirOK
  <2>4. OwnRuntime(r, RuntimeOf(r))
    BY OnlyIsOwn DEF OwnRuntime, Own, RuntimeOf, CountsOf
  <2>5. MemoryOK'
    <3>1. ASSUME NEW s \in Run
          PROVE  OwnRuntime(s, memory'[s])
      BY <2>2, <2>4 DEF IInv, MemoryOK
    <3> QED
      BY <2>2, <3>1 DEF IInv, MemoryOK, OwnRuntime, Own, CountsOf, MayCount
  <2>6. InfoOK'
    BY <2>2 DEF IInv, InfoOK
  <2> QED
    BY <2>3, <2>5, <2>6 DEF IInv
<1> QED
  BY <1>1, <1>2, <1>3, <1>4, <1>5, <1>6 DEF RunStep

\* The invariant is inductive; aprof-helper changes nothing that it speaks of.
LEMMA NextStep == IInv /\ [Next]_vars => IInv'
<1> SUFFICES ASSUME IInv, [Next]_vars PROVE IInv'
  OBVIOUS
<1>1. CASE \E r \in Run : RunStep(r)
  BY <1>1, RunKeepsApart
<1>2. CASE UNCHANGED runVars
  BY <1>2, Stuttering DEF runVars
<1> QED
  BY <1>1, <1>2 DEF Next, vars, StartTool, ToolStep, ToolFails, ToolSkips

\* What runs hold in memory and what is on disk is unmixed in every reachable state.
THEOREM Invariance == Spec => []IInv
  BY Initially, NextStep, PTL DEF Spec

\* A report on disk adds up runs of one binary, metric and resolution, and none with
\* calling contexts but its writer, however runs overlap, crash, skip reports and read
\* half of them: merge_report rejects by the header, before the first tuple.
THEOREM Unmixed == Spec => []NothingMixed
<1>1. IInv => NothingMixed
  <2> SUFFICES ASSUME IInv, NEW n \in DOMAIN dir, NEW r \in Run, dir[n].sources[r] > 0
               PROVE  MayCount(dir[n].writer, r)
    BY DEF NothingMixed, MayCount
  <2> QED
    BY DEF IInv, DirOK, OwnFile, CountsOf
<1> QED
  BY <1>1, Invariance, PTL

\* No run writes over the report of another, even if it comes with the same pid: a new
\* report takes a name that is free, and its writer touches it only while it is linked.
THEOREM FilesAreSafe == Spec => NeverOverwritten
<1> DEFINE Kept == \A n \in DOMAIN dir \cap DOMAIN dir' : dir'[n].writer = dir[n].writer
<1>1. ASSUME NEW r \in Run, RunStep(r)
      PROVE  Kept
  <2>1. CASE UNCHANGED dir
    BY <2>1
  <2>2. CASE Unlink(r)
    BY <2>2 DEF Unlink
  <2>3. CASE Create(r)
    <3>1. PICK n \in Free(r) : CreateAs(r, Name(r, n))
      BY <2>3 DEF Create
    <3>2. Name(r, n) \notin DOMAIN dir
      BY DEF Free
    <3> QED
      BY <3>1, <3>2 DEF CreateAs
  <2>4. CASE Flush(r) \/ Close(r)
    BY <2>4 DEF Flush, Close, Linked, File
  <2> QED
    BY <1>1, <2>1, <2>2, <2>3, <2>4
      DEF RunStep, Finish, Crash, Skip, Look, ReadFails
<1>2. [Next]_vars => [Kept]_runVars
  BY <1>1 DEF Next, vars, StartTool, ToolStep, ToolFails, ToolSkips
<1> QED
  BY <1>2, PTL DEF Spec, NeverOverwritten

-----------------------------------------------------------------------------
(* The loops of aprof-helper.                                              *)

Fields == {"phase", "option", "list", "struck", "i", "curr", "merged", "rt", "group", "out"}
Looping(t) == t.phase \in {"threads", "runs"}
IsSeq(s) == s \in Seq(Range(s))

\* The state of a loop: what it has passed over without taking it up is struck off, `curr`
\* is behind it and not struck off, and once nothing is left something has been written.
LoopOK(t) ==
  Looping(t) =>
    /\ DOMAIN t = Fields
    /\ IsSeq(t.list) /\ IsSeq(t.out)
    /\ t.i \in 1..Len(t.list) /\ t.curr \in 0..(t.i - 1)
    /\ t.struck \subseteq 1..Len(t.list)
    /\ t.curr = 0 => 1..(t.i - 1) \subseteq t.struck
    /\ t.curr \notin t.struck
    /\ t.out = <<>> => \E j \in 1..Len(t.list) : j \notin t.struck

ToolInv ==
  /\ IsFiniteSet(DOMAIN dir)
  /\ tool.phase = "off" => tool = Off
  /\ LoopOK(tool)

\* What becomes of t by looking at list[i]: it is passed over or taken up, or merged and
\* struck off.
Looked(t, u) ==
  /\ DOMAIN u = Fields
  /\ u.phase = t.phase /\ u.list = t.list /\ u.i = t.i /\ u.out = t.out
  /\ \/ /\ u.struck = t.struck
        /\ \/ u.curr = t.curr /\ (t.curr = 0 => t.i \in t.struck)
           \/ t.curr = 0 /\ u.curr = t.i /\ t.i \notin t.struck
     \/ /\ t.curr # 0 /\ t.i \notin t.struck
        /\ u.curr = t.curr /\ u.struck = t.struck \cup {t.i}

\* A turn strikes off a report or comes nearer to the end of the list, or is the last.
Nearer(t, u) ==
  \/ u.phase = t.phase
       /\ \/ Remaining(u) < Remaining(t)
          \/ Remaining(u) = Remaining(t) /\ u.i > t.i
  \/ t.phase = "threads" /\ u.phase = "runs" /\ Remaining(t) = 0
  \/ u.phase = "done" /\ Remaining(t) = 0
  \/ u.phase = "aborted"

-----------------------------------------------------------------------------
\* Appending to a sequence.
LEMMA AppendIsSeq ==
  ASSUME NEW s, IsSeq(s), NEW x
  PROVE  IsSeq(Append(s, x)) /\ Len(Append(s, x)) = Len(s) + 1 /\ Append(s, x) # <<>>
<1> DEFINE S == Range(s) \cup {x}
<1>1. s \in Seq(S)
  BY DEF IsSeq
<1>2. Append(s, x) \in Seq(S) /\ Len(Append(s, x)) = Len(s) + 1
  BY <1>1
<1>3. \A j \in 1..Len(Append(s, x)) : Append(s, x)[j] \in Range(Append(s, x))
  BY <1>2 DEF Range
<1>4. Append(s, x) \in Seq(Range(Append(s, x)))
  BY <1>2, <1>3
<1>5. Len(s) \in Nat
  BY <1>1
<1> QED
  BY <1>2, <1>4, <1>5 DEF IsSeq

\* What is left of a list, when an entry is struck off.
LEMMA StrikeOne ==
  ASSUME NEW n \in Nat, NEW S \in SUBSET (1..n), NEW T \in SUBSET (1..n), S \subseteq T
  PROVE  /\ Cardinality((1..n) \ S) \in Nat
         /\ Cardinality((1..n) \ T) <= Cardinality((1..n) \ S)
         /\ T # S => Cardinality((1..n) \ T) < Cardinality((1..n) \ S)
         /\ S = 1..n => Cardinality((1..n) \ S) = 0
<1>1. IsFiniteSet(1..n)
  BY 1 \in Int, n \in Int, FS_Interval
<1>2. IsFiniteSet((1..n) \ S) /\ IsFiniteSet((1..n) \ T)
  <2>1. (1..n) \ S \subseteq 1..n /\ (1..n) \ T \subseteq 1..n
    OBVIOUS
  <2> QED
    BY <1>1, <2>1, FS_Subset
<1>3. Cardinality((1..n) \ S) \in Nat /\ Cardinality((1..n) \ T) \in Nat
  BY <1>2, FS_CardinalityType
<1>4. (1..n) \ T \subseteq (1..n) \ S
  OBVIOUS
<1>5. /\ Cardinality((1..n) \ T) <= Cardinality((1..n) \ S)
      /\ Cardinality((1..n) \ T) = Cardinality((1..n) \ S) => (1..n) \ T = (1..n) \ S
  BY <1>2, <1>4, FS_Subset
<1>6. T # S => (1..n) \ T # (1..n) \ S
  OBVIOUS
<1>7. S = 1..n => (1..n) \ S = {}
  OBVIOUS
<1> QED
  BY <1>3, <1>5, <1>6, <1>7, FS_EmptySet

-----------------------------------------------------------------------------
\* Merging keeps the place in the list, or aborts.
LEMMA MergeKeepsPlace ==
  ASSUME NEW t, DOMAIN t = Fields, t.phase # "aborted", NEW j
  PROVE  LET u == MustMerge(t, j)
         IN  \/ u = Abort
             \/ /\ DOMAIN u = Fields
                /\ u.phase = t.phase /\ u.list = t.list /\ u.i = t.i /\ u.out = t.out
                /\ u.struck = t.struck /\ u.curr = t.curr
  BY DEF MustMerge, Fields

\* One turn of merge_by_thread.
LEMMA LookTurnsThread ==
  ASSUME NEW t, LoopOK(t), t.phase = "threads"
  PROVE  LookByThread(t) = Abort \/ Looked(t, LookByThread(t))
<1>1. DOMAIN t = Fields /\ t.i # 0
  BY DEF LoopOK, Looping
<1>2. CASE t.i \in t.struck
  BY <1>1, <1>2 DEF LookByThread, Looked
<1>3. CASE t.i \notin t.struck /\ t.curr = 0
  BY <1>1, <1>3 DEF LookByThread, Looked, Fields
<1>4. CASE t.i \notin t.struck /\ t.curr # 0 /\ t.list[t.i].pid # t.list[t.curr].pid
  BY <1>1, <1>4 DEF LookByThread, Looked
<1>5. CASE t.i \notin t.struck /\ t.curr # 0 /\ t.list[t.i].pid = t.list[t.curr].pid
  <2> DEFINE r == [t EXCEPT !.rt = Reset(t.rt)]
             begun == IF t.merged = 0 THEN MustMerge(r, t.curr) ELSE t
             done == IF begun.phase = "aborted" THEN begun ELSE MustMerge(begun, t.i)
             Same(u) == /\ DOMAIN u = Fields
                        /\ u.phase = t.phase /\ u.list = t.list /\ u.i = t.i
                        /\ u.out = t.out /\ u.struck = t.struck /\ u.curr = t.curr
  <2>1. LookByThread(t) = IF done.phase = "aborted" THEN done ELSE Strike(done, t.i)
    BY <1>5 DEF LookByThread
  <2>2. Same(r)
    BY <1>1 DEF Fields
  <2>3. begun = Abort \/ Same(begun)
    <3> HIDE DEF r
    <3> QED
      BY <1>1, <2>2, MergeKeepsPlace
  <2>4. Abort.phase = "aborted" /\ t.phase # "aborted"
    BY DEF Abort, Off
  <2>5. done = Abort \/ Same(done)
    <3> HIDE DEF begun
    <3> QED
      BY <2>3, <2>4, MergeKeepsPlace
  <2> HIDE DEF done
  <2>6. Same(done) => Looked(t, Strike(done, t.i))
    BY <1>5 DEF Looked, Strike, Fields
  <2> QED
    BY <2>1, <2>4, <2>5, <2>6
<1> QED
  BY <1>2, <1>3, <1>4, <1>5

\* One turn of merge_by_run.
LEMMA LookTurnsRun ==
  ASSUME NEW t, LoopOK(t), t.phase = "runs"
  PROVE  LookByRun(t) = Abort \/ Looked(t, LookByRun(t))
<1>1. DOMAIN t = Fields /\ t.i # 0
  BY DEF LoopOK, Looping
<1>2. CASE t.i \in t.struck \/ (t.curr # 0 /\ ~ GoesWith(t, t.list[t.i]))
  BY <1>1, <1>2 DEF LookByRun, Looked
<1>3. CASE t.i \notin t.struck /\ t.curr = 0
  <2> DEFINE s == [t EXCEPT !.curr = t.i, !.rt = Reset(t.rt), !.group = {}]
  <2>1. LookByRun(t) = MustMerge(s, t.i)
    BY <1>1, <1>3 DEF LookByRun
  <2>2. /\ DOMAIN s = Fields /\ s.phase = "runs" /\ s.list = t.list /\ s.i = t.i
        /\ s.out = t.out /\ s.struck = t.struck /\ s.curr = t.i
    BY <1>1 DEF Fields
  <2> HIDE DEF s
  <2> QED
    BY <1>3, <2>1, <2>2, MergeKeepsPlace DEF Looked
<1>4. CASE t.i \notin t.struck /\ t.curr # 0 /\ GoesWith(t, t.list[t.i])
  <2> DEFINE m == merge_report(t.rt, t.list[t.i].file, t.option = "i")
  <2>1. CASE ~ m.ok
    <3>1. LookByRun(t) = [t EXCEPT !.rt = m.rt]
      BY <1>4, <2>1 DEF LookByRun
    <3> HIDE DEF m
    <3> QED
      BY <1>1, <1>4, <3>1 DEF Looked, Fields
  <2>2. CASE m.ok
    <3>1. LookByRun(t) = Strike(MustMerge(t, t.i), t.i)
      BY <1>4, <2>2 DEF LookByRun
    <3>2. MustMerge(t, t.i) = [t EXCEPT !.rt = m.rt, !.merged = t.merged + 1,
                                 !.group = t.group \cup t.list[t.i].parts]
      BY <2>2 DEF MustMerge
    <3> HIDE DEF m
    <3> QED
      BY <1>1, <1>4, <3>1, <3>2 DEF Looked, Strike, Fields
  <2> QED
    BY <2>1, <2>2
<1> QED
  BY <1>2, <1>3, <1>4

-----------------------------------------------------------------------------
\* The next report of the list, or the end of the round.
LEMMA AdvanceTurns ==
  ASSUME NEW t, Looping(t), LoopOK(t), NEW u, Looked(t, u)
  PROVE  LoopOK(Advance(u)) /\ Nearer(t, Advance(u))
<1> DEFINE n == Len(t.list)
           unstruck(S) == Cardinality((1..n) \ S)
<1>1. /\ n \in Nat /\ DOMAIN t.list = 1..n /\ t.i \in 1..n /\ t.curr \in 0..(t.i - 1)
      /\ t.struck \subseteq 1..n /\ t.curr \notin t.struck
      /\ t.curr = 0 => 1..(t.i - 1) \subseteq t.struck
      /\ t.out = <<>> => \E j \in 1..n : j \notin t.struck
      /\ IsSeq(t.list) /\ IsSeq(t.out) /\ t.phase \in {"threads", "runs"}
  BY DEF LoopOK, Looping, IsSeq
<1>2. /\ DOMAIN u = Fields /\ u.phase = t.phase /\ u.list = t.list /\ u.i = t.i
      /\ u.out = t.out /\ t.struck \subseteq u.struck /\ u.struck \subseteq 1..n
      /\ u.struck # t.struck => u.curr # 0
      /\ u.curr \in 0..t.i /\ u.curr \notin u.struck
      /\ u.curr = 0 => 1..t.i \subseteq u.struck /\ u.struck = t.struck
  BY <1>1 DEF Looked
<1>3. /\ unstruck(t.struck) \in Nat /\ unstruck(u.struck) <= unstruck(t.struck)
      /\ unstruck(u.struck) # unstruck(t.struck) => unstruck(u.struck) < unstruck(t.struck)
      /\ u.struck = 1..n => unstruck(u.struck) = 0
  <2>1. unstruck(t.struck) \in Nat /\ unstruck(u.struck) <= unstruck(t.struck) /\ unstruck(u.struck) \in Nat
    BY <1>1, <1>2, StrikeOne
  <2>2. u.struck = 1..n => unstruck(u.struck) = 0
    BY <1>2, <1>1, StrikeOne
  <2> HIDE DEF unstruck
  <2> QED
    BY <2>1, <2>2
<1>4. Remaining(t) = unstruck(t.struck)
  BY <1>1 DEF Remaining
<1>5. CASE t.i # n
  <2>1. Advance(u) = [u EXCEPT !.i = u.i + 1]
    BY <1>1, <1>2, <1>5 DEF Advance
  <2>2. /\ DOMAIN Advance(u) = Fields /\ Advance(u).phase = t.phase
        /\ Advance(u).list = t.list /\ Advance(u).i = t.i + 1 /\ Advance(u).out = t.out
        /\ Advance(u).struck = u.struck /\ Advance(u).curr = u.curr
    BY <1>2, <2>1 DEF Fields
  <2>3. Remaining(Advance(u)) = unstruck(u.struck)
    BY <1>1, <2>2 DEF Remaining
  <2>4. Nearer(t, Advance(u))
    <3> HIDE DEF unstruck
    <3> QED
      BY <1>1, <1>3, <1>4, <2>2, <2>3 DEF Nearer
  <2>5. t.out = <<>> => \E j \in 1..n : j \notin u.struck
    BY <1>1, <1>2
  <2>6. LoopOK(Advance(u))
    BY <1>1, <1>2, <1>5, <2>2, <2>5 DEF LoopOK
  <2> QED
    BY <2>4, <2>6
<1>6. CASE t.i = n /\ u.curr # 0
  <2> DEFINE new == IF u.merged > 0 THEN Sum(u) ELSE u.list[u.curr]
             v == [Strike(u, u.curr) EXCEPT !.out = Append(u.out, new), !.curr = 0,
                                            !.merged = 0, !.group = {}, !.i = 1]
             more == u.struck \cup {u.curr}
  <2>1. Advance(u) = v
    <3>1. Strike(u, u.curr).out = u.out
      BY <1>2 DEF Strike, Fields
    <3>2. u.phase # "aborted" /\ u.i = Len(u.list)
      BY <1>1, <1>2, <1>6
    <3> QED
      BY <1>6, <3>1, <3>2 DEF Advance, Finished
  <2>2. /\ DOMAIN v = Fields /\ v.phase = t.phase /\ v.list = t.list /\ v.i = 1
        /\ v.out = Append(t.out, new) /\ v.struck = more /\ v.curr = 0
    <3> HIDE DEF new
    <3> QED
      BY <1>2 DEF Fields, Strike
  <2>3. more \subseteq 1..n /\ more # u.struck /\ u.struck \subseteq more
    BY <1>1, <1>2, <1>6
  <2>4. unstruck(more) < unstruck(u.struck) /\ unstruck(u.struck) \in Nat /\ unstruck(more) \in Nat
    BY <1>1, <1>2, <2>3, StrikeOne
  <2>5. IsSeq(v.out) /\ v.out # <<>>
    <3> HIDE DEF new, v
    <3> QED
      BY <1>1, <2>2, AppendIsSeq
  <2>6. Remaining(v) = unstruck(more)
    <3> HIDE DEF v, more
    <3> QED
      BY <1>1, <2>2 DEF Remaining
  <2>7. Nearer(t, v)
    <3>1. unstruck(more) < unstruck(t.struck)
      <4> HIDE DEF unstruck, more
      <4> QED
        BY <1>3, <2>4
    <3> HIDE DEF v, unstruck
    <3> QED
      BY <1>4, <2>2, <2>6, <3>1 DEF Nearer
  <2>8. LoopOK(v)
    <3>1. 0 \notin more
      BY <1>1, <1>2, <1>6
    <3> HIDE DEF v, more
    <3> QED
      BY <1>1, <2>2, <2>3, <2>5, <3>1 DEF LoopOK
  <2> QED
    BY <2>1, <2>7, <2>8
<1>7. CASE t.i = n /\ u.curr = 0
  <2>1. u.struck = 1..n /\ t.struck = 1..n /\ Remaining(t) = 0
    <3>1. u.struck = 1..n /\ t.struck = 1..n
      BY <1>1, <1>2, <1>7
    <3> QED
      BY <1>3, <1>4, <3>1
  <2>2. Advance(u) = Finished(u)
    BY <1>1, <1>2, <1>7 DEF Advance
  <2>3. CASE u.phase = "threads" /\ u.option = "tr"
    <3> DEFINE v == [u EXCEPT !.phase = "runs", !.list = u.out, !.struck = {},
                              !.out = <<>>, !.i = 1]
    <3>1. Advance(u) = v
      BY <1>7, <2>2, <2>3 DEF Finished
    <3>2. /\ DOMAIN v = Fields /\ v.phase = "runs" /\ v.list = t.out /\ v.i = 1
          /\ v.out = <<>> /\ v.struck = {} /\ v.curr = 0
      BY <1>2, <1>7 DEF Fields
    <3>3. t.out # <<>> /\ Len(t.out) \in Nat /\ Len(t.out) # 0
      BY <1>1, <2>1 DEF IsSeq
    <3>4. IsSeq(<<>>)
      BY DEF IsSeq
    <3> HIDE DEF v
    <3>5. LoopOK(v)
      BY <1>1, <3>2, <3>3, <3>4 DEF LoopOK
    <3>6. Nearer(t, v)
      BY <1>2, <2>1, <2>3, <3>2 DEF Nearer
    <3> QED
      BY <3>1, <3>5, <3>6
  <2>4. CASE ~ (u.phase = "threads" /\ u.option = "tr")
    <3> DEFINE v == [u EXCEPT !.phase = "done"]
    <3>1. Advance(u) = v
      BY <1>7, <2>2, <2>4 DEF Finished
    <3>2. v.phase = "done"
      BY <1>2 DEF Fields
    <3> HIDE DEF v
    <3> QED
      BY <2>1, <3>1, <3>2 DEF LoopOK, Looping, Nearer
  <2> QED
    BY <2>3, <2>4
<1> QED
  BY <1>5, <1>6, <1>7

-----------------------------------------------------------------------------
\* A run leaves finitely many reports.
LEMMA RunKeepsFinite ==
  ASSUME IsFiniteSet(DOMAIN dir), NEW r \in Run, RunStep(r)
  PROVE  IsFiniteSet(DOMAIN dir)'
<1>1. CASE UNCHANGED dir
  BY <1>1
<1>2. CASE Unlink(r)
  <2>1. DOMAIN dir' = DOMAIN dir \ {at[r]}
    BY <1>2 DEF Unlink
  <2>2. IsFiniteSet(DOMAIN dir \ {at[r]})
    BY FS_RemoveElement
  <2> QED
    BY <2>1, <2>2
<1>3. CASE Create(r)
  <2>1. PICK n : CreateAs(r, n)
    BY <1>3 DEF Create
  <2>2. DOMAIN dir' = DOMAIN dir \cup {n}
    BY <2>1 DEF CreateAs
  <2>3. IsFiniteSet(DOMAIN dir \cup {n})
    BY FS_AddElement
  <2> QED
    BY <2>2, <2>3
<1>4. CASE Flush(r) \/ Close(r)
  <2>1. DOMAIN dir' = DOMAIN dir
    BY <1>4 DEF Flush, Close
  <2> QED
    BY <2>1
<1> QED
  BY <1>1, <1>2, <1>3, <1>4 DEF RunStep, Finish, Crash, Skip, Look, ReadFails

\* The list that main starts from.
LEMMA StartIsOK ==
  ASSUME ToolInv, DOMAIN dir # {},
         NEW list \in SetToSeqs(DOMAIN dir), NEW option \in Options, StartTool(list, option)
  PROVE  LoopOK(tool)' /\ tool'.phase \in {"threads", "runs"}
<1> DEFINE n == Cardinality(DOMAIN dir)
           entries == [j \in DOMAIN list |-> Entry(list[j])]
           first == IF option \in {"t", "tr"} THEN "threads" ELSE "runs"
<1>1. tool = Off /\ tool' = [tool EXCEPT !.phase = first, !.option = option, !.list = entries]
  BY DEF ToolInv, StartTool
<1>2. DOMAIN list = 1..n
  BY DEF SetToSeqs
<1>3. n \in Nat /\ n # 0
  BY FS_CardinalityType, FS_EmptySet DEF ToolInv
<1>4. IsSeq(entries) /\ Len(entries) = n
  <2>1. entries = [j \in 1..n |-> Entry(list[j])]
    BY <1>2
  <2> DEFINE e(j) == Entry(list[j])
  <2>2. entries \in [1..n -> Range(entries)]
    <3>1. \A j \in 1..n : entries[j] \in Range(entries)
      BY <2>1 DEF Range
    <3> QED
      BY <2>1, <3>1
  <2> HIDE DEF entries, n
  <2> QED
    BY <1>3, <2>2 DEF IsSeq
<1>5. IsSeq(<<>>)
  BY DEF IsSeq
<1>6. /\ DOMAIN tool' = Fields /\ tool'.phase = first /\ tool'.list = entries /\ tool'.i = 1
      /\ tool'.curr = 0 /\ tool'.struck = {} /\ tool'.out = <<>>
  <2> HIDE DEF entries, first
  <2> QED
    BY <1>1 DEF Off, Fields
<1> HIDE DEF entries, n
<1> QED
  BY <1>3, <1>4, <1>5, <1>6 DEF LoopOK

\* Every turn leaves the loop in order and nearer to its end.
LEMMA TurnsAreNearer ==
  ASSUME ToolInv, ToolStep \/ ToolFails \/ ToolSkips
  PROVE  LoopOK(tool)' /\ Looping(tool) /\ Nearer(tool, tool')
<1>1. ~ Looping(Abort) /\ Abort.phase = "aborted" /\ Advance(Abort) = Abort
  BY DEF Looping, Abort, Off, Advance
<1>2. Looping(tool) /\ LoopOK(tool)
  BY DEF ToolStep, ToolFails, ToolSkips, Reads, Looping, ToolInv
<1>3. LoopOK(Abort) /\ Nearer(tool, Abort)
  BY <1>1 DEF LoopOK, Nearer
<1>4. CASE ToolStep
  <2> DEFINE u == IF tool.phase = "threads" THEN LookByThread(tool) ELSE LookByRun(tool)
  <2>1. u = Abort \/ Looked(tool, u)
    BY <1>2, LookTurnsThread, LookTurnsRun DEF Looping
  <2>2. tool' = Advance(u)
    BY <1>4 DEF ToolStep
  <2> HIDE DEF u
  <2>3. LoopOK(Advance(u)) /\ Nearer(tool, Advance(u))
    BY <1>1, <1>2, <1>3, <2>1, AdvanceTurns
  <2> QED
    BY <1>2, <2>2, <2>3 DEF LoopOK, Looping
<1>5. CASE ToolFails
  <2>1. tool' = Abort
    BY <1>5 DEF ToolFails
  <2> QED
    BY <1>1, <1>2, <1>3, <2>1 DEF LoopOK, Looping
<1>6. CASE ToolSkips
  <2>1. tool' = Advance(tool) /\ tool.curr # 0
    BY <1>6 DEF ToolSkips
  <2>2. Looked(tool, tool)
    BY <1>2, <2>1 DEF Looked, LoopOK
  <2>3. LoopOK(Advance(tool)) /\ Nearer(tool, Advance(tool))
    BY <1>2, <2>2, AdvanceTurns
  <2> QED
    BY <1>2, <2>1, <2>3 DEF LoopOK, Looping
<1> QED
  BY <1>4, <1>5, <1>6

LEMMA ToolInvInit == Init => ToolInv
<1> SUFFICES ASSUME Init PROVE ToolInv
  OBVIOUS
<1>1. tool = Off /\ dir = <<>>
  BY DEF Init, RunInit
<1>2. DOMAIN dir = {}
  BY <1>1
<1>3. ~ Looping(tool)
  BY <1>1 DEF Off, Looping
<1> QED
  BY <1>1, <1>2, <1>3, FS_EmptySet DEF ToolInv, LoopOK

LEMMA ToolInvNext == ToolInv /\ [Next]_vars => ToolInv'
<1> SUFFICES ASSUME ToolInv, [Next]_vars PROVE ToolInv'
  OBVIOUS
<1>1. CASE tool.phase = "off" /\ (\E r \in Run : RunStep(r)) /\ UNCHANGED tool
  <2>1. IsFiniteSet(DOMAIN dir)'
    BY <1>1, RunKeepsFinite DEF ToolInv
  <2> QED
    BY <1>1, <2>1 DEF ToolInv, LoopOK, Looping
<1>2. ASSUME DOMAIN dir # {}, NEW list \in SetToSeqs(DOMAIN dir), NEW option \in Options,
             StartTool(list, option)
      PROVE  ToolInv'
  <2>1. LoopOK(tool)' /\ tool'.phase # "off"
    BY <1>2, StartIsOK
  <2>2. UNCHANGED dir
    BY <1>2 DEF StartTool, runVars
  <2> QED
    BY <2>1, <2>2 DEF ToolInv
<1>3. CASE ToolStep \/ ToolFails \/ ToolSkips
  <2>1. LoopOK(tool)' /\ tool'.phase # "off"
    BY <1>3, TurnsAreNearer DEF Looping, Nearer
  <2>2. UNCHANGED dir
    BY <1>3 DEF ToolStep, ToolFails, ToolSkips, runVars
  <2> QED
    BY <2>1, <2>2 DEF ToolInv
<1>4. CASE UNCHANGED vars
  <2>1. UNCHANGED dir /\ UNCHANGED tool
    BY <1>4 DEF vars, runVars
  <2> QED
    BY <2>1 DEF ToolInv, LoopOK, Looping
<1> QED
  BY <1>1, <1>2, <1>3, <1>4 DEF Next

\* ToolInv is an invariant of the specification.
THEOREM Loops == Spec => []ToolInv
<1> QED
  BY ToolInvInit, ToolInvNext, PTL DEF Spec

\* The loops of aprof-helper over its list of reports end, however many reports there are
\* and whichever can be read: each turn makes what is left of the list, and then of the
\* round, smaller.
THEOREM ToolEnds == Spec => LoopsEnd
<1> DEFINE Turn ==
      tool.phase \in {"threads", "runs"} =>
        \/ tool'.phase = tool.phase
             /\ \/ Remaining(tool') < Remaining(tool)
                \/ Remaining(tool') = Remaining(tool) /\ tool'.i > tool.i
        \/ tool.phase = "threads" /\ tool'.phase = "runs" /\ Remaining(tool) = 0
        \/ tool'.phase = "done" /\ Remaining(tool) = 0
        \/ tool'.phase = "aborted"
<1>1. ToolInv /\ [Next]_vars => [Turn]_tool
  <2> SUFFICES ASSUME ToolInv, Next, tool.phase \in {"threads", "runs"}, tool' # tool
               PROVE  Turn
    BY DEF vars
  <2>1. ToolStep \/ ToolFails \/ ToolSkips
    BY DEF Next, StartTool
  <2> QED
    BY <2>1, TurnsAreNearer DEF Nearer
<1>2. LoopsEnd <=> [][Turn]_tool
  BY DEF LoopsEnd
<1> QED
  BY <1>1, <1>2, Loops, PTL DEF Spec

-----------------------------------------------------------------------------
(* Types.                                                                  *)

\* A report on a list has counts, and so have all of them.
EntryOK(e) ==
  /\ DOMAIN e = {"pid", "tid", "file", "parts"}
  /\ {"k", "sources"} \subseteq DOMAIN e.file
  /\ e.file.k \in Bag /\ e.file.sources \in Bag
Entries(s) == \A j \in 1..Len(s) : EntryOK(s[j])

\* What reports up to list[i] may have done to the runtime of aprof-helper.
RuntimeBefore(t, i) ==
  /\ t.option \in Options /\ RuntimeOK(t.rt)
  /\ t.merged \in 0..(i - 1) /\ (t.curr = 0 => t.merged = 0)

\* The state of aprof-helper.  No more reports are merged into a group than have been seen.
ToolTypes(t) ==
  /\ t.phase \in {"off", "threads", "runs", "done", "aborted"}
  /\ DOMAIN t = Fields
  /\ t.option \in Options /\ RuntimeOK(t.rt)
  /\ t.curr \in 0..Len(t.list) /\ t.struck \subseteq DOMAIN t.list /\ t.curr \notin t.struck
  /\ t.merged \in 0..Len(t.list)
  /\ Looping(t) => Entries(t.list) /\ Entries(t.out) /\ RuntimeBefore(t, t.i)

RunTypes ==
  /\ phase \in [Run -> {"running", "merging", "unlinking", "writing", "ended", "crashed"}]
  /\ DOMAIN dir \subseteq FileName
  /\ at \in [Run -> FileName \cup {NoValue}] /\ name \in [Run -> FileName \cup {NoValue}]
  /\ left \in [Run -> SUBSET FileName]
  /\ \A r \in Run : phase[r] = "unlinking" => at[r] # NoValue
  /\ disturbed \in BOOLEAN

\* merge_report adds counts to counts.
LEMMA MergeKeepsCounts ==
  ASSUME NEW rt, RuntimeOK(rt), NEW e, EntryOK(e), NEW any \in BOOLEAN
  PROVE  RuntimeOK(merge_report(rt, e.file, any).rt)
<1> DEFINE f == e.file
<1>1. /\ DOMAIN rt = {"mtime", "metric", "res", "app", "extra", "sources"}
      /\ rt.extra \in Bag /\ rt.sources \in Bag /\ f.k \in Bag /\ f.sources \in Bag
  BY DEF RuntimeOK, EntryOK, Unset
<1> HIDE DEF f
<1>2. (rt.extra ++ f.k) \in Bag /\ (rt.sources ++ f.sources) \in Bag
  BY <1>1, SumOfCounts
<1>3. /\ DOMAIN Adopted(rt, f) = {"mtime", "metric", "res", "app", "extra", "sources"}
      /\ Adopted(rt, f).extra = rt.extra ++ f.k /\ Adopted(rt, f).sources = rt.sources
  BY <1>1 DEF Adopted
<1>4. RuntimeOK(Adopted(rt, f))
  BY <1>1, <1>2, <1>3 DEF RuntimeOK, Unset
<1>5. RuntimeOK(TuplesAdded(Adopted(rt, f), f))
  <2> DEFINE a == Adopted(rt, f)
             sum == rt.sources ++ f.sources
  <2>1. TuplesAdded(a, f) = [a EXCEPT !.sources = sum]
    BY <1>3 DEF TuplesAdded
  <2> HIDE DEF a, sum
  <2>2. /\ DOMAIN a = {"mtime", "metric", "res", "app", "extra", "sources"} /\ a.extra \in Bag
        /\ sum \in Bag
    BY <1>2, <1>3 DEF a, sum
  <2>3. RuntimeOK([a EXCEPT !.sources = sum])
    BY <2>2 DEF RuntimeOK, Unset
  <2> QED
    BY <2>1, <2>3 DEF a
<1>6. merge_report(rt, f, any).rt \in {rt, Adopted(rt, f), TuplesAdded(Adopted(rt, f), f)}
  BY DEF merge_report
<1> QED
  BY <1>4, <1>5, <1>6 DEF f

\* One more report in the group, or an abort.
LEMMA MergeTypes ==
  ASSUME NEW t, DOMAIN t = Fields, RuntimeOK(t.rt), NEW j, EntryOK(t.list[j]), t.merged \in Nat
  PROVE  LET u == MustMerge(t, j)
         IN  \/ u = Abort
             \/ /\ DOMAIN u = Fields
                /\ u.phase = t.phase /\ u.list = t.list /\ u.i = t.i /\ u.out = t.out
                /\ u.struck = t.struck /\ u.curr = t.curr /\ u.option = t.option
                /\ RuntimeOK(u.rt) /\ u.merged = t.merged + 1
<1> DEFINE m == merge_report(t.rt, t.list[j].file, t.option = "i")
           g == t.group \cup t.list[j].parts
           u == [t EXCEPT !.rt = m.rt, !.merged = t.merged + 1, !.group = g]
<1>1. RuntimeOK(m.rt)
  BY MergeKeepsCounts
<1>2. MustMerge(t, j) = IF m.ok THEN u ELSE Abort
  BY DEF MustMerge
<1>3. /\ DOMAIN u = Fields
      /\ u.phase = t.phase /\ u.list = t.list /\ u.i = t.i /\ u.out = t.out
      /\ u.struck = t.struck /\ u.curr = t.curr /\ u.option = t.option
      /\ u.rt = m.rt /\ u.merged = t.merged + 1
  <2> HIDE DEF m, g
  <2> QED
    BY DEF Fields
<1> HIDE DEF m, u
<1> QED
  BY <1>1, <1>2, <1>3

\* reset_data.
LEMMA ResetTypes ==
  ASSUME NEW rt, RuntimeOK(rt)
  PROVE  RuntimeOK(Reset(rt))
<1>1. DOMAIN rt = {"mtime", "metric", "res", "app", "extra", "sources"} /\ rt.extra \in Bag
  BY DEF RuntimeOK, Unset
<1>2. Nothing \in Bag
  BY DEF Nothing, Bag
<1> QED
  BY <1>1, <1>2 DEF Reset, RuntimeOK, Unset

\* What a turn of merge_by_thread leaves at list[i].
LEMMA LookTypesThread ==
  ASSUME NEW t, LoopOK(t), ToolTypes(t), t.phase = "threads"
  PROVE  LookByThread(t) = Abort \/ RuntimeBefore(LookByThread(t), t.i + 1)
<1>1. /\ DOMAIN t = Fields /\ t.i \in 1..Len(t.list) /\ Len(t.list) \in Nat
      /\ t.curr \in 0..(t.i - 1) /\ Entries(t.list)
      /\ t.option \in Options /\ RuntimeOK(t.rt)
      /\ t.merged \in 0..(t.i - 1) /\ (t.curr = 0 => t.merged = 0)
  BY DEF LoopOK, ToolTypes, RuntimeBefore, Looping, IsSeq
<1>2. CASE t.i \in t.struck
  BY <1>1, <1>2 DEF LookByThread, RuntimeBefore
<1>3. CASE t.i \notin t.struck /\ t.curr = 0
  <2> DEFINE u == [t EXCEPT !.curr = t.i, !.group = t.list[t.i].parts]
  <2>1. LookByThread(t) = u
    BY <1>3 DEF LookByThread
  <2>2. u.option = t.option /\ u.rt = t.rt /\ u.merged = t.merged /\ u.curr = t.i
    BY <1>1 DEF Fields
  <2> HIDE DEF u
  <2>3. RuntimeBefore(u, t.i + 1)
    BY <1>1, <1>3, <2>2 DEF RuntimeBefore
  <2> QED
    BY <2>1, <2>3
<1>4. CASE t.i \notin t.struck /\ t.curr # 0 /\ t.list[t.i].pid # t.list[t.curr].pid
  BY <1>1, <1>4 DEF LookByThread, RuntimeBefore
<1>5. CASE t.i \notin t.struck /\ t.curr # 0 /\ t.list[t.i].pid = t.list[t.curr].pid
  <2> DEFINE r == [t EXCEPT !.rt = Reset(t.rt)]
             begun == IF t.merged = 0 THEN MustMerge(r, t.curr) ELSE t
             done == IF begun.phase = "aborted" THEN begun ELSE MustMerge(begun, t.i)
             Same(u) == /\ DOMAIN u = Fields /\ u.phase = "threads" /\ u.list = t.list
                        /\ u.curr = t.curr /\ u.option = t.option /\ RuntimeOK(u.rt)
  <2>1. LookByThread(t) = IF done.phase = "aborted" THEN done ELSE Strike(done, t.i)
    BY <1>5 DEF LookByThread
  <2>2. Same(r) /\ r.merged = t.merged
    <3>1. RuntimeOK(Reset(t.rt))
      BY <1>1, ResetTypes
    <3> QED
      BY <1>1, <3>1 DEF Fields
  <2>3. EntryOK(t.list[t.curr]) /\ EntryOK(t.list[t.i])
    BY <1>1, <1>5 DEF Entries
  <2>4. begun = Abort \/ (Same(begun) /\ begun.merged \in 1..(t.i - 1))
    <3>1. CASE t.merged = 0
      <4>1. begun = MustMerge(r, t.curr)
        BY <3>1
      <4>2. RuntimeOK(r.rt) /\ EntryOK(r.list[t.curr]) /\ r.merged \in Nat /\ DOMAIN r = Fields
        BY <2>2, <2>3, <3>1
      <4> HIDE DEF r, begun
      <4>3. \/ begun = Abort
            \/ /\ DOMAIN begun = Fields
               /\ begun.phase = r.phase /\ begun.list = r.list
               /\ begun.curr = r.curr /\ begun.option = r.option
               /\ RuntimeOK(begun.rt) /\ begun.merged = r.merged + 1
        BY <4>1, <4>2, MergeTypes
      <4> QED
        BY <1>1, <1>5, <2>2, <3>1, <4>3
    <3>2. CASE t.merged # 0
      BY <1>1, <3>2
    <3> QED
      BY <3>1, <3>2
  <2>5. Abort.phase = "aborted"
    BY DEF Abort, Off
  <2>6. done = Abort \/ (Same(done) /\ done.merged \in 2..t.i)
    <3> HIDE DEF begun
    <3>1. CASE begun = Abort
      BY <2>5, <3>1
    <3>2. CASE Same(begun) /\ begun.merged \in 1..(t.i - 1)
      <4>1. done = MustMerge(begun, t.i)
        BY <3>2
      <4>2. RuntimeOK(begun.rt) /\ EntryOK(begun.list[t.i]) /\ begun.merged \in Nat
            /\ DOMAIN begun = Fields
        BY <2>3, <3>2
      <4> HIDE DEF done
      <4>3. \/ done = Abort
            \/ /\ DOMAIN done = Fields
               /\ done.phase = begun.phase /\ done.list = begun.list
               /\ done.curr = begun.curr /\ done.option = begun.option
               /\ RuntimeOK(done.rt) /\ done.merged = begun.merged + 1
        BY <4>1, <4>2, MergeTypes
      <4> QED
        BY <1>1, <3>2, <4>3
    <3> QED
      BY <2>4, <3>1, <3>2
  <2> HIDE DEF done
  <2>7. CASE done = Abort
    BY <2>1, <2>5, <2>7
  <2>8. CASE Same(done) /\ done.merged \in 2..t.i
    <3>1. LookByThread(t) = Strike(done, t.i)
      BY <2>1, <2>8
    <3> DEFINE u == Strike(done, t.i)
    <3>2. u.option = done.option /\ u.rt = done.rt /\ u.merged = done.merged /\ u.curr = done.curr
      BY <2>8 DEF Strike, Fields
    <3> HIDE DEF u
    <3>3. RuntimeBefore(u, t.i + 1)
      BY <1>1, <1>5, <2>8, <3>2 DEF RuntimeBefore
    <3> QED
      BY <3>1, <3>3 DEF u
  <2> QED
    BY <2>6, <2>7, <2>8
<1> QED
  BY <1>2, <1>3, <1>4, <1>5

\* And of merge_by_run.
LEMMA LookTypesRun ==
  ASSUME NEW t, LoopOK(t), ToolTypes(t), t.phase = "runs"
  PROVE  LookByRun(t) = Abort \/ RuntimeBefore(LookByRun(t), t.i + 1)
<1>1. /\ DOMAIN t = Fields /\ t.i \in 1..Len(t.list) /\ Len(t.list) \in Nat
      /\ t.curr \in 0..(t.i - 1) /\ Entries(t.list)
      /\ t.option \in Options /\ RuntimeOK(t.rt)
      /\ t.merged \in 0..(t.i - 1) /\ (t.curr = 0 => t.merged = 0)
  BY DEF LoopOK, ToolTypes, RuntimeBefore, Looping, IsSeq
<1>2. EntryOK(t.list[t.i])
  BY <1>1 DEF Entries
<1>3. CASE t.i \in t.struck \/ (t.curr # 0 /\ ~ GoesWith(t, t.list[t.i]))
  BY <1>1, <1>3 DEF LookByRun, RuntimeBefore
<1>4. CASE t.i \notin t.struck /\ t.curr = 0
  <2> DEFINE s == [t EXCEPT !.curr = t.i, !.rt = Reset(t.rt), !.group = {}]
             u == MustMerge(s, t.i)
  <2>1. LookByRun(t) = u
    BY <1>1, <1>4 DEF LookByRun
  <2>2. /\ DOMAIN s = Fields /\ s.list = t.list /\ s.curr = t.i /\ s.option = t.option
        /\ RuntimeOK(s.rt) /\ s.merged = 0
    <3>1. RuntimeOK(Reset(t.rt))
      BY <1>1, ResetTypes
    <3> QED
      BY <1>1, <1>4, <3>1 DEF Fields
  <2> HIDE DEF s
  <2>3. \/ u = Abort
        \/ u.curr = s.curr /\ u.option = s.option /\ RuntimeOK(u.rt) /\ u.merged = s.merged + 1
    BY <1>2, <2>2, MergeTypes
  <2> HIDE DEF u
  <2>4. u = Abort \/ RuntimeBefore(u, t.i + 1)
    BY <1>1, <2>2, <2>3 DEF RuntimeBefore
  <2> QED
    BY <2>1, <2>4
<1>5. CASE t.i \notin t.struck /\ t.curr # 0 /\ GoesWith(t, t.list[t.i])
  <2> DEFINE m == merge_report(t.rt, t.list[t.i].file, t.option = "i")
  <2>1. CASE ~ m.ok
    <3> DEFINE u == [t EXCEPT !.rt = m.rt]
    <3>1. LookByRun(t) = u
      BY <1>5, <2>1 DEF LookByRun
    <3>2. RuntimeOK(m.rt)
      BY <1>1, <1>2, MergeKeepsCounts
    <3> HIDE DEF m
    <3>3. u.option = t.option /\ u.rt = m.rt /\ u.merged = t.merged /\ u.curr = t.curr
      BY <1>1 DEF Fields
    <3> HIDE DEF u
    <3>4. RuntimeBefore(u, t.i + 1)
      BY <1>1, <3>2, <3>3 DEF RuntimeBefore
    <3> QED
      BY <3>1, <3>4
  <2>2. CASE m.ok
    <3> DEFINE v == MustMerge(t, t.i)
               u == Strike(v, t.i)
    <3>1. LookByRun(t) = u
      BY <1>5, <2>2 DEF LookByRun
    <3>2. v # Abort
      <4>1. v = [t EXCEPT !.rt = m.rt, !.merged = t.merged + 1,
                          !.group = t.group \cup t.list[t.i].parts]
        BY <2>2 DEF MustMerge
      <4>2. v.phase = "runs" /\ Abort.phase = "aborted"
        <5> HIDE DEF m
        <5> QED
          BY <1>1, <4>1 DEF Fields, Abort, Off
      <4> QED
        BY <4>2
    <3>3. /\ DOMAIN v = Fields /\ v.curr = t.curr /\ v.option = t.option
          /\ RuntimeOK(v.rt) /\ v.merged = t.merged + 1
      BY <1>1, <1>2, <3>2, MergeTypes
    <3> HIDE DEF v
    <3>4. u.option = v.option /\ u.rt = v.rt /\ u.merged = v.merged /\ u.curr = v.curr
      BY <3>3 DEF Strike, Fields
    <3> HIDE DEF u
    <3>5. RuntimeBefore(u, t.i + 1)
      BY <1>1, <1>5, <3>3, <3>4 DEF RuntimeBefore
    <3> QED
      BY <3>1, <3>5
  <2> QED
    BY <2>1, <2>2
<1> QED
  BY <1>3, <1>4, <1>5

\* The sum that is written has counts.
LEMMA SumOK ==
  ASSUME NEW t, RuntimeOK(t.rt), EntryOK(t.list[t.curr])
  PROVE  EntryOK(Sum(t))
<1> DEFINE e == t.list[t.curr]
           state == IF t.rt.metric = NoValue THEN "torn" ELSE "complete"
           f == [e.file EXCEPT !.state = state, !.cct = FALSE,
                   !.k = t.rt.extra, !.sources = t.rt.sources, !.mtime = t.rt.mtime,
                   !.metric = t.rt.metric, !.res = t.rt.res, !.app = t.rt.app]
           x == t.rt.extra
           s == t.rt.sources
<1>1. x \in Bag /\ s \in Bag /\ {"k", "sources"} \subseteq DOMAIN e.file
      /\ DOMAIN e = {"pid", "tid", "file", "parts"}
  BY DEF RuntimeOK, EntryOK
<1>2. Sum(t) = [e EXCEPT !.parts = t.group, !.file = f]
  BY <1>1 DEF Sum
<1>3. f.k = x /\ f.sources = s /\ {"k", "sources"} \subseteq DOMAIN f
  <2> DEFINE g == e.file
  <2> HIDE DEF g, x, s
  <2> QED
    BY <1>1 DEF g, x, s
<1> HIDE DEF f, x, s, e
<1> QED
  BY <1>1, <1>2, <1>3 DEF EntryOK

\* The next report, the next round, or the next loop.
LEMMA AdvanceTypes ==
  ASSUME NEW t, Looping(t), LoopOK(t), ToolTypes(t),
         NEW u, Looked(t, u), RuntimeBefore(u, t.i + 1)
  PROVE  ToolTypes(Advance(u))
<1> DEFINE n == Len(t.list)
<1>1. /\ n \in Nat /\ DOMAIN t.list = 1..n /\ t.i \in 1..n /\ t.curr \in 0..(t.i - 1)
      /\ t.struck \subseteq 1..n /\ t.curr \notin t.struck
      /\ IsSeq(t.list) /\ IsSeq(t.out) /\ t.phase \in {"threads", "runs"}
      /\ Entries(t.list) /\ Entries(t.out)
  BY DEF LoopOK, Looping, IsSeq, ToolTypes
<1>2. /\ DOMAIN u = Fields /\ u.phase = t.phase /\ u.list = t.list /\ u.i = t.i
      /\ u.out = t.out /\ u.struck \subseteq 1..n
      /\ u.curr \in 0..t.i /\ u.curr \notin u.struck
  BY <1>1 DEF Looked
<1>3. /\ u.option \in Options /\ RuntimeOK(u.rt)
      /\ u.merged \in 0..t.i /\ (u.curr = 0 => u.merged = 0)
  BY <1>1 DEF RuntimeBefore
<1>4. CASE t.i # n
  <2> DEFINE v == [u EXCEPT !.i = u.i + 1]
  <2>1. Advance(u) = v
    BY <1>1, <1>2, <1>4 DEF Advance
  <2>2. /\ DOMAIN v = Fields /\ v.phase = t.phase /\ v.list = t.list /\ v.i = t.i + 1
        /\ v.out = t.out /\ v.struck = u.struck /\ v.curr = u.curr
        /\ v.option = u.option /\ v.rt = u.rt /\ v.merged = u.merged
    BY <1>2 DEF Fields
  <2> HIDE DEF v
  <2>3. RuntimeBefore(v, v.i)
    BY <1>1, <1>3, <2>2 DEF RuntimeBefore
  <2>4. ToolTypes(v)
    BY <1>1, <1>2, <1>3, <1>4, <2>2, <2>3 DEF ToolTypes
  <2> QED
    BY <2>1, <2>4
<1>5. CASE t.i = n /\ u.curr # 0
  <2> DEFINE new == IF u.merged > 0 THEN Sum(u) ELSE u.list[u.curr]
             more == u.struck \cup {u.curr}
             out == Append(u.out, new)
             v == [Strike(u, u.curr) EXCEPT !.out = out, !.curr = 0,
                                            !.merged = 0, !.group = {}, !.i = 1]
  <2>1. Advance(u) = v
    <3>1. Strike(u, u.curr).out = u.out
      BY <1>2 DEF Strike, Fields
    <3>2. u.phase # "aborted" /\ u.i = Len(u.list)
      BY <1>1, <1>2, <1>5
    <3> QED
      BY <1>5, <3>1, <3>2 DEF Advance, Finished
  <2>2. EntryOK(new)
    <3>1. EntryOK(u.list[u.curr])
      BY <1>1, <1>2, <1>5 DEF Entries
    <3> QED
      BY <1>3, <3>1, SumOK
  <2>3. Entries(out)
    <3> HIDE DEF new
    <3>1. u.out \in Seq(Range(u.out)) /\ Entries(u.out)
      BY <1>1, <1>2 DEF IsSeq
    <3> DEFINE S == Range(u.out) \cup {new}
    <3>2. u.out \in Seq(S) /\ new \in S
      BY <3>1
    <3> HIDE DEF S
    <3>3. /\ Len(u.out) \in Nat /\ Len(out) = Len(u.out) + 1 /\ out[Len(u.out) + 1] = new
          /\ \A j \in 1..Len(u.out) : out[j] = u.out[j]
      BY <3>2
    <3> HIDE DEF out
    <3>4. ASSUME NEW j \in 1..Len(out) PROVE EntryOK(out[j])
      <4>1. CASE j = Len(u.out) + 1
        BY <2>2, <3>3, <4>1
      <4>2. CASE j # Len(u.out) + 1
        <5>1. j \in 1..Len(u.out)
          BY <3>3, <4>2
        <5> QED
          BY <3>1, <3>3, <5>1 DEF Entries
      <4> QED
        BY <4>1, <4>2
    <3> QED
      BY <3>4 DEF Entries
  <2>4. /\ DOMAIN v = Fields /\ v.phase = t.phase /\ v.list = t.list /\ v.i = 1
        /\ v.out = out /\ v.struck = more /\ v.curr = 0
        /\ v.option = u.option /\ v.rt = u.rt /\ v.merged = 0
    <3> HIDE DEF out
    <3> QED
      BY <1>2 DEF Fields, Strike
  <2>5. more \subseteq 1..n /\ 0 \notin more
    BY <1>1, <1>2, <1>5
  <2> HIDE DEF v, out, more
  <2>6. RuntimeBefore(v, v.i)
    BY <1>3, <2>4 DEF RuntimeBefore
  <2>7. ToolTypes(v)
    BY <1>1, <1>3, <2>3, <2>4, <2>5, <2>6 DEF ToolTypes
  <2> QED
    BY <2>1, <2>7
<1>6. CASE t.i = n /\ u.curr = 0
  <2>1. Advance(u) = Finished(u) /\ u.merged = 0
    BY <1>1, <1>2, <1>3, <1>6 DEF Advance
  <2>2. CASE u.phase = "threads" /\ u.option = "tr"
    <3> DEFINE v == [u EXCEPT !.phase = "runs", !.list = u.out, !.struck = {},
                              !.out = <<>>, !.i = 1]
    <3>1. Advance(u) = v
      BY <1>6, <2>1, <2>2 DEF Finished
    <3>2. /\ DOMAIN v = Fields /\ v.phase = "runs" /\ v.list = t.out /\ v.i = 1
          /\ v.out = <<>> /\ v.struck = {} /\ v.curr = 0
          /\ v.option = u.option /\ v.rt = u.rt /\ v.merged = 0
      BY <1>2, <1>6, <2>1 DEF Fields
    <3> HIDE DEF v
    <3>3. Entries(v.list) /\ Entries(v.out) /\ Len(v.list) \in Nat
      BY <1>1, <3>2 DEF Entries, IsSeq
    <3>4. RuntimeBefore(v, v.i)
      BY <1>3, <3>2 DEF RuntimeBefore
    <3>5. ToolTypes(v)
      BY <1>3, <3>2, <3>3, <3>4 DEF ToolTypes
    <3> QED
      BY <3>1, <3>5
  <2>3. CASE ~ (u.phase = "threads" /\ u.option = "tr")
    <3> DEFINE v == [u EXCEPT !.phase = "done"]
    <3>1. Advance(u) = v
      BY <1>6, <2>1, <2>3 DEF Finished
    <3>2. /\ DOMAIN v = Fields /\ v.phase = "done" /\ v.list = t.list
          /\ v.struck = u.struck /\ v.curr = 0 /\ v.option = u.option /\ v.rt = u.rt
          /\ v.merged = 0
      BY <1>2, <1>6, <2>1 DEF Fields
    <3> HIDE DEF v
    <3>3. ToolTypes(v)
      BY <1>1, <1>2, <1>3, <1>6, <3>2 DEF ToolTypes, Looping
    <3> QED
      BY <3>1, <3>3
  <2> QED
    BY <2>2, <2>3
<1> QED
  BY <1>4, <1>5, <1>6

\* aprof-helper gives up with the empty record that it starts with.
LEMMA OffTypes == ToolTypes(Off) /\ ToolTypes(Abort)
<1>1. /\ DOMAIN Off = Fields /\ Off.phase = "off" /\ Off.option = "t" /\ Off.list = <<>>
      /\ Off.struck = {} /\ Off.curr = 0 /\ Off.merged = 0 /\ Off.rt = Unset
  BY DEF Off, Fields
<1>2. /\ DOMAIN Abort = Fields /\ Abort.phase = "aborted" /\ Abort.option = "t"
      /\ Abort.list = <<>> /\ Abort.struck = {} /\ Abort.curr = 0 /\ Abort.merged = 0
      /\ Abort.rt = Unset
  BY DEF Off, Abort, Fields
<1>3. RuntimeOK(Unset)
  BY DEF RuntimeOK, Unset, Nothing, Bag
<1>4. "t" \in Options /\ Len(<<>>) = 0 /\ DOMAIN <<>> = {}
  BY DEF Options
<1>5. ToolTypes(Off)
  BY <1>1, <1>3, <1>4 DEF ToolTypes, Looping
<1>6. ToolTypes(Abort)
  BY <1>2, <1>3, <1>4 DEF ToolTypes, Looping
<1> QED
  BY <1>5, <1>6

\* The steps of aprof-helper.
LEMMA TurnTypes ==
  ASSUME ToolInv, ToolTypes(tool), ToolStep \/ ToolFails \/ ToolSkips
  PROVE  ToolTypes(tool)'
<1>1. Abort.phase = "aborted" /\ Advance(Abort) = Abort
  BY DEF Abort, Off, Advance
<1>2. Looping(tool) /\ LoopOK(tool)
  BY DEF ToolStep, ToolFails, ToolSkips, Reads, Looping, ToolInv
<1>3. ToolTypes(tool') => ToolTypes(tool)'
  BY DEF ToolTypes, RuntimeBefore, Entries, EntryOK, RuntimeOK, Looping, Bag
<1>4. CASE ToolStep
  <2> DEFINE u == IF tool.phase = "threads" THEN LookByThread(tool) ELSE LookByRun(tool)
  <2>1. u = Abort \/ (Looked(tool, u) /\ RuntimeBefore(u, tool.i + 1))
    <3>1. CASE tool.phase = "threads"
      BY <1>2, <3>1, LookTurnsThread, LookTypesThread
    <3>2. CASE tool.phase = "runs"
      BY <1>2, <3>2, LookTurnsRun, LookTypesRun
    <3> QED
      BY <1>2, <3>1, <3>2 DEF Looping
  <2>2. tool' = Advance(u)
    BY <1>4 DEF ToolStep
  <2> HIDE DEF u
  <2>3. ToolTypes(Advance(u))
    BY <1>1, <1>2, <2>1, AdvanceTypes, OffTypes
  <2> QED
    BY <1>3, <2>2, <2>3
<1>5. CASE ToolFails
  BY <1>3, <1>5, OffTypes DEF ToolFails
<1>6. CASE ToolSkips
  <2>1. tool' = Advance(tool) /\ tool.curr # 0
    BY <1>6 DEF ToolSkips
  <2>2. Looked(tool, tool)
    BY <1>2, <2>1 DEF Looked, LoopOK
  <2>3. RuntimeBefore(tool, tool.i + 1)
    <3>1. RuntimeBefore(tool, tool.i) /\ tool.i \in Int
      BY <1>2 DEF ToolTypes, LoopOK
    <3> QED
      BY <3>1 DEF RuntimeBefore
  <2>4. ToolTypes(Advance(tool))
    BY <1>2, <2>2, <2>3, AdvanceTypes
  <2> QED
    BY <1>3, <2>1, <2>4
<1> QED
  BY <1>4, <1>5, <1>6

\* The list that main starts from has the reports on disk.
LEMMA StartTypes ==
  ASSUME ToolInv, IInv, DOMAIN dir # {},
         NEW list \in SetToSeqs(DOMAIN dir), NEW option \in Options, StartTool(list, option)
  PROVE  ToolTypes(tool)'
<1> DEFINE n == Cardinality(DOMAIN dir)
           entries == [j \in DOMAIN list |-> Entry(list[j])]
           first == IF option \in {"t", "tr"} THEN "threads" ELSE "runs"
<1>1. tool = Off /\ tool' = [tool EXCEPT !.phase = first, !.option = option, !.list = entries]
  BY DEF ToolInv, StartTool
<1>2. list \in [1..n -> DOMAIN dir] /\ n \in Nat
  BY FS_CardinalityType DEF ToolInv, SetToSeqs
<1>3. ASSUME NEW m \in DOMAIN dir PROVE EntryOK(Entry(m))
  <2> DEFINE f == dir[m]
  <2>1. f \in Files(f.writer)
    BY DEF IInv, DirOK, OwnFile
  <2>2. {"k", "sources"} \subseteq DOMAIN f /\ f.k \in Bag /\ f.sources \in Bag
    <3> DEFINE w == f.writer
    <3> HIDE DEF f, w
    <3>1. f \in Files(w)
      BY <2>1 DEF w
    <3> QED
      BY <3>1 DEF Files
  <2>3. Entry(m) = [pid |-> m.pid, tid |-> m.tid, file |-> f, parts |-> {m}]
    BY DEF Entry
  <2> HIDE DEF f
  <2> QED
    BY <2>2, <2>3 DEF EntryOK
<1>4. Len(entries) = n /\ DOMAIN entries = 1..n /\ \A j \in 1..n : EntryOK(entries[j])
  <2>1. entries = [j \in 1..n |-> Entry(list[j])]
    BY <1>2
  <2>2. \A j \in 1..n : list[j] \in DOMAIN dir
    BY <1>2
  <2> HIDE DEF n
  <2> QED
    BY <1>2, <1>3, <2>1, <2>2
<1>5. Entries(entries)
  <2> HIDE DEF entries
  <2> QED
    BY <1>4 DEF Entries
<1>6. /\ DOMAIN tool' = Fields /\ tool'.phase = first /\ tool'.list = entries /\ tool'.i = 1
      /\ tool'.curr = 0 /\ tool'.struck = {} /\ tool'.out = <<>> /\ tool'.merged = 0
      /\ tool'.rt = Unset /\ tool'.option = option
  <2> HIDE DEF entries, first
  <2> QED
    BY <1>1 DEF Off, Fields
<1>7. RuntimeOK(tool'.rt) /\ RuntimeBefore(tool', tool'.i) /\ Entries(tool'.out)
  <2>1. RuntimeOK(Unset)
    BY DEF RuntimeOK, Unset, Nothing, Bag
  <2> QED
    BY <1>6, <2>1 DEF RuntimeBefore, Entries
<1> HIDE DEF entries, n
<1>8. ToolTypes(tool')
  BY <1>2, <1>4, <1>5, <1>6, <1>7 DEF ToolTypes
<1> QED
  BY <1>8 DEF ToolTypes, RuntimeBefore, Entries, EntryOK, RuntimeOK, Looping, Bag

\* A name that create_report tries.
LEMMA NameType ==
  ASSUME IInv, NEW r \in Run, NEW k \in 0..(Attempts - 1)
  PROVE  Name(r, k) \in FileName
<1>1. info[r] \in RunInfo
  BY DEF IInv, InfoOK
<1>2. /\ info[r].app \in STRING /\ info[r].pid \in Nat /\ info[r].res \in {1, 2, 4, 8, 16}
      /\ info[r].tid \in Nat \ {0}
  BY <1>1 DEF RunInfo
<1>3. k \in Nat
  BY AttemptsAssumption
<1> QED
  BY <1>2, <1>3 DEF Name, FileName

\* The steps of a run.
LEMMA RunStepTypes ==
  ASSUME IInv, RunTypes, NEW r \in Run, RunStep(r)
  PROVE  RunTypes'
<1>1. NoValue \notin FileName
  BY NoValueAssumption
<1>2. CASE Finish(r)
  BY <1>2 DEF RunTypes, Finish, Goes
<1>3. CASE Crash(r)
  BY <1>3 DEF RunTypes, Crash, Goes
<1>4. CASE \E n \in left[r] : Skip(r, n)
  BY <1>4 DEF RunTypes, Skip
<1>5. CASE \E n \in left[r] : Look(r, n)
  <2>1. PICK n \in DOMAIN dir :
          /\ \/ Goes(r, "unlinking") /\ at' = [at EXCEPT ![r] = n]
             \/ UNCHANGED <<phase, at>>
          /\ left' = [left EXCEPT ![r] = @ \ {n}]
          /\ UNCHANGED <<name, dir, disturbed>>
    BY <1>5 DEF Look, Skipped
  <2>2. n \in FileName
    BY DEF RunTypes
  <2>3. left' \in [Run -> SUBSET FileName]
    BY <2>1 DEF RunTypes
  <2> QED
    BY <1>1, <2>1, <2>2, <2>3 DEF RunTypes, Goes
<1>6. CASE \E n \in left[r] : ReadFails(r, n)
  BY <1>6 DEF RunTypes, ReadFails
<1>7. CASE Unlink(r)
  BY <1>7 DEF RunTypes, Unlink, Goes
<1>8. CASE Create(r)
  <2>1. PICK k \in 0..(Attempts - 1) : CreateAs(r, Name(r, k))
    BY <1>8 DEF Create, Free
  <2> DEFINE n == Name(r, k)
  <2>2. n \in FileName
    BY NameType
  <2>3. CreateAs(r, n)
    BY <2>1
  <2> HIDE DEF n
  <2> QED
    BY <2>2, <2>3 DEF RunTypes, CreateAs, Goes
<1>9. CASE Flush(r)
  BY <1>9 DEF RunTypes, Flush
<1>10. CASE Close(r)
  <2>1. DOMAIN dir' = DOMAIN dir
    BY <1>10 DEF Close
  <2> QED
    BY <1>10, <2>1 DEF RunTypes, Close, Goes
<1> QED
  BY <1>2, <1>3, <1>4, <1>5, <1>6, <1>7, <1>8, <1>9, <1>10 DEF RunStep

LEMMA TypesInit == Init => RunTypes /\ ToolTypes(tool)
<1> SUFFICES ASSUME Init PROVE RunTypes /\ ToolTypes(tool)
  OBVIOUS
<1>1. RunTypes
  <2>1. /\ phase = [r \in Run |-> "running"] /\ at = [r \in Run |-> NoValue]
        /\ name = [r \in Run |-> NoValue] /\ dir = <<>> /\ disturbed = FALSE
        /\ left = [r \in Run |-> {}]
    BY DEF Init, RunInit
  <2>2. DOMAIN dir \subseteq FileName
    BY <2>1
  <2>3. \A r \in Run : phase[r] # "unlinking"
    BY <2>1
  <2> QED
    BY <2>1, <2>2, <2>3 DEF RunTypes
<1>2. tool = Off
  BY DEF Init
<1> QED
  BY <1>1, <1>2, OffTypes

LEMMA TypesNext == IInv /\ ToolInv /\ RunTypes /\ ToolTypes(tool) /\ [Next]_vars
                     => RunTypes' /\ ToolTypes(tool)'
<1> SUFFICES ASSUME IInv, ToolInv, RunTypes, ToolTypes(tool), [Next]_vars
             PROVE  RunTypes' /\ ToolTypes(tool)'
  OBVIOUS
<1>1. UNCHANGED tool => ToolTypes(tool)'
  BY DEF ToolTypes, RuntimeBefore, Entries, EntryOK, RuntimeOK, Looping, Bag
<1>2. UNCHANGED runVars => RunTypes'
  BY DEF RunTypes, runVars
<1>3. CASE tool.phase = "off" /\ (\E r \in Run : RunStep(r)) /\ UNCHANGED tool
  BY <1>1, <1>3, RunStepTypes
<1>4. ASSUME DOMAIN dir # {}, NEW list \in SetToSeqs(DOMAIN dir), NEW option \in Options,
             StartTool(list, option)
      PROVE  RunTypes' /\ ToolTypes(tool)'
  BY <1>2, <1>4, StartTypes DEF StartTool
<1>5. CASE ToolStep \/ ToolFails \/ ToolSkips
  BY <1>2, <1>5, TurnTypes DEF ToolStep, ToolFails, ToolSkips
<1>6. CASE UNCHANGED vars
  BY <1>1, <1>2, <1>6 DEF vars
<1> QED
  BY <1>3, <1>4, <1>5, <1>6 DEF Next

\* Runtimes keep counts, a run that unlinks knows what, and aprof-helper stays inside its
\* list and counts no more reports into a group than there are.
THEOREM TypeCorrect == Spec => []TypeOK
<1>1. ASSUME IInv, ToolInv, RunTypes, ToolTypes(tool) PROVE TypeOK
  <2>1. ASSUME NEW r \in Run PROVE RuntimeOK(memory[r])
    <3> DEFINE rt == memory[r]
    <3>1. rt \in Own(r)
      BY <1>1 DEF IInv, MemoryOK, OwnRuntime
    <3> HIDE DEF rt
    <3>2. DOMAIN rt = {"mtime", "metric", "res", "app", "extra", "sources"}
          /\ rt.extra \in Bag /\ rt.sources \in Bag
      BY <3>1 DEF Own
    <3> QED
      BY <3>2 DEF RuntimeOK, Unset, rt
  <2>2. ASSUME NEW n \in DOMAIN dir PROVE dir[n].state \in States
    BY <1>1 DEF IInv, DirOK, OwnFile, Files
  <2> QED
    BY <1>1, <2>1, <2>2 DEF TypeOK, RunTypes, ToolTypes, States
<1>2. Init => IInv /\ ToolInv /\ RunTypes /\ ToolTypes(tool)
  BY Initially, ToolInvInit, TypesInit
<1>3. IInv /\ ToolInv /\ RunTypes /\ ToolTypes(tool) /\ [Next]_vars
        => (IInv /\ ToolInv /\ RunTypes /\ ToolTypes(tool))'
  BY NextStep, ToolInvNext, TypesNext
<1> QED
  BY <1>1, <1>2, <1>3, PTL DEF Spec

-----------------------------------------------------------------------------
(* Every run is counted once.                                              *)

\* The report n counts the run r.
Holds(n, r) == dir[n].sources[r] > 0

\* A run is in one report at most, once, and when it has ended.
FilesApart ==
  \A n \in DOMAIN dir, r \in Run :
    /\ dir[n].sources[r] <= 1
    /\ Holds(n, r) => phase[r] = "ended" /\ \A m \in DOMAIN dir : Holds(m, r) => m = n

\* A report that is not complete counts nothing.
UnfinishedHoldNothing ==
  \A n \in DOMAIN dir : dir[n].state # "complete" => dir[n].sources = Nothing

\* While a run merges reports no other run is busy.
MergesAlone ==
  \A s, t \in Run : Busy(s) /\ Busy(t) /\ info[s].incremental => s = t

\* Who does not merge has only itself in memory.
KeepsToItself ==
  \A s \in Run :
    /\ phase[s] = "running" => memory[s].sources = Only(s)
    /\ Busy(s) /\ ~ info[s].incremental =>
         memory[s].sources = Only(s) /\ left[s] = {} /\ phase[s] # "unlinking"

\* What a run has merged is in no report any more, but for the one it is about to unlink.
MemoryApart ==
  \A s \in Run : Busy(s) =>
    /\ memory[s].sources[s] = 1
    /\ \A r \in Run \ {s} : memory[s].sources[r] > 0 =>
         /\ memory[s].sources[r] = 1 /\ phase[r] = "ended"
         /\ \A n \in DOMAIN dir : Holds(n, r) => phase[s] = "unlinking" /\ n = at[s]

\* A report that is about to be unlinked has been merged.
MergedBeforeUnlinked ==
  \A s \in Run : phase[s] = "unlinking" =>
    \A r \in Run : at[s] \in DOMAIN dir /\ Holds(at[s], r) => memory[s].sources[r] > 0

\* The report that a run writes counts nothing before fclose, and nobody has unlinked it.
WritesItsOwn ==
  \A s \in Run : phase[s] = "writing" => Linked(s) /\ dir[name[s]].sources = Nothing

\* A run that has ended is in a report, or a run has it that merges or has crashed.
NoneLost ==
  \A r \in Run : phase[r] = "ended" =>
    \/ \E n \in DOMAIN dir : Holds(n, r)
    \/ \E s \in Run : (Busy(s) \/ phase[s] = "crashed") /\ memory[s].sources[r] > 0

Apart ==
  /\ FilesApart /\ UnfinishedHoldNothing /\ MergesAlone /\ KeepsToItself
  /\ MemoryApart /\ MergedBeforeUnlinked /\ WritesItsOwn /\ NoneLost

\* What is inductive as long as runs do not overlap with one that merges, and reads do
\* not fail.
Once == ~ disturbed => Apart

\* If one report at most counts a run, and once, there is one copy of it or none.
LEMMA OneCopy ==
  ASSUME IsFiniteSet(DOMAIN dir), NEW r \in Run,
         \A n \in DOMAIN dir : dir[n].sources[r] \in {0, 1},
         \A m, n \in DOMAIN dir : Holds(m, r) /\ Holds(n, r) => m = n
  PROVE  Copies(r) = IF \E n \in DOMAIN dir : Holds(n, r) THEN 1 ELSE 0
<1> DEFINE D == DOMAIN dir
           w(n) == dir[n].sources[r]
           pick(s) == CHOOSE x \in s : TRUE
           step(g, s) == IF s = {} THEN 0 ELSE w(pick(s)) + g[s \ {pick(s)}]
           sums(g) == g = [s \in SUBSET D |-> step(g, s)]
           iter == CHOOSE g : sums(g)
           value(s) == IF \E n \in s : w(n) > 0 THEN 1 ELSE 0
           h == [s \in SUBSET D |-> value(s)]
<1>1. Copies(r) = iter[D]
  BY DEF Copies, MapThenSumSet, MapThenFoldSet
<1>2. \A n \in D : w(n) \in {0, 1}
  OBVIOUS
<1>3. \A m, n \in D : w(m) > 0 /\ w(n) > 0 => m = n
  BY DEF Holds
<1>4. \A s \in SUBSET D : s # {} => pick(s) \in s
  OBVIOUS
<1> HIDE DEF w, pick
<1>5. ASSUME NEW s \in SUBSET D, s # {}
      PROVE  value(s) = w(pick(s)) + value(s \ {pick(s)})
  <2>1. pick(s) \in s /\ pick(s) \in D
    BY <1>4, <1>5
  <2>2. CASE w(pick(s)) = 1
    <3>1. \A n \in s \ {pick(s)} : ~ w(n) > 0
      BY <1>3, <2>1, <2>2
    <3> QED
      BY <2>1, <2>2, <3>1
  <2>3. CASE w(pick(s)) = 0
    BY <2>1, <2>3
  <2> QED
    BY <1>2, <2>1, <2>2, <2>3
<1>6. sums(h)
  <2>1. ASSUME NEW s \in SUBSET D
        PROVE  value(s) = step(h, s)
    BY <1>5
  <2> QED
    BY <2>1
<1>7. sums(iter)
  <2> HIDE DEF sums
  <2> QED
    BY <1>6
<1> HIDE DEF iter, value
<1>8. \A s \in SUBSET D : iter[s] = step(iter, s)
  BY <1>7
<1>9. ASSUME NEW k \in Nat, NEW s \in SUBSET D, Cardinality(s) = k
      PROVE  iter[s] = value(s)
  <2> DEFINE Good == {c \in Nat : \A t \in SUBSET D : Cardinality(t) = c => iter[t] = value(t)}
  <2>1. ASSUME NEW t \in SUBSET D
        PROVE  IsFiniteSet(t) /\ Cardinality(t) \in Nat /\ (Cardinality(t) = 0 <=> t = {})
    BY FS_Subset, FS_CardinalityType, FS_EmptySet
  <2>2. 0 \in Good
    <3>1. value({}) = 0
      BY DEF value
    <3> QED
      BY <1>8, <2>1, <3>1
  <2>3. ASSUME NEW c \in Nat, c \in Good
        PROVE  c + 1 \in Good
    <3>1. ASSUME NEW t \in SUBSET D, Cardinality(t) = c + 1
          PROVE  iter[t] = value(t)
      <4>1. t # {} /\ IsFiniteSet(t)
        BY <2>1, <3>1
      <4>2. pick(t) \in t
        BY <1>4, <4>1
      <4>3. Cardinality(t \ {pick(t)}) = c
        <5>1. Cardinality(t \ {pick(t)}) = Cardinality(t) - 1
          <6> HIDE DEF pick
          <6> DEFINE p == pick(t)
          <6>1. p \in t
            BY <4>2
          <6> HIDE DEF p
          <6>2. Cardinality(t \ {p}) = Cardinality(t) - 1
            BY <4>1, <6>1, FS_RemoveElement
          <6> QED
            BY <6>2 DEF p
        <5> QED
          BY <3>1, <5>1
      <4>4. iter[t \ {pick(t)}] = value(t \ {pick(t)})
        BY <2>3, <4>3
      <4> QED
        BY <1>5, <1>8, <4>1, <4>4
    <3> QED
      BY <3>1
  <2>4. Good \in SUBSET Nat
    OBVIOUS
  <2>5. \A c \in Nat : c \in Good
    <3> HIDE DEF Good
    <3> QED
      BY <2>2, <2>3, <2>4, SetInduction
  <2> QED
    BY <1>9, <2>5
<1>10. Cardinality(D) \in Nat
  BY FS_CardinalityType
<1> QED
  BY <1>1, <1>9, <1>10 DEF value, w, Holds

\* A run starts alone, and does not see what it might disturb.
LEMMA FinishOnce ==
  ASSUME RunTypes, Once, NEW r \in Run, Finish(r)
  PROVE  Once'
<1> SUFFICES ASSUME ~ disturbed' PROVE Apart'
  BY DEF Once
<1>1. /\ FilesApart /\ UnfinishedHoldNothing /\ MergesAlone /\ KeepsToItself
      /\ MemoryApart /\ MergedBeforeUnlinked /\ WritesItsOwn /\ NoneLost
  BY DEF Once, Apart, Finish
<1>2. /\ phase[r] = "running" /\ phase'[r] = "merging"
      /\ \A s \in Run : s # r => phase'[s] = phase[s]
      /\ UNCHANGED <<info, at, memory, name, dir>>
      /\ \A s \in Run : s # r => left'[s] = left[s]
      /\ ~ info[r].incremental => left'[r] = {}
      /\ ~ Overlaps(r)
  BY DEF Finish, Goes, RunTypes
<1>3. FilesApart' /\ UnfinishedHoldNothing'
  BY <1>1, <1>2 DEF FilesApart, Holds, UnfinishedHoldNothing
<1>4. MergesAlone'
  BY <1>1, <1>2 DEF MergesAlone, Busy, Overlaps
<1>5. KeepsToItself'
  BY <1>1, <1>2 DEF KeepsToItself, Busy
<1>6. MemoryApart'
  <2>1. memory[r].sources = Only(r)
    BY <1>1, <1>2 DEF KeepsToItself
  <2>2. Only(r)[r] = 1 /\ \A s \in Run \ {r} : Only(r)[s] = 0
    BY DEF Only, Nothing
  <2> QED
    BY <1>1, <1>2, <2>1, <2>2 DEF MemoryApart, Holds, Busy
<1>7. MergedBeforeUnlinked' /\ WritesItsOwn'
  BY <1>1, <1>2 DEF MergedBeforeUnlinked, Holds, WritesItsOwn, Linked
<1>8. NoneLost'
  BY <1>1, <1>2 DEF NoneLost, Holds, Busy
<1> QED
  BY <1>3, <1>4, <1>5, <1>6, <1>7, <1>8 DEF Apart

\* Passing over a report changes nothing that counts.
LEMMA SkipOnce ==
  ASSUME RunTypes, Once, NEW r \in Run, NEW n, Skip(r, n)
  PROVE  Once'
<1> SUFFICES ASSUME ~ disturbed' PROVE Apart'
  BY DEF Once
<1>1. /\ FilesApart /\ UnfinishedHoldNothing /\ MergesAlone /\ KeepsToItself
      /\ MemoryApart /\ MergedBeforeUnlinked /\ WritesItsOwn /\ NoneLost
  BY DEF Once, Apart, Skip
<1>2. /\ \A s \in Run : left'[s] \subseteq left[s]
      /\ UNCHANGED <<info, phase, at, memory, name, dir>>
  BY DEF Skip, RunTypes
<1>3. KeepsToItself'
  BY <1>1, <1>2 DEF KeepsToItself, Busy
<1> QED
  BY <1>1, <1>2, <1>3 DEF Apart, FilesApart, UnfinishedHoldNothing, MergesAlone, MemoryApart,
    MergedBeforeUnlinked, WritesItsOwn, NoneLost, Holds, Busy, Linked

\* A run that crashes takes with it what it has in memory.
LEMMA CrashOnce ==
  ASSUME RunTypes, Once, NEW r \in Run, Crash(r)
  PROVE  Once'
<1> SUFFICES ASSUME ~ disturbed' PROVE Apart'
  BY DEF Once
<1>1. /\ FilesApart /\ UnfinishedHoldNothing /\ MergesAlone /\ KeepsToItself
      /\ MemoryApart /\ MergedBeforeUnlinked /\ WritesItsOwn /\ NoneLost
  BY DEF Once, Apart, Crash
<1>2. /\ Busy(r) /\ phase'[r] = "crashed"
      /\ \A s \in Run : s # r => phase'[s] = phase[s] /\ left'[s] = left[s]
                                 /\ at'[s] = at[s] /\ name'[s] = name[s]
      /\ UNCHANGED <<info, memory, dir>>
  BY DEF Crash, Goes, RunTypes
<1>3. \A s \in Run : phase'[s] = "ended" <=> phase[s] = "ended"
  BY <1>2 DEF Busy
<1>4. FilesApart' /\ UnfinishedHoldNothing'
  BY <1>1, <1>2, <1>3 DEF FilesApart, Holds, UnfinishedHoldNothing
<1>5. MergesAlone' /\ KeepsToItself'
  BY <1>1, <1>2 DEF MergesAlone, KeepsToItself, Busy
<1>6. MemoryApart'
  BY <1>1, <1>2, <1>3 DEF MemoryApart, Holds, Busy
<1>7. MergedBeforeUnlinked' /\ WritesItsOwn'
  BY <1>1, <1>2 DEF MergedBeforeUnlinked, Holds, WritesItsOwn, Linked
<1>8. NoneLost'
  BY <1>1, <1>2, <1>3 DEF NoneLost, Holds, Busy
<1> QED
  BY <1>4, <1>5, <1>6, <1>7, <1>8 DEF Apart

\* A run that merges a report counts what that report counts, which nothing else does.
LEMMA LookOnce ==
  ASSUME IInv, RunTypes, Once, NEW r \in Run, NEW n, Look(r, n)
  PROVE  Once'
<1> SUFFICES ASSUME ~ disturbed' PROVE Apart'
  BY DEF Once
<1>1. /\ FilesApart /\ UnfinishedHoldNothing /\ MergesAlone /\ KeepsToItself
      /\ MemoryApart /\ MergedBeforeUnlinked /\ WritesItsOwn /\ NoneLost
  BY DEF Once, Apart, Look
<1> DEFINE m == merge_report(memory[r], dir[n], FALSE)
           old == memory[r].sources
           new == m.rt.sources
           ok == m.ok
           read == dir[n].sources
<1>2. /\ phase[r] = "merging" /\ n \in left[r] /\ n \in DOMAIN dir
      /\ \A s \in Run : left'[s] \subseteq left[s]
      /\ memory'[r] = m.rt
      /\ \A s \in Run : s # r => phase'[s] = phase[s] /\ at'[s] = at[s]
                                 /\ memory'[s] = memory[s]
      /\ UNCHANGED <<info, name, dir>>
  <2>1. DOMAIN memory = Run
    BY DEF IInv, MemoryOK
  <2> HIDE DEF m
  <2> QED
    BY <2>1 DEF Look, Skipped, Goes, RunTypes, m
<1>3. /\ ok => phase'[r] = "unlinking" /\ at'[r] = n
      /\ ~ ok => phase'[r] = "merging" /\ at'[r] = at[r]
  BY <1>2 DEF Look, Goes, RunTypes
<1>4. /\ old \in Bag /\ read \in Bag
      /\ \A s \in Run : old[s] \in Nat /\ read[s] \in Nat
  BY <1>2 DEF IInv, MemoryOK, DirOK, OwnRuntime, OwnFile, CountsOf, Bag
<1>5. /\ ok => \A s \in Run : new[s] = old[s] + read[s]
      /\ ~ ok => new = old
  <2>1. DOMAIN memory[r] = {"mtime", "metric", "res", "app", "extra", "sources"}
    BY DEF IInv, MemoryOK, OwnRuntime, Own
  <2>2. CASE dir[n].state = "empty" /\ Fits(memory[r], dir[n], "res")
    <3>1. read = Nothing /\ ok /\ new = old
      BY <1>1, <1>2, <2>2 DEF UnfinishedHoldNothing, merge_report
    <3> HIDE DEF ok, new, old, read
    <3>2. \A s \in Run : read[s] = 0
      BY <3>1 DEF Nothing
    <3> QED
      BY <1>4, <3>1, <3>2
  <2>3. CASE \/ ~ Fits(memory[r], dir[n], "res")
             \/ dir[n].state # "empty" /\ ~ Agrees(memory[r], dir[n], FALSE)
    BY <2>3 DEF merge_report
  <2>4. CASE dir[n].state # "empty" /\ Agrees(memory[r], dir[n], FALSE)
    <3>1. DOMAIN Adopted(memory[r], dir[n]) = DOMAIN memory[r]
          /\ Adopted(memory[r], dir[n]).sources = old
      BY <2>1 DEF Adopted
    <3>2. TuplesAdded(Adopted(memory[r], dir[n]), dir[n]).sources = old ++ read
      BY <2>1, <3>1 DEF TuplesAdded
    <3>3. \A s \in Run : (old ++ read)[s] = old[s] + read[s]
      BY DEF ++
    <3> QED
      BY <2>4, <3>1, <3>2, <3>3, SameResolution DEF merge_report
  <2> QED
    BY <2>2, <2>3, <2>4
<1>6. memory'[r].sources = new
  BY <1>2
<1> HIDE DEF m, ok, new, old, read
<1>7. Busy(r) /\ info[r].incremental /\ (\A s \in Run : Busy(s) => s = r)
  BY <1>1, <1>2 DEF MergesAlone, KeepsToItself, Busy
<1>8. /\ \A s \in Run : phase'[s] = "ended" <=> phase[s] = "ended"
      /\ \A s \in Run : phase'[s] = "running" <=> phase[s] = "running"
      /\ \A s \in Run : phase'[s] = "crashed" <=> phase[s] = "crashed"
      /\ \A s \in Run : phase'[s] = "writing" <=> phase[s] = "writing"
      /\ \A s \in Run : phase'[s] \in {"merging", "unlinking", "writing"} <=> s = r
  BY <1>2, <1>3, <1>7 DEF Busy
<1>9. \A s \in Run : read[s] <= 1 /\ (read[s] > 0 => phase[s] = "ended")
  BY <1>1, <1>2 DEF FilesApart, Holds, read
<1>10. /\ old[r] = 1 /\ read[r] = 0
       /\ \A s \in Run \ {r} : old[s] <= 1
            /\ (old[s] > 0 => phase[s] = "ended" /\ \A l \in DOMAIN dir : ~ Holds(l, s))
  <2>1. read[r] = 0
    BY <1>2, <1>4, <1>9
  <2>2. old[r] = 1 /\ \A s \in Run \ {r} : old[s] > 0 =>
           old[s] = 1 /\ phase[s] = "ended" /\ \A l \in DOMAIN dir : ~ Holds(l, s)
    BY <1>1, <1>2, <1>7 DEF MemoryApart, old
  <2> QED
    BY <1>4, <2>1, <2>2
<1>11. FilesApart' /\ UnfinishedHoldNothing' /\ MergesAlone'
  BY <1>1, <1>2, <1>8 DEF FilesApart, Holds, UnfinishedHoldNothing, MergesAlone, Busy
<1>12. KeepsToItself'
  BY <1>1, <1>2, <1>7, <1>8 DEF KeepsToItself, Busy
<1>13. MemoryApart'
  <2>1. new[r] = 1
    BY <1>4, <1>5, <1>10
  <2>2. ASSUME NEW s \in Run \ {r}, new[s] > 0
        PROVE  /\ new[s] = 1 /\ phase[s] = "ended"
               /\ \A l \in DOMAIN dir : Holds(l, s) => ok /\ l = n
    <3>1. old[s] > 0 => read[s] = 0
      BY <1>2, <1>4, <1>10 DEF Holds, read
    <3>2. CASE old[s] > 0
      BY <1>4, <1>5, <1>10, <2>2, <3>1, <3>2
    <3>3. CASE ~ old[s] > 0
      <4>1. ok /\ read[s] > 0 /\ new[s] = read[s]
        BY <1>4, <1>5, <2>2, <3>3
      <4>2. Holds(n, s)
        BY <4>1 DEF Holds, read
      <4> QED
        BY <1>1, <1>2, <1>4, <1>9, <4>1, <4>2 DEF FilesApart
    <3> QED
      BY <3>2, <3>3
  <2> QED
    BY <1>2, <1>3, <1>6, <1>8, <2>1, <2>2 DEF MemoryApart, Holds, Busy
<1>14. MergedBeforeUnlinked'
  <2>1. \A s \in Run : phase'[s] = "unlinking" => s = r /\ ok /\ at'[s] = n
    BY <1>3, <1>8
  <2>2. \A s \in Run : ok /\ Holds(n, s) => new[s] > 0
    BY <1>4, <1>5 DEF Holds, read
  <2> QED
    BY <1>2, <1>6, <2>1, <2>2 DEF MergedBeforeUnlinked, Holds
<1>15. WritesItsOwn'
  BY <1>1, <1>2, <1>8 DEF WritesItsOwn, Linked
<1>16. NoneLost'
  <2>1. \A s \in Run : old[s] > 0 => new[s] > 0
    BY <1>4, <1>5
  <2>2. \A s, t \in Run : memory[t].sources[s] > 0 => memory'[t].sources[s] > 0
    BY <1>2, <1>6, <2>1 DEF old
  <2> QED
    BY <1>1, <1>2, <1>7, <1>8, <2>2 DEF NoneLost, Holds, Busy
<1> QED
  BY <1>11, <1>12, <1>13, <1>14, <1>15, <1>16 DEF Apart

\* What a report that is unlinked has counted is in memory.
LEMMA UnlinkOnce ==
  ASSUME RunTypes, Once, NEW r \in Run, Unlink(r)
  PROVE  Once'
<1> SUFFICES ASSUME ~ disturbed' PROVE Apart'
  BY DEF Once
<1>1. /\ FilesApart /\ UnfinishedHoldNothing /\ MergesAlone /\ KeepsToItself
      /\ MemoryApart /\ MergedBeforeUnlinked /\ WritesItsOwn /\ NoneLost
  BY DEF Once, Apart, Unlink
<1>2. /\ phase[r] = "unlinking" /\ phase'[r] = "merging"
      /\ \A s \in Run : s # r => phase'[s] = phase[s] /\ at'[s] = at[s]
      /\ DOMAIN dir' = DOMAIN dir \ {at[r]} /\ \A n \in DOMAIN dir' : dir'[n] = dir[n]
      /\ UNCHANGED <<info, left, memory, name>>
  BY DEF Unlink, Goes, RunTypes
<1>3. info[r].incremental /\ (\A s \in Run : Busy(s) <=> s = r)
  BY <1>1, <1>2 DEF MergesAlone, KeepsToItself, Busy
<1>4. \A s \in Run : Busy(s)' <=> s = r
  BY <1>2, <1>3 DEF Busy
<1>5. \A s \in Run : phase'[s] = "ended" <=> phase[s] = "ended"
  BY <1>2
<1>6. FilesApart' /\ UnfinishedHoldNothing'
  BY <1>1, <1>2, <1>5 DEF FilesApart, Holds, UnfinishedHoldNothing
<1>7. MergesAlone' /\ KeepsToItself'
  BY <1>1, <1>2, <1>3, <1>4 DEF MergesAlone, KeepsToItself
<1>8. MemoryApart'
  BY <1>1, <1>2, <1>3, <1>4, <1>5 DEF MemoryApart, Holds
<1>9. MergedBeforeUnlinked' /\ WritesItsOwn'
  BY <1>2, <1>3 DEF MergedBeforeUnlinked, WritesItsOwn, Busy
<1>10. NoneLost'
  <2>1. ASSUME NEW s \in Run, NEW n \in DOMAIN dir, Holds(n, s)
        PROVE  (n \in DOMAIN dir' /\ Holds(n, s)') \/ memory[r].sources[s] > 0
    BY <1>1, <1>2, <2>1 DEF MergedBeforeUnlinked, Holds
  <2> QED
    BY <1>1, <1>2, <1>3, <1>4, <1>5, <2>1 DEF NoneLost
<1> QED
  BY <1>6, <1>7, <1>8, <1>9, <1>10 DEF Apart

\* A new report counts nothing yet.
LEMMA CreateOnce ==
  ASSUME RunTypes, Once, NEW r \in Run, Create(r)
  PROVE  Once'
<1> SUFFICES ASSUME ~ disturbed' PROVE Apart'
  BY DEF Once
<1>1. PICK k \in Free(r) : CreateAs(r, Name(r, k))
  BY DEF Create
<1> DEFINE own == Name(r, k)
<1>2. own \notin DOMAIN dir
  BY DEF Free
<1>3. CreateAs(r, own)
  BY <1>1
<1> HIDE DEF own
<1>4. /\ FilesApart /\ UnfinishedHoldNothing /\ MergesAlone /\ KeepsToItself
      /\ MemoryApart /\ MergedBeforeUnlinked /\ WritesItsOwn /\ NoneLost
  BY <1>3 DEF Once, Apart, CreateAs
<1>5. /\ phase[r] = "merging" /\ phase'[r] = "writing"
      /\ \A s \in Run : s # r => phase'[s] = phase[s] /\ name'[s] = name[s]
      /\ DOMAIN dir' = DOMAIN dir \cup {own}
      /\ \A n \in DOMAIN dir : dir'[n] = dir[n]
      /\ dir'[own].sources = Nothing /\ dir'[own].writer = r /\ name'[r] = own
      /\ UNCHANGED <<info, left, at, memory>>
  BY <1>2, <1>3 DEF CreateAs, Goes, RunTypes, File
<1>6. /\ \A s \in Run : Busy(s)' <=> Busy(s)
      /\ \A s \in Run : phase'[s] = "ended" <=> phase[s] = "ended"
      /\ \A s \in Run : phase'[s] = "running" <=> phase[s] = "running"
      /\ \A s \in Run : phase'[s] = "crashed" <=> phase[s] = "crashed"
      /\ \A s \in Run : phase'[s] = "unlinking" <=> phase[s] = "unlinking"
  BY <1>5 DEF Busy
<1>7. \A n \in DOMAIN dir', s \in Run : Holds(n, s)' <=> n \in DOMAIN dir /\ Holds(n, s)
  BY <1>2, <1>5 DEF Holds, Nothing
<1>8. FilesApart'
  BY <1>4, <1>5, <1>6, <1>7 DEF FilesApart, Nothing
<1>9. UnfinishedHoldNothing'
  BY <1>4, <1>5 DEF UnfinishedHoldNothing
<1>10. MergesAlone' /\ KeepsToItself'
  BY <1>4, <1>5, <1>6 DEF MergesAlone, KeepsToItself
<1>11. MemoryApart'
  BY <1>4, <1>5, <1>6, <1>7 DEF MemoryApart
<1>12. MergedBeforeUnlinked'
  BY <1>4, <1>5, <1>6, <1>7 DEF MergedBeforeUnlinked
<1>13. WritesItsOwn'
  BY <1>2, <1>4, <1>5 DEF WritesItsOwn, Linked
<1>14. NoneLost'
  BY <1>4, <1>5, <1>6, <1>7 DEF NoneLost
<1> QED
  BY <1>8, <1>9, <1>10, <1>11, <1>12, <1>13, <1>14 DEF Apart

\* What goes to the file before fclose does not count a run.
LEMMA FlushOnce ==
  ASSUME RunTypes, Once, NEW r \in Run, Flush(r)
  PROVE  Once'
<1> SUFFICES ASSUME ~ disturbed' PROVE Apart'
  BY DEF Once
<1>1. /\ FilesApart /\ UnfinishedHoldNothing /\ MergesAlone /\ KeepsToItself
      /\ MemoryApart /\ MergedBeforeUnlinked /\ WritesItsOwn /\ NoneLost
  BY DEF Once, Apart, Flush
<1>2. /\ DOMAIN dir' = DOMAIN dir
      /\ \A n \in DOMAIN dir : dir'[n].sources = dir[n].sources /\ dir'[n].writer = dir[n].writer
      /\ \A n \in DOMAIN dir : dir'[n].state # "complete" =>
           dir[n].state # "complete" \/ dir'[n].sources = Nothing
      /\ UNCHANGED <<info, phase, left, at, memory, name>>
  <2>1. dir[name[r]].sources = Nothing /\ dir[name[r]].writer = r /\ name[r] \in DOMAIN dir
    BY <1>1 DEF WritesItsOwn, Linked, Flush
  <2> QED
    BY <2>1 DEF Flush, File
<1>3. FilesApart' /\ UnfinishedHoldNothing'
  BY <1>1, <1>2 DEF FilesApart, Holds, UnfinishedHoldNothing
<1>4. MergesAlone' /\ KeepsToItself'
  BY <1>1, <1>2 DEF MergesAlone, KeepsToItself, Busy
<1>5. MemoryApart' /\ MergedBeforeUnlinked'
  BY <1>1, <1>2 DEF MemoryApart, MergedBeforeUnlinked, Holds, Busy
<1>6. WritesItsOwn' /\ NoneLost'
  BY <1>1, <1>2 DEF WritesItsOwn, Linked, NoneLost, Holds, Busy
<1> QED
  BY <1>3, <1>4, <1>5, <1>6 DEF Apart

\* A run that ends is in its own report, together with those it has merged.
LEMMA CloseOnce ==
  ASSUME IInv, RunTypes, Once, NEW r \in Run, Close(r)
  PROVE  Once'
<1> SUFFICES ASSUME ~ disturbed' PROVE Apart'
  BY DEF Once
<1>1. /\ FilesApart /\ UnfinishedHoldNothing /\ MergesAlone /\ KeepsToItself
      /\ MemoryApart /\ MergedBeforeUnlinked /\ WritesItsOwn /\ NoneLost
  BY DEF Once, Apart, Close
<1>0. PICK own, sum : own = name[r] /\ sum = memory[r].sources
  OBVIOUS
<1>2. phase[r] = "writing" /\ Linked(r) /\ dir[own].sources = Nothing /\ dir[own].writer = r
  BY <1>0, <1>1 DEF WritesItsOwn, Close, Linked
<1>3. /\ phase'[r] = "ended" /\ \A s \in Run : s # r => phase'[s] = phase[s]
      /\ \A s \in Run : s # r => memory'[s] = memory[s] /\ name'[s] = name[s]
      /\ memory'[r].sources = Only(r)
      /\ UNCHANGED <<info, left, at>>
  <2>1. DOMAIN memory = Run
    BY DEF IInv, MemoryOK
  <2> QED
    BY <2>1 DEF Close, Goes, RunTypes, RuntimeOf
<1>4. /\ DOMAIN dir' = DOMAIN dir /\ own \in DOMAIN dir
      /\ \A n \in DOMAIN dir : n # own => dir'[n] = dir[n]
      /\ dir'[own].sources = sum /\ dir'[own].state = "complete" /\ dir'[own].writer = r
  BY <1>0, <1>2 DEF Close, Linked, File
<1>5. \A s \in Run : sum[s] \in Nat
  <2>1. memory[r].sources \in Bag
    BY DEF IInv, MemoryOK, OwnRuntime, CountsOf
  <2> QED
    BY <1>0, <2>1 DEF Bag
<1>6. Busy(r) /\ \A s \in Run : Busy(s)' <=> Busy(s) /\ s # r
  BY <1>2, <1>3 DEF Busy
<1>7. /\ sum[r] = 1
      /\ \A s \in Run \ {r} : sum[s] > 0 =>
           sum[s] = 1 /\ phase[s] = "ended" /\ \A n \in DOMAIN dir : ~ Holds(n, s)
  BY <1>0, <1>1, <1>2, <1>6 DEF MemoryApart
<1>8. \A n \in DOMAIN dir : ~ Holds(n, r)
  BY <1>1, <1>2 DEF FilesApart
<1>9. \A s \in Run : ~ Holds(own, s)
  BY <1>2 DEF Holds, Nothing
<1>10. /\ \A n \in DOMAIN dir, s \in Run : n # own => (Holds(n, s)' <=> Holds(n, s))
       /\ \A s \in Run : Holds(own, s)' <=> sum[s] > 0
  BY <1>4 DEF Holds
<1>11. FilesApart'
  <2>1. ASSUME NEW n \in DOMAIN dir, NEW s \in Run
        PROVE  dir'[n].sources[s] <= 1
    BY <1>1, <1>4, <1>5, <1>7 DEF FilesApart
  <2>2. ASSUME NEW n \in DOMAIN dir, NEW s \in Run, Holds(n, s)'
        PROVE  phase'[s] = "ended"
    BY <1>1, <1>3, <1>7, <1>10, <2>2 DEF FilesApart
  <2>3. ASSUME NEW n \in DOMAIN dir, NEW m \in DOMAIN dir, NEW s \in Run,
               Holds(n, s)', Holds(m, s)'
        PROVE  m = n
    BY <1>1, <1>7, <1>8, <1>10, <2>3 DEF FilesApart
  <2> QED
    BY <1>4, <2>1, <2>2, <2>3 DEF FilesApart
<1>12. UnfinishedHoldNothing'
  BY <1>1, <1>4 DEF UnfinishedHoldNothing
<1>13. MergesAlone'
  BY <1>1, <1>3, <1>6 DEF MergesAlone
<1>14. KeepsToItself'
  BY <1>1, <1>3, <1>6 DEF KeepsToItself
<1>15. MemoryApart'
  <2>1. ASSUME NEW s \in Run, Busy(s)'
        PROVE  s # r /\ Busy(s) /\ ~ info[s].incremental /\ memory'[s].sources = Only(s)
    BY <1>1, <1>3, <1>6, <2>1 DEF MergesAlone, KeepsToItself
  <2>2. \A s \in Run : Only(s)[s] = 1 /\ \A t \in Run \ {s} : Only(s)[t] = 0
    BY DEF Only, Nothing
  <2> QED
    BY <2>1, <2>2 DEF MemoryApart
<1>16. MergedBeforeUnlinked'
  <2>1. \A s \in Run : phase'[s] # "unlinking"
    BY <1>1, <1>3, <1>6 DEF MergesAlone, KeepsToItself, Busy
  <2> QED
    BY <2>1 DEF MergedBeforeUnlinked
<1>17. WritesItsOwn'
  BY <1>1, <1>2, <1>3, <1>4 DEF WritesItsOwn, Linked
<1>18. NoneLost'
  <2>1. Holds(own, r)'
    BY <1>7, <1>10
  <2>2. ASSUME NEW s \in Run, s # r, phase[s] = "ended"
        PROVE  \/ \E n \in DOMAIN dir : Holds(n, s)'
               \/ \E t \in Run : (Busy(t)' \/ phase'[t] = "crashed") /\ memory'[t].sources[s] > 0
    <3>1. CASE \E n \in DOMAIN dir : Holds(n, s)
      BY <1>9, <1>10, <3>1
    <3>2. ASSUME NEW t \in Run, Busy(t) \/ phase[t] = "crashed", memory[t].sources[s] > 0
          PROVE  \/ \E n \in DOMAIN dir : Holds(n, s)'
                 \/ (Busy(t)' \/ phase'[t] = "crashed") /\ memory'[t].sources[s] > 0
      <4>1. CASE t = r
        BY <1>0, <1>4, <1>10, <3>2, <4>1
      <4>2. CASE t # r
        BY <1>3, <1>6, <3>2, <4>2
      <4> QED
        BY <4>1, <4>2
    <3> QED
      BY <1>1, <2>2, <3>1, <3>2 DEF NoneLost
  <2> QED
    BY <1>3, <1>4, <2>1, <2>2 DEF NoneLost
<1> QED
  BY <1>11, <1>12, <1>13, <1>14, <1>15, <1>16, <1>17, <1>18 DEF Apart

\* Runs start with an empty directory, each with itself in memory.
LEMMA OnceInit == Init => Once
<1> SUFFICES ASSUME Init PROVE Apart
  BY DEF Once
<1>1. /\ dir = <<>> /\ \A r \in Run : phase[r] = "running" /\ memory[r].sources = Only(r)
  BY DEF Init, RunInit, RuntimeOf
<1>2. DOMAIN dir = {}
  BY <1>1
<1> QED
  BY <1>1, <1>2 DEF Apart, FilesApart, UnfinishedHoldNothing, MergesAlone, KeepsToItself,
    MemoryApart, MergedBeforeUnlinked, WritesItsOwn, NoneLost, Busy

\* The invariant is inductive; reads that fail and runs that overlap end it.
LEMMA OnceNext == IInv /\ RunTypes /\ Once /\ [Next]_vars => Once'
<1> SUFFICES ASSUME IInv, RunTypes, Once, [Next]_vars PROVE Once'
  OBVIOUS
<1>1. ASSUME NEW r \in Run, RunStep(r)
      PROVE  Once'
  <2>1. ASSUME NEW n, ReadFails(r, n) PROVE Once'
    BY <2>1 DEF ReadFails, Once
  <2> QED
    BY <1>1, <2>1, FinishOnce, SkipOnce, LookOnce, UnlinkOnce, CreateOnce, FlushOnce,
       CloseOnce, CrashOnce DEF RunStep
<1>2. CASE UNCHANGED runVars
  BY <1>2 DEF runVars, Once, Apart, FilesApart, UnfinishedHoldNothing, MergesAlone,
    KeepsToItself, MemoryApart, MergedBeforeUnlinked, WritesItsOwn, NoneLost, Busy, Linked, Holds
<1> QED
  BY <1>1, <1>2 DEF Next, vars, StartTool, ToolStep, ToolFails, ToolSkips

\* As long as runs do not overlap with one that merges, and reads do not fail, a run is in
\* one report at most, wherever runs crash, and once it has ended it is in one, or in the
\* memory of a run that merges, or was in that of one that crashed: load_reports has counted
\* a report before it unlinks it, and a report counts nothing before fclose.
THEOREM ReportedOnce == Spec => []RunsReportedOnce
<1>1. ASSUME IInv, ToolInv, RunTypes, Once
      PROVE  RunsReportedOnce
  <2> SUFFICES ASSUME ~ disturbed, NEW r \in Run
               PROVE  /\ Copies(r) <= 1
                      /\ phase[r] = "ended" =>
                           \/ Copies(r) = 1
                           \/ \E s \in Run : (Busy(s) \/ phase[s] = "crashed")
                                             /\ memory[s].sources[r] > 0
    BY DEF RunsReportedOnce
  <2>1. FilesApart /\ NoneLost
    BY <1>1 DEF Once, Apart
  <2>2. \A n \in DOMAIN dir : dir[n].sources[r] \in Nat /\ dir[n].sources[r] <= 1
    BY <1>1, <2>1 DEF IInv, DirOK, OwnFile, CountsOf, Bag, FilesApart
  <2>3. \A n \in DOMAIN dir : dir[n].sources[r] \in {0, 1}
    BY <2>2
  <2>4. \A m, n \in DOMAIN dir : Holds(m, r) /\ Holds(n, r) => m = n
    BY <2>1 DEF FilesApart
  <2>5. IsFiniteSet(DOMAIN dir)
    BY <1>1 DEF ToolInv
  <2>6. Copies(r) = IF \E n \in DOMAIN dir : Holds(n, r) THEN 1 ELSE 0
    BY <2>3, <2>4, <2>5, OneCopy
  <2> QED
    BY <2>1, <2>6 DEF NoneLost
<1>2. Init => IInv /\ ToolInv /\ RunTypes /\ ToolTypes(tool) /\ Once
  BY Initially, ToolInvInit, TypesInit, OnceInit
<1>3. IInv /\ ToolInv /\ RunTypes /\ ToolTypes(tool) /\ Once /\ [Next]_vars
        => (IInv /\ ToolInv /\ RunTypes /\ ToolTypes(tool) /\ Once)'
  BY NextStep, ToolInvNext, TypesNext, OnceNext
<1> QED
  BY <1>1, <1>2, <1>3, PTL DEF Spec

-----------------------------------------------------------------------------
(* What aprof-helper keeps.                                                *)

\* A report is where its header says, and an empty one has counted nothing.
HeaderOf(n, f) ==
  /\ f.app = n.app /\ f.res = n.res /\ n.app # NoValue /\ n.res # NoValue
  /\ f.state = "empty" => f.k = Nothing /\ f.sources = Nothing
Headers == \A n \in DOMAIN dir : HeaderOf(n, dir[n])

\* What the reports P count of run r.
Of(field, r) == [n \in DOMAIN dir |-> dir[n][field][r]]
SumIn(field, r, P) == Total(Of(field, r), P)

\* These counts, and at least these costs, are those of the reports P.
Counts(sources, k, P) ==
  /\ P \in SUBSET DOMAIN dir
  /\ \A r \in Run : sources[r] = SumIn("sources", r, P) /\ SumIn("k", r, P) <= k[r]

StandsFor(e) ==
  /\ Counts(e.file.sources, e.file.k, e.parts) /\ e.parts # {}
  /\ {"k", "sources", "state"} \subseteq DOMAIN e.file
  /\ e.file.state = "empty" => e.file.sources = Nothing /\ e.file.k = Nothing

\* What is left of the list besides curr.
Left(t) == {j \in 1..Len(t.list) : j \notin t.struck /\ j # t.curr}

\* w says where a report is: at a place of the list, in the group (0), or in a new report
\* (a negative number).
Placed(t, w) ==
  \A n \in DOMAIN dir :
    /\ w[n] \in Int
    /\ w[n] > 0 => w[n] \in Left(t)
    /\ w[n] = 0 => t.curr # 0
    /\ w[n] < 0 => -w[n] \in 1..Len(t.out)
    /\ \A j \in Left(t) : n \in t.list[j].parts <=> w[n] = j
    /\ t.curr # 0 => (n \in t.group <=> w[n] = 0)
    /\ \A j \in 1..Len(t.out) : n \in t.out[j].parts <=> w[n] = -j

\* The list has the reports of the directory, or in the second round of -t -r those of the
\* first.
ListOK(t) ==
  /\ \A j \in 1..Len(t.list) : StandsFor(t.list[j])
  /\ t.option # "tr" => \A j \in 1..Len(t.list) : \E n \in DOMAIN dir : t.list[j] = Entry(n)

NewOK(out) == IsSeq(out) /\ \A j \in 1..Len(out) : StandsFor(out[j])

GroupOK(t) ==
  t.curr # 0 =>
    IF t.merged = 0 THEN t.phase = "threads" /\ t.group = t.list[t.curr].parts
    ELSE Counts(t.rt.sources, t.rt.extra, t.group) /\ t.group # {}

LoopsOf(t) ==
  /\ t.option \in Options
  /\ t.option = "t" => t.phase = "threads"
  /\ t.option \in {"r", "i"} => t.phase = "runs"

\* -t: no report of the process of curr has been passed over, and none is in another new
\* report.
Process(w) == \A m, n \in DOMAIN dir : w[m] < 0 /\ m.pid = n.pid => w[n] = w[m]
ByProcess(t, w, i) ==
  t.option = "t" =>
    /\ t.curr # 0 =>
         /\ \A n \in DOMAIN dir : w[n] = 0 => n.pid = t.list[t.curr].pid
         /\ \A j \in Left(t) : j < i => t.list[j].pid # t.list[t.curr].pid
    /\ Process(w)

\* -r: what is in one report is of one thread, and of one program and resolution if there
\* is anything in it.
IsFull(n) == dir[n].state # "empty"
Alike(m, n) == m.tid = n.tid /\ (IsFull(m) /\ IsFull(n) => m.app = n.app /\ m.res = n.res)
Runs(w) == \A m, n \in DOMAIN dir : w[m] < 0 /\ w[n] = w[m] => Alike(m, n)
Fitting(rt, n) == IsFull(n) => rt.app = n.app /\ rt.res = n.res
ByRun(t, w) ==
  t.option = "r" =>
    /\ t.curr # 0 => \A n \in DOMAIN dir : w[n] = 0 => n.tid = t.list[t.curr].tid /\ Fitting(t.rt, n)
    /\ Runs(w)

\* The reports before list[i] have been looked at.
Kept(t, w, i) ==
  /\ DOMAIN t = Fields /\ LoopsOf(t)
  /\ ListOK(t) /\ NewOK(t.out) /\ GroupOK(t)
  /\ Placed(t, w) /\ ByProcess(t, w, i) /\ ByRun(t, w)

\* When nothing is left.
AllNew(out, w) ==
  \A n \in DOMAIN dir :
    w[n] \in Int /\ -w[n] \in 1..Len(out) /\ \A j \in 1..Len(out) : n \in out[j].parts <=> w[n] = -j
Ended(t, w) ==
  /\ NewOK(t.out) /\ AllNew(t.out, w)
  /\ t.option = "t" => Process(w)
  /\ t.option = "r" => Runs(w)

Keeping ==
  /\ Headers
  /\ Looping(tool) => \E w : Kept(tool, w, tool.i)
  /\ tool.phase = "done" => \E w : Ended(tool, w)

\* What a run writes is in the file that it has created for it.
LEMMA HeadersNext ==
  ASSUME IInv, RunTypes, Headers, NEW r \in Run, RunStep(r)
  PROVE  Headers'
<1>1. CASE UNCHANGED dir
  BY <1>1 DEF Headers
<1>2. CASE Unlink(r)
  <2>1. \A n \in DOMAIN dir' : n \in DOMAIN dir /\ dir'[n] = dir[n]
    BY <1>2 DEF Unlink
  <2> QED
    BY <2>1 DEF Headers
<1>3. CASE Create(r)
  <2>1. PICK k \in Free(r) : CreateAs(r, Name(r, k))
    BY <1>3 DEF Create
  <2> DEFINE n == Name(r, k)
             f == File(r, "empty", Nothing, Nothing)
  <2>2. \A m \in DOMAIN dir' : \/ m = n /\ dir'[m] = f
                               \/ m \in DOMAIN dir /\ dir'[m] = dir[m]
    <3> HIDE DEF n
    <3>1. CreateAs(r, n)
      BY <2>1 DEF n
    <3>2. dir' = [m \in DOMAIN dir \cup {n} |-> IF m = n THEN f ELSE dir[m]]
      BY <3>1 DEF CreateAs
    <3> HIDE DEF f
    <3> QED
      BY <3>2
  <2>3. /\ n.app = info[r].app /\ n.res = info[r].res
        /\ f.app = info[r].app /\ f.res = info[r].res
        /\ f.k = Nothing /\ f.sources = Nothing
    BY DEF Name, File
  <2>4. info[r].app # NoValue /\ info[r].res # NoValue
    BY DEF IInv, InfoOK, Field
  <2> HIDE DEF n, f
  <2>5. HeaderOf(n, f)
    BY <2>3, <2>4 DEF HeaderOf
  <2> QED
    BY <2>2, <2>5 DEF Headers
<1>4. ASSUME NEW state \in {"torn", "complete"}, NEW k, NEW sources, Linked(r),
             dir' = [dir EXCEPT ![name[r]] = File(r, state, k, sources)]
      PROVE  Headers'
  <2> DEFINE n == name[r]
             f == File(r, state, k, sources)
  <2>1. n \in DOMAIN dir /\ dir[n].writer = r /\ HeaderOf(n, dir[n]) /\ OwnFile(r, dir[n])
    BY <1>4 DEF Linked, Headers, IInv, DirOK
  <2>2. dir[n].app = info[r].app /\ dir[n].res = info[r].res
    BY <2>1 DEF OwnFile, Files
  <2>3. f.app = info[r].app /\ f.res = info[r].res /\ f.state # "empty"
    BY <1>4 DEF File
  <2>4. HeaderOf(n, f)
    BY <2>1, <2>2, <2>3 DEF HeaderOf
  <2>5. \A m \in DOMAIN dir' : m \in DOMAIN dir /\ dir'[m] = IF m = n THEN f ELSE dir[m]
    BY <1>4
  <2> HIDE DEF n, f
  <2> QED
    BY <2>4, <2>5 DEF Headers
<1>5. CASE Flush(r) \/ Close(r)
  BY <1>1, <1>4, <1>5 DEF Flush, Close
<1> QED
  BY <1>1, <1>2, <1>3, <1>5 DEF RunStep, Finish, Crash, Skip, Look, ReadFails

-----------------------------------------------------------------------------
(* The counts of several reports.                                          *)

LEMMA DirCounts ==
  ASSUME IInv, NEW r \in Run, NEW field \in {"k", "sources"}
  PROVE  /\ Integral(Of(field, r), DOMAIN dir)
         /\ \A n \in DOMAIN dir : Of(field, r)[n] \in Nat /\ Of(field, r)[n] = dir[n][field][r]
<1>1. ASSUME NEW n \in DOMAIN dir
      PROVE  dir[n][field][r] \in Nat
  <2>1. dir[n].k \in Bag /\ dir[n].sources \in Bag
    BY DEF IInv, DirOK, OwnFile, Files
  <2> QED
    BY <2>1 DEF Bag
<1> QED
  BY <1>1 DEF Of, Integral

LEMMA SumsIn ==
  ASSUME IInv, IsFiniteSet(DOMAIN dir), NEW r \in Run, NEW field \in {"k", "sources"}
  PROVE  /\ SumIn(field, r, {}) = 0
         /\ \A n \in DOMAIN dir : SumIn(field, r, {n}) = dir[n][field][r]
         /\ \A P \in SUBSET DOMAIN dir : IsFiniteSet(P) /\ SumIn(field, r, P) \in Nat
         /\ \A P, Q \in SUBSET DOMAIN dir :
              P \cap Q = {} => SumIn(field, r, P \cup Q) = SumIn(field, r, P) + SumIn(field, r, Q)
<1> DEFINE f == Of(field, r)
<1>1. /\ Integral(f, DOMAIN dir)
      /\ \A n \in DOMAIN dir : f[n] \in Nat /\ f[n] = dir[n][field][r]
  BY DirCounts
<1> HIDE DEF f
<1>2. ASSUME NEW P \in SUBSET DOMAIN dir
      PROVE  IsFiniteSet(P) /\ Total(f, P) \in Nat /\ Integral(f, P)
  <2>1. IsFiniteSet(P)
    BY FS_Subset
  <2>2. Total(f, P) \in Nat
    BY <1>1, <2>1, TotalBounds
  <2> QED
    BY <1>1, <2>1, <2>2 DEF Integral
<1>3. Total(f, {}) = 0
  BY <1>1, TotalSteps
<1>4. ASSUME NEW n \in DOMAIN dir
      PROVE  Total(f, {n}) = f[n]
  <2>1. Total(f, {n}) = f[n] + Total(f, {n} \ {n})
    BY <1>1, TotalSteps
  <2>2. {n} \ {n} = {}
    OBVIOUS
  <2>3. Total(f, {n}) = f[n] + 0
    BY <1>3, <2>1, <2>2
  <2>4. f[n] \in Nat
    BY <1>1
  <2> QED
    BY <2>3, <2>4
<1>5. ASSUME NEW P \in SUBSET DOMAIN dir, NEW Q \in SUBSET DOMAIN dir, P \cap Q = {}
      PROVE  Total(f, P \cup Q) = Total(f, P) + Total(f, Q)
  <2>1. Integral(f, P \cup Q)
    BY <1>1 DEF Integral
  <2> QED
    BY <1>2, <1>5, <2>1, TotalUnion
<1> QED
  BY <1>1, <1>2, <1>3, <1>4, <1>5 DEF SumIn, f

\* merge_report adds the counts of a report that it accepts, and never takes from the costs.
LEMMA MergeCounts ==
  ASSUME IInv, IsFiniteSet(DOMAIN dir), NEW rt, RuntimeOK(rt), NEW e, EntryOK(e), StandsFor(e),
         NEW P, Counts(rt.sources, rt.extra, P), P \cap e.parts = {}, NEW any \in BOOLEAN
  PROVE  LET m == merge_report(rt, e.file, any)
         IN  Counts(m.rt.sources, m.rt.extra, IF m.ok THEN P \cup e.parts ELSE P)
<1> DEFINE f == e.file
           Q == e.parts
           R == P \cup Q
<1>1. /\ DOMAIN rt = {"mtime", "metric", "res", "app", "extra", "sources"}
      /\ rt.extra \in Bag /\ rt.sources \in Bag /\ f.k \in Bag /\ f.sources \in Bag
  BY DEF RuntimeOK, EntryOK, Unset
<1>2. P \in SUBSET DOMAIN dir /\ Q \in SUBSET DOMAIN dir /\ R \in SUBSET DOMAIN dir
  BY DEF Counts, StandsFor
<1>3. ASSUME NEW r \in Run
      PROVE  /\ rt.sources[r] = SumIn("sources", r, P) /\ SumIn("k", r, P) <= rt.extra[r]
             /\ f.sources[r] = SumIn("sources", r, Q) /\ SumIn("k", r, Q) <= f.k[r]
             /\ SumIn("sources", r, R) = rt.sources[r] + f.sources[r]
             /\ SumIn("k", r, R) <= rt.extra[r] + f.k[r]
             /\ SumIn("k", r, P) <= rt.extra[r] + f.k[r]
             /\ rt.sources[r] \in Nat /\ rt.extra[r] \in Nat
             /\ f.sources[r] \in Nat /\ f.k[r] \in Nat
  <2> DEFINE a == SumIn("k", r, P)
             b == SumIn("k", r, Q)
             c == rt.extra[r]
             d == f.k[r]
  <2>1. /\ rt.sources[r] = SumIn("sources", r, P) /\ a <= c
        /\ f.sources[r] = SumIn("sources", r, Q) /\ b <= d
    BY DEF Counts, StandsFor
  <2>2. rt.sources[r] \in Nat /\ c \in Nat /\ f.sources[r] \in Nat /\ d \in Nat
    BY <1>1 DEF Bag
  <2>3. /\ SumIn("sources", r, R) = SumIn("sources", r, P) + SumIn("sources", r, Q)
        /\ SumIn("k", r, R) = a + b /\ a \in Nat /\ b \in Nat
    BY <1>2, SumsIn
  <2> HIDE DEF a, b, c, d, f, Q, R
  <2>4. a + b <= c + d /\ a <= c + d
    BY <2>1, <2>2, <2>3
  <2> QED
    BY <2>1, <2>2, <2>3, <2>4 DEF a, b, c, d
<1>4. CASE f.state = "empty" /\ Fits(rt, f, "res")
  <2>1. f.sources = Nothing /\ f.k = Nothing
    BY <1>4 DEF StandsFor
  <2>2. Counts(rt.sources, rt.extra, R)
    <3>1. ASSUME NEW r \in Run
          PROVE  rt.sources[r] = SumIn("sources", r, R) /\ SumIn("k", r, R) <= rt.extra[r]
      <4>1. f.sources[r] = 0 /\ f.k[r] = 0
        BY <2>1 DEF Nothing
      <4> HIDE DEF f, R
      <4> QED
        BY <1>3, <4>1
    <3> HIDE DEF R
    <3> QED
      BY <1>2, <3>1 DEF Counts
  <2>3. merge_report(rt, f, any) = [ok |-> TRUE, rt |-> rt]
    BY <1>4 DEF merge_report
  <2> QED
    BY <2>2, <2>3
<1>5. CASE ~ Fits(rt, f, "res") \/ (f.state # "empty" /\ ~ Agrees(rt, f, any))
  <2>1. merge_report(rt, f, any) = [ok |-> FALSE, rt |-> rt]
    BY <1>5 DEF merge_report
  <2> QED
    BY <2>1
<1>6. /\ DOMAIN Adopted(rt, f) = {"mtime", "metric", "res", "app", "extra", "sources"}
      /\ Adopted(rt, f).extra = rt.extra ++ f.k /\ Adopted(rt, f).sources = rt.sources
  BY <1>1 DEF Adopted
<1>7. CASE f.state # "empty" /\ Agrees(rt, f, any) /\ f.cct
  <2>1. merge_report(rt, f, any) = [ok |-> FALSE, rt |-> Adopted(rt, f)]
    BY <1>7, SameResolution DEF merge_report
  <2>2. \A r \in Run : (rt.extra ++ f.k)[r] = rt.extra[r] + f.k[r]
    BY DEF ++
  <2> HIDE DEF f
  <2>3. Counts(rt.sources, rt.extra ++ f.k, P)
    BY <1>2, <1>3, <2>2 DEF Counts
  <2> QED
    BY <1>6, <2>1, <2>3 DEF f
<1>8. CASE f.state # "empty" /\ Agrees(rt, f, any) /\ ~ f.cct
  <2> DEFINE s == TuplesAdded(Adopted(rt, f), f)
  <2>1. merge_report(rt, f, any) = [ok |-> TRUE, rt |-> s]
    BY <1>8, SameResolution DEF merge_report
  <2>2. s.extra = rt.extra ++ f.k /\ s.sources = rt.sources ++ f.sources
    <3> HIDE DEF f
    <3> QED
      BY <1>6 DEF TuplesAdded
  <2>3. \A r \in Run : /\ (rt.extra ++ f.k)[r] = rt.extra[r] + f.k[r]
                       /\ (rt.sources ++ f.sources)[r] = rt.sources[r] + f.sources[r]
    BY DEF ++
  <2> HIDE DEF f, R, s
  <2>4. Counts(rt.sources ++ f.sources, rt.extra ++ f.k, R)
    BY <1>2, <1>3, <2>3 DEF Counts
  <2> QED
    BY <2>1, <2>2, <2>4 DEF f, R
<1> QED
  BY <1>4, <1>5, <1>7, <1>8

\* With -r, what fits the runtime of aprof-helper goes on fitting it, and so does what it
\* accepts.
LEMMA MergeFits ==
  ASSUME Headers, NEW rt, RuntimeOK(rt), NEW n \in DOMAIN dir
  PROVE  LET m == merge_report(rt, dir[n], FALSE)
         IN  /\ \A p \in DOMAIN dir : Fitting(rt, p) => Fitting(m.rt, p)
             /\ m.ok => Fitting(m.rt, n)
<1> DEFINE f == dir[n]
           m == merge_report(rt, f, FALSE)
<1>1. DOMAIN rt = {"mtime", "metric", "res", "app", "extra", "sources"}
  BY DEF RuntimeOK, Unset
<1>2. \A p \in DOMAIN dir : p.app # NoValue /\ p.res # NoValue
  BY DEF Headers, HeaderOf
<1>3. f.app = n.app /\ f.res = n.res
  BY DEF Headers, HeaderOf
<1>4. CASE f.state = "empty" /\ Fits(rt, f, "res")
  <2>1. m.rt = rt
    BY <1>4 DEF merge_report
  <2> QED
    BY <1>4, <2>1 DEF Fitting, IsFull
<1>5. CASE ~ Fits(rt, f, "res") \/ (f.state # "empty" /\ ~ Agrees(rt, f, FALSE))
  <2>1. m.rt = rt /\ ~ m.ok
    BY <1>5 DEF merge_report
  <2> QED
    BY <2>1
<1>6. CASE f.state # "empty" /\ Agrees(rt, f, FALSE)
  <2> DEFINE a == Adopted(rt, f)
             b == TuplesAdded(a, f)
  <2>1. m.rt \in {a, b}
    BY <1>6, SameResolution DEF merge_report
  <2>2. rt.app \in {NoValue, f.app} /\ rt.res \in {NoValue, f.res}
    BY <1>6 DEF Agrees, Fits, Field
  <2>3. a.app = f.app /\ a.res = f.res
        /\ DOMAIN a = {"mtime", "metric", "res", "app", "extra", "sources"}
    <3> HIDE DEF f
    <3> QED
      BY <1>1, <2>2 DEF Adopted
  <2> HIDE DEF a
  <2>4. b.app = f.app /\ b.res = f.res
    <3> HIDE DEF f
    <3> QED
      BY <2>3 DEF TuplesAdded
  <2> HIDE DEF b, m
  <2>5. m.rt.app = f.app /\ m.rt.res = f.res
    BY <2>1, <2>3, <2>4
  <2> HIDE DEF f
  <2>6. \A p \in DOMAIN dir : Fitting(rt, p) => Fitting(m.rt, p)
    BY <1>2, <2>2, <2>5 DEF Fitting
  <2>7. Fitting(m.rt, n)
    BY <1>3, <2>5 DEF Fitting
  <2> QED
    BY <2>6, <2>7 DEF m, f
<1> QED
  BY <1>4, <1>5, <1>6

-----------------------------------------------------------------------------
(* A turn at list[i]: it is passed over, taken up, or merged.              *)

SameLists(t, u) ==
  /\ DOMAIN u = Fields
  /\ u.phase = t.phase /\ u.option = t.option /\ u.list = t.list /\ u.out = t.out

Moved(w, i) == [n \in DOMAIN dir |-> IF w[n] = i THEN 0 ELSE w[n]]

LEMMA Passing ==
  ASSUME NEW t, NEW w, NEW i \in Nat, Kept(t, w, i), NEW u, SameLists(t, u),
         u.curr = t.curr, u.struck = t.struck, u.group = t.group, u.merged = t.merged,
         t.option = "t" /\ t.curr # 0 /\ i \in Left(t)
           => t.list[i].pid # t.list[t.curr].pid,
         Counts(t.rt.sources, t.rt.extra, t.group) => Counts(u.rt.sources, u.rt.extra, t.group),
         t.option = "r" => \A n \in DOMAIN dir : Fitting(t.rt, n) => Fitting(u.rt, n)
  PROVE  Kept(u, w, i + 1)
<1>1. /\ LoopsOf(u) /\ ListOK(u) /\ NewOK(u.out) /\ GroupOK(u)
  BY DEF Kept, SameLists, LoopsOf, ListOK, GroupOK
<1>2. Placed(u, w) /\ Left(u) = Left(t)
  <2>1. Left(u) = Left(t)
    BY DEF SameLists, Left
  <2> QED
    BY <2>1 DEF Kept, SameLists, Placed
<1>3. ByProcess(u, w, i + 1)
  <2> SUFFICES ASSUME t.option = "t" PROVE ByProcess(u, w, i + 1)
    BY DEF ByProcess, SameLists
  <2>1. \A j \in Left(t) : j < i + 1 => j < i \/ j = i
    BY DEF Left
  <2> QED
    BY <1>2, <2>1 DEF Kept, ByProcess, SameLists
<1>4. ByRun(u, w)
  BY DEF Kept, ByRun, SameLists
<1> QED
  BY <1>1, <1>2, <1>3, <1>4 DEF Kept, SameLists

\* list[i] goes to the group.
LEMMA Moving ==
  ASSUME NEW t, NEW w, NEW i \in Nat \ {0}, Kept(t, w, i), i \in Left(t),
         NEW u, SameLists(t, u),
         \/ t.curr = 0 /\ u.curr = i /\ u.struck = t.struck /\ u.group = t.list[i].parts
         \/ /\ t.curr # 0 /\ u.curr = t.curr /\ u.struck = t.struck \cup {i}
            /\ u.group = t.group \cup t.list[i].parts
  PROVE  /\ Placed(u, Moved(w, i)) /\ Left(u) = Left(t) \ {i}
         /\ \A n \in DOMAIN dir : /\ n \in t.list[i].parts <=> w[n] = i
                                  /\ Moved(w, i)[n] = IF w[n] = i THEN 0 ELSE w[n]
         /\ t.curr # 0 => t.group \cap t.list[i].parts = {}
<1> DEFINE v == Moved(w, i)
<1>1. \A n \in DOMAIN dir : v[n] = IF w[n] = i THEN 0 ELSE w[n]
  BY DEF Moved
<1>2. Left(u) = Left(t) \ {i}
  BY DEF Left, SameLists
<1>3. \A n \in DOMAIN dir : /\ n \in t.list[i].parts <=> w[n] = i
                            /\ t.curr # 0 => (n \in t.group <=> w[n] = 0)
  BY DEF Kept, Placed
<1>4. t.list[i].parts \in SUBSET DOMAIN dir
  BY DEF Kept, ListOK, StandsFor, Counts, Left
<1> HIDE DEF v
<1>5. t.curr # 0 => t.group \cap t.list[i].parts = {}
  BY <1>3, <1>4
<1>6. ASSUME NEW n \in DOMAIN dir
      PROVE  /\ v[n] \in Int
             /\ v[n] > 0 => v[n] \in Left(u)
             /\ v[n] = 0 => u.curr # 0
             /\ v[n] < 0 => -v[n] \in 1..Len(u.out)
             /\ \A j \in Left(u) : n \in u.list[j].parts <=> v[n] = j
             /\ u.curr # 0 => (n \in u.group <=> v[n] = 0)
             /\ \A j \in 1..Len(u.out) : n \in u.out[j].parts <=> v[n] = -j
  <2>1. /\ w[n] \in Int
        /\ w[n] > 0 => w[n] \in Left(t)
        /\ w[n] = 0 => t.curr # 0
        /\ w[n] < 0 => -w[n] \in 1..Len(t.out)
        /\ \A j \in Left(t) : n \in t.list[j].parts <=> w[n] = j
        /\ t.curr # 0 => (n \in t.group <=> w[n] = 0)
        /\ \A j \in 1..Len(t.out) : n \in t.out[j].parts <=> w[n] = -j
    BY DEF Kept, Placed
  <2>2. u.list = t.list /\ u.out = t.out
    BY DEF SameLists
  <2>3. v[n] = IF w[n] = i THEN 0 ELSE w[n]
    BY <1>1
  <2>4. CASE w[n] = i
    <3>1. v[n] = 0 /\ u.curr # 0 /\ n \in u.group
      BY <1>3, <2>3, <2>4
    <3>2. \A j \in Left(u) : j \in Left(t) /\ j # i /\ j # 0
      BY <1>2 DEF Left
    <3>3. \A j \in 1..Len(t.out) : w[n] # -j /\ 0 # -j
      BY <2>4
    <3> QED
      BY <2>1, <2>2, <2>4, <3>1, <3>2, <3>3
  <2>5. CASE w[n] # i
    <3>1. v[n] = w[n] /\ n \notin t.list[i].parts
      BY <1>3, <2>3, <2>5
    <3>2. u.curr # 0 => (n \in u.group <=> w[n] = 0)
      BY <2>1, <3>1
    <3>3. v[n] > 0 => v[n] \in Left(u)
      BY <1>2, <2>1, <2>5, <3>1
    <3>4. v[n] = 0 => u.curr # 0
      BY <2>1, <3>1
    <3> QED
      BY <1>2, <2>1, <2>2, <3>1, <3>2, <3>3, <3>4
  <2> QED
    BY <2>4, <2>5
<1>7. Placed(u, v)
  BY <1>6 DEF Placed
<1> QED
  BY <1>1, <1>2, <1>3, <1>5, <1>7 DEF v

\* What is in an entry of a list of the directory.
LEMMA EntryParts ==
  ASSUME NEW t, ListOK(t), t.option # "tr", NEW j \in 1..Len(t.list)
  PROVE  \E m \in DOMAIN dir :
           /\ t.list[j].parts = {m} /\ t.list[j].file = dir[m]
           /\ t.list[j].pid = m.pid /\ t.list[j].tid = m.tid
<1>1. PICK m \in DOMAIN dir : t.list[j] = Entry(m)
  BY DEF ListOK
<1> QED
  BY <1>1 DEF Entry

\* What is said of new reports is not disturbed by moving another one.
LEMMA MovingKeepsNew ==
  ASSUME NEW w, NEW i \in Nat \ {0}, \A n \in DOMAIN dir : w[n] \in Int
  PROVE  (Process(w) => Process(Moved(w, i))) /\ (Runs(w) => Runs(Moved(w, i)))
<1>1. \A n \in DOMAIN dir : Moved(w, i)[n] = IF w[n] = i THEN 0 ELSE w[n]
  BY DEF Moved
<1>2. ASSUME NEW n \in DOMAIN dir
      PROVE  /\ Moved(w, i)[n] < 0 <=> w[n] < 0
             /\ w[n] < 0 => Moved(w, i)[n] = w[n]
  BY <1>1
<1>3. ASSUME NEW m \in DOMAIN dir, NEW n \in DOMAIN dir, w[m] < 0
      PROVE  /\ w[n] = w[m] => Moved(w, i)[n] = Moved(w, i)[m]
             /\ Moved(w, i)[n] = Moved(w, i)[m] => w[n] = w[m]
  BY <1>1, <1>3
<1> QED
  BY <1>2, <1>3 DEF Process, Runs

LEMMA Taking ==
  ASSUME NEW t, NEW w, NEW i \in Nat \ {0}, Kept(t, w, i), i \in Left(t),
         NEW u, SameLists(t, u),
         t.curr = 0, 1..(i - 1) \subseteq t.struck,
         u.curr = i, u.struck = t.struck, u.group = t.list[i].parts,
         IF u.merged = 0 THEN t.phase = "threads"
         ELSE Counts(u.rt.sources, u.rt.extra, u.group),
         t.option = "r" => \A n \in u.group : Fitting(u.rt, n)
  PROVE  Kept(u, Moved(w, i), i + 1)
<1> DEFINE v == Moved(w, i)
<1>1. Placed(u, v) /\ Left(u) = Left(t) \ {i}
      /\ \A n \in DOMAIN dir : /\ n \in t.list[i].parts <=> w[n] = i
                               /\ v[n] = IF w[n] = i THEN 0 ELSE w[n]
  BY Moving
<1>2. i \in 1..Len(t.list) /\ \A n \in DOMAIN dir : w[n] \in Int /\ w[n] # 0
  BY DEF Kept, Placed, Left
<1>3. (Process(w) => Process(v)) /\ (Runs(w) => Runs(v))
  BY <1>2, MovingKeepsNew
<1> HIDE DEF v
<1>4. \A n \in DOMAIN dir : v[n] = 0 => n \in t.list[i].parts
  BY <1>1, <1>2
<1>5. LoopsOf(u) /\ ListOK(u) /\ NewOK(u.out)
  BY DEF Kept, SameLists, LoopsOf, ListOK
<1>6. GroupOK(u)
  <2>1. t.list[i].parts # {}
    BY <1>2 DEF Kept, ListOK, StandsFor
  <2> QED
    BY <2>1 DEF GroupOK, SameLists
<1>7. ByProcess(u, v, i + 1)
  <2> SUFFICES ASSUME t.option = "t" PROVE ByProcess(u, v, i + 1)
    BY DEF ByProcess, SameLists
  <2>1. PICK m \in DOMAIN dir : t.list[i].parts = {m} /\ t.list[i].pid = m.pid
    BY <1>2, EntryParts DEF Kept
  <2>2. \A n \in DOMAIN dir : v[n] = 0 => n.pid = t.list[i].pid
    BY <1>4, <2>1
  <2>3. \A j \in Left(u) : ~ j < i + 1
    <3>1. \A j \in Left(t) \ {i} : j \in 1..Len(t.list) /\ j \notin t.struck /\ j # i
      BY DEF Left
    <3> QED
      BY <1>1, <3>1
  <2>4. Process(v)
    BY <1>3 DEF Kept, ByProcess
  <2> QED
    BY <2>2, <2>3, <2>4 DEF ByProcess, SameLists
<1>8. ByRun(u, v)
  <2> SUFFICES ASSUME t.option = "r" PROVE ByRun(u, v)
    BY DEF ByRun, SameLists
  <2>1. PICK m \in DOMAIN dir : t.list[i].parts = {m} /\ t.list[i].tid = m.tid
    BY <1>2, EntryParts DEF Kept
  <2>2. \A n \in DOMAIN dir : v[n] = 0 => n.tid = t.list[i].tid /\ Fitting(u.rt, n)
    BY <1>4, <2>1
  <2>3. Runs(v)
    BY <1>3 DEF Kept, ByRun
  <2> QED
    BY <2>2, <2>3 DEF ByRun, SameLists
<1> QED
  BY <1>1, <1>5, <1>6, <1>7, <1>8 DEF Kept, SameLists, v

LEMMA Merging ==
  ASSUME NEW t, NEW w, NEW i \in Nat \ {0}, Kept(t, w, i), i \in Left(t),
         NEW u, SameLists(t, u),
         t.curr # 0, u.curr = t.curr, u.struck = t.struck \cup {i},
         u.group = t.group \cup t.list[i].parts,
         u.merged # 0, Counts(u.rt.sources, u.rt.extra, u.group),
         t.option = "t" => t.list[i].pid = t.list[t.curr].pid,
         t.option = "r" => /\ t.list[i].tid = t.list[t.curr].tid
                           /\ \A n \in u.group : Fitting(u.rt, n)
  PROVE  Kept(u, Moved(w, i), i + 1)
<1> DEFINE v == Moved(w, i)
<1>1. Placed(u, v) /\ Left(u) = Left(t) \ {i}
      /\ \A n \in DOMAIN dir : /\ n \in t.list[i].parts <=> w[n] = i
                               /\ v[n] = IF w[n] = i THEN 0 ELSE w[n]
  BY Moving
<1>2. i \in 1..Len(t.list)
      /\ \A n \in DOMAIN dir : w[n] \in Int /\ (n \in t.group <=> w[n] = 0)
  BY DEF Kept, Placed, Left
<1>3. (Process(w) => Process(v)) /\ (Runs(w) => Runs(v))
  BY <1>2, MovingKeepsNew
<1> HIDE DEF v
<1>4. \A n \in DOMAIN dir : v[n] = 0 => \/ n \in t.list[i].parts
                                        \/ w[n] = 0 /\ n \in t.group
  BY <1>1, <1>2
<1>5. LoopsOf(u) /\ ListOK(u) /\ NewOK(u.out)
  BY DEF Kept, SameLists, LoopsOf, ListOK
<1>6. GroupOK(u)
  <2>1. t.list[i].parts # {}
    BY <1>2 DEF Kept, ListOK, StandsFor
  <2> QED
    BY <2>1 DEF GroupOK, SameLists
<1>7. ByProcess(u, v, i + 1)
  <2> SUFFICES ASSUME t.option = "t" PROVE ByProcess(u, v, i + 1)
    BY DEF ByProcess, SameLists
  <2>1. PICK m \in DOMAIN dir : t.list[i].parts = {m} /\ t.list[i].pid = m.pid
    BY <1>2, EntryParts DEF Kept
  <2>2. \A n \in DOMAIN dir : v[n] = 0 => n.pid = t.list[t.curr].pid
    BY <1>4, <2>1 DEF Kept, ByProcess
  <2>3. \A j \in Left(u) : j < i + 1 => j \in Left(t) /\ j < i
    <3>1. \A j \in Left(t) : j \in Int
      BY DEF Left
    <3> QED
      BY <1>1, <3>1
  <2>4. Process(v)
    BY <1>3 DEF Kept, ByProcess
  <2> QED
    BY <2>2, <2>3, <2>4 DEF Kept, ByProcess, SameLists
<1>8. ByRun(u, v)
  <2> SUFFICES ASSUME t.option = "r" PROVE ByRun(u, v)
    BY DEF ByRun, SameLists
  <2>1. PICK m \in DOMAIN dir : t.list[i].parts = {m} /\ t.list[i].tid = m.tid
    BY <1>2, EntryParts DEF Kept
  <2>2. \A n \in DOMAIN dir : v[n] = 0 => n.tid = t.list[t.curr].tid /\ Fitting(u.rt, n)
    BY <1>4, <2>1 DEF Kept, ByRun
  <2>3. Runs(v)
    BY <1>3 DEF Kept, ByRun
  <2> QED
    BY <2>2, <2>3 DEF ByRun, SameLists
<1> QED
  BY <1>1, <1>5, <1>6, <1>7, <1>8 DEF Kept, SameLists, v

\* What lies in the group is not on the list.
LEMMA GroupApart ==
  ASSUME NEW t, NEW w, NEW i, Kept(t, w, i), NEW j \in Left(t), t.curr # 0
  PROVE  t.group \cap t.list[j].parts = {}
<1>1. t.list[j].parts \in SUBSET DOMAIN dir /\ j # 0
  BY DEF Kept, ListOK, StandsFor, Counts, Left
<1>2. \A n \in DOMAIN dir : /\ n \in t.list[j].parts <=> w[n] = j
                            /\ n \in t.group <=> w[n] = 0
  BY DEF Kept, Placed
<1> QED
  BY <1>1, <1>2

\* Merging list[j] into the reports P, or an abort.
Merged(t, u, j, P) ==
  /\ SameLists(t, u) /\ u.i = t.i /\ u.curr = t.curr /\ u.struck = t.struck
  /\ u.group = t.group \cup t.list[j].parts /\ u.merged = t.merged + 1
  /\ RuntimeOK(u.rt) /\ Counts(u.rt.sources, u.rt.extra, P \cup t.list[j].parts)
  /\ t.option = "r" =>
       /\ \A p \in DOMAIN dir : Fitting(t.rt, p) => Fitting(u.rt, p)
       /\ \A p \in t.list[j].parts : Fitting(u.rt, p)

LEMMA MustMergeKeeps ==
  ASSUME IInv, IsFiniteSet(DOMAIN dir), Headers,
         NEW t, DOMAIN t = Fields, RuntimeOK(t.rt), ListOK(t), NEW j \in 1..Len(t.list),
         EntryOK(t.list[j]), NEW P, Counts(t.rt.sources, t.rt.extra, P),
         P \cap t.list[j].parts = {}
  PROVE  MustMerge(t, j) = Abort \/ Merged(t, MustMerge(t, j), j, P)
<1> DEFINE e == t.list[j]
           any == t.option = "i"
           m == merge_report(t.rt, e.file, any)
           g == t.group \cup e.parts
           u == [t EXCEPT !.rt = m.rt, !.merged = t.merged + 1, !.group = g]
<1>1. StandsFor(e) /\ any \in BOOLEAN
  BY DEF ListOK
<1>2. RuntimeOK(m.rt)
  <2> HIDE DEF e, any
  <2>1. RuntimeOK(t.rt) /\ EntryOK(e) /\ any \in BOOLEAN
    BY <1>1 DEF e
  <2> QED
    BY <2>1, MergeKeepsCounts
<1>3. Counts(m.rt.sources, m.rt.extra, IF m.ok THEN P \cup e.parts ELSE P)
  <2> HIDE DEF e, any
  <2>1. EntryOK(e) /\ P \cap e.parts = {}
    BY DEF e
  <2> QED
    BY <1>1, <2>1, MergeCounts
<1>4. t.option = "r" =>
        /\ \A p \in DOMAIN dir : Fitting(t.rt, p) => Fitting(m.rt, p)
        /\ m.ok => \A p \in e.parts : Fitting(m.rt, p)
  <2> SUFFICES ASSUME t.option = "r"
               PROVE  /\ \A p \in DOMAIN dir : Fitting(t.rt, p) => Fitting(m.rt, p)
                      /\ m.ok => \A p \in e.parts : Fitting(m.rt, p)
    OBVIOUS
  <2>1. PICK n \in DOMAIN dir : e.parts = {n} /\ e.file = dir[n]
    BY EntryParts
  <2>2. m = merge_report(t.rt, dir[n], FALSE)
    BY <2>1
  <2> HIDE DEF m, e
  <2>3. /\ \A p \in DOMAIN dir : Fitting(t.rt, p) => Fitting(m.rt, p)
        /\ m.ok => Fitting(m.rt, n)
    BY <2>2, MergeFits
  <2> QED
    BY <2>1, <2>3
<1>5. MustMerge(t, j) = IF m.ok THEN u ELSE Abort
  BY DEF MustMerge
<1>6. /\ DOMAIN u = Fields
      /\ u.phase = t.phase /\ u.list = t.list /\ u.i = t.i /\ u.out = t.out
      /\ u.struck = t.struck /\ u.curr = t.curr /\ u.option = t.option
      /\ u.rt = m.rt /\ u.merged = t.merged + 1 /\ u.group = g
  <2> HIDE DEF m, g
  <2> QED
    BY DEF Fields
<1> HIDE DEF m, u
<1>7. m.ok => Merged(t, u, j, P)
  BY <1>2, <1>3, <1>4, <1>6 DEF Merged, SameLists
<1> QED
  BY <1>5, <1>7

\* A runtime that has just been reset stands for no report.
LEMMA ResetCounts ==
  ASSUME IInv, IsFiniteSet(DOMAIN dir), NEW rt, RuntimeOK(rt)
  PROVE  RuntimeOK(Reset(rt)) /\ Counts(Reset(rt).sources, Reset(rt).extra, {})
<1>1. RuntimeOK(Reset(rt))
  BY ResetTypes
<1>2. Reset(rt).sources = Nothing
  BY DEF Reset, RuntimeOK, Unset
<1>3. ASSUME NEW r \in Run
      PROVE  Reset(rt).sources[r] = SumIn("sources", r, {})
             /\ SumIn("k", r, {}) <= Reset(rt).extra[r]
  <2>1. SumIn("sources", r, {}) = 0 /\ SumIn("k", r, {}) = 0
    BY SumsIn
  <2>2. Reset(rt).extra[r] \in Nat
    BY <1>1 DEF RuntimeOK, Bag
  <2>3. Nothing[r] = 0
    BY DEF Nothing
  <2> QED
    BY <1>2, <2>1, <2>2, <2>3
<1> QED
  BY <1>1, <1>3 DEF Counts

\* What a turn has to work with.
Working(t, w) ==
  /\ IInv /\ IsFiniteSet(DOMAIN dir) /\ Headers
  /\ Looping(t) /\ LoopOK(t) /\ ToolTypes(t) /\ Kept(t, w, t.i)

LEMMA WorkingFacts ==
  ASSUME NEW t, NEW w, Working(t, w)
  PROVE  /\ DOMAIN t = Fields /\ t.i \in 1..Len(t.list) /\ t.i \in Nat \ {0}
         /\ t.curr \in 0..(t.i - 1) /\ Entries(t.list) /\ ListOK(t)
         /\ RuntimeOK(t.rt) /\ t.merged \in Nat /\ (t.curr = 0 => t.merged = 0)
         /\ t.i \notin t.struck => t.i \in Left(t)
         /\ t.curr = 0 => 1..(t.i - 1) \subseteq t.struck
         /\ t.curr # 0 => t.curr \in 1..Len(t.list)
         /\ \A j \in 1..Len(t.list) : EntryOK(t.list[j]) /\ StandsFor(t.list[j])
<1>1. /\ DOMAIN t = Fields /\ t.i \in 1..Len(t.list) /\ Len(t.list) \in Nat
      /\ t.curr \in 0..(t.i - 1) /\ Entries(t.list)
      /\ RuntimeOK(t.rt) /\ t.merged \in 0..(t.i - 1) /\ (t.curr = 0 => t.merged = 0)
      /\ t.curr = 0 => 1..(t.i - 1) \subseteq t.struck
  BY DEF Working, LoopOK, ToolTypes, RuntimeBefore, Looping, IsSeq
<1>2. ListOK(t) /\ \A j \in 1..Len(t.list) : EntryOK(t.list[j]) /\ StandsFor(t.list[j])
  BY <1>1 DEF Working, Kept, ListOK, Entries
<1>3. t.i \notin t.struck => t.i \in Left(t)
  BY <1>1 DEF Left
<1> QED
  BY <1>1, <1>2, <1>3

\* One turn of merge_by_thread.
LEMMA ThreadTurn ==
  ASSUME NEW t, NEW w, Working(t, w), t.phase = "threads"
  PROVE  LookByThread(t) = Abort \/ \E v : Kept(LookByThread(t), v, t.i + 1)
<1>1. /\ DOMAIN t = Fields /\ t.i \in 1..Len(t.list) /\ t.i \in Nat \ {0}
      /\ t.curr \in 0..(t.i - 1) /\ ListOK(t)
      /\ RuntimeOK(t.rt) /\ t.merged \in Nat /\ (t.curr = 0 => t.merged = 0)
      /\ t.i \notin t.struck => t.i \in Left(t)
      /\ t.curr = 0 => 1..(t.i - 1) \subseteq t.struck
      /\ t.curr # 0 => t.curr \in 1..Len(t.list)
      /\ \A j \in 1..Len(t.list) : EntryOK(t.list[j]) /\ StandsFor(t.list[j])
  BY WorkingFacts
<1>2. /\ IInv /\ IsFiniteSet(DOMAIN dir) /\ Headers /\ Kept(t, w, t.i)
      /\ t.option # "r"
  BY DEF Working, Kept, LoopsOf
<1>3. CASE \/ t.i \in t.struck
           \/ t.curr # 0 /\ t.list[t.i].pid # t.list[t.curr].pid
  <2>1. LookByThread(t) = t
    BY <1>3 DEF LookByThread
  <2>2. SameLists(t, t) /\ (t.i \in Left(t) => t.i \notin t.struck)
    BY <1>1 DEF SameLists, Left
  <2>3. Kept(t, w, t.i + 1)
    BY <1>1, <1>2, <1>3, <2>2, Passing
  <2> QED
    BY <2>1, <2>3
<1>4. CASE t.i \notin t.struck /\ t.curr = 0
  <2> DEFINE u == [t EXCEPT !.curr = t.i, !.group = t.list[t.i].parts]
  <2>1. LookByThread(t) = u
    BY <1>4 DEF LookByThread
  <2>2. /\ SameLists(t, u) /\ u.curr = t.i /\ u.struck = t.struck
        /\ u.group = t.list[t.i].parts /\ u.merged = 0
    BY <1>1, <1>4 DEF SameLists, Fields
  <2> HIDE DEF u
  <2>3. Kept(u, Moved(w, t.i), t.i + 1)
    BY <1>1, <1>2, <1>4, <2>2, Taking
  <2> QED
    BY <2>1, <2>3
<1>5. CASE t.i \notin t.struck /\ t.curr # 0 /\ t.list[t.i].pid = t.list[t.curr].pid
  <2> DEFINE r == [t EXCEPT !.rt = Reset(t.rt)]
             begun == IF t.merged = 0 THEN MustMerge(r, t.curr) ELSE t
             done == IF begun.phase = "aborted" THEN begun ELSE MustMerge(begun, t.i)
             Begun(u) == /\ SameLists(t, u) /\ u.i = t.i /\ u.curr = t.curr
                         /\ u.struck = t.struck /\ u.group = t.group
                         /\ u.merged \in Nat /\ RuntimeOK(u.rt)
                         /\ Counts(u.rt.sources, u.rt.extra, t.group)
  <2>1. LookByThread(t) = IF done.phase = "aborted" THEN done ELSE Strike(done, t.i)
    BY <1>5 DEF LookByThread
  <2>2. Abort.phase = "aborted"
    BY DEF Abort, Off
  <2>3. GroupOK(t)
    BY <1>2 DEF Kept
  <2>4. begun = Abort \/ Begun(begun)
    <3>1. CASE t.merged = 0
      <4>1. t.group = t.list[t.curr].parts
        BY <1>5, <2>3, <3>1 DEF GroupOK
      <4>2. /\ SameLists(t, r) /\ r.i = t.i /\ r.curr = t.curr /\ r.struck = t.struck
            /\ r.group = t.group /\ r.merged = t.merged /\ r.rt = Reset(t.rt)
        BY <1>1 DEF SameLists, Fields
      <4>3. RuntimeOK(r.rt) /\ Counts(r.rt.sources, r.rt.extra, {})
        BY <1>1, <1>2, <4>2, ResetCounts
      <4>4. begun = MustMerge(r, t.curr)
        BY <3>1
      <4> HIDE DEF r, begun
      <4>5. /\ DOMAIN r = Fields /\ ListOK(r) /\ t.curr \in 1..Len(r.list)
            /\ EntryOK(r.list[t.curr]) /\ {} \cap r.list[t.curr].parts = {}
        BY <1>1, <1>5, <4>2 DEF SameLists, ListOK
      <4>6. begun = Abort \/ Merged(r, begun, t.curr, {})
        BY <1>2, <4>3, <4>4, <4>5, MustMergeKeeps
      <4>7. ASSUME Merged(r, begun, t.curr, {})
            PROVE  Begun(begun)
        <5>1. /\ SameLists(t, begun) /\ begun.i = t.i /\ begun.curr = t.curr
              /\ begun.struck = t.struck
          BY <4>2, <4>7 DEF Merged, SameLists
        <5>2. t.group \cup t.list[t.curr].parts = t.group
              /\ {} \cup t.list[t.curr].parts = t.group
          BY <4>1
        <5>3. begun.group = t.group /\ Counts(begun.rt.sources, begun.rt.extra, t.group)
          BY <4>2, <4>7, <5>2 DEF Merged, SameLists
        <5>4. begun.merged \in Nat /\ RuntimeOK(begun.rt)
          BY <1>1, <4>2, <4>7 DEF Merged
        <5> QED
          BY <5>1, <5>3, <5>4
      <4> QED
        BY <4>6, <4>7
    <3>2. CASE t.merged # 0
      BY <1>1, <1>5, <2>3, <3>2 DEF GroupOK, SameLists
    <3> QED
      BY <3>1, <3>2
  <2>5. done = Abort \/ (Begun(begun) /\ Merged(begun, done, t.i, t.group))
    <3> HIDE DEF begun, Begun
    <3>1. CASE begun = Abort
      BY <2>2, <3>1
    <3>2. CASE Begun(begun)
      <4>1. /\ DOMAIN begun = Fields /\ begun.list = t.list /\ begun.phase = "threads"
            /\ begun.option = t.option /\ RuntimeOK(begun.rt)
            /\ Counts(begun.rt.sources, begun.rt.extra, t.group)
        BY <3>2 DEF Begun, SameLists
      <4>2. ListOK(begun) /\ t.i \in 1..Len(begun.list) /\ EntryOK(begun.list[t.i])
        BY <1>1, <4>1 DEF ListOK
      <4>3. t.group \cap begun.list[t.i].parts = {}
        BY <1>1, <1>2, <1>5, <4>1, GroupApart
      <4>4. done = MustMerge(begun, t.i)
        BY <4>1
      <4> HIDE DEF done
      <4>5. done = Abort \/ Merged(begun, done, t.i, t.group)
        BY <1>2, <4>1, <4>2, <4>3, <4>4, MustMergeKeeps
      <4> QED
        BY <3>2, <4>5
    <3> QED
      BY <2>4, <3>1, <3>2
  <2> HIDE DEF done, begun
  <2>6. CASE done = Abort
    BY <2>1, <2>2, <2>6
  <2>7. CASE Begun(begun) /\ Merged(begun, done, t.i, t.group)
    <3> DEFINE u == Strike(done, t.i)
    <3>1. /\ SameLists(t, done) /\ done.curr = t.curr /\ done.struck = t.struck
          /\ done.group = t.group \cup t.list[t.i].parts
          /\ done.merged \in Nat /\ done.merged # 0
          /\ Counts(done.rt.sources, done.rt.extra, t.group \cup t.list[t.i].parts)
      BY <2>7 DEF Merged, SameLists
    <3>2. LookByThread(t) = u
      BY <1>5, <2>1, <3>1, <2>7 DEF SameLists
    <3>3. /\ SameLists(t, u) /\ u.curr = t.curr /\ u.struck = t.struck \cup {t.i}
          /\ u.group = t.group \cup t.list[t.i].parts /\ u.merged # 0
          /\ u.rt = done.rt
      BY <3>1 DEF Strike, SameLists, Fields
    <3> HIDE DEF u
    <3>4. Kept(u, Moved(w, t.i), t.i + 1)
      BY <1>1, <1>2, <1>5, <3>1, <3>3, Merging
    <3> QED
      BY <3>2, <3>4
  <2> QED
    BY <2>5, <2>6, <2>7
<1> QED
  BY <1>3, <1>4, <1>5

\* One turn of merge_by_run.
LEMMA RunTurn ==
  ASSUME NEW t, NEW w, Working(t, w), t.phase = "runs"
  PROVE  LookByRun(t) = Abort \/ \E v : Kept(LookByRun(t), v, t.i + 1)
<1> DEFINE e == t.list[t.i]
           m == merge_report(t.rt, e.file, t.option = "i")
<1>1. /\ DOMAIN t = Fields /\ t.i \in 1..Len(t.list) /\ t.i \in Nat \ {0}
      /\ t.curr \in 0..(t.i - 1) /\ ListOK(t)
      /\ RuntimeOK(t.rt) /\ t.merged \in Nat /\ (t.curr = 0 => t.merged = 0)
      /\ t.i \notin t.struck => t.i \in Left(t)
      /\ t.curr = 0 => 1..(t.i - 1) \subseteq t.struck
      /\ t.curr # 0 => t.curr \in 1..Len(t.list)
      /\ \A j \in 1..Len(t.list) : EntryOK(t.list[j]) /\ StandsFor(t.list[j])
  BY WorkingFacts
<1>2. /\ IInv /\ IsFiniteSet(DOMAIN dir) /\ Headers /\ Kept(t, w, t.i)
      /\ t.option # "t"
  BY DEF Working, Kept, LoopsOf
<1>3. CASE \/ t.i \in t.struck
           \/ t.curr # 0 /\ ~ GoesWith(t, e)
  <2>1. LookByRun(t) = t
    BY <1>3 DEF LookByRun
  <2>2. SameLists(t, t)
    BY <1>1 DEF SameLists
  <2>3. Kept(t, w, t.i + 1)
    BY <1>1, <1>2, <2>2, Passing
  <2> QED
    BY <2>1, <2>3
<1>4. CASE t.i \notin t.struck /\ t.curr = 0
  <2> DEFINE r == [t EXCEPT !.curr = t.i, !.rt = Reset(t.rt), !.group = {}]
             u == MustMerge(r, t.i)
  <2>1. LookByRun(t) = u
    BY <1>4 DEF LookByRun
  <2>2. /\ SameLists(t, r) /\ r.i = t.i /\ r.curr = t.i /\ r.struck = t.struck
        /\ r.group = {} /\ r.merged = 0 /\ r.rt = Reset(t.rt)
    BY <1>1, <1>4 DEF SameLists, Fields
  <2>3. RuntimeOK(r.rt) /\ Counts(r.rt.sources, r.rt.extra, {})
    BY <1>1, <1>2, <2>2, ResetCounts
  <2> HIDE DEF r
  <2>4. /\ DOMAIN r = Fields /\ ListOK(r) /\ t.i \in 1..Len(r.list)
        /\ EntryOK(r.list[t.i]) /\ {} \cap r.list[t.i].parts = {}
    BY <1>1, <2>2 DEF SameLists, ListOK
  <2>5. u = Abort \/ Merged(r, u, t.i, {})
    BY <1>2, <2>3, <2>4, MustMergeKeeps
  <2> HIDE DEF u
  <2>6. ASSUME Merged(r, u, t.i, {})
        PROVE  Kept(u, Moved(w, t.i), t.i + 1)
    <3>1. {} \cup r.list[t.i].parts = t.list[t.i].parts
      BY <2>2 DEF SameLists
    <3>2. /\ SameLists(t, u) /\ u.curr = t.i /\ u.struck = t.struck
          /\ u.group = t.list[t.i].parts /\ u.merged # 0
          /\ Counts(u.rt.sources, u.rt.extra, u.group)
          /\ t.option = "r" => \A n \in u.group : Fitting(u.rt, n)
      BY <2>2, <2>6, <3>1 DEF Merged, SameLists
    <3> QED
      BY <1>1, <1>2, <1>4, <3>2, Taking
  <2> QED
    BY <2>1, <2>5, <2>6
<1>5. CASE t.i \notin t.struck /\ t.curr # 0 /\ GoesWith(t, e) /\ ~ m.ok
  <2> DEFINE u == [t EXCEPT !.rt = m.rt]
  <2>1. LookByRun(t) = u
    BY <1>5 DEF LookByRun
  <2>2. Counts(t.rt.sources, t.rt.extra, t.group) => Counts(m.rt.sources, m.rt.extra, t.group)
    <3> SUFFICES ASSUME Counts(t.rt.sources, t.rt.extra, t.group)
                 PROVE  Counts(m.rt.sources, m.rt.extra, t.group)
      OBVIOUS
    <3> DEFINE any == t.option = "i"
    <3>1. EntryOK(e) /\ StandsFor(e) /\ any \in BOOLEAN /\ t.group \cap e.parts = {}
      BY <1>1, <1>2, <1>5, GroupApart
    <3> HIDE DEF e, any
    <3>2. LET q == merge_report(t.rt, e.file, any)
          IN  Counts(q.rt.sources, q.rt.extra, IF q.ok THEN t.group \cup e.parts ELSE t.group)
      BY <1>1, <1>2, <3>1, MergeCounts
    <3> QED
      BY <1>5, <3>2 DEF any
  <2>3. t.option = "r" => \A n \in DOMAIN dir : Fitting(t.rt, n) => Fitting(m.rt, n)
    <3> SUFFICES ASSUME t.option = "r"
                 PROVE  \A n \in DOMAIN dir : Fitting(t.rt, n) => Fitting(m.rt, n)
      OBVIOUS
    <3>1. PICK n \in DOMAIN dir : e.file = dir[n]
      BY <1>1, EntryParts
    <3>2. m = merge_report(t.rt, dir[n], FALSE)
      BY <3>1
    <3> HIDE DEF m
    <3> QED
      BY <1>1, <1>2, <3>2, MergeFits
  <2>4. /\ SameLists(t, u) /\ u.curr = t.curr /\ u.struck = t.struck /\ u.group = t.group
        /\ u.merged = t.merged /\ u.rt = m.rt
    <3> HIDE DEF m
    <3> QED
      BY <1>1 DEF SameLists, Fields
  <2> HIDE DEF u, m
  <2>5. Kept(u, w, t.i + 1)
    BY <1>1, <1>2, <2>2, <2>3, <2>4, Passing
  <2> QED
    BY <2>1, <2>5
<1>6. CASE t.i \notin t.struck /\ t.curr # 0 /\ GoesWith(t, e) /\ m.ok
  <2> DEFINE done == MustMerge(t, t.i)
             u == Strike(done, t.i)
  <2>1. LookByRun(t) = u
    BY <1>6 DEF LookByRun
  <2>2. t.merged # 0 /\ Counts(t.rt.sources, t.rt.extra, t.group)
    BY <1>2, <1>6 DEF Kept, GroupOK, Working
  <2>3. t.group \cap t.list[t.i].parts = {}
    BY <1>1, <1>2, <1>6, GroupApart
  <2>4. done = Abort \/ Merged(t, done, t.i, t.group)
    BY <1>1, <1>2, <2>2, <2>3, MustMergeKeeps
  <2>5. done # Abort
    <3>1. done.phase = "runs"
      <4> DEFINE x == [t EXCEPT !.rt = m.rt, !.merged = t.merged + 1,
                                !.group = t.group \cup e.parts]
      <4>1. done = x
        BY <1>6 DEF MustMerge
      <4>2. x.phase = t.phase
        <5> HIDE DEF m, e
        <5> QED
          BY <1>1 DEF Fields
      <4> QED
        BY <4>1, <4>2
    <3>2. Abort.phase = "aborted"
      BY DEF Abort, Off
    <3> QED
      BY <3>1, <3>2
  <2> HIDE DEF done
  <2>6. /\ SameLists(t, done) /\ done.curr = t.curr /\ done.struck = t.struck
        /\ done.group = t.group \cup t.list[t.i].parts
        /\ done.merged \in Nat /\ done.merged # 0
        /\ Counts(done.rt.sources, done.rt.extra, t.group \cup t.list[t.i].parts)
    BY <1>1, <2>4, <2>5 DEF Merged
  <2>7. /\ SameLists(t, u) /\ u.curr = t.curr /\ u.struck = t.struck \cup {t.i}
        /\ u.group = t.group \cup t.list[t.i].parts /\ u.merged # 0
        /\ u.rt = done.rt
    BY <2>6 DEF Strike, SameLists, Fields
  <2>8. t.option = "r" => /\ t.list[t.i].tid = t.list[t.curr].tid
                          /\ \A n \in u.group : Fitting(u.rt, n)
    <3> SUFFICES ASSUME t.option = "r"
                 PROVE  /\ t.list[t.i].tid = t.list[t.curr].tid
                        /\ \A n \in u.group : Fitting(u.rt, n)
      OBVIOUS
    <3>1. t.list[t.i].tid = t.list[t.curr].tid
      BY <1>6 DEF GoesWith
    <3>2. /\ \A p \in DOMAIN dir : Fitting(t.rt, p) => Fitting(done.rt, p)
          /\ \A p \in t.list[t.i].parts : Fitting(done.rt, p)
      BY <2>4, <2>5 DEF Merged
    <3>3. \A n \in t.group : n \in DOMAIN dir /\ Fitting(t.rt, n)
      <4>1. t.group \in SUBSET DOMAIN dir
        BY <2>2 DEF Counts
      <4> QED
        BY <1>2, <1>6, <4>1 DEF Kept, Placed, ByRun
    <3> HIDE DEF u
    <3> QED
      BY <2>7, <3>1, <3>2, <3>3
  <2> HIDE DEF u
  <2>9. Kept(u, Moved(w, t.i), t.i + 1)
    BY <1>1, <1>2, <1>6, <2>6, <2>7, <2>8, Merging
  <2> QED
    BY <2>1, <2>9
<1> QED
  BY <1>3, <1>4, <1>5, <1>6

\* What a group is written as stands for what is in it.
LEMMA SumStands ==
  ASSUME NEW t, RuntimeOK(t.rt), t.curr # 0, GroupOK(t),
         EntryOK(t.list[t.curr]), StandsFor(t.list[t.curr])
  PROVE  LET new == IF t.merged > 0 THEN Sum(t) ELSE t.list[t.curr]
         IN  t.merged \in Nat => StandsFor(new) /\ new.parts = t.group
<1> DEFINE e == t.list[t.curr]
           state == IF t.rt.metric = NoValue THEN "torn" ELSE "complete"
           f == [e.file EXCEPT !.state = state, !.cct = FALSE,
                   !.k = t.rt.extra, !.sources = t.rt.sources, !.mtime = t.rt.mtime,
                   !.metric = t.rt.metric, !.res = t.rt.res, !.app = t.rt.app]
           sum == [e EXCEPT !.parts = t.group, !.file = f]
<1> SUFFICES ASSUME t.merged \in Nat
             PROVE  LET new == IF t.merged > 0 THEN Sum(t) ELSE t.list[t.curr]
                    IN  StandsFor(new) /\ new.parts = t.group
  OBVIOUS
<1>1. Sum(t) = sum
  BY DEF Sum
<1>2. CASE t.merged = 0
  BY <1>2 DEF GroupOK
<1>3. CASE t.merged > 0
  <2>1. Counts(t.rt.sources, t.rt.extra, t.group) /\ t.group # {}
    BY <1>3 DEF GroupOK
  <2>2. DOMAIN e = {"pid", "tid", "file", "parts"}
        /\ {"k", "sources", "state"} \subseteq DOMAIN e.file
    BY DEF EntryOK, StandsFor
  <2>3. f.k = t.rt.extra /\ f.sources = t.rt.sources /\ f.state # "empty"
        /\ {"k", "sources", "state"} \subseteq DOMAIN f
    <3>1. state # "empty"
      OBVIOUS
    <3> HIDE DEF e, state
    <3> QED
      BY <2>2, <3>1
  <2>4. sum.file = f /\ sum.parts = t.group
    <3> HIDE DEF e, f
    <3> QED
      BY <2>2
  <2> HIDE DEF sum, f
  <2>5. StandsFor(sum)
    BY <2>1, <2>3, <2>4 DEF StandsFor
  <2> QED
    BY <1>1, <1>3, <2>4, <2>5
<1> QED
  BY <1>2, <1>3

\* A new report is appended.
LEMMA OneMore ==
  ASSUME NEW out, NewOK(out), NEW e, StandsFor(e)
  PROVE  /\ NewOK(Append(out, e)) /\ Len(out) \in Nat
         /\ Len(Append(out, e)) = Len(out) + 1
         /\ \A j \in 1..Len(out) : Append(out, e)[j] = out[j]
         /\ Append(out, e)[Len(out) + 1] = e
<1> DEFINE new == Append(out, e)
<1>1. out \in Seq(Range(out)) /\ Len(out) \in Nat
  BY DEF NewOK, IsSeq
<1>2. IsSeq(new) /\ Len(new) = Len(out) + 1
  BY <1>1, AppendIsSeq DEF NewOK
<1>3. /\ \A j \in 1..Len(out) : new[j] = out[j]
      /\ new[Len(out) + 1] = e
  <2> DEFINE S == Range(out) \cup {e}
  <2>1. out \in Seq(S) /\ e \in S
    BY <1>1
  <2> HIDE DEF S
  <2> QED
    BY <2>1
<1> HIDE DEF new
<1>4. NewOK(new)
  BY <1>1, <1>2, <1>3 DEF NewOK
<1> QED
  BY <1>1, <1>2, <1>3, <1>4 DEF new

\* Where the reports of the group are when it has been written.
Written(w, k) == [n \in DOMAIN dir |-> IF w[n] = 0 THEN -k ELSE w[n]]

\* The end of a round that has taken something up.
LEMMA WritesGroup ==
  ASSUME NEW u, NEW w, Kept(u, w, Len(u.list) + 1), u.curr # 0,
         NEW new, StandsFor(new), new.parts = u.group,
         NEW x, DOMAIN x = Fields, x.phase = u.phase, x.option = u.option, x.list = u.list,
         x.out = Append(u.out, new), x.struck = u.struck \cup {u.curr}, x.curr = 0,
         Len(u.list) \in Nat
  PROVE  Kept(x, Written(w, Len(u.out) + 1), 1)
<1> DEFINE L == Len(u.out)
           v == Written(w, L + 1)
<1>1. /\ NewOK(x.out) /\ L \in Nat /\ Len(x.out) = L + 1
      /\ \A j \in 1..L : x.out[j] = u.out[j]
      /\ x.out[L + 1] = new
  BY OneMore DEF Kept
<1> HIDE DEF L
<1>2. \A n \in DOMAIN dir : v[n] = IF w[n] = 0 THEN -(L + 1) ELSE w[n]
  BY DEF Written
<1>3. \A n \in DOMAIN dir :
        /\ w[n] \in Int
        /\ w[n] > 0 => w[n] \in Left(u)
        /\ w[n] < 0 => -w[n] \in 1..L
        /\ \A j \in Left(u) : n \in u.list[j].parts <=> w[n] = j
        /\ n \in u.group <=> w[n] = 0
        /\ \A j \in 1..L : n \in u.out[j].parts <=> w[n] = -j
  BY DEF Kept, Placed, L
<1> HIDE DEF v
<1>4. Left(x) = Left(u) /\ \A j \in Left(u) : j \in 1..Len(u.list)
  BY DEF Left
<1>5. ASSUME NEW n \in DOMAIN dir
      PROVE  /\ v[n] \in Int
             /\ v[n] > 0 => v[n] \in Left(x)
             /\ v[n] # 0
             /\ v[n] < 0 => -v[n] \in 1..Len(x.out)
             /\ \A j \in Left(x) : n \in x.list[j].parts <=> v[n] = j
             /\ \A j \in 1..Len(x.out) : n \in x.out[j].parts <=> v[n] = -j
  <2>1. CASE w[n] = 0
    <3>1. v[n] = -(L + 1) /\ v[n] \in Int /\ -v[n] = L + 1 /\ ~ v[n] > 0 /\ v[n] # 0
      BY <1>1, <1>2, <2>1
    <3>2. \A j \in Left(x) : n \notin x.list[j].parts /\ v[n] # j
      BY <1>1, <1>3, <1>4, <2>1, <3>1
    <3>3. n \in new.parts
      BY <1>3, <2>1
    <3>4. \A j \in 1..Len(x.out) : n \in x.out[j].parts <=> v[n] = -j
      <4>1. ASSUME NEW j \in 1..L
            PROVE  n \notin x.out[j].parts /\ v[n] # -j
        BY <1>1, <1>3, <2>1, <3>1
      <4>2. \A j \in 1..(L + 1) : j \in 1..L \/ j = L + 1
        BY <1>1
      <4> QED
        BY <1>1, <3>1, <3>3, <4>1, <4>2
    <3> QED
      BY <1>1, <3>1, <3>2, <3>4
  <2>2. CASE w[n] # 0
    <3>1. v[n] = w[n] /\ v[n] \in Int
      BY <1>2, <1>3, <2>2
    <3>2. v[n] < 0 => -v[n] \in 1..Len(x.out)
      BY <1>1, <1>3, <3>1
    <3>3. n \notin new.parts
      BY <1>3, <2>2
    <3>4. \A j \in 1..Len(x.out) : n \in x.out[j].parts <=> v[n] = -j
      <4>1. v[n] # -(L + 1)
        <5>1. v[n] = -(L + 1) => v[n] < 0 /\ -v[n] = L + 1
          BY <1>1, <3>1
        <5>2. L + 1 \notin 1..L
          BY <1>1
        <5> QED
          BY <1>3, <3>1, <5>1, <5>2
      <4>2. \A j \in 1..(L + 1) : j \in 1..L \/ j = L + 1
        BY <1>1
      <4> QED
        BY <1>1, <1>3, <3>1, <3>3, <4>1, <4>2
    <3> QED
      BY <1>3, <1>4, <2>2, <3>1, <3>2, <3>4
  <2> QED
    BY <2>1, <2>2
<1>6. Placed(x, v)
  BY <1>5 DEF Placed
<1>7. \A m, n \in DOMAIN dir : v[m] < 0 => \/ w[m] < 0 /\ v[m] = w[m] /\ -w[m] \in 1..L
                                           \/ w[m] = 0 /\ v[m] = -(L + 1)
  BY <1>2, <1>3
<1>8. ASSUME u.option = "t"
      PROVE  Process(v)
  <2>1. /\ ListOK(u) /\ Process(w) /\ u.option # "tr"
        /\ \A n \in DOMAIN dir : w[n] = 0 => n.pid = u.list[u.curr].pid
        /\ \A j \in Left(u) : j < Len(u.list) + 1 => u.list[j].pid # u.list[u.curr].pid
    BY <1>8 DEF Kept, ByProcess
  <2>2. \A j \in Left(u) : u.list[j].pid # u.list[u.curr].pid
    <3> DEFINE N == Len(u.list)
    <3>1. N \in Nat
      OBVIOUS
    <3> HIDE DEF N
    <3>2. \A j \in 1..N : j < N + 1
      BY <3>1
    <3> QED
      BY <1>4, <2>1, <3>2 DEF N
  <2>3. ASSUME NEW m \in DOMAIN dir, NEW n \in DOMAIN dir, v[m] < 0, m.pid = n.pid
        PROVE  v[n] = v[m]
    <3>1. CASE w[m] < 0
      <4>1. w[n] = w[m]
        BY <2>1, <2>3, <3>1 DEF Process
      <4> QED
        BY <1>2, <4>1
    <3>2. CASE w[m] = 0
      <4>1. n.pid = u.list[u.curr].pid
        BY <2>1, <2>3, <3>2
      <4>2. ~ w[n] < 0
        BY <2>1, <2>3, <3>2 DEF Process
      <4>3. ~ w[n] > 0
        <5> SUFFICES ASSUME w[n] > 0 PROVE FALSE
          OBVIOUS
        <5> DEFINE j == w[n]
        <5>1. j \in Left(u) /\ n \in u.list[j].parts
          BY <1>3
        <5>2. PICK p \in DOMAIN dir : u.list[j].parts = {p} /\ u.list[j].pid = p.pid
          BY <1>4, <2>1, <5>1, EntryParts
        <5> QED
          BY <2>2, <4>1, <5>1, <5>2
      <4> QED
        BY <1>2, <1>3, <3>2, <4>2, <4>3
    <3> QED
      BY <1>7, <2>3, <3>1, <3>2
  <2> QED
    BY <2>3 DEF Process
<1>9. ASSUME u.option = "r"
      PROVE  Runs(v)
  <2>1. Runs(w) /\ \A n \in DOMAIN dir :
          w[n] = 0 => n.tid = u.list[u.curr].tid /\ Fitting(u.rt, n)
    BY <1>9 DEF Kept, ByRun
  <2>2. ASSUME NEW m \in DOMAIN dir, NEW n \in DOMAIN dir, v[m] < 0, v[n] = v[m]
        PROVE  Alike(m, n)
    <3>1. L + 1 \notin 1..L /\ -(-(L + 1)) = L + 1
      BY <1>1
    <3>2. CASE w[m] < 0
      <4>1. w[n] = w[m]
        BY <1>7, <2>2, <3>1, <3>2
      <4> QED
        BY <2>1, <3>2, <4>1 DEF Runs
    <3>3. CASE w[m] = 0
      <4>1. w[n] = 0
        BY <1>7, <2>2, <3>1, <3>3
      <4> QED
        BY <2>1, <3>3, <4>1 DEF Alike, Fitting
    <3> QED
      BY <1>7, <2>2, <3>2, <3>3
  <2> QED
    BY <2>2 DEF Runs
<1>10. LoopsOf(x) /\ ListOK(x) /\ GroupOK(x)
  BY DEF Kept, LoopsOf, ListOK, GroupOK
<1>11. ByProcess(x, v, 1) /\ ByRun(x, v)
  BY <1>8, <1>9 DEF ByProcess, ByRun
<1> QED
  BY <1>1, <1>6, <1>10, <1>11 DEF Kept, v, L

\* Nothing of this depends on the place in the list.
LEMMA KeptAt ==
  ASSUME NEW t, NEW w, NEW i, Kept(t, w, i), NEW u, SameLists(t, u),
         u.curr = t.curr, u.struck = t.struck, u.group = t.group, u.merged = t.merged,
         u.rt = t.rt
  PROVE  Kept(u, w, i)
<1>1. LoopsOf(u) /\ ListOK(u) /\ NewOK(u.out) /\ GroupOK(u)
  BY DEF Kept, SameLists, LoopsOf, ListOK, GroupOK
<1>2. Placed(u, w) /\ Left(u) = Left(t)
  <2>1. Left(u) = Left(t)
    BY DEF SameLists, Left
  <2> QED
    BY <2>1 DEF Kept, SameLists, Placed
<1>3. ByProcess(u, w, i) /\ ByRun(u, w)
  BY <1>2 DEF Kept, ByProcess, ByRun, SameLists
<1> QED
  BY <1>1, <1>2, <1>3 DEF Kept, SameLists

\* The second round of -t -r takes the new reports of the first for its list.
LEMMA NextRound ==
  ASSUME NEW u, NEW w, NEW i, Kept(u, w, i), u.curr = 0, Left(u) = {},
         NEW x, DOMAIN x = Fields, x.phase = "runs", x.option = "tr", x.list = u.out,
         x.out = <<>>, x.struck = {}, x.curr = 0
  PROVE  \E v : Kept(x, v, 1)
<1> DEFINE v == [n \in DOMAIN dir |-> -w[n]]
           L == Len(u.out)
<1>1. Left(x) = 1..L /\ L \in Nat
  <2>1. L \in Nat
    BY DEF Kept, NewOK, IsSeq
  <2> QED
    BY <2>1 DEF Left
<1> HIDE DEF L
<1>2. ASSUME NEW n \in DOMAIN dir
      PROVE  /\ v[n] \in Int /\ v[n] \in 1..L /\ v[n] > 0
             /\ \A j \in 1..L : n \in x.list[j].parts <=> v[n] = j
  <2>1. /\ w[n] \in Int /\ ~ w[n] > 0 /\ w[n] # 0
        /\ w[n] < 0 => -w[n] \in 1..L
        /\ \A j \in 1..L : n \in u.out[j].parts <=> w[n] = -j
    BY DEF Kept, Placed, L
  <2>2. v[n] = -w[n]
    OBVIOUS
  <2> HIDE DEF v
  <2>3. \A j \in 1..L : w[n] = -j <=> v[n] = j
    BY <1>1, <2>1, <2>2
  <2> QED
    BY <2>1, <2>2, <2>3
<1> HIDE DEF v
<1>3. Len(x.out) = 0
  OBVIOUS
<1>4. Placed(x, v)
  <2>1. \A n \in DOMAIN dir : ~ v[n] < 0 /\ v[n] # 0
    BY <1>2
  <2> QED
    BY <1>1, <1>2, <1>3, <2>1 DEF Placed
<1>5. ListOK(x)
  BY DEF Kept, NewOK, ListOK
<1>6. NewOK(x.out)
  <2>1. <<>> \in Seq(Range(<<>>))
    OBVIOUS
  <2> QED
    BY <1>3, <2>1 DEF NewOK, IsSeq
<1>7. LoopsOf(x) /\ GroupOK(x) /\ ByProcess(x, v, 1) /\ ByRun(x, v)
  BY DEF LoopsOf, GroupOK, ByProcess, ByRun, Options
<1> QED
  BY <1>4, <1>5, <1>6, <1>7 DEF Kept

\* The next report, the next round, or the end.
LEMMA AdvanceKeeps ==
  ASSUME NEW t, Looping(t), LoopOK(t), ToolTypes(t),
         NEW u, Looked(t, u), RuntimeBefore(u, t.i + 1), NEW w, Kept(u, w, t.i + 1)
  PROVE  LET x == Advance(u)
         IN  /\ Looping(x) => \E v : Kept(x, v, x.i)
             /\ x.phase = "done" => \E v : Ended(x, v)
<1> DEFINE n == Len(t.list)
<1>1. /\ DOMAIN u = Fields /\ u.phase = t.phase /\ u.list = t.list /\ u.i = t.i
      /\ u.phase \in {"threads", "runs"}
      /\ n \in Nat /\ t.i \in 1..n /\ u.curr \in 0..t.i
      /\ RuntimeOK(u.rt) /\ u.merged \in Nat /\ u.option \in Options
      /\ u.curr = 0 => 1..t.i \subseteq u.struck
  <2>1. /\ t.i \in 1..n /\ t.curr \in 0..(t.i - 1) /\ t.curr \in Nat /\ n \in Nat
        /\ t.curr = 0 => 1..(t.i - 1) \subseteq t.struck
    BY DEF LoopOK, IsSeq
  <2>2. /\ DOMAIN u = Fields /\ u.phase = t.phase /\ u.list = t.list /\ u.i = t.i
        /\ \/ /\ u.struck = t.struck
              /\ \/ u.curr = t.curr /\ (t.curr = 0 => t.i \in t.struck)
                 \/ t.curr = 0 /\ u.curr = t.i /\ t.i \notin t.struck
           \/ /\ t.curr # 0 /\ t.i \notin t.struck
              /\ u.curr = t.curr /\ u.struck = t.struck \cup {t.i}
    BY DEF Looked
  <2> HIDE DEF n
  <2>3. u.curr \in 0..t.i
    BY <2>1, <2>2
  <2>4. u.curr = 0 => 1..t.i \subseteq u.struck
    <3>1. \A j \in 1..t.i : j \in 1..(t.i - 1) \/ j = t.i
      BY <2>1
    <3> QED
      BY <2>1, <2>2, <3>1
  <2>5. RuntimeOK(u.rt) /\ u.merged \in Nat /\ u.option \in Options
    BY <2>1 DEF RuntimeBefore
  <2> QED
    BY <2>1, <2>2, <2>3, <2>4, <2>5 DEF Looping
<1>2. CASE t.i # n
  <2> DEFINE x == [u EXCEPT !.i = t.i + 1]
  <2>1. Advance(u) = x
    BY <1>1, <1>2 DEF Advance
  <2>2. /\ SameLists(u, x) /\ x.curr = u.curr /\ x.struck = u.struck /\ x.group = u.group
        /\ x.merged = u.merged /\ x.rt = u.rt /\ x.i = t.i + 1
    BY <1>1 DEF SameLists, Fields
  <2> HIDE DEF x
  <2>3. Kept(x, w, x.i)
    BY <2>2, KeptAt
  <2>4. x.phase # "done"
    BY <1>1, <2>2 DEF SameLists
  <2> QED
    BY <2>1, <2>3, <2>4
<1>3. CASE t.i = n /\ u.curr # 0
  <2> DEFINE new == IF u.merged > 0 THEN Sum(u) ELSE u.list[u.curr]
             s == Strike(u, u.curr)
             x == [s EXCEPT !.out = Append(u.out, new), !.curr = 0, !.merged = 0,
                            !.group = {}, !.i = 1]
  <2>1. s = [u EXCEPT !.struck = u.struck \cup {u.curr}]
    BY DEF Strike
  <2>2. /\ DOMAIN s = Fields /\ s.out = u.out /\ s.phase = u.phase /\ s.option = u.option
        /\ s.list = u.list /\ s.struck = u.struck \cup {u.curr}
    BY <1>1, <2>1 DEF Fields
  <2>3. Advance(u) = x
    <3>1. Advance(u) = Finished(u)
      BY <1>1, <1>3 DEF Advance
    <3>2. Finished(u) = [s EXCEPT !.out = Append(s.out, new), !.curr = 0, !.merged = 0,
                                  !.group = {}, !.i = 1]
      BY <1>3 DEF Finished
    <3> QED
      BY <2>2, <3>1, <3>2
  <2> HIDE DEF s, new
  <2>4. /\ DOMAIN x = Fields /\ x.phase = u.phase /\ x.option = u.option /\ x.list = u.list
        /\ x.out = Append(u.out, new) /\ x.struck = u.struck \cup {u.curr} /\ x.curr = 0
        /\ x.i = 1
    BY <2>2 DEF Fields
  <2> HIDE DEF x
  <2>5. StandsFor(new) /\ new.parts = u.group
    <3>1. u.curr \in 1..Len(u.list)
      BY <1>1, <1>3
    <3>2. EntryOK(u.list[u.curr]) /\ StandsFor(u.list[u.curr]) /\ GroupOK(u)
      BY <1>1, <3>1 DEF Kept, ListOK, ToolTypes, Entries
    <3> QED
      BY <1>1, <1>3, <3>2, SumStands DEF new
  <2>6. Kept(u, w, Len(u.list) + 1) /\ Len(u.list) \in Nat
    BY <1>1, <1>3
  <2>7. Kept(x, Written(w, Len(u.out) + 1), x.i)
    BY <1>3, <2>4, <2>5, <2>6, WritesGroup
  <2>8. x.phase # "done"
    BY <1>1, <2>4
  <2> QED
    BY <2>3, <2>7, <2>8
<1>4. CASE t.i = n /\ u.curr = 0
  <2>1. Left(u) = {}
    BY <1>1, <1>4 DEF Left
  <2>2. Advance(u) = Finished(u)
    BY <1>1, <1>4 DEF Advance
  <2>3. CASE u.phase = "threads" /\ u.option = "tr"
    <3> DEFINE x == [u EXCEPT !.phase = "runs", !.list = u.out, !.struck = {},
                              !.out = <<>>, !.i = 1]
    <3>1. Advance(u) = x
      BY <1>4, <2>2, <2>3 DEF Finished
    <3>2. /\ DOMAIN x = Fields /\ x.phase = "runs" /\ x.option = "tr" /\ x.list = u.out
          /\ x.out = <<>> /\ x.struck = {} /\ x.curr = 0 /\ x.i = 1
      BY <1>1, <1>4, <2>3 DEF Fields
    <3> HIDE DEF x
    <3>3. \E v : Kept(x, v, 1)
      BY <1>4, <2>1, <3>2, NextRound
    <3> QED
      BY <3>1, <3>2, <3>3
  <2>4. CASE ~ (u.phase = "threads" /\ u.option = "tr")
    <3> DEFINE x == [u EXCEPT !.phase = "done"]
    <3>1. Advance(u) = x
      BY <1>4, <2>2, <2>4 DEF Finished
    <3>2. x.phase = "done" /\ x.out = u.out /\ x.option = u.option
      BY <1>1 DEF Fields
    <3> HIDE DEF x
    <3>3. ASSUME NEW m \in DOMAIN dir
          PROVE  /\ w[m] \in Int /\ -w[m] \in 1..Len(u.out)
                 /\ \A j \in 1..Len(u.out) : m \in u.out[j].parts <=> w[m] = -j
      <4>1. /\ w[m] \in Int /\ ~ w[m] > 0 /\ w[m] # 0
            /\ w[m] < 0 => -w[m] \in 1..Len(u.out)
            /\ \A j \in 1..Len(u.out) : m \in u.out[j].parts <=> w[m] = -j
        BY <1>4, <2>1 DEF Kept, Placed
      <4>2. w[m] < 0
        BY <4>1
      <4> QED
        BY <4>1, <4>2
    <3>4. Ended(x, w)
      BY <3>2, <3>3 DEF Ended, AllNew, Kept, ByProcess, ByRun
    <3>5. ~ Looping(x)
      BY <3>2 DEF Looping
    <3> QED
      BY <3>1, <3>4, <3>5
  <2> QED
    BY <2>3, <2>4
<1> QED
  BY <1>2, <1>3, <1>4

\* What is kept of a list stays so while the directory does.
LEMMA KeptNext ==
  ASSUME UNCHANGED dir,
         Looping(tool') => \E w : Kept(tool', w, tool'.i),
         tool'.phase = "done" => \E w : Ended(tool', w)
  PROVE  /\ Looping(tool)' => (\E w : Kept(tool, w, tool.i))'
         /\ (tool.phase = "done")' => (\E w : Ended(tool, w))'
<1>1. ASSUME NEW w, Kept(tool', w, tool'.i)
      PROVE  Kept(tool, w, tool.i)'
  <2>1. ASSUME NEW e, StandsFor(e)
        PROVE  StandsFor(e)'
    BY <2>1 DEF StandsFor, Counts, SumIn, Of
  <2>6. ListOK(tool)'
    BY <1>1, <2>1 DEF Kept, ListOK, Entry
  <2>7. NewOK(tool.out)'
    BY <1>1, <2>1 DEF Kept, NewOK, IsSeq
  <2>2. GroupOK(tool)' /\ LoopsOf(tool)'
    BY <1>1 DEF Kept, GroupOK, LoopsOf, Counts, SumIn, Of
  <2>3. Placed(tool, w)'
    BY <1>1 DEF Kept, Placed, Left
  <2>4. ByProcess(tool, w, tool.i)'
    BY <1>1 DEF Kept, ByProcess, Process, Left
  <2>5. ByRun(tool, w)'
    BY <1>1 DEF Kept, ByRun, Runs, Alike, Fitting, IsFull
  <2> QED
    BY <1>1, <2>2, <2>3, <2>4, <2>5, <2>6, <2>7 DEF Kept
<1>2. ASSUME NEW w, Ended(tool', w)
      PROVE  Ended(tool, w)'
  BY <1>2 DEF Ended, NewOK, AllNew, Process, Runs, StandsFor, Counts, SumIn, Of, Alike, IsFull
<1> QED
  BY <1>1, <1>2 DEF Looping

\* The list that main starts from stands for the directory.
LEMMA StartKeeps ==
  ASSUME ToolInv, IInv, Headers, DOMAIN dir # {},
         NEW list \in SetToSeqs(DOMAIN dir), NEW option \in Options, StartTool(list, option)
  PROVE  \E w : Kept(tool', w, tool'.i)
<1> DEFINE N == Cardinality(DOMAIN dir)
           entries == [j \in DOMAIN list |-> Entry(list[j])]
           first == IF option \in {"t", "tr"} THEN "threads" ELSE "runs"
           w == [n \in DOMAIN dir |-> CHOOSE j \in 1..N : list[j] = n]
           x == tool'
<1>1. /\ list \in [1..N -> DOMAIN dir]
      /\ \A i, j \in 1..N : i # j => list[i] # list[j]
      /\ DOMAIN list = 1..N
  BY DEF SetToSeqs
<1>2. IsFiniteSet(DOMAIN dir) /\ N \in Nat
  BY FS_CardinalityType DEF ToolInv
<1>3. \A n \in DOMAIN dir : \E j \in 1..N : list[j] = n
  <2>1. list \in Injection(1..N, DOMAIN dir)
    BY <1>1 DEF Injection, IsInjective
  <2>2. Cardinality(1..N) = N
    <3>1. 1 \in Int /\ N \in Int
      BY <1>2
    <3> HIDE DEF N
    <3>2. Cardinality(1..N) = IF 1 > N THEN 0 ELSE N - 1 + 1
      BY <3>1, FS_Interval
    <3> QED
      BY <1>2, <3>2
  <2>3. list \in Surjection(1..N, DOMAIN dir)
    BY <1>2, <2>1, <2>2, FS_Injection
  <2> QED
    BY <2>3 DEF Surjection
<1>4. tool = Off /\ x = [tool EXCEPT !.phase = first, !.option = option, !.list = entries]
  BY DEF ToolInv, StartTool
<1>5. /\ DOMAIN x = Fields /\ x.phase = first /\ x.option = option /\ x.list = entries
      /\ x.i = 1 /\ x.curr = 0 /\ x.struck = {} /\ x.out = <<>>
  <2> HIDE DEF entries, first
  <2> QED
    BY <1>4 DEF Off, Fields
<1>6. Len(entries) = N /\ \A j \in 1..N : entries[j] = Entry(list[j]) /\ list[j] \in DOMAIN dir
  <2>1. DOMAIN entries = 1..N
    BY <1>1
  <2> HIDE DEF entries
  <2>2. Len(entries) = N
    BY <1>2, <2>1
  <2> QED
    BY <1>1, <2>2 DEF entries
<1>7. \A n \in DOMAIN dir : /\ w[n] \in 1..N
                            /\ \A j \in 1..N : list[j] = n <=> w[n] = j
  BY <1>1, <1>3
<1> HIDE DEF w, x, entries, N
<1>8. Left(x) = 1..N
  BY <1>2, <1>5, <1>6 DEF Left
<1>9. \A n \in DOMAIN dir : w[n] \in Int /\ w[n] > 0
  BY <1>2, <1>7
<1>10. Placed(x, w)
  <2>1. Len(x.out) = 0
    BY <1>5
  <2>2. \A n \in DOMAIN dir : \A j \in 1..N : n \in x.list[j].parts <=> w[n] = j
    BY <1>5, <1>6, <1>7 DEF Entry
  <2>3. \A n \in DOMAIN dir : w[n] \in 1..N /\ w[n] \in Int /\ ~ w[n] < 0 /\ w[n] # 0
    BY <1>7, <1>9
  <2> QED
    BY <1>5, <1>8, <2>1, <2>2, <2>3 DEF Placed
<1>11. ListOK(x)
  <2>1. ASSUME NEW n \in DOMAIN dir
        PROVE  StandsFor(Entry(n))
    <3> DEFINE f == dir[n]
               e == Entry(n)
    <3>1. e.file = f /\ e.parts = {n}
      BY DEF Entry
    <3>2. {"k", "sources", "state"} \subseteq DOMAIN f
      BY DEF IInv, DirOK, OwnFile, Files
    <3>3. f.state = "empty" => f.sources = Nothing /\ f.k = Nothing
      BY DEF Headers, HeaderOf
    <3>4. ASSUME NEW r \in Run
          PROVE  f.sources[r] = SumIn("sources", r, {n}) /\ SumIn("k", r, {n}) <= f.k[r]
      <4>1. SumIn("sources", r, {n}) = f.sources[r] /\ SumIn("k", r, {n}) = f.k[r]
        BY <1>2, SumsIn
      <4>2. SumIn("k", r, {n}) \in Nat
        BY <1>2, SumsIn
      <4> QED
        BY <4>1, <4>2
    <3> HIDE DEF e, f
    <3>5. Counts(f.sources, f.k, {n})
      BY <3>4 DEF Counts
    <3>6. StandsFor(e)
      BY <3>1, <3>2, <3>3, <3>5 DEF StandsFor
    <3> QED
      BY <3>6 DEF e
  <2> QED
    BY <1>5, <1>6, <2>1 DEF ListOK
<1>12. NewOK(x.out)
  <2>1. <<>> \in Seq(Range(<<>>)) /\ Len(<<>>) = 0
    OBVIOUS
  <2> QED
    BY <1>5, <2>1 DEF NewOK, IsSeq
<1>13. LoopsOf(x) /\ GroupOK(x)
  BY <1>5 DEF LoopsOf, GroupOK, Options
<1>14. ByProcess(x, w, 1) /\ ByRun(x, w)
  <2>1. \A n \in DOMAIN dir : ~ w[n] < 0
    BY <1>9
  <2> QED
    BY <1>5, <2>1 DEF ByProcess, ByRun, Process, Runs
<1> QED
  BY <1>5, <1>10, <1>11, <1>12, <1>13, <1>14 DEF Kept, x

\* Every turn keeps what the list, the group and the new reports stand for.
LEMMA TurnKeeps ==
  ASSUME IInv, ToolInv, ToolTypes(tool), Keeping, ToolStep \/ ToolFails \/ ToolSkips
  PROVE  /\ Looping(tool') => \E w : Kept(tool', w, tool'.i)
         /\ tool'.phase = "done" => \E w : Ended(tool', w)
<1>1. ~ Looping(Abort) /\ Abort.phase # "done" /\ Advance(Abort) = Abort
  BY DEF Looping, Abort, Off, Advance
<1>2. Looping(tool) /\ LoopOK(tool)
  BY DEF ToolStep, ToolFails, ToolSkips, Reads, Looping, ToolInv
<1>3. PICK w : Kept(tool, w, tool.i)
  BY <1>2 DEF Keeping
<1>4. Working(tool, w)
  BY <1>2, <1>3 DEF Working, ToolInv, Keeping
<1>5. CASE ToolStep
  <2> DEFINE u == IF tool.phase = "threads" THEN LookByThread(tool) ELSE LookByRun(tool)
  <2>1. u = Abort \/ (Looked(tool, u) /\ RuntimeBefore(u, tool.i + 1)
                      /\ \E v : Kept(u, v, tool.i + 1))
    <3>1. CASE tool.phase = "threads"
      BY <1>2, <1>4, <3>1, LookTurnsThread, LookTypesThread, ThreadTurn
    <3>2. CASE tool.phase = "runs"
      BY <1>2, <1>4, <3>2, LookTurnsRun, LookTypesRun, RunTurn
    <3> QED
      BY <1>2, <3>1, <3>2 DEF Looping
  <2>2. tool' = Advance(u)
    BY <1>5 DEF ToolStep
  <2> HIDE DEF u
  <2>3. CASE u = Abort
    BY <1>1, <2>2, <2>3
  <2>4. CASE Looked(tool, u) /\ RuntimeBefore(u, tool.i + 1) /\ \E v : Kept(u, v, tool.i + 1)
    <3>1. PICK v : Kept(u, v, tool.i + 1)
      BY <2>4
    <3> QED
      BY <1>2, <2>2, <2>4, <3>1, AdvanceKeeps
  <2> QED
    BY <2>1, <2>3, <2>4
<1>6. CASE ToolFails
  BY <1>1, <1>6 DEF ToolFails
<1>7. CASE ToolSkips
  <2>1. tool' = Advance(tool) /\ tool.curr # 0 /\ tool.phase = "runs"
    BY <1>7 DEF ToolSkips
  <2>2. Looked(tool, tool)
    BY <1>2, <2>1 DEF Looked, LoopOK
  <2>3. RuntimeBefore(tool, tool.i + 1)
    BY <1>2 DEF ToolTypes, RuntimeBefore, LoopOK, IsSeq
  <2>4. Kept(tool, w, tool.i + 1)
    <3>1. SameLists(tool, tool) /\ tool.i \in Nat /\ tool.option # "t"
      BY <1>2, <1>3, <2>1 DEF LoopOK, SameLists, Kept, LoopsOf, IsSeq
    <3> QED
      BY <1>3, <3>1, Passing
  <2> QED
    BY <1>2, <2>1, <2>2, <2>3, <2>4, AdvanceKeeps
<1> QED
  BY <1>5, <1>6, <1>7

\* The folds of the property, as sums.
LEMMA SumsOfReports ==
  ASSUME NEW D, IsFiniteSet(D), NEW r, NEW h
  PROVE  /\ (\A n \in D : h[n] = dir[n].sources[r])
              => MapThenSumSet(LAMBDA n : dir[n].sources[r], D) = Total(h, D)
         /\ (\A n \in D : h[n] = dir[n].k[r])
              => MapThenSumSet(LAMBDA n : dir[n].k[r], D) = Total(h, D)
         /\ (\A n \in D : h[n] = tool.out[n].file.sources[r])
              => MapThenSumSet(LAMBDA n : tool.out[n].file.sources[r], D) = Total(h, D)
<1> DEFINE pick(s) == CHOOSE x \in s : TRUE
<1>1. \A s \in SUBSET D : s # {} => pick(s) \in D
  OBVIOUS
<1>2. ASSUME \A n \in D : h[n] = dir[n].sources[r]
      PROVE  MapThenSumSet(LAMBDA n : dir[n].sources[r], D) = Total(h, D)
  <2> DEFINE P(i) == i = [s \in SUBSET D |-> IF s = {} THEN 0
                                             ELSE dir[pick(s)].sources[r] + i[s \ {pick(s)}]]
             sums == CHOOSE i : P(i)
  <2>1. MapThenSumSet(LAMBDA n : dir[n].sources[r], D) = sums[D]
    BY DEF MapThenSumSet, MapThenFoldSet
  <2>2. \A i : P(i) <=> SumsUp(h, D, i)
    BY <1>1, <1>2 DEF SumsUp, Some
  <2> HIDE DEF P
  <2>3. SumsUp(h, D, sums)
    BY <2>2, SumsExist
  <2>4. Total(h, D) = sums[D]
    <3> HIDE DEF sums
    <3> QED
      BY <2>3, TotalIs DEF Agree
  <2> QED
    BY <2>1, <2>4
<1>3. ASSUME \A n \in D : h[n] = dir[n].k[r]
      PROVE  MapThenSumSet(LAMBDA n : dir[n].k[r], D) = Total(h, D)
  <2> DEFINE P(i) == i = [s \in SUBSET D |-> IF s = {} THEN 0
                                             ELSE dir[pick(s)].k[r] + i[s \ {pick(s)}]]
             sums == CHOOSE i : P(i)
  <2>1. MapThenSumSet(LAMBDA n : dir[n].k[r], D) = sums[D]
    BY DEF MapThenSumSet, MapThenFoldSet
  <2>2. \A i : P(i) <=> SumsUp(h, D, i)
    BY <1>1, <1>3 DEF SumsUp, Some
  <2> HIDE DEF P
  <2>3. SumsUp(h, D, sums)
    BY <2>2, SumsExist
  <2>4. Total(h, D) = sums[D]
    <3> HIDE DEF sums
    <3> QED
      BY <2>3, TotalIs DEF Agree
  <2> QED
    BY <2>1, <2>4
<1>4. ASSUME \A n \in D : h[n] = tool.out[n].file.sources[r]
      PROVE  MapThenSumSet(LAMBDA n : tool.out[n].file.sources[r], D) = Total(h, D)
  <2> DEFINE P(i) == i = [s \in SUBSET D |-> IF s = {} THEN 0
                            ELSE tool.out[pick(s)].file.sources[r] + i[s \ {pick(s)}]]
             sums == CHOOSE i : P(i)
  <2>1. MapThenSumSet(LAMBDA n : tool.out[n].file.sources[r], D) = sums[D]
    BY DEF MapThenSumSet, MapThenFoldSet
  <2>2. \A i : P(i) <=> SumsUp(h, D, i)
    BY <1>1, <1>4 DEF SumsUp, Some
  <2> HIDE DEF P
  <2>3. SumsUp(h, D, sums)
    BY <2>2, SumsExist
  <2>4. Total(h, D) = sums[D]
    <3> HIDE DEF sums
    <3> QED
      BY <2>3, TotalIs DEF Agree
  <2> QED
    BY <2>1, <2>4
<1> QED
  BY <1>2, <1>3, <1>4

LEMMA KeepingInit == Init => Keeping
<1> SUFFICES ASSUME Init PROVE Keeping
  OBVIOUS
<1>1. tool = Off /\ dir = <<>>
  BY DEF Init, RunInit
<1>2. DOMAIN dir = {}
  BY <1>1
<1>3. tool.phase = "off"
  BY <1>1 DEF Off
<1> QED
  BY <1>2, <1>3 DEF Keeping, Headers, Looping

LEMMA KeepingNext == IInv /\ ToolInv /\ RunTypes /\ ToolTypes(tool) /\ Keeping /\ [Next]_vars
                       => Keeping'
<1> SUFFICES ASSUME IInv, ToolInv, RunTypes, ToolTypes(tool), Keeping, [Next]_vars
             PROVE  Keeping'
  OBVIOUS
<1>1. Headers
  BY DEF Keeping
<1>2. UNCHANGED dir => Headers'
  BY <1>1 DEF Headers, HeaderOf
<1>3. CASE tool.phase = "off" /\ (\E r \in Run : RunStep(r)) /\ UNCHANGED tool
  <2>1. Headers'
    BY <1>1, <1>3, HeadersNext
  <2> QED
    BY <1>3, <2>1 DEF Keeping, Looping
<1>4. ASSUME UNCHANGED dir,
             Looping(tool') => \E w : Kept(tool', w, tool'.i),
             tool'.phase = "done" => \E w : Ended(tool', w)
      PROVE  Keeping'
  BY <1>2, <1>4, KeptNext DEF Keeping
<1>5. ASSUME DOMAIN dir # {}, NEW list \in SetToSeqs(DOMAIN dir), NEW option \in Options,
             StartTool(list, option)
      PROVE  Keeping'
  <2>1. UNCHANGED dir
    BY <1>5 DEF StartTool, runVars
  <2>2. tool'.phase \in {"threads", "runs"}
    BY <1>5, StartIsOK
  <2>3. \E w : Kept(tool', w, tool'.i)
    BY <1>1, <1>5, StartKeeps
  <2> QED
    BY <1>4, <2>1, <2>2, <2>3
<1>6. CASE ToolStep \/ ToolFails \/ ToolSkips
  <2>1. UNCHANGED dir
    BY <1>6 DEF ToolStep, ToolFails, ToolSkips, runVars
  <2> QED
    BY <1>4, <1>6, <2>1, TurnKeeps
<1>7. CASE UNCHANGED vars
  <2>1. UNCHANGED dir /\ UNCHANGED tool
    BY <1>7 DEF vars, runVars
  <2> QED
    BY <1>4, <2>1 DEF Keeping
<1> QED
  BY <1>3, <1>5, <1>6, <1>7 DEF Next

\* What the property says of the new reports, once w says where each report is.
LEMMA EndedKeeps ==
  ASSUME IInv, ToolInv, RunTypes, Headers, tool.phase = "done", NEW w, Ended(tool, w)
  PROVE  ToolKeepsEverything
<1> DEFINE D == DOMAIN dir
           N == Len(tool.out)
           new(j) == tool.out[j]
<1>1. /\ N \in Nat /\ DOMAIN tool.out = 1..N /\ IsFiniteSet(1..N) /\ IsFiniteSet(D)
      /\ \A e : e \in Outputs <=> \E j \in 1..N : e = new(j)
  <2>1. IsSeq(tool.out)
    BY DEF Ended, NewOK
  <2>2. N \in Nat /\ DOMAIN tool.out = 1..N
    BY <2>1 DEF IsSeq
  <2> HIDE DEF N
  <2>3. IsFiniteSet(1..N)
    <3>1. 1 \in Int /\ N \in Int
      BY <2>2
    <3> QED
      BY <3>1, FS_Interval
  <2> QED
    BY <2>2, <2>3 DEF Outputs, Range, ToolInv
<1>2. \A j \in 1..N : StandsFor(new(j)) /\ new(j).parts \subseteq D /\ new(j).parts # {}
  BY DEF Ended, NewOK, StandsFor, Counts
<1>3. \A n \in D : /\ w[n] \in Int /\ -w[n] \in 1..N /\ w[n] < 0
                   /\ \A j \in 1..N : n \in new(j).parts <=> w[n] = -j
  <2>1. \A n \in D : /\ w[n] \in Int /\ -w[n] \in 1..N
                     /\ \A j \in 1..N : n \in new(j).parts <=> w[n] = -j
    BY DEF Ended, AllNew
  <2> HIDE DEF N, new
  <2> QED
    BY <1>1, <2>1
<1>4. ASSUME NEW r \in Run
      PROVE  Copies(r) = MapThenSumSet(LAMBDA j : tool.out[j].file.sources[r], DOMAIN tool.out)
  <2> DEFINE f == Of("sources", r)
             h == [j \in 1..N |-> tool.out[j].file.sources[r]]
             v == [n \in D |-> -w[n]]
  <2>1. Copies(r) = Total(f, D)
    BY <1>1, SumsOfReports DEF Copies, Of
  <2>2. MapThenSumSet(LAMBDA j : tool.out[j].file.sources[r], DOMAIN tool.out) = Total(h, 1..N)
    <3> DEFINE O == DOMAIN tool.out
    <3>1. IsFiniteSet(O) /\ O = 1..N
      BY <1>1
    <3>2. \A j \in O : h[j] = tool.out[j].file.sources[r]
      BY <3>1
    <3> HIDE DEF O, h
    <3>3. MapThenSumSet(LAMBDA j : tool.out[j].file.sources[r], O) = Total(h, O)
      BY <3>1, <3>2, SumsOfReports
    <3>4. Total(h, O) = Total(h, 1..N)
      BY <3>1
    <3> QED
      BY <3>3, <3>4 DEF O
  <2>3. Integral(f, D)
    BY DirCounts
  <2>4. ASSUME NEW j \in 1..N
        PROVE  h[j] = Total(f, Fibre(D, v, j))
    <3>1. \A n \in D : w[n] = -j <=> v[n] = j
      BY <1>1, <1>3
    <3>2. new(j).parts = Fibre(D, v, j)
      BY <1>2, <1>3, <3>1 DEF Fibre
    <3>3. new(j).file.sources[r] = SumIn("sources", r, new(j).parts)
      BY <1>2 DEF StandsFor, Counts
    <3> QED
      BY <3>2, <3>3 DEF SumIn
  <2>5. \A n \in D : v[n] \in 1..N
    BY <1>3
  <2> HIDE DEF f, h, v, N
  <2>6. Total(h, 1..N) = Total(f, D)
    <3> DEFINE I == 1..N
    <3>1. /\ IsFiniteSet(I) /\ IsFiniteSet(D) /\ Integral(f, D)
          /\ \A n \in D : v[n] \in I
          /\ \A j \in I : h[j] = Total(f, Fibre(D, v, j))
      BY <1>1, <2>3, <2>4, <2>5
    <3> HIDE DEF D, I
    <3>2. Total(h, I) = Total(f, D)
      BY <3>1, TotalFibres
    <3> QED
      BY <3>2 DEF I
  <2> QED
    BY <2>1, <2>2, <2>6
<1>5. UNION {e.parts : e \in Outputs} = D
  <2>1. ASSUME NEW n \in D
        PROVE  \E j \in 1..N : n \in new(j).parts
    <3> DEFINE j == -w[n]
    <3>1. j \in 1..N /\ w[n] = -j
      BY <1>3
    <3> HIDE DEF j, new
    <3> QED
      BY <1>3, <3>1
  <2>2. \A e \in Outputs : e.parts \subseteq D
    BY <1>1, <1>2
  <2>3. \A n \in D : \E e \in Outputs : n \in e.parts
    <3> HIDE DEF N, new
    <3> QED
      BY <1>1, <2>1
  <2> QED
    BY <2>2, <2>3
<1>6. ASSUME NEW j \in 1..N, NEW r \in Run
      PROVE  new(j).file.k[r] >= MapThenSumSet(LAMBDA n : dir[n].k[r], new(j).parts)
  <2>1. /\ new(j).parts \subseteq D /\ IsFiniteSet(new(j).parts)
        /\ SumIn("k", r, new(j).parts) <= new(j).file.k[r]
    BY <1>1, <1>2, FS_Subset DEF StandsFor, Counts
  <2>2. \A n \in new(j).parts : Of("k", r)[n] = dir[n].k[r]
    BY <2>1 DEF Of
  <2>3. MapThenSumSet(LAMBDA n : dir[n].k[r], new(j).parts) = SumIn("k", r, new(j).parts)
    BY <2>1, <2>2, SumsOfReports DEF SumIn
  <2> QED
    BY <2>1, <2>3
<1>7. ASSUME NEW j \in 1..N, tool.option = "t", NEW n \in D
      PROVE  n.pid \in Pids(new(j)) <=> n \in new(j).parts
  <2>1. ASSUME NEW m \in new(j).parts, m.pid = n.pid
        PROVE  n \in new(j).parts
    <3>1. m \in D /\ w[m] = -j /\ w[m] < 0
      BY <1>2, <1>3, <2>1
    <3>2. w[n] = w[m]
      BY <1>7, <2>1, <3>1 DEF Ended, Process
    <3> HIDE DEF new
    <3> QED
      BY <1>3, <3>1, <3>2
  <2> QED
    BY <2>1 DEF Pids
<1>8. ASSUME NEW j \in 1..N, tool.option = "r"
      PROVE  /\ Cardinality(Tids(new(j))) = 1
             /\ Cardinality({n.pid : n \in Full(new(j))}) = Cardinality(Full(new(j)))
  <2> DEFINE P == new(j).parts
             F == Full(new(j))
             T == {n.pid : n \in F}
             g == [n \in F |-> n.pid]
  <2>1. \A m, n \in P : Alike(m, n)
    <3>1. \A n \in P : n \in D /\ w[n] = -j /\ w[n] < 0
      BY <1>2, <1>3
    <3> QED
      BY <1>8, <3>1 DEF Ended, Runs
  <2>2. Cardinality(Tids(new(j))) = 1
    <3>1. PICK m \in P : TRUE
      BY <1>2
    <3>2. Tids(new(j)) = {m.tid}
      BY <2>1, <3>1 DEF Tids, Alike
    <3> QED
      BY <3>2, FS_Singleton
  <2>3. F \subseteq P /\ IsFiniteSet(F) /\ F \subseteq FileName
    BY <1>1, <1>2, FS_Subset DEF Full, RunTypes
  <2>4. \A m, n \in F : m.pid = n.pid => m = n
    <3>1. \A m, n \in F : m.tid = n.tid /\ m.app = n.app /\ m.res = n.res
      BY <2>1 DEF Full, Alike, IsFull
    <3> HIDE DEF F
    <3> QED
      BY <2>3, <3>1 DEF FileName
  <2>5. g \in Surjection(F, T) /\ g \in Injection(F, T)
    <3> HIDE DEF F
    <3> QED
      BY <2>4 DEF Surjection, Injection, IsInjective
  <2>6. Cardinality(T) = Cardinality(F)
    <3> HIDE DEF F, T, g
    <3> QED
      BY <2>3, <2>5, FS_Surjection
  <2> QED
    BY <2>2, <2>6
<1> HIDE DEF N, new
<1>9. \A e \in Outputs : \E j \in 1..N : e = new(j)
  BY <1>1
<1> QED
  BY <1>4, <1>5, <1>6, <1>7, <1>8, <1>9 DEF ToolKeepsEverything

\* When aprof-helper ends, every report it was given is in one of the new reports and in no
\* second, whichever reports there are and whichever can be read, and what a new report
\* counts is what its parts count; with -t a new report has all the threads of a process,
\* and with -r one thread of each process.
THEOREM KeepsEverything == Spec => []ToolKeepsEverything
<1>1. ASSUME IInv, ToolInv, RunTypes, Keeping
      PROVE  ToolKeepsEverything
  <2>1. CASE tool.phase = "done"
    BY <1>1, <2>1, EndedKeeps DEF Keeping
  <2>2. CASE tool.phase # "done"
    BY <2>2 DEF ToolKeepsEverything
  <2> QED
    BY <2>1, <2>2
<1>2. Init => IInv /\ ToolInv /\ RunTypes /\ ToolTypes(tool) /\ Keeping
  BY Initially, ToolInvInit, TypesInit, KeepingInit
<1>3. IInv /\ ToolInv /\ RunTypes /\ ToolTypes(tool) /\ Keeping /\ [Next]_vars
        => (IInv /\ ToolInv /\ RunTypes /\ ToolTypes(tool) /\ Keeping)'
  BY NextStep, ToolInvNext, TypesNext, KeepingNext
<1> QED
  BY <1>1, <1>2, <1>3, PTL DEF Spec
=============================================================================
