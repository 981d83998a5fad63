----------------------------- MODULE EventQueue -----------------------------
(***************************************************************************)
(* The instrumentation of one basic block: events.c and the loop over the  *)
(* statements in APROF_(instrument).  A memory access is queued, not       *)
(* emitted; the queue becomes helper calls when it is full, before an exit *)
(* of the block and at its end.  The queue is described by operators on a  *)
(* record of its two halves, since one statement may queue two events.     *)
(***************************************************************************)
EXTENDS Integers, Sequences, SequencesExt

CONSTANTS Location,         \* the pairs of an address and a size of the block
          NoLocation,       \* of an instruction or an exit
          N_EVENTS,         \* capacity of the queue
          MaxStatements     \* bound on the accesses, IMarks and exits of a block

ASSUME CapacityAssumption == N_EVENTS \in Nat \ {0}
ASSUME LocationAssumption == NoLocation \notin Location

VARIABLES sbIn,             \* what the statements seen so far do, in order
          events,           \* runtime.events, the first events_used of them
          sbOut,            \* the helper calls and exits emitted so far
          ended             \* the block has been returned to the core

vars == <<sbIn, events, sbOut, ended>>

Item(kind, l) == [kind |-> kind, loc |-> l]
Instruction == Item("Ir", NoLocation)
SideExit == Item("exit", NoLocation)
Access(kinds) == {Item(k, l) : k \in kinds, l \in Location}

TypeOK ==
  /\ sbIn \in Seq(Access({"load", "store"}) \cup {Instruction, SideExit})
  /\ events \in Seq(Access({"load", "store", "modify"}) \cup {Instruction})
  /\ sbOut \in Seq(Access({"load", "store", "modify"}) \cup {SideExit})
  /\ Len(events) <= N_EVENTS
  /\ ended \in BOOLEAN

Init == sbIn = <<>> /\ events = <<>> /\ sbOut = <<>> /\ ended = FALSE

-----------------------------------------------------------------------------
(* The queue: q.events waits, q.sbOut is emitted.                          *)

\* The calls an event becomes: an instruction only stands between accesses.
HelperCalls(e) == IF e = Instruction THEN <<>> ELSE <<e>>

\* flush_events_rms and flush_events_drms, the same but for an argument.
Flush(q) ==
  [events |-> <<>>,
   sbOut |-> q.sbOut \o FlattenSeq([i \in DOMAIN q.events |-> HelperCalls(q.events[i])])]

\* A plausible bug: one slot is thought to be missing, and a full queue is
\* not seen.
MakeRoomLate(q) == IF Len(q.events) = N_EVENTS + 1 THEN Flush(q) ELSE q

\* Every addEvent flushes a full queue before it takes a slot.
MakeRoom(q) == IF Len(q.events) = N_EVENTS THEN Flush(q) ELSE q

Enqueue(q, e) ==
  LET room == MakeRoom(q) IN [room EXCEPT !.events = Append(@, e)]

addEvent_Ir(q) == Enqueue(q, Instruction)
addEvent_Dr(q, l) == Enqueue(q, Item("load", l))

\* A plausible bug: room is made before the last event is looked at, so that a
\* load in the last slot is emitted without the store that follows it.
FlushThenMerge(q, l) ==
  LET room == MakeRoom(q)
  IN  IF room.events # <<>> /\ Last(room.events) = Item("load", l)
      THEN [room EXCEPT !.events = Front(@) \o <<Item("modify", l)>>]
      ELSE [room EXCEPT !.events = Append(@, Item("store", l))]

\* A store is merged with the load queued just before it.
addEvent_Dw(q, l) ==
  IF q.events # <<>> /\ Last(q.events) = Item("load", l)
  THEN [q EXCEPT !.events = Front(@) \o <<Item("modify", l)>>]
  ELSE Enqueue(q, Item("store", l))

Queue == [events |-> events, sbOut |-> sbOut]

\* The statement does these things and leaves the queue as q.
Statement(items, q) ==
  /\ ~ended /\ Len(sbIn) + Len(items) <= MaxStatements
  /\ sbIn' = sbIn \o items
  /\ events' = q.events /\ sbOut' = q.sbOut
  /\ UNCHANGED ended

-----------------------------------------------------------------------------
(* The statements of the block, one action for each case of instrument.    *)

\* A plausible bug: "if you aren't interested in instruction reads".
SkipIMark == Statement(<<Instruction>>, Queue)

IMark == Statement(<<Instruction>>, addEvent_Ir(Queue))

WrTmpLoad(l) == Statement(<<Item("load", l)>>, addEvent_Dr(Queue, l))

\* (Guarded stores and loads have no case in instrument: tl_assert(0), main.c:229.)
Store(l) == Statement(<<Item("store", l)>>, addEvent_Dw(Queue, l))

\* A helper of the core that reads, writes or modifies memory (mFx).
Dirty(reads, writes, l) ==
  LET read == IF reads THEN addEvent_Dr(Queue, l) ELSE Queue
  IN  Statement((IF reads THEN <<Item("load", l)>> ELSE <<>>)
                  \o (IF writes THEN <<Item("store", l)>> ELSE <<>>),
                IF writes THEN addEvent_Dw(read, l) ELSE read)

CAS(l) ==
  Statement(<<Item("load", l), Item("store", l)>>,
            addEvent_Dw(addEvent_Dr(Queue, l), l))

\* LLSC with and without data to store.
LoadLinked(l) == Statement(<<Item("load", l)>>, addEvent_Dr(Queue, l))
StoreConditional(l) == Statement(<<Item("store", l)>>, addEvent_Dw(Queue, l))

\* A plausible bug: the exit is emitted and the queue left for later.
ExitUnflushed ==
  Statement(<<SideExit>>, [Queue EXCEPT !.sbOut = Append(@, SideExit)])

Exit ==
  LET flushed == Flush(Queue)
  IN  Statement(<<SideExit>>, [flushed EXCEPT !.sbOut = Append(@, SideExit)])

\* Every other statement (Put, AbiHint, MBE, a WrTmp that loads nothing, a
\* Dirty with Ifx_None) is copied and changes nothing here.

\* A plausible bug: the last accesses of the block stay queued.
EndUnflushed == ~ended /\ ended' = TRUE /\ UNCHANGED <<sbIn, events, sbOut>>

\* The end of the statements: flush and return sbOut.
End ==
  /\ ~ended /\ ended' = TRUE
  /\ events' = Flush(Queue).events /\ sbOut' = Flush(Queue).sbOut
  /\ UNCHANGED sbIn

\* The core has the next block instrumented.
NextBlock ==
  /\ ended /\ ended' = FALSE
  /\ sbIn' = <<>> /\ events' = <<>> /\ sbOut' = <<>>

Next ==
  \/ IMark \/ Exit \/ End \/ NextBlock
  \/ \E l \in Location :
       \/ WrTmpLoad(l) \/ Store(l) \/ CAS(l)
       \/ LoadLinked(l) \/ StoreConditional(l)
       \/ \E reads, writes \in BOOLEAN : Dirty(reads, writes, l)

Spec == Init /\ [][Next]_vars

-----------------------------------------------------------------------------
(* The promise, stated over the whole block at once.                       *)

\* A load and the store of the same bytes right after it, in one instruction:
\* an IMark or an exit between the two would stand between their items.
Pair(s, i) ==
  /\ i \in 1..(Len(s) - 1) /\ s[i].kind = "load"
  /\ s[i + 1] = Item("store", s[i].loc)

\* What should be emitted for item i of s.
Emitted(s, i) ==
  CASE s[i] = Instruction -> <<>>
    [] Pair(s, i) -> <<Item("modify", s[i].loc)>>
    [] Pair(s, i - 1) -> <<>>
    [] OTHER -> <<s[i]>>

Promised(s) == FlattenSeq([i \in 1..Len(s) |-> Emitted(s, i)])

Exits(s) == {i \in 1..Len(s) : s[i] = SideExit}

\* Wherever control can leave the block, exactly the accesses made until then
\* have been reported, in their order and each once, a load and a store of one
\* instruction to the same bytes as one modify ("That must happen before any
\* possible exit from the block", events.c:47).
ExitsFindEverythingReported ==
  /\ \A i \in Exits(sbIn) : \E j \in Exits(sbOut) :
       SubSeq(sbOut, 1, j) = Promised(SubSeq(sbIn, 1, i))
  /\ ended => sbOut = Promised(sbIn)

\* An exception inside the block loses what is queued.  It loses no more than
\* the last N_EVENTS events, and nothing out of the middle: what is emitted
\* and what is queued are the promise cut in two ("the list would have to be
\* flushed before each memory reference", events.c:52).
AFaultLosesTheTailOnly ==
  /\ Flush(Queue).sbOut = Promised(sbIn)
  /\ Len(Promised(sbIn)) - Len(sbOut) <= N_EVENTS
=============================================================================
