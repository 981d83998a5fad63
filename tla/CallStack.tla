----------------------------- MODULE CallStack -----------------------------
(***************************************************************************)
(* The call-stack tracker of callstack.c.  At the start of every basic     *)
(* block BB_start learns the block, the stack pointer and how the thread's *)
(* last block was left, and decides which activations to pop and whether   *)
(* to push one.  thread_switch saves and restores how a thread's last      *)
(* block was left.                                                         *)
(*                                                                         *)
(* The program is any sequence of blocks and stack pointers here.          *)
(***************************************************************************)
EXTENDS Integers, Sequences, FiniteSetsExt

CONSTANTS Thread, NoThread,
          Block, NoBlock,  \* basic blocks
          Code,            \* what the translation and the debug information say of each
          MaxSp,           \* bound on stack pointers
          StackSize,       \* STACK_SIZE
          MaxStackSize     \* MAX_STACK_SIZE

Jump == {"BBCALL", "BBRET", "BBOTHER"}

BlockInfo == [fn : STRING, home : STRING, entry : BOOLEAN, resolver : BOOLEAN,
              exit : Jump, after : Block \cup {NoBlock}]

ASSUME CodeAssumption == Code \in [Block -> BlockInfo]
ASSUME NamesAssumption == NoThread \notin Thread /\ NoBlock \notin Block
ASSUME SizesAssumption == /\ MaxSp \in Nat \ {0} /\ StackSize \in Nat \ {0}
                          /\ MaxStackSize \in Nat

VARIABLES current,    \* runtime.current_TID
          lastExit,   \* runtime.last_exit
          alive,      \* the threads with a ThreadData
          saved,      \* per thread: tdata->last_exit
          lastBB,     \*   last_bb
          stack,      \*   the activation stack, bottom first
          capacity,   \*   max_stack_size
          halted      \* aprof has aborted or crashed

vars == <<current, lastExit, alive, saved, lastBB, stack, capacity, halted>>

Sp == 1..MaxSp

\* What follows a block that ends in a call is where the call returns to.
ReturnAddress == {Code[b].after : b \in {c \in Block : Code[c].exit = "BBCALL"}}

Activation == [fn : {Code[b].fn : b \in Block}, sp : Sp, ret : ReturnAddress \cup {NoBlock}]

TypeOK ==
  /\ current \in Thread \cup {NoThread} /\ alive \subseteq Thread
  /\ lastExit \in Jump \cup {"NONE"} /\ saved \in [Thread -> Jump \cup {"NONE"}]
  /\ lastBB \in [Thread -> Block \cup {NoBlock}]
  /\ stack \in [Thread -> Seq(Activation)] /\ capacity \in [Thread -> Nat]
  /\ halted \in BOOLEAN

Init ==
  /\ current = NoThread /\ alive = {}
  /\ lastExit = "NONE" /\ saved = [t \in Thread |-> "NONE"]
  /\ lastBB = [t \in Thread |-> NoBlock]
  /\ stack = [t \in Thread |-> <<>>] /\ capacity = [t \in Thread |-> StackSize]
  /\ halted = FALSE

-----------------------------------------------------------------------------
Top(st) == st[Len(st)]

\* pop_stack: pop what lies below the stack pointer, and at it up to n activations.
Popped(st, csp, n) ==
  SubSeq(st, 1, Max({0} \cup {d \in DOMAIN st : \/ csp < st[d].sp
                                                \/ csp = st[d].sp /\ n <= Len(st) - d}))

\* How many activations a return to `bb` leaves; 0 if it is no return but a jump.  With
\* the stack pointer unchanged it must hit an expected return address.  The search runs
\* past the bottom of the stack: `stray` if what lies there looks like a match.
\* (A plausible bug: every return is one.)
ReturnPopsAlways(st, bb, csp, stray) == 1
ReturnPops(st, bb, csp, stray) ==
  LET n == Len(st)
      level == {d \in 1..n : \A e \in d..n : st[e].sp = csp}
      match == {d \in level : st[d].ret = bb}
  IN  IF csp < Top(st).sp THEN 0
      ELSE IF csp > Top(st).sp THEN 1
      ELSE IF match # {} THEN n + 1 - Max(match)
      ELSE IF level = 1..n /\ stray THEN n + 1 ELSE 0

\* resize_stack, reached by get_activation of depth d.
GrownLate(cap, d) == IF d - 1 > cap THEN 2 * cap ELSE cap   \* (a plausible off-by-one)
Grown(cap, d) == IF d - 1 >= cap THEN 2 * cap ELSE cap
DepthAllowed(cap, d) == d < cap \/ d < MaxStackSize

\* How the current thread's last block was left, as BB_start sees it.
Arrived == IF lastBB[current] = NoBlock THEN "NONE" ELSE lastExit

\* The block runs after BB_start, to its final jump or to a side exit.
Runs(bb) ==
  /\ lastBB' = [lastBB EXCEPT ![current] = bb]
  /\ lastExit' \in {"BBOTHER", Code[bb].exit}

Running == ~ halted /\ current # NoThread

Keeps == UNCHANGED <<current, alive, saved>>

\* BB_start finds a return.
Return(bb, csp, stray) ==
  /\ Running /\ Arrived = "BBRET" /\ stack[current] # <<>>
  /\ LET n == ReturnPops(stack[current], bb, csp, stray)
     IN  n > 0 /\ stack' = [stack EXCEPT ![current] = Popped(@, csp, n)]
  /\ Runs(bb) /\ Keeps /\ UNCHANGED <<capacity, halted>>

\* It finds one with no activation on the stack, and dereferences NULL.
ReturnToNobody(bb) ==
  /\ Running /\ Arrived = "BBRET" /\ stack[current] = <<>>
  /\ halted' = TRUE
  /\ UNCHANGED <<current, lastExit, alive, saved, lastBB, stack, capacity>>

\* Neither a call nor a return, but it is taken for a call: a return that pops nothing, a
\* jump to another object or section, or to the first block of a function.
Emulated(bb, csp, stray) ==
  /\ lastBB[current] # NoBlock
  /\ \/ /\ Arrived = "BBRET" /\ stack[current] # <<>>
        /\ ReturnPops(stack[current], bb, csp, stray) = 0
     \/ /\ Arrived \notin {"BBCALL", "BBRET"}
        /\ Code[bb].home # Code[lastBB[current]].home \/ Code[bb].entry

\* dl_runtime_resolve does not call the function it has resolved: it is popped first,
\* and its stack pointer is the new function's.
LeavesResolver(bb, csp, stray) ==
  /\ Emulated(bb, csp, stray)
  /\ stack[current] # <<>> /\ Code[lastBB[current]].resolver
StackLeft(bb, csp, stray) ==
  IF LeavesResolver(bb, csp, stray)
  THEN SubSeq(stack[current], 1, Len(stack[current]) - 1) ELSE stack[current]
SpLeft(bb, csp, stray) ==
  IF LeavesResolver(bb, csp, stray) THEN Top(stack[current]).sp ELSE csp

\* A plausible bug: a jump records a return address too.
PushedAfterAny(st, bb, csp) ==
  LET caller == IF st # <<>> THEN [st EXCEPT ![Len(st)].ret = Code[lastBB[current]].after]
                ELSE st
  IN  Append(caller, [fn |-> Code[bb].fn, sp |-> csp, ret |-> NoBlock])

\* push_stack, onto a stack whose top has made a call from the last block.
Pushed(st, bb, csp) ==
  LET caller == IF st # <<>> /\ Code[lastBB[current]].exit = "BBCALL"
                THEN [st EXCEPT ![Len(st)].ret = Code[lastBB[current]].after] ELSE st
  IN  Append(caller, [fn |-> Code[bb].fn, sp |-> csp, ret |-> NoBlock])

\* A plausible bug: activations below the stack pointer are not popped before a call.
CallUnsynced(bb, csp, stray) ==
  /\ Running
  /\ Arrived = "BBCALL" \/ Emulated(bb, csp, stray)
  /\ LET st == StackLeft(bb, csp, stray)
         sp == SpLeft(bb, csp, stray)
     IN  /\ DepthAllowed(capacity[current], Len(st) + 1)
         /\ stack' = [stack EXCEPT ![current] = Pushed(st, bb, sp)]
         /\ capacity' = [capacity EXCEPT ![current] = Grown(@, Len(st) + 1)]
  /\ Runs(bb) /\ Keeps /\ UNCHANGED halted

\* BB_start finds a call, or emulates one, and nothing lies below the stack pointer.
Call(bb, csp, stray) ==
  /\ Running
  /\ Arrived = "BBCALL" \/ Emulated(bb, csp, stray)
  /\ LET st == StackLeft(bb, csp, stray)
         sp == SpLeft(bb, csp, stray)
     IN  /\ Popped(st, sp, 0) = st
         /\ DepthAllowed(capacity[current], Len(st) + 1)
         /\ stack' = [stack EXCEPT ![current] =
                        Pushed(st, bb, IF Emulated(bb, csp, stray) /\ st # <<>>
                                       THEN Top(st).sp ELSE sp)]
         /\ capacity' = [capacity EXCEPT ![current] = Grown(@, Len(st) + 1)]
  /\ Runs(bb) /\ Keeps /\ UNCHANGED halted

\* The same on a stack that may not grow: the assertion in resize_stack.
CallTooDeep(bb, csp, stray) ==
  /\ Running
  /\ Arrived = "BBCALL" \/ Emulated(bb, csp, stray)
  /\ LET st == StackLeft(bb, csp, stray)
     IN  /\ Popped(st, SpLeft(bb, csp, stray), 0) = st
         /\ ~ DepthAllowed(capacity[current], Len(st) + 1)
  /\ halted' = TRUE
  /\ UNCHANGED <<current, lastExit, alive, saved, lastBB, stack, capacity>>

\* Otherwise only what lies below the stack pointer is popped, and a call that does so
\* is not one.
Continue(bb, csp, stray) ==
  /\ Running
  /\ LET st == StackLeft(bb, csp, stray)
         sp == SpLeft(bb, csp, stray)
     IN  /\ \/ Popped(st, sp, 0) # st /\ (Arrived = "BBCALL" \/ Emulated(bb, csp, stray))
            \/ Arrived \notin {"BBCALL", "BBRET"} /\ ~ Emulated(bb, csp, stray)
         /\ stack' = [stack EXCEPT ![current] = Popped(st, sp, 0)]
  /\ Runs(bb) /\ Keeps /\ UNCHANGED <<capacity, halted>>

BBStart(bb, csp, stray) ==
  \/ Return(bb, csp, stray)
  \/ ReturnToNobody(bb)
  \/ Call(bb, csp, stray)
  \/ CallTooDeep(bb, csp, stray)
  \/ Continue(bb, csp, stray)

-----------------------------------------------------------------------------
\* thread_create -> thread_start.
Create(t) ==
  /\ ~ halted /\ t \notin alive
  /\ alive' = alive \cup {t}
  /\ UNCHANGED <<current, lastExit, saved, lastBB, stack, capacity, halted>>

\* A plausible bug: the thread that is switched away is not asked how it left its block.
SwitchUnsaved(t) ==
  /\ ~ halted /\ t # current
  /\ lastExit' = saved[t]
  /\ current' = t /\ alive' = alive \cup {t}
  /\ UNCHANGED <<saved, lastBB, stack, capacity, halted>>

\* thread_switch.
Switch(t) ==
  /\ ~ halted /\ t # current
  /\ saved' = IF current = NoThread THEN saved ELSE [saved EXCEPT ![current] = lastExit]
  /\ lastExit' = saved[t]
  /\ current' = t /\ alive' = alive \cup {t}
  /\ UNCHANGED <<lastBB, stack, capacity, halted>>

\* A clone, a system call, that fails: thread_create, and then thread_exit of the child
\* while the parent runs.
CloneFails(t) ==
  /\ Running /\ lastExit = "BBOTHER" /\ t \notin alive
  /\ current' = NoThread
  /\ UNCHANGED <<lastExit, alive, saved, lastBB, stack, capacity, halted>>

\* thread_exit of the running thread.
ThreadExit ==
  /\ Running
  /\ alive' = alive \ {current} /\ current' = NoThread
  /\ saved' = [saved EXCEPT ![current] = "NONE"]
  /\ lastBB' = [lastBB EXCEPT ![current] = NoBlock]
  /\ stack' = [stack EXCEPT ![current] = <<>>]
  /\ capacity' = [capacity EXCEPT ![current] = StackSize]
  /\ UNCHANGED <<lastExit, halted>>

Next ==
  \/ \E bb \in Block, csp \in Sp, stray \in BOOLEAN : BBStart(bb, csp, stray)
  \/ \E t \in Thread : Create(t)
  \/ \E t \in Thread : Switch(t)
  \/ \E t \in Thread : CloneFails(t)
  \/ ThreadExit

Spec == Init /\ [][Next]_vars

-----------------------------------------------------------------------------
\* Stack pointers do not grow from the bottom of the stack to its top, so that popping by
\* the stack pointer stops at the right activation.
StackPointersOrdered ==
  \A t \in Thread : \A d, e \in DOMAIN stack[t] : d < e => stack[t][d].sp >= stack[t][e].sp

\* The activations lie inside the array that holds them.
StackFits == \A t \in Thread : Len(stack[t]) <= capacity[t]
=============================================================================
