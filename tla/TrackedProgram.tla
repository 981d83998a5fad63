--------------------------- MODULE TrackedProgram ---------------------------
(***************************************************************************)
(* A program with threads that runs under the call-stack tracker of        *)
(* CallStack.  The program has its own record of its activations, which    *)
(* aprof cannot see; the tracker has to follow it from basic blocks and    *)
(* stack pointers alone.                                                   *)
(*                                                                         *)
(* A program's moves are those the comments of BB_start speak of: calls,   *)
(* returns, jumps inside a function, tail calls, procedure linkage through *)
(* dl_runtime_resolve, RET used as a jump, and longjmp.  Any other move    *)
(* may happen too; from then on the thread's activations are `lost`.       *)
(***************************************************************************)
EXTENDS CallStack

CONSTANT FirstBlock  \* the blocks that begin a function, whether or not `entry` tells

ASSUME FirstBlockAssumption ==
  FirstBlock \subseteq Block /\ \A b \in Block : Code[b].entry => b \in FirstBlock

\* The blocks of dl_runtime_resolve are those that go by its name.
ASSUME ResolverAssumption ==
  \A b, c \in Block : Code[b].fn = Code[c].fn => Code[b].resolver = Code[c].resolver

VARIABLES frames,  \* per thread: the activations begun after its first block
          rsp,     \*   the stack pointer when its last block began
          left,    \*   how it left its last block
          lost     \*   whether it has made another move, or a clone of its has failed

programVars == <<frames, rsp, left, lost>>
allVars == <<vars, programVars>>

Frame == [fn : {Code[b].fn : b \in Block}, sp : Sp, ret : Block \cup {NoBlock}]

ProgramTypeOK ==
  /\ TypeOK
  /\ frames \in [Thread -> Seq(Frame)] /\ rsp \in [Thread -> Sp]
  /\ left \in [Thread -> Jump \cup {"NONE"}] /\ lost \in [Thread -> BOOLEAN]

InitProgram ==
  /\ Init
  /\ frames = [t \in Thread |-> <<>>] /\ rsp = [t \in Thread |-> MaxSp]
  /\ left = [t \in Thread |-> "NONE"] /\ lost = [t \in Thread |-> FALSE]

-----------------------------------------------------------------------------
Mine == frames[current]
Last == lastBB[current]

\* The running thread, still followed, has left its last block by `jump`.
LeftBy(jump) == ~ halted /\ current # NoThread /\ ~ lost[current] /\ left[current] = jump

\* It goes on with `bb`, its stack pointer `csp` and its activations `fr`.
GoOn(bb, csp, fr) ==
  /\ BBStart(bb, csp, FALSE)
  /\ frames' = [frames EXCEPT ![current] = fr]
  /\ rsp' = [rsp EXCEPT ![current] = csp]
  /\ left' = [left EXCEPT ![current] = lastExit']
  /\ UNCHANGED lost

\* A jump to `bb` that debug information or sections give away.
Visible(bb) == Code[bb].entry \/ Code[bb].home # Code[Last].home

\* An activation that takes the place of the top one: it returns where that would.
InPlace(bb) ==
  IF Mine = <<>> THEN [fn |-> Code[bb].fn, sp |-> rsp[current], ret |-> NoBlock]
  ELSE [Top(Mine) EXCEPT !.fn = Code[bb].fn]

\* The stack pointers a thread may have without leaving its top activation.
WithinTop == IF Mine = <<>> THEN Sp ELSE 1..Top(Mine).sp

ProgramStart(bb) == LeftBy("NONE") /\ GoOn(bb, MaxSp, <<>>)

ProgramCall(bb) ==
  /\ LeftBy("BBCALL") /\ bb \in FirstBlock /\ ~ Code[bb].resolver /\ rsp[current] > 1
  /\ LET sp == rsp[current] - 1
     IN  GoOn(bb, sp, Append(Mine, [fn |-> Code[bb].fn, sp |-> sp, ret |-> Code[Last].after]))

\* Every activation that shares the stack pointer of the top one ends with it.
ProgramReturn ==
  /\ LeftBy("BBRET") /\ ~ Code[Last].resolver /\ Mine # <<>> /\ Top(Mine).ret # NoBlock
  /\ \E d \in 0..(Len(Mine) - 1) :
       /\ Mine[d + 1].sp = Top(Mine).sp /\ (d > 0 => Mine[d].sp > Top(Mine).sp)
       /\ GoOn(Top(Mine).ret, Top(Mine).sp + 1, SubSeq(Mine, 1, d))

\* Inside a function, which may push and pop.
ProgramJump(bb, csp) ==
  /\ LeftBy("BBOTHER") /\ ~ Code[Last].resolver
  /\ Code[bb].fn = Code[Last].fn /\ Code[bb].home = Code[Last].home /\ bb \notin FirstBlock
  /\ csp \in WithinTop /\ csp \in (rsp[current] - 1)..(rsp[current] + 1)
  /\ GoOn(bb, csp, Mine)

\* A tail call, or a linkage stub that enters dl_runtime_resolve.
ProgramTailCall(bb, csp) ==
  /\ LeftBy("BBOTHER") /\ ~ Code[Last].resolver
  /\ bb \in FirstBlock /\ Visible(bb)
  /\ IF Mine = <<>> THEN csp = rsp[current] ELSE csp \in WithinTop
  /\ GoOn(bb, csp, Append(Mine, InPlace(bb)))

\* A RET that is used as a jump may look like a return, if a call is followed by its target.
Unexpected(bb) == bb \notin ReturnAddress

\* dl_runtime_resolve goes on with the function it has found, by a jump or a RET.
ProgramResolved(bb) ==
  /\ LeftBy("BBOTHER") \/ (LeftBy("BBRET") /\ Unexpected(bb))
  /\ Code[Last].resolver /\ Mine # <<>> /\ Top(Mine).fn = Code[Last].fn
  /\ bb \in FirstBlock /\ ~ Code[bb].resolver /\ Visible(bb)
  /\ GoOn(bb, Top(Mine).sp, [Mine EXCEPT ![Len(Mine)] = InPlace(bb)])

\* "PUSH addr; RET", which leaves the stack pointer where it was.
ProgramPushRet(bb) ==
  /\ LeftBy("BBRET") /\ ~ Code[Last].resolver
  /\ Mine # <<>> /\ bb \in FirstBlock /\ Unexpected(bb)
  /\ GoOn(bb, rsp[current], Append(Mine, InPlace(bb)))

\* longjmp to the d-th activation, or to the thread's first function.
ProgramLongjmp(bb, csp) ==
  /\ LeftBy("BBOTHER") /\ ~ Code[Last].resolver /\ bb \notin FirstBlock
  /\ \E d \in 0..(Len(Mine) - 1) :
       /\ csp > Mine[d + 1].sp
       /\ d > 0 => Code[bb].fn = Mine[d].fn /\ csp <= Mine[d].sp
       /\ GoOn(bb, csp, SubSeq(Mine, 1, d))

\* Anything at all.
Stray(bb, csp, stray) ==
  /\ Running /\ stray => Arrived = "BBRET"
  /\ BBStart(bb, csp, stray)
  /\ lost' = [lost EXCEPT ![current] = TRUE]
  /\ frames' = [frames EXCEPT ![current] = <<>>]
  /\ rsp' = [rsp EXCEPT ![current] = MaxSp]
  /\ left' = [left EXCEPT ![current] = lastExit']

-----------------------------------------------------------------------------
\* aprof forgets how the parent left its block.
ProgramCloneFails(t) ==
  /\ CloneFails(t)
  /\ lost' = [lost EXCEPT ![current] = TRUE]
  /\ frames' = [frames EXCEPT ![current] = <<>>]
  /\ rsp' = [rsp EXCEPT ![current] = MaxSp]
  /\ UNCHANGED left

ProgramExit ==
  /\ ThreadExit
  /\ frames' = [frames EXCEPT ![current] = <<>>] /\ rsp' = [rsp EXCEPT ![current] = MaxSp]
  /\ left' = [left EXCEPT ![current] = "NONE"] /\ lost' = [lost EXCEPT ![current] = FALSE]

NextProgram ==
  \/ \E bb \in Block : \/ ProgramStart(bb)
                       \/ ProgramCall(bb)
                       \/ ProgramResolved(bb)
                       \/ ProgramPushRet(bb)
  \/ ProgramReturn
  \/ \E bb \in Block, csp \in Sp : \/ ProgramJump(bb, csp)
                                   \/ ProgramTailCall(bb, csp)
                                   \/ ProgramLongjmp(bb, csp)
                                   \/ \E stray \in BOOLEAN : Stray(bb, csp, stray)
  \/ \E t \in Thread : (Create(t) \/ Switch(t)) /\ UNCHANGED programVars
  \/ \E t \in Thread : ProgramCloneFails(t)
  \/ ProgramExit

SpecProgram == InitProgram /\ [][NextProgram]_allVars

-----------------------------------------------------------------------------
\* The activation stack names the program's activations, in order and with their stack
\* pointers, at every block of every thread that has made only the moves above: BB_start
\* (callstack.c:553-681) confuses no call, return, tail call, resolver or longjmp.
ShadowFollowsProgram ==
  \A t \in Thread : (~ lost[t] /\ ~ halted) =>
    [d \in DOMAIN stack[t] |-> <<stack[t][d].fn, stack[t][d].sp>>]
      = [d \in DOMAIN frames[t] |-> <<frames[t][d].fn, frames[t][d].sp>>]

\* BB_start treats NONE and BBOTHER alike.
SameExit(j, k) == j = k \/ {j, k} = {"NONE", "BBOTHER"}

\* runtime.last_exit is how the running thread left its last block, whatever other
\* threads have run since (main.c:239-241).
LastExitIsOwn == current # NoThread => SameExit(lastExit, left[current])

\* So it is, in a thread that aprof follows: thread_switch (thread.c:128-172) saves and
\* restores it around the blocks of every other thread.
LastExitFollowed ==
  (current # NoThread /\ ~ lost[current]) => lastExit = left[current]
=============================================================================
