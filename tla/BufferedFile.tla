---------------------------- MODULE BufferedFile ----------------------------
(***************************************************************************)
(* The buffered FILE of fwrite.c, through which every report is written.   *)
(* Each call of VG_(write) is a step: the kernel accepts any part of what  *)
(* it is given, or fails.  Bytes are numbered in the order they are        *)
(* printed, so that two of them are never confused.                        *)
(***************************************************************************)
EXTENDS Integers, Sequences

CONSTANTS BufferSize,   \* BUFFER_SIZE
          UIntSpan,     \* number of values of a UInt, 2^32
          Errors,       \* the errno values VG_(write) may fail with
          MaxBytes      \* bound on the length of one file

ASSUME SizesAssumption == /\ BufferSize \in Nat \ {0} /\ MaxBytes \in Nat
                          /\ UIntSpan \in Nat /\ 2 * BufferSize < UIntSpan
ASSUME ErrorsAssumption == \A e \in Errors : e \in 1..(UIntSpan - BufferSize)

VARIABLES pc,           \* where the writer is; "idle" between two calls
          back,         \* where the running fflush returns to
          file,         \* what the kernel has accepted
          buffer,       \* the first fw_pos bytes of fw_buffer
          pending,      \* what fwrite has not copied yet: its buf and size
          bw,           \* the bytes the running fflush takes for written
          printed,      \* what the callers have asked to write
          failed        \* VG_(write) has failed on this file

vars == <<pc, back, file, buffer, pending, bw, printed, failed>>

Byte == 1..MaxBytes

TypeOK ==
  /\ pc \in {"idle", "copy", "flush", "closed"} /\ back \in {"copy", "closed"}
  /\ file \in Seq(Byte) /\ pending \in Seq(Byte) /\ printed \in Seq(Byte)
  /\ buffer \in Seq(Byte) /\ Len(buffer) <= BufferSize
  /\ bw \in 0..BufferSize
  /\ failed \in BOOLEAN

Init ==
  /\ pc = "idle" /\ back = "copy"
  /\ file = <<>> /\ buffer = <<>> /\ pending = <<>> /\ printed = <<>>
  /\ bw = 0 /\ failed = FALSE

-----------------------------------------------------------------------------
\* fwrite(f, buf, size), called with the next n bytes.
Write(n) ==
  /\ pc = "idle" /\ Len(printed) + n <= MaxBytes
  /\ pending' = [i \in 1..n |-> Len(printed) + i]
  /\ printed' = printed \o pending'
  /\ pc' = "copy"
  /\ UNCHANGED <<back, file, buffer, bw, failed>>

Room == BufferSize - Len(buffer)

\* A plausible bug: the bytes already buffered are forgotten in the comparison.
CopyAllUnchecked ==
  /\ pc = "copy" /\ Len(pending) < BufferSize
  /\ buffer' = buffer \o pending /\ pending' = <<>>
  /\ pc' = "idle"
  /\ UNCHANGED <<back, file, bw, printed, failed>>

\* fwrite's loop: what is left of the input fits, and the call returns ...
CopyAll ==
  /\ pc = "copy" /\ Len(pending) < Room
  /\ buffer' = buffer \o pending /\ pending' = <<>>
  /\ pc' = "idle"
  /\ UNCHANGED <<back, file, bw, printed, failed>>

\* ... or it does not, or fills the buffer exactly: fflush is called.
CopySome ==
  /\ pc = "copy" /\ Len(pending) >= Room
  /\ buffer' = buffer \o SubSeq(pending, 1, Room)
  /\ pending' = SubSeq(pending, Room + 1, Len(pending))
  /\ bw' = 0
  /\ pc' = "flush" /\ back' = "copy"
  /\ UNCHANGED <<file, printed, failed>>

\* fclose: fflush, unless nothing is buffered.
Close ==
  /\ pc = "idle"
  /\ bw' = 0
  /\ pc' = IF buffer = <<>> THEN "closed" ELSE "flush"
  /\ back' = "closed"
  /\ UNCHANGED <<file, buffer, pending, printed, failed>>

\* A plausible bug: fw_pos is left as it was when the buffer has been written.
AdvanceKeepingBuffer(bf) ==
  LET total == (bw + bf) % UIntSpan
  IN  IF total < Len(buffer)
      THEN bw' = total /\ UNCHANGED <<pc, buffer>>
      ELSE bw' = 0 /\ UNCHANGED buffer /\ pc' = back

\* A plausible bug: the loop goes on while bw <= size.
AdvanceTooFar(bf) ==
  LET total == (bw + bf) % UIntSpan
  IN  IF total <= Len(buffer)
      THEN bw' = total /\ UNCHANGED <<pc, buffer>>
      ELSE bw' = 0 /\ buffer' = <<>> /\ pc' = back

\* The end of a turn of fflush's loop: VG_(write) has returned bf, converted to a UInt.
\* The assertion bf >= 0 that follows the call holds of every UInt.
Advance(bf) ==
  LET total == (bw + bf) % UIntSpan
  IN  IF total < Len(buffer)
      THEN bw' = total /\ UNCHANGED <<pc, buffer>>
      ELSE bw' = 0 /\ buffer' = <<>> /\ pc' = back

\* A plausible bug: every turn writes from the start of the buffer.
AcceptFromStart(n) ==
  /\ pc = "flush" /\ n <= Len(buffer) - bw
  /\ file' = file \o SubSeq(buffer, 1, n)
  /\ Advance(n)
  /\ UNCHANGED <<back, pending, printed, failed>>

\* VG_(write) accepts n bytes of those it was given (at least one: after 0 bytes and no error
\* the loop is where it was, which is a stuttering step) ...
Accept(n) ==
  /\ pc = "flush" /\ n <= Len(buffer) - bw
  /\ file' = file \o SubSeq(buffer, bw + 1, bw + n)
  /\ Advance(n)
  /\ UNCHANGED <<back, pending, printed, failed>>

\* ... or returns - errno.
Fail(errno) ==
  /\ pc = "flush"
  /\ failed' = TRUE
  /\ Advance(UIntSpan - errno)
  /\ UNCHANGED <<back, file, pending, printed>>

\* fopen of another report.
Open ==
  /\ pc = "closed"
  /\ pc' = "idle" /\ back' = "copy"
  /\ file' = <<>> /\ buffer' = <<>> /\ pending' = <<>> /\ printed' = <<>>
  /\ bw' = 0 /\ failed' = FALSE

Next ==
  \/ \E n \in 1..MaxBytes : Write(n)
  \/ CopyAll
  \/ CopySome
  \/ Close
  \/ \E n \in 1..BufferSize : Accept(n)
  \/ \E errno \in Errors : Fail(errno)
  \/ Open

\* A call that has begun is run to its end: nothing else runs while aprof writes.
Fairness == WF_vars(CopyAll \/ CopySome \/ \E n \in 1..BufferSize : Accept(n))

Spec == Init /\ [][Next]_vars /\ Fairness

-----------------------------------------------------------------------------
\* What fflush has still to write of the buffer.
Unwritten == SubSeq(buffer, bw + 1, Len(buffer))

\* Unless a write fails, no byte is lost, duplicated or moved between fwrite's input, the
\* buffer and the disk, however the kernel splits the writes.
NothingLostUnlessFailed == failed \/ printed = file \o Unwritten \o pending

\* fflush asserts that its writes succeed ("Error during writing"): so whenever fwrite
\* returns or the file is closed, what was printed is on the disk or in the buffer.
NothingLost == pc \in {"idle", "closed"} => printed = file \o buffer

\* Each call of fwrite and fclose returns, unless a write fails.
CallsReturn == pc \in {"copy", "flush"} ~> pc \in {"idle", "closed"} \/ failed

Abstract == INSTANCE AppendOnlyFile WITH disk <- file

\* fwrite.c implements an append-only file.
RefinesAppendOnlyFile == Abstract!ASpec
=============================================================================
