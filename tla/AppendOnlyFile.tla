--------------------------- MODULE AppendOnlyFile ---------------------------
(***************************************************************************)
(* What the report writer expects of its FILE: what is printed reaches the *)
(* disk in order, each byte once, none skipped, and all of it by the time  *)
(* the file is closed.  Until then the disk may lag behind, so that a      *)
(* crash leaves a prefix.  Nothing is promised once a write has failed.    *)
(***************************************************************************)
EXTENDS Naturals, Sequences

CONSTANT Byte

VARIABLES disk,         \* what the disk holds
          printed,      \* what has been printed
          failed        \* a write of this file has failed

avars == <<disk, printed, failed>>

AInit == disk = <<>> /\ printed = <<>> /\ failed = FALSE

APrint == /\ Len(printed') > Len(printed)
          /\ SubSeq(printed', 1, Len(printed)) = printed
          /\ UNCHANGED <<disk, failed>>

APersist == /\ Len(disk') \in (Len(disk) + 1)..Len(printed)
            /\ disk' = SubSeq(printed, 1, Len(disk'))
            /\ UNCHANGED <<printed, failed>>

\* Closing the file and opening another.
AReopen == (disk = printed \/ failed) /\ disk' = <<>> /\ printed' = <<>> /\ failed' = FALSE

AFail == failed'

ANext == APrint \/ APersist \/ AReopen \/ AFail

ASpec == AInit /\ [][ANext]_avars
=============================================================================
