--------------------------- MODULE MCBufferedFile ---------------------------
(* A buffer of four bytes, files of up to ten, calls of any length and a   *)
(* kernel that accepts any part of a write or fails with errno 1 or 2.      *)
EXTENDS BufferedFile

MCErrors == {1, 2}

\* After a failed write fflush may write bytes over and over.
Bounded == failed => Len(file) <= BufferSize
=============================================================================
