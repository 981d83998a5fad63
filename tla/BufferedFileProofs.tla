------------------------- MODULE BufferedFileProofs -------------------------
(***************************************************************************)
(* Proofs about fwrite.c, for buffers and files of any length, any way the *)
(* kernel splits a write, and any errors.                                  *)
(***************************************************************************)
EXTENDS BufferedFile, SequenceTheorems, TLAPS

\* Where the writer is, and what it has left to do there.
PlacesOK ==
  /\ pc # "flush" => bw = 0
  /\ pc \in {"idle", "copy"} => Len(buffer) < BufferSize
  /\ pc = "flush" => bw < Len(buffer)
  /\ pc = "idle" \/ (pc = "flush" /\ back = "closed") => pending = <<>>
  /\ pc = "closed" => pending = <<>> /\ buffer = <<>>

IInv == TypeOK /\ PlacesOK /\ NothingLostUnlessFailed

-----------------------------------------------------------------------------
(* Sequences and remainders.                                               *)

\* A sequence is cut in two.
LEMMA CutInTwo ==
  ASSUME NEW S, NEW s \in Seq(S), NEW m \in 0..Len(s), NEW k \in m..Len(s)
  PROVE  /\ SubSeq(s, m + 1, Len(s)) = SubSeq(s, m + 1, k) \o SubSeq(s, k + 1, Len(s))
         /\ SubSeq(s, m + 1, k) \in Seq(S) /\ SubSeq(s, k + 1, Len(s)) \in Seq(S)
         /\ Len(SubSeq(s, m + 1, k)) = k - m
         /\ Len(SubSeq(s, k + 1, Len(s))) = Len(s) - k
<1>1. Len(s) \in Nat /\ \A i \in 1..Len(s) : s[i] \in S
  BY ElementOfSeq, LenProperties
<1> DEFINE n == Len(s)
           first == m + 1
<1>2. SubSeq(s, first, k) \o SubSeq(s, k + 1, n) = SubSeq(s, first, n)
  <2>1. first \in 1..(Len(s) + 1) /\ k \in (first - 1)..Len(s) /\ n \in k..Len(s)
    BY <1>1
  <2> HIDE DEF first, n
  <2> QED
    BY <2>1, ConcatAdjacentSubSeq
<1>3. /\ SubSeq(s, m + 1, k) \in Seq(S)
      /\ Len(SubSeq(s, m + 1, k)) = IF m + 1 <= k THEN k - (m + 1) + 1 ELSE 0
  BY <1>1, SubSeqProperties
<1>4. /\ SubSeq(s, k + 1, Len(s)) \in Seq(S)
      /\ Len(SubSeq(s, k + 1, Len(s)))
           = IF k + 1 <= Len(s) THEN Len(s) - (k + 1) + 1 ELSE 0
  BY <1>1, SubSeqProperties
<1> QED
  <2>1. m \in Int /\ k \in Int /\ m <= k /\ k <= Len(s)
    BY <1>1
  <2>2. k - m = IF m + 1 <= k THEN k - (m + 1) + 1 ELSE 0
    BY <2>1
  <2>3. Len(s) - k = IF k + 1 <= Len(s) THEN Len(s) - (k + 1) + 1 ELSE 0
    BY <1>1, <2>1
  <2>4. /\ SubSeq(s, m + 1, k) \in Seq(S)
        /\ Len(SubSeq(s, m + 1, k)) = k - m
    BY <1>3, <2>2
  <2>5. /\ SubSeq(s, k + 1, Len(s)) \in Seq(S)
        /\ Len(SubSeq(s, k + 1, Len(s))) = Len(s) - k
    BY <1>4, <2>3
  <2> QED
    BY <1>2, <2>4, <2>5

\* In particular at its first k elements.
LEMMA FirstOnes ==
  ASSUME NEW S, NEW s \in Seq(S), NEW k \in 0..Len(s)
  PROVE  /\ s = SubSeq(s, 1, k) \o SubSeq(s, k + 1, Len(s))
         /\ SubSeq(s, 1, k) \in Seq(S) /\ SubSeq(s, k + 1, Len(s)) \in Seq(S)
         /\ Len(SubSeq(s, 1, k)) = k /\ Len(SubSeq(s, k + 1, Len(s))) = Len(s) - k
<1> DEFINE m == 0
           first == m + 1
<1>1. Len(s) \in Nat /\ m \in 0..Len(s) /\ k \in m..Len(s) /\ first = 1 /\ k - m = k
  BY LenProperties
<1> HIDE DEF m
<1>2. /\ SubSeq(s, first, Len(s)) = SubSeq(s, first, k) \o SubSeq(s, k + 1, Len(s))
      /\ SubSeq(s, first, k) \in Seq(S) /\ SubSeq(s, k + 1, Len(s)) \in Seq(S)
      /\ Len(SubSeq(s, first, k)) = k - m
      /\ Len(SubSeq(s, k + 1, Len(s))) = Len(s) - k
  BY <1>1, CutInTwo, ZenonT(30)
<1> HIDE DEF first
<1> QED
  BY <1>1, <1>2, SubSeqFull

\* Bytes may be regrouped.
LEMMA Regroup ==
  \A a, b, c \in Seq(Byte) : (a \o b) \o c = a \o (b \o c)
<1> TAKE a, b, c \in Seq(Byte)
<1> HIDE DEF Byte
<1> QED
  BY ConcatAssociative, Z3

\* A UInt is not changed by taking it modulo 2^32, and any sum becomes a UInt.
LEMMA UIntSums ==
  ASSUME NEW n \in Nat \ {0}, NEW x \in Int
  PROVE  x % n \in 0..(n - 1) /\ (x \in 0..(n - 1) => x % n = x)
  OBVIOUS

-----------------------------------------------------------------------------
(* The steps.                                                              *)

LEMMA WriteStep ==
  ASSUME IInv, NEW n \in 1..MaxBytes, Write(n)
  PROVE  IInv' /\ Abstract!APrint
<1>1. /\ printed \in Seq(Byte) /\ Len(printed) \in Nat /\ MaxBytes \in Nat
      /\ Len(printed) + n <= MaxBytes /\ pending = <<>> /\ bw = 0 /\ Len(buffer) < BufferSize
  BY SizesAssumption DEF IInv, TypeOK, PlacesOK, Write
<1>2. pending' \in Seq(Byte) /\ Len(pending') = n
  <2>1. pending' = [i \in 1..n |-> Len(printed) + i]
    BY DEF Write
  <2>2. \A i \in 1..n : Len(printed) + i \in Byte
    BY <1>1 DEF Byte
  <2>3. pending' \in [1..n -> Byte]
    BY <2>1, <2>2
  <2> QED
    BY <2>3, n \in Nat
<1>3. printed' = printed \o pending' /\ printed' \in Seq(Byte) /\ Len(printed') = Len(printed) + n
  BY <1>1, <1>2, ConcatProperties DEF Write
<1>4. SubSeq(printed', 1, Len(printed)) = printed
  <2>1. SubSeq(printed \o pending', 1, Len(printed)) = SubSeq(printed, 1, Len(printed))
    BY <1>1, <1>2 
  <2> QED
    BY <1>1, <1>3, <2>1, SubSeqFull
<1>5. TypeOK'
  BY <1>2, <1>3 DEF IInv, TypeOK, Write
<1>6. PlacesOK'
  BY <1>1 DEF PlacesOK, Write
<1>7. NothingLostUnlessFailed'
  <2>1. Unwritten' = Unwritten /\ file' = file /\ failed' = failed
    BY DEF Write, Unwritten
  <2>2. Unwritten \in Seq(Byte) /\ file \in Seq(Byte)
    BY CutInTwo, <1>1 DEF Unwritten, IInv, TypeOK
  <2>3. (file \o Unwritten) \in Seq(Byte)
    BY <2>2, ConcatProperties
  <2>4. ~ failed => printed = file \o Unwritten
    BY <1>1, <2>3, ConcatEmptySeq DEF IInv, NothingLostUnlessFailed
  <2> QED
    BY <1>3, <2>1, <2>4 DEF NothingLostUnlessFailed
<1> QED
  BY <1>1, <1>3, <1>4, <1>5, <1>6, <1>7 DEF IInv, Abstract!APrint, Write

\* Copying into the buffer moves bytes from what is pending to what is unwritten.
LEMMA CopyMoves ==
  ASSUME IInv, pc = "copy",
         NEW k \in 0..Len(pending), Len(buffer) + k <= BufferSize,
         buffer' = buffer \o SubSeq(pending, 1, k),
         pending' = SubSeq(pending, k + 1, Len(pending)),
         bw' = 0, UNCHANGED <<file, printed, failed>>
  PROVE  /\ buffer' \in Seq(Byte) /\ Len(buffer') = Len(buffer) + k
         /\ pending' \in Seq(Byte) /\ Len(pending') = Len(pending) - k
         /\ NothingLostUnlessFailed'
<1> DEFINE moved == SubSeq(pending, 1, k)
<1>1. /\ pending \in Seq(Byte) /\ buffer \in Seq(Byte) /\ file \in Seq(Byte)
      /\ Len(pending) \in Nat /\ Len(buffer) \in Nat /\ bw = 0
  BY LenProperties DEF IInv, TypeOK, PlacesOK
<1>2. /\ pending = moved \o pending' /\ moved \in Seq(Byte) /\ pending' \in Seq(Byte)
      /\ Len(moved) = k /\ Len(pending') = Len(pending) - k
  BY <1>1, FirstOnes, ZenonT(30)
<1> HIDE DEF moved
<1>3. buffer' = buffer \o moved /\ buffer' \in Seq(Byte) /\ Len(buffer') = Len(buffer) + k
  BY <1>1, <1>2, ConcatProperties DEF moved
<1>4. Unwritten = buffer /\ Unwritten' = buffer'
  <2>1. SubSeq(buffer, 1, Len(buffer)) = buffer /\ SubSeq(buffer', 1, Len(buffer')) = buffer'
    BY <1>1, <1>3, SubSeqFull
  <2> QED
    BY <1>1, <2>1 DEF Unwritten
<1>5. (file \o buffer') \o pending' = (file \o buffer) \o pending
  <2>1. buffer' \o pending' = buffer \o pending
    <3>1. (buffer \o moved) \o pending' = buffer \o (moved \o pending')
      BY <1>1, <1>2, Regroup, ZenonT(30)
    <3> QED
      BY <1>2, <1>3, <3>1, Zenon
  <2>2. (file \o buffer') \o pending' = file \o (buffer' \o pending')
    <3> DEFINE b == buffer'
               p == pending'
    <3>1. b \in Seq(Byte) /\ p \in Seq(Byte)
      BY <1>2, <1>3
    <3> HIDE DEF b, p
    <3>2. (file \o b) \o p = file \o (b \o p)
      BY <1>1, <3>1, Regroup, Zenon
    <3> QED
      BY <3>2 DEF b, p
  <2>3. (file \o buffer) \o pending = file \o (buffer \o pending)
    BY <1>1, Regroup
  <2> QED
    BY <2>1, <2>2, <2>3
<1>6. NothingLostUnlessFailed'
  BY <1>4, <1>5 DEF IInv, NothingLostUnlessFailed
<1> QED
  BY <1>2, <1>3, <1>6

LEMMA CopyAllStep ==
  ASSUME IInv, CopyAll
  PROVE  IInv' /\ UNCHANGED <<file, printed, failed>>
<1> DEFINE k == Len(pending)
<1>1. /\ pending \in Seq(Byte) /\ Len(pending) \in Nat /\ Len(buffer) \in Nat
      /\ Len(buffer) + Len(pending) < BufferSize /\ bw = 0 /\ BufferSize \in Nat
  BY LenProperties, SizesAssumption DEF IInv, TypeOK, PlacesOK, CopyAll, Room
<1>2. SubSeq(pending, 1, k) = pending /\ SubSeq(pending, k + 1, Len(pending)) = <<>>
  BY <1>1, SubSeqFull, SubSeqEmpty
<1>3. /\ buffer' \in Seq(Byte) /\ Len(buffer') = Len(buffer) + k
      /\ NothingLostUnlessFailed'
  <2>1. k \in 0..Len(pending) /\ Len(buffer) + k <= BufferSize
    BY <1>1
  <2>2. /\ buffer' = buffer \o SubSeq(pending, 1, k)
        /\ pending' = SubSeq(pending, k + 1, Len(pending))
        /\ bw' = 0 /\ pc = "copy" /\ UNCHANGED <<file, printed, failed>>
    BY <1>1, <1>2 DEF CopyAll
  <2> HIDE DEF k
  <2> QED
    BY <2>1, <2>2, CopyMoves
<1>4. TypeOK' /\ PlacesOK'
  BY <1>1, <1>3 DEF IInv, TypeOK, PlacesOK, CopyAll
<1> QED
  BY <1>3, <1>4 DEF IInv, CopyAll

LEMMA CopySomeStep ==
  ASSUME IInv, CopySome
  PROVE  IInv' /\ UNCHANGED <<file, printed, failed>>
<1>1. /\ pending \in Seq(Byte) /\ Len(pending) \in Nat /\ Len(buffer) \in Nat
      /\ Len(buffer) < BufferSize /\ Room \in 0..Len(pending) /\ bw = 0
      /\ BufferSize \in Nat \ {0} /\ Len(buffer) + Room = BufferSize
  BY LenProperties, SizesAssumption DEF IInv, TypeOK, PlacesOK, CopySome, Room
<1>2. /\ buffer' \in Seq(Byte) /\ Len(buffer') = BufferSize
      /\ pending' \in Seq(Byte) /\ NothingLostUnlessFailed'
  <2> DEFINE k == Room
  <2>1. /\ k \in 0..Len(pending) /\ Len(buffer) + k <= BufferSize /\ pc = "copy"
        /\ buffer' = buffer \o SubSeq(pending, 1, k)
        /\ pending' = SubSeq(pending, k + 1, Len(pending))
        /\ bw' = 0 /\ UNCHANGED <<file, printed, failed>>
    BY <1>1 DEF CopySome
  <2>2. Len(buffer) + k = BufferSize
    BY <1>1
  <2> HIDE DEF k
  <2> QED
    BY <2>1, <2>2, CopyMoves
<1>3. TypeOK' /\ PlacesOK'
  BY <1>1, <1>2 DEF IInv, TypeOK, PlacesOK, CopySome
<1> QED
  BY <1>2, <1>3 DEF IInv, CopySome

LEMMA CloseStep ==
  ASSUME IInv, Close
  PROVE  IInv' /\ UNCHANGED <<file, printed, failed>>
<1>1. buffer \in Seq(Byte) /\ Len(buffer) \in Nat /\ (buffer # <<>> => Len(buffer) > 0)
  BY EmptySeq, LenProperties DEF IInv, TypeOK
<1>2. bw = 0 /\ bw' = 0 /\ pending = <<>> /\ BufferSize \in Nat
  BY SizesAssumption DEF IInv, PlacesOK, Close
<1>3. TypeOK' /\ PlacesOK'
  BY <1>1, <1>2 DEF IInv, TypeOK, PlacesOK, Close
<1>4. NothingLostUnlessFailed'
  BY <1>2 DEF IInv, NothingLostUnlessFailed, Unwritten, Close
<1> QED
  BY <1>3, <1>4 DEF IInv, Close

LEMMA OpenStep ==
  ASSUME IInv, Open
  PROVE  IInv' /\ Abstract!AReopen
<1>1. file \in Seq(Byte) /\ buffer = <<>> /\ pending = <<>> /\ bw = 0
  BY DEF IInv, TypeOK, PlacesOK, Open
<1>2. <<>> \in Seq(Byte) /\ Len(<<>>) = 0 /\ SubSeq(<<>>, 1, 0) = <<>>
  BY EmptySeq, SubSeqEmpty
<1>3. Unwritten = <<>> /\ Unwritten' = <<>>
  BY <1>1, <1>2 DEF Unwritten, Open
<1>4. (file \o <<>>) \o <<>> = file /\ (<<>> \o <<>>) \o <<>> = <<>>
  BY <1>1, <1>2, ConcatEmptySeq
<1>5. ~ failed => printed = file
  BY <1>1, <1>3, <1>4 DEF IInv, NothingLostUnlessFailed
<1>6. NothingLostUnlessFailed'
  BY <1>3, <1>4 DEF NothingLostUnlessFailed, Open
<1>7. TypeOK' /\ PlacesOK'
  <2>1. 0 \in 0..BufferSize /\ 0 < BufferSize /\ 0 <= BufferSize
    BY SizesAssumption
  <2> QED
    BY <1>2, <2>1 DEF TypeOK, PlacesOK, Open
<1> QED
  BY <1>5, <1>6, <1>7 DEF IInv, Abstract!AReopen, Open

\* The end of a turn of fflush's loop, whatever VG_(write) has returned.
LEMMA AdvanceKeepsPlace ==
  ASSUME IInv, pc = "flush", NEW bf \in Int, Advance(bf),
         UNCHANGED <<back, pending>>
  PROVE  PlacesOK' /\ pc' \in {"flush", "copy", "closed"} /\ bw' \in 0..BufferSize
         /\ buffer' \in Seq(Byte) /\ Len(buffer') <= BufferSize
<1> DEFINE total == (bw + bf) % UIntSpan
<1>1. total \in Nat
  <2>1. bw + bf \in Int /\ UIntSpan \in Nat \ {0}
    BY SizesAssumption DEF IInv, TypeOK
  <2> QED
    BY <2>1, UIntSums
<1>2. /\ buffer \in Seq(Byte) /\ Len(buffer) \in Nat /\ Len(buffer) <= BufferSize
      /\ BufferSize \in Nat \ {0} /\ back \in {"copy", "closed"}
      /\ back = "closed" => pending = <<>>
  BY LenProperties, SizesAssumption DEF IInv, TypeOK, PlacesOK
<1>3. <<>> \in Seq(Byte) /\ Len(<<>>) = 0
  BY EmptySeq
<1>4. CASE total < Len(buffer)
  <2>1. bw' = total /\ pc' = "flush" /\ buffer' = buffer
    BY <1>4 DEF Advance
  <2> HIDE DEF total
  <2> QED
    BY <1>1, <1>2, <1>4, <2>1 DEF PlacesOK
<1>5. CASE ~ (total < Len(buffer))
  <2>1. bw' = 0 /\ pc' = back /\ buffer' = <<>>
    BY <1>5 DEF Advance
  <2> QED
    BY <1>2, <1>3, <2>1 DEF PlacesOK
<1> QED
  BY <1>4, <1>5

\* The kernel takes the next bytes, and the file stays a prefix of what was printed.
LEMMA AcceptStep ==
  ASSUME IInv, NEW n \in 1..BufferSize, Accept(n)
  PROVE  IInv' /\ (failed \/ Abstract!APersist)
<1>1. /\ buffer \in Seq(Byte) /\ pending \in Seq(Byte) /\ file \in Seq(Byte)
      /\ Len(buffer) \in Nat /\ Len(file) \in Nat /\ Len(buffer) <= BufferSize
      /\ bw \in Nat /\ n \in Nat \ {0} /\ bw + n <= Len(buffer) /\ pc = "flush"
      /\ BufferSize \in Nat /\ UIntSpan \in Nat \ {0} /\ BufferSize < UIntSpan
  BY LenProperties, SizesAssumption DEF IInv, TypeOK, PlacesOK, Accept
<1> DEFINE k == bw + n
           some == SubSeq(buffer, bw + 1, k)
           rest == SubSeq(buffer, k + 1, Len(buffer))
<1>2. /\ Unwritten = some \o rest /\ some \in Seq(Byte) /\ rest \in Seq(Byte)
      /\ Len(some) = n
  <2>1. bw \in 0..Len(buffer) /\ k \in bw..Len(buffer) /\ k - bw = n
    BY <1>1
  <2> HIDE DEF k
  <2> QED
    BY <1>1, <2>1, CutInTwo DEF Unwritten
<1>3. /\ file' = file \o some /\ UNCHANGED <<back, pending, printed, failed>> /\ Advance(n)
  BY DEF Accept
<1>4. file' \in Seq(Byte) /\ Len(file') = Len(file) + n
  <2> HIDE DEF some
  <2> QED
    BY <1>1, <1>2, <1>3, ConcatProperties
<1>5. Unwritten' = rest
  <2>1. (bw + n) % UIntSpan = k
    <3>1. k \in 0..(UIntSpan - 1) /\ k \in Int
      BY <1>1
    <3> HIDE DEF k
    <3>2. k % UIntSpan = k
      BY <1>1, <3>1, UIntSums
    <3> QED
      BY <3>2 DEF k
  <2>2. CASE k < Len(buffer)
    BY <1>3, <2>1, <2>2 DEF Advance, Unwritten
  <2>3. CASE ~ (k < Len(buffer))
    <3>1. bw' = 0 /\ buffer' = <<>>
      BY <1>3, <2>1, <2>3 DEF Advance
    <3>2. Unwritten' = <<>>
      BY <3>1, SubSeqEmpty, EmptySeq DEF Unwritten
    <3>3. rest = <<>>
      BY <1>1, <2>3, SubSeqEmpty
    <3> QED
      BY <3>2, <3>3
  <2> QED
    BY <2>2, <2>3
<1> HIDE DEF some, rest, k
<1>6. (file' \o Unwritten') \o pending' = (file \o Unwritten) \o pending
  <2>1. (file \o some) \o rest = file \o (some \o rest)
    BY <1>1, <1>2, Regroup
  <2> QED
    BY <1>2, <1>3, <1>5, <2>1, Zenon
<1>7. NothingLostUnlessFailed'
  BY <1>3, <1>6 DEF IInv, NothingLostUnlessFailed
<1>8. TypeOK' /\ PlacesOK'
  <2>1. PlacesOK' /\ pc' \in {"flush", "copy", "closed"} /\ bw' \in 0..BufferSize
         /\ buffer' \in Seq(Byte) /\ Len(buffer') <= BufferSize
    BY <1>1, <1>3, AdvanceKeepsPlace
  <2> QED
    BY <1>3, <1>4, <2>1 DEF IInv, TypeOK
<1>9. failed \/ Abstract!APersist
  <2> SUFFICES ASSUME ~ failed PROVE Abstract!APersist
    OBVIOUS
  <2> DEFINE later == rest \o pending
  <2>1. later \in Seq(Byte)
    BY <1>1, <1>2, ConcatProperties
  <2>2. printed = file' \o later
    <3>1. printed = (file' \o rest) \o pending
      BY <1>5, <1>6, <1>3 DEF IInv, NothingLostUnlessFailed
    <3> QED
      BY <1>1, <1>2, <1>4, <3>1, Regroup, ZenonT(30)
  <2> HIDE DEF later
  <2>3. Len(printed) = Len(file') + Len(later) /\ Len(later) \in Nat /\ Len(file') \in Nat
    BY <1>4, <2>1, <2>2, ConcatProperties, LenProperties
  <2>4. SubSeq(printed, 1, Len(file')) = file'
    <3>1. SubSeq(file' \o later, 1, Len(file')) = SubSeq(file', 1, Len(file'))
      BY <1>4, <2>1, <2>3
    <3> QED
      BY <1>4, <2>2, <3>1, SubSeqFull
  <2>5. Len(file') \in (Len(file) + 1)..Len(printed)
    BY <1>1, <1>4, <2>3
  <2> QED
    BY <1>3, <2>4, <2>5 DEF Abstract!APersist
<1> QED
  BY <1>7, <1>8, <1>9 DEF IInv

LEMMA FailStep ==
  ASSUME IInv, NEW errno \in Errors, Fail(errno)
  PROVE  IInv' /\ failed'
<1>1. UIntSpan - errno \in Int
  BY SizesAssumption, ErrorsAssumption
<1>2. /\ failed' = TRUE /\ Advance(UIntSpan - errno) /\ pc = "flush"
      /\ UNCHANGED <<back, file, pending, printed>>
  BY DEF Fail
<1>3. PlacesOK' /\ pc' \in {"flush", "copy", "closed"} /\ bw' \in 0..BufferSize
      /\ buffer' \in Seq(Byte) /\ Len(buffer') <= BufferSize
  BY <1>1, <1>2, AdvanceKeepsPlace
<1> QED
  BY <1>2, <1>3 DEF IInv, TypeOK, NothingLostUnlessFailed

-----------------------------------------------------------------------------
LEMMA IInvInit == Init => IInv
<1> SUFFICES ASSUME Init PROVE IInv
  OBVIOUS
<1>1. <<>> \in Seq(Byte) /\ Len(<<>>) = 0 /\ SubSeq(<<>>, 1, 0) = <<>>
  BY EmptySeq, SubSeqEmpty
<1>2. (<<>> \o <<>>) \o <<>> = <<>>
  BY <1>1, ConcatEmptySeq
<1>3. 0 \in 0..BufferSize /\ 0 < BufferSize /\ 0 <= BufferSize
  BY SizesAssumption
<1>4. Unwritten = <<>>
  BY <1>1 DEF Init, Unwritten
<1> QED
  BY <1>1, <1>2, <1>3, <1>4 DEF Init, IInv, TypeOK, PlacesOK, NothingLostUnlessFailed

\* A step keeps the invariant, and is a step of the append-only file or a stutter of it.
LEMMA NextStep ==
  ASSUME IInv, [Next]_vars
  PROVE  IInv' /\ [Abstract!ANext]_(Abstract!avars)
<1>1. ASSUME NEW n \in 1..MaxBytes, Write(n)
      PROVE  IInv' /\ Abstract!ANext
  BY <1>1, WriteStep DEF Abstract!ANext
<1>2. CASE CopyAll \/ CopySome \/ Close
  BY <1>2, CopyAllStep, CopySomeStep, CloseStep DEF Abstract!avars
<1>3. ASSUME NEW n \in 1..BufferSize, Accept(n)
      PROVE  IInv' /\ Abstract!ANext
  <2>1. failed' = failed
    BY <1>3 DEF Accept
  <2> QED
    BY <1>3, <2>1, AcceptStep DEF Abstract!ANext, Abstract!AFail
<1>4. ASSUME NEW errno \in Errors, Fail(errno)
      PROVE  IInv' /\ Abstract!ANext
  BY <1>4, FailStep DEF Abstract!ANext, Abstract!AFail
<1>5. CASE Open
  BY <1>5, OpenStep DEF Abstract!ANext
<1>6. CASE UNCHANGED vars
  <2>1. IInv'
    BY <1>6 DEF vars, IInv, TypeOK, PlacesOK, NothingLostUnlessFailed, Unwritten
  <2> QED
    BY <1>6, <2>1 DEF vars, Abstract!avars
<1> QED
  BY <1>1, <1>2, <1>3, <1>4, <1>5, <1>6 DEF Next

\* The inductive invariant.
THEOREM Invariance == Spec => []IInv
<1>1. IInv /\ [Next]_vars => IInv'
  BY NextStep
<1> QED
  BY <1>1, IInvInit, PTL DEF Spec

\* Indices into the buffer stay inside it, whatever VG_(write) returns.
THEOREM TypeCorrect == Spec => []TypeOK
<1>1. IInv => TypeOK
  BY DEF IInv
<1> QED
  BY <1>1, Invariance, PTL

\* Unless a write fails, no byte is lost, duplicated or moved.
THEOREM NothingIsLost == Spec => []NothingLostUnlessFailed
<1>1. IInv => NothingLostUnlessFailed
  BY DEF IInv
<1> QED
  BY <1>1, Invariance, PTL

\* fwrite.c implements an append-only file.
THEOREM Implements == Spec => RefinesAppendOnlyFile
<1>1. Init => Abstract!AInit
  BY DEF Init, Abstract!AInit
<1>2. IInv /\ [Next]_vars => [Abstract!ANext]_(Abstract!avars)
  BY NextStep
<1> QED
  BY <1>1, <1>2, Invariance, PTL DEF Spec, RefinesAppendOnlyFile, Abstract!ASpec

-----------------------------------------------------------------------------
(* What CallsReturn needs besides fairness.                                *)

\* fflush never asks for a write of nothing, and every turn of the
\* loops of fwrite and fflush either ends the call, takes bytes off the input, or leaves
\* less of the buffer to write (unless a write fails: then bw may go back).
Nearer ==
  /\ pc = "flush" => bw < Len(buffer)
  /\ \/ pc' \in {"idle", "closed"}
     \/ Len(pending') < Len(pending)
     \/ pending' = pending /\ Len(buffer') - bw' < Len(buffer) - bw
CallsComeNearer == [][~ failed' /\ pc \in {"copy", "flush"} => Nearer]_vars

\* Every turn of the loops of fwrite and fflush, for buffers and inputs of any length and
\* however the kernel splits the writes, brings the call nearer to its end.
THEOREM CallsEnd == Spec => CallsComeNearer
<1>1. ASSUME IInv, Next, pc \in {"copy", "flush"}, ~ failed'
      PROVE  Nearer
  <2>1. pc = "flush" => bw < Len(buffer)
    BY <1>1 DEF IInv, PlacesOK
  <2>2. CASE CopyAll \/ Close
    BY <1>1, <2>2 DEF CopyAll, Close, Nearer
  <2>3. CASE CopySome
    <3>1. /\ pending \in Seq(Byte) /\ Len(pending) \in Nat /\ pc = "copy"
          /\ Room \in 1..Len(pending) /\ pending' = SubSeq(pending, Room + 1, Len(pending))
      BY <1>1, <2>3, LenProperties, SizesAssumption DEF IInv, TypeOK, PlacesOK, CopySome, Room
    <3>2. Len(pending') < Len(pending)
      <4> DEFINE k == Room
      <4>1. k \in 0..Len(pending) /\ k > 0
        BY <3>1
      <4>2. Len(pending') = Len(pending) - k
        <5> HIDE DEF k
        <5> QED
          BY <3>1, <4>1, FirstOnes DEF k
      <4> HIDE DEF k
      <4> QED
        BY <3>1, <4>1, <4>2
    <3> QED
      BY <3>1, <3>2 DEF Nearer
  <2>4. ASSUME NEW n \in 1..BufferSize, Accept(n) PROVE Nearer
    <3>1. /\ Len(buffer) \in Nat /\ bw \in Nat /\ n \in Nat \ {0} /\ bw + n <= Len(buffer)
          /\ bw + n < UIntSpan /\ UIntSpan \in Nat \ {0} /\ pc = "flush"
      BY <1>1, <2>4, LenProperties, SizesAssumption DEF IInv, TypeOK, PlacesOK, Accept
    <3>2. (bw + n) % UIntSpan = bw + n
      <4> DEFINE k == bw + n
      <4>1. k \in 0..(UIntSpan - 1) /\ k \in Int
        BY <3>1
      <4> HIDE DEF k
      <4>2. k % UIntSpan = k
        BY <3>1, <4>1, UIntSums
      <4> QED
        BY <4>2 DEF k
    <3>3. pending' = pending /\ Advance(n)
      BY <2>4 DEF Accept
    <3>4. CASE bw + n < Len(buffer)
      BY <2>1, <3>1, <3>2, <3>3, <3>4 DEF Advance, Nearer
    <3>5. CASE ~ (bw + n < Len(buffer))
      <4>1. bw' = 0 /\ buffer' = <<>> /\ Len(buffer') = 0
        BY <3>2, <3>3, <3>5 DEF Advance
      <4> QED
        BY <2>1, <3>1, <3>3, <4>1 DEF Nearer
    <3> QED
      BY <3>4, <3>5
  <2>5. ASSUME NEW errno \in Errors, Fail(errno) PROVE Nearer
    BY <1>1, <2>5 DEF Fail
  <2>6. ASSUME NEW n \in 1..MaxBytes, Write(n) PROVE Nearer
    BY <1>1, <2>6 DEF Write
  <2>7. CASE Open
    BY <1>1, <2>7 DEF Open
  <2> QED
    BY <1>1, <2>2, <2>3, <2>4, <2>5, <2>6, <2>7 DEF Next
<1>2. IInv /\ [Next]_vars => [~ failed' /\ pc \in {"copy", "flush"} => Nearer]_vars
  BY <1>1
<1> QED
  BY <1>2, Invariance, PTL DEF Spec, CallsComeNearer
=============================================================================
