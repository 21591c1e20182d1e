------------------------ MODULE PackageBufferProofs ------------------------
(***************************************************************************)
(* The content of the circular buffer, for every byte stream, however it   *)
(* is cut into pieces, and every capacity, zero and pieces longer than the *)
(* buffer included.  BufferIsNewest is inductive once buffer and stream    *)
(* are known to be sequences of bytes.                                     *)
(***************************************************************************)
EXTENDS PackageBuffer, PackageFormatProofs

Typed == buffer \in Seq(Byte) /\ stream \in Seq(Byte)

IInv == Typed /\ BufferIsNewest

\* What insert() leaves is the end of the old and the new bytes, all of them
\* when they fit.
LEMMA LastBytesIsEnd ==
  ASSUME NEW bytes \in Seq(Byte), NEW n \in Nat
  PROVE  LET kept == LastBytes(bytes, n)
         IN  /\ kept \in Seq(Byte)
             /\ Len(kept) = IF Len(bytes) > n THEN n ELSE Len(bytes)
             /\ \A i \in DOMAIN kept : kept[i] = bytes[Len(bytes) - Len(kept) + i]
<1>1. CASE Len(bytes) > n
  <2>1. LastBytes(bytes, n) = SubSeq(bytes, Len(bytes) - n + 1, Len(bytes))
    BY <1>1 DEF LastBytes
  <2> QED BY <1>1, <2>1
<1>2. CASE ~(Len(bytes) > n)
  <2>1. LastBytes(bytes, n) = SubSeq(bytes, 1, Len(bytes))
    BY <1>2 DEF LastBytes
  <2> QED BY <1>2, <2>1
<1> QED BY <1>1, <1>2

LEMMA InitIInv == Init => IInv
  BY BufferAssumption DEF Init, IInv, Typed, BufferIsNewest

LEMMA AddBytesIInv ==
  ASSUME IInv, NEW bytes \in Chunks, AddBytes(bytes)
  PROVE  IInv'
<1> DEFINE all == buffer \o bytes
<1>1. /\ buffer \in Seq(Byte) /\ stream \in Seq(Byte) /\ bytes \in Seq(Byte)
      /\ Capacity \in Nat
  BY BufferAssumption DEF IInv, Typed
<1>2. buffer' = LastBytes(all, Capacity) /\ stream' = stream \o bytes
  BY DEF AddBytes
<1>3. /\ Len(buffer) = IF Len(stream) > Capacity THEN Capacity ELSE Len(stream)
      /\ \A i \in DOMAIN buffer : buffer[i] = stream[Len(stream) - Len(buffer) + i]
  BY DEF IInv, BufferIsNewest
<1>4. /\ all \in Seq(Byte) /\ Len(all) = Len(buffer) + Len(bytes)
      /\ stream' \in Seq(Byte) /\ Len(stream') = Len(stream) + Len(bytes)
  BY <1>1, <1>2
\* The old bytes and the new ones together are the end of the new stream.
<1>5. \A i \in 1..Len(all) : all[i] = stream'[Len(stream') - Len(all) + i]
  <2> TAKE i \in 1..Len(all)
  <2>1. CASE i <= Len(buffer)
    <3>1. all[i] = buffer[i]
      BY <1>1, <2>1
    <3>2. buffer[i] = stream[Len(stream) - Len(buffer) + i]
      BY <1>1, <1>3, <1>4, <2>1
    <3>3. Len(stream) - Len(buffer) + i \in 1..Len(stream)
      BY <1>1, <1>3, <1>4, <2>1
    <3> QED BY <1>1, <1>2, <1>4, <3>1, <3>2, <3>3
  <2>2. CASE i > Len(buffer)
    <3> DEFINE k == i - Len(buffer)
    <3>1. k \in 1..Len(bytes) /\ Len(buffer) <= Len(stream)
      BY <1>1, <1>3, <1>4, <2>2
    <3>2. all[i] = bytes[k]
      BY <1>1, <2>2
    <3>3. stream'[Len(stream) + k] = bytes[k]
      BY <1>1, <1>2, <3>1
    <3>4. Len(stream') - Len(all) + i = Len(stream) + k
      BY <1>1, <1>4
    <3> QED BY <3>2, <3>3, <3>4
  <2> QED BY <1>1, <1>4, <2>1, <2>2
<1> HIDE DEF all
<1>6. /\ buffer' \in Seq(Byte)
      /\ Len(buffer') = IF Len(all) > Capacity THEN Capacity ELSE Len(all)
      /\ \A i \in DOMAIN buffer' : buffer'[i] = all[Len(all) - Len(buffer') + i]
  BY <1>1, <1>2, <1>4, LastBytesIsEnd
<1>7. Len(buffer') = IF Len(stream') > Capacity THEN Capacity ELSE Len(stream')
  BY <1>1, <1>3, <1>4, <1>6
<1>8. \A i \in DOMAIN buffer' : buffer'[i] = stream'[Len(stream') - Len(buffer') + i]
  <2> TAKE i \in DOMAIN buffer'
  <2>1. i \in 1..Len(buffer') /\ Len(all) - Len(buffer') + i \in 1..Len(all)
    <3>1. i \in 1..Len(buffer')
      BY <1>6
    <3>2. Len(buffer') \in Nat /\ Len(all) \in Nat /\ Len(buffer') <= Len(all)
      BY <1>1, <1>4, <1>6
    <3> QED BY <3>1, <3>2
  <2>2. buffer'[i] = all[Len(all) - Len(buffer') + i]
    BY <1>6
  <2>3. all[Len(all) - Len(buffer') + i]
          = stream'[Len(stream') - Len(all) + (Len(all) - Len(buffer') + i)]
    BY <1>5, <2>1
  <2> QED BY <1>4, <1>6, <2>1, <2>2, <2>3
<1> QED BY <1>4, <1>6, <1>7, <1>8 DEF IInv, Typed, BufferIsNewest

LEMMA ContentIInv == IInv /\ [Next]_vars => IInv'
<1> SUFFICES ASSUME IInv, [Next]_vars PROVE IInv'
  OBVIOUS
<1>1. CASE FormPackage
  BY <1>1 DEF FormPackage, IInv, Typed, BufferIsNewest
<1>2. CASE Flush
  BY <1>2, BufferAssumption DEF Flush, IInv, Typed, BufferIsNewest
<1>3. ASSUME NEW bytes \in Chunks, AddBytes(bytes) PROVE IInv'
  BY <1>3, AddBytesIInv
<1>4. CASE UNCHANGED vars
  BY <1>4 DEF vars, IInv, Typed, BufferIsNewest
<1> QED BY <1>1, <1>2, <1>3, <1>4 DEF Next

LEMMA SpecIInv == Spec => []IInv
  BY InitIInv, ContentIInv, PTL DEF Spec

\* The circular buffer always holds the newest bytes of what addBytes was given
\* since the last flush, in order and without a gap.
THEOREM KeepsNewest == Spec => []BufferIsNewest
<1>1. IInv => BufferIsNewest
  BY DEF IInv
<1> QED BY <1>1, SpecIInv, PTL

-----------------------------------------------------------------------------
(* What formPackage finds.                                                 *)

LEMMA WindowIs ==
  ASSUME IInv, NEW i \in DOMAIN buffer, Fits(i)
  PROVE  /\ Window(i) \in Seq(Byte) /\ Len(Window(i)) = Size
         /\ \A k \in 1..Size : Window(i)[k] = buffer[i + k - 1]
         /\ Window(i)[1] = buffer[i]
<1>1. /\ buffer \in Seq(Byte) /\ Len(buffer) \in Nat /\ i \in 1..Len(buffer)
      /\ Size \in Nat /\ Size >= 3
  BY SizeBounds DEF IInv, Typed
<1>2. i + Size - 1 <= Len(buffer)
  BY DEF Fits
<1>3. /\ Window(i) \in Seq(Byte) /\ Len(Window(i)) = Size
      /\ \A k \in 1..Size : Window(i)[k] = buffer[i + k - 1]
  BY <1>1, <1>2, SegmentIs DEF Window
<1> QED BY <1>1, <1>3

\* A candidate is long enough and begins with the id: only the check sum can refuse it.
LEMMA CandidateOutcome ==
  ASSUME IInv, NEW i \in DOMAIN buffer, Candidate(i)
  PROVE  ParseOutcome(Window(i)) \in {"ok", "controlSumError"}
  BY WindowIs DEF Candidate, ParseOutcome

\* A window lies in the stream too.
LEMMA WindowInStream ==
  ASSUME IInv, NEW i \in DOMAIN buffer, Fits(i)
  PROVE  \E j \in DOMAIN stream : SubSeq(stream, j, j + Size - 1) = Window(i)
<1> DEFINE j == Len(stream) - Len(buffer) + i
           came == SubSeq(stream, j, j + Size - 1)
<1>1. /\ buffer \in Seq(Byte) /\ stream \in Seq(Byte)
      /\ Len(buffer) \in Nat /\ Len(stream) \in Nat /\ i \in 1..Len(buffer)
      /\ Size \in Nat /\ Size >= 3
  BY SizeBounds DEF IInv, Typed
<1>2. /\ Len(buffer) <= Len(stream)
      /\ \A k \in 1..Len(buffer) : buffer[k] = stream[Len(stream) - Len(buffer) + k]
  <2>1. DOMAIN buffer = 1..Len(buffer)
    BY <1>1
  <2>2. /\ Len(buffer) = IF Len(stream) > Capacity THEN Capacity ELSE Len(stream)
        /\ \A k \in DOMAIN buffer : buffer[k] = stream[Len(stream) - Len(buffer) + k]
    BY DEF IInv, BufferIsNewest
  <2>3. Len(buffer) <= Len(stream)
    BY <1>1, <2>2, BufferAssumption
  <2> QED BY <2>1, <2>2, <2>3
<1>3. i + Size - 1 <= Len(buffer)
  BY DEF Fits
<1>4. j \in 1..Len(stream) /\ j + Size - 1 <= Len(stream)
  BY <1>1, <1>2, <1>3
<1>5. \A k \in 1..Size : /\ i + k - 1 \in 1..Len(buffer)
                         /\ Len(stream) - Len(buffer) + (i + k - 1) = j + k - 1
  BY <1>1, <1>3
<1>6. \A k \in 1..Size : buffer[i + k - 1] = stream[j + k - 1]
  BY <1>2, <1>5
<1> HIDE DEF j
<1>7. /\ came \in Seq(Byte) /\ Len(came) = Size
      /\ \A k \in 1..Size : came[k] = stream[j + k - 1]
  BY <1>1, <1>4, SegmentIs
<1> HIDE DEF came
<1>8. came = Window(i)
  BY <1>6, <1>7, WindowIs
<1>9. j \in DOMAIN stream
  BY <1>1, <1>4
<1> QED BY <1>8, <1>9 DEF came

\* The scan's sum leaves out one byte of what the check sum is of: without R, the
\* byte left out, the two agree.
LEMMA PlainIsCandidate ==
  ASSUME IInv, NEW i \in DOMAIN buffer, ValidAt(i), buffer[i + Size - 2] = 0
  PROVE  Candidate(i)
<1> DEFINE w == Window(i)
           scanned == SubSeq(buffer, i, i + Size - 3)
           summed == SubSeq(w, 1, Size - 1)
<1>1. /\ buffer \in Seq(Byte) /\ Len(buffer) \in Nat /\ i \in 1..Len(buffer)
      /\ Size \in Nat /\ Size >= 3
  BY SizeBounds DEF IInv, Typed
<1>2. Fits(i) /\ ParseOutcome(w) = "ok" /\ i + Size - 1 <= Len(buffer)
  BY DEF ValidAt, Fits
<1>3. /\ w \in Seq(Byte) /\ Len(w) = Size
      /\ \A k \in 1..Size : w[k] = buffer[i + k - 1]
      /\ w[1] = buffer[i]
  BY <1>2, WindowIs
<1>4. w[1] = Id /\ w[Size] = Hash(summed)
  BY <1>2, OutcomeIs
<1> HIDE DEF w
<1>5. /\ summed \in Seq(Byte) /\ Len(summed) = Size - 1
      /\ \A k \in 1..(Size - 1) : summed[k] = w[k]
  BY <1>1, <1>3, PrefixType
<1>6. /\ scanned \in Seq(Byte) /\ Len(scanned) = Size - 2
      /\ \A k \in 1..(Size - 2) : scanned[k] = buffer[i + k - 1]
  <2>1. Size - 2 \in Nat /\ i + (Size - 2) - 1 <= Len(buffer) /\ i + (Size - 2) - 1 = i + Size - 3
    BY <1>1, <1>2
  <2> QED BY <1>1, <2>1, SegmentIs
<1> HIDE DEF summed, scanned
<1>7. Len(summed) = Len(scanned) + 1 /\ \A k \in 1..Len(scanned) : summed[k] = scanned[k]
  <2>1. \A k \in 1..(Size - 2) : k \in 1..(Size - 1) /\ k \in 1..Size
    BY <1>1
  <2>2. \A k \in 1..(Size - 2) : summed[k] = scanned[k]
    BY <1>3, <1>5, <1>6, <2>1
  <2> QED BY <1>1, <1>5, <1>6, <2>2
<1>8. summed[Len(summed)] = 0
  <2>1. Size - 1 \in 1..(Size - 1) /\ Size - 1 \in 1..Size /\ i + (Size - 1) - 1 = i + Size - 2
    BY <1>1
  <2> QED BY <1>3, <1>5, <2>1
<1>9. Hash(summed) = HashStep(Hash(scanned), 0)
  BY <1>5, <1>6, <1>7, <1>8, HashOfPrefix
<1>10. Hash(scanned) \in Byte /\ 0 \in Byte
  <2>1. Len(scanned) \in 0..Len(scanned)
    BY <1>6
  <2> QED BY <1>6, <2>1, HashRecursive, FormatAssumption DEF Byte
<1>11. HashStep(Hash(scanned), 0) = Hash(scanned)
  BY <1>10, HashStepType, FormatAssumption DEF Byte
<1>12. buffer[i + Size - 1] = Hash(scanned)
  BY <1>1, <1>3, <1>4, <1>9, <1>11
<1> QED BY <1>2, <1>3, <1>4, <1>12 DEF Candidate, scanned

\* The answer of the last formPackage, while nothing was added or flushed since.
Answered ==
  /\ result.kind \in {"none", "state", "controlSumError", "notFound"}
  /\ result.bytes \in Seq(Byte)
  /\ PackageCameIn /\ PlainPackageFound

LEMMA InitAnswered == Init => Answered
  BY DEF Init, Nothing, Answered, PackageCameIn, PlainPackageFound

LEMMA FormPackageAnswered ==
  ASSUME IInv, FormPackage
  PROVE  Answered'
<1>1. buffer' = buffer /\ stream' = stream
  BY DEF FormPackage
<1>2. CASE \E i \in DOMAIN buffer : Candidate(i)
  <2>1. PICK i \in DOMAIN buffer :
          /\ Candidate(i)
          /\ result' = IF ParseOutcome(Window(i)) = "ok"
                       THEN [kind |-> "state", bytes |-> Window(i)]
                       ELSE [kind |-> ParseOutcome(Window(i)), bytes |-> <<>>]
    BY <1>2 DEF FormPackage
  <2>2. Fits(i) /\ Window(i) \in Seq(Byte)
    BY <2>1, WindowIs DEF Candidate
  <2>3. CASE ParseOutcome(Window(i)) = "ok"
    <3>1. result'.kind = "state" /\ result'.bytes = Window(i)
      BY <2>1, <2>3
    <3>2. \E j \in DOMAIN stream : SubSeq(stream, j, j + Size - 1) = result'.bytes
      BY <2>2, <3>1, WindowInStream
    <3>3. PackageCameIn'
      BY <1>1, <2>3, <3>1, <3>2 DEF PackageCameIn
    <3> QED BY <2>2, <3>1, <3>3 DEF Answered, PlainPackageFound
  <2>4. CASE ParseOutcome(Window(i)) # "ok"
    <3>1. result'.kind = "controlSumError" /\ result'.bytes = <<>>
      BY <2>1, <2>4, CandidateOutcome
    <3> QED BY <3>1 DEF Answered, PackageCameIn, PlainPackageFound
  <2> QED BY <2>3, <2>4
<1>3. CASE ~\E i \in DOMAIN buffer : Candidate(i)
  <2>1. result'.kind = "notFound" /\ result'.bytes = <<>>
    BY <1>3 DEF FormPackage
  <2>2. \A i \in DOMAIN buffer : ValidAt(i) => buffer[i + Size - 2] # 0
    BY <1>3, PlainIsCandidate
  <2>3. PlainPackageFound'
    BY <1>1, <2>2 DEF PlainPackageFound, ValidAt, Window
  <2> QED BY <2>1, <2>3 DEF Answered, PackageCameIn
<1> QED BY <1>2, <1>3

LEMMA NextAnswered == IInv /\ Answered /\ [Next]_vars => Answered'
<1> SUFFICES ASSUME IInv, Answered, [Next]_vars PROVE Answered'
  OBVIOUS
<1>1. CASE FormPackage
  BY <1>1, FormPackageAnswered
<1>2. CASE Flush
  BY <1>2 DEF Flush, Nothing, Answered, PackageCameIn, PlainPackageFound
<1>3. ASSUME NEW bytes \in Chunks, AddBytes(bytes) PROVE Answered'
  BY <1>3 DEF AddBytes, Nothing, Answered, PackageCameIn, PlainPackageFound
<1>4. CASE UNCHANGED vars
  BY <1>4 DEF vars, Answered, PackageCameIn, PlainPackageFound, ValidAt, Window
<1> QED BY <1>1, <1>2, <1>3, <1>4 DEF Next

LEMMA SpecAnswered == Spec => [](IInv /\ Answered)
  BY InitIInv, ContentIInv, InitAnswered, NextAnswered, PTL DEF Spec

\* The capacity is never exceeded, and formPackage ends in one of its three ways: a
\* candidate is never refused for its length or its id.
THEOREM BufferTypeKept == Spec => []TypeOK
<1>1. IInv /\ Answered => TypeOK
  <2> SUFFICES ASSUME IInv, Answered PROVE TypeOK
    OBVIOUS
  <2>1. Len(buffer) <= Capacity
    BY BufferAssumption DEF IInv, Typed, BufferIsNewest
  <2> QED BY <2>1 DEF IInv, Typed, Answered, TypeOK
<1> QED BY <1>1, SpecAnswered, PTL

\* A package that formPackage returns is a valid one that lies in one piece in what the
\* port delivered since the last flush, whatever was pushed out of the buffer.
THEOREM FoundCameIn == Spec => []PackageCameIn
<1>1. Answered => PackageCameIn
  BY DEF Answered
<1> QED BY <1>1, SpecAnswered, PTL

\* When formPackage finds nothing, every valid package in the buffer has an R that is
\* not zero: the byte that the scan's sum leaves out is all that it can miss one by.
THEOREM PlainFound == Spec => []PlainPackageFound
<1>1. Answered => PlainPackageFound
  BY DEF Answered
<1> QED BY <1>1, SpecAnswered, PTL
=============================================================================
