---------------------------- MODULE PackageBuffer ----------------------------
(***************************************************************************)
(* The class PackageBuffer (src/src/sdd_protocol/PackageBuffer.cpp): a     *)
(* circular buffer of the bytes that came from the port, out of which      *)
(* formPackage looks for a State package.  formPackage takes nothing out   *)
(* of the buffer; old bytes leave it when new ones push them out.          *)
(***************************************************************************)
EXTENDS PackageFormat

CONSTANTS Capacity,    \* of the circular buffer
          Chunks,      \* the byte sequences that addBytes gets
          MaxStream    \* bound: how many bytes come between two flushes

ASSUME BufferAssumption ==
  /\ Capacity \in Nat /\ MaxStream \in Nat
  /\ Chunks \subseteq Seq(Byte)

VARIABLES buffer,
          stream,      \* history: the bytes added since the last flush
          result       \* of the last formPackage

vars == <<buffer, stream, result>>

Nothing == [kind |-> "none", bytes |-> <<>>]

TypeOK ==
  /\ buffer \in Seq(Byte) /\ Len(buffer) <= Capacity
  /\ stream \in Seq(Byte)
  /\ result.kind \in {"none", "state", "controlSumError", "notFound"}
  /\ result.bytes \in Seq(Byte)

Init == buffer = <<>> /\ stream = <<>> /\ result = Nothing

\* boost::circular_buffer::insert at the end keeps the last bytes.
LastBytes(bytes, n) == SubSeq(bytes, IF Len(bytes) > n THEN Len(bytes) - n + 1 ELSE 1, Len(bytes))

MutantGrows(bytes) ==  \* a plain vector, without a capacity
  /\ Len(stream) + Len(bytes) <= MaxStream
  /\ buffer' = buffer \o bytes
  /\ stream' = stream \o bytes
  /\ result' = Nothing

MutantAtBegin(bytes) ==  \* inserted at begin()
  /\ Len(stream) + Len(bytes) <= MaxStream
  /\ buffer' = LastBytes(bytes \o buffer, Capacity)
  /\ stream' = stream \o bytes
  /\ result' = Nothing

AddBytes(bytes) ==
  /\ Len(stream) + Len(bytes) <= MaxStream
  /\ buffer' = LastBytes(buffer \o bytes, Capacity)
  /\ stream' = stream \o bytes
  /\ result' = Nothing

\* The Size bytes from place i on.
Window(i) == SubSeq(buffer, i, i + Size - 1)
MutantFits(i) == i + Size - 1 < Len(buffer)  \* not up to the last byte
Fits(i) == i + Size - 1 <= Len(buffer)

\* The test of the scan: the sum of all but the last two bytes.
Candidate(i) ==
  /\ Fits(i)
  /\ buffer[i] = Id
  /\ buffer[i + Size - 1] = Hash(SubSeq(buffer, i, i + Size - 3))

MutantFormPackage ==  \* the exact check is skipped
  /\ IF \E i \in DOMAIN buffer : Candidate(i)
     THEN \E i \in DOMAIN buffer :
            /\ Candidate(i)
            /\ \A j \in 1..(i - 1) : ~Candidate(j)
            /\ result' = [kind |-> "state", bytes |-> Window(i)]
     ELSE result' = [kind |-> "notFound", bytes |-> <<>>]
  /\ UNCHANGED <<buffer, stream>>

\* The scan ends at the first candidate; State's constructor, which has the
\* exact check, may still refuse it and throw.
FormPackage ==
  /\ IF \E i \in DOMAIN buffer : Candidate(i)
     THEN \E i \in DOMAIN buffer :
            /\ Candidate(i)
            /\ \A j \in 1..(i - 1) : ~Candidate(j)
            /\ result' = IF ParseOutcome(Window(i)) = "ok"
                         THEN [kind |-> "state", bytes |-> Window(i)]
                         ELSE [kind |-> ParseOutcome(Window(i)), bytes |-> <<>>]
     ELSE result' = [kind |-> "notFound", bytes |-> <<>>]
  /\ UNCHANGED <<buffer, stream>>

Flush ==
  /\ buffer' = <<>>
  /\ stream' = <<>>
  /\ result' = Nothing

Next == FormPackage \/ Flush \/ \E bytes \in Chunks : AddBytes(bytes)

Spec == Init /\ [][Next]_vars

-----------------------------------------------------------------------------
\* The buffer holds the newest bytes of the stream, in order and without a gap,
\* however they were cut into pieces.
BufferIsNewest ==
  /\ Len(buffer) = IF Len(stream) > Capacity THEN Capacity ELSE Len(stream)
  /\ \A i \in DOMAIN buffer : buffer[i] = stream[Len(stream) - Len(buffer) + i]

\* A package that is returned lies in one piece in what the port delivered and
\* is a valid one; formPackage never makes one out of parts of two.
PackageCameIn ==
  result.kind = "state" =>
    /\ ParseOutcome(result.bytes) = "ok"
    /\ \E i \in DOMAIN stream : SubSeq(stream, i, i + Size - 1) = result.bytes

\* "Don't find" is the answer only if no package whose R is zero is there, as
\* in test_PackageBuffer.cpp, among whatever other bytes it lies.
ValidAt(i) == i + Size - 1 <= Len(buffer) /\ ParseOutcome(Window(i)) = "ok"
PlainPackageFound ==
  result.kind = "notFound" =>
    \A i \in DOMAIN buffer : ValidAt(i) => buffer[i + Size - 2] # 0

\* ... and only if no valid package at all is there (PackageBuffer.cpp:33).
PackageFound ==
  result.kind = "notFound" => \A i \in DOMAIN buffer : ~ValidAt(i)
=============================================================================
