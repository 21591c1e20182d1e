--------------------------- MODULE PackageFormat ---------------------------
(***************************************************************************)
(* The binary form of a package (src/src/serialization/, Package.cpp): the *)
(* fields one after the other, then one byte of check sum.  The first      *)
(* field, CC, is one byte long and holds the id of the kind of package;    *)
(* kinds differ only in their id and in the sizes of their fields.         *)
(***************************************************************************)
EXTENDS Integers, Sequences, SequencesExt

CONSTANTS Base,    \* the values of a byte: 256 in the code
          Id,      \* the id of this kind of package
          Sizes    \* bytes per field, CC first

ASSUME FormatAssumption ==
  /\ Base \in Nat \ {0, 1}
  /\ Id \in 0..(Base - 1)
  /\ Sizes \in Seq(Nat \ {0})
  /\ Len(Sizes) > 1 /\ Sizes[1] = 1

Byte == 0..(Base - 1)

\* The numbers that n bytes tell apart.
Span[n \in Nat] == IF n = 0 THEN 1 ELSE Base * Span[n - 1]

\* A number in the memory of n bytes: the setters hand it to Field::fill byte by
\* byte, after a conversion to short or unsigned char that drops what does not fit.
ToBytes(number, n) == [b \in 1..n |-> (number \div Span[b - 1]) % Base]

\* Field::to reads it back; a short has a sign, a byte has none.
Magnitude(bytes) ==
  LET sum[n \in 0..Len(bytes)] ==
        IF n = 0 THEN 0 ELSE sum[n - 1] + bytes[n] * Span[n - 1]
  IN  sum[Len(bytes)]
FromBytes(bytes) ==
  LET span == Span[Len(bytes)]
  IN  IF Len(bytes) > 1 /\ 2 * Magnitude(bytes) >= span THEN Magnitude(bytes) - span
      ELSE Magnitude(bytes)

\* The place of a field: Message::fromBinary and FieldsIterator count like this.
Offset[f \in 0..Len(Sizes)] == IF f = 0 THEN 0 ELSE Offset[f - 1] + Sizes[f]
Size == Offset[Len(Sizes)] + 1

\* Package::hash: an unsigned byte from which every byte is subtracted.
HashStep(sum, byte) == (sum + Base - byte) % Base
Hash(bytes) ==
  LET sum[n \in 0..Len(bytes)] == IF n = 0 THEN 0 ELSE HashStep(sum[n - 1], bytes[n])
  IN  sum[Len(bytes)]

\* A Message just made: every field holds zeros, CC the id.
EmptyFields == [f \in DOMAIN Sizes |->
                  IF f = 1 THEN <<Id>> ELSE [b \in 1..Sizes[f] |-> 0]]

\* Package::toBinary, little endian as every kind of package is.
ToBinary(fields) == LET bin == FlattenSeq(fields) IN Append(bin, Hash(bin))

MutantParseOutcome(bytes) ==  \* the last byte of data is left out of the sum
  IF Len(bytes) # Size \/ bytes[1] # Id THEN "parseError"
  ELSE IF bytes[Size] # Hash(SubSeq(bytes, 1, Size - 2)) THEN "controlSumError"
  ELSE "ok"

MutantLongOutcome(bytes) ==  \* a buffer that is too long is accepted
  IF Len(bytes) < Size \/ bytes[1] # Id THEN "parseError"
  ELSE IF bytes[Size] # Hash(SubSeq(bytes, 1, Size - 1)) THEN "controlSumError"
  ELSE "ok"

\* The two tests of Package::fromBinary, and what its failures throw.
ParseOutcome(bytes) ==
  IF Len(bytes) # Size \/ bytes[1] # Id THEN "parseError"
  ELSE IF bytes[Size] # Hash(SubSeq(bytes, 1, Size - 1)) THEN "controlSumError"
  ELSE "ok"

MutantFromBinary(fields, bytes) ==  \* start is not skipped
  [f \in DOMAIN Sizes |-> IF f = 1 THEN fields[f]
                          ELSE SubSeq(bytes, Offset[f - 1], Offset[f] - 1)]

MutantLongFields(fields, bytes) ==  \* every field takes one byte too many
  [f \in DOMAIN Sizes |-> IF f = 1 THEN fields[f]
                          ELSE SubSeq(bytes, Offset[f - 1] + 1, Offset[f] + 1)]

\* Message::fromBinary(bytes, 1): CC stays, the other fields are copied.
FromBinary(fields, bytes) ==
  [f \in DOMAIN Sizes |-> IF f = 1 THEN fields[f]
                          ELSE SubSeq(bytes, Offset[f - 1] + 1, Offset[f])]
=============================================================================
