--------------------------- MODULE PackageProofs ---------------------------
(***************************************************************************)
(* Sending a package over a line that alters, loses and adds bytes, for    *)
(* every kind of package, every range of a byte, every set of numbers and  *)
(* any amount of damage.                                                   *)
(***************************************************************************)
EXTENDS Package, PackageFormatProofs

\* While bytes are under way the package that was sent is as it was sent, and the
\* number of damages tells how far the bytes can be from its binary form.
OnTheWire ==
  wire # <<>> =>
    /\ sent = meant /\ outcome = "none"
    /\ losses = 0 => Len(wire) = Size
    /\ losses = 1 => Len(wire) # Size
    /\ alterations + losses = 0 => wire = ToBinary(fields)
    /\ alterations = 1 /\ losses = 0 =>
         \E i \in 1..Size : \E b \in Byte \ {ToBinary(fields)[i]} :
           wire = [ToBinary(fields) EXCEPT ![i] = b]

\* What was set is what the fields hold, in as many bytes as they have.
Holds ==
  /\ fields[1] = <<Id>>
  /\ \A f \in Setable : fields[f] = ToBytes(meant[f], Sizes[f])

\* After an undamaged transfer the copy holds what was sent.
Arrived ==
  outcome # "none" /\ alterations + losses = 0 =>
    outcome = "ok" /\ \A f \in Setable : copy[f] = ToBytes(sent[f], Sizes[f])

IInv == TypeOK /\ Holds /\ OnTheWire /\ Arrived /\ OneAlterationFound

-----------------------------------------------------------------------------
LEMMA FieldsAreFilled ==
  \A g : g \in Fields <=> Filled(g)
<1> SUFFICES ASSUME NEW g PROVE g \in Fields <=> Filled(g)
  OBVIOUS
<1>1. /\ DOMAIN Sizes = 1..Len(Sizes) /\ Len(Sizes) \in Nat
      /\ \A f \in 1..Len(Sizes) : Sizes[f] \in Nat \ {0}
  BY SizeBounds
<1> DEFINE Texts == UNION {[1..Sizes[f] -> Byte] : f \in DOMAIN Sizes}
<1>2. ASSUME g \in Fields PROVE Filled(g)
  <2>1. g \in [1..Len(Sizes) -> Texts] /\ \A f \in 1..Len(Sizes) : Len(g[f]) = Sizes[f]
    BY <1>1, <1>2 DEF Fields
  <2>2. Texts \subseteq Seq(Byte)
    <3> SUFFICES ASSUME NEW f \in 1..Len(Sizes), NEW s \in [1..Sizes[f] -> Byte]
                 PROVE  s \in Seq(Byte)
      BY <1>1
    <3>1. Sizes[f] \in Nat
      BY <1>1
    <3> QED BY <3>1
  <2> HIDE DEF Texts
  <2>3. g \in [1..Len(Sizes) -> Seq(Byte)]
    BY <2>1, <2>2
  <2> QED BY <1>1, <2>1, <2>3 DEF Filled
<1>3. ASSUME Filled(g) PROVE g \in Fields
  <2>1. /\ g \in Seq(Seq(Byte)) /\ Len(g) = Len(Sizes)
        /\ \A f \in 1..Len(Sizes) : Len(g[f]) = Sizes[f]
    BY <1>3 DEF Filled
  <2>2. \A f \in 1..Len(Sizes) : g[f] \in [1..Sizes[f] -> Byte]
    <3> TAKE f \in 1..Len(Sizes)
    <3>1. g[f] \in Seq(Byte) /\ Len(g[f]) = Sizes[f]
      BY <2>1
    <3> QED BY <3>1
  <2>3. \A f \in 1..Len(Sizes) : g[f] \in Texts
    BY <1>1, <2>2
  <2> HIDE DEF Texts
  <2>4. g \in [DOMAIN Sizes -> Texts]
    BY <1>1, <2>1, <2>3
  <2> QED BY <1>1, <2>1, <2>4 DEF Fields, Texts
<1> QED BY <1>2, <1>3

\* One field of a package replaced by bytes of the same number.
LEMMA FilledExcept ==
  ASSUME NEW g, Filled(g), NEW f \in 1..Len(Sizes), NEW s \in Seq(Byte), Len(s) = Sizes[f]
  PROVE  Filled([g EXCEPT ![f] = s])
<1> DEFINE h == [g EXCEPT ![f] = s]
<1>1. g \in Seq(Seq(Byte)) /\ Len(g) = Len(Sizes) /\ Len(Sizes) \in Nat
  BY SizeBounds DEF Filled
<1>2. h \in Seq(Seq(Byte)) /\ Len(h) = Len(Sizes)
  BY <1>1
<1>3. \A e \in 1..Len(Sizes) : h[e] = IF e = f THEN s ELSE g[e]
  BY <1>1
<1> HIDE DEF h
<1>4. \A e \in 1..Len(Sizes) : Len(h[e]) = Sizes[e]
  BY <1>3 DEF Filled
<1> QED BY <1>2, <1>4 DEF Filled, h

LEMMA SetableAre ==
  /\ \A f \in Setable : f \in 1..Len(Sizes) /\ f \in 2..Len(Sizes) /\ f # 1
                        /\ Sizes[f] \in Nat \ {0}
  /\ \A v \in Values : v \in Int
  BY SizeBounds, ValuesAssumption DEF Setable

LEMMA InitIInv == Init => IInv
<1> SUFFICES ASSUME Init PROVE IInv
  OBVIOUS
<1> USE DEF Init
<1>1. /\ DOMAIN Sizes = 1..Len(Sizes) /\ Len(Sizes) \in Nat /\ 1 \in 1..Len(Sizes)
      /\ Sizes[1] = 1
      /\ \A f \in 1..Len(Sizes) : Sizes[f] \in Nat \ {0}
  BY SizeBounds
<1>2. 0 \in Byte /\ Id \in Byte
  BY FormatAssumption DEF Byte
<1>3. ASSUME NEW f \in 1..Len(Sizes)
      PROVE  EmptyFields[f] \in Seq(Byte) /\ Len(EmptyFields[f]) = Sizes[f]
  <2>1. EmptyFields[f] = IF f = 1 THEN <<Id>> ELSE [b \in 1..Sizes[f] |-> 0]
    BY <1>1 DEF EmptyFields
  <2>2. CASE f = 1
    BY <1>1, <1>2, <2>1, <2>2
  <2>3. CASE f # 1
    <3>1. Sizes[f] \in Nat /\ EmptyFields[f] \in [1..Sizes[f] -> Byte]
      BY <1>1, <1>2, <2>1, <2>3
    <3> QED BY <3>1
  <2> QED BY <2>2, <2>3
<1>4. Filled(EmptyFields)
  <2>1. DOMAIN EmptyFields = 1..Len(Sizes)
    BY <1>1 DEF EmptyFields
  <2>2. EmptyFields = [f \in 1..Len(Sizes) |-> EmptyFields[f]]
    BY <1>1 DEF EmptyFields
  <2>3. EmptyFields \in [1..Len(Sizes) -> Seq(Byte)]
    BY <1>3, <2>2
  <2>4. EmptyFields \in Seq(Seq(Byte)) /\ Len(EmptyFields) = Len(Sizes)
    BY <1>1, <2>3
  <2> QED BY <1>3, <2>4 DEF Filled
<1>5. EmptyFields \in Fields
  BY <1>4, FieldsAreFilled
<1>6. meant \in [Setable -> Values] /\ \A f \in Setable : meant[f] = 0
  BY ValuesAssumption
<1>7. TypeOK
  BY <1>5, <1>6 DEF TypeOK
<1>8. Holds
  <2>1. fields[1] = <<Id>>
    BY <1>1 DEF EmptyFields
  <2>2. ASSUME NEW f \in Setable PROVE fields[f] = ToBytes(meant[f], Sizes[f])
    <3>1. fields[f] = [b \in 1..Sizes[f] |-> 0]
      BY <1>1, SetableAre DEF EmptyFields
    <3>2. \A b \in 1..Sizes[f] : (0 \div Span[b - 1]) % Base = 0
      <4> TAKE b \in 1..Sizes[f]
      <4>1. b - 1 \in Nat
        BY SetableAre
      <4>2. Span[b - 1] \in Nat \ {0} /\ Base \in Nat \ {0}
        BY <4>1, SpanRecursive, FormatAssumption
      <4>3. 0 \div Span[b - 1] = 0
        BY <4>2
      <4>4. 0 % Base = 0
        BY <4>2
      <4> QED BY <4>3, <4>4
    <3> QED BY <1>6, <3>1, <3>2 DEF ToBytes
  <2> QED BY <2>1, <2>2 DEF Holds
<1> QED BY <1>7, <1>8 DEF IInv, OnTheWire, Arrived, OneAlterationFound

LEMMA FillIInv == IInv /\ Fill => IInv'
<1> SUFFICES ASSUME IInv, Fill PROVE IInv'
  OBVIOUS
<1> USE DEF IInv
<1>1. PICK f \in Setable, number \in Values :
        /\ fields' = [fields EXCEPT ![f] = ToBytes(number, Sizes[f])]
        /\ meant' = [meant EXCEPT ![f] = number]
  BY DEF Fill
<1>2. /\ wire = <<>> /\ wire' = <<>>
      /\ copy' = copy /\ sent' = sent /\ wire' = wire
      /\ alterations' = alterations /\ losses' = losses /\ outcome' = outcome
  BY DEF Fill
<1>3. Filled(fields) /\ meant \in [Setable -> Values]
  BY FieldsAreFilled DEF TypeOK
<1>4. ToBytes(number, Sizes[f]) \in Seq(Byte) /\ Len(ToBytes(number, Sizes[f])) = Sizes[f]
  BY SetableAre, ToBytesType
<1>5. fields' \in Fields
  BY <1>1, <1>3, <1>4, SetableAre, FilledExcept, FieldsAreFilled
<1>6. meant' \in [Setable -> Values]
  BY <1>1, <1>3
<1>7. TypeOK'
  BY <1>2, <1>5, <1>6 DEF TypeOK
<1>8. Holds'
  <2>1. DOMAIN fields = 1..Len(Sizes) /\ DOMAIN meant = Setable
    BY <1>3, SizeBounds DEF Filled
  <2>2. fields'[1] = <<Id>>
    BY <1>1, <2>1, SetableAre DEF Holds
  <2>3. ASSUME NEW e \in Setable PROVE fields'[e] = ToBytes(meant'[e], Sizes[e])
    BY <1>1, <2>1, SetableAre DEF Holds
  <2> QED BY <2>2, <2>3 DEF Holds
<1> QED BY <1>2, <1>7, <1>8 DEF OnTheWire, Arrived, OneAlterationFound

LEMMA SendIInv == IInv /\ Send => IInv'
<1> SUFFICES ASSUME IInv, Send PROVE IInv'
  OBVIOUS
<1> USE DEF IInv
<1>1. /\ wire' = ToBinary(fields) /\ sent' = meant
      /\ alterations' = 0 /\ losses' = 0 /\ outcome' = "none"
      /\ fields' = fields /\ copy' = copy /\ meant' = meant
  BY DEF Send
<1>2. Filled(fields) /\ fields[1] = <<Id>>
  BY FieldsAreFilled DEF TypeOK, Holds
<1>3. ToBinary(fields) \in Seq(Byte) /\ Len(ToBinary(fields)) = Size
  BY <1>2, BinaryFormAccepted, OutcomeIs
<1>4. TypeOK' /\ Holds'
  BY <1>1, <1>3 DEF TypeOK, Holds
<1>5. OnTheWire'
  BY <1>1, <1>3 DEF OnTheWire
<1> QED BY <1>1, <1>4, <1>5 DEF Arrived, OneAlterationFound

LEMMA AlterIInv == IInv /\ Alter => IInv'
<1> SUFFICES ASSUME IInv, Alter PROVE IInv'
  OBVIOUS
<1> USE DEF IInv
<1>1. PICK i \in DOMAIN wire : \E b \in Byte \ {wire[i]} : wire' = ReplaceAt(wire, i, b)
  BY DEF Alter
<1>2. PICK b \in Byte \ {wire[i]} : wire' = [wire EXCEPT ![i] = b]
  BY <1>1 DEF ReplaceAt
<1>3. /\ alterations' = alterations + 1 /\ losses' = losses
      /\ fields' = fields /\ copy' = copy /\ meant' = meant /\ sent' = sent
      /\ outcome' = outcome
  BY DEF Alter
<1>4. /\ wire \in Seq(Byte) /\ alterations \in Nat /\ losses \in Nat
      /\ i \in 1..Len(wire) /\ wire # <<>>
  BY <1>1 DEF TypeOK
<1>5. wire' \in Seq(Byte) /\ Len(wire') = Len(wire)
  BY <1>2, <1>4
<1>6. TypeOK' /\ Holds'
  BY <1>3, <1>4, <1>5 DEF TypeOK, Holds
<1>7. OnTheWire'
  <2>1. alterations' = 1 /\ losses' = 0 => wire = ToBinary(fields) /\ Len(wire) = Size
    BY <1>3, <1>4 DEF OnTheWire
  <2>2. alterations' + losses' # 0
    BY <1>3, <1>4
  <2> QED BY <1>2, <1>3, <1>4, <1>5, <2>1, <2>2 DEF OnTheWire
<1> QED BY <1>3, <1>4, <1>6, <1>7 DEF Arrived, OneAlterationFound, OnTheWire

LEMMA LoseOrAddIInv == IInv /\ LoseOrAdd => IInv'
<1> SUFFICES ASSUME IInv, LoseOrAdd PROVE IInv'
  OBVIOUS
<1> USE DEF IInv
<1>1. PICK i \in DOMAIN wire :
        wire' = RemoveAt(wire, i) \/ \E b \in Byte : wire' = InsertAt(wire, i, b)
  BY DEF LoseOrAdd
<1>2. /\ alterations' = alterations /\ losses' = losses + 1 /\ wire # <<>>
      /\ fields' = fields /\ copy' = copy /\ meant' = meant /\ sent' = sent
      /\ outcome' = outcome
  BY DEF LoseOrAdd
<1>3. /\ wire \in Seq(Byte) /\ alterations \in Nat /\ losses \in Nat
      /\ i \in 1..Len(wire) /\ Len(wire) \in Nat
  BY <1>1 DEF TypeOK
<1> DEFINE before == SubSeq(wire, 1, i - 1)
           after == SubSeq(wire, i + 1, Len(wire))
           rest == SubSeq(wire, i, Len(wire))
<1>4. /\ before \in Seq(Byte) /\ Len(before) = i - 1
      /\ after \in Seq(Byte) /\ Len(after) = Len(wire) - i
      /\ rest \in Seq(Byte) /\ Len(rest) = Len(wire) - i + 1
  BY <1>3
<1>5. /\ wire' \in Seq(Byte)
      /\ Len(wire') = Len(wire) - 1 \/ Len(wire') = Len(wire) + 1
  <2>1. CASE wire' = RemoveAt(wire, i)
    <3>1. wire' = before \o after
      BY <2>1 DEF RemoveAt
    <3> HIDE DEF before, after
    <3> QED BY <1>3, <1>4, <3>1
  <2>2. ASSUME NEW b \in Byte, wire' = InsertAt(wire, i, b)
        PROVE  wire' \in Seq(Byte) /\ Len(wire') = Len(wire) + 1
    <3> DEFINE first == before \o <<b>>
    <3>1. wire' = first \o rest
      BY <2>2 DEF InsertAt
    <3> HIDE DEF before, after, rest
    <3>2. first \in Seq(Byte) /\ Len(first) = i
      BY <1>3, <1>4
    <3> HIDE DEF first
    <3>3. first \o rest \in Seq(Byte) /\ Len(first \o rest) = Len(first) + Len(rest)
      <4>1. first \in Seq(Byte) /\ rest \in Seq(Byte)
        BY <1>4, <3>2
      <4> QED BY <4>1
    <3>4. Len(first) + Len(rest) = Len(wire) + 1
      <4>1. Len(wire) \in Nat /\ i \in Nat
        BY <1>3
      <4>2. Len(first) = i /\ Len(rest) = Len(wire) - i + 1
        BY <1>4, <3>2
      <4> QED BY <4>1, <4>2
    <3> QED BY <3>1, <3>3, <3>4
  <2> QED BY <1>1, <2>1, <2>2
<1>6. TypeOK' /\ Holds'
  BY <1>2, <1>3, <1>5 DEF TypeOK, Holds
<1>7. losses' # 0 /\ alterations' + losses' # 0
  BY <1>2, <1>3
<1>8. OnTheWire'
  <2>1. losses' = 1 => Len(wire) = Size
    BY <1>2, <1>3 DEF OnTheWire
  <2> QED BY <1>2, <1>3, <1>5, <1>7, <2>1 DEF OnTheWire
<1> QED BY <1>6, <1>7, <1>8 DEF Arrived, OneAlterationFound

LEMMA ReceiveIInv == IInv /\ Receive => IInv'
<1> SUFFICES ASSUME IInv, Receive PROVE IInv'
  OBVIOUS
<1> USE DEF IInv
<1>1. /\ wire # <<>> /\ wire' = <<>>
      /\ outcome' = ParseOutcome(wire)
      /\ copy' = IF outcome' = "ok" THEN FromBinary(copy, wire) ELSE copy
      /\ fields' = fields /\ meant' = meant /\ sent' = sent
      /\ alterations' = alterations /\ losses' = losses
  BY DEF Receive
<1>2. /\ wire \in Seq(Byte) /\ Filled(fields) /\ Filled(copy) /\ fields[1] = <<Id>>
      /\ alterations \in Nat /\ losses \in Nat
  BY FieldsAreFilled DEF TypeOK, Holds
<1>3. outcome' \in {"ok", "parseError", "controlSumError"}
  BY <1>1 DEF ParseOutcome
<1>4. ASSUME outcome' = "ok" PROVE Filled(FromBinary(copy, wire))
  <2> DEFINE got == FromBinary(copy, wire)
  <2>1. Len(wire) = Size
    BY <1>1, <1>4, OutcomeIs
  <2>2. ASSUME NEW f \in 1..Len(Sizes)
        PROVE  got[f] \in Seq(Byte) /\ Len(got[f]) = Sizes[f]
    <3>1. CASE f = 1
      <4>1. got[f] = copy[f]
        BY <3>1, SizeBounds DEF FromBinary
      <4> QED BY <1>2, <4>1 DEF Filled
    <3>2. CASE f # 1
      <4> DEFINE lo == Offset[f - 1]
      <4>1. got[f] = SubSeq(wire, lo + 1, Offset[f])
        BY <3>2, SizeBounds DEF FromBinary
      <4>2. /\ Offset[f] = lo + Sizes[f] /\ lo \in Nat /\ Sizes[f] \in Nat
            /\ Offset[f] <= Size - 1 /\ Offset[f] \in Nat
        <5>1. f - 1 \in 0..Len(Sizes) /\ f \in 0..Len(Sizes)
          BY SizeBounds
        <5> QED BY <5>1, OffsetRecursive, SizeBounds
      <4> HIDE DEF lo
      <4>3. SubSeq(wire, lo + 1, Offset[f]) \in Seq(Byte)
            /\ Len(SubSeq(wire, lo + 1, Offset[f])) = Sizes[f]
        <5>1. wire \in Seq(Byte) /\ Offset[f] <= Len(wire)
          BY <1>2, <2>1, <4>2, SizeBounds
        <5> QED BY <4>2, <5>1
      <4> HIDE DEF got
      <4> QED BY <4>1, <4>3
    <3> QED BY <3>1, <3>2
  <2>3. got = [f \in 1..Len(Sizes) |-> got[f]]
    BY SizeBounds DEF FromBinary
  <2> HIDE DEF got
  <2>4. got \in [1..Len(Sizes) -> Seq(Byte)]
    BY <2>2, <2>3
  <2>5. got \in Seq(Seq(Byte)) /\ Len(got) = Len(Sizes)
    BY <2>4, SizeBounds
  <2> QED BY <2>2, <2>5 DEF Filled, got
<1>5. copy' \in Fields
  <2>1. Filled(copy')
    BY <1>1, <1>2, <1>4
  <2> QED BY <2>1, FieldsAreFilled
<1>6. TypeOK' /\ Holds'
  BY <1>1, <1>3, <1>5 DEF TypeOK, Holds
<1>7. OnTheWire'
  BY <1>1 DEF OnTheWire
<1>8. Arrived'
  <2> SUFFICES ASSUME alterations + losses = 0
               PROVE  outcome' = "ok" /\ \A f \in Setable : copy'[f] = ToBytes(sent'[f], Sizes[f])
    BY <1>1 DEF Arrived
  <2>1. wire = ToBinary(fields) /\ sent = meant
    BY <1>1 DEF OnTheWire
  <2>2. outcome' = "ok"
    BY <1>1, <1>2, <2>1, BinaryFormAccepted
  <2>3. \A f \in 2..Len(Sizes) : FromBinary(copy, wire)[f] = fields[f]
    BY <1>2, <2>1, BinaryFormAccepted
  <2> QED BY <1>1, <2>1, <2>2, <2>3 DEF Holds, Setable
<1>9. OneAlterationFound'
  <2> SUFFICES ASSUME alterations = 1, losses = 0 PROVE outcome' # "ok"
    BY <1>1 DEF OneAlterationFound
  <2> DEFINE whole == ToBinary(fields)
  <2>1. PICK i \in 1..Size :
          \E b \in Byte \ {whole[i]} : wire = [whole EXCEPT ![i] = b]
    BY <1>1 DEF OnTheWire
  <2>2. whole \in Seq(Byte) /\ ParseOutcome(whole) = "ok"
    BY <1>2, BinaryFormAccepted
  <2> HIDE DEF whole
  <2>3. ParseOutcome(wire) # "ok"
    BY <2>1, <2>2, OneByteRefused
  <2> QED BY <1>1, <2>3
<1> QED BY <1>6, <1>7, <1>8, <1>9

LEMMA NextIInv == IInv /\ [Next]_vars => IInv'
<1> SUFFICES ASSUME IInv, [Next]_vars PROVE IInv'
  OBVIOUS
<1>1. CASE Fill
  BY <1>1, FillIInv
<1>2. CASE Send
  BY <1>2, SendIInv
<1>3. CASE Alter
  BY <1>3, AlterIInv
<1>4. CASE LoseOrAdd
  BY <1>4, LoseOrAddIInv
<1>5. CASE Receive
  BY <1>5, ReceiveIInv
<1>6. CASE UNCHANGED vars
  BY <1>6 DEF vars, IInv, TypeOK, Holds, OnTheWire, Arrived, OneAlterationFound
<1> QED BY <1>1, <1>2, <1>3, <1>4, <1>5, <1>6 DEF Next

LEMMA SpecIInv == Spec => []IInv
  BY InitIInv, NextIInv, PTL DEF Spec

-----------------------------------------------------------------------------
\* Both packages keep the form of their kind, whatever arrives: a buffer that is
\* accepted never changes how many bytes a field has.
THEOREM FormKept == Spec => []TypeOK
<1>1. IInv => TypeOK
  BY DEF IInv
<1> QED BY <1>1, SpecIInv, PTL

\* What arrives undamaged is accepted, and each getter returns a number of its type
\* that differs from the one the setter was given by a multiple of the field's span.
THEOREM NumbersArrive == Spec => []RoundTrip
<1>1. IInv => RoundTrip
  <2> SUFFICES ASSUME IInv, outcome # "none", alterations + losses = 0, NEW f \in Setable
               PROVE  /\ FromBytes(copy[f]) \in InType(Sizes[f])
                      /\ (FromBytes(copy[f]) - sent[f]) % Span[Sizes[f]] = 0
    BY DEF RoundTrip, IInv, Arrived
  <2> DEFINE got == FromBytes(copy[f])
  <2>1. copy[f] = ToBytes(sent[f], Sizes[f])
    BY DEF IInv, Arrived
  <2>2. sent[f] \in Int /\ Sizes[f] \in Nat \ {0}
    BY SetableAre DEF IInv, TypeOK
  <2>3. /\ got \in Int /\ (got - sent[f]) % Span[Sizes[f]] = 0
        /\ Sizes[f] = 1 => got \in Byte
        /\ Sizes[f] > 1 => 2 * got \in -Span[Sizes[f]]..(Span[Sizes[f]] - 1)
    BY <2>1, <2>2, NumberThere
  <2>4. Span[Sizes[f]] \in Nat \ {0}
    BY <2>2, SpanRecursive
  <2>5. got \in InType(Sizes[f])
    BY <2>2, <2>3, <2>4 DEF InType
  <2> QED BY <2>3, <2>5
<1> QED BY <1>1, SpecIInv, PTL

\* The check sum finds every single altered byte, wherever it is: no alteration of one
\* byte turns a package into another valid one.
THEOREM AlterationFound == Spec => []OneAlterationFound
<1>1. IInv => OneAlterationFound
  BY DEF IInv
<1> QED BY <1>1, SpecIInv, PTL

\* A lost or an added byte is always noticed, and a refused buffer leaves the receiving
\* package untouched.
THEOREM NoTraceOfRefused == Spec => RefusedWithoutTrace
<1>1. IInv /\ [Next]_vars =>
        [Receive => IF losses = 1 THEN outcome' # "ok" /\ copy' = copy
                    ELSE outcome' = "ok" \/ copy' = copy]_vars
  <2> SUFFICES ASSUME IInv, Receive
               PROVE  IF losses = 1 THEN outcome' # "ok" /\ copy' = copy
                      ELSE outcome' = "ok" \/ copy' = copy
    OBVIOUS
  <2>1. /\ wire # <<>> /\ outcome' = ParseOutcome(wire)
        /\ copy' = IF outcome' = "ok" THEN FromBinary(copy, wire) ELSE copy
    BY DEF Receive
  <2>2. losses = 1 => Len(wire) # Size
    BY <2>1 DEF IInv, OnTheWire
  <2>3. losses = 1 => outcome' # "ok"
    BY <2>1, <2>2, OutcomeIs
  <2> QED BY <2>1, <2>3
<1> QED BY <1>1, SpecIInv, PTL DEF Spec, RefusedWithoutTrace
=============================================================================
