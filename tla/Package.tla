------------------------------- MODULE Package -------------------------------
(***************************************************************************)
(* Two packages of one kind and a line between them: a program fills the   *)
(* fields of one and sends its binary form, bytes are altered, lost or     *)
(* added on the way, and fromBinary of the other one takes what arrives.   *)
(***************************************************************************)
EXTENDS PackageFormat

CONSTANTS Values,     \* the numbers that fields are set to
          MaxDamage   \* bound: how many bytes the line damages

ASSUME ValuesAssumption == Values \subseteq Int /\ 0 \in Values

VARIABLES fields,     \* the package that is sent
          copy,       \* the package that receives
          meant,      \* history: the numbers its fields were set to
          sent,       \* history: what they were when it was sent
          wire,       \* the bytes that are under way
          alterations, losses,   \* history: what happened to them
          outcome     \* of the last fromBinary

vars == <<fields, copy, meant, sent, wire, alterations, losses, outcome>>

Setable == 2..Len(Sizes)    \* all but CC

Fields == {g \in [DOMAIN Sizes -> UNION {[1..Sizes[f] -> Byte] : f \in DOMAIN Sizes}] :
             \A f \in DOMAIN Sizes : Len(g[f]) = Sizes[f]}

TypeOK ==
  /\ fields \in Fields /\ copy \in Fields
  /\ meant \in [Setable -> Values] /\ sent \in [Setable -> Values]
  /\ wire \in Seq(Byte)
  /\ alterations \in Nat /\ losses \in Nat
  /\ outcome \in {"none", "ok", "parseError", "controlSumError"}

Init ==
  /\ fields = EmptyFields /\ copy = EmptyFields
  /\ meant = [f \in Setable |-> 0] /\ sent = meant
  /\ wire = <<>>
  /\ alterations = 0 /\ losses = 0
  /\ outcome = "none"

\* A setter: Field::fill with as many bytes as the field has.
Fill ==
  /\ wire = <<>>
  /\ \E f \in Setable, number \in Values :
       /\ fields' = [fields EXCEPT ![f] = ToBytes(number, Sizes[f])]
       /\ meant' = [meant EXCEPT ![f] = number]
  /\ UNCHANGED <<copy, sent, wire, alterations, losses, outcome>>

Send ==
  /\ wire = <<>>
  /\ wire' = ToBinary(fields)
  /\ sent' = meant
  /\ alterations' = 0 /\ losses' = 0
  /\ outcome' = "none"
  /\ UNCHANGED <<fields, copy, meant>>

Alter ==
  /\ alterations + losses < MaxDamage
  /\ \E i \in DOMAIN wire : \E b \in Byte \ {wire[i]} : wire' = ReplaceAt(wire, i, b)
  /\ alterations' = alterations + 1
  /\ UNCHANGED <<fields, copy, meant, sent, losses, outcome>>

LoseOrAdd ==
  /\ alterations + losses < MaxDamage
  /\ wire # <<>>
  /\ \/ \E i \in DOMAIN wire : wire' = RemoveAt(wire, i)
     \/ \E i \in DOMAIN wire, b \in Byte : wire' = InsertAt(wire, i, b)
  /\ losses' = losses + 1
  /\ UNCHANGED <<fields, copy, meant, sent, alterations, outcome>>

Receive ==
  /\ wire # <<>>
  /\ outcome' = ParseOutcome(wire)
  /\ copy' = IF outcome' = "ok" THEN FromBinary(copy, wire) ELSE copy
  /\ wire' = <<>>
  /\ UNCHANGED <<fields, meant, sent, alterations, losses>>

Next == Fill \/ Send \/ Alter \/ LoseOrAdd \/ Receive

Spec == Init /\ [][Next]_vars

-----------------------------------------------------------------------------
\* The numbers a getter of n bytes can return: those of an unsigned char or a short.
InType(n) == IF n = 1 THEN Byte
             ELSE {v \in -Span[n]..Span[n] : 2 * v \in -Span[n]..(Span[n] - 1)}

\* What arrives undamaged is accepted, and the getters return the numbers that were set
\* (test_package.cpp:98-113), signs included; a number its field has no room for
\* arrives as the one of the field's type that is a multiple of the span away.
RoundTrip ==
  outcome # "none" /\ alterations + losses = 0 =>
    /\ outcome = "ok"
    /\ \A f \in Setable :
         LET number == FromBytes(copy[f])
         IN  number \in InType(Sizes[f]) /\ (number - sent[f]) % Span[Sizes[f]] = 0

\* The check sum finds every single altered byte, one of its own included.
OneAlterationFound ==
  outcome # "none" /\ alterations = 1 /\ losses = 0 => outcome # "ok"

\* A byte lost or added is found by the length, whatever else was altered, and
\* a refused buffer leaves the receiving package as it was.
RefusedWithoutTrace ==
  [][Receive => IF losses = 1 THEN outcome' # "ok" /\ copy' = copy
                ELSE outcome' = "ok" \/ copy' = copy]_vars
=============================================================================
