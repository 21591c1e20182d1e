------------------------ MODULE PackageFormatProofs ------------------------
(***************************************************************************)
(* What the operators of the binary form compute, for every byte range,    *)
(* id and table of sizes.  Each recursive function is first shown to be    *)
(* the one its equation names (RecursionTo), then its values are reasoned  *)
(* about by induction over the prefixes of a sequence (Induction).         *)
(***************************************************************************)
EXTENDS PackageFormat, WellFoundedInduction, TLAPS

\* Induction, in the form that needs no operator: over a set of numbers.
LEMMA Induction ==
  ASSUME NEW S, 0 \in S, \A n \in Nat : n \in S => n + 1 \in S
  PROVE  \A n \in Nat : n \in S
<1> SUFFICES ASSUME NEW n \in Nat, n \notin S PROVE FALSE
  OBVIOUS
<1> DEFINE T == {k \in Nat : k \notin S}
           R == OpToRel(<, Nat)
<1>1. IsWellFoundedOn(R, Nat)
  BY NatLessThanWellFounded, Zenon
<1>2. \A x, y \in Nat : y < x => <<y, x>> \in R
  BY Zenon DEF OpToRel
<1>3. T \subseteq Nat /\ T # {}
  OBVIOUS
<1> HIDE DEF R
<1>4. PICK x \in T : \A y \in T : ~ (<<y, x>> \in R)
  <2> HIDE DEF T
  <2> QED BY <1>1, <1>3, WFMin
<1>5. x # 0 /\ x - 1 \in Nat /\ x - 1 < x
  OBVIOUS
<1>6. x - 1 \in S
  BY <1>2, <1>4, <1>5
<1> QED BY <1>4, <1>5, <1>6

\* g is the function on places that starts with base at the first of them and
\* gets each next value from the one before by the table step.
Unfolds(g, places, lo, base, step) ==
  g = [k \in places |-> IF k = lo THEN base ELSE step[<<k, g[k - 1]>>]]

\* Up to any bound there is such a function.
LEMMA RecursionTo ==
  ASSUME NEW lo \in Nat, NEW S, NEW base \in S,
         NEW step \in [Nat \X S -> S], NEW n \in Nat, lo <= n
  PROVE  \E g \in [lo..n -> S] : Unfolds(g, lo..n, lo, base, step)
<1> DEFINE Upto(m) == \E g \in [lo..m -> S] :
             g = [k \in lo..m |-> IF k = lo THEN base ELSE step[<<k, g[k - 1]>>]]
           Good == {m \in Nat : Upto(lo + m)}
<1>1. 0 \in Good
  <2> DEFINE g == [k \in lo..(lo + 0) |-> base]
  <2>1. g = [k \in lo..(lo + 0) |-> IF k = lo THEN base ELSE step[<<k, g[k - 1]>>]]
    OBVIOUS
  <2>2. g \in [lo..(lo + 0) -> S]
    OBVIOUS
  <2> QED BY <2>1, <2>2
<1>2. ASSUME NEW m \in Nat, m \in Good PROVE m + 1 \in Good
  <2>1. PICK g \in [lo..(lo + m) -> S] :
          g = [k \in lo..(lo + m) |-> IF k = lo THEN base ELSE step[<<k, g[k - 1]>>]]
    BY <1>2
  <2> DEFINE h == [k \in lo..(lo + (m + 1)) |-> IF k <= lo + m THEN g[k]
                                               ELSE step[<<k, g[k - 1]>>]]
  <2>2. \A k \in lo..(lo + (m + 1)) : k <= lo + m => k \in lo..(lo + m)
    OBVIOUS
  <2>3. \A k \in lo..(lo + (m + 1)) :
          ~(k <= lo + m) => k = lo + m + 1 /\ k - 1 \in lo..(lo + m) /\ k # lo /\ k \in Nat
    OBVIOUS
  <2>4. h \in [lo..(lo + (m + 1)) -> S]
    <3> SUFFICES ASSUME NEW k \in lo..(lo + (m + 1)) PROVE h[k] \in S
      OBVIOUS
    <3>1. CASE k <= lo + m
      BY <3>1, <2>2, <2>1
    <3>2. CASE ~(k <= lo + m)
      <4>1. <<k, g[k - 1]>> \in Nat \X S
        BY <3>2, <2>3, <2>1
      <4> QED BY <3>2, <4>1
    <3> QED BY <3>1, <3>2
  <2>5. ASSUME NEW k \in lo..(lo + (m + 1))
        PROVE  h[k] = IF k = lo THEN base ELSE step[<<k, h[k - 1]>>]
    <3>1. CASE k <= lo + m
      <4>1. h[k] = g[k] /\ k \in lo..(lo + m)
        BY <3>1, <2>2
      <4>2. g[k] = IF k = lo THEN base ELSE step[<<k, g[k - 1]>>]
        BY <4>1, <2>1
      <4>3. CASE k # lo
        <5>1. k - 1 \in lo..(lo + (m + 1)) /\ k - 1 <= lo + m
          BY <4>3, <3>1
        <5>2. h[k - 1] = g[k - 1]
          BY <5>1
        <5> QED BY <4>1, <4>2, <5>2
      <4> QED BY <4>1, <4>2, <4>3
    <3>2. CASE ~(k <= lo + m)
      <4>1. k - 1 \in lo..(lo + (m + 1)) /\ k - 1 <= lo + m /\ k # lo
        BY <3>2
      <4>2. h[k - 1] = g[k - 1]
        BY <4>1
      <4> QED BY <3>2, <4>1, <4>2
    <3> QED BY <3>1, <3>2
  <2>6. h = [k \in lo..(lo + (m + 1)) |-> IF k = lo THEN base ELSE step[<<k, h[k - 1]>>]]
    <3> HIDE DEF h
    <3>1. DOMAIN h = lo..(lo + (m + 1)) /\ h = [k \in DOMAIN h |-> h[k]]
      BY <2>4
    <3> QED BY <3>1, <2>5, Zenon
  <2> HIDE DEF h
  <2>7. Upto(lo + (m + 1))
    BY <2>4, <2>6
  <2> HIDE DEF Upto
  <2> QED BY <2>7
<1>3. n - lo \in Nat /\ lo + (n - lo) = n
  OBVIOUS
<1> HIDE DEF Upto
<1>4. \A m \in Nat : m \in Good => m + 1 \in Good
  BY <1>2
<1>5. \A m \in Nat : m \in Good
  <2> HIDE DEF Good
  <2> QED BY <1>1, <1>4, Induction
<1>6. Upto(lo + (n - lo))
  BY <1>3, <1>5
<1>7. Upto(n)
  BY <1>3, <1>6
<1> QED BY <1>7 DEF Upto, Unfolds

\* The same without a bound.
LEMMA RecursionOnNat ==
  ASSUME NEW S, NEW base \in S, NEW step \in [Nat \X S -> S]
  PROVE  \E g \in [Nat -> S] : Unfolds(g, Nat, 0, base, step)
<1> DEFINE Is(n, g) == Unfolds(g, 0..n, 0, base, step)
           H == [n \in Nat |-> CHOOSE g \in [0..n -> S] : Is(n, g)]
           Same == {k \in Nat : \A n \in Nat : k <= n => H[n][k] = H[k][k]}
           all == [k \in Nat |-> H[k][k]]
<1>1. ASSUME NEW n \in Nat PROVE H[n] \in [0..n -> S] /\ Is(n, H[n])
  <2>1. \E g \in [0..n -> S] : Is(n, g)
    <3>1. 0 \in Nat /\ 0 <= n
      OBVIOUS
    <3> QED BY <3>1, RecursionTo
  <2> HIDE DEF Is
  <2> QED BY <2>1
<1> HIDE DEF H
<1>2. ASSUME NEW n \in Nat, NEW k \in 0..n
      PROVE  /\ H[n][k] = IF k = 0 THEN base ELSE step[<<k, H[n][k - 1]>>]
             /\ H[n][k] \in S
  BY <1>1, Zenon DEF Unfolds
<1>3. 0 \in Same
  <2>1. ASSUME NEW n \in Nat PROVE H[n][0] = base
    <3>1. 0 \in 0..n
      OBVIOUS
    <3> QED BY <1>2, <3>1
  <2>2. \A n \in Nat : H[n][0] = H[0][0]
    BY <2>1
  <2> QED BY <2>2
<1>4. ASSUME NEW k \in Nat, k \in Same PROVE k + 1 \in Same
  <2> SUFFICES ASSUME NEW n \in Nat, k + 1 <= n PROVE H[n][k + 1] = H[k + 1][k + 1]
    OBVIOUS
  <2>1. H[n][k] = H[k][k] /\ H[k + 1][k] = H[k][k]
    BY <1>4
  <2>2. k + 1 \in 0..n /\ k + 1 \in 0..(k + 1) /\ k + 1 # 0 /\ (k + 1) - 1 = k
    OBVIOUS
  <2>3. H[n][k + 1] = step[<<k + 1, H[n][k]>>]
    BY <1>2, <2>2
  <2>4. H[k + 1][k + 1] = step[<<k + 1, H[k + 1][k]>>]
    BY <1>2, <2>2
  <2> QED BY <2>1, <2>3, <2>4
<1>5. \A k \in Nat : k \in Same
  <2>1. \A k \in Nat : k \in Same => k + 1 \in Same
    BY <1>4
  <2> HIDE DEF Same
  <2> QED BY <1>3, <2>1, Induction
<1>6. all \in [Nat -> S]
  <2>1. \A k \in Nat : k \in 0..k
    OBVIOUS
  <2> QED BY <1>2, <2>1
<1>7. ASSUME NEW k \in Nat
      PROVE  all[k] = IF k = 0 THEN base ELSE step[<<k, all[k - 1]>>]
  <2>1. CASE k = 0
    <3>1. k \in 0..k /\ all[k] = H[k][k]
      OBVIOUS
    <3> QED BY <2>1, <3>1, <1>2
  <2>2. CASE k # 0
    <3>1. k - 1 \in Nat /\ k - 1 <= k /\ k \in 0..k
      BY <2>2
    <3>2. H[k][k - 1] = H[k - 1][k - 1]
      BY <1>5, <3>1
    <3>3. H[k][k] = step[<<k, H[k][k - 1]>>]
      BY <1>2, <2>2, <3>1
    <3> QED BY <2>2, <3>1, <3>2, <3>3
  <2> QED BY <2>1, <2>2
<1>8. all = [k \in Nat |-> IF k = 0 THEN base ELSE step[<<k, all[k - 1]>>]]
  <2> HIDE DEF all
  <2>1. DOMAIN all = Nat /\ all = [k \in DOMAIN all |-> all[k]]
    BY <1>6
  <2> QED BY <2>1, <1>7, Zenon
<1> HIDE DEF all
<1> QED BY <1>6, <1>8 DEF Unfolds

-----------------------------------------------------------------------------
(* Powers and places.                                                      *)

LEMMA SpanRecursive ==
  /\ Span \in [Nat -> Nat \ {0}]
  /\ Span[0] = 1
  /\ \A n \in Nat : Span[n + 1] = Base * Span[n]
<1> DEFINE S == Nat \ {0}
           step == [p \in Nat \X S |-> Base * p[2]]
<1>1. step \in [Nat \X S -> S]
  BY FormatAssumption
<1>2. PICK g \in [Nat -> S] : Unfolds(g, Nat, 0, 1, step)
  <2> HIDE DEF S, step
  <2>1. 1 \in S
    BY DEF S
  <2> QED BY <1>1, <2>1, RecursionOnNat
<1>3. g = [k \in Nat |-> IF k = 0 THEN 1 ELSE Base * g[k - 1]]
  <2> USE DEF Unfolds
  <2>1. ASSUME NEW k \in Nat
        PROVE  g[k] = IF k = 0 THEN 1 ELSE Base * g[k - 1]
    <3>1. CASE k = 0
      BY <1>2, <3>1
    <3>2. CASE k # 0
      <4>1. k - 1 \in Nat
        BY <3>2
      <4>2. step[<<k, g[k - 1]>>] = Base * g[k - 1]
        BY <4>1, <1>2
      <4> HIDE DEF step
      <4> QED BY <3>2, <4>2, <1>2
    <3> QED BY <3>1, <3>2
  <2>2. DOMAIN g = Nat /\ g = [k \in DOMAIN g |-> g[k]]
    BY <1>2
  <2> QED BY <2>1, <2>2, Zenon
<1>4. Span = [k \in Nat |-> IF k = 0 THEN 1 ELSE Base * Span[k - 1]]
  BY <1>3, Zenon DEF Span
<1>5. \A k \in Nat : Span[k] = IF k = 0 THEN 1 ELSE Base * Span[k - 1]
  BY <1>4, Zenon
<1> DEFINE Good == {k \in Nat : Span[k] \in Nat \ {0}}
<1>6. 0 \in Good
  BY <1>5
<1>7. ASSUME NEW k \in Nat PROVE Span[k + 1] = Base * Span[k]
  <2>1. k + 1 \in Nat /\ k + 1 # 0 /\ (k + 1) - 1 = k
    OBVIOUS
  <2> QED BY <1>5, <2>1
<1>8. \A k \in Nat : k \in Good => k + 1 \in Good
  <2> SUFFICES ASSUME NEW k \in Nat, Span[k] \in Nat \ {0}
               PROVE  Span[k + 1] \in Nat \ {0}
    OBVIOUS
  <2>1. Span[k + 1] = Base * Span[k]
    BY <1>7
  <2>2. \A x, y \in Nat \ {0} : x * y \in Nat \ {0}
    OBVIOUS
  <2>3. Base \in Nat \ {0}
    BY FormatAssumption
  <2> QED BY <2>1, <2>2, <2>3
<1>9. \A k \in Nat : k \in Good
  <2> HIDE DEF Good
  <2> QED BY <1>6, <1>8, Induction
<1> QED BY <1>4, <1>5, <1>7, <1>9

LEMMA OffsetRecursive ==
  /\ Offset \in [0..Len(Sizes) -> Nat]
  /\ Offset[0] = 0
  /\ \A f \in 1..Len(Sizes) : Offset[f] = Offset[f - 1] + Sizes[f]
<1> DEFINE step == [p \in Nat \X Nat |-> IF p[1] \in 1..Len(Sizes) THEN p[2] + Sizes[p[1]]
                                         ELSE 0]
<1>1. Len(Sizes) \in Nat /\ 0 <= Len(Sizes) /\ \A f \in 1..Len(Sizes) : Sizes[f] \in Nat
  BY FormatAssumption
<1>2. step \in [Nat \X Nat -> Nat]
  BY <1>1
<1>3. PICK g \in [0..Len(Sizes) -> Nat] : Unfolds(g, 0..Len(Sizes), 0, 0, step)
  <2> HIDE DEF step
  <2> QED BY <1>1, <1>2, RecursionTo
<1>4. g = [f \in 0..Len(Sizes) |-> IF f = 0 THEN 0 ELSE g[f - 1] + Sizes[f]]
  <2>1. ASSUME NEW f \in 0..Len(Sizes)
        PROVE  g[f] = IF f = 0 THEN 0 ELSE g[f - 1] + Sizes[f]
    <3>1. g[f] = IF f = 0 THEN 0 ELSE step[<<f, g[f - 1]>>]
      BY <1>3, Zenon DEF Unfolds
    <3>2. CASE f # 0
      <4>1. f \in 1..Len(Sizes) /\ f \in Nat /\ f - 1 \in 0..Len(Sizes)
        BY <3>2, <1>1
      <4>2. step[<<f, g[f - 1]>>] = g[f - 1] + Sizes[f]
        BY <4>1, <1>3
      <4> QED BY <3>1, <3>2, <4>2
    <3> QED BY <3>1, <3>2
  <2>2. DOMAIN g = 0..Len(Sizes) /\ g = [f \in DOMAIN g |-> g[f]]
    BY <1>3
  <2> QED BY <2>1, <2>2, Zenon
<1>5. Offset = [f \in 0..Len(Sizes) |-> IF f = 0 THEN 0 ELSE Offset[f - 1] + Sizes[f]]
  BY <1>4, Zenon DEF Offset
<1> DEFINE Good == {k \in Nat : k <= Len(Sizes) => Offset[k] \in Nat}
<1>6. 0 \in Good /\ Offset[0] = 0
  <2>1. 0 \in 0..Len(Sizes)
    BY <1>1
  <2> QED BY <1>5, <2>1
<1>7. ASSUME NEW f \in 1..Len(Sizes) PROVE Offset[f] = Offset[f - 1] + Sizes[f]
  <2>1. f \in 0..Len(Sizes) /\ f # 0
    BY <1>1
  <2> QED BY <1>5, <2>1
<1>8. ASSUME NEW k \in Nat, k \in Good PROVE k + 1 \in Good
  <2> SUFFICES ASSUME k + 1 <= Len(Sizes) PROVE Offset[k + 1] \in Nat
    OBVIOUS
  <2>1. k + 1 \in 1..Len(Sizes) /\ (k + 1) - 1 = k /\ k <= Len(Sizes)
    BY <1>1
  <2> QED BY <1>1, <1>7, <1>8, <2>1
<1>9. \A k \in Nat : k \in Good
  <2>1. \A k \in Nat : k \in Good => k + 1 \in Good
    BY <1>8
  <2> HIDE DEF Good
  <2> QED BY <1>6, <2>1, Induction
<1>10. DOMAIN Offset = 0..Len(Sizes) /\ \A f \in 0..Len(Sizes) : Offset[f] \in Nat
  BY <1>1, <1>5, <1>9
<1> QED BY <1>5, <1>6, <1>7, <1>10

LEMMA OffsetMonotone ==
  \A f, g \in 0..Len(Sizes) : f <= g => Offset[f] <= Offset[g]
<1> SUFFICES ASSUME NEW f \in 0..Len(Sizes)
             PROVE  \A g \in 0..Len(Sizes) : f <= g => Offset[f] <= Offset[g]
  OBVIOUS
<1>1. Len(Sizes) \in Nat /\ \A g \in 1..Len(Sizes) : Sizes[g] \in Nat
  BY FormatAssumption
<1> DEFINE Good == {k \in Nat : f + k <= Len(Sizes) => Offset[f] <= Offset[f + k]}
<1>2. 0 \in Good
  BY <1>1, OffsetRecursive
<1>3. ASSUME NEW k \in Nat, k \in Good PROVE k + 1 \in Good
  <2> SUFFICES ASSUME f + (k + 1) <= Len(Sizes) PROVE Offset[f] <= Offset[f + (k + 1)]
    OBVIOUS
  <2>1. /\ f + (k + 1) \in 1..Len(Sizes) /\ f + k \in 0..Len(Sizes)
        /\ (f + (k + 1)) - 1 = f + k
    BY <1>1
  <2>2. Offset[f] <= Offset[f + k]
    BY <1>3, <2>1, <1>1
  <2>3. Offset[f + (k + 1)] = Offset[f + k] + Sizes[f + (k + 1)]
    BY <2>1, OffsetRecursive
  <2>4. /\ Offset[f] \in Nat /\ Offset[f + k] \in Nat /\ Sizes[f + (k + 1)] \in Nat
    BY <1>1, <2>1, OffsetRecursive
  <2> QED BY <2>2, <2>3, <2>4
<1>4. \A k \in Nat : k \in Good
  <2>1. \A k \in Nat : k \in Good => k + 1 \in Good
    BY <1>3
  <2> HIDE DEF Good
  <2> QED BY <1>2, <2>1, Induction
<1> TAKE g \in 0..Len(Sizes)
<1> HAVE f <= g
<1>5. g - f \in Nat /\ f + (g - f) = g
  BY <1>1
<1>6. g - f \in Good
  BY <1>4, <1>5
<1> QED BY <1>1, <1>5, <1>6

\* CC, at least one more field and the check sum.
LEMMA SizeBounds ==
  /\ Len(Sizes) \in Nat /\ Len(Sizes) > 1
  /\ DOMAIN Sizes = 1..Len(Sizes)
  /\ \A f \in 1..Len(Sizes) : Sizes[f] \in Nat \ {0}
  /\ Sizes[1] = 1 /\ Offset[1] = 1
  /\ Size \in Nat /\ Size >= 3
  /\ \A f \in 0..Len(Sizes) : Offset[f] \in Nat /\ Offset[f] <= Size - 1
<1>1. /\ Len(Sizes) \in Nat /\ Len(Sizes) > 1
      /\ DOMAIN Sizes = 1..Len(Sizes)
      /\ \A f \in 1..Len(Sizes) : Sizes[f] \in Nat \ {0}
      /\ Sizes[1] = 1
  BY FormatAssumption
<1>2. 1 \in 1..Len(Sizes) /\ 2 \in 1..Len(Sizes) /\ Len(Sizes) \in 0..Len(Sizes)
  BY <1>1
<1>3. Offset[1] = 1
  BY <1>1, <1>2, OffsetRecursive
<1>4. Offset[2] = 1 + Sizes[2]
  BY <1>2, <1>3, OffsetRecursive
<1>5. Offset[2] <= Offset[Len(Sizes)] /\ Offset[Len(Sizes)] \in Nat
  BY <1>1, <1>2, OffsetMonotone, OffsetRecursive
<1>6. Size = Offset[Len(Sizes)] + 1 /\ Size \in Nat
  BY <1>5 DEF Size
<1>7. Size >= 3
  BY <1>1, <1>2, <1>4, <1>5, <1>6
<1>8. \A f \in 0..Len(Sizes) : Offset[f] \in Nat /\ Offset[f] <= Size - 1
  BY <1>1, <1>2, <1>6, OffsetMonotone, OffsetRecursive
<1> QED BY <1>1, <1>3, <1>6, <1>7, <1>8

-----------------------------------------------------------------------------
(* The check sum.                                                          *)

LEMMA HashStepType ==
  ASSUME NEW sum \in Byte, NEW byte \in Byte
  PROVE  /\ HashStep(sum, byte) \in Byte
         /\ HashStep(sum, byte) = IF sum >= byte THEN sum - byte ELSE sum + Base - byte
<1>1. Base \in Nat /\ Base > 1 /\ sum \in Nat /\ byte \in Nat /\ sum < Base /\ byte < Base
  BY FormatAssumption DEF Byte
<1>2. ASSUME NEW n \in Nat, n < Base PROVE n % Base = n /\ (n + Base) % Base = n
  BY <1>1, <1>2
<1>3. CASE sum >= byte
  <2>1. sum - byte \in Nat /\ sum - byte < Base /\ sum + Base - byte = (sum - byte) + Base
    BY <1>1, <1>3
  <2>2. (sum + Base - byte) % Base = sum - byte
    BY <1>2, <2>1
  <2> QED BY <1>1, <1>3, <2>1, <2>2 DEF HashStep, Byte
<1>4. CASE sum < byte
  <2>1. sum + Base - byte \in Nat /\ sum + Base - byte < Base
    BY <1>1, <1>4
  <2>2. (sum + Base - byte) % Base = sum + Base - byte
    BY <1>2, <2>1
  <2> QED BY <1>1, <1>4, <2>1, <2>2 DEF HashStep, Byte
<1> QED BY <1>1, <1>3, <1>4

\* A step keeps two sums apart, and two bytes.
LEMMA HashStepOneToOne ==
  /\ \A a, b, byte \in Byte : a # b => HashStep(a, byte) # HashStep(b, byte)
  /\ \A sum, a, b \in Byte : a # b => HashStep(sum, a) # HashStep(sum, b)
<1>1. Base \in Nat /\ \A x \in Byte : x \in Nat /\ x < Base
  BY FormatAssumption DEF Byte
<1> QED BY <1>1, HashStepType

\* The sums of the prefixes of bytes, as Hash goes through them.
Sums(bytes) ==
  CHOOSE sum : sum = [n \in 0..Len(bytes) |->
                        IF n = 0 THEN 0 ELSE HashStep(sum[n - 1], bytes[n])]

LEMMA HashRecursive ==
  ASSUME NEW bytes \in Seq(Byte)
  PROVE  /\ Hash(bytes) = Sums(bytes)[Len(bytes)]
         /\ Sums(bytes) \in [0..Len(bytes) -> Byte]
         /\ Sums(bytes)[0] = 0
         /\ \A n \in 1..Len(bytes) :
              Sums(bytes)[n] = HashStep(Sums(bytes)[n - 1], bytes[n])
<1> DEFINE step == [p \in Nat \X Byte |-> IF p[1] \in 1..Len(bytes)
                                          THEN HashStep(p[2], bytes[p[1]]) ELSE 0]
<1>1. /\ Len(bytes) \in Nat /\ 0 <= Len(bytes) /\ 0 \in Byte
      /\ \A n \in 1..Len(bytes) : bytes[n] \in Byte
  BY FormatAssumption DEF Byte
<1>2. step \in [Nat \X Byte -> Byte]
  BY <1>1, HashStepType
<1>3. PICK g \in [0..Len(bytes) -> Byte] : Unfolds(g, 0..Len(bytes), 0, 0, step)
  <2> HIDE DEF step
  <2> QED BY <1>1, <1>2, RecursionTo
<1>4. g = [n \in 0..Len(bytes) |-> IF n = 0 THEN 0 ELSE HashStep(g[n - 1], bytes[n])]
  <2>1. ASSUME NEW n \in 0..Len(bytes)
        PROVE  g[n] = IF n = 0 THEN 0 ELSE HashStep(g[n - 1], bytes[n])
    <3>1. g[n] = IF n = 0 THEN 0 ELSE step[<<n, g[n - 1]>>]
      BY <1>3, Zenon DEF Unfolds
    <3>2. CASE n # 0
      <4>1. n \in 1..Len(bytes) /\ n \in Nat /\ n - 1 \in 0..Len(bytes)
        BY <3>2, <1>1
      <4>2. step[<<n, g[n - 1]>>] = HashStep(g[n - 1], bytes[n])
        BY <4>1, <1>3
      <4> QED BY <3>1, <3>2, <4>2
    <3> QED BY <3>1, <3>2
  <2>2. DOMAIN g = 0..Len(bytes) /\ g = [n \in DOMAIN g |-> g[n]]
    BY <1>3
  <2> QED BY <2>1, <2>2, Zenon
<1>5. Sums(bytes) = [n \in 0..Len(bytes) |->
                       IF n = 0 THEN 0 ELSE HashStep(Sums(bytes)[n - 1], bytes[n])]
  BY <1>4, Zenon DEF Sums
<1> DEFINE Good == {k \in Nat : k <= Len(bytes) => Sums(bytes)[k] \in Byte}
<1>6. 0 \in Good /\ Sums(bytes)[0] = 0
  <2>1. 0 \in 0..Len(bytes)
    BY <1>1
  <2>2. Sums(bytes)[0] = 0
    BY <1>5, <2>1
  <2> QED BY <1>1, <2>2
<1>7. ASSUME NEW n \in 1..Len(bytes)
      PROVE  Sums(bytes)[n] = HashStep(Sums(bytes)[n - 1], bytes[n])
  <2>1. n \in 0..Len(bytes) /\ n # 0
    BY <1>1
  <2> QED BY <1>5, <2>1
<1>8. ASSUME NEW k \in Nat, k \in Good PROVE k + 1 \in Good
  <2> SUFFICES ASSUME k + 1 <= Len(bytes) PROVE Sums(bytes)[k + 1] \in Byte
    OBVIOUS
  <2>1. k + 1 \in 1..Len(bytes) /\ (k + 1) - 1 = k /\ k <= Len(bytes)
    BY <1>1
  <2>2. Sums(bytes)[k] \in Byte /\ bytes[k + 1] \in Byte
    BY <1>1, <1>8, <2>1
  <2>3. Sums(bytes)[k + 1] = HashStep(Sums(bytes)[k], bytes[k + 1])
    BY <1>7, <2>1
  <2> QED BY <2>2, <2>3, HashStepType
<1>9. \A k \in Nat : k \in Good
  <2>1. \A k \in Nat : k \in Good => k + 1 \in Good
    BY <1>8
  <2> HIDE DEF Good
  <2> QED BY <1>6, <2>1, Induction
<1>10. DOMAIN Sums(bytes) = 0..Len(bytes) /\ \A n \in 0..Len(bytes) : Sums(bytes)[n] \in Byte
  BY <1>1, <1>5, <1>9
<1>11. Hash(bytes) = Sums(bytes)[Len(bytes)]
  BY Zenon DEF Hash, Sums
<1> QED BY <1>5, <1>6, <1>7, <1>10, <1>11

\* The sum of a prefix depends on nothing after it.
LEMMA SumsOfPrefix ==
  ASSUME NEW s \in Seq(Byte), NEW t \in Seq(Byte), NEW m \in Nat,
         m <= Len(s), m <= Len(t), \A i \in 1..m : s[i] = t[i]
  PROVE  Sums(s)[m] = Sums(t)[m]
<1> DEFINE Good == {k \in Nat : k <= m => Sums(s)[k] = Sums(t)[k]}
<1>1. 0 \in Good
  BY HashRecursive
<1>2. ASSUME NEW k \in Nat, k \in Good PROVE k + 1 \in Good
  <2> SUFFICES ASSUME k + 1 <= m PROVE Sums(s)[k + 1] = Sums(t)[k + 1]
    OBVIOUS
  <2>1. /\ k + 1 \in 1..Len(s) /\ k + 1 \in 1..Len(t) /\ k + 1 \in 1..m
        /\ (k + 1) - 1 = k /\ k <= m
    OBVIOUS
  <2>2. Sums(s)[k] = Sums(t)[k] /\ s[k + 1] = t[k + 1]
    BY <1>2, <2>1
  <2>3. Sums(s)[k + 1] = HashStep(Sums(s)[k], s[k + 1])
    BY <2>1, HashRecursive
  <2>4. Sums(t)[k + 1] = HashStep(Sums(t)[k], t[k + 1])
    BY <2>1, HashRecursive
  <2> QED BY <2>2, <2>3, <2>4
<1>3. \A k \in Nat : k \in Good
  <2>1. \A k \in Nat : k \in Good => k + 1 \in Good
    BY <1>2
  <2> HIDE DEF Good
  <2> QED BY <1>1, <2>1, Induction
<1> QED BY <1>3

\* One more byte is one more step.
LEMMA HashOfPrefix ==
  ASSUME NEW s \in Seq(Byte), NEW t \in Seq(Byte), Len(t) = Len(s) + 1,
         \A i \in 1..Len(s) : t[i] = s[i]
  PROVE  Hash(t) = HashStep(Hash(s), t[Len(t)])
<1>1. Len(s) \in Nat /\ Len(t) \in 1..Len(t) /\ Len(t) - 1 = Len(s)
  OBVIOUS
<1>2. Sums(t)[Len(s)] = Sums(s)[Len(s)]
  BY <1>1, SumsOfPrefix
<1>3. Sums(t)[Len(t)] = HashStep(Sums(t)[Len(t) - 1], t[Len(t)])
  BY <1>1, HashRecursive
<1> QED BY <1>1, <1>2, <1>3, HashRecursive

\* Two sequences that differ in exactly one byte have different sums.
LEMMA HashFindsOneByte ==
  ASSUME NEW s \in Seq(Byte), NEW t \in Seq(Byte), Len(s) = Len(t),
         NEW i \in 1..Len(s), s[i] # t[i],
         \A j \in 1..Len(s) : j # i => s[j] = t[j]
  PROVE  Hash(s) # Hash(t)
<1> DEFINE Good == {k \in Nat : i + k <= Len(s) => Sums(s)[i + k] # Sums(t)[i + k]}
<1>1. Len(s) \in Nat /\ i - 1 \in Nat /\ i - 1 <= Len(s)
  OBVIOUS
<1>2. ASSUME NEW n \in 1..Len(s)
      PROVE  /\ Sums(s)[n - 1] \in Byte /\ Sums(t)[n - 1] \in Byte
             /\ s[n] \in Byte /\ t[n] \in Byte
             /\ Sums(s)[n] = HashStep(Sums(s)[n - 1], s[n])
             /\ Sums(t)[n] = HashStep(Sums(t)[n - 1], t[n])
  <2>1. n - 1 \in 0..Len(s)
    BY <1>1
  <2> QED BY <2>1, HashRecursive
<1>3. 0 \in Good
  <2>1. Sums(s)[i - 1] = Sums(t)[i - 1]
    <3>1. \A j \in 1..(i - 1) : s[j] = t[j]
      BY <1>1
    <3> QED BY <1>1, <3>1, SumsOfPrefix
  <2>2. Sums(s)[i] # Sums(t)[i]
    BY <1>2, <2>1, HashStepOneToOne
  <2> QED BY <2>2
<1>4. ASSUME NEW k \in Nat, k \in Good PROVE k + 1 \in Good
  <2> SUFFICES ASSUME i + (k + 1) <= Len(s)
               PROVE  Sums(s)[i + (k + 1)] # Sums(t)[i + (k + 1)]
    OBVIOUS
  <2>1. i + (k + 1) \in 1..Len(s) /\ (i + (k + 1)) - 1 = i + k /\ i + (k + 1) # i
    BY <1>1
  <2>2. Sums(s)[i + k] # Sums(t)[i + k] /\ s[i + (k + 1)] = t[i + (k + 1)]
    BY <1>4, <2>1
  <2> QED BY <1>2, <2>1, <2>2, HashStepOneToOne
<1>5. \A k \in Nat : k \in Good
  <2>1. \A k \in Nat : k \in Good => k + 1 \in Good
    BY <1>4
  <2> HIDE DEF Good
  <2> QED BY <1>3, <2>1, Induction
<1>6. Len(s) - i \in Nat /\ i + (Len(s) - i) = Len(s)
  BY <1>1
<1>7. Sums(s)[Len(s)] # Sums(t)[Len(s)]
  <2>1. Len(s) - i \in Good
    BY <1>5, <1>6
  <2> QED BY <1>1, <1>6, <2>1
<1> QED BY <1>7, HashRecursive

-----------------------------------------------------------------------------
(* The fields in the binary form.                                          *)

\* A package of this kind: every field has the bytes that its size says.
Filled(fields) ==
  /\ fields \in Seq(Seq(Byte)) /\ Len(fields) = Len(Sizes)
  /\ \A f \in 1..Len(Sizes) : Len(fields[f]) = Sizes[f]

\* The binary forms of the first fields, as Message::toBinary builds them up.
Parts(fields) ==
  CHOOSE flatten : flatten = [i \in 1..Len(fields) |->
                     IF i = 1 THEN fields[i] ELSE flatten[i - 1] \o fields[i]]

LEMMA FlattenRecursive ==
  ASSUME NEW fields \in Seq(Seq(Byte)), Len(fields) > 0
  PROVE  /\ FlattenSeq(fields) = Parts(fields)[Len(fields)]
         /\ \A f \in 1..Len(fields) : Parts(fields)[f] \in Seq(Byte)
         /\ Parts(fields)[1] = fields[1]
         /\ \A f \in 2..Len(fields) : Parts(fields)[f] = Parts(fields)[f - 1] \o fields[f]
<1> DEFINE step == [p \in Nat \X Seq(Byte) |-> IF p[1] \in 1..Len(fields)
                                               THEN p[2] \o fields[p[1]] ELSE p[2]]
<1>1. /\ Len(fields) \in Nat /\ 1 \in Nat /\ 1 <= Len(fields)
      /\ \A f \in 1..Len(fields) : fields[f] \in Seq(Byte)
  OBVIOUS
<1>2. step \in [Nat \X Seq(Byte) -> Seq(Byte)]
  BY <1>1
<1>3. PICK g \in [1..Len(fields) -> Seq(Byte)] :
        Unfolds(g, 1..Len(fields), 1, fields[1], step)
  <2>1. fields[1] \in Seq(Byte)
    BY <1>1
  <2> HIDE DEF step
  <2> QED BY <1>1, <1>2, <2>1, RecursionTo
<1>4. g = [f \in 1..Len(fields) |-> IF f = 1 THEN fields[f] ELSE g[f - 1] \o fields[f]]
  <2>1. ASSUME NEW f \in 1..Len(fields)
        PROVE  g[f] = IF f = 1 THEN fields[f] ELSE g[f - 1] \o fields[f]
    <3>1. g[f] = IF f = 1 THEN fields[1] ELSE step[<<f, g[f - 1]>>]
      BY <1>3, Zenon DEF Unfolds
    <3>2. CASE f # 1
      <4>1. f \in Nat /\ f - 1 \in 1..Len(fields)
        BY <3>2, <1>1
      <4>2. <<f, g[f - 1]>> \in Nat \X Seq(Byte)
        BY <4>1, <1>3
      <4>3. step[<<f, g[f - 1]>>] = g[f - 1] \o fields[f]
        BY <4>2
      <4> QED BY <3>1, <3>2, <4>3
    <3> QED BY <3>1, <3>2
  <2>2. DOMAIN g = 1..Len(fields) /\ g = [f \in DOMAIN g |-> g[f]]
    BY <1>3
  <2> QED BY <2>1, <2>2, Zenon
<1>5. Parts(fields) = [f \in 1..Len(fields) |->
                         IF f = 1 THEN fields[f] ELSE Parts(fields)[f - 1] \o fields[f]]
  BY <1>4, Zenon DEF Parts
<1> DEFINE Good == {k \in Nat : k + 1 <= Len(fields) => Parts(fields)[k + 1] \in Seq(Byte)}
<1>6. 0 \in Good /\ Parts(fields)[1] = fields[1]
  <2>1. 1 \in 1..Len(fields)
    BY <1>1
  <2>2. Parts(fields)[1] = fields[1]
    BY <1>5, <2>1
  <2> QED BY <1>1, <2>1, <2>2
<1>7. ASSUME NEW f \in 2..Len(fields)
      PROVE  Parts(fields)[f] = Parts(fields)[f - 1] \o fields[f]
  <2>1. f \in 1..Len(fields) /\ f # 1
    BY <1>1
  <2> QED BY <1>5, <2>1
<1>8. ASSUME NEW k \in Nat, k \in Good PROVE k + 1 \in Good
  <2> SUFFICES ASSUME (k + 1) + 1 <= Len(fields)
               PROVE  Parts(fields)[(k + 1) + 1] \in Seq(Byte)
    OBVIOUS
  <2>1. /\ (k + 1) + 1 \in 2..Len(fields) /\ ((k + 1) + 1) - 1 = k + 1
        /\ k + 1 <= Len(fields) /\ (k + 1) + 1 \in 1..Len(fields)
    BY <1>1
  <2>2. Parts(fields)[k + 1] \in Seq(Byte) /\ fields[(k + 1) + 1] \in Seq(Byte)
    BY <1>1, <1>8, <2>1
  <2>3. Parts(fields)[(k + 1) + 1] = Parts(fields)[k + 1] \o fields[(k + 1) + 1]
    BY <1>7, <2>1
  <2> QED BY <2>2, <2>3
<1>9. \A k \in Nat : k \in Good
  <2>1. \A k \in Nat : k \in Good => k + 1 \in Good
    BY <1>8
  <2> HIDE DEF Good
  <2> QED BY <1>6, <2>1, Induction
<1>10. ASSUME NEW f \in 1..Len(fields) PROVE Parts(fields)[f] \in Seq(Byte)
  <2>1. f - 1 \in Nat /\ (f - 1) + 1 = f /\ f <= Len(fields)
    BY <1>1
  <2>2. f - 1 \in Good
    BY <1>9, <2>1
  <2> QED BY <2>1, <2>2
<1>11. FlattenSeq(fields) = Parts(fields)[Len(fields)]
  <2>1. Len(fields) # 0
    OBVIOUS
  <2> QED BY <2>1, Zenon DEF FlattenSeq, Parts
<1> QED BY <1>6, <1>7, <1>10, <1>11

\* Where the elements of two sequences are in one made of both.
LEMMA ConcatPlaces ==
  ASSUME NEW S, NEW s \in Seq(S), NEW t \in Seq(S)
  PROVE  /\ \A i \in 1..Len(s) : (s \o t)[i] = s[i]
         /\ \A b \in 1..Len(t) : (s \o t)[Len(s) + b] = t[b]
OBVIOUS

\* Every field begins where Offset says and is there byte for byte, and there is
\* nothing else in the binary form but the check sum.
LEMMA FlattenPlaces ==
  ASSUME NEW fields, Filled(fields)
  PROVE  /\ FlattenSeq(fields) \in Seq(Byte)
         /\ Len(FlattenSeq(fields)) = Size - 1
         /\ \A f \in 1..Len(Sizes) : \A b \in 1..Sizes[f] :
              FlattenSeq(fields)[Offset[f - 1] + b] = fields[f][b]
<1> DEFINE Part(f) == Parts(fields)[f]
           Fine(f) == /\ Part(f) \in Seq(Byte) /\ Len(Part(f)) = Offset[f]
                      /\ \A g \in 1..f : \A b \in 1..Sizes[g] :
                           Part(f)[Offset[g - 1] + b] = fields[g][b]
           Good == {k \in Nat : k + 1 <= Len(Sizes) => Fine(k + 1)}
<1>1. /\ fields \in Seq(Seq(Byte)) /\ Len(fields) = Len(Sizes) /\ Len(fields) > 0
      /\ \A f \in 1..Len(Sizes) : fields[f] \in Seq(Byte) /\ Len(fields[f]) = Sizes[f]
      /\ Len(Sizes) \in Nat /\ Len(Sizes) > 1
      /\ \A f \in 1..Len(Sizes) : Sizes[f] \in Nat \ {0}
      /\ \A f \in 0..Len(Sizes) : Offset[f] \in Nat
  BY SizeBounds DEF Filled
<1>2. 0 \in Good
  <2>1. 1 \in 1..Len(Sizes) /\ Part(1) = fields[1]
    <3>1. Parts(fields)[1] = fields[1]
      BY <1>1, FlattenRecursive
    <3> QED BY <1>1, <3>1
  <2>2. Offset[1] = Sizes[1] /\ Offset[1 - 1] = 0
    BY SizeBounds, OffsetRecursive
  <2>3. \A g \in 1..1 : g = 1
    OBVIOUS
  <2>4. ASSUME NEW g \in 1..1, NEW b \in 1..Sizes[g]
        PROVE  Part(1)[Offset[g - 1] + b] = fields[g][b]
    <3>1. g = 1
      OBVIOUS
    <3>2. b \in Nat /\ Offset[g - 1] + b = b
      BY <1>1, <2>1, <2>2, <3>1
    <3> QED BY <2>1, <3>1, <3>2
  <2>5. Fine(1)
    BY <1>1, <2>1, <2>2, <2>4
  <2> QED BY <2>5
<1>3. ASSUME NEW k \in Nat, k \in Good PROVE k + 1 \in Good
  <2> SUFFICES ASSUME (k + 1) + 1 <= Len(Sizes) PROVE Fine((k + 1) + 1)
    OBVIOUS
  <2> DEFINE e == k + 1
             f == (k + 1) + 1
  <2>1. /\ e \in 1..Len(Sizes) /\ f \in 1..Len(Sizes) /\ f \in 2..Len(fields)
        /\ f - 1 = e /\ e + 1 = f /\ e <= Len(Sizes) /\ e \in 0..Len(Sizes)
    BY <1>1
  <2>2. /\ Part(e) \in Seq(Byte) /\ Len(Part(e)) = Offset[e]
        /\ \A g \in 1..e : \A b \in 1..Sizes[g] :
             Part(e)[Offset[g - 1] + b] = fields[g][b]
    BY <1>3, <2>1
  <2> HIDE DEF e, f
  <2>3. Part(f) = Part(e) \o fields[f]
    BY <1>1, <2>1, FlattenRecursive
  <2>4. fields[f] \in Seq(Byte) /\ Len(fields[f]) = Sizes[f]
    BY <1>1, <2>1
  <2>5. Offset[f] = Offset[e] + Sizes[f] /\ Offset[e] \in Nat /\ Sizes[f] \in Nat \ {0}
    BY <1>1, <2>1, OffsetRecursive
  <2> HIDE DEF Part
  <2>6. Part(f) \in Seq(Byte) /\ Len(Part(f)) = Offset[f]
    BY <2>2, <2>3, <2>4, <2>5
  <2>7. ASSUME NEW g \in 1..f, NEW b \in 1..Sizes[g]
        PROVE  Part(f)[Offset[g - 1] + b] = fields[g][b]
    <3>1. CASE g = f
      <4>1. Offset[g - 1] + b = Len(Part(e)) + b /\ b \in 1..Len(fields[f])
        BY <2>1, <2>2, <2>4, <2>5, <3>1
      <4>2. (Part(e) \o fields[f])[Len(Part(e)) + b] = fields[f][b]
        <5>1. Part(e) \in Seq(Byte) /\ fields[f] \in Seq(Byte) /\ b \in 1..Len(fields[f])
          BY <2>2, <2>4, <4>1
        <5> HIDE DEF Part
        <5> QED BY <5>1, ConcatPlaces
      <4> QED BY <2>3, <3>1, <4>1, <4>2
    <3>2. CASE g # f
      <4>1. g \in 1..e /\ g \in 1..Len(Sizes) /\ g - 1 \in 0..Len(Sizes) /\ g \in 0..Len(Sizes)
        BY <1>1, <2>1, <3>2
      <4>2. Offset[g] = Offset[g - 1] + Sizes[g] /\ Offset[g] <= Offset[e]
        BY <2>1, <4>1, OffsetRecursive, OffsetMonotone
      <4>3. Offset[g - 1] + b \in 1..Len(Part(e))
        <5>1. Sizes[g] \in Nat /\ Offset[g - 1] \in Nat /\ b \in 1..Sizes[g]
          BY <1>1, <4>1
        <5> QED BY <2>2, <2>5, <4>2, <5>1
      <4>4. Part(f)[Offset[g - 1] + b] = Part(e)[Offset[g - 1] + b]
        <5>1. (Part(e) \o fields[f])[Offset[g - 1] + b] = Part(e)[Offset[g - 1] + b]
          BY <2>2, <2>4, <4>3, ConcatPlaces
        <5> QED BY <2>3, <5>1
      <4> QED BY <2>2, <4>1, <4>4
    <3> QED BY <3>1, <3>2
  <2> QED BY <2>6, <2>7 DEF f
<1>4. \A k \in Nat : k \in Good
  <2>1. \A k \in Nat : k \in Good => k + 1 \in Good
    BY <1>3
  <2> HIDE DEF Good
  <2> QED BY <1>2, <2>1, Induction
<1>5. Len(Sizes) - 1 \in Nat /\ (Len(Sizes) - 1) + 1 = Len(Sizes)
  BY <1>1
<1>6. Len(Sizes) - 1 \in Good
  BY <1>4, <1>5
<1>7. Fine(Len(Sizes))
  <2> HIDE DEF Fine
  <2> QED BY <1>1, <1>5, <1>6
<1>8. FlattenSeq(fields) = Part(Len(Sizes)) /\ Offset[Len(Sizes)] = Size - 1
  <2>1. FlattenSeq(fields) = Parts(fields)[Len(fields)]
    BY <1>1, FlattenRecursive
  <2>2. Offset[Len(Sizes)] \in Nat /\ Size = Offset[Len(Sizes)] + 1
    BY <1>1 DEF Size
  <2> QED BY <1>1, <2>1, <2>2
<1> QED BY <1>7, <1>8

-----------------------------------------------------------------------------
(* A number in the bytes of its field.                                     *)

LEMMA DivisionUnique ==
  ASSUME NEW p \in Nat \ {0}, NEW q \in Int, NEW d \in Int,
         NEW r \in 0..(p - 1), NEW m \in 0..(p - 1), p * q + r = p * d + m
  PROVE  q = d /\ r = m
<1>1. p * (q - d) = m - r
  OBVIOUS
<1>2. ~(q - d >= 1)
  <2>1. q - d >= 1 => p * (q - d) >= p
    OBVIOUS
  <2> QED BY <1>1, <2>1
<1>3. ~(q - d <= -1)
  <2>1. q - d <= -1 => p * (q - d) <= -p
    OBVIOUS
  <2> QED BY <1>1, <2>1
<1> QED BY <1>1, <1>2, <1>3

\* A remainder is known by what it is less than and by what the rest is a multiple of.
LEMMA RemainderIs ==
  ASSUME NEW p \in Nat \ {0}, NEW x \in Int, NEW q \in Int, NEW r \in 0..(p - 1),
         x = p * q + r
  PROVE  x % p = r /\ x \div p = q
<1>1. x = p * (x \div p) + (x % p) /\ x % p \in 0..(p - 1) /\ x \div p \in Int
  OBVIOUS
<1>2. p * q + r = p * (x \div p) + (x % p)
  BY <1>1
<1> QED BY <1>1, <1>2, DivisionUnique

LEMMA ToBytesType ==
  ASSUME NEW number \in Int, NEW n \in Nat
  PROVE  ToBytes(number, n) \in Seq(Byte) /\ Len(ToBytes(number, n)) = n
<1>1. \A b \in 1..n : (number \div Span[b - 1]) % Base \in Byte
  <2> TAKE b \in 1..n
  <2>1. b - 1 \in Nat
    OBVIOUS
  <2>2. Span[b - 1] \in Nat \ {0}
    BY <2>1, SpanRecursive
  <2>3. number \div Span[b - 1] \in Int
    BY <2>2
  <2> QED BY <2>3, FormatAssumption DEF Byte
<1>2. ToBytes(number, n) \in [1..n -> Byte]
  BY <1>1 DEF ToBytes
<1> QED BY <1>2

\* The values of the first bytes.
Magnitudes(bytes) ==
  CHOOSE sum : sum = [n \in 0..Len(bytes) |->
                        IF n = 0 THEN 0 ELSE sum[n - 1] + bytes[n] * Span[n - 1]]

LEMMA MagnitudeRecursive ==
  ASSUME NEW bytes \in Seq(Byte)
  PROVE  /\ Magnitude(bytes) = Magnitudes(bytes)[Len(bytes)]
         /\ Magnitudes(bytes)[0] = 0
         /\ \A n \in 1..Len(bytes) :
              Magnitudes(bytes)[n] = Magnitudes(bytes)[n - 1] + bytes[n] * Span[n - 1]
<1> DEFINE step == [p \in Nat \X Nat |->
                      IF p[1] \in 1..Len(bytes)
                      THEN p[2] + bytes[p[1]] * Span[p[1] - 1] ELSE 0]
<1>1. /\ Len(bytes) \in Nat /\ 0 <= Len(bytes)
      /\ \A n \in 1..Len(bytes) : bytes[n] \in Nat /\ Span[n - 1] \in Nat
  <2>1. \A n \in 1..Len(bytes) : bytes[n] \in Byte /\ n - 1 \in Nat
    OBVIOUS
  <2>2. \A x \in Byte : x \in Nat
    BY FormatAssumption DEF Byte
  <2>3. \A x \in Nat : Span[x] \in Nat
    BY SpanRecursive
  <2>4. Len(bytes) \in Nat
    OBVIOUS
  <2> QED BY <2>1, <2>2, <2>3, <2>4
<1>2. step \in [Nat \X Nat -> Nat]
  <2>1. \A x, y, z \in Nat : x + y * z \in Nat
    OBVIOUS
  <2> QED BY <1>1, <2>1
<1>3. PICK g \in [0..Len(bytes) -> Nat] : Unfolds(g, 0..Len(bytes), 0, 0, step)
  <2> HIDE DEF step
  <2> QED BY <1>1, <1>2, RecursionTo
<1>4. g = [n \in 0..Len(bytes) |-> IF n = 0 THEN 0 ELSE g[n - 1] + bytes[n] * Span[n - 1]]
  <2>1. ASSUME NEW n \in 0..Len(bytes)
        PROVE  g[n] = IF n = 0 THEN 0 ELSE g[n - 1] + bytes[n] * Span[n - 1]
    <3>1. g[n] = IF n = 0 THEN 0 ELSE step[<<n, g[n - 1]>>]
      BY <1>3, Zenon DEF Unfolds
    <3>2. CASE n # 0
      <4>1. n \in 1..Len(bytes) /\ n \in Nat /\ n - 1 \in 0..Len(bytes)
        BY <3>2, <1>1
      <4>2. step[<<n, g[n - 1]>>] = g[n - 1] + bytes[n] * Span[n - 1]
        BY <4>1, <1>3
      <4> QED BY <3>1, <3>2, <4>2
    <3> QED BY <3>1, <3>2
  <2>2. DOMAIN g = 0..Len(bytes) /\ g = [n \in DOMAIN g |-> g[n]]
    BY <1>3
  <2> QED BY <2>1, <2>2, Zenon
<1>5. Magnitudes(bytes)
        = [n \in 0..Len(bytes) |->
             IF n = 0 THEN 0 ELSE Magnitudes(bytes)[n - 1] + bytes[n] * Span[n - 1]]
  BY <1>4, Zenon DEF Magnitudes
<1>6. Magnitudes(bytes)[0] = 0
  <2>1. 0 \in 0..Len(bytes)
    BY <1>1
  <2> QED BY <1>5, <2>1
<1>7. ASSUME NEW n \in 1..Len(bytes)
      PROVE  Magnitudes(bytes)[n] = Magnitudes(bytes)[n - 1] + bytes[n] * Span[n - 1]
  <2>1. n \in 0..Len(bytes) /\ n # 0
    BY <1>1
  <2> QED BY <1>5, <2>1
<1>8. Magnitude(bytes) = Magnitudes(bytes)[Len(bytes)]
  BY Zenon DEF Magnitude, Magnitudes
<1> QED BY <1>6, <1>7, <1>8

\* n bytes keep of a number, negative or too large, its remainder.
THEOREM MagnitudeOfNumber ==
  ASSUME NEW number \in Int, NEW n \in Nat
  PROVE  Magnitude(ToBytes(number, n)) = number % Span[n]
<1> DEFINE bytes == ToBytes(number, n)
           Good == {k \in Nat : k <= n => Magnitudes(bytes)[k] = number % Span[k]}
<1>1. bytes \in Seq(Byte) /\ Len(bytes) = n
  BY ToBytesType
<1>2. \A b \in 1..n : bytes[b] = (number \div Span[b - 1]) % Base
  BY DEF ToBytes
<1> HIDE DEF bytes
<1>3. /\ Magnitude(bytes) = Magnitudes(bytes)[n]
      /\ Magnitudes(bytes)[0] = 0
      /\ \A k \in 1..n :
           Magnitudes(bytes)[k] = Magnitudes(bytes)[k - 1] + bytes[k] * Span[k - 1]
  BY <1>1, MagnitudeRecursive
<1>4. 0 \in Good
  <2>1. number % 1 = 0
    OBVIOUS
  <2> QED BY <1>3, <2>1, SpanRecursive
<1>5. ASSUME NEW k \in Nat, k \in Good PROVE k + 1 \in Good
  <2> SUFFICES ASSUME k + 1 <= n
               PROVE  Magnitudes(bytes)[k + 1] = number % Span[k + 1]
    OBVIOUS
  <2> DEFINE S == Span[k]
             q == number \div S
             r == number % S
             up == q \div Base
             d == q % Base
  <2>1. k + 1 \in 1..n /\ (k + 1) - 1 = k /\ k <= n
    OBVIOUS
  <2>2. S \in Nat \ {0} /\ Span[k + 1] = Base * S /\ Base \in Nat \ {0}
    BY SpanRecursive, FormatAssumption
  <2>3. Magnitudes(bytes)[k + 1] = r + d * S
    BY <1>2, <1>3, <1>5, <2>1
  <2> HIDE DEF S
  <2>4. number = S * q + r /\ q \in Int /\ r \in 0..(S - 1)
    BY <2>2
  <2> HIDE DEF q, r
  <2>5. q = Base * up + d /\ up \in Int /\ d \in 0..(Base - 1)
    BY <2>2, <2>4
  <2> HIDE DEF up, d
  <2>6. number = (Base * S) * up + (r + d * S)
    <3>1. S * (Base * up + d) = (Base * S) * up + d * S
      BY <2>2, <2>5
    <3>2. (Base * S) * up \in Int /\ d * S \in Int
      BY <2>2, <2>5
    <3> QED BY <2>4, <2>5, <3>1, <3>2
  <2>7. r + d * S \in 0..(Base * S - 1)
    <3>1. d * S \in Nat /\ d * S <= (Base - 1) * S
      BY <2>2, <2>5
    <3>2. (Base - 1) * S = Base * S - S /\ Base * S \in Nat
      BY <2>2
    <3> QED BY <2>2, <2>4, <3>1, <3>2
  <2>8. Base * S \in Nat \ {0}
    BY <2>2
  <2>9. number % (Base * S) = r + d * S
    BY <2>5, <2>6, <2>7, <2>8, RemainderIs
  <2> QED BY <2>2, <2>3, <2>9
<1>6. \A k \in Nat : k \in Good
  <2>1. \A k \in Nat : k \in Good => k + 1 \in Good
    BY <1>5
  <2> HIDE DEF Good
  <2> QED BY <1>4, <2>1, Induction
<1> QED BY <1>3, <1>6 DEF bytes

\* What a getter of n bytes reads from them is a number of its type, and the number
\* that was written but for a multiple of what n bytes tell apart.
LEMMA NumberThere ==
  ASSUME NEW number \in Int, NEW n \in Nat \ {0}
  PROVE  LET got == FromBytes(ToBytes(number, n))
         IN  /\ got \in Int
             /\ (got - number) % Span[n] = 0
             /\ n = 1 => got \in Byte
             /\ n > 1 => 2 * got \in -Span[n]..(Span[n] - 1)
<1> DEFINE bytes == ToBytes(number, n)
           span == Span[n]
           M == number % span
           got == FromBytes(bytes)
           q == number \div span
<1>1. Len(bytes) = n /\ Magnitude(bytes) = M
  BY ToBytesType, MagnitudeOfNumber
<1>2. span \in Nat \ {0}
  BY SpanRecursive
<1>3. got = IF n > 1 /\ 2 * M >= span THEN M - span ELSE M
  BY <1>1 DEF FromBytes
<1> HIDE DEF bytes, span, got
<1>4. number = span * q + M /\ q \in Int /\ M \in 0..(span - 1)
  BY <1>2
<1> HIDE DEF M, q
<1>5. got \in Int /\ (n > 1 => 2 * got \in -span..(span - 1))
  BY <1>2, <1>3, <1>4
<1>6. n = 1 => got \in Byte
  <2>1. 0 \in Nat /\ 0 + 1 = 1
    OBVIOUS
  <2>2. Span[1] = Base * 1
    BY <2>1, SpanRecursive
  <2> QED BY <1>3, <1>4, <2>2, FormatAssumption DEF Byte, span
<1>7. \E d \in Int : got - number = span * d + 0
  <2>1. CASE got = M
    <3>1. -q \in Int /\ got - number = span * (-q) + 0
      BY <1>2, <1>4, <2>1
    <3> QED BY <3>1
  <2>2. CASE got = M - span
    <3>1. -q - 1 \in Int /\ span * (-q - 1) = -(span * q) - span
      BY <1>2, <1>4
    <3>2. got - number = span * (-q - 1) + 0
      <4>1. span * q \in Int
        BY <1>2, <1>4
      <4> QED BY <1>2, <1>4, <2>2, <3>1, <4>1
    <3> QED BY <3>1, <3>2
  <2> QED BY <1>3, <2>1, <2>2
<1>8. (got - number) % span = 0
  <2>1. got - number \in Int /\ 0 \in 0..(span - 1)
    BY <1>2, <1>5
  <2> QED BY <1>2, <1>7, <2>1, RemainderIs
<1> QED BY <1>5, <1>6, <1>8 DEF got, span, bytes

-----------------------------------------------------------------------------
(* What fromBinary accepts.                                                *)

LEMMA PrefixType ==
  ASSUME NEW bytes \in Seq(Byte), NEW n \in Nat, n <= Len(bytes)
  PROVE  /\ SubSeq(bytes, 1, n) \in Seq(Byte) /\ Len(SubSeq(bytes, 1, n)) = n
         /\ \A i \in 1..n : SubSeq(bytes, 1, n)[i] = bytes[i]
  OBVIOUS

LEMMA SegmentIs ==
  ASSUME NEW bytes \in Seq(Byte), NEW i \in 1..Len(bytes), NEW n \in Nat,
         i + n - 1 <= Len(bytes)
  PROVE  LET segment == SubSeq(bytes, i, i + n - 1)
         IN  /\ segment \in Seq(Byte) /\ Len(segment) = n
             /\ \A k \in 1..n : segment[k] = bytes[i + k - 1]
<1>1. \A k \in i..(i + n - 1) : bytes[k] \in Byte
  OBVIOUS
<1>2. i \in Int /\ i + n - 1 \in Int
  OBVIOUS
<1> QED BY <1>1, <1>2

LEMMA OutcomeIs ==
  \A bytes : ParseOutcome(bytes) = "ok"
               <=> /\ Len(bytes) = Size /\ bytes[1] = Id
                   /\ bytes[Size] = Hash(SubSeq(bytes, 1, Size - 1))
  BY DEF ParseOutcome

\* The binary form of a package is accepted, and every field but CC is read back
\* as it was, whatever the receiving package held.
THEOREM BinaryFormAccepted ==
  ASSUME NEW fields, Filled(fields), fields[1] = <<Id>>
  PROVE  /\ ToBinary(fields) \in Seq(Byte)
         /\ ParseOutcome(ToBinary(fields)) = "ok"
         /\ \A copy : \A f \in 2..Len(Sizes) :
              FromBinary(copy, ToBinary(fields))[f] = fields[f]
<1> DEFINE bin == FlattenSeq(fields)
           bytes == ToBinary(fields)
<1>1. /\ bin \in Seq(Byte) /\ Len(bin) = Size - 1
      /\ \A f \in 1..Len(Sizes) : \A b \in 1..Sizes[f] :
           bin[Offset[f - 1] + b] = fields[f][b]
  BY FlattenPlaces
<1>2. Hash(bin) \in Byte
  <2>1. Len(bin) \in 0..Len(bin)
    BY <1>1
  <2> QED BY <1>1, <2>1, HashRecursive
<1>3. bytes = Append(bin, Hash(bin))
  BY DEF ToBinary
<1> HIDE DEF bin, bytes
<1>4. /\ bytes \in Seq(Byte) /\ Len(bytes) = Size
      /\ bytes[Size] = Hash(bin)
      /\ \A i \in 1..(Size - 1) : bytes[i] = bin[i]
  BY <1>1, <1>2, <1>3, SizeBounds
<1>5. bytes[1] = Id
  <2>1. 1 \in 1..Len(Sizes) /\ 1 \in 1..Sizes[1] /\ Offset[1 - 1] + 1 = 1
    BY SizeBounds, OffsetRecursive
  <2>2. bin[1] = fields[1][1]
    BY <1>1, <2>1
  <2> QED BY <1>4, <2>2, SizeBounds
<1>6. SubSeq(bytes, 1, Size - 1) = bin
  <2>1. Size - 1 \in Nat /\ Size - 1 <= Len(bytes)
    BY <1>4, SizeBounds
  <2>2. /\ SubSeq(bytes, 1, Size - 1) \in Seq(Byte)
        /\ Len(SubSeq(bytes, 1, Size - 1)) = Size - 1
        /\ \A i \in 1..(Size - 1) : SubSeq(bytes, 1, Size - 1)[i] = bytes[i]
    BY <1>4, <2>1, PrefixType
  <2> QED BY <1>1, <1>4, <2>2
<1>7. ParseOutcome(bytes) = "ok"
  BY <1>4, <1>5, <1>6, OutcomeIs
<1>8. ASSUME NEW copy, NEW f \in 2..Len(Sizes)
      PROVE  FromBinary(copy, bytes)[f] = fields[f]
  <2> DEFINE lo == Offset[f - 1]
             got == SubSeq(bytes, lo + 1, Offset[f])
  <2>1. f \in 1..Len(Sizes) /\ f \in DOMAIN Sizes /\ f # 1
    BY SizeBounds
  <2>2. FromBinary(copy, bytes)[f] = got
    BY <2>1 DEF FromBinary
  <2>3. /\ Offset[f] = lo + Sizes[f] /\ lo \in Nat /\ Sizes[f] \in Nat
        /\ Offset[f] <= Size - 1 /\ Offset[f] \in Nat
    <3>1. f - 1 \in 0..Len(Sizes) /\ f \in 0..Len(Sizes)
      BY <2>1, SizeBounds
    <3> QED BY <2>1, <3>1, OffsetRecursive, SizeBounds
  <2>4. fields[f] \in Seq(Byte) /\ Len(fields[f]) = Sizes[f]
    BY <2>1 DEF Filled
  <2>5. \A b \in 1..Sizes[f] : bin[lo + b] = fields[f][b]
    BY <1>1, <2>1
  <2> HIDE DEF lo
  <2>6. /\ got \in Seq(Byte) /\ Len(got) = Sizes[f]
        /\ \A b \in 1..Sizes[f] : got[b] = bytes[lo + b]
    BY <1>4, <2>3, SizeBounds
  <2>7. \A b \in 1..Sizes[f] : lo + b \in 1..(Size - 1)
    BY <2>3, SizeBounds
  <2>8. \A b \in 1..Sizes[f] : got[b] = fields[f][b]
    BY <1>4, <2>5, <2>6, <2>7
  <2> HIDE DEF got
  <2>9. got = fields[f]
    BY <2>4, <2>6, <2>8
  <2> QED BY <2>2, <2>9
<1> QED BY <1>4, <1>7, <1>8 DEF bytes

\* No two valid packages differ in a single byte.
THEOREM OneByteRefused ==
  ASSUME NEW bytes \in Seq(Byte), ParseOutcome(bytes) = "ok",
         NEW i \in 1..Size, NEW b \in Byte, b # bytes[i]
  PROVE  ParseOutcome([bytes EXCEPT ![i] = b]) # "ok"
<1> DEFINE other == [bytes EXCEPT ![i] = b]
           s == SubSeq(bytes, 1, Size - 1)
           t == SubSeq(other, 1, Size - 1)
<1>1. /\ Len(bytes) = Size /\ bytes[Size] = Hash(s)
      /\ Size \in Nat /\ Size >= 3 /\ Size - 1 \in Nat
  BY OutcomeIs, SizeBounds
<1>2. /\ other \in Seq(Byte) /\ Len(other) = Size
      /\ other[i] = b /\ \A j \in 1..Size : j # i => other[j] = bytes[j]
  BY <1>1
<1> HIDE DEF other
<1>3. /\ s \in Seq(Byte) /\ Len(s) = Size - 1 /\ t \in Seq(Byte) /\ Len(t) = Size - 1
      /\ \A j \in 1..(Size - 1) : s[j] = bytes[j] /\ t[j] = other[j]
  BY <1>1, <1>2, PrefixType
<1> HIDE DEF s, t
<1>4. CASE i = Size
  <2>1. \A j \in 1..(Size - 1) : s[j] = t[j]
    BY <1>1, <1>2, <1>3, <1>4
  <2>2. s = t
    BY <1>3, <2>1
  <2> QED BY <1>1, <1>2, <1>4, <2>2, OutcomeIs DEF other, t
<1>5. CASE i # Size
  <2>1. i \in 1..(Size - 1)
    BY <1>1, <1>5
  <2>2. s[i] # t[i] /\ \A j \in 1..(Size - 1) : j # i => s[j] = t[j]
    BY <1>1, <1>2, <1>3, <2>1
  <2>3. Hash(s) # Hash(t)
    BY <1>3, <2>1, <2>2, HashFindsOneByte
  <2>4. other[Size] = bytes[Size]
    BY <1>1, <1>2, <1>5
  <2> QED BY <1>1, <2>3, <2>4, OutcomeIs DEF other, t
<1> QED BY <1>4, <1>5
=============================================================================
