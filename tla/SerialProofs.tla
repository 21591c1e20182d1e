---------------------------- MODULE SerialProofs ----------------------------
(***************************************************************************)
(* Proofs about Serial for all sizes of internal_buffer and of the user's  *)
(* buffers, all settings and every bound.  First the types, that settings  *)
(* and device agree while the port is in use, and that the copy loop of    *)
(* isReadAlready() stays inside the user's buffer unless a port event has  *)
(* been counted as bytes.  The last is not inductive: what a ReadFile      *)
(* asked for is only known to fit by the poll after it (PortionFits), and  *)
(* that it came into a buffer of the right length at all is what           *)
(* SettingsHold says.                                                      *)
(*                                                                         *)
(* Then that every byte is handed out once and in order, however the       *)
(* driver cuts the bytes into portions.  A step on a port in use moves     *)
(* bytes between the four places of Received and leaves their              *)
(* concatenation alone, appends the byte that arrives, or purges the end   *)
(* (StepReceived).  That nothing is left of an earlier use when open()     *)
(* succeeds is Fresh: since close() never gives the handle back, it        *)
(* succeeds once.                                                          *)
(***************************************************************************)
EXTENDS Serial, SequenceTheorems, TLAPS

\* What has been gathered has room; without a started read nothing has been.
GotFits == Len(got) <= size

\* What the ReadFile under way has moved still fits behind it.
PortionFits == Usable /\ size # None /\ signalled /\ ~spurious => Len(got) + count <= size

SInv == TypeOK /\ SettingsHold /\ GotFits /\ PortionFits /\ OverrunOnlyByEvent

Cells == 0..MaxBytes

-----------------------------------------------------------------------------
LEMMA NoneIsNoSize == \A n \in Sizes : n \in Nat /\ n # None
  BY SerialAssumption DEF None

LEMMA EmptyBuffer == <<>> \in Seq(Cells) /\ Len(<<>>) = 0
  OBVIOUS

LEMMA NewInternalType ==
  ASSUME bufferSize \in InternalSizes
  PROVE  NewInternal \in Seq(Cells) /\ Len(NewInternal) = bufferSize
  BY SerialAssumption DEF NewInternal, Cells

\* A ReadFile leaves internal_buffer as long as it was and moves no more than it
\* was asked for, and nothing when it fails.
LEMMA ReadFileFacts ==
  ASSUME SInv, NEW n \in Nat, ReadFile(Asked(n))
  PROVE  /\ internal' \in Seq(Cells) /\ Len(internal') = Len(internal)
         /\ rx' \in Seq(1..MaxBytes)
         /\ signalled' \in BOOLEAN /\ count' \in Nat /\ readError' \in BOOLEAN
         /\ count' <= bufferSize /\ count' <= n
<1> USE SerialAssumption DEF SInv, TypeOK
<1>1. CASE ~readError'
  <2> DEFINE k == Smaller(Asked(n), Len(rx))
  <2>1. k \in Nat /\ k <= n /\ k <= bufferSize /\ k <= Len(rx)
    BY DEF Smaller, Asked
  <2>2. /\ internal' = [i \in DOMAIN internal |-> IF i <= k THEN rx[i] ELSE internal[i]]
        /\ rx' = SubSeq(rx, k + 1, Len(rx))
        /\ signalled' = TRUE /\ count' = k /\ readError' = FALSE
    BY <1>1 DEF ReadFile, RequestFails
  <2>3. internal' \in Seq(Cells) /\ Len(internal') = Len(internal)
    <3>1. ASSUME NEW i \in 1..Len(internal)
          PROVE  (IF i <= k THEN rx[i] ELSE internal[i]) \in Cells
      <4>1. internal[i] \in Cells
        <5>1. internal \in Seq(Cells)
          BY DEF Cells
        <5> HIDE DEF SInv, TypeOK
        <5> QED BY <5>1
      <4>2. i <= k => rx[i] \in Cells
        <5>1. rx \in Seq(1..MaxBytes) /\ i \in Nat /\ i >= 1
          OBVIOUS
        <5> HIDE DEF k
        <5>2. i <= k => i \in 1..Len(rx)
          BY <2>1, <5>1
        <5> QED BY <5>1, <5>2 DEF Cells
      <4> HIDE DEF k
      <4> QED BY <4>1, <4>2
    <3>2. DOMAIN internal = 1..Len(internal) /\ Len(internal) \in Nat
      OBVIOUS
    <3> HIDE DEF k
    <3> QED BY <2>2, <3>1, <3>2
  <2> HIDE DEF k
  <2>4. rx' \in Seq(1..MaxBytes)
    <3>1. rx \in Seq(1..MaxBytes)
      OBVIOUS
    <3>2. SubSeq(rx, k + 1, Len(rx)) \in Seq(1..MaxBytes)
      BY <2>1, <3>1
    <3> QED BY <2>2, <3>2
  <2> QED BY <2>1, <2>2, <2>3, <2>4
<1>2. CASE readError'
  <2>1. UNCHANGED <<internal, rx>> /\ signalled' = TRUE /\ count' = 0 /\ readError' = TRUE
    BY <1>2 DEF ReadFile, RequestFails
  <2>2. bufferSize \in Nat /\ bufferSize >= 0 /\ n >= 0
    OBVIOUS
  <2> QED BY <2>1, <2>2 DEF Cells
<1> QED BY <1>1, <1>2

\* What isReadAlready() has gathered on a port in use.
LEMMA GatheredFacts ==
  ASSUME SInv, Usable
  PROVE  Gathered \in Seq(Cells) /\ Len(Gathered) = Len(got) + count
<1> USE SerialAssumption DEF SInv, TypeOK
<1>1. count \in 0..Len(internal)
  BY DEF SettingsHold
<1>2. SubSeq(internal, 1, count) \in Seq(Cells) /\ Len(SubSeq(internal, 1, count)) = count
  BY <1>1 DEF Cells
<1>3. got \in Seq(Cells)
  BY DEF Cells
<1>4. Len(got) \in Nat /\ count \in Nat
  OBVIOUS
<1> HIDE DEF SInv, TypeOK
<1> QED BY <1>2, <1>3, <1>4 DEF Gathered

\* An event of the port hits a started read, or none is under way.
LEMMA CommEventFacts ==
  ASSUME SInv, CommEvent, UNCHANGED <<size, got, bufferSize, isOpen, readEvent>>
  PROVE  /\ signalled' \in BOOLEAN /\ readError' \in BOOLEAN /\ spurious' \in BOOLEAN
         /\ count' \in Nat /\ (Usable' => count' <= bufferSize')
         /\ spurious => spurious'
         /\ PortionFits'
<1> USE SerialAssumption DEF SInv, TypeOK, CommEvent
<1>1. CASE commWait
  <2>1. spurious' = (spurious \/ size # None)
    BY <1>1
  <2>2. spurious' \in BOOLEAN /\ (spurious => spurious') /\ (size # None => spurious')
    BY <2>1, Zenon
  <2>3. count' \in Nat /\ count' <= bufferSize
    <3>1. count' \in EventCounts
      BY <1>1
    <3>2. EventCounts \subseteq 0..bufferSize
      OBVIOUS
    <3> QED BY <3>1, <3>2
  <2>4. signalled' = TRUE /\ readError' = FALSE
    BY <1>1
  <2> QED BY <2>2, <2>3, <2>4 DEF PortionFits
<1>2. CASE ~commWait
  <2>1. UNCHANGED <<signalled, count, readError, spurious>>
    BY <1>2 DEF syncVars
  <2> QED BY <2>1 DEF PortionFits, Usable
<1> QED BY <1>1, <1>2

-----------------------------------------------------------------------------
LEMMA InitSInv == Init => SInv
<1> SUFFICES ASSUME Init PROVE SInv
  OBVIOUS
<1> USE SerialAssumption DEF Init
<1>1. TypeOK
  <2>1. /\ internal \in Seq(Cells) /\ Len(internal) \in {0} \cup InternalSizes
        /\ got \in Seq(Cells) /\ Len(got) <= size
        /\ rx \in Seq(1..MaxBytes) /\ taken \in Seq(Cells)
    BY EmptyBuffer DEF None
  <2>2. size \in Sizes \cup {None} /\ arrived \in 0..MaxBytes /\ opens \in 0..MaxOpens
    OBVIOUS
  <2>3. count \in Nat /\ (Usable => count <= bufferSize)
    BY DEF Usable
  <2> QED BY <2>1, <2>2, <2>3 DEF TypeOK, Cells
<1>2. SettingsHold /\ GotFits /\ PortionFits /\ OverrunOnlyByEvent
  BY DEF SettingsHold, GotFits, PortionFits, OverrunOnlyByEvent, Usable, None
<1> QED BY <1>1, <1>2 DEF SInv

\* The settings are only changed on a closed port.
LEMMA ConfigureSInv == SInv /\ Configure => SInv'
<1> SUFFICES ASSUME SInv, Configure PROVE SInv'
  OBVIOUS
<1> USE DEF SInv, Configure, userVars, syncVars, writeVars, history
<1>1. TypeOK'
  BY DEF TypeOK, Usable
<1>2. (SettingsHold /\ GotFits /\ PortionFits /\ OverrunOnlyByEvent)'
  BY DEF SettingsHold, GotFits, PortionFits, OverrunOnlyByEvent, Usable
<1> QED BY <1>1, <1>2

\* open() allocates internal_buffer with the size of the moment and sets the device.
LEMMA OpenSInv ==
  ASSUME SInv, Open \/ OpenFails \/ ConfigureFails \/ EventsFail
  PROVE  SInv'
<1> USE SerialAssumption
        DEF SInv, CountOpen, settings, userVars, syncVars, writeVars, history
<1>1. NewInternal \in Seq(Cells) /\ Len(NewInternal) = bufferSize
  BY NewInternalType DEF TypeOK
<1>2. opens' \in 0..MaxOpens
  BY DEF TypeOK, Open, OpenFails, ConfigureFails, EventsFail
<1>3. CASE Open
  <2>1. internal' \in Seq(Cells) /\ Len(internal') \in {0} \cup InternalSizes
    BY <1>1, <1>3 DEF TypeOK, Open
  <2>2. count' \in Nat /\ count' <= bufferSize' /\ applied' \in LineSettings
    BY <1>3 DEF TypeOK, Open
  <2>3. TypeOK'
    <3>1. /\ isOpen' = TRUE /\ held' = TRUE /\ readEvent' = TRUE
          /\ signalled' = FALSE /\ readError' = FALSE /\ commWait' = TRUE
          /\ UNCHANGED <<bufferSize, line, size, got, rx, arrived, writing, sending,
                         writeError, overrun, taken, spurious, flushed>>
      BY <1>3 DEF Open
    <3> HIDE DEF SInv, CountOpen
    <3>2. /\ bufferSize' \in InternalSizes /\ line' \in LineSettings
          /\ size' \in Sizes \cup {None}
          /\ got' \in Seq(0..MaxBytes) /\ (overrun' \/ Len(got') <= size')
      BY <3>1 DEF SInv, TypeOK
    <3>3. /\ rx' \in Seq(1..MaxBytes) /\ arrived' \in 0..MaxBytes
          /\ writing' \in BOOLEAN /\ sending' \in BOOLEAN /\ writeError' \in BOOLEAN
          /\ overrun' \in BOOLEAN /\ taken' \in Seq(0..MaxBytes)
          /\ spurious' \in BOOLEAN /\ flushed' \in BOOLEAN
      BY <3>1 DEF SInv, TypeOK
    <3>4. /\ isOpen' \in BOOLEAN /\ held' \in BOOLEAN /\ readEvent' \in BOOLEAN
          /\ signalled' \in BOOLEAN /\ readError' \in BOOLEAN /\ commWait' \in BOOLEAN
      BY <3>1
    <3>5. internal' \in Seq(0..MaxBytes) /\ Len(internal') \in {0} \cup InternalSizes
      BY <2>1 DEF Cells
    <3> QED BY <1>2, <2>2, <3>2, <3>3, <3>4, <3>5 DEF TypeOK
  <2>4. (SettingsHold /\ GotFits /\ PortionFits /\ OverrunOnlyByEvent)'
    BY <1>1, <1>3 DEF TypeOK, Open, SettingsHold, GotFits, PortionFits, OverrunOnlyByEvent
  <2> QED BY <2>3, <2>4
<1>4. CASE OpenFails \/ EventsFail
  <2>1. isOpen' = FALSE
    BY <1>4 DEF OpenFails, EventsFail
  <2>2. TypeOK'
    <3>1. /\ held' \in BOOLEAN /\ readEvent' \in BOOLEAN /\ applied' \in LineSettings
          /\ internal' = NewInternal
          /\ UNCHANGED <<settings, userVars, syncVars, commWait, rx, arrived, writeVars,
                         overrun, history>>
      BY <1>4 DEF TypeOK, OpenFails, EventsFail
    <3>2. internal' \in Seq(0..MaxBytes) /\ Len(internal') \in {0} \cup InternalSizes
      BY <1>1, <3>1 DEF TypeOK, Cells
    <3>3. /\ bufferSize' \in InternalSizes /\ line' \in LineSettings
          /\ size' \in Sizes \cup {None}
          /\ got' \in Seq(0..MaxBytes) /\ (overrun' \/ Len(got') <= size')
          /\ signalled' \in BOOLEAN /\ readError' \in BOOLEAN /\ commWait' \in BOOLEAN
          /\ count' \in Nat
      BY <3>1 DEF TypeOK
    <3>4. /\ rx' \in Seq(1..MaxBytes) /\ arrived' \in 0..MaxBytes
          /\ writing' \in BOOLEAN /\ sending' \in BOOLEAN /\ writeError' \in BOOLEAN
          /\ overrun' \in BOOLEAN /\ taken' \in Seq(0..MaxBytes)
          /\ spurious' \in BOOLEAN /\ flushed' \in BOOLEAN
      BY <3>1 DEF TypeOK
    <3> HIDE DEF SInv, CountOpen
    <3> QED BY <1>2, <2>1, <3>1, <3>2, <3>3, <3>4 DEF TypeOK, Usable
  <2>3. (SettingsHold /\ GotFits /\ PortionFits /\ OverrunOnlyByEvent)'
    BY <1>4, <2>1
       DEF OpenFails, EventsFail, SettingsHold, GotFits, PortionFits, OverrunOnlyByEvent, Usable
  <2> QED BY <2>2, <2>3
<1>5. CASE ConfigureFails
  <2>1. internal' \in Seq(Cells) /\ Len(internal') \in {0} \cup InternalSizes
    BY <1>1, <1>5, EmptyBuffer DEF TypeOK, ConfigureFails
  <2>2. TypeOK'
    BY <1>2, <1>5, <2>1 DEF TypeOK, ConfigureFails, Usable, Cells
  <2>3. (SettingsHold /\ GotFits /\ PortionFits /\ OverrunOnlyByEvent)'
    BY <1>5 DEF ConfigureFails, SettingsHold, GotFits, PortionFits, OverrunOnlyByEvent, Usable
  <2> QED BY <2>2, <2>3
<1> QED BY <1>3, <1>4, <1>5

LEMMA CloseSInv == SInv /\ Close => SInv'
<1> SUFFICES ASSUME SInv, Close PROVE SInv'
  OBVIOUS
<1> USE DEF SInv, Close, settings, userVars, syncVars, writeVars, history
<1>1. TypeOK'
  <2>1. internal' \in Seq(0..MaxBytes) /\ Len(internal') \in {0} \cup InternalSizes
    BY EmptyBuffer
  <2> QED BY <2>1 DEF TypeOK, Usable
<1>2. (SettingsHold /\ GotFits /\ PortionFits /\ OverrunOnlyByEvent)'
  BY DEF SettingsHold, GotFits, PortionFits, OverrunOnlyByEvent, Usable
<1> QED BY <1>1, <1>2

LEMMA FlushSInv == SInv /\ Flush => SInv'
<1> SUFFICES ASSUME SInv, Flush PROVE SInv'
  OBVIOUS
<1> USE DEF SInv, Flush, portVars, settings, userVars, syncVars, writeVars, history
<1>1. flushed' \in BOOLEAN
  BY Zenon
<1>2. TypeOK'
  BY <1>1 DEF TypeOK, Usable
<1>3. (SettingsHold /\ GotFits /\ PortionFits /\ OverrunOnlyByEvent)'
  BY DEF SettingsHold, GotFits, PortionFits, OverrunOnlyByEvent, Usable
<1> QED BY <1>2, <1>3

-----------------------------------------------------------------------------
\* The first ReadFile asks for no more than the empty buffer takes.
LEMMA ReadSInv ==
  ASSUME SInv, NEW n \in Sizes, Read(n)
  PROVE  SInv'
<1> USE DEF SInv, Read, portVars, settings, writeVars, history
<1>1. n \in Nat /\ n # None
  BY NoneIsNoSize
<1>2. /\ internal' \in Seq(Cells) /\ Len(internal') = Len(internal)
      /\ rx' \in Seq(1..MaxBytes)
      /\ signalled' \in BOOLEAN /\ count' \in Nat /\ readError' \in BOOLEAN
      /\ count' <= bufferSize /\ count' <= n
  BY <1>1, ReadFileFacts
<1>3. Len(got) = 0
  BY DEF TypeOK, GotFits, None
<1>4. TypeOK'
  BY <1>1, <1>2, <1>3 DEF TypeOK, Usable, Cells
<1>5. GotFits' /\ PortionFits'
  <2>1. size' = n /\ Len(got') = 0 /\ (Usable' => Usable)
    BY <1>3 DEF Usable
  <2>2. GotFits'
    BY <1>1, <2>1 DEF GotFits
  <2>3. Usable' => Len(got') + count' <= size'
    <3>1. Usable' => count' <= n
      BY <1>2, <2>1
    <3>2. count' \in Nat
      BY <1>2
    <3>3. size' = n /\ Len(got') = 0
      BY <2>1
    <3> HIDE DEF SInv, Read
    <3> QED BY <3>1, <3>2, <3>3
  <2> QED BY <2>2, <2>3 DEF PortionFits
<1>6. SettingsHold' /\ OverrunOnlyByEvent'
  BY <1>2 DEF SettingsHold, OverrunOnlyByEvent, Usable
<1> QED BY <1>4, <1>5, <1>6

LEMMA ReadAlreadySInv == SInv /\ ReadAlready => SInv'
<1> SUFFICES ASSUME SInv, ReadAlready PROVE SInv'
  OBVIOUS
<1> USE DEF SInv, ReadAlready, portVars, settings, syncVars, writeVars, history
<1>1. Gathered \in Seq(Cells)
  BY GatheredFacts DEF Arrives
<1>2. taken' \in Seq(Cells)
  BY <1>1 DEF TypeOK, Cells
<1>3. TypeOK'
  BY <1>2 DEF TypeOK, Usable, Cells, None
<1>4. (SettingsHold /\ GotFits /\ PortionFits /\ OverrunOnlyByEvent)'
  BY DEF SettingsHold, GotFits, PortionFits, OverrunOnlyByEvent, Usable, None
<1> QED BY <1>3, <1>4

\* The next ReadFile asks for no more than what is missing.
LEMMA ReadOnSInv == SInv /\ ReadOn => SInv'
<1> SUFFICES ASSUME SInv, ReadOn PROVE SInv'
  OBVIOUS
<1> USE DEF SInv, ReadOn, portVars, settings, writeVars, history
<1>1. Gathered \in Seq(Cells) /\ Len(Gathered) < size /\ size \in Nat
  BY GatheredFacts, NoneIsNoSize DEF Arrives, TypeOK
<1>2. size - Len(Gathered) \in Nat
  BY <1>1
<1>3. /\ internal' \in Seq(Cells) /\ Len(internal') = Len(internal)
      /\ rx' \in Seq(1..MaxBytes)
      /\ signalled' \in BOOLEAN /\ count' \in Nat /\ readError' \in BOOLEAN
      /\ count' <= bufferSize /\ count' <= size - Len(Gathered)
  BY <1>2, ReadFileFacts
<1>4. TypeOK'
  BY <1>1, <1>3 DEF TypeOK, Usable, Cells
<1>5. (SettingsHold /\ GotFits /\ PortionFits /\ OverrunOnlyByEvent)'
  BY <1>1, <1>3
     DEF TypeOK, SettingsHold, GotFits, PortionFits, OverrunOnlyByEvent, Usable
<1> QED BY <1>4, <1>5

\* The copy loop only passes the end when PortionFits promises nothing.
LEMMA OverrunSInv == SInv /\ Overrun => SInv'
<1> SUFFICES ASSUME SInv, Overrun PROVE SInv'
  OBVIOUS
<1> USE DEF SInv, Overrun, portVars, settings, userVars, syncVars, writeVars, history
<1>1. spurious
  <2>1. Len(Gathered) = Len(got) + count /\ Len(got) + count > size
    BY GatheredFacts DEF Arrives
  <2>2. size \in Nat /\ Len(got) + count \in Nat
    BY NoneIsNoSize DEF TypeOK, None
  <2> QED BY <2>1, <2>2 DEF PortionFits, Arrives
<1>2. TypeOK'
  BY DEF TypeOK, Usable
<1>3. (SettingsHold /\ GotFits /\ PortionFits /\ OverrunOnlyByEvent)'
  BY <1>1 DEF SettingsHold, GotFits, PortionFits, OverrunOnlyByEvent, Usable
<1> QED BY <1>2, <1>3

LEMMA WriteSInv == SInv /\ (Write \/ WriteAlready) => SInv'
<1> SUFFICES ASSUME SInv, Write \/ WriteAlready PROVE SInv'
  OBVIOUS
<1> USE DEF SInv, Write, WriteAlready, portVars, settings, userVars, syncVars, history
<1>1. TypeOK'
  <2>1. writing' \in BOOLEAN /\ sending' \in BOOLEAN /\ writeError' \in BOOLEAN
    BY DEF TypeOK
  <2>2. UNCHANGED <<portVars, internal, userVars, syncVars, commWait, rx, arrived,
                    overrun, history>>
    OBVIOUS
  <2> QED BY <2>1, <2>2 DEF TypeOK, Usable
<1>2. (SettingsHold /\ GotFits /\ PortionFits /\ OverrunOnlyByEvent)'
  BY DEF SettingsHold, GotFits, PortionFits, OverrunOnlyByEvent, Usable
<1> QED BY <1>1, <1>2

LEMMA DeviceSInv == SInv /\ (ByteArrives \/ OutputSent) => SInv'
<1> SUFFICES ASSUME SInv, ByteArrives \/ OutputSent PROVE SInv'
  OBVIOUS
<1> USE DEF SInv, ByteArrives, OutputSent, portVars, settings, userVars, writeVars
<1>1. /\ signalled' \in BOOLEAN /\ spurious' \in BOOLEAN
      /\ count' \in Nat /\ (Usable' => count' <= bufferSize')
      /\ spurious => spurious'
      /\ PortionFits'
  BY CommEventFacts
<1>2. commWait' \in BOOLEAN
  BY DEF CommEvent
<1>3. rx' \in Seq(1..MaxBytes) /\ arrived' \in 0..MaxBytes
  <2>1. CASE ByteArrives
    <3>1. arrived + 1 \in 1..MaxBytes /\ rx \in Seq(1..MaxBytes)
      BY <2>1, SerialAssumption DEF TypeOK
    <3> QED BY <2>1, <3>1
  <2>2. CASE OutputSent
    BY <2>2 DEF TypeOK
  <2> QED BY <2>1, <2>2
<1>4. /\ readError' \in BOOLEAN
      /\ writing' \in BOOLEAN /\ sending' \in BOOLEAN /\ writeError' \in BOOLEAN
  BY CommEventFacts DEF TypeOK
<1>5. TypeOK'
  BY <1>1, <1>2, <1>3, <1>4 DEF TypeOK
<1>6. (SettingsHold /\ GotFits /\ OverrunOnlyByEvent)'
  BY <1>1 DEF SettingsHold, GotFits, OverrunOnlyByEvent, Usable
<1> QED BY <1>1, <1>5, <1>6

\* A request that fails moves nothing.
LEMMA FailureSInv == SInv /\ (WaitFails \/ OutputFails) => SInv'
<1> SUFFICES ASSUME SInv, WaitFails \/ OutputFails PROVE SInv'
  OBVIOUS
<1> USE DEF SInv, portVars, settings, userVars
<1>1. CASE WaitFails
  <2> USE <1>1 DEF WaitFails, RequestFails, writeVars
  <2>1. spurious' \in BOOLEAN /\ (spurious => spurious') /\ (size # None => spurious')
    BY Zenon DEF TypeOK
  <2>2. bufferSize \in Nat /\ count' = 0
    BY SerialAssumption DEF TypeOK
  <2>3. TypeOK'
    <3>1. /\ signalled' = TRUE /\ readError' = TRUE /\ commWait' = FALSE
          /\ count' \in Nat /\ count' <= bufferSize
      BY <2>2
    <3>2. got' \in Seq(0..MaxBytes) /\ (overrun' \/ Len(got') <= size')
      BY DEF TypeOK
    <3> QED BY <2>1, <3>1, <3>2 DEF TypeOK, Usable
  <2>4. (SettingsHold /\ GotFits /\ PortionFits /\ OverrunOnlyByEvent)'
    BY <2>1 DEF SettingsHold, GotFits, PortionFits, OverrunOnlyByEvent, Usable
  <2> QED BY <2>3, <2>4
<1>2. CASE OutputFails
  <2> USE <1>2 DEF OutputFails, syncVars, history
  <2>1. TypeOK'
    <3>1. sending' \in BOOLEAN /\ writeError' \in BOOLEAN
      OBVIOUS
    <3>2. UNCHANGED <<portVars, internal, userVars, syncVars, commWait, rx, arrived,
                      writing, overrun, history>>
      OBVIOUS
    <3> HIDE DEF OutputFails
    <3> QED BY <3>1, <3>2 DEF TypeOK, Usable
  <2>2. (SettingsHold /\ GotFits /\ PortionFits /\ OverrunOnlyByEvent)'
    BY DEF SettingsHold, GotFits, PortionFits, OverrunOnlyByEvent, Usable
  <2> QED BY <2>1, <2>2
<1> QED BY <1>1, <1>2

LEMMA NextSInv == SInv /\ [Next]_vars => SInv'
<1> SUFFICES ASSUME SInv, [Next]_vars PROVE SInv'
  OBVIOUS
<1>1. CASE Configure \/ Close \/ Flush
  BY <1>1, ConfigureSInv, CloseSInv, FlushSInv
<1>2. CASE Open \/ OpenFails \/ ConfigureFails \/ EventsFail
  BY <1>2, OpenSInv
<1>3. CASE \E n \in Sizes : Read(n)
  BY <1>3, ReadSInv
<1>4. CASE Poll
  BY <1>4, ReadAlreadySInv, ReadOnSInv, OverrunSInv DEF Poll
<1>5. CASE Write \/ WriteAlready
  BY <1>5, WriteSInv
<1>6. CASE Driver
  BY <1>6, DeviceSInv, FailureSInv DEF Driver
<1>7. CASE UNCHANGED vars
  <2>1. TypeOK'
    BY <1>7 DEF SInv, TypeOK, Usable, vars, portVars, settings, userVars, syncVars, writeVars, history
  <2>2. (SettingsHold /\ GotFits /\ PortionFits /\ OverrunOnlyByEvent)'
    BY <1>7 DEF SInv, SettingsHold, GotFits, PortionFits, OverrunOnlyByEvent, Usable,
                vars, portVars, settings, userVars, syncVars, writeVars, history
  <2> QED BY <2>1, <2>2 DEF SInv
<1> QED BY <1>1, <1>2, <1>3, <1>4, <1>5, <1>6, <1>7 DEF Next

LEMMA AlwaysSInv == Spec => []SInv
  BY InitSInv, NextSInv, PTL DEF Spec

-----------------------------------------------------------------------------
\* Serial is well typed, whatever its user does.
THEOREM SerialTypeCorrect == Spec => []TypeOK
<1>1. SInv => TypeOK
  BY DEF SInv
<1> QED BY <1>1, AlwaysSInv, PTL

\* No ReadFile is larger than internal_buffer, and the device has the settings of
\* the user: the setters, open() with its failures and close() keep that together.
THEOREM SettingsStay == Spec => []SettingsHold
<1>1. SInv => SettingsHold
  BY DEF SInv
<1> QED BY <1>1, AlwaysSInv, PTL

\* Only a port event that was counted as bytes carries the copy loop of
\* isReadAlready() past the user's buffer.
THEOREM CopyStaysInside == Spec => []OverrunOnlyByEvent
<1>1. SInv => OverrunOnlyByEvent
  BY DEF SInv
<1> QED BY <1>1, AlwaysSInv, PTL
-----------------------------------------------------------------------------
(* The order of the bytes.                                                 *)

Fresh ==
  ~held => /\ ~isOpen
           /\ arrived = 0 /\ rx = <<>>
           /\ taken = <<>> /\ size = None /\ got = <<>>

\* What holds of the bytes received while no port event hit a started read.
Ascending ==
  \A i \in 1..Len(Received) :
    Received[i] <= arrived /\ \A j \in 1..(i - 1) : Received[j] < Received[i]

Complete == Len(Received) = arrived /\ \A i \in 1..arrived : Received[i] = i

OrderInv ==
  /\ SInv /\ Fresh
  /\ Usable /\ ~spurious => Ascending /\ (~flushed => Complete)

-----------------------------------------------------------------------------
(* The pieces of Received.                                                 *)

PiecesTyped ==
  /\ taken \in Seq(Cells) /\ got \in Seq(Cells)
  /\ Pending \in Seq(Cells) /\ rx \in Seq(Cells)
  /\ Received \in Seq(Cells)

LEMMA Pieces == SInv /\ Usable => PiecesTyped
<1> SUFFICES ASSUME SInv, Usable PROVE PiecesTyped
  OBVIOUS
<1> USE SerialAssumption DEF SInv, TypeOK
<1>1. taken \in Seq(Cells) /\ got \in Seq(Cells)
  BY DEF Cells
<1>2. rx \in Seq(Cells)
  BY DEF Cells
<1>3. Pending \in Seq(Cells)
  <2>1. count \in 0..Len(internal)
    BY DEF SettingsHold
  <2>2. SubSeq(internal, 1, count) \in Seq(Cells)
    BY <2>1 DEF Cells
  <2> QED BY <2>2, EmptyBuffer DEF Pending
<1> HIDE DEF Pending, Cells
<1> QED BY <1>1, <1>2, <1>3 DEF Received, PiecesTyped

LEMMA PiecesNext == SInv' /\ Usable' => PiecesTyped'
  BY Pieces, PTL

\* What a ReadFile has moved to internal_buffer was at the head of the queue.
LEMMA ReadFileMoves ==
  ASSUME SInv, Usable, NEW n \in Nat, ReadFile(Asked(n))
  PROVE  signalled' /\ SubSeq(internal', 1, count') \o rx' = rx
<1> USE SerialAssumption DEF SInv, TypeOK
<1> DEFINE k == count'
<1>1. SubSeq(rx, 1, Len(rx)) = rx
  BY SubSeqFull
<1>2. /\ k \in 0..Len(rx) /\ k <= Len(internal)
      /\ rx' = SubSeq(rx, k + 1, Len(rx)) /\ signalled' = TRUE
      /\ \A i \in 1..k : internal'[i] = rx[i]
  <2>1. CASE readError'
    <3>1. UNCHANGED <<internal, rx>> /\ signalled' = TRUE /\ count' = 0
      BY <2>1 DEF ReadFile, RequestFails
    <3>2. Len(rx) \in Nat /\ Len(internal) \in Nat
      OBVIOUS
    <3> HIDE DEF SInv, TypeOK
    <3> QED BY <1>1, <3>1, <3>2
  <2>2. CASE ~readError'
    <3> DEFINE m == Smaller(Asked(n), Len(rx))
    <3>1. m \in 0..Len(rx) /\ m <= Len(internal)
      BY DEF Smaller, Asked, SettingsHold
    <3>2. /\ internal' = [i \in DOMAIN internal |-> IF i <= m THEN rx[i] ELSE internal[i]]
          /\ rx' = SubSeq(rx, m + 1, Len(rx))
          /\ signalled' = TRUE /\ count' = m
      BY <2>2 DEF ReadFile, RequestFails
    <3>3. DOMAIN internal = 1..Len(internal) /\ Len(internal) \in Nat
      OBVIOUS
    <3> HIDE DEF m, SInv, TypeOK
    <3> QED BY <3>1, <3>2, <3>3
  <2> QED BY <2>1, <2>2
<1>3. \A i \in 1..k : internal'[i] = rx[i]
  BY <1>2
<1> HIDE DEF k
<1>4. SubSeq(internal', 1, k) = SubSeq(rx, 1, k)
  <2>1. ASSUME NEW i \in 1..k PROVE internal'[i] \in Nat /\ rx[i] \in Nat
    <3>1. rx \in Seq(1..MaxBytes) /\ i \in 1..Len(rx)
      BY <1>2
    <3>2. rx[i] \in 1..MaxBytes
      BY <3>1
    <3> QED BY <1>3, <3>2
  <2>2. /\ SubSeq(internal', 1, k) \in Seq(Nat) /\ Len(SubSeq(internal', 1, k)) = k
        /\ \A i \in 1..k : SubSeq(internal', 1, k)[i] = internal'[i]
    BY <1>2, <2>1, SubSeqProperties
  <2>3. /\ SubSeq(rx, 1, k) \in Seq(Nat) /\ Len(SubSeq(rx, 1, k)) = k
        /\ \A i \in 1..k : SubSeq(rx, 1, k)[i] = rx[i]
    BY <1>2, <2>1, SubSeqProperties
  <2> QED BY <1>3, <2>2, <2>3, SeqEqual
<1>5. SubSeq(rx, 1, k) \o SubSeq(rx, k + 1, Len(rx)) = SubSeq(rx, 1, Len(rx))
  <2>1. /\ rx \in Seq(1..MaxBytes) /\ 1 \in 1..(Len(rx) + 1)
        /\ k \in (1 - 1)..Len(rx) /\ Len(rx) \in k..Len(rx)
    BY <1>2
  <2> HIDE DEF SInv, TypeOK
  <2> QED BY <2>1, ConcatAdjacentSubSeq
<1> QED BY <1>1, <1>2, <1>4, <1>5 DEF k

-----------------------------------------------------------------------------
(* What each step does to Received.                                        *)

LEMMA ReadReceived ==
  ASSUME SInv, SInv', Usable, NEW n \in Sizes, Read(n)
  PROVE  Received' = Received
<1>1. /\ taken \in Seq(Cells) /\ rx \in Seq(Cells)
      /\ got = <<>> /\ got' = got /\ taken' = taken
  <2>1. Len(got) = 0 /\ got \in Seq(0..MaxBytes)
    BY DEF Read, SInv, TypeOK, GotFits, None
  <2> QED BY <2>1, Pieces DEF PiecesTyped, Read, history
<1>2. Pending' \o rx' = rx
  BY NoneIsNoSize, ReadFileMoves DEF Read, Pending
<1>3. Pending = <<>>
  BY DEF Read, Pending
<1>4. Pending' \in Seq(Cells) /\ rx' \in Seq(Cells)
  BY PiecesNext DEF PiecesTyped, Read, portVars, Usable
<1>5. Received = taken \o rx
  BY <1>1, <1>3, ConcatEmptySeq DEF Received
<1>6. Received' = taken \o (Pending' \o rx')
  BY <1>1, <1>4, ConcatEmptySeq, ConcatAssociative DEF Received
<1> QED BY <1>2, <1>5, <1>6

LEMMA ReadAlreadyReceived ==
  ASSUME SInv, ReadAlready
  PROVE  Received' = Received
<1>1. /\ taken \in Seq(Cells) /\ got \in Seq(Cells) /\ Pending \in Seq(Cells)
      /\ rx \in Seq(Cells)
  BY Pieces DEF PiecesTyped, ReadAlready, Arrives
<1>2. Gathered = got \o Pending
  BY DEF ReadAlready, Arrives, Gathered, Pending
<1>3. /\ taken' = taken \o (got \o Pending)
      /\ got' = <<>> /\ Pending' = <<>> /\ rx' = rx
  BY <1>2 DEF ReadAlready, Pending
<1>4. taken \o (got \o Pending) = (taken \o got) \o Pending
  BY <1>1, ConcatAssociative
<1>5. (taken \o got) \o Pending \in Seq(Cells)
  BY <1>1
<1>6. Received' = (((taken \o got) \o Pending) \o <<>> \o <<>>) \o rx
  BY <1>3, <1>4 DEF Received
<1> QED BY <1>5, <1>6, ConcatEmptySeq DEF Received

LEMMA ReadOnReceived ==
  ASSUME SInv, SInv', ReadOn
  PROVE  Received' = Received
<1>1. /\ taken \in Seq(Cells) /\ got \in Seq(Cells) /\ Pending \in Seq(Cells)
      /\ rx \in Seq(Cells) /\ Usable
  BY Pieces DEF PiecesTyped, ReadOn, Arrives
<1>2. Gathered = got \o Pending
  BY DEF ReadOn, Arrives, Gathered, Pending
<1>3. size - Len(Gathered) \in Nat
  <2>1. Len(Gathered) \in Nat /\ size \in Nat /\ Len(Gathered) < size
    BY <1>1, GatheredFacts, NoneIsNoSize DEF ReadOn, Arrives, SInv, TypeOK
  <2> QED BY <2>1
<1>4. /\ taken' = taken /\ got' = got \o Pending
      /\ Pending' \o rx' = rx
  BY <1>1, <1>2, <1>3, ReadFileMoves DEF ReadOn, Arrives, Pending, history
<1>5. Pending' \in Seq(Cells) /\ rx' \in Seq(Cells)
  BY <1>1, PiecesNext DEF PiecesTyped, ReadOn, portVars, Usable
<1>6. Received' = ((taken \o (got \o Pending)) \o Pending') \o rx'
  BY <1>4 DEF Received
<1>7. taken \o (got \o Pending) = (taken \o got) \o Pending
  BY <1>1, ConcatAssociative
<1>8. (taken \o got) \o Pending \in Seq(Cells)
  BY <1>1
<1>9. (((taken \o got) \o Pending) \o Pending') \o rx' = ((taken \o got) \o Pending) \o rx
  <2> DEFINE a == (taken \o got) \o Pending
  <2>1. a \in Seq(Cells)
    BY <1>8
  <2> HIDE DEF a
  <2>2. (a \o Pending') \o rx' = a \o (Pending' \o rx')
    BY <1>5, <2>1, ConcatAssociative
  <2> QED BY <1>4, <2>2 DEF a
<1> QED BY <1>6, <1>7, <1>9 DEF Received

\* An event of the port that hits no started read leaves the bytes it has moved alone.
LEMMA EventPending ==
  ASSUME CommEvent, ~(commWait /\ size # None), UNCHANGED <<size, internal>>
  PROVE  Pending' = Pending
<1>1. CASE commWait
  BY <1>1 DEF Pending
<1>2. CASE ~commWait
  BY <1>2 DEF CommEvent, Pending, syncVars
<1> QED BY <1>1, <1>2

\* A byte that arrives is the next one.
LEMMA ArrivesAppends ==
  ASSUME SInv, Usable, ByteArrives, ~(commWait /\ size # None)
  PROVE  Received' = Append(Received, arrived')
<1>1. Pending' = Pending
  BY EventPending DEF ByteArrives, userVars
<1>2. /\ taken' = taken /\ got' = got
      /\ rx' = rx \o <<arrived'>> /\ arrived' \in Cells
  <2>1. arrived' \in Cells /\ rx \in Seq(Nat) /\ rx' = Append(rx, arrived')
    BY SerialAssumption DEF ByteArrives, SInv, TypeOK, Cells
  <2> QED BY <2>1, AppendIsConcat DEF ByteArrives, userVars
<1> DEFINE a == (taken \o got) \o Pending
<1>3. a \in Seq(Cells) /\ rx \in Seq(Cells) /\ Received = a \o rx
  BY Pieces DEF PiecesTyped, Received
<1>4. Received' = a \o (rx \o <<arrived'>>)
  BY <1>1, <1>2 DEF Received
<1> HIDE DEF a
<1>5. <<arrived'>> \in Seq(Cells)
  BY <1>2
<1>6. a \o (rx \o <<arrived'>>) = (a \o rx) \o <<arrived'>>
  BY <1>3, <1>5, ConcatAssociative
<1>7. a \o rx \in Seq(Cells)
  BY <1>3
<1>8. (a \o rx) \o <<arrived'>> = Append(a \o rx, arrived')
  BY <1>2, <1>7, AppendIsConcat
<1> QED BY <1>1, <1>3, <1>4, <1>6, <1>8

LEMMA ArrivesReceived ==
  ASSUME SInv, Usable, ByteArrives, ~spurious'
  PROVE  ~spurious /\ Received' = Append(Received, arrived')
<1>1. ~spurious /\ ~(commWait /\ size # None)
  BY DEF ByteArrives, CommEvent
<1> QED BY <1>1, ArrivesAppends

\* A flush takes away the end of Received, if anything.
LEMMA FlushReceived ==
  ASSUME SInv, Usable, Flush
  PROVE  Received = Received' \o rx /\ Received' \in Seq(Cells)
<1> DEFINE a == (taken \o got) \o Pending
<1>1. a \in Seq(Cells) /\ Received = a \o rx
  BY Pieces DEF PiecesTyped, Received
<1>2. Received' = a \o <<>>
  BY DEF Flush, Received, Pending, userVars, syncVars
<1> HIDE DEF a
<1> QED BY <1>1, <1>2, ConcatEmptySeq

\* The steps that move no byte.
Elsewhere ==
  \/ Overrun \/ Write \/ WriteAlready
  \/ OutputSent \/ WaitFails \/ OutputFails \/ UNCHANGED vars

LEMMA ElsewhereReceived ==
  ASSUME Elsewhere, ~spurious'
  PROVE  ~spurious /\ UNCHANGED <<Received, arrived, flushed, isOpen, readEvent, held>>
<1>1. UNCHANGED <<taken, got, size, internal, rx, arrived, flushed, isOpen, readEvent, held>>
  BY DEF Elsewhere, Overrun, Write, WriteAlready, OutputSent, WaitFails, OutputFails, vars,
         portVars, userVars, history
<1>2. CASE OutputSent
  BY <1>1, <1>2 DEF OutputSent, CommEvent, Received, Pending, syncVars
<1>3. CASE WaitFails
  BY <1>1, <1>3 DEF WaitFails, Received, Pending
<1>4. CASE Overrun \/ Write \/ WriteAlready \/ OutputFails \/ UNCHANGED vars
  <2>1. UNCHANGED <<signalled, count, spurious>>
    BY <1>4 DEF Overrun, Write, WriteAlready, OutputFails, vars, syncVars, history
  <2> QED BY <1>1, <2>1 DEF Received, Pending
<1> QED BY <1>2, <1>3, <1>4 DEF Elsewhere

-----------------------------------------------------------------------------
(* The invariant.                                                          *)

LEMMA NextFresh == Fresh /\ [Next]_vars => Fresh'
<1> SUFFICES ASSUME Fresh, [Next]_vars PROVE Fresh'
  OBVIOUS
<1> USE DEF Fresh, portVars, settings, userVars, history
<1>1. CASE Configure \/ Close \/ Flush
  BY <1>1 DEF Configure, Close, Flush
<1>2. CASE Open \/ OpenFails \/ ConfigureFails \/ EventsFail
  BY <1>2 DEF Open, OpenFails, ConfigureFails, EventsFail
<1>3. CASE \E n \in Sizes : Read(n)
  BY <1>3 DEF Read
<1>4. CASE Poll
  BY <1>4 DEF Poll, ReadAlready, ReadOn, Overrun, Arrives, Usable
<1>5. CASE Write \/ WriteAlready
  BY <1>5 DEF Write, WriteAlready
<1>6. CASE Driver
  BY <1>6 DEF Driver, ByteArrives, OutputSent, WaitFails, OutputFails
<1>7. CASE UNCHANGED vars
  BY <1>7 DEF vars
<1> QED BY <1>1, <1>2, <1>3, <1>4, <1>5, <1>6, <1>7 DEF Next

\* What the steps that keep Received keep of the invariant.
LEMMA SameReceived ==
  ASSUME Ascending /\ (~flushed => Complete), UNCHANGED <<Received, arrived, flushed>>
  PROVE  Ascending' /\ (~flushed' => Complete')
  BY DEF Ascending, Complete

LEMMA OpenOrder ==
  ASSUME Fresh, Open
  PROVE  Ascending' /\ Complete'
<1>1. /\ taken' = <<>> /\ got' = <<>> /\ Pending' = <<>> /\ rx' = <<>> /\ arrived' = 0
  BY DEF Fresh, Open, userVars, history, Pending
<1>2. Received' = <<>>
  BY <1>1 DEF Received
<1> QED BY <1>1, <1>2 DEF Ascending, Complete

LEMMA ArrivesOrder ==
  ASSUME SInv, Usable, ByteArrives, ~spurious', Ascending /\ (~flushed => Complete)
  PROVE  Ascending' /\ (~flushed' => Complete')
<1>1. /\ Received' = Append(Received, arrived') /\ arrived' = arrived + 1
      /\ flushed' = flushed /\ arrived \in Nat
  BY ArrivesReceived DEF ByteArrives, SInv, TypeOK
<1>2. Received \in Seq(Nat)
  <2>1. Cells \subseteq Nat
    BY SerialAssumption DEF Cells
  <2>2. Received \in Seq(Cells)
    BY Pieces DEF PiecesTyped
  <2> QED BY <2>1, <2>2, SeqMonotonic
<1>3. /\ Len(Received') = Len(Received) + 1 /\ Len(Received) \in Nat
      /\ \A i \in 1..Len(Received) : Received'[i] = Received[i] /\ Received[i] \in Nat
      /\ Received'[Len(Received) + 1] = arrived + 1
  BY <1>1, <1>2
<1> HIDE DEF Received
<1>4. Ascending'
  <2>1. \A i \in 1..Len(Received) : Received[i] <= arrived
    BY DEF Ascending
  <2>2. ASSUME NEW i \in 1..Len(Received) PROVE Received'[i] <= arrived'
    <3>1. Received[i] <= arrived /\ Received'[i] = Received[i] /\ Received[i] \in Nat
      BY <1>3, <2>1
    <3> QED BY <1>1, <3>1
  <2>3. ASSUME NEW i \in 1..Len(Received), NEW j \in 1..(i - 1)
        PROVE  Received'[j] < Received'[i]
    <3>1. j \in 1..Len(Received)
      OBVIOUS
    <3>2. Received[j] < Received[i]
      BY DEF Ascending
    <3> QED BY <1>3, <3>1, <3>2
  <2>4. ASSUME NEW j \in 1..Len(Received) PROVE Received'[j] < Received'[Len(Received) + 1]
    <3>1. Received[j] <= arrived /\ Received'[j] = Received[j] /\ Received[j] \in Nat
      BY <1>3, <2>1
    <3> QED BY <1>1, <1>3, <3>1
  <2> QED BY <1>1, <1>3, <2>2, <2>3, <2>4 DEF Ascending
<1>5. ~flushed' => Complete'
  BY <1>1, <1>3 DEF Complete
<1> QED BY <1>4, <1>5

LEMMA FlushOrder ==
  ASSUME SInv, Usable, Flush, Ascending /\ (~flushed => Complete)
  PROVE  Ascending' /\ (~flushed' => Complete')
<1>1. /\ Received = Received' \o rx /\ Received' \in Seq(Cells) /\ rx \in Seq(Cells)
      /\ arrived' = arrived
  BY FlushReceived, Pieces DEF PiecesTyped, Flush
<1>2. /\ Len(Received') <= Len(Received) /\ Len(Received') \in Nat /\ Len(Received) \in Nat
      /\ \A i \in 1..Len(Received') : Received'[i] = Received[i]
  BY <1>1, ConcatProperties
<1>3. Ascending'
  BY <1>1, <1>2 DEF Ascending
<1>4. ASSUME ~flushed' PROVE Complete'
  <2>1. rx = <<>> /\ ~flushed
    BY <1>4, Zenon DEF Flush
  <2>2. Received' = Received
    BY <1>1, <2>1, ConcatEmptySeq
  <2> QED BY <1>1, <2>1, <2>2 DEF Complete
<1> QED BY <1>3, <1>4

LEMMA NextOrderInv == OrderInv /\ [Next]_vars => OrderInv'
<1> SUFFICES ASSUME OrderInv, [Next]_vars PROVE OrderInv'
  OBVIOUS
<1>1. SInv /\ SInv' /\ Fresh /\ Fresh'
  BY NextSInv, NextFresh DEF OrderInv
<1> SUFFICES ASSUME Usable', ~spurious' PROVE Ascending' /\ (~flushed' => Complete')
  BY <1>1 DEF OrderInv
<1>2. CASE Configure \/ Close \/ OpenFails \/ ConfigureFails \/ EventsFail
  BY <1>2 DEF Configure, Close, OpenFails, ConfigureFails, EventsFail, Usable
<1>3. CASE Open
  BY <1>1, <1>3, OpenOrder
<1>4. ASSUME Usable /\ ~spurious, UNCHANGED <<Received, arrived, flushed>>
      PROVE  Ascending' /\ (~flushed' => Complete')
  BY <1>4, SameReceived DEF OrderInv
<1>5. ASSUME NEW n \in Sizes, Read(n) PROVE Ascending' /\ (~flushed' => Complete')
  <2>1. Usable /\ ~spurious /\ UNCHANGED <<arrived, flushed>>
    BY <1>5 DEF Read, Usable, portVars, history
  <2> QED BY <1>1, <1>4, <1>5, <2>1, ReadReceived
<1>6. CASE ReadAlready \/ ReadOn
  <2>1. Usable /\ ~spurious /\ UNCHANGED <<arrived, flushed>>
    BY <1>6 DEF ReadAlready, ReadOn, Arrives, history
  <2> QED BY <1>1, <1>4, <1>6, <2>1, ReadAlreadyReceived, ReadOnReceived
<1>7. CASE Flush
  <2>1. Usable /\ ~spurious
    BY <1>7 DEF Flush, Usable, portVars
  <2> QED BY <1>1, <1>7, <2>1, FlushOrder DEF OrderInv
<1>8. CASE ByteArrives
  <2>1. Usable
    BY <1>8 DEF ByteArrives, Usable, portVars
  <2>2. ~spurious
    BY <1>1, <1>8, <2>1, ArrivesReceived
  <2> QED BY <1>1, <1>8, <2>1, <2>2, ArrivesOrder DEF OrderInv
<1>9. CASE Elsewhere
  <2>1. Usable
    BY <1>9, ElsewhereReceived DEF Usable
  <2> QED BY <1>4, <1>9, <2>1, ElsewhereReceived
<1> QED BY <1>2, <1>3, <1>5, <1>6, <1>7, <1>8, <1>9
     DEF Next, Poll, Driver, Elsewhere

LEMMA InitOrderInv == Init => OrderInv
  BY InitSInv DEF Init, OrderInv, Fresh, Usable

LEMMA AlwaysOrderInv == Spec => []OrderInv
  BY InitOrderInv, NextOrderInv, PTL DEF Spec

-----------------------------------------------------------------------------
\* Every byte that came in is handed out, gathered or waiting, once and in its order,
\* while no port event hit a started read and nothing was flushed.
THEOREM NothingIsLost == Spec => []NothingLost
<1>1. OrderInv => NothingLost
  <2> SUFFICES ASSUME OrderInv, Usable, ~spurious, ~flushed
               PROVE  Received = [i \in 1..arrived |-> i]
    BY DEF NothingLost
  <2>1. Complete /\ Received \in Seq(Cells)
    BY Pieces DEF OrderInv, PiecesTyped
  <2>2. Received = [i \in 1..Len(Received) |-> Received[i]]
    BY <2>1
  <2> QED BY <2>1, <2>2 DEF Complete
<1> QED BY <1>1, AlwaysOrderInv, PTL

\* Flushes lose bytes, but never repeat or exchange any.
THEOREM OrderIsKept == Spec => []InOrder
<1>1. OrderInv => InOrder
  BY DEF OrderInv, Ascending, InOrder
<1> QED BY <1>1, AlwaysOrderInv, PTL
=============================================================================
