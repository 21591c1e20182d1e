--------------------------- MODULE ComWorkerProofs ---------------------------
(***************************************************************************)
(* Proofs about ComWorker, for every size of its package and of            *)
(* internal_buffer and every bound.                                        *)
(*                                                                         *)
(* That it never writes behind its buffer cannot be had from Serial, which *)
(* allows it.  It rests on the one port event of open(): until it comes    *)
(* nothing has arrived and nothing has been gathered (Quiet), so that the  *)
(* bytes it counts still fit into the read it hits (Room).                 *)
(*                                                                         *)
(* That packages are shown in order, and that one flush finds the frames   *)
(* again, is about the numbers of the bytes (ByteInv): what was received   *)
(* rises, and in step the part that is not behind goes on with the first   *)
(* byte of a package.                                                      *)
(***************************************************************************)
EXTENDS ComWorker, SerialProofs, Integers

Reading == {"readPoll", "writePoll", "console", "typing", "flushCommand"}
Between == {"open", "failed", "flush", "arm", "parse", "rearm"}

\* Where the loop's thread is tells what the port is doing.
Stage ==
  /\ pc \notin {"open", "failed", "ended"} => Usable
  /\ pc \in Between => size = None
  /\ pc \in Reading => size = PackageSize /\ signalled
  /\ size \in {None, PackageSize}
  /\ isOpen => held
  /\ pc = "open" => /\ ~held /\ ~sending /\ ~commWait /\ ~spurious /\ outgoing = "nothing"
                    /\ arrived = 0 /\ rx = <<>> /\ got = <<>> /\ taken = <<>>

\* The port event of open() comes with the first byte or the first emptied output.
Quiet ==
  commWait => /\ arrived = 0 /\ rx = <<>> /\ got = <<>> /\ count = 0 /\ taken = <<>>
              /\ ~spurious /\ \A i \in DOMAIN internal : internal[i] = 0

\* What the ReadFile under way has moved, or the event has counted, fits.
Room ==
  /\ ~overrun
  /\ Usable /\ size # None /\ signalled => Len(got) + count <= size

PortInv == SInv /\ Stage /\ Quiet /\ Room

-----------------------------------------------------------------------------
LEMMA PackageIsSize == PackageSize \in Sizes /\ PackageSize \in Nat /\ PackageSize # None
  BY WorkerAssumption, NoneIsNoSize

\* What AsyncSerial and ComWorker do with the port is what Serial does, but for the
\* end of the process.
LEMMA StepOfPort == [WorkerNext]_cvars => [Next]_vars \/ ProcessEnds
<1> SUFFICES ASSUME [WorkerNext]_cvars PROVE [Next]_vars \/ ProcessEnds
  OBVIOUS
<1>1. CASE SetUp \/ SetUpFails
  BY <1>1 DEF SetUp, SetUpFails, Next
<1>2. CASE FirstFlush \/ ParseError \/ FlushCommand
  BY <1>2 DEF FirstFlush, ParseError, FlushCommand, Next
<1>3. CASE FirstRead \/ ReadNext
  BY <1>3, PackageIsSize DEF FirstRead, ReadNext, AsyncRead, Next
<1>4. CASE ReadPoll
  BY <1>4 DEF ReadPoll, ReadNothing, ReadPortion, ReadComplete, Next, Poll
<1>5. CASE Show \/ NoKey \/ Key \/ OtherCommand \/ Rest
  BY <1>5 DEF Show, NoKey, Key, OtherCommand, Rest, cvars
<1>6. CASE WritePoll
  BY <1>6 DEF WritePoll, WriteNothing, WriteComplete, Next
<1>7. ASSUME NEW c, SendCommand(c) PROVE [Next]_vars
  BY <1>7 DEF SendCommand, AsyncWrite, Next
<1>8. ASSUME NEW c, CommandRefused(c) PROVE [Next]_vars
  BY <1>8 DEF CommandRefused, AsyncWriteThrows
<1>9. CASE Arrival \/ Sent \/ Failure
  BY <1>9 DEF Arrival, Sent, Failure, Driver, Next
<1>10. CASE UNCHANGED cvars
  BY <1>10 DEF cvars
<1> QED
  BY <1>1, <1>2, <1>3, <1>4, <1>5, <1>6, <1>7, <1>8, <1>9, <1>10 DEF WorkerNext, LoopStep, Entered

LEMMA ProcessEndsSInv == SInv /\ ProcessEnds => SInv'
<1> SUFFICES ASSUME SInv, ProcessEnds PROVE SInv'
  OBVIOUS
<1> USE DEF SInv, ProcessEnds, settings, userVars, syncVars, history
<1>1. TypeOK'
  BY DEF TypeOK, Usable
<1>2. (SettingsHold /\ GotFits /\ PortionFits /\ OverrunOnlyByEvent)'
  BY DEF SettingsHold, GotFits, PortionFits, OverrunOnlyByEvent, Usable
<1> QED BY <1>1, <1>2

\* A ReadFile that finds nothing in the queue, or fails, leaves everything as it was.
LEMMA EmptyReadFile ==
  ASSUME SInv, NEW n \in Nat, ReadFile(Asked(n)), rx = <<>>
  PROVE  rx' = <<>> /\ count' = 0 /\ internal' = internal
<1>1. CASE RequestFails /\ UNCHANGED <<internal, rx>>
  BY <1>1 DEF RequestFails
<1>2. CASE ~(RequestFails /\ UNCHANGED <<internal, rx>>)
  <2>1. Smaller(Asked(n), Len(rx)) = 0
    BY SerialAssumption DEF Smaller, Asked, SInv, TypeOK
  <2>2. /\ internal' = [i \in DOMAIN internal |-> IF i <= 0 THEN rx[i] ELSE internal[i]]
        /\ rx' = SubSeq(rx, 0 + 1, Len(rx)) /\ count' = 0
    BY <1>2, <2>1 DEF ReadFile
  <2>3. internal' = internal
    BY <2>2 DEF SInv, TypeOK
  <2>4. rx' = <<>>
    BY <2>2
  <2> QED BY <2>2, <2>3, <2>4
<1> QED BY <1>1, <1>2

-----------------------------------------------------------------------------
(* The port, step by step.                                                 *)

PortInvNext == (Stage /\ Quiet /\ Room)'

LEMMA SetUpPort == PortInv /\ (SetUp \/ SetUpFails) => PortInvNext
<1> SUFFICES ASSUME PortInv, SetUp \/ SetUpFails PROVE PortInvNext
  OBVIOUS
<1> USE DEF PortInv, PortInvNext, GoTo, history, userVars, syncVars, writeVars
<1>1. CASE SetUp
  <2>1. /\ Open /\ pc = "open" /\ pc' = "flush" /\ UNCHANGED <<outgoing, size, got, rx, arrived, taken>>
    BY <1>1 DEF SetUp, Open
  <2>2. Stage'
    BY <2>1 DEF Stage, Open, Usable, Reading, Between
  <2>3. Quiet'
    <3>1. \A i \in DOMAIN NewInternal : NewInternal[i] = 0
      BY DEF NewInternal
    <3>2. ~spurious'
      BY <2>1 DEF Open, Stage
    <3> QED BY <2>1, <3>1, <3>2 DEF Open, Stage, Quiet
  <2>4. Room'
    BY <2>1 DEF Open, Room, Stage, Between
  <2> QED BY <2>2, <2>3, <2>4
<1>2. CASE SetUpFails
  <2>1. /\ pc = "open" /\ pc' = "failed"
        /\ UNCHANGED <<size, commWait, overrun>>
        /\ ~Usable'
    BY <1>2 DEF SetUpFails, OpenFails, ConfigureFails, EventsFail, Usable
  <2>2. isOpen' => held'
    BY <1>2 DEF SetUpFails, OpenFails, ConfigureFails, EventsFail
  <2> QED BY <2>1, <2>2 DEF Stage, Quiet, Room, Between, Reading
<1> QED BY <1>1, <1>2

\* The input is purged between two reads, or while one is under way.
LEMMA FlushPort == PortInv /\ (FirstFlush \/ ParseError \/ FlushCommand) => PortInvNext
<1> SUFFICES ASSUME PortInv, FirstFlush \/ ParseError \/ FlushCommand PROVE PortInvNext
  OBVIOUS
<1>1. /\ Flush /\ pc # "open"
      /\ \/ pc \in Between /\ pc' \in {"arm", "rearm"}
         \/ pc \in Reading /\ pc' \in {"readPoll", "ended"}
      /\ pc \notin {"open", "failed", "ended"}
  BY DEF FirstFlush, ParseError, FlushCommand, GoTo, Between, Reading
<1>2. /\ rx' = <<>>
      /\ UNCHANGED <<isOpen, readEvent, held, size, got, signalled, count, internal, commWait,
                     arrived, overrun, taken, spurious>>
  BY <1>1 DEF Flush, portVars, userVars, syncVars
<1> QED BY <1>1, <1>2 DEF PortInv, PortInvNext, Stage, Quiet, Room, Usable, Between, Reading

\* The first ReadFile of a package.
LEMMA ReadPort == PortInv /\ (FirstRead \/ ReadNext) => PortInvNext
<1> SUFFICES ASSUME PortInv, FirstRead \/ ReadNext PROVE PortInvNext
  OBVIOUS
<1>1. /\ Read(PackageSize) /\ pc \in {"arm", "rearm"} /\ pc' \in {"readPoll", "writePoll"}
  BY DEF FirstRead, ReadNext, GoTo, AsyncRead
<1>2. /\ size' = PackageSize /\ ReadFile(Asked(PackageSize))
      /\ UNCHANGED <<isOpen, readEvent, held, got, commWait, arrived, overrun, taken, spurious>>
  BY <1>1 DEF Read, portVars, history
<1>3. Usable /\ SInv /\ size = None
  BY <1>1 DEF PortInv, Stage, Between
<1>4. signalled' = TRUE /\ count' \in Nat /\ count' <= PackageSize
  <2>1. signalled' = TRUE
    BY <1>2 DEF ReadFile, RequestFails
  <2> QED BY <1>2, <1>3, <2>1, PackageIsSize, ReadFileFacts
<1>5. Len(got) = 0
  BY <1>3 DEF SInv, GotFits, TypeOK, None
<1>6. Stage'
  BY <1>1, <1>2, <1>3, <1>4 DEF PortInv, Stage, Usable, Between, Reading
<1>7. Room'
  BY <1>2, <1>4, <1>5 DEF PortInv, Room
<1>8. Quiet'
  BY <1>2, <1>3, PackageIsSize, EmptyReadFile DEF PortInv, Quiet
<1> QED BY <1>6, <1>7, <1>8 DEF PortInvNext

\* The read poll: without news, with a portion, or with a full buffer.
LEMMA PollPort == PortInv /\ ReadPoll => PortInvNext
<1> SUFFICES ASSUME PortInv, ReadPoll PROVE PortInvNext
  OBVIOUS
<1>1. Usable /\ pc = "readPoll" /\ size = PackageSize /\ signalled /\ SInv
  BY DEF ReadPoll, PortInv, Stage, Reading
<1>2. CASE ReadNothing /\ GoTo("writePoll")
  <2>1. pc' = "writePoll" /\ UNCHANGED <<vars, outgoing>>
    BY <1>2 DEF ReadNothing, GoTo
  <2> QED BY <1>1, <2>1 DEF PortInv, PortInvNext, Stage, Quiet, Room, Usable, Between, Reading,
              vars, portVars, userVars, syncVars, history, writeVars
<1>3. ~Overrun
  <2>1. SUFFICES ASSUME Overrun PROVE FALSE
    OBVIOUS
  <2>2. Len(Gathered) = Len(got) + count /\ Len(got) + count <= size
    BY <1>1, GatheredFacts, PackageIsSize DEF PortInv, Room
  <2>3. size \in Nat /\ Len(got) \in Nat /\ count \in Nat
    BY <1>1, PackageIsSize DEF SInv, TypeOK
  <2> QED BY <2>1, <2>2, <2>3 DEF Overrun
<1>4. CASE ReadOn /\ pc' = (IF overrun' THEN "undefined" ELSE "writePoll")
  <2>1. /\ got' = Gathered /\ ReadFile(Asked(size - Len(Gathered))) /\ Len(Gathered) < size
        /\ UNCHANGED <<isOpen, readEvent, held, size, commWait, arrived, overrun, taken, spurious>>
    BY <1>4 DEF ReadOn, portVars, history
  <2>2. Gathered \in Seq(Cells) /\ Len(Gathered) = Len(got) + count /\ size - Len(Gathered) \in Nat
    BY <1>1, <2>1, GatheredFacts, PackageIsSize
  <2>3. signalled' = TRUE /\ count' \in Nat /\ count' <= size - Len(Gathered)
    <3>1. signalled' = TRUE
      BY <2>1 DEF ReadFile, RequestFails
    <3> QED BY <1>1, <2>1, <2>2, <3>1, ReadFileFacts
  <2>4. pc' = "writePoll"
    BY <1>4, <2>1 DEF PortInv, Room
  <2>5. Stage'
    BY <1>1, <2>1, <2>3, <2>4 DEF PortInv, Stage, Usable, Between, Reading
  <2>6. Room'
    <3>1. Len(got') + count' <= size'
      BY <1>1, <2>1, <2>2, <2>3, PackageIsSize
    <3> QED BY <2>1, <3>1 DEF PortInv, Room
  <2>7. Quiet'
    <3>1. SUFFICES ASSUME commWait PROVE Quiet'
      BY <2>1 DEF Quiet
    <3>2. rx = <<>> /\ got = <<>> /\ count = 0
      BY <3>1 DEF PortInv, Quiet
    <3>3. got' = <<>>
      BY <2>1, <2>2, <3>2
    <3> QED BY <1>1, <2>1, <2>2, <3>1, <3>2, <3>3, EmptyReadFile DEF PortInv, Quiet
  <2> QED BY <2>5, <2>6, <2>7 DEF PortInvNext
<1>5. CASE ReadComplete /\ GoTo("parse")
  <2>1. /\ pc' = "parse" /\ size' = None /\ got' = <<>>
        /\ UNCHANGED <<isOpen, readEvent, held, signalled, count, internal, commWait, rx, arrived,
                       overrun, spurious>>
    BY <1>5 DEF ReadComplete, GoTo, ReadAlready, portVars, syncVars
  <2>2. ~commWait
    <3>1. Len(got) + count = size
      BY <1>1, <1>5, GatheredFacts, PackageIsSize DEF ReadComplete, ReadAlready
    <3>2. commWait => got = <<>> /\ count = 0
      BY DEF PortInv, Quiet
    <3> QED BY <1>1, <3>1, <3>2, PackageIsSize DEF None
  <2> QED BY <1>1, <2>1, <2>2 DEF PortInv, PortInvNext, Stage, Quiet, Room, Usable, Between, Reading
<1> QED BY <1>2, <1>3, <1>4, <1>5 DEF ReadPoll, ReadPortion, GoTo

\* The steps that only write or look elsewhere.
LEMMA WritePort ==
  ASSUME PortInv,
         Show \/ WritePoll \/ NoKey \/ Key \/ OtherCommand
           \/ \E c \in Caught \cup Thrown : SendCommand(c) \/ CommandRefused(c)
  PROVE  PortInvNext
<1>1. /\ \/ pc = "parse" /\ pc' = "rearm"
         \/ pc \in Reading /\ pc' \in Reading
      /\ UNCHANGED <<portVars, internal, userVars, syncVars, commWait, rx, arrived, overrun,
                     history>>
  <2>1. CASE Show \/ NoKey \/ Key \/ OtherCommand
    BY <2>1 DEF Show, NoKey, Key, OtherCommand, GoTo, Reading, vars
  <2>2. CASE WritePoll
    BY <2>2 DEF WritePoll, WriteNothing, WriteComplete, WriteAlready, GoTo, Reading, vars
  <2>3. ASSUME NEW c, SendCommand(c)
        PROVE  /\ pc = "typing" /\ pc' = "flushCommand"
               /\ UNCHANGED <<portVars, internal, userVars, syncVars, commWait, rx, arrived,
                              overrun, history>>
    BY <2>3 DEF SendCommand, AsyncWrite, Write
  <2>4. ASSUME NEW c, CommandRefused(c)
        PROVE  /\ pc = "typing" /\ pc' \in {"flushCommand", "readPoll"}
               /\ UNCHANGED <<portVars, internal, userVars, syncVars, commWait, rx, arrived,
                              overrun, history>>
    BY <2>4 DEF CommandRefused, AsyncWriteThrows, vars
  <2> QED BY <2>1, <2>2, <2>3, <2>4 DEF Reading
<1> QED
  BY <1>1 DEF PortInv, PortInvNext, Stage, Quiet, Room, Usable, Between, Reading, portVars,
              userVars, syncVars, history

\* The event hits at most the read that has gathered nothing.
LEMMA DevicePort == PortInv /\ (Arrival \/ Sent) => PortInvNext
<1> SUFFICES ASSUME PortInv, Arrival \/ Sent PROVE PortInvNext
  OBVIOUS
<1>1. /\ CommEvent /\ pc' = pc /\ pc # "open"
      /\ UNCHANGED <<isOpen, readEvent, held, size, got, internal, overrun>>
  BY DEF Arrival, Sent, ByteArrives, OutputSent, PortInv, Stage, portVars, userVars
<1>2. commWait' = FALSE
  BY <1>1 DEF CommEvent
<1>3. CASE commWait
  <2>1. signalled' = TRUE /\ count' \in 0..PackageSize
    BY <1>1, <1>3, WorkerAssumption DEF CommEvent
  <2>2. got = <<>> /\ size \in {None, PackageSize}
    BY <1>3 DEF PortInv, Quiet, Stage
  <2>3. size # None => Len(got') + count' <= size'
    BY <1>1, <2>1, <2>2, PackageIsSize
  <2> QED BY <1>1, <1>2, <2>1, <2>3 DEF PortInv, PortInvNext, Stage, Quiet, Room, Usable
<1>4. CASE ~commWait
  <2>1. UNCHANGED <<signalled, count>>
    BY <1>1, <1>4 DEF CommEvent, syncVars
  <2> QED BY <1>1, <1>2, <2>1 DEF PortInv, PortInvNext, Stage, Quiet, Room, Usable
<1> QED BY <1>3, <1>4

\* A request that fails counts no bytes.
LEMMA FailurePort == PortInv /\ Failure => PortInvNext
<1> SUFFICES ASSUME PortInv, Failure PROVE PortInvNext
  OBVIOUS
<1>1. CASE WaitFails
  <2>1. /\ pc' = pc /\ pc # "open"
        /\ commWait' = FALSE /\ signalled' = TRUE /\ count' = 0
        /\ UNCHANGED <<isOpen, readEvent, held, size, got, overrun>>
    BY <1>1 DEF Failure, WaitFails, RequestFails, PortInv, Stage, portVars, userVars
  <2>2. Len(got') + count' <= size'
    BY <2>1 DEF PortInv, SInv, TypeOK, GotFits
  <2> QED BY <2>1, <2>2 DEF PortInv, PortInvNext, Stage, Quiet, Room, Usable
<1>2. CASE OutputFails
  <2>1. /\ UNCHANGED <<pc, isOpen, readEvent, held, size, got, signalled, count, internal,
                       commWait, rx, arrived, overrun, taken, spurious, outgoing>>
        /\ sending' = FALSE
    BY <1>2 DEF Failure, OutputFails, portVars, userVars, syncVars, history
  <2> QED BY <2>1 DEF PortInv, PortInvNext, Stage, Quiet, Room, Usable
<1> QED BY <1>1, <1>2 DEF Failure

LEMMA NextPortInv == PortInv /\ [WorkerNext]_cvars => PortInv'
<1> SUFFICES ASSUME PortInv, [WorkerNext]_cvars PROVE PortInv'
  OBVIOUS
<1>1. SInv'
  BY StepOfPort, NextSInv, ProcessEndsSInv DEF PortInv
<1>2. CASE ProcessEnds
  <2>1. /\ pc = "ended" /\ pc' = pc /\ isOpen' = FALSE
        /\ UNCHANGED <<size, got, signalled, count, internal, commWait, rx, arrived, overrun, taken,
                       spurious>>
    BY <1>2 DEF ProcessEnds, workerVars, userVars, syncVars, history
  <2> QED BY <1>1, <2>1 DEF PortInv, Stage, Quiet, Room, Usable, Between, Reading
<1>3. CASE Rest \/ UNCHANGED cvars
  <2>1. UNCHANGED <<vars, pc, outgoing>>
    BY <1>3 DEF Rest, cvars, workerVars
  <2> QED BY <1>1, <2>1 DEF PortInv, Stage, Quiet, Room, Usable, vars, portVars, userVars,
                            syncVars, writeVars, history
<1>4. CASE WorkerNext /\ ~ProcessEnds /\ ~Rest
  BY <1>1, <1>4, SetUpPort, FlushPort, ReadPort, PollPort, WritePort, DevicePort,
         FailurePort
     DEF PortInv, PortInvNext, WorkerNext, LoopStep, Entered
<1> QED BY <1>2, <1>3, <1>4

LEMMA InitPortInv == WorkerInit => PortInv
<1> SUFFICES ASSUME WorkerInit PROVE PortInv
  OBVIOUS
<1>1. SInv
  BY InitSInv DEF WorkerInit
<1> QED BY <1>1 DEF WorkerInit, Init, PortInv, Stage, Quiet, Room, Usable, Between, Reading

LEMMA AlwaysPortInv == WorkerSpec => []PortInv
  BY InitPortInv, NextPortInv, PTL DEF WorkerSpec

\* The read of a package stays inside its buffer, whatever the port event counts and
\* however the bytes come.
THEOREM ReadStaysInside == WorkerSpec => []NeverOverruns
<1>1. PortInv => NeverOverruns
  BY DEF PortInv, Room, NeverOverruns
<1> QED BY <1>1, AlwaysPortInv, PTL

-----------------------------------------------------------------------------
(* The flags of AsyncSerial.                                               *)

\* What each step does to the fields that the flags mirror.
LEMMA WorkerStepFlags ==
  ASSUME WorkerNext
  PROVE  \/ UNCHANGED <<size, setRead, writing, setWrite>>
         \/ size' \in Sizes /\ setRead' = TRUE /\ UNCHANGED <<writing, setWrite>>
         \/ size' = None /\ setRead' = FALSE /\ UNCHANGED <<writing, setWrite>>
         \/ writing' = TRUE /\ setWrite' = TRUE /\ UNCHANGED <<size, setRead>>
         \/ writing' = FALSE /\ setWrite' = FALSE /\ UNCHANGED <<size, setRead>>
<1> USE DEF asyncVars, flags, vars, userVars, writeVars
<1>1. CASE SetUp \/ SetUpFails
  BY <1>1 DEF SetUp, SetUpFails, Open, OpenFails, ConfigureFails, EventsFail
<1>2. CASE FirstFlush \/ ParseError \/ FlushCommand
  BY <1>2 DEF FirstFlush, ParseError, FlushCommand, Flush
<1>3. CASE FirstRead \/ ReadNext
  BY <1>3, PackageIsSize DEF FirstRead, ReadNext, AsyncRead, Read
<1>4. CASE ReadPoll
  BY <1>4 DEF ReadPoll, ReadNothing, ReadPortion, ReadComplete, ReadAlready, ReadOn, Overrun
<1>5. CASE Show \/ NoKey \/ Key \/ OtherCommand \/ Rest
  BY <1>5 DEF Show, NoKey, Key, OtherCommand, Rest, cvars
<1>6. CASE WritePoll
  BY <1>6 DEF WritePoll, WriteNothing, WriteComplete, WriteAlready
<1>7. ASSUME NEW c, SendCommand(c)
      PROVE  writing' = TRUE /\ setWrite' = TRUE /\ UNCHANGED <<size, setRead>>
  BY <1>7 DEF SendCommand, AsyncWrite, Write
<1>8. ASSUME NEW c, CommandRefused(c) PROVE UNCHANGED <<size, setRead, writing, setWrite>>
  BY <1>8 DEF CommandRefused, AsyncWriteThrows
<1>9. CASE Arrival \/ Sent \/ Failure
  BY <1>9 DEF Arrival, Sent, Failure, ByteArrives, OutputSent, WaitFails, OutputFails
<1>10. CASE ProcessEnds
  BY <1>10 DEF ProcessEnds
<1> QED
  BY <1>1, <1>2, <1>3, <1>4, <1>5, <1>6, <1>7, <1>8, <1>9, <1>10 DEF WorkerNext, LoopStep, Entered

LEMMA NextWorkerFlags == FlagsAgree /\ [WorkerNext]_cvars => FlagsAgree'
<1> SUFFICES ASSUME FlagsAgree, [WorkerNext]_cvars PROVE FlagsAgree'
  OBVIOUS
<1> USE DEF FlagsAgree
<1>1. CASE WorkerNext
  <2>1. CASE UNCHANGED <<size, setRead, writing, setWrite>>
    BY <2>1
  <2>2. CASE size' \in Sizes /\ setRead' = TRUE /\ UNCHANGED <<writing, setWrite>>
    BY <2>2, NoneIsNoSize
  <2>3. CASE size' = None /\ setRead' = FALSE /\ UNCHANGED <<writing, setWrite>>
    BY <2>3
  <2>4. CASE writing' = setWrite' /\ UNCHANGED <<size, setRead>>
    BY <2>4
  <2> QED BY <1>1, <2>1, <2>2, <2>3, <2>4, WorkerStepFlags
<1>2. CASE UNCHANGED cvars
  BY <1>2 DEF cvars, vars, userVars, writeVars, asyncVars, flags
<1> QED BY <1>1, <1>2

\* The two flags mirror what Serial has under way for ComWorker as well.
THEOREM WorkerFlagsAgree == WorkerSpec => []FlagsAgree
<1>1. WorkerInit => FlagsAgree
  BY DEF WorkerInit, Init, AsyncInit, FlagsAgree
<1> QED BY <1>1, NextWorkerFlags, PTL DEF WorkerSpec

\* Outside readFromComPort a read of the next package is always under way, with its
\* event set: only a request that fails, and no parse error, flush, command or
\* exception, ends the reading.
THEOREM KeepsReading == WorkerSpec => []AlwaysReading
<1>1. PortInv /\ FlagsAgree => AlwaysReading
  <2> SUFFICES ASSUME PortInv, FlagsAgree, pc \in Reading PROVE setRead /\ (Arrives \/ readError)
    BY DEF AlwaysReading, Reading
  <2> QED BY PackageIsSize DEF PortInv, Stage, Room, Reading, FlagsAgree, Arrives
<1> QED BY <1>1, AlwaysPortInv, WorkerFlagsAgree, PTL

-----------------------------------------------------------------------------
(* The packages that go out.                                               *)

Due == IF lightState = (told = "same") THEN "lit" ELSE "dark"

CommandInv ==
  /\ lightState \in BOOLEAN /\ told \in {"same", "opposite", "neither"}
  /\ outgoing \in Packages \cup {"nothing"}
  \* The package of an accepted command is known until it is out; one that has been
  \* given up stays in the way of all others.
  /\ sending => writing /\ held /\ outgoing # "nothing" /\ ~writeError
  /\ held /\ outgoing # "nothing" => sending \/ (writing /\ writeError)
  /\ pc = "open" => outgoing = "nothing"
  \* The lamp is on its way to what the last toggle left of light_state.
  /\ told # "neither" => Due = IF outgoing \in Lamps THEN outgoing ELSE lamp
  \* The last package is that of "exit".
  /\ (~isRun => pc \in {"flushCommand", "ended"}) /\ (pc = "ended" => ~isRun)
  /\ ~isRun /\ held => outgoing = "exit" \/ (outgoing = "nothing" /\ coils = "off")

\* No step but those of the commands, the driver and the end touches these.
LEMMA CommandsElsewhere ==
  ASSUME PortInv, CommandInv, UNCHANGED <<lightState, lamp, told, outgoing, coils, isRun>>,
         writing' = writing \/ (~sending /\ ~writeError /\ ~writing'),
         UNCHANGED <<sending, writeError>>,
         held' = held \/ pc = "open",
         sending => held',
         pc' # "open", pc \notin {"flushCommand", "ended"}, pc' # "ended"
  PROVE  CommandInv'
<1>1. isRun
  BY DEF CommandInv
<1>2. held' => held \/ pc = "open"
  OBVIOUS
<1>3. Due' = Due
  BY DEF Due
<1> QED BY <1>1, <1>2, <1>3 DEF CommandInv

LEMMA SendCommandInv ==
  ASSUME PortInv, CommandInv, NEW c \in Caught \cup Thrown, SendCommand(c)
  PROVE  CommandInv'
<1>1. /\ outgoing = "nothing" /\ ~sending /\ held /\ isRun
  BY DEF PortInv, Stage, CommandInv, SendCommand, AsyncWrite, Write, CanWrite, Usable
<1>2. /\ writing' = TRUE /\ sending' = TRUE /\ writeError' = FALSE /\ held' = held /\ isRun' = (c # "exit")
      /\ pc' = "flushCommand" /\ UNCHANGED <<lamp, coils>>
      /\ outgoing' \in PackagesOf(c)
      /\ lightState' = IF c = "light" THEN ~lightState ELSE lightState
  BY DEF SendCommand, AsyncWrite, Write, portVars, Toggle
<1>3. told' = CASE c = "light" -> "same" [] c = "number" -> "neither" [] OTHER -> told
  BY DEF SendCommand
<1>4. CASE c = "light"
  <2>1. told' = "same" /\ outgoing' = (IF lightState THEN "dark" ELSE "lit") /\ isRun'
    BY <1>2, <1>3, <1>4, Zenon DEF PackagesOf
  <2>2. outgoing' \in Lamps /\ outgoing' = Due'
    BY <1>2, <1>4, <2>1 DEF Due, Lamps, CommandInv
  <2> QED BY <1>1, <1>2, <1>4, <2>1, <2>2 DEF CommandInv, Packages, Lamps
<1>5. CASE c = "number"
  <2>1. told' = "neither" /\ outgoing' \in Lamps /\ isRun'
    BY <1>2, <1>3, <1>5, Zenon DEF PackagesOf
  <2> QED BY <1>1, <1>2, <1>5, <2>1 DEF CommandInv, Packages, Lamps
<1>6. CASE c \notin {"light", "number"}
  <2>1. told' = told /\ outgoing' = c
    BY <1>2, <1>3, <1>6, Zenon DEF PackagesOf
  <2>2. c \in {"pos", "on", "off", "exit"}
    BY <1>6 DEF Caught, Thrown
  <2>3. told' # "neither" => Due' = lamp
    BY <1>1, <1>2, <1>6, <2>1 DEF CommandInv, Due, Lamps
  <2> QED BY <1>1, <1>2, <2>1, <2>2, <2>3 DEF CommandInv, Packages, Lamps, Caught
<1> QED BY <1>4, <1>5, <1>6

LEMMA CommandRefusedInv ==
  ASSUME PortInv, CommandInv, NEW c \in Caught \cup Thrown, CommandRefused(c)
  PROVE  CommandInv'
<1>1. /\ UNCHANGED <<writing, sending, writeError, held, isRun, outgoing, coils, lamp>>
      /\ pc = "typing" /\ pc' \in {"flushCommand", "readPoll"}
      /\ lightState' = IF c = "light" THEN ~lightState ELSE lightState
      /\ told' = IF c = "light" THEN Turned(told) ELSE told
  BY DEF CommandRefused, AsyncWriteThrows, vars, portVars, writeVars, Toggle
<1>2. isRun
  BY <1>1 DEF CommandInv
<1>3. CASE c = "light"
  <2>1. told' = (CASE told = "same" -> "opposite" [] told = "opposite" -> "same" [] OTHER -> told)
    BY <1>1, <1>3 DEF Turned
  <2>2. /\ told = "same" => told' = "opposite"
        /\ told = "opposite" => told' = "same"
        /\ told = "neither" => told' = "neither"
    BY <2>1, Zenon
  <2>3. told' \in {"same", "opposite", "neither"} /\ (told' # "neither" => told # "neither" /\ Due' = Due)
    BY <1>1, <1>3, <2>2 DEF CommandInv, Due
  <2> QED BY <1>1, <1>2, <1>3, <2>3 DEF CommandInv
<1>4. CASE c # "light"
  BY <1>1, <1>2, <1>4 DEF CommandInv, Due
<1> QED BY <1>3, <1>4

\* The drive obeys the package that has gone out.
LEMMA SentInv ==
  ASSUME PortInv, CommandInv, Sent
  PROVE  CommandInv'
<1>1. /\ sending /\ sending' = FALSE /\ held /\ outgoing # "nothing"
      /\ outgoing' = "nothing" /\ UNCHANGED <<writing, writeError, held, pc, isRun, lightState, told>>
      /\ lamp' = IF outgoing \in Lamps THEN outgoing ELSE lamp
  BY DEF Sent, OutputSent, CommandInv, portVars
<1>2. outgoing = "exit" => coils' = "off"
  BY Zenon DEF Sent
<1>3. told' # "neither" => Due' = lamp'
  BY <1>1 DEF CommandInv, Due
<1> QED BY <1>1, <1>2, <1>3 DEF CommandInv, Lamps

LEMMA NextCommandInv == PortInv /\ CommandInv /\ [WorkerNext]_cvars => CommandInv'
<1> SUFFICES ASSUME PortInv, CommandInv, [WorkerNext]_cvars PROVE CommandInv'
  OBVIOUS
<1> USE DEF vars, portVars, writeVars, workerVars, light
<1>1. CASE SetUp \/ SetUpFails
  <2>1. /\ pc = "open" /\ pc' \in {"flush", "failed"} /\ ~sending
        /\ UNCHANGED <<lightState, lamp, told, outgoing, coils, isRun, writing, sending,
                       writeError>>
    BY <1>1 DEF SetUp, SetUpFails, GoTo, Open, OpenFails, ConfigureFails, EventsFail, PortInv, Stage
  <2> QED BY <2>1, CommandsElsewhere
<1>2. CASE FirstFlush \/ FirstRead \/ ReadPoll \/ Show \/ ParseError \/ ReadNext \/ NoKey \/ Key \/ OtherCommand
  <2>1. /\ UNCHANGED <<lightState, lamp, told, outgoing, coils, isRun>>
        /\ pc \notin {"open", "flushCommand", "ended"} /\ pc' \notin {"open", "ended"}
    BY <1>2 DEF FirstFlush, FirstRead, ReadPoll, Show, ParseError, ReadNext, NoKey, Key, OtherCommand,
                GoTo
  <2>2. UNCHANGED <<writing, sending, writeError, held>>
    BY <1>2 DEF FirstFlush, FirstRead, ReadPoll, Show, ParseError, ReadNext, NoKey, Key, OtherCommand,
                AsyncRead, ReadNothing, ReadPortion, ReadComplete, ReadAlready, ReadOn, Overrun,
                Read, Flush
  <2> QED BY <2>1, <2>2, CommandsElsewhere DEF CommandInv
<1>3. CASE WritePoll
  <2>1. /\ UNCHANGED <<lightState, lamp, told, outgoing, coils, isRun, sending,
                       writeError, held>>
        /\ pc = "writePoll" /\ pc' = "console"
        /\ writing' = writing \/ (~sending /\ ~writeError /\ writing' = FALSE)
    BY <1>3 DEF WritePoll, GoTo, WriteNothing, WriteComplete, WriteAlready, WriteDone
  <2> QED BY <2>1, CommandsElsewhere DEF CommandInv
<1>4. ASSUME NEW c \in Caught \cup Thrown, SendCommand(c) \/ CommandRefused(c) PROVE CommandInv'
  BY <1>4, SendCommandInv, CommandRefusedInv
<1>5. CASE FlushCommand
  <2>1. /\ UNCHANGED <<lightState, lamp, told, outgoing, coils, isRun, writing, sending,
                       writeError, held>>
        /\ pc = "flushCommand" /\ pc' = IF isRun THEN "readPoll" ELSE "ended"
    BY <1>5 DEF FlushCommand, GoTo, Flush
  <2> QED BY <2>1 DEF CommandInv, Due
<1>6. CASE Sent
  BY <1>6, SentInv
<1>7. CASE Arrival \/ (Failure /\ WaitFails) \/ Rest \/ UNCHANGED cvars
  <2>1. UNCHANGED <<pc, lightState, lamp, told, outgoing, coils, isRun, writing, sending,
                    writeError, held>>
    BY <1>7 DEF Arrival, Failure, ByteArrives, WaitFails, Rest, cvars
  <2> QED BY <2>1 DEF CommandInv, Due
<1>8. CASE ProcessEnds
  <2>1. /\ UNCHANGED <<pc, lightState, lamp, told, outgoing, coils, isRun, writing>>
        /\ pc = "ended" /\ held' = FALSE /\ sending' = FALSE
    BY <1>8 DEF ProcessEnds
  <2> QED BY <2>1 DEF CommandInv, Due
<1>9. CASE Failure /\ OutputFails
  <2>1. /\ UNCHANGED <<pc, lightState, lamp, told, outgoing, coils, isRun, writing, held>>
        /\ sending /\ sending' = FALSE /\ writeError' = TRUE
    BY <1>9 DEF Failure, OutputFails
  <2> QED BY <2>1 DEF CommandInv, Due
<1> QED
  BY <1>1, <1>2, <1>3, <1>4, <1>5, <1>6, <1>7, <1>8, <1>9
     DEF WorkerNext, LoopStep, Entered, Failure

LEMMA AlwaysCommandInv == WorkerSpec => []CommandInv
<1>1. WorkerInit => CommandInv
  BY DEF WorkerInit, Init, CommandInv, Due, Lamps
<1> QED BY <1>1, NextCommandInv, AlwaysPortInv, PTL DEF WorkerSpec

\* Once its packages are out, the lamp is what light_state says, unless a number was
\* sent or a toggle refused since the last toggle that went out.
THEOREM LampFollows == WorkerSpec => []LampInStep
<1>1. CommandInv => LampInStep
  BY DEF CommandInv, LampInStep, Due, Lamps
<1> QED BY <1>1, AlwaysCommandInv, PTL

\* After "exit" the coils are off once the output has been sent, if the port lives so long.
THEOREM CoilsEndOff == WorkerSpec => []CoilsOffAtEnd
<1>1. CommandInv => CoilsOffAtEnd
  BY DEF CommandInv, CoilsOffAtEnd
<1> QED BY <1>1, AlwaysCommandInv, PTL

-----------------------------------------------------------------------------
(* Remainders.                                                             *)

LEMMA DivisionUnique ==
  ASSUME NEW p \in Nat \ {0}, NEW q \in Int, NEW d \in Int,
         NEW r \in 0..(p - 1), NEW m \in 0..(p - 1), p * q + r = p * d + m
  PROVE  q = d /\ r = m
<1>1. p * (q - d) = m - r
  OBVIOUS
<1>2. ~(q - d >= 1)
  <2>1. q - d >= 1 => p * (q - d) >= p
    OBVIOUS
  <2> QED BY <1>1, <2>1
<1>3. ~(q - d <= -1)
  <2>1. q - d <= -1 => p * (q - d) <= -p
    OBVIOUS
  <2> QED BY <1>1, <2>1
<1> QED BY <1>1, <1>2, <1>3

\* Quotient and remainder are the only ones.
LEMMA Exactly ==
  ASSUME NEW p \in Nat \ {0}, NEW q \in Int, NEW x \in Int, x = p * q
  PROVE  x % p = 0 /\ x \div p = q
<1>1. x = p * (x \div p) + (x % p) /\ x % p \in 0..(p - 1) /\ x \div p \in Int
  OBVIOUS
<1>2. p * q + 0 = p * (x \div p) + (x % p) /\ 0 \in 0..(p - 1)
  BY <1>1
<1> QED BY <1>1, <1>2, DivisionUnique

LEMMA OneMore ==
  ASSUME NEW p \in Nat \ {0, 1}, NEW q \in Int, NEW x \in Int, x = p * q + 1
  PROVE  x % p = 1 /\ x \div p = q
<1>1. x = p * (x \div p) + (x % p) /\ x % p \in 0..(p - 1) /\ x \div p \in Int
  OBVIOUS
<1>2. p * q + 1 = p * (x \div p) + (x % p) /\ 1 \in 0..(p - 1)
  BY <1>1
<1> QED BY <1>1, <1>2, DivisionUnique

\* From one package to the next, and to its first byte.
LEMMA Frames ==
  ASSUME NEW p \in Nat \ {0}, NEW x \in Nat, x % p = 0
  PROVE  /\ (x + p) % p = 0
         /\ (x + 1) % p = 1 % p
<1> DEFINE q == x \div p
           y == x + p
           z == x + 1
           k == q + 1
<1>1. x = p * q /\ q \in Int
  OBVIOUS
<1>2. y \in Int /\ k \in Int /\ y = p * k
  BY <1>1
<1>3. z \in Int /\ z = p * q + 1
  BY <1>1
<1> HIDE DEF q, y, z, k
<1>4. y % p = 0
  BY <1>2, Exactly
<1>5. CASE p = 1
  <2>1. z = p * z /\ 1 = p * 1
    BY <1>3, <1>5
  <2>2. z % p = 0 /\ 1 % p = 0
    BY <1>3, <2>1, Exactly
  <2> QED BY <1>4, <2>2 DEF y, z
<1>6. CASE p # 1
  <2>1. z % p = 1
    BY <1>1, <1>3, <1>6, OneMore
  <2>2. 1 % p = 1
    BY <1>6
  <2> QED BY <1>4, <2>1, <2>2 DEF y, z
<1> QED BY <1>5, <1>6

\* The number of a package, from its first byte.
LEMMA PackageNumber ==
  ASSUME NEW b \in Nat \ {0}, b % PackageSize = 1 % PackageSize
  PROVE  PackageOf(b) \in Nat /\ b = PackageSize * PackageOf(b) + 1
<1> DEFINE p == PackageSize
           q == b \div p
           a == b - 1
<1>1. p \in Nat \ {0} /\ a \in Nat
  BY PackageIsSize DEF None
<1>2. b % p = 1 % p
  OBVIOUS
<1>3. b = p * q + (b % p) /\ q \in Int
  BY <1>1
<1>4. b = a + 1
  OBVIOUS
<1>5. PackageOf(b) = a \div p
  BY DEF PackageOf
<1> HIDE DEF p, q, a
<1>6. CASE p = 1
  <2>1. a = p * a
    BY <1>1, <1>6
  <2>2. a \div p = a
    BY <1>1, <2>1, Exactly
  <2> QED BY <1>1, <1>4, <1>5, <2>1, <2>2 DEF p
<1>7. CASE p # 1
  <2>1. 1 % p = 1
    BY <1>1, <1>7
  <2>2. a = p * q
    BY <1>1, <1>2, <1>3, <1>4, <2>1
  <2>3. a \div p = q
    BY <1>1, <1>3, <2>2, Exactly
  <2>4. q >= 0
    <3>1. q <= -1 => p * q <= -p
      BY <1>1, <1>3
    <3> QED BY <1>1, <1>3, <2>2, <3>1
  <2> QED BY <1>3, <1>4, <1>5, <2>2, <2>3, <2>4 DEF p
<1> QED BY <1>6, <1>7

\* A number whose last byte comes before the first byte of another is smaller.
LEMMA EarlierPackage ==
  ASSUME NEW a \in Nat, NEW b \in Nat, PackageSize * a + PackageSize < PackageSize * b + 1
  PROVE  a < b
<1> DEFINE p == PackageSize
<1>1. p \in Nat \ {0} /\ p * (a + 1) <= p * b
  BY PackageIsSize DEF None
<1> HIDE DEF p
<1>2. a + 1 > b => p * (a + 1) >= p * b + p
  <2>1. SUFFICES ASSUME a + 1 - b >= 1 PROVE p * (a + 1 - b) >= p
    BY <1>1
  <2> QED BY <1>1, <2>1
<1> QED BY <1>1, <1>2

-----------------------------------------------------------------------------
(* The bytes and the packages they are.                                    *)

\* How many of the bytes handed out have been shown or refused.
Consumed == IF pc = "parse" THEN Len(taken) - PackageSize ELSE Len(taken)

\* The bytes come in order; the zeros that the port event of open() may add come first.
Rising ==
  \A i \in 1..Len(Received) :
    /\ Received[i] <= arrived
    /\ Received[i] # 0 => \A j \in 1..(i - 1) : Received[j] < Received[i]

\* The input goes on with the first byte of a package.
Place == arrived - Len(Received) + Consumed

InStep ==
  /\ Place \in Nat /\ Place % PackageSize = 0
  /\ \A i \in (Consumed + 1)..Len(Received) : Received[i] = Place + (i - Consumed)

\* The last byte of each package that was shown is behind us.
ShownReceived ==
  \A k \in DOMAIN shown :
    \E j \in 1..Consumed : Received[j] = PackageSize * shown[k] + PackageSize

Behind ==
  /\ Rising
  /\ aligned => InStep
  /\ ShownReceived

ByteInv ==
  /\ pc = "parse" => Len(taken) >= PackageSize
  /\ pc = "open" => shown = <<>>
  /\ shown \in Seq(0..(MaxBytes \div PackageSize))
  /\ ShownInOrder
  /\ Usable => Behind

\* What was handed out is the beginning of what was received.
TakenFirst ==
  /\ Received \in Seq(Nat) /\ Received \in Seq(Cells)
  /\ taken \in Seq(Nat) /\ Len(taken) <= Len(Received)
  /\ \A i \in 1..Len(taken) : Received[i] = taken[i]

LEMMA ReceivedFacts == SInv /\ Usable => TakenFirst
<1> SUFFICES ASSUME SInv, Usable PROVE TakenFirst
  OBVIOUS
<1>1. /\ taken \in Seq(Cells) /\ got \in Seq(Cells)
      /\ Pending \in Seq(Cells) /\ rx \in Seq(Cells) /\ Received \in Seq(Cells)
  BY Pieces DEF PiecesTyped
<1>2. Cells \subseteq Nat
  BY SerialAssumption DEF Cells
<1>3. Received \in Seq(Nat) /\ taken \in Seq(Nat)
  BY <1>1, <1>2, SeqMonotonic
<1> DEFINE a == taken \o got
           b == a \o Pending
<1>4. /\ a \in Seq(Cells) /\ Len(taken) <= Len(a)
      /\ \A i \in 1..Len(taken) : a[i] = taken[i]
  BY <1>1
<1>5. Received = b \o rx
  BY DEF Received
<1> HIDE DEF a
<1>6. /\ b \in Seq(Cells) /\ Len(a) <= Len(b)
      /\ \A i \in 1..Len(a) : b[i] = a[i]
  BY <1>1, <1>4
<1> HIDE DEF b
<1>7. /\ Len(b) <= Len(Received)
      /\ \A i \in 1..Len(b) : Received[i] = b[i]
  BY <1>1, <1>5, <1>6
<1>8. Len(taken) \in Nat /\ Len(a) \in Nat /\ Len(b) \in Nat /\ Len(Received) \in Nat
  BY <1>1, <1>4, <1>6
<1>9. Len(taken) <= Len(Received)
  BY <1>4, <1>6, <1>7, <1>8
<1>10. ASSUME NEW i \in 1..Len(taken) PROVE Received[i] = taken[i]
  <2>1. i \in 1..Len(a) /\ i \in 1..Len(b)
    BY <1>4, <1>6, <1>8
  <2> QED BY <1>4, <1>6, <1>7, <2>1
<1> QED BY <1>1, <1>3, <1>9, <1>10 DEF TakenFirst

LEMMA ReceivedFactsNext == SInv' /\ Usable' => TakenFirst'
  BY ReceivedFacts, PTL

\* The steps that keep all bytes where they are.
Kept == Usable /\ UNCHANGED <<Received, arrived, Consumed, shown>> /\ (aligned' => aligned)

LEMMA KeptBehind == Behind /\ Kept => Behind'
<1> SUFFICES ASSUME Behind, Kept PROVE Behind'
  OBVIOUS
<1> HIDE DEF Received, Consumed
<1>1. Rising'
  BY DEF Behind, Kept, Rising
<1>2. aligned' => InStep'
  BY DEF Behind, Kept, InStep, Place
<1>3. ShownReceived'
  BY DEF Behind, Kept, ShownReceived
<1> QED BY <1>1, <1>2, <1>3 DEF Behind

LEMMA ReadsKeep ==
  ASSUME PortInv, PortInv', FirstRead \/ ReadNext \/ ReadPoll
  PROVE  Kept
<1>1. SInv /\ SInv' /\ Usable
  BY DEF PortInv, Stage, FirstRead, ReadNext, ReadPoll
<1>2. shown' = shown /\ aligned' = aligned
  BY DEF FirstRead, ReadNext, ReadPoll, GoTo
<1>3. CASE FirstRead \/ ReadNext
  <2>1. Read(PackageSize) /\ pc \in {"arm", "rearm"} /\ pc' \in {"readPoll", "writePoll"}
    BY <1>3 DEF FirstRead, ReadNext, GoTo, AsyncRead
  <2>2. Received' = Received
    BY <1>1, <2>1, PackageIsSize, ReadReceived
  <2>3. taken' = taken /\ arrived' = arrived
    BY <2>1 DEF Read, history
  <2>4. Consumed' = Consumed
    BY <2>1, <2>3 DEF Consumed
  <2> QED BY <1>1, <1>2, <2>2, <2>3, <2>4 DEF Kept
<1>4. CASE ReadNothing /\ GoTo("writePoll")
  <2>1. /\ UNCHANGED <<size, got, signalled, count, internal, rx, arrived, taken>>
        /\ pc # "parse" /\ pc' # "parse"
    BY <1>4 DEF ReadPoll, FirstRead, ReadNext, ReadNothing, GoTo, vars, userVars, syncVars, history
  <2> QED BY <1>1, <1>2, <2>1 DEF Kept, Received, Pending, Consumed
<1>5. CASE ReadOn /\ pc = "readPoll" /\ pc' \in {"undefined", "writePoll"}
  <2>1. Received' = Received
    BY <1>1, <1>5, ReadOnReceived
  <2> QED BY <1>1, <1>2, <1>5, <2>1 DEF Kept, ReadOn, history, Consumed
<1>6. CASE ReadAlready /\ pc = "readPoll" /\ pc' = "parse"
  <2>1. Received' = Received
    BY <1>1, <1>6, ReadAlreadyReceived
  <2>2. Gathered \in Seq(Cells) /\ Len(Gathered) = PackageSize /\ taken' = taken \o Gathered
    BY <1>1, <1>6, GatheredFacts DEF ReadAlready, PortInv, Stage, Reading
  <2>3. Len(taken') = Len(taken) + PackageSize /\ Len(taken) \in Nat
    <3>1. taken \in Seq(Cells)
      BY <1>1 DEF SInv, TypeOK, Cells
    <3>2. Len(taken \o Gathered) = Len(taken) + Len(Gathered) /\ Len(taken) \in Nat
      BY <2>2, <3>1, ConcatProperties
    <3> QED BY <2>2, <3>2
  <2>4. Consumed' = Consumed
    BY <1>6, <2>3, PackageIsSize DEF Consumed
  <2> QED BY <1>1, <1>2, <1>6, <2>1, <2>4 DEF Kept, ReadAlready
<1>7. ~Overrun
  <2>1. Room'
    BY DEF PortInv
  <2> QED BY <2>1 DEF Room, Overrun
<1> QED
  BY <1>3, <1>4, <1>5, <1>6, <1>7 DEF ReadPoll, ReadPortion, ReadComplete, GoTo

LEMMA OthersKeep ==
  ASSUME PortInv,
         WritePoll \/ NoKey \/ Key \/ OtherCommand \/ Rest \/ UNCHANGED cvars
           \/ \E c \in Caught \cup Thrown : SendCommand(c) \/ CommandRefused(c),
         Usable'
  PROVE  Kept
<1>1. /\ UNCHANGED <<isOpen, readEvent, size, got, signalled, count, internal, rx, arrived,
                     taken, shown, aligned>>
      /\ pc = "parse" <=> pc' = "parse"
  <2>1. CASE NoKey \/ Key \/ OtherCommand \/ Rest \/ UNCHANGED cvars
    BY <2>1 DEF NoKey, Key, OtherCommand, Rest, GoTo, vars, cvars, workerVars, portVars, userVars,
                syncVars, history
  <2>2. CASE WritePoll
    BY <2>2 DEF WritePoll, WriteNothing, WriteComplete, WriteAlready, GoTo, vars, portVars,
                userVars, syncVars, history
  <2>3. ASSUME NEW c, SendCommand(c)
        PROVE  /\ pc = "typing" /\ pc' = "flushCommand"
               /\ UNCHANGED <<isOpen, readEvent, size, got, signalled, count, internal, rx, arrived,
                              taken, shown, aligned>>
    BY <2>3 DEF SendCommand, AsyncWrite, Write, portVars, userVars, syncVars, history
  <2>4. ASSUME NEW c, CommandRefused(c)
        PROVE  /\ pc = "typing" /\ pc' \in {"flushCommand", "readPoll"}
               /\ UNCHANGED <<isOpen, readEvent, size, got, signalled, count, internal, rx, arrived,
                              taken, shown, aligned>>
    BY <2>4 DEF CommandRefused, AsyncWriteThrows, vars, portVars, userVars, syncVars, history
  <2> QED BY <2>1, <2>2, <2>3, <2>4
<1> QED BY <1>1 DEF Kept, Usable, Received, Pending, Consumed

\* A flush takes away the end of Received; between two reads nothing but what was
\* handed out is left, and the line goes on with the byte after the last one.
LEMMA FlushBehind ==
  ASSUME PortInv, PortInv', ByteInv, FirstFlush \/ ParseError \/ FlushCommand
  PROVE  Behind'
<1>1. /\ Flush /\ pc \notin {"open", "failed", "ended"} /\ shown' = shown
      /\ pc' # "parse" /\ pc' # "open"
  BY DEF FirstFlush, ParseError, FlushCommand, GoTo
<1>2. SInv /\ SInv' /\ Usable /\ Usable' /\ Behind /\ TakenFirst /\ TakenFirst'
  BY <1>1, ReceivedFacts, ReceivedFactsNext
     DEF PortInv, Stage, ByteInv, Flush, portVars, Usable
<1>3. /\ arrived' = arrived /\ taken' = taken /\ arrived \in Nat
      /\ Len(Received') <= Len(Received)
      /\ \A i \in 1..Len(Received') : Received'[i] = Received[i]
      /\ Received \in Seq(Nat) /\ Received' \in Seq(Nat) /\ taken \in Seq(Nat)
      /\ Len(taken) <= Len(Received')
  <2>1. /\ Received = Received' \o rx /\ Received' \in Seq(Cells) /\ rx \in Seq(Cells)
    BY <1>1, <1>2, FlushReceived, Pieces DEF PiecesTyped
  <2> QED BY <1>1, <1>2, <2>1, ConcatProperties DEF Flush, SInv, TypeOK, TakenFirst
<1>4. Consumed' = Len(taken) /\ Consumed <= Consumed'
  BY <1>1, <1>3, PackageIsSize DEF Consumed
<1>5. Rising'
  <2> HIDE DEF Received
  <2>1. Rising /\ Len(Received) \in Nat /\ Len(Received') \in Nat
    BY <1>2, <1>3 DEF Behind
  <2> SUFFICES ASSUME NEW i \in 1..Len(Received')
               PROVE  /\ Received'[i] <= arrived'
                      /\ Received'[i] # 0 => \A j \in 1..(i - 1) : Received'[j] < Received'[i]
    BY DEF Rising
  <2>2. i \in 1..Len(Received) /\ \A j \in 1..(i - 1) : j \in 1..Len(Received')
    BY <1>3, <2>1
  <2> QED BY <1>3, <2>1, <2>2 DEF Rising
<1>6. ShownReceived'
  <2> SUFFICES ASSUME NEW k \in DOMAIN shown
               PROVE  \E j \in 1..Consumed' : Received'[j] = PackageSize * shown[k] + PackageSize
    BY <1>1 DEF ShownReceived
  <2>1. PICK j \in 1..Consumed : Received[j] = PackageSize * shown[k] + PackageSize
    BY <1>2 DEF Behind, ShownReceived
  <2>2. j \in 1..Consumed' /\ j \in 1..Len(Received')
    <3>1. Consumed \in Int
      BY <1>3, PackageIsSize DEF Consumed
    <3> QED BY <1>3, <1>4, <3>1
  <2> QED BY <1>3, <2>1, <2>2
<1>7. aligned' => InStep'
  <2>1. CASE FirstFlush \/ ParseError
    <3>1. size = None
      BY <2>1 DEF FirstFlush, ParseError, PortInv, Stage, Between
    <3>2. got = <<>>
      BY <1>2, <3>1 DEF SInv, GotFits, TypeOK, None
    <3>3. got' = <<>> /\ Pending' = <<>> /\ rx' = <<>>
      BY <1>1, <3>1, <3>2 DEF Flush, userVars, Pending
    <3>4. Received' = taken
      BY <1>3, <3>3, ConcatEmptySeq DEF Received
    <3>5. aligned' => arrived % PackageSize = 0
      BY <2>1, Zenon DEF FirstFlush, ParseError
    <3>6. Place' = arrived
      BY <1>3, <1>4, <3>4 DEF Place
    <3> QED BY <1>3, <1>4, <3>4, <3>5, <3>6 DEF InStep
  <2>2. CASE FlushCommand
    <3>1. aligned' => aligned /\ rx = <<>>
      BY <2>2, Zenon DEF FlushCommand
    <3>2. rx = <<>> => Received' = Received
      <4>1. Received = Received' \o rx /\ Received' \in Seq(Cells)
        BY <1>1, <1>2, FlushReceived
      <4> QED BY <4>1, ConcatEmptySeq
    <3>3. pc # "parse"
      BY <2>2 DEF FlushCommand
    <3>4. Consumed' = Consumed
      BY <1>3, <1>4, <3>3 DEF Consumed
    <3> HIDE DEF Received, Consumed
    <3> QED BY <1>2, <1>3, <3>1, <3>2, <3>4 DEF Behind, InStep, Place
  <2> QED BY <2>1, <2>2
<1> QED BY <1>5, <1>6, <1>7 DEF Behind

LEMMA SetUpBehind ==
  ASSUME PortInv, ByteInv, SetUp
  PROVE  Behind'
<1>1. /\ pc = "open" /\ pc' = "flush" /\ shown' = <<>>
      /\ taken' = <<>> /\ got' = <<>> /\ rx' = <<>> /\ arrived' = 0 /\ size' = None
  BY DEF SetUp, GoTo, Open, userVars, history, PortInv, Stage, Between, ByteInv
<1>2. Received' = <<>> /\ Consumed' = 0
  BY <1>1 DEF Received, Pending, Consumed
<1>3. PackageSize \in Nat \ {0} /\ 0 % PackageSize = 0
  BY PackageIsSize DEF None
<1>4. Place' = 0
  <2>1. Place' = (arrived' - Len(Received')) + Consumed'
    BY DEF Place
  <2>2. Len(Received') = 0
    BY <1>2
  <2>3. arrived' = 0 /\ Consumed' = 0
    BY <1>1, <1>2
  <2>4. Place' = (0 - 0) + 0
    BY <2>1, <2>2, <2>3, Zenon
  <2> QED BY <2>4
<1> QED BY <1>1, <1>2, <1>3, <1>4 DEF Behind, Rising, InStep, ShownReceived

\* The byte that arrives is the next one and the largest.
LEMMA ArrivalBehind ==
  ASSUME PortInv, PortInv', ByteInv, Arrival, ~(commWait /\ size # None), Usable'
  PROVE  Behind'
<1>1. /\ ByteArrives /\ Usable /\ pc' = pc /\ shown' = shown /\ taken' = taken
      /\ arrived' = arrived + 1 /\ (aligned' => aligned)
  BY Zenon DEF Arrival, ByteArrives, portVars, Usable
<1>2. SInv /\ SInv' /\ Behind /\ TakenFirst /\ TakenFirst' /\ arrived \in Nat
  BY <1>1, ReceivedFacts, ReceivedFactsNext DEF PortInv, ByteInv, SInv, TypeOK
<1>3. /\ Len(Received') = Len(Received) + 1 /\ Len(Received) \in Nat
      /\ \A i \in 1..Len(Received) : Received'[i] = Received[i] /\ Received[i] \in Nat
      /\ Received'[Len(Received) + 1] = arrived + 1
  <2>1. Received' = Append(Received, arrived') /\ arrived' \in Nat
    BY <1>1, <1>2, ArrivesAppends
  <2>2. Received \in Seq(Nat)
    BY <1>2 DEF TakenFirst
  <2> HIDE DEF Received
  <2> QED BY <1>1, <2>1, <2>2, AppendProperties
<1>4. Consumed' = Consumed /\ Consumed \in Int /\ Consumed <= Len(Received)
  BY <1>1, <1>2, PackageIsSize DEF Consumed, TakenFirst
<1> HIDE DEF Received, Consumed
<1>5. Rising'
  <2>1. ASSUME NEW i \in 1..Len(Received)
        PROVE  /\ Received'[i] <= arrived'
               /\ Received'[i] # 0 => \A j \in 1..(i - 1) : Received'[j] < Received'[i]
    <3>1. /\ Received[i] <= arrived /\ Received'[i] = Received[i]
          /\ Received[i] # 0 => \A j \in 1..(i - 1) : Received[j] < Received[i]
      BY <1>2, <1>3 DEF Behind, Rising
    <3>2. \A j \in 1..(i - 1) : Received'[j] = Received[j]
      BY <1>3
    <3> QED BY <1>1, <1>2, <1>3, <3>1, <3>2
  <2>2. ASSUME NEW j \in 1..Len(Received) PROVE Received'[j] < Received'[Len(Received) + 1]
    <3>1. Received[j] <= arrived /\ Received'[j] = Received[j] /\ Received[j] \in Nat
      BY <1>2, <1>3 DEF Behind, Rising
    <3> QED BY <1>2, <1>3, <3>1
  <2> QED BY <1>1, <1>3, <2>1, <2>2 DEF Rising
<1>6. aligned' => InStep'
  <2>1. SUFFICES ASSUME InStep PROVE InStep'
    BY <1>1, <1>2 DEF Behind
  <2>2. Place' = Place
    BY <1>1, <1>2, <1>3, <1>4 DEF Place
  <2>3. ASSUME NEW i \in (Consumed + 1)..Len(Received) PROVE Received'[i] = Place + (i - Consumed)
    <3> SUFFICES Received'[i] = Received[i]
      BY <2>1 DEF InStep
    <3>1. Consumed >= 0
      BY <1>1, <1>2, PackageIsSize DEF Consumed, ByteInv, TakenFirst
    <3> QED BY <1>3, <1>4, <3>1
  <2>4. Received'[Len(Received) + 1] = Place + ((Len(Received) + 1) - Consumed)
    BY <1>2, <1>3, <1>4 DEF Place
  <2>5. ASSUME NEW i \in (Consumed' + 1)..Len(Received')
        PROVE  Received'[i] = Place' + (i - Consumed')
    <3>1. i \in (Consumed + 1)..(Len(Received) + 1)
      BY <1>3, <1>4
    <3>2. Received'[i] = Place + (i - Consumed)
      <4>1. CASE i <= Len(Received)
        <5>1. i \in (Consumed + 1)..Len(Received)
          BY <1>3, <1>4, <3>1, <4>1
        <5> QED BY <2>3, <5>1
      <4>2. CASE i = Len(Received) + 1
        BY <2>4, <4>2
      <4> QED BY <1>3, <1>4, <3>1, <4>1, <4>2
    <3> QED BY <1>4, <2>2, <3>2
  <2>6. Place' \in Nat /\ Place' % PackageSize = 0
    BY <2>1, <2>2 DEF InStep
  <2> QED BY <2>5, <2>6 DEF InStep
<1>7. ShownReceived'
  <2> SUFFICES ASSUME NEW k \in DOMAIN shown
               PROVE  \E j \in 1..Consumed : Received'[j] = PackageSize * shown[k] + PackageSize
    BY <1>1, <1>4 DEF ShownReceived
  <2>1. PICK j \in 1..Consumed : Received[j] = PackageSize * shown[k] + PackageSize
    BY <1>2 DEF Behind, ShownReceived
  <2>2. j \in 1..Len(Received)
    BY <1>3, <1>4
  <2> QED BY <1>3, <2>1, <2>2
<1> QED BY <1>5, <1>6, <1>7 DEF Behind

LEMMA Zeros ==
  ASSUME NEW s, NEW n \in Nat, \A i \in 1..n : s[i] \in {0}
  PROVE  SubSeq(s, 1, n) \in Seq({0}) /\ Len(SubSeq(s, 1, n)) = n
<1> DEFINE z == SubSeq(s, 1, n)
<1>1. z \in Seq({0}) /\ Len(z) = IF 1 <= n THEN n - 1 + 1 ELSE 0
  BY SubSeqProperties
<1>2. n - 1 + 1 = n
  OBVIOUS
<1> HIDE DEF z
<1>3. Len(z) = n
  BY <1>1, <1>2
<1> QED BY <1>1, <1>3 DEF z

\* The port event of open() may count zeros, before the first byte.
LEMMA EventBehind ==
  ASSUME PortInv, PortInv', ByteInv, Arrival \/ Sent, commWait /\ size # None, Usable'
  PROVE  Behind'
<1>1. /\ CommEvent /\ pc' = pc /\ shown' = shown
      /\ UNCHANGED <<isOpen, readEvent, size, got, internal, taken>>
      /\ \/ arrived' = arrived + 1 /\ rx' = Append(rx, arrived + 1)
         \/ UNCHANGED <<arrived, rx>>
      /\ aligned' = (aligned /\ spurious' = spurious)
  BY DEF Arrival, Sent, ByteArrives, OutputSent, portVars, userVars
<1>2. /\ arrived = 0 /\ rx = <<>> /\ got = <<>> /\ taken = <<>> /\ ~spurious
      /\ \A i \in DOMAIN internal : internal[i] = 0
      /\ Usable /\ SInv /\ SInv' /\ TakenFirst'
  BY <1>1, ReceivedFactsNext DEF PortInv, Quiet, Usable
<1>3. ~aligned'
  <2>1. spurious' = TRUE
    BY <1>1, Zenon DEF CommEvent
  <2>2. spurious = FALSE
    BY <1>2 DEF SInv, TypeOK
  <2> QED BY <1>1, <2>1, <2>2
<1>4. pc # "parse"
  BY <1>2, PackageIsSize DEF ByteInv, None
<1>5. Consumed = 0 /\ Consumed' = 0
  BY <1>1, <1>2, <1>4 DEF Consumed
<1>6. shown = <<>>
  <2>1. shown \in Seq(0..(MaxBytes \div PackageSize)) /\ \A k \in DOMAIN shown : FALSE
    BY <1>2, <1>5 DEF ByteInv, Behind, ShownReceived
  <2> QED BY <2>1
<1>7. Rising'
  <2> DEFINE z == Pending'
  <2>1. z = SubSeq(internal, 1, count') /\ count' \in 0..Len(internal)
    <3>1. signalled' = TRUE /\ count' \in EventCounts
      BY <1>1 DEF CommEvent
    <3>2. Len(internal) = bufferSize /\ EventCounts \subseteq 0..bufferSize
      BY <1>2, SerialAssumption DEF SInv, TypeOK, SettingsHold
    <3> QED BY <1>1, <3>1, <3>2 DEF Pending
  <2>2. /\ z \in Seq({0}) /\ Len(z) = count'
    <3>1. internal \in Seq(0..MaxBytes)
      BY <1>2 DEF SInv, TypeOK
    <3>2. \A i \in 1..count' : internal[i] \in {0}
      BY <1>2, <2>1, <3>1
    <3>3. count' \in Nat
      <4>1. Len(internal) \in Nat
        BY <3>1
      <4> QED BY <2>1, <4>1
    <3> HIDE DEF z
    <3> QED BY <2>1, <3>2, <3>3, Zeros, Zenon
  <2>3. Received' = z \o rx'
    BY <1>1, <1>2, <2>2, ConcatEmptySeq DEF Received
  <2> HIDE DEF z
  <2>4. CASE rx' = <<>> /\ arrived' = 0
    <3>1. Received' = z
      BY <2>2, <2>3, <2>4, ConcatEmptySeq
    <3> QED BY <2>2, <2>4, <3>1 DEF Rising
  <2>5. CASE rx' = <<1>> /\ arrived' = 1
    <3>1. /\ Len(Received') = Len(z) + 1 /\ Received'[Len(z) + 1] = 1
          /\ \A i \in 1..Len(z) : Received'[i] = 0
      BY <2>2, <2>3, <2>5
    <3> QED BY <2>2, <2>5, <3>1 DEF Rising
  <2> QED BY <1>1, <1>2, <2>4, <2>5
<1> QED BY <1>1, <1>3, <1>6, <1>7 DEF Behind, ShownReceived

LEMMA SentKept ==
  ASSUME PortInv, Sent, ~(commWait /\ size # None), Usable'
  PROVE  Kept
<1>1. /\ CommEvent /\ pc' = pc /\ shown' = shown
      /\ UNCHANGED <<isOpen, readEvent, size, got, internal, taken, arrived, rx>>
      /\ aligned' => aligned
  BY DEF Sent, OutputSent, portVars, userVars
<1>2. Pending' = Pending
  BY <1>1, EventPending
<1> QED BY <1>1, <1>2 DEF Kept, Usable, Received, Consumed

\* While the wait of open() is under way nothing has been received that its failure
\* could take away.
LEMMA FailureKept ==
  ASSUME PortInv, Failure, Usable'
  PROVE  Kept
<1>1. /\ pc' = pc /\ shown' = shown
      /\ UNCHANGED <<isOpen, readEvent, size, got, internal, taken, arrived, rx>>
      /\ aligned' => aligned
  BY DEF Failure, WaitFails, OutputFails, portVars, userVars, history
<1>2. Pending' = Pending
  <2>1. CASE WaitFails
    <3>1. count = 0 /\ count' = 0
      BY <2>1 DEF WaitFails, RequestFails, PortInv, Quiet
    <3>2. SubSeq(internal, 1, 0) = <<>>
      OBVIOUS
    <3> QED BY <1>1, <3>1, <3>2 DEF Pending
  <2>2. CASE OutputFails
    BY <1>1, <2>2 DEF OutputFails, syncVars, Pending
  <2> QED BY <2>1, <2>2 DEF Failure
<1> QED BY <1>1, <1>2 DEF Kept, Usable, Received, Consumed

\* What the buffer of readFromComPort is, byte by byte.
LEMMA DataFacts ==
  ASSUME PortInv, ByteInv, pc = "parse"
  PROVE  /\ Usable /\ Consumed \in Nat /\ Len(taken) = Consumed + PackageSize
         /\ DOMAIN Data = 1..PackageSize
         /\ \A i \in 1..PackageSize : Data[i] = taken[Consumed + i] /\ Data[i] = Received[Consumed + i]
<1>1. Usable /\ TakenFirst /\ PackageSize \in Nat
  BY ReceivedFacts, PackageIsSize DEF PortInv, Stage
<1>2. Consumed = Len(taken) - PackageSize /\ Len(taken) \in Nat /\ Len(taken) >= PackageSize
  BY <1>1 DEF Consumed, TakenFirst, ByteInv
<1>3. taken \in Seq(Nat) /\ \A i \in 1..Len(taken) : taken[i] \in Nat /\ Received[i] = taken[i]
  BY <1>1 DEF TakenFirst
<1> HIDE DEF Consumed, Received
<1>4. /\ Len(Data) = PackageSize /\ Data \in Seq(Nat)
      /\ \A i \in 1..PackageSize : Data[i] = taken[Consumed + i]
  <2> DEFINE m == Len(taken) - PackageSize + 1
             n == Len(taken)
  <2>1. m \in Int /\ n \in Int /\ n - m + 1 = PackageSize /\ \A i \in m..n : taken[i] \in Nat
    BY <1>1, <1>2, <1>3
  <2>2. m = Consumed + 1
    BY <1>2
  <2>3. Data = SubSeq(taken, m, n)
    BY DEF Data
  <2> HIDE DEF m, n
  <2>4. /\ Data \in Seq(Nat) /\ Len(Data) = IF m <= n THEN n - m + 1 ELSE 0
        /\ \A i \in 1..(n - m + 1) : Data[i] = taken[m + i - 1]
    BY <2>1, <2>3, SubSeqProperties
  <2>5. \A i \in 1..PackageSize : m + i - 1 = Consumed + i
    BY <1>1, <1>2, <2>2
  <2> QED BY <1>1, <2>1, <2>4, <2>5
<1>5. \A i \in 1..PackageSize : Consumed + i \in 1..Len(taken)
  BY <1>1, <1>2
<1>6. \A i \in 1..PackageSize : Data[i] = Received[Consumed + i]
  BY <1>3, <1>4, <1>5
<1>7. DOMAIN Data = 1..PackageSize /\ Consumed \in Nat /\ Len(taken) = Consumed + PackageSize
  BY <1>1, <1>2, <1>4
<1> QED BY <1>1, <1>4, <1>6, <1>7

\* In step, the buffer is a package.
LEMMA InStepWhole == PortInv /\ ByteInv => InStepIsWhole
<1> SUFFICES ASSUME PortInv, ByteInv, pc = "parse", aligned PROVE Whole(Data)
  BY DEF InStepIsWhole
<1>1. /\ Usable /\ Consumed \in Nat /\ DOMAIN Data = 1..PackageSize
      /\ Len(taken) = Consumed + PackageSize
      /\ \A i \in 1..PackageSize : Data[i] = Received[Consumed + i]
  BY DataFacts
<1>2. PackageSize \in Nat \ {0}
  BY PackageIsSize DEF None
<1>3. /\ Place \in Nat /\ Place % PackageSize = 0
      /\ \A i \in (Consumed + 1)..Len(Received) : Received[i] = Place + (i - Consumed)
  BY <1>1 DEF ByteInv, Behind, InStep
<1>4. Len(taken) <= Len(Received) /\ Len(Received) \in Nat
  BY <1>1, ReceivedFacts DEF TakenFirst, PortInv
<1> HIDE DEF Data, Consumed, Received, Place
<1>5. \A i \in 1..PackageSize : Data[i] = Place + i
  <2> TAKE i \in 1..PackageSize
  <2>1. Consumed + i \in (Consumed + 1)..Len(Received) /\ (Consumed + i) - Consumed = i
    BY <1>1, <1>2, <1>4
  <2> QED BY <1>1, <1>3, <2>1
<1>6. Data[1] = Place + 1
  BY <1>2, <1>5
<1>7. Data[1] % PackageSize = 1 % PackageSize
  BY <1>2, <1>3, <1>6, Frames
<1>8. \A i \in DOMAIN Data : Data[i] = Data[1] + i - 1
  BY <1>1, <1>3, <1>5, <1>6
<1> QED BY <1>3, <1>6, <1>7, <1>8 DEF Whole

\* A package that is whole is shown: it is later than those before it.
LEMMA ShowBytes ==
  ASSUME PortInv, PortInv', ByteInv, Show
  PROVE  ByteInv'
<1> DEFINE b == Data[1]
           n == PackageOf(b)
           p == PackageSize
<1>1. /\ pc = "parse" /\ pc' = "rearm" /\ shown' = Append(shown, n) /\ Whole(Data)
      /\ UNCHANGED <<size, got, signalled, count, internal, rx, arrived, taken, aligned,
                     isOpen, readEvent>>
  BY DEF Show, vars, portVars, userVars, syncVars, history
<1>2. /\ Usable /\ Consumed \in Nat /\ Len(taken) = Consumed + p /\ DOMAIN Data = 1..p
      /\ \A i \in 1..p : Data[i] = taken[Consumed + i] /\ Data[i] = Received[Consumed + i]
  BY <1>1, DataFacts
<1>3. p \in Nat \ {0} /\ TakenFirst /\ SInv /\ Behind /\ Usable'
  BY <1>1, <1>2, PackageIsSize, ReceivedFacts DEF None, PortInv, ByteInv, Usable
<1>4. Received' = Received /\ arrived' = arrived
  BY <1>1 DEF Received, Pending
<1>5. Consumed' = Consumed + p
  BY <1>1, <1>2 DEF Consumed
<1>6. b \in Nat \ {0} /\ b % p = 1 % p /\ \A i \in 1..p : Data[i] = b + i - 1
  <2>1. Consumed + 1 \in 1..Len(taken)
    BY <1>2, <1>3
  <2>2. b \in Nat
    BY <1>2, <1>3, <2>1 DEF TakenFirst
  <2> QED BY <1>1, <1>2, <2>2 DEF Whole
<1>7. n \in Nat /\ b = p * n + 1
  BY <1>6, PackageNumber
<1> HIDE DEF Data, Received, Consumed, n, b
<1>8. Received[Consumed + p] = p * n + p /\ Consumed + p \in 1..Len(Received)
  <2>1. p \in 1..p
    BY <1>3
  <2>2. Data[p] = b + p - 1
    BY <1>6, <2>1
  <2>3. Received[Consumed + p] = b + p - 1
    BY <1>2, <2>1, <2>2
  <2>4. p * n \in Nat
    BY <1>3, <1>7
  <2>5. b + p - 1 = p * n + p
    BY <1>3, <1>7, <2>4
  <2>6. Len(taken) <= Len(Received) /\ Len(Received) \in Nat
    BY <1>3 DEF TakenFirst
  <2> QED BY <1>2, <1>3, <2>3, <2>5, <2>6
<1>9. n \in 0..(MaxBytes \div p)
  <2> DEFINE m == MaxBytes \div p
             s == p * n
             t == p * m
  <2>1. s + p <= MaxBytes /\ MaxBytes \in Nat
    <3>1. Received[Consumed + p] \in 0..MaxBytes
      <4>1. Received[Consumed + p] \in Cells
        BY <1>3, <1>8 DEF TakenFirst
      <4> QED BY <4>1 DEF Cells
    <3> QED BY <1>8, <3>1, SerialAssumption
  <2>2. MaxBytes = t + (MaxBytes % p) /\ MaxBytes % p \in 0..(p - 1) /\ m \in Nat
    BY <1>3, <2>1
  <2>3. s < t
    <3>1. s \in Nat /\ t \in Int
      BY <1>3, <1>7, <2>2
    <3> QED BY <1>3, <2>1, <2>2, <3>1
  <2>4. ~(n > m)
    <3>1. n > m => p * n >= p * m
      BY <1>3, <1>7, <2>2
    <3>2. s \in Nat /\ t \in Int
      BY <1>3, <1>7, <2>2
    <3> QED BY <2>3, <3>1, <3>2
  <2> QED BY <1>7, <2>2, <2>4
<1>10. \A k \in DOMAIN shown : shown[k] < n
  <2> SUFFICES ASSUME NEW k \in DOMAIN shown PROVE shown[k] < n
    OBVIOUS
  <2>1. PICK j \in 1..Consumed : Received[j] = p * shown[k] + p
    BY <1>3 DEF Behind, ShownReceived
  <2>2. Received[Consumed + 1] = b
    <3>1. 1 \in 1..p
      BY <1>3
    <3> QED BY <1>2, <3>1 DEF b
  <2>3. Consumed + 1 \in 1..Len(Received) /\ j \in 1..((Consumed + 1) - 1)
    BY <1>2, <1>3, <1>8
  <2>4. Received[j] < b
    BY <1>3, <1>6, <2>2, <2>3 DEF Behind, Rising
  <2>5. shown[k] \in Nat
    <3> DEFINE numbers == 0..(MaxBytes \div p)
    <3>1. shown \in Seq(numbers) /\ numbers \subseteq Nat
      BY DEF ByteInv
    <3> HIDE DEF numbers
    <3>2. shown[k] \in numbers
      BY <3>1
    <3> QED BY <3>1, <3>2
  <2> QED BY <1>7, <2>1, <2>4, <2>5, EarlierPackage
<1>11. /\ shown' \in Seq(0..(MaxBytes \div p)) /\ Len(shown') = Len(shown) + 1 /\ Len(shown) \in Nat
       /\ \A k \in 1..Len(shown) : shown'[k] = shown[k]
       /\ shown'[Len(shown) + 1] = n
  BY <1>1, <1>9, AppendProperties DEF ByteInv
<1>12. ShownInOrder'
  <2>1. ASSUME NEW i \in 1..Len(shown), NEW j \in 1..(i - 1) PROVE shown'[j] < shown'[i]
    <3>1. shown[j] < shown[i] /\ j \in 1..Len(shown)
      BY <1>11 DEF ByteInv, ShownInOrder
    <3> QED BY <1>11, <3>1
  <2>2. ASSUME NEW j \in 1..Len(shown) PROVE shown'[j] < shown'[Len(shown) + 1]
    BY <1>10, <1>11
  <2> QED BY <1>11, <2>1, <2>2 DEF ShownInOrder
<1>13. Rising'
  BY <1>3, <1>4 DEF Behind, Rising
<1>14. aligned' => InStep'
  <2> SUFFICES ASSUME InStep PROVE InStep'
    BY <1>1, <1>3 DEF Behind
  <2>1. Place' = Place + p /\ Place \in Nat
    <3>1. Len(Received) \in Nat /\ arrived \in Nat
      BY <1>3 DEF TakenFirst, SInv, TypeOK
    <3> QED BY <1>2, <1>3, <1>4, <1>5, <3>1 DEF Place, InStep
  <2>2. Place' \in Nat /\ Place' % p = 0
    <3>1. Place + p \in Nat /\ (Place + p) % p = 0
      <4>1. Place % p = 0
        BY DEF InStep
      <4> HIDE DEF p
      <4>2. (Place + p) % p = 0
        BY <1>3, <2>1, <4>1, Frames
      <4> QED BY <1>3, <2>1, <4>2
    <3> QED BY <2>1, <3>1
  <2>3. ASSUME NEW i \in (Consumed' + 1)..Len(Received') PROVE Received'[i] = Place' + (i - Consumed')
    <3>1. i \in (Consumed + 1)..Len(Received)
      BY <1>2, <1>3, <1>4, <1>5, <1>8
    <3>2. Received'[i] = Place + (i - Consumed)
      BY <1>4, <3>1 DEF InStep
    <3>3. Len(Received) \in Nat
      BY <1>3 DEF TakenFirst
    <3> QED BY <1>2, <1>3, <1>5, <2>1, <3>1, <3>2, <3>3
  <2> QED BY <2>2, <2>3 DEF InStep
<1>15. ShownReceived'
  <2>1. ASSUME NEW k \in 1..Len(shown)
        PROVE  \E j \in 1..Consumed' : Received'[j] = p * shown'[k] + p
    <3>1. PICK j \in 1..Consumed : Received[j] = p * shown[k] + p
      BY <1>3, <1>11 DEF Behind, ShownReceived, ByteInv
    <3>2. j \in 1..Consumed'
      BY <1>2, <1>3, <1>5
    <3> QED BY <1>4, <1>11, <3>1, <3>2
  <2>2. \E j \in 1..Consumed' : Received'[j] = p * shown'[Len(shown) + 1] + p
    <3>1. Consumed + p \in 1..Consumed'
      BY <1>2, <1>3, <1>5
    <3> QED BY <1>4, <1>8, <1>11, <3>1
  <2> QED BY <1>11, <2>1, <2>2 DEF ShownReceived
<1> QED BY <1>1, <1>11, <1>12, <1>13, <1>14, <1>15 DEF ByteInv, Behind

\* The other steps show nothing.
LEMMA ShowsNothing ==
  ASSUME ByteInv, shown' = shown, pc' # "open" \/ pc = "open",
         pc' = "parse" => Len(taken') >= PackageSize, Usable' => Behind'
  PROVE  ByteInv'
<1>1. ShownInOrder'
  BY DEF ByteInv, ShownInOrder
<1> QED BY <1>1 DEF ByteInv

LEMMA NextByteInv == PortInv /\ PortInv' /\ ByteInv /\ [WorkerNext]_cvars => ByteInv'
<1> SUFFICES ASSUME PortInv, PortInv', ByteInv, [WorkerNext]_cvars PROVE ByteInv'
  OBVIOUS
<1>1. CASE SetUp
  <2>1. shown' = shown /\ pc' = "flush"
    BY <1>1 DEF SetUp, GoTo
  <2> QED BY <1>1, <2>1, SetUpBehind, ShowsNothing
<1>2. CASE SetUpFails
  <2>1. shown' = shown /\ pc' = "failed" /\ ~Usable'
    BY <1>2 DEF SetUpFails, GoTo, OpenFails, ConfigureFails, EventsFail, Usable
  <2> QED BY <2>1, ShowsNothing
<1>3. CASE FirstFlush \/ ParseError \/ FlushCommand
  <2>1. shown' = shown /\ pc' \notin {"open", "parse"}
    BY <1>3 DEF FirstFlush, ParseError, FlushCommand, GoTo
  <2> QED BY <1>3, <2>1, FlushBehind, ShowsNothing
<1>4. ASSUME Kept, pc' # "open" \/ pc = "open", pc' = "parse" => Len(taken') >= PackageSize
      PROVE  ByteInv'
  <2>1. Behind'
    BY <1>4, KeptBehind DEF Kept, ByteInv
  <2> QED BY <1>4, <2>1, ShowsNothing DEF Kept
<1>5. CASE FirstRead \/ ReadNext \/ ReadPoll
  <2>1. pc' # "open"
    BY <1>5 DEF FirstRead, ReadNext, ReadPoll, GoTo
  <2>2. pc' = "parse" => Len(taken') >= PackageSize
    <3> SUFFICES ASSUME pc' = "parse" PROVE Len(taken') >= PackageSize
      OBVIOUS
    <3>1. pc = "readPoll" /\ ReadComplete
      BY <1>5 DEF FirstRead, ReadNext, ReadPoll, GoTo
    <3>2. /\ Gathered \in Seq(Cells) /\ Len(Gathered) = PackageSize /\ taken' = taken \o Gathered
          /\ taken \in Seq(Cells)
      BY <3>1, GatheredFacts
         DEF ReadComplete, ReadAlready, PortInv, Stage, Reading, SInv, TypeOK, Cells
    <3>3. Len(taken') = Len(taken) + Len(Gathered) /\ Len(taken) \in Nat
      BY <3>2, ConcatProperties
    <3> QED BY <3>2, <3>3, PackageIsSize
  <2> QED BY <1>4, <1>5, <2>1, <2>2, ReadsKeep
<1>6. CASE Show
  BY <1>6, ShowBytes
<1>7. CASE \/ WritePoll \/ NoKey \/ Key \/ OtherCommand \/ Rest \/ UNCHANGED cvars
           \/ \E c \in Caught \cup Thrown : SendCommand(c) \/ CommandRefused(c)
  <2>1. /\ shown' = shown /\ taken' = taken
        /\ pc' = pc \/ pc' \notin {"open", "parse"}
    <3>1. CASE NoKey \/ Key \/ OtherCommand \/ Rest \/ UNCHANGED cvars
      BY <3>1 DEF NoKey, Key, OtherCommand, Rest, GoTo, vars, cvars, workerVars, history
    <3>2. CASE WritePoll
      BY <3>2 DEF WritePoll, WriteNothing, WriteComplete, WriteAlready, GoTo, vars, history
    <3>3. ASSUME NEW c, SendCommand(c) \/ CommandRefused(c)
          PROVE  /\ shown' = shown /\ taken' = taken
                 /\ pc' \in {"flushCommand", "readPoll"}
      BY <3>3 DEF SendCommand, CommandRefused, AsyncWrite, AsyncWriteThrows, Write, vars,
                  history
    <3> QED BY <1>7, <3>1, <3>2, <3>3
  <2>2. Usable' => Kept
    BY <1>7, OthersKeep
  <2>3. Usable' => Behind'
    BY <2>2, KeptBehind DEF Kept, ByteInv
  <2> QED BY <2>1, <2>3, ShowsNothing DEF ByteInv
<1>8. CASE Arrival \/ Sent
  <2>1. shown' = shown /\ taken' = taken /\ pc' = pc
    BY <1>8 DEF Arrival, Sent, ByteArrives, OutputSent
  <2>2. Usable' => Behind'
    <3> SUFFICES ASSUME Usable' PROVE Behind'
      OBVIOUS
    <3>1. CASE commWait /\ size # None
      BY <1>8, <3>1, EventBehind
    <3>2. CASE ~(commWait /\ size # None) /\ Sent
      BY <3>2, SentKept, KeptBehind DEF Kept, ByteInv
    <3>3. CASE ~(commWait /\ size # None) /\ Arrival
      BY <3>3, ArrivalBehind
    <3> QED BY <1>8, <3>1, <3>2, <3>3
  <2> QED BY <2>1, <2>2, ShowsNothing DEF ByteInv
<1>9. CASE Failure
  <2>1. shown' = shown /\ taken' = taken /\ pc' = pc
    BY <1>9 DEF Failure, WaitFails, OutputFails, history
  <2>2. Usable' => Behind'
    BY <1>9, FailureKept, KeptBehind DEF Kept, ByteInv
  <2> QED BY <2>1, <2>2, ShowsNothing DEF ByteInv
<1>10. CASE ProcessEnds
  <2>1. shown' = shown /\ taken' = taken /\ pc' = pc /\ ~Usable'
    BY <1>10 DEF ProcessEnds, workerVars, history, Usable
  <2> QED BY <2>1, ShowsNothing DEF ByteInv
<1> QED
  BY <1>1, <1>2, <1>3, <1>5, <1>6, <1>7, <1>8, <1>9, <1>10 DEF WorkerNext, LoopStep, Entered

LEMMA AlwaysByteInv == WorkerSpec => []ByteInv
<1>1. WorkerInit => ByteInv
  <2> SUFFICES ASSUME WorkerInit PROVE ByteInv
    OBVIOUS
  <2>1. shown = <<>> /\ pc = "open" /\ ~Usable
    BY DEF WorkerInit, Init, Usable
  <2> QED BY <2>1 DEF ByteInv, ShownInOrder
<1>2. PortInv /\ ByteInv /\ PortInv' /\ [WorkerNext]_cvars => ByteInv'
  BY NextByteInv
<1> QED BY <1>1, <1>2, AlwaysPortInv, PTL DEF WorkerSpec

\* No package is shown twice or after a later one, whatever is lost, added or read out
\* of step before it.
THEOREM PackagesInOrder == WorkerSpec => []ShownInOrder
<1>1. ByteInv => ShownInOrder
  BY DEF ByteInv
<1> QED BY <1>1, AlwaysByteInv, PTL

\* One flush between two packages is enough to find the frames again.
THEOREM FramesFound == WorkerSpec => []InStepIsWhole
  BY InStepWhole, AlwaysPortInv, AlwaysByteInv, PTL

-----------------------------------------------------------------------------
(* The types.                                                              *)

\* What only the constructor, the handlers and the commands set.
OwnTypes ==
  /\ AsyncTypeOK
  /\ pc \in {"open", "flush", "arm", "failed", "readPoll", "parse", "rearm",
             "writePoll", "console", "typing", "flushCommand", "ended", "undefined"}
  /\ isRun \in BOOLEAN /\ aligned \in BOOLEAN
  /\ coils \in {"unknown", "on", "off"} /\ lamp \in Lamps \cup {"unknown"}
  /\ typed \in 0..MaxCommands

LEMMA NextOwnTypes == CommandInv /\ OwnTypes /\ [WorkerNext]_cvars => OwnTypes'
<1> SUFFICES ASSUME CommandInv, OwnTypes, [WorkerNext]_cvars PROVE OwnTypes'
  OBVIOUS
<1> USE DEF OwnTypes, AsyncTypeOK, asyncVars, flags, handlers, light
<1>1. CASE SetUp \/ SetUpFails
  BY <1>1 DEF SetUp, SetUpFails, GoTo
<1>2. CASE FirstFlush \/ ParseError \/ FlushCommand
  <2>1. aligned' \in BOOLEAN
    BY <1>2, Zenon DEF FirstFlush, ParseError, FlushCommand
  <2> QED BY <1>2, <2>1 DEF FirstFlush, ParseError, FlushCommand, GoTo
<1>3. CASE FirstRead \/ ReadNext
  BY <1>3, WorkerAssumption DEF FirstRead, ReadNext, AsyncRead, GoTo
<1>4. CASE ReadPoll
  BY <1>4 DEF ReadPoll, ReadNothing, ReadPortion, ReadComplete, GoTo
<1>5. CASE Show \/ NoKey \/ Key \/ OtherCommand
  BY <1>5, WorkerAssumption DEF Show, NoKey, Key, OtherCommand, GoTo
<1>6. CASE WritePoll
  BY <1>6 DEF WritePoll, WriteNothing, WriteComplete, GoTo
<1>7. ASSUME NEW c \in Caught \cup Thrown, SendCommand(c) \/ CommandRefused(c) PROVE OwnTypes'
  <2>1. isRun' \in BOOLEAN
    BY <1>7, Zenon DEF SendCommand, CommandRefused
  <2>2. /\ UNCHANGED <<readHandler, setRead, coils, lamp, aligned>>
        /\ writeHandler' = NoHandler /\ setWrite' \in {setWrite, TRUE}
        /\ pc' \in {"flushCommand", "readPoll"}
        /\ typed' = typed
    BY <1>7 DEF SendCommand, CommandRefused, AsyncWrite, AsyncWriteThrows
  <2>3. AsyncTypeOK'
    BY <2>2
  <2> QED BY <2>1, <2>2, <2>3
<1>8. CASE Arrival \/ Sent \/ Failure
  <2>1. aligned' \in BOOLEAN
    BY <1>8, Zenon DEF Arrival, Sent, Failure
  <2>2. CASE Arrival
    BY <2>1, <2>2 DEF Arrival
  <2>3. CASE Sent
    <3>1. coils' \in {"on", "off", coils} /\ lamp' \in Lamps \cup {lamp}
      BY <2>3, Zenon DEF Sent
    <3> QED BY <2>1, <2>3, <3>1 DEF Sent
  <2>4. CASE Failure
    BY <2>1, <2>4 DEF Failure
  <2> QED BY <1>8, <2>2, <2>3, <2>4
<1>9. CASE ProcessEnds \/ Rest \/ UNCHANGED cvars
  BY <1>9 DEF ProcessEnds, Rest, cvars, workerVars
<1> QED
  BY <1>1, <1>2, <1>3, <1>4, <1>5, <1>6, <1>7, <1>8, <1>9 DEF WorkerNext, LoopStep, Entered

\* The worker, its wrapper and its port are well typed, for every size and bound.
THEOREM WorkerTypeCorrect == WorkerSpec => []WorkerTypeOK
<1>1. WorkerInit => OwnTypes
  <2> SUFFICES ASSUME WorkerInit PROVE OwnTypes
    OBVIOUS
  <2>1. AsyncTypeOK
    BY DEF WorkerInit, AsyncInit, AsyncTypeOK
  <2>2. typed \in 0..MaxCommands
    BY WorkerAssumption DEF WorkerInit
  <2> QED BY <2>1, <2>2 DEF WorkerInit, OwnTypes, Lamps
<1>2. WorkerSpec => []OwnTypes
  BY <1>1, NextOwnTypes, AlwaysCommandInv, PTL DEF WorkerSpec
<1>3. PortInv /\ CommandInv /\ ByteInv /\ OwnTypes => WorkerTypeOK
  BY DEF PortInv, SInv, CommandInv, ByteInv, OwnTypes, WorkerTypeOK
<1> QED BY <1>2, <1>3, AlwaysPortInv, AlwaysCommandInv, AlwaysByteInv, PTL
=============================================================================
