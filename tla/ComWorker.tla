------------------------------ MODULE ComWorker ------------------------------
(***************************************************************************)
(* The class ComWorker (src/src/main.cpp): it reads State packages from    *)
(* the drive one after the other, shows those that are whole, and sends    *)
(* the commands that are typed.  Its handlers and the polls of AsyncSerial *)
(* are three timers of the event loop, which executes them in this order   *)
(* in every cycle; between any two calls the driver and the line go on.    *)
(*                                                                         *)
(* The drive sends packages of PackageSize bytes without a pause: byte n   *)
(* of the line belongs to package (n - 1) \div PackageSize.  State's       *)
(* constructor takes the bytes of one package and refuses all others (see  *)
(* Package for what the check sum finds).                                  *)
(***************************************************************************)
EXTENDS AsyncSerial

CONSTANTS PackageSize,    \* bytes of a State package: 36
          readFromComPort,      \* the handler of the reads
          MaxCommands     \* bound: commands typed

ASSUME WorkerAssumption ==
  /\ PackageSize \in Sizes
  /\ readFromComPort \in Handlers
  /\ MaxCommands \in Nat
  /\ EventCounts \subseteq 0..PackageSize    \* four, with the usual driver

VARIABLES
  pc,         \* where the loop's thread is
  isRun,      \* of the event loop
  outgoing,   \* the command whose package is being sent
  coils,      \* the mode the drive is in
  lightState, \* light_state of command_light
  lamp,       \* the light of the drive
  told,       \* history: how the last package for the light stands to light_state
  shown,      \* history: the packages shown
  typed,      \* how many times a command was begun
  aligned     \* history: the input begins with the first byte of a package

light == <<lightState, lamp, told>>
workerVars == <<pc, isRun, outgoing, coils, light, shown, typed, aligned>>
cvars == <<vars, asyncVars, workerVars>>

\* The commands that write, by what the handler does when async_write throws:
\* command_position catches it.  "light" toggles, "number" is "light" with a number.
Caught == {"pos"}
Thrown == {"light", "number", "on", "off", "exit"}
Lamps == {"lit", "dark", "blink"}
Packages == Caught \cup {"on", "off", "exit"} \cup Lamps

WorkerTypeOK ==
  /\ TypeOK /\ AsyncTypeOK
  /\ pc \in {"open", "flush", "arm", "failed", "readPoll", "parse", "rearm",
             "writePoll", "console", "typing", "flushCommand", "ended", "undefined"}
  /\ isRun \in BOOLEAN
  /\ outgoing \in Packages \cup {"nothing"}
  /\ coils \in {"unknown", "on", "off"}
  /\ lightState \in BOOLEAN /\ told \in {"same", "opposite", "neither"}
  /\ lamp \in Lamps \cup {"unknown"}
  /\ shown \in Seq(0..(MaxBytes \div PackageSize))
  /\ typed \in 0..MaxCommands
  /\ aligned \in BOOLEAN

\* The drive may be in any mode and show any light.
WorkerInit ==
  /\ Init /\ AsyncInit
  /\ pc = "open"
  /\ isRun = TRUE
  /\ outgoing = "nothing" /\ coils = "unknown"
  /\ lightState = TRUE /\ lamp = "unknown" /\ told = "neither"
  /\ shown = <<>>
  /\ typed = 0
  /\ aligned = TRUE

GoTo(label) ==
  /\ pc' = label
  /\ UNCHANGED <<isRun, outgoing, coils, light, shown, typed>>

-----------------------------------------------------------------------------
(* The constructor: set the port up, open it, flush, and start to read.    *)

SetUp ==
  /\ pc = "open"
  /\ GoTo("flush")
  /\ Open
  /\ UNCHANGED <<asyncVars, aligned>>

SetUpFails ==
  /\ pc = "open"
  /\ GoTo("failed")
  /\ OpenFails \/ ConfigureFails \/ EventsFail
  /\ UNCHANGED <<asyncVars, aligned>>

FirstFlush ==
  /\ pc = "flush"
  /\ GoTo("arm")
  /\ Flush
  /\ aligned' = (arrived % PackageSize = 0)
  /\ UNCHANGED asyncVars

FirstRead ==
  /\ pc = "arm"
  /\ GoTo("readPoll")
  /\ AsyncRead(PackageSize, readFromComPort)
  /\ UNCHANGED aligned

-----------------------------------------------------------------------------
(* The polls and readFromComPort.                                          *)

\* The buffer readFromComPort is called with, and the package it is.
Data == SubSeq(taken, Len(taken) - PackageSize + 1, Len(taken))
MutantPackageOf(n) == n - 1    \* the byte, not the package
PackageOf(n) == (n - 1) \div PackageSize
Whole(bytes) == /\ bytes[1] % PackageSize = 1 % PackageSize
                /\ \A i \in DOMAIN bytes : bytes[i] = bytes[1] + i - 1
                /\ bytes[1] > 0

ReadPoll ==
  /\ pc = "readPoll"
  /\ \/ ReadNothing /\ GoTo("writePoll")
     \/ ReadPortion /\ GoTo(IF overrun' THEN "undefined" ELSE "writePoll")
     \/ ReadComplete /\ GoTo("parse")
  /\ UNCHANGED aligned

Show ==
  /\ pc = "parse"
  /\ Whole(Data)
  /\ pc' = "rearm"
  /\ shown' = Append(shown, PackageOf(Data[1]))
  /\ UNCHANGED <<vars, asyncVars, isRun, outgoing, coils, light, typed, aligned>>

MutantParseError ==  \* an early return
  /\ pc = "parse"
  /\ ~Whole(Data)
  /\ GoTo("writePoll")
  /\ Flush
  /\ aligned' = (arrived % PackageSize = 0)
  /\ UNCHANGED asyncVars

\* PackageParseError: what has come of the next package goes as well.
ParseError ==
  /\ pc = "parse"
  /\ ~Whole(Data)
  /\ GoTo("rearm")
  /\ Flush
  /\ aligned' = (arrived % PackageSize = 0)
  /\ UNCHANGED asyncVars

ReadNext ==
  /\ pc = "rearm"
  /\ GoTo("writePoll")
  /\ AsyncRead(PackageSize, readFromComPort)
  /\ UNCHANGED aligned

WritePoll ==
  /\ pc = "writePoll"
  /\ GoTo("console")
  /\ WriteNothing \/ WriteComplete
  /\ UNCHANGED aligned

-----------------------------------------------------------------------------
(* consoleCommands.                                                        *)

NoKey ==
  /\ pc = "console"
  /\ GoTo("readPoll")
  /\ UNCHANGED <<vars, asyncVars, aligned>>

\* The key "c": std::getline keeps the loop's thread until a line has been entered.
Key ==
  /\ pc = "console"
  /\ typed < MaxCommands
  /\ pc' = "typing" /\ typed' = typed + 1
  /\ UNCHANGED <<vars, asyncVars, isRun, outgoing, coils, light, shown, aligned>>

\* "help", "toFile", arguments that do not parse, or nothing the program knows.
OtherCommand ==
  /\ pc = "typing"
  /\ GoTo("flushCommand")
  /\ UNCHANGED <<vars, asyncVars, aligned>>

\* What command_light does before it writes.
MutantToggle(c) ==  \* the assignment of the second branch is missing
  lightState' = (lightState /\ c # "light")
Toggle(c) == lightState' = IF c = "light" THEN ~lightState ELSE lightState

\* The package of a command.  The number of half periods is 0 in lightOff and -1 in
\* lightOn: typed as a number they do the same.
PackagesOf(c) == CASE c = "number" -> Lamps
                   [] c = "light" -> {IF lightState THEN "dark" ELSE "lit"}
                   [] OTHER -> {c}

SendCommand(c) ==
  /\ pc = "typing"
  /\ AsyncWrite(NoHandler)
  /\ Toggle(c)
  /\ outgoing' \in PackagesOf(c)
  /\ told' = CASE c = "light" -> "same" [] c = "number" -> "neither" [] OTHER -> told
  /\ isRun' = (c # "exit")
  /\ pc' = "flushCommand"
  /\ UNCHANGED <<coils, lamp, shown, typed, aligned>>

\* A toggle that is not sent.
Turned(t) == CASE t = "same" -> "opposite" [] t = "opposite" -> "same" [] OTHER -> t

MutantCommandRefused(c) ==  \* consoleCommands catches as command_position does
  /\ pc = "typing"
  /\ AsyncWriteThrows(NoHandler)
  /\ Toggle(c)
  /\ told' = IF c = "light" THEN Turned(told) ELSE told
  /\ pc' = "flushCommand"
  /\ isRun' = (c # "exit")
  /\ UNCHANGED <<outgoing, coils, lamp, shown, typed, aligned>>

\* async_write throws.  Event::execute catches what command_position does not;
\* then there is no flush, "exit" does not stop the loop, and the light has been
\* toggled for nothing.
CommandRefused(c) ==
  /\ pc = "typing"
  /\ AsyncWriteThrows(NoHandler)
  /\ Toggle(c)
  /\ told' = IF c = "light" THEN Turned(told) ELSE told
  /\ pc' = IF c \in Caught THEN "flushCommand" ELSE "readPoll"
  /\ UNCHANGED <<isRun, outgoing, coils, lamp, shown, typed, aligned>>

\* Input that the flush drops is missing from the buffer that is being filled.
FlushCommand ==
  /\ pc = "flushCommand"
  /\ GoTo(IF isRun THEN "readPoll" ELSE "ended")
  /\ Flush
  /\ aligned' = (aligned /\ rx = <<>>)
  /\ UNCHANGED asyncVars

-----------------------------------------------------------------------------
(* The driver, the line and the drive.                                     *)

Arrival ==
  /\ ByteArrives
  /\ aligned' = (aligned /\ spurious' = spurious)
  /\ UNCHANGED <<asyncVars, pc, isRun, outgoing, coils, light, shown, typed>>

\* The drive obeys a Mode or Light package when all of it has been sent.
Sent ==
  /\ OutputSent
  /\ coils' = CASE outgoing = "on" -> "on"
                [] outgoing \in {"off", "exit"} -> "off"
                [] OTHER -> coils
  /\ lamp' = IF outgoing \in Lamps THEN outgoing ELSE lamp
  /\ outgoing' = "nothing"
  /\ aligned' = (aligned /\ spurious' = spurious)
  /\ UNCHANGED <<asyncVars, pc, isRun, lightState, told, shown, typed>>

\* A request of the port fails.
Failure ==
  /\ WaitFails \/ OutputFails
  /\ aligned' = (aligned /\ spurious' = spurious)
  /\ UNCHANGED <<asyncVars, pc, isRun, outgoing, coils, light, shown, typed>>

\* main() returns after run(): Windows closes the port and cancels the output
\* that has not been sent.
ProcessEnds ==
  /\ pc = "ended"
  /\ held
  /\ held' = FALSE /\ isOpen' = FALSE /\ sending' = FALSE
  /\ UNCHANGED <<readEvent, opens, settings, applied, internal, userVars, syncVars,
                 commWait, rx, arrived, writing, writeError, overrun, history, asyncVars,
                 workerVars>>

\* The program has ended, or has no meaning any more.
Over == pc \in {"failed", "ended", "undefined"}
Rest == Over /\ UNCHANGED cvars

LoopStep ==
  \/ FirstFlush \/ FirstRead \/ ReadPoll \/ Show \/ ParseError \/ ReadNext
  \/ WritePoll \/ NoKey \/ FlushCommand

\* The line has been entered.
Entered ==
  OtherCommand \/ \E c \in Caught \cup Thrown : SendCommand(c) \/ CommandRefused(c)

WorkerNext == SetUp \/ SetUpFails \/ LoopStep \/ Key \/ Entered
              \/ Arrival \/ Sent \/ Failure \/ ProcessEnds \/ Rest

WorkerSpec == WorkerInit /\ [][WorkerNext]_cvars

\* The loop's thread is scheduled, and the driver sends what it was given or gives
\* it up.  The line on the console need never be finished.
WorkerFairSpec == WorkerSpec /\ WF_cvars(LoopStep) /\ WF_cvars(Sent)

-----------------------------------------------------------------------------
(* Properties.                                                             *)

\* Outside readFromComPort a read is always under way, and goes on with the next
\* poll unless its request failed: neither a parse error, a flush nor a command ends
\* the reading.
AlwaysReading ==
  pc \in {"readPoll", "writePoll", "console", "typing", "flushCommand"} =>
    setRead /\ (Arrives \/ readError)

\* No package is shown twice or after a later one.
ShownInOrder == \A i \in DOMAIN shown : \A j \in 1..(i - 1) : shown[j] < shown[i]

\* In step with the drive, the next buffer is a package: one flush between two
\* packages is enough to find the frames again, whatever was read before.
InStepIsWhole == pc = "parse" /\ aligned => Whole(Data)

\* The read of a whole package stays inside its buffer: the port event of open()
\* comes no later than the first byte, before anything has been gathered.
NeverOverruns == ~overrun

\* A command that was accepted goes out and makes room for the next, if every line
\* that was begun is entered and the driver does not give the output up.
CommandsGoOut ==
  []<>(pc # "typing") => (setWrite ~> ~setWrite \/ Over \/ writeError)

\* Once its packages are out, the light is what light_state says, from the first
\* toggle on; unless a number was sent or a toggle was refused since the last one:
\* then the next one may send what the drive does already, and they agree again.
LampInStep ==
  outgoing = "nothing" /\ told = "same" => lamp = IF lightState THEN "lit" ELSE "dark"

\* After "exit" the coils are without current when the port outlives the loop
\* until its output has been sent; the program does not wait for that.
CoilsOffAtEnd ==
  pc = "ended" /\ held /\ ~sending /\ ~writeError => coils = "off"
=============================================================================
