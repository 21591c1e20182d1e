------------------------------- MODULE Serial -------------------------------
(***************************************************************************)
(* An asynchronous serial port (src/src/serial/Serial.cpp, Mode::ASYNC)    *)
(* between its user and the driver.  The n-th byte that arrives is the     *)
(* number n; 0 is a byte of internal_buffer that was never written.        *)
(*                                                                         *)
(* open() sets the read timeouts to (MAXDWORD, 0, 0), with which ReadFile  *)
(* ends at once with the bytes that have arrived, none included.  It also  *)
(* leaves a WaitCommEvent under way, in the same OVERLAPPED structure      *)
(* sync_read that every ReadFile uses: when a character comes or the       *)
(* output runs empty the driver completes that operation, and the poll     *)
(* takes its byte count, which Windows leaves undefined, for bytes read.   *)
(*                                                                         *)
(* Any request may fail, at once or later.  A write that fails at once     *)
(* throws; nobody is told of the others, and what was started stays so.    *)
(***************************************************************************)
EXTENDS Naturals, Sequences, SequencesExt

CONSTANTS InternalSizes,  \* the values of internal_buffer_size
          LineSettings,   \* baud rate, parity, stop bits and flow control
          EventCounts,    \* the byte counts a WaitCommEvent may complete with
          Sizes,          \* the sizes of the buffers the user reads into
          MaxBytes,       \* bound: bytes that arrive
          MaxOpens        \* bound: calls of open()

ASSUME SerialAssumption ==
  /\ InternalSizes \subseteq Nat \ {0} /\ InternalSizes # {}
  /\ LineSettings # {}
  /\ \A n \in InternalSizes : EventCounts \subseteq 0..n
  /\ Sizes \subseteq Nat \ {0}
  /\ MaxBytes \in Nat /\ MaxOpens \in Nat

None == 0      \* no buffer: buffer_write_when_read_com is null

VARIABLES
  isOpen,       \* hWinSerial is a handle
  held,         \* the process holds a handle of the device, known or leaked
  readEvent,    \* sync_read.hEvent exists
  bufferSize, line,     \* internal_buffer_size and the other settings
  applied,      \* the settings the device has
  internal,     \* internal_buffer; the empty sequence when it is null
  size, got,    \* the user's buffer: its size or None, and what is in it
  signalled, count,     \* sync_read: its event, and the bytes transferred
  readError,    \* the operation in sync_read has failed
  commWait,     \* WaitCommEvent is under way
  rx,           \* the driver's input queue
  arrived,      \* how many bytes have arrived
  writing,      \* async_write_started
  sending,      \* the driver has output of a WriteFile left
  writeError,   \* the operation in sync_write has failed
  opens,        \* how many times open() was called
  overrun,      \* a byte was written behind the user's buffer
  taken,        \* history: all bytes handed to the user
  spurious, flushed     \* history: an event hit a started read, input was lost

userVars == <<size, got>>
syncVars == <<signalled, count, readError>>
writeVars == <<writing, sending, writeError>>
history == <<taken, spurious, flushed>>
settings == <<bufferSize, line>>
portVars == <<isOpen, held, readEvent, opens, settings, applied>>
vars == <<portVars, internal, userVars, syncVars, commWait, rx, arrived,
          writeVars, overrun, history>>

Smaller(a, b) == IF a < b THEN a ELSE b

\* open() has succeeded, and neither close() nor another open() has followed.
Usable == isOpen /\ readEvent

TypeOK ==
  /\ isOpen \in BOOLEAN /\ held \in BOOLEAN /\ readEvent \in BOOLEAN
  /\ bufferSize \in InternalSizes /\ line \in LineSettings /\ applied \in LineSettings
  /\ internal \in Seq(0..MaxBytes) /\ Len(internal) \in {0} \cup InternalSizes
  /\ size \in Sizes \cup {None}
  /\ got \in Seq(0..MaxBytes) /\ (overrun \/ Len(got) <= size)
  /\ signalled \in BOOLEAN /\ count \in Nat /\ (Usable => count <= bufferSize)
  /\ commWait \in BOOLEAN /\ readError \in BOOLEAN /\ writeError \in BOOLEAN
  /\ rx \in Seq(1..MaxBytes) /\ arrived \in 0..MaxBytes
  /\ writing \in BOOLEAN /\ sending \in BOOLEAN
  /\ opens \in 0..MaxOpens
  /\ overrun \in BOOLEAN
  /\ taken \in Seq(0..MaxBytes)
  /\ spurious \in BOOLEAN /\ flushed \in BOOLEAN

Init ==
  /\ isOpen = FALSE /\ held = FALSE /\ readEvent = FALSE /\ opens = 0
  /\ bufferSize \in InternalSizes /\ line \in LineSettings /\ applied = line
  /\ internal = <<>>
  /\ size = None /\ got = <<>>
  /\ signalled = FALSE /\ count = 0 /\ readError = FALSE /\ commWait = FALSE
  /\ rx = <<>> /\ arrived = 0
  /\ writing = FALSE /\ sending = FALSE /\ writeError = FALSE
  /\ overrun = FALSE
  /\ taken = <<>> /\ spurious = FALSE /\ flushed = FALSE

-----------------------------------------------------------------------------
(* The settings, open() and close().                                       *)

\* Mutant: the setters do not ask whether the port is open.
MutantConfigure ==
  /\ bufferSize' \in InternalSizes /\ line' \in LineSettings
  /\ UNCHANGED <<isOpen, held, readEvent, opens, applied, internal, userVars,
                 syncVars, commWait, rx, arrived, writeVars, overrun, history>>

\* One or more of the setters, which throw while the port is open.
Configure ==
  /\ ~isOpen
  /\ bufferSize' \in InternalSizes /\ line' \in LineSettings
  /\ UNCHANGED <<isOpen, held, readEvent, opens, applied, internal, userVars,
                 syncVars, commWait, rx, arrived, writeVars, overrun, history>>

NewInternal == [i \in 1..bufferSize |-> 0]

CountOpen == opens < MaxOpens /\ opens' = opens + 1

Open ==
  /\ CountOpen
  /\ ~held
  /\ isOpen' = TRUE /\ held' = TRUE /\ readEvent' = TRUE
  /\ applied' = line
  /\ internal' = NewInternal
  /\ commWait' = TRUE
  /\ signalled' = FALSE /\ count' = 0 /\ readError' = FALSE
  /\ UNCHANGED <<settings, userVars, rx, arrived, writeVars, overrun, history>>

\* CreateFile fails: no device, or the handle that close() did not close.
OpenFails ==
  /\ CountOpen
  /\ isOpen' = FALSE
  /\ internal' = NewInternal
  /\ UNCHANGED <<held, readEvent, settings, applied, userVars, syncVars, commWait,
                 rx, arrived, writeVars, overrun, history>>

\* GetCommState or SetCommState fails and close() is called, or SetCommTimeouts
\* fails and it is not; the events are not created.
ConfigureFails ==
  /\ CountOpen
  /\ ~held
  /\ isOpen' = TRUE /\ held' = TRUE /\ readEvent' = FALSE
  /\ \/ internal' = <<>> /\ UNCHANGED applied
     \/ internal' = NewInternal /\ applied' = line
  /\ UNCHANGED <<settings, userVars, syncVars, commWait, rx, arrived, writeVars,
                 overrun, history>>

\* SetCommMask or WaitCommEvent fails: here the handle is closed.
EventsFail ==
  /\ CountOpen
  /\ ~held
  /\ isOpen' = FALSE /\ readEvent' = FALSE
  /\ applied' = line
  /\ internal' = NewInternal
  /\ UNCHANGED <<settings, held, userVars, syncVars, commWait, rx, arrived, writeVars,
                 overrun, history>>

\* The handle is compared with itself, and so never closed; what a started read
\* has in internal_buffer is gone.
Close ==
  /\ readEvent' = FALSE
  /\ internal' = <<>>
  /\ UNCHANGED <<isOpen, held, opens, settings, applied, userVars, syncVars,
                 commWait, rx, arrived, writeVars, overrun, history>>

MutantFlush ==  \* the output is purged instead
  /\ isOpen
  /\ sending' = FALSE
  /\ UNCHANGED <<portVars, internal, userVars, syncVars, commWait, rx, arrived,
                 writing, writeError, overrun, history>>

Flush ==
  /\ isOpen
  /\ rx' = <<>>
  /\ flushed' = (flushed \/ rx # <<>>)
  /\ UNCHANGED <<portVars, internal, userVars, syncVars, commWait, arrived,
                 writeVars, overrun, taken, spurious>>

-----------------------------------------------------------------------------
(* Reading.                                                                *)

\* Mutant: more than internal_buffer holds is asked for.
MutantAsked(n) == n

\* The bytes a ReadFile asks for.
Asked(n) == Smaller(n, bufferSize)

\* A request with sync_read that fails, at once or later: GetOverlappedResult is
\* FALSE in every poll, and no poll asks again.
RequestFails == signalled' = TRUE /\ count' = 0 /\ readError' = TRUE

\* Mutant: the bytes stay in the input queue.
MutantReadFile(n) ==
  \/ /\ internal # <<>> /\ readEvent
     /\ LET k == Smaller(n, Len(rx))
        IN  /\ internal' = [i \in DOMAIN internal |-> IF i <= k THEN rx[i] ELSE internal[i]]
            /\ signalled' = TRUE /\ count' = k /\ readError' = FALSE
            /\ UNCHANGED rx
  \/ RequestFails /\ UNCHANGED <<internal, rx>>

\* ReadFile(internal_buffer, n) with sync_read.  Its result is not looked at; it
\* may fail, and does without internal_buffer or the event.
ReadFile(n) ==
  \/ /\ internal # <<>> /\ readEvent
     /\ LET k == Smaller(n, Len(rx))
        IN  /\ internal' = [i \in DOMAIN internal |-> IF i <= k THEN rx[i] ELSE internal[i]]
            /\ rx' = SubSeq(rx, k + 1, Len(rx))
            /\ signalled' = TRUE /\ count' = k /\ readError' = FALSE
  \/ RequestFails /\ UNCHANGED <<internal, rx>>

\* read(): read_async throws when a read has started, and changes nothing.
Read(n) ==
  /\ isOpen /\ ~overrun
  /\ size = None
  /\ size' = n
  /\ ReadFile(Asked(n))
  /\ UNCHANGED <<portVars, got, commWait, arrived, writeVars, overrun, history>>

\* Mutant: the commented-out "if (read != 0)" of line 305.
MutantArrives ==
  Usable /\ ~overrun /\ size # None /\ signalled /\ ~readError /\ count # 0

\* isReadAlready() of a started read whose operation has succeeded.  The bytes it
\* counts are appended; it hands out a full buffer or reads on.
Arrives == Usable /\ ~overrun /\ size # None /\ signalled /\ ~readError
Gathered == got \o SubSeq(internal, 1, count)

ReadAlready ==
  /\ Arrives
  /\ Len(Gathered) = size
  /\ size' = None /\ got' = <<>>
  /\ taken' = taken \o Gathered
  /\ UNCHANGED <<portVars, internal, syncVars, commWait, rx, arrived, writeVars,
                 overrun, spurious, flushed>>

\* Mutants: the bytes are copied to the start of the user's buffer; the rest of
\* the buffer does not limit the read.
MutantCopyToStart ==
  /\ Arrives
  /\ Len(Gathered) < size
  /\ got' = SubSeq(internal, 1, count)
  /\ ReadFile(Asked(size - Len(Gathered)))
  /\ UNCHANGED <<portVars, size, commWait, arrived, writeVars, overrun, history>>

MutantNoRest ==
  /\ Arrives
  /\ Len(Gathered) < size
  /\ got' = Gathered
  /\ ReadFile(bufferSize)
  /\ UNCHANGED <<portVars, size, commWait, arrived, writeVars, overrun, history>>

ReadOn ==
  /\ Arrives
  /\ Len(Gathered) < size
  /\ got' = Gathered
  /\ ReadFile(Asked(size - Len(Gathered)))
  /\ UNCHANGED <<portVars, size, commWait, arrived, writeVars, overrun, history>>

\* The copy loop passes the end of the user's buffer.
Overrun ==
  /\ Arrives
  /\ Len(Gathered) > size
  /\ overrun' = TRUE
  /\ UNCHANGED <<portVars, internal, userVars, syncVars, commWait, rx, arrived,
                 writeVars, history>>

-----------------------------------------------------------------------------
(* Writing.                                                                *)

\* write_async throws while async_write_started and when WriteFile fails, which it
\* does for want of the event; what it throws changes nothing.
CanWrite == Usable /\ ~writing

Write ==
  /\ CanWrite
  /\ writing' = TRUE /\ sending' = TRUE /\ writeError' = FALSE
  /\ UNCHANGED <<portVars, internal, userVars, syncVars, commWait, rx, arrived,
                 overrun, history>>

\* isWriteAlready() of a write whose output has been sent.
WriteDone == Usable /\ writing /\ ~sending /\ ~writeError

WriteAlready ==
  /\ WriteDone
  /\ writing' = FALSE
  /\ UNCHANGED <<portVars, internal, userVars, syncVars, commWait, rx, arrived,
                 sending, writeError, overrun, history>>

-----------------------------------------------------------------------------
(* The driver and the device.                                              *)

\* The event WaitCommEvent waits for.
CommEvent ==
  /\ commWait' = FALSE
  /\ IF commWait
     THEN /\ signalled' = TRUE /\ count' \in EventCounts /\ readError' = FALSE
          /\ spurious' = (spurious \/ size # None)
     ELSE UNCHANGED <<syncVars, spurious>>

\* WaitCommEvent ends with an error, which a started read takes for its own.
WaitFails ==
  /\ held /\ commWait
  /\ commWait' = FALSE
  /\ RequestFails
  /\ spurious' = (spurious \/ size # None)
  /\ UNCHANGED <<portVars, internal, userVars, rx, arrived, writeVars, overrun, taken,
                 flushed>>

ByteArrives ==
  /\ held
  /\ arrived < MaxBytes
  /\ arrived' = arrived + 1
  /\ rx' = Append(rx, arrived + 1)
  /\ CommEvent
  /\ UNCHANGED <<portVars, internal, userVars, writeVars, overrun, taken, flushed>>

OutputSent ==
  /\ sending
  /\ sending' = FALSE
  /\ CommEvent
  /\ UNCHANGED <<portVars, internal, userVars, rx, arrived, writing, writeError,
                 overrun, taken, flushed>>

\* The output is given up with an error: isWriteAlready() stays false.
OutputFails ==
  /\ sending
  /\ sending' = FALSE /\ writeError' = TRUE
  /\ UNCHANGED <<portVars, internal, userVars, syncVars, commWait, rx, arrived,
                 writing, overrun, history>>

Driver == ByteArrives \/ OutputSent \/ WaitFails \/ OutputFails

-----------------------------------------------------------------------------
Poll == ReadAlready \/ ReadOn \/ Overrun

Next ==
  \/ Configure \/ Open \/ OpenFails \/ ConfigureFails \/ EventsFail \/ Close \/ Flush
  \/ \E n \in Sizes : Read(n)
  \/ Poll \/ Write \/ WriteAlready
  \/ Driver

Spec == Init /\ [][Next]_vars

-----------------------------------------------------------------------------
(* Properties.                                                             *)

\* What a ReadFile of the started read has moved and no poll has seen yet.
Pending == IF size # None /\ signalled THEN SubSeq(internal, 1, count) ELSE <<>>

Received == taken \o got \o Pending \o rx

\* While the port is in use and no port event hit a started read, every byte
\* that came in is handed out, gathered or waiting, once and in its order: the
\* re-issued ReadFile of isReadAlready() loses and repeats nothing.
NothingLost ==
  Usable /\ ~spurious /\ ~flushed => Received = [i \in 1..arrived |-> i]

\* Flushing between and during the reads may lose bytes, but never repeats or
\* exchanges any: a buffer handed out after a flush holds later bytes.
InOrder ==
  Usable /\ ~spurious =>
    \A i \in 1..Len(Received) : \A j \in 1..(i - 1) : Received[j] < Received[i]

\* The size each ReadFile asks for keeps the copy loop of isReadAlready() inside
\* the user's buffer, however the bytes come in portions; only a port event
\* counted as bytes can carry it further.
OverrunOnlyByEvent == overrun => spurious

\* A started read does not stay unfinished once its bytes have come, unless its
\* request failed: then the code has nothing left that would go on with it.
Unfinished == Usable /\ ~overrun /\ size # None /\ Len(got \o Pending \o rx) >= size

ReadsFinish == []<>(~Unfinished \/ readError)

\* The assertion at Serial.cpp:307 and its "ERROR!" at 308-310: the copy never
\* passes the end of the user's buffer.  The WaitCommEvent of open() breaks it.
NoOverrun == ~overrun

\* The settings cannot change under an open port: a ReadFile asks for no more
\* than internal_buffer was allocated with, and the device has what was set.
SettingsHold == Usable => Len(internal) = bufferSize /\ applied = line
=============================================================================
