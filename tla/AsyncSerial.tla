----------------------------- MODULE AsyncSerial -----------------------------
(***************************************************************************)
(* The class AsyncSerial (src/src/serial/AsyncSerial.cpp): asynchronous    *)
(* reads and writes on a Serial, which two timers of the event loop poll.  *)
(* Its operations and its polls all run in the loop's thread, so that only *)
(* the driver comes between them.  A module that uses the port EXTENDS     *)
(* this one and says when its operations are called.                       *)
(***************************************************************************)
EXTENDS Serial

CONSTANTS Handlers, NoHandler

ASSUME HandlerAssumption == NoHandler \notin Handlers

VARIABLES setRead, setWrite,            \* set_operation_read, set_operation_write
          readHandler, writeHandler     \* async_read_handler, async_write_handler

flags == <<setRead, setWrite>>
handlers == <<readHandler, writeHandler>>
asyncVars == <<flags, handlers>>

AsyncTypeOK ==
  /\ setRead \in BOOLEAN /\ setWrite \in BOOLEAN
  /\ readHandler \in Handlers \cup {NoHandler}
  /\ writeHandler \in Handlers \cup {NoHandler}

AsyncInit ==
  /\ setRead = FALSE /\ setWrite = FALSE
  /\ readHandler = NoHandler /\ writeHandler = NoHandler

-----------------------------------------------------------------------------
AsyncRead(n, h) ==
  /\ Read(n)
  /\ readHandler' = h
  /\ setRead' = TRUE
  /\ UNCHANGED <<setWrite, writeHandler>>

\* read() throws, because the port is closed, a read is under way or the buffer has
\* no room at all: the handler has been replaced all the same.
AsyncReadThrows(h) ==
  /\ ~overrun
  /\ readHandler' = h
  /\ UNCHANGED <<vars, flags, writeHandler>>

MutantAsyncWrite(h) ==  \* the default argument does not replace a handler
  /\ Write
  /\ writeHandler' = IF h = NoHandler THEN writeHandler ELSE h
  /\ setWrite' = TRUE
  /\ UNCHANGED <<setRead, readHandler>>

AsyncWrite(h) ==
  /\ Write
  /\ writeHandler' = h
  /\ setWrite' = TRUE
  /\ UNCHANGED <<setRead, readHandler>>

\* write() throws, with the same effect: it is refused, or WriteFile fails at once.
AsyncWriteThrows(h) ==
  /\ writeHandler' = h
  /\ UNCHANGED <<vars, flags, readHandler>>

\* The read poll.  Without an operation it returns, and without a completed
\* ReadFile nothing has happened; one that failed is not told from one that has
\* not completed.
ReadNothing ==
  /\ ~(setRead /\ Arrives)
  /\ UNCHANGED <<vars, asyncVars>>

ReadPortion ==
  /\ setRead
  /\ ReadOn \/ Overrun
  /\ UNCHANGED asyncVars

\* The poll goes on to call async_read_handler.
ReadComplete ==
  /\ setRead
  /\ ReadAlready
  /\ setRead' = FALSE
  /\ UNCHANGED <<setWrite, handlers>>

WriteNothing ==
  /\ ~(setWrite /\ WriteDone)
  /\ UNCHANGED <<vars, asyncVars>>

MutantWriteComplete ==  \* set_operation_write is not reset
  /\ setWrite
  /\ WriteAlready
  /\ UNCHANGED asyncVars

WriteComplete ==
  /\ setWrite
  /\ WriteAlready
  /\ setWrite' = FALSE
  /\ UNCHANGED <<setRead, handlers>>

-----------------------------------------------------------------------------
\* The flags agree with what Serial has under way, in every cycle and after every
\* refused call: no poll throws on an open port, and no operation is forgotten.
FlagsAgree ==
  /\ setRead <=> size # None
  /\ setWrite <=> writing
=============================================================================
