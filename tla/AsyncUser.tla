------------------------------ MODULE AsyncUser ------------------------------
(***************************************************************************)
(* AsyncSerial with any user at all: one that sets the port up, opens,     *)
(* closes and flushes it, and starts reads and writes whenever the loop's  *)
(* thread is not in a poll, the handlers that the polls call included.     *)
(***************************************************************************)
EXTENDS AsyncSerial

VARIABLES
  running,    \* the handler that a poll has called and that has not returned
  asked       \* history: the handlers given since the last accepted write

userState == <<running, asked>>
uvars == <<vars, asyncVars, userState>>

Nobody == [of |-> "none"]

\* if (!!async_write_handler)
Calling(operation, h) ==
  IF h = NoHandler THEN Nobody ELSE [of |-> operation, handler |-> h]

UserTypeOK ==
  /\ TypeOK /\ AsyncTypeOK
  /\ running \in {Nobody} \cup [of : {"read", "write"}, handler : Handlers]
  /\ asked \subseteq Handlers \cup {NoHandler}

UserInit == Init /\ AsyncInit /\ running = Nobody /\ asked = {}

-----------------------------------------------------------------------------
(* The user's calls.                                                       *)

\* The operations that AsyncSerial hands through to Serial.
PortCall ==
  /\ Configure \/ Open \/ OpenFails \/ ConfigureFails \/ EventsFail \/ Close \/ Flush
  /\ UNCHANGED <<asyncVars, userState>>

StartRead ==
  /\ \E n \in Sizes : \E h \in Handlers : AsyncRead(n, h)
  /\ UNCHANGED userState

ReadRefused ==
  /\ \E h \in Handlers : AsyncReadThrows(h)
  /\ UNCHANGED userState

\* The handler of a write may be left out.
StartWrite ==
  \E h \in Handlers \cup {NoHandler} :
    /\ AsyncWrite(h)
    /\ asked' = {h}
    /\ UNCHANGED running

WriteRefused ==
  \E h \in Handlers \cup {NoHandler} :
    /\ AsyncWriteThrows(h)
    /\ asked' = asked \cup {h}
    /\ UNCHANGED running

-----------------------------------------------------------------------------
(* The two timers of the loop.  A handler ends by returning or by throwing. *)

ReadPoll ==
  /\ running = Nobody
  /\ \/ ReadPortion /\ UNCHANGED running
     \/ ReadComplete /\ running' = Calling("read", readHandler)
  /\ UNCHANGED asked

WritePoll ==
  /\ running = Nobody
  /\ WriteComplete
  /\ running' = Calling("write", writeHandler)
  /\ UNCHANGED asked

MutantHandlerReturns ==  \* the flag is reset behind the call
  /\ running # Nobody
  /\ running' = Nobody
  /\ setRead' = (setRead /\ running.of # "read")
  /\ UNCHANGED <<vars, setWrite, handlers, asked>>

HandlerReturns ==
  /\ running # Nobody
  /\ running' = Nobody
  /\ UNCHANGED <<vars, asyncVars, asked>>

Device == Driver /\ UNCHANGED <<asyncVars, userState>>

UserNext ==
  \/ PortCall \/ StartRead \/ ReadRefused \/ StartWrite \/ WriteRefused
  \/ ReadPoll \/ WritePoll \/ HandlerReturns
  \/ Device

UserSpec == UserInit /\ [][UserNext]_uvars

\* The loop calls both polls in every cycle, and handlers return.  A poll is only
\* interrupted by the handler of the other one, and what it looks for stays there
\* until it comes.  The user, the line and the driver owe nothing.
UserFairSpec ==
  UserSpec /\ SF_uvars(ReadPoll) /\ SF_uvars(WritePoll) /\ WF_uvars(HandlerReturns)

-----------------------------------------------------------------------------
\* A completed write calls the handler it was started with, or one that was given
\* with a call that was refused meanwhile; never that of an earlier write.
AnsweredByOwn ==
  [][writing /\ ~writing' => \E h \in asked : running' = Calling("write", h)]_uvars
=============================================================================
