-------------------------- MODULE AsyncUserProofs --------------------------
(***************************************************************************)
(* Proofs about AsyncSerial with any user, whatever the handlers, sizes    *)
(* and bounds.  AsyncUser refines Serial: each of its steps is a step of   *)
(* the port or leaves the port alone, so that what is proved of Serial     *)
(* holds of it.  FlagsAgree is inductive alone; AnsweredByOwn needs that   *)
(* the handler of a write under way is one that was asked for.             *)
(***************************************************************************)
EXTENDS AsyncUser, SerialProofs

HandlerAsked == writing => writeHandler \in asked

-----------------------------------------------------------------------------
\* Each step of AsyncSerial and its user is one of Serial or none at all.
LEMMA StepOfSerial == [UserNext]_uvars => [Next]_vars
<1> SUFFICES ASSUME [UserNext]_uvars PROVE [Next]_vars
  OBVIOUS
<1>1. CASE PortCall
  BY <1>1 DEF PortCall, Next
<1>2. CASE StartRead
  BY <1>2 DEF StartRead, AsyncRead, Next
<1>3. CASE ReadRefused \/ WriteRefused
  BY <1>3 DEF ReadRefused, WriteRefused, AsyncReadThrows, AsyncWriteThrows
<1>4. CASE StartWrite
  BY <1>4 DEF StartWrite, AsyncWrite, Next
<1>5. CASE ReadPoll
  BY <1>5 DEF ReadPoll, ReadPortion, ReadComplete, Next, Poll
<1>6. CASE WritePoll
  BY <1>6 DEF WritePoll, WriteComplete, Next
<1>7. CASE HandlerReturns
  BY <1>7 DEF HandlerReturns
<1>8. CASE Device
  BY <1>8 DEF Device, Next
<1>9. CASE UNCHANGED uvars
  BY <1>9 DEF uvars
<1> QED
  BY <1>1, <1>2, <1>3, <1>4, <1>5, <1>6, <1>7, <1>8, <1>9 DEF UserNext

\* AsyncSerial calls Serial in no way that Serial does not allow its users.
THEOREM RefinesSerial == UserSpec => Spec
<1>1. UserInit => Init
  BY DEF UserInit
<1> QED BY <1>1, StepOfSerial, PTL DEF UserSpec, Spec

\* In particular a copy loop that leaves the buffer has counted a port event.
THEOREM UserCopyStaysInside == UserSpec => []OverrunOnlyByEvent
  BY RefinesSerial, CopyStaysInside

\* No user can get a ReadFile larger than internal_buffer.
THEOREM UserSettingsStay == UserSpec => []SettingsHold
  BY RefinesSerial, SettingsStay

\* Every user is handed each byte once and in its order, whatever it calls from its
\* handlers, unless it flushes or a port event hits a started read.
THEOREM UserLosesNothing == UserSpec => []NothingLost
  BY RefinesSerial, NothingIsLost

\* ... and what it flushes is missing from the bytes, but none comes twice or too late.
THEOREM UserOrderKept == UserSpec => []InOrder
  BY RefinesSerial, OrderIsKept

-----------------------------------------------------------------------------
UserTypes ==
  /\ AsyncTypeOK
  /\ running \in {Nobody} \cup [of : {"read", "write"}, handler : Handlers]
  /\ asked \subseteq Handlers \cup {NoHandler}

LEMMA CallingType ==
  ASSUME NEW operation \in {"read", "write"}, NEW h \in Handlers \cup {NoHandler}
  PROVE  Calling(operation, h) \in {Nobody} \cup [of : {"read", "write"}, handler : Handlers]
  BY DEF Calling

LEMMA NextUserTypes == UserTypes /\ [UserNext]_uvars => UserTypes'
<1> SUFFICES ASSUME UserTypes, [UserNext]_uvars PROVE UserTypes'
  OBVIOUS
<1> USE DEF UserTypes, AsyncTypeOK, asyncVars, flags, handlers, userState
<1>1. CASE PortCall \/ Device
  BY <1>1 DEF PortCall, Device
<1>2. CASE StartRead
  BY <1>2 DEF StartRead, AsyncRead
<1>3. CASE ReadRefused \/ WriteRefused
  BY <1>3 DEF ReadRefused, WriteRefused, AsyncReadThrows, AsyncWriteThrows
<1>4. CASE StartWrite
  <2>1. PICK h \in Handlers \cup {NoHandler} :
          AsyncWrite(h) /\ asked' = {h} /\ UNCHANGED running
    BY <1>4 DEF StartWrite
  <2>2. /\ writeHandler' = h /\ setWrite' = TRUE
        /\ UNCHANGED <<setRead, readHandler>>
    BY <2>1 DEF AsyncWrite
  <2> QED BY <2>1, <2>2
<1>5. CASE ReadPoll
  <2>1. UNCHANGED <<setWrite, handlers, asked>> /\ setRead' \in BOOLEAN
    BY <1>5 DEF ReadPoll, ReadPortion, ReadComplete
  <2>2. UNCHANGED running \/ running' = Calling("read", readHandler)
    BY <1>5 DEF ReadPoll
  <2>3. running' \in {Nobody} \cup [of : {"read", "write"}, handler : Handlers]
    BY <2>2, CallingType
  <2> QED BY <2>1, <2>3
<1>6. CASE WritePoll
  <2>1. UNCHANGED <<setRead, handlers, asked>> /\ setWrite' = FALSE
    BY <1>6 DEF WritePoll, WriteComplete
  <2>2. running' \in {Nobody} \cup [of : {"read", "write"}, handler : Handlers]
    BY <1>6, CallingType DEF WritePoll
  <2> QED BY <2>1, <2>2
<1>7. CASE HandlerReturns
  BY <1>7 DEF HandlerReturns
<1>8. CASE UNCHANGED uvars
  BY <1>8 DEF uvars
<1> QED BY <1>1, <1>2, <1>3, <1>4, <1>5, <1>6, <1>7, <1>8 DEF UserNext

\* The port, the wrapper and the handler that runs are well typed with every user.
THEOREM UserTypeCorrect == UserSpec => []UserTypeOK
<1>1. UserInit => UserTypes
  BY DEF UserInit, AsyncInit, UserTypes, AsyncTypeOK
<1>2. TypeOK /\ UserTypes => UserTypeOK
  BY DEF UserTypes, UserTypeOK
<1> QED BY <1>1, <1>2, NextUserTypes, RefinesSerial, SerialTypeCorrect, PTL DEF UserSpec

-----------------------------------------------------------------------------
\* What each step does to the fields that the flags mirror.
LEMMA StepFlags ==
  ASSUME UserNext
  PROVE  \/ UNCHANGED <<size, setRead, writing, setWrite>>
         \/ StartRead /\ size' \in Sizes /\ setRead' = TRUE /\ UNCHANGED <<writing, setWrite>>
         \/ ReadPoll /\ size' = None /\ setRead' = FALSE /\ UNCHANGED <<writing, setWrite>>
         \/ StartWrite /\ writing' = TRUE /\ setWrite' = TRUE /\ UNCHANGED <<size, setRead>>
         \/ WritePoll /\ writing' = FALSE /\ setWrite' = FALSE /\ UNCHANGED <<size, setRead>>
<1> USE DEF asyncVars, flags, vars, userVars, writeVars
<1>1. CASE PortCall
  BY <1>1 DEF PortCall, Configure, Open, OpenFails, ConfigureFails, EventsFail, Close, Flush
<1>2. CASE StartRead
  BY <1>2 DEF StartRead, AsyncRead, Read
<1>3. CASE ReadRefused \/ WriteRefused
  BY <1>3 DEF ReadRefused, WriteRefused, AsyncReadThrows, AsyncWriteThrows
<1>4. CASE StartWrite
  BY <1>4 DEF StartWrite, AsyncWrite, Write
<1>5. CASE ReadPoll
  BY <1>5 DEF ReadPoll, ReadPortion, ReadComplete, ReadAlready, ReadOn, Overrun
<1>6. CASE WritePoll
  BY <1>6 DEF WritePoll, WriteComplete, WriteAlready
<1>7. CASE HandlerReturns
  BY <1>7 DEF HandlerReturns
<1>8. CASE Device
  BY <1>8 DEF Device, Driver, ByteArrives, OutputSent, WaitFails, OutputFails
<1> QED BY <1>1, <1>2, <1>3, <1>4, <1>5, <1>6, <1>7, <1>8 DEF UserNext

LEMMA NextFlagsAgree == FlagsAgree /\ [UserNext]_uvars => FlagsAgree'
<1> SUFFICES ASSUME FlagsAgree, [UserNext]_uvars PROVE FlagsAgree'
  OBVIOUS
<1> USE DEF FlagsAgree
<1>1. CASE UserNext
  <2>1. CASE UNCHANGED <<size, setRead, writing, setWrite>>
    BY <2>1
  <2>2. CASE size' \in Sizes /\ setRead' = TRUE /\ UNCHANGED <<writing, setWrite>>
    BY <2>2, NoneIsNoSize
  <2>3. CASE size' = None /\ setRead' = FALSE /\ UNCHANGED <<writing, setWrite>>
    BY <2>3
  <2>4. CASE /\ writing' = setWrite'
             /\ UNCHANGED <<size, setRead>>
    BY <2>4
  <2> QED BY <1>1, <2>1, <2>2, <2>3, <2>4, StepFlags
<1>2. CASE UNCHANGED uvars
  BY <1>2 DEF FlagsAgree, uvars, vars, userVars, writeVars, asyncVars, flags
<1> QED BY <1>1, <1>2

\* The two flags of AsyncSerial mirror what Serial has under way, whatever the
\* user and the handlers call and whatever throws.
THEOREM FlagsAlwaysAgree == UserSpec => []FlagsAgree
<1>1. UserInit => FlagsAgree
  BY DEF UserInit, Init, AsyncInit, FlagsAgree
<1> QED BY <1>1, NextFlagsAgree, PTL DEF UserSpec

-----------------------------------------------------------------------------
LEMMA NextHandlerAsked == HandlerAsked /\ [UserNext]_uvars => HandlerAsked'
<1> SUFFICES ASSUME HandlerAsked, [UserNext]_uvars PROVE HandlerAsked'
  OBVIOUS
<1> USE DEF HandlerAsked, uvars, asyncVars, flags, handlers, userState, vars, writeVars
<1>1. CASE StartWrite
  BY <1>1 DEF StartWrite, AsyncWrite
<1>2. CASE WriteRefused
  BY <1>2 DEF WriteRefused, AsyncWriteThrows
<1>3. CASE WritePoll
  BY <1>3 DEF WritePoll, WriteComplete, WriteAlready
<1>4. CASE PortCall \/ StartRead \/ ReadRefused \/ ReadPoll \/ HandlerReturns \/ Device
  <2>1. UNCHANGED <<writeHandler, asked>>
    BY <1>4 DEF PortCall, StartRead, ReadRefused, ReadPoll, HandlerReturns, Device,
                AsyncRead, AsyncReadThrows, ReadPortion, ReadComplete
  <2>2. UserNext
    BY <1>4 DEF UserNext
  <2>3. UNCHANGED writing
    BY <1>4, <2>2 DEF PortCall, StartRead, ReadRefused, ReadPoll, HandlerReturns, Device,
       AsyncRead, AsyncReadThrows, ReadPortion, ReadComplete, Configure, Open, OpenFails,
       ConfigureFails, EventsFail, Close, Flush, Read, ReadAlready, ReadOn, Overrun,
       Driver, ByteArrives, OutputSent, WaitFails, OutputFails
  <2> QED BY <2>1, <2>3
<1>5. CASE UNCHANGED uvars
  BY <1>5
<1> QED BY <1>1, <1>2, <1>3, <1>4, <1>5 DEF UserNext

\* A completion calls the handler of its own write or of one refused meanwhile.
THEOREM OwnHandlerAnswers == UserSpec => AnsweredByOwn
<1> DEFINE Answered == writing /\ ~writing' => \E h \in asked : running' = Calling("write", h)
<1>1. UserInit => HandlerAsked
  BY DEF UserInit, Init, HandlerAsked
<1>2. HandlerAsked /\ [UserNext]_uvars => [Answered]_uvars
  <2> SUFFICES ASSUME HandlerAsked, UserNext, writing, ~writing'
               PROVE  \E h \in asked : running' = Calling("write", h)
    OBVIOUS
  <2>1. WritePoll
    BY StepFlags
  <2> QED BY <2>1 DEF WritePoll, HandlerAsked
<1> QED BY <1>1, <1>2, NextHandlerAsked, PTL DEF UserSpec, AnsweredByOwn
=============================================================================
