------------------------------ MODULE ModbusPort ------------------------------
(***************************************************************************)
(* The Modbus RTU port, src/src/comm/drv_modbus.c: a frame is received and *)
(* transmitted by the interrupts of the serial line, its gaps are timed by *)
(* the 18 kHz interrupt, its contents are handled in the main loop, and a  *)
(* reset of the port may come from a task in between.                      *)
(*                                                                         *)
(* Interrupts do not interrupt each other, so every handler is one step.   *)
(* The main loop is interrupted anywhere: it has one step for each call    *)
(* that the interrupts can see.  A frame of a request has FRAME bytes and  *)
(* so has an answer; a byte is a pair of the frame it belongs to and its   *)
(* place there, and a frame checks if it is whole.                         *)
(*                                                                         *)
(* The line keeps up with its timers: the bytes of a frame follow each     *)
(* other before the gap timer ends, and a byte is sent before the          *)
(* postamble ends (both timers last several bytes).                        *)
(***************************************************************************)
EXTENDS Naturals, Sequences, FiniteSets

CONSTANTS
  Requests,          \* the requests the master makes, see Kinds
  None,
  FRAME,             \* bytes of a request and of an answer
  MB_FRAME_MAX,      \* cells of the buffer
  TOUT_3_5, TOUT_PREAMBLE, TOUT_POSTAMBLE, TOUT_TESTSCI,  \* of the rate set
  TOUT_CONN,
  ModbusPauseStart,  \* the pause after a start
  Slaves,            \* station numbers that may be set, 0 among them or not
  MidFrame,          \* may noise, a break or a reset by a task come between
                     \* two steps of the main loop that handle a frame?
  MaxErrors          \* bytes lost, noise, breaks and resets by tasks, in all

\* What the port makes of a request: it answers with data or an exception,
\* writes and resets itself, finds the frame too short, or it is for another.
Kinds == {"read", "write", "refused", "short", "other"}

ASSUME PortAssumption ==
  /\ Requests \subseteq Kinds /\ None \notin Kinds
  /\ FRAME \in Nat \ {0, 1} /\ MB_FRAME_MAX \in Nat /\ MB_FRAME_MAX >= FRAME
  /\ {TOUT_3_5, TOUT_PREAMBLE, TOUT_POSTAMBLE, TOUT_TESTSCI} \subseteq Nat
  /\ TOUT_CONN \in Nat \ {0}
  /\ ModbusPauseStart \in Nat /\ MaxErrors \in Nat
  /\ Slaves \subseteq Nat /\ Slaves # {} /\ MidFrame \in BOOLEAN

VARIABLES
  pc,               \* where the main loop is
  req,              \* what it found in the frame it works on
  NewMsg, Counter, Size, Buf, ConnFlg,                 \* Mb.Frame
  Timer3_5, TimerPre, TimerPost, TimerConn, TimerTestDelay,
  Slave,            \* Mb.Params.Slave
  EnabledTransmit,  \* true after a line break, until the port is set up again
  MbConnect, PauseModbus,
  rx, tx, dir,      \* receiver and transmitter on, RS_DIR drives the line
  shifting,         \* a byte is being sent
  line,             \* the master: the frame it is sending and the next byte
  asked,            \* the request that waits for an answer
  sent,             \* the bytes of the answer that went out
  errors            \* errors of the line so far

MutCalcTout(tout) == tout

\* A timeout that the rate would round to nothing is one call long: zero would
\* mean a timer that never fires.
CalcTout(tout) == IF tout = 0 THEN 1 ELSE tout
Timeout3_5 == CalcTout(TOUT_3_5)
TimeoutPre == CalcTout(TOUT_PREAMBLE)
TimeoutPost == CalcTout(TOUT_POSTAMBLE)
TimeoutTestDelay == CalcTout(TOUT_TESTSCI)

mainVars  == <<pc, req>>
frameVars == <<NewMsg, Counter, Size, Buf, ConnFlg>>
timerVars == <<Timer3_5, TimerPre, TimerPost, TimerConn, TimerTestDelay>>
sciVars   == <<rx, tx, dir, shifting>>
flagVars  == <<EnabledTransmit, MbConnect, PauseModbus>>
envVars   == <<line, asked, sent, errors>>
vars == <<mainVars, frameVars, timerVars, Slave, sciVars, flagVars, envVars>>

Noise == [of |-> None, at |-> 0]
Bytes == [of : Kinds \cup {"answer"}, at : 0 .. FRAME - 1] \cup {Noise}
Silence == [frame |-> None, next |-> 0]

Steps == {"idle", "received", "parse", "reset", "clear", "answer", "connect",
          "build", "rxoff", "txon", "drive", "preamble", "restart", "gap"}

TypeOK ==
  /\ pc \in Steps /\ req \in Kinds \cup {None}
  /\ NewMsg \in BOOLEAN /\ ConnFlg \in BOOLEAN
  /\ Counter \in 0 .. MB_FRAME_MAX /\ Size \in 0 .. MB_FRAME_MAX
  /\ Buf \in [0 .. MB_FRAME_MAX - 1 -> Bytes]
  /\ Timer3_5 \in 0 .. Timeout3_5 /\ TimerPre \in 0 .. TimeoutPre
  /\ TimerPost \in 0 .. TimeoutPost /\ TimerConn \in 0 .. TOUT_CONN
  /\ TimerTestDelay \in 0 .. TimeoutTestDelay
  /\ Slave \in Slaves
  /\ EnabledTransmit \in BOOLEAN /\ MbConnect \in BOOLEAN
  /\ PauseModbus \in 0 .. ModbusPauseStart
  /\ {rx, tx, dir, shifting} \subseteq BOOLEAN
  /\ line \in [frame : Kinds \cup {None}, next : 0 .. FRAME - 1]
  /\ asked \in Kinds \cup {None} /\ sent \in Seq(Bytes) /\ Len(sent) <= FRAME
  /\ errors \in 0 .. MaxErrors

\* After SerialCommInit and the first SerialCommRefresh of main.c
Init ==
  /\ pc = "idle" /\ req = None
  /\ NewMsg = FALSE /\ Counter = 0 /\ Size = 0 /\ ConnFlg = FALSE
  /\ Buf = [i \in 0 .. MB_FRAME_MAX - 1 |-> Noise]
  /\ Timer3_5 = 0 /\ TimerPre = 0 /\ TimerPost = 0 /\ TimerConn = 0
  /\ TimerTestDelay = 0
  /\ Slave \in Slaves
  /\ EnabledTransmit = FALSE /\ MbConnect = FALSE
  /\ PauseModbus = ModbusPauseStart
  /\ rx = TRUE /\ tx = FALSE /\ dir = FALSE /\ shifting = FALSE
  /\ line = Silence /\ asked = None /\ sent = <<>> /\ errors = 0

----
(***************************************************************************)
(* The parts of the serial interface, SCI, that the port uses.  A byte is  *)
(* sent only while the transmitter is on, and goes out only while RS_DIR   *)
(* drives the line; the end of its sending raises the interrupt.           *)
(***************************************************************************)

SCI_transmit(byte) ==
  /\ shifting' = tx
  /\ sent' = IF tx /\ dir /\ Len(sent) < FRAME THEN Append(sent, byte) ELSE sent

----
(***************************************************************************)
(* The main loop: SerialCommUpdate, ModBusRecieve                          *)
(***************************************************************************)

\* The message is marked as taken before it is handled.
MutUntaken(message) == NewMsg
Untaken(message) == NewMsg /\ ~message

SerialCommUpdate ==
  /\ pc = "idle" /\ PauseModbus = 0
  /\ MbConnect' = ConnFlg
  /\ LET message == NewMsg /\ ~EnabledTransmit IN
       /\ message \/ MbConnect # ConnFlg
       /\ NewMsg' = Untaken(message)
       /\ pc' = IF message THEN "received" ELSE "idle"
  /\ UNCHANGED <<req, Counter, Size, Buf, ConnFlg, timerVars, Slave, sciVars,
                 EnabledTransmit, PauseModbus, envVars>>

\* The kinds of request a frame may pass for.  The answer of the station
\* itself begins with its number and checks too.
Whole(kind) ==
  Counter = FRAME /\ \A i \in 0 .. FRAME - 1 : Buf[i] = [of |-> kind, at |-> i]
Understood ==
  {k \in Requests \ {"other"} : Whole(k) \/ Whole("answer")}

CheckFrame ==
  /\ pc = "received"
  /\ Size' = Counter
  /\ \/ /\ Understood = {} /\ pc' = "restart" /\ UNCHANGED req
     \/ \E k \in Understood : req' = k /\ pc' = "parse"
  /\ UNCHANGED <<NewMsg, Counter, Buf, ConnFlg, timerVars, Slave, sciVars,
                 flagVars, envVars>>

\* The switch over the functions
Dispatch ==
  /\ pc = "parse"
  /\ pc' = CASE req = "short" -> "restart"
             [] req = "write" -> "reset"
             [] OTHER         -> "answer"
  /\ UNCHANGED <<req, frameVars, timerVars, Slave, sciVars, flagVars, envVars>>

\* SerialCommRefresh after a write, called from the main loop: up to the
\* receiver being on, and the timers after it.
ResetByMain ==
  /\ pc = "reset" /\ pc' = "clear"
  /\ Slave' \in Slaves
  /\ NewMsg' = FALSE /\ Counter' = 0
  /\ dir' = FALSE /\ tx' = FALSE /\ shifting' = FALSE /\ rx' = TRUE
  /\ UNCHANGED <<req, Size, Buf, ConnFlg, timerVars, flagVars, envVars>>

MutFlagKept ==
  /\ pc = "clear" /\ pc' = "answer"
  /\ TimerPre' = 0 /\ TimerPost' = 0 /\ Timer3_5' = 0 /\ TimerConn' = 0
  /\ UNCHANGED <<req, frameVars, TimerTestDelay, Slave, sciVars, flagVars, envVars>>

ClearTimers ==
  /\ pc = "clear" /\ pc' = "answer"
  /\ TimerPre' = 0 /\ TimerPost' = 0 /\ Timer3_5' = 0 /\ TimerConn' = 0
  /\ ConnFlg' = FALSE
  /\ UNCHANGED <<req, NewMsg, Counter, Size, Buf, TimerTestDelay, Slave, sciVars,
                 flagVars, envVars>>

\* A station without a number does not answer; an answer with data shows that
\* there is a connection, an exception does not.
BeginAnswer ==
  /\ pc = "answer"
  /\ pc' = IF Slave = 0 THEN "restart" ELSE IF req = "refused" THEN "build" ELSE "connect"
  /\ ConnFlg' = (ConnFlg \/ pc' = "connect")
  /\ UNCHANGED <<req, NewMsg, Counter, Size, Buf, timerVars, Slave, sciVars,
                 flagVars, envVars>>

TimeConnection ==
  /\ pc = "connect" /\ pc' = "build"
  /\ TimerConn' = TOUT_CONN
  /\ UNCHANGED <<req, frameVars, Timer3_5, TimerPre, TimerPost, TimerTestDelay,
                 Slave, sciVars, flagVars, envVars>>

BuildAnswer ==
  /\ pc = "build" /\ pc' = "rxoff"
  /\ Size' = FRAME
  /\ Buf' = [i \in DOMAIN Buf |->
               IF i < FRAME THEN [of |-> "answer", at |-> i] ELSE Buf[i]]
  /\ UNCHANGED <<req, NewMsg, Counter, ConnFlg, timerVars, Slave, sciVars,
                 flagVars, envVars>>

MutReceiverStays ==
  /\ pc = "rxoff" /\ pc' = "txon"
  /\ UNCHANGED <<req, frameVars, timerVars, Slave, sciVars, flagVars, envVars>>

ReceiverOff ==
  /\ pc = "rxoff" /\ pc' = "txon" /\ rx' = FALSE
  /\ UNCHANGED <<req, frameVars, timerVars, Slave, tx, dir, shifting, flagVars,
                 envVars>>

TransmitterOn ==
  /\ pc = "txon" /\ pc' = "drive" /\ tx' = TRUE
  /\ UNCHANGED <<req, frameVars, timerVars, Slave, rx, dir, shifting, flagVars,
                 envVars>>

DriveLine ==
  /\ pc = "drive" /\ pc' = "preamble" /\ dir' = TRUE
  /\ asked' = None /\ sent' = <<>>
  /\ UNCHANGED <<req, frameVars, timerVars, Slave, rx, tx, shifting, flagVars,
                 line, errors>>

BeginPreamble ==
  /\ pc = "preamble" /\ pc' = "idle" /\ req' = None
  /\ TimerPre' = TimeoutPre
  /\ UNCHANGED <<frameVars, Timer3_5, TimerPost, TimerConn, TimerTestDelay, Slave,
                 sciVars, flagVars, envVars>>

MutBytesKept ==
  /\ pc = "restart" /\ pc' = "gap"
  /\ Size' = 0
  /\ dir' = FALSE /\ tx' = FALSE /\ shifting' = FALSE /\ rx' = TRUE
  /\ UNCHANGED <<Counter, req, NewMsg, Buf, ConnFlg, timerVars, Slave, flagVars,
                 envVars>>

\* ReStartReadLine: up to the receiver being on, and the gap timer after it.
ReStartReadLine ==
  /\ pc = "restart" /\ pc' = "gap"
  /\ Size' = 0 /\ Counter' = 0
  /\ dir' = FALSE /\ tx' = FALSE /\ shifting' = FALSE /\ rx' = TRUE
  /\ UNCHANGED <<req, NewMsg, Buf, ConnFlg, timerVars, Slave, flagVars, envVars>>

ClearGap ==
  /\ pc = "gap" /\ pc' = "idle" /\ req' = None
  /\ Timer3_5' = 0
  /\ UNCHANGED <<frameVars, TimerPre, TimerPost, TimerConn, TimerTestDelay, Slave,
                 sciVars, flagVars, envVars>>

Main ==
  \/ SerialCommUpdate \/ CheckFrame \/ Dispatch \/ ResetByMain \/ ClearTimers
  \/ BeginAnswer \/ TimeConnection \/ BuildAnswer \/ ReceiverOff \/ TransmitterOn
  \/ DriveLine \/ BeginPreamble \/ ReStartReadLine \/ ClearGap

----
(***************************************************************************)
(* The interrupts                                                          *)
(***************************************************************************)

\* The main loop handles a frame in about the time of one byte, so mostly
\* noise, breaks and the tasks of 10 Hz find it idle.
Interruptible == MidFrame \/ pc = "idle"

Room == Counter < MB_FRAME_MAX

\* SerialCommRxHandler, for a byte and for a break of the line
RxHandler(byte) ==
  LET stored == ~EnabledTransmit /\ Room IN
  /\ Buf' = IF stored THEN [Buf EXCEPT ![Counter] = byte] ELSE Buf
  /\ Counter' = IF stored THEN Counter + 1 ELSE Counter
  /\ Timer3_5' = IF stored THEN Timeout3_5 ELSE Timer3_5

LineBreak ==
  /\ rx /\ ~dir /\ ~EnabledTransmit /\ errors < MaxErrors /\ Interruptible
  /\ EnabledTransmit' = TRUE
  /\ rx' = FALSE /\ tx' = FALSE /\ dir' = FALSE /\ shifting' = FALSE
  /\ Size' = 0 /\ Counter' = 0 /\ Timer3_5' = 0
  /\ TimerTestDelay' = TimeoutTestDelay
  /\ errors' = errors + 1 /\ line' = Silence
  /\ UNCHANGED <<mainVars, NewMsg, Buf, ConnFlg, TimerPre, TimerPost, TimerConn,
                 Slave, MbConnect, PauseModbus, asked, sent>>

MutByteToSend == Buf[Counter]
ByteToSend == Buf[Counter + 1]

\* SerialCommTxHandler
TxHandler ==
  /\ shifting
  /\ Counter' = Counter + 1
  /\ IF Counter' < Size
     THEN SCI_transmit(ByteToSend) /\ TimerPost' = TimeoutPost
     ELSE shifting' = FALSE /\ UNCHANGED <<sent, TimerPost>>
  /\ UNCHANGED <<mainVars, NewMsg, Size, Buf, ConnFlg, Timer3_5, TimerPre,
                 TimerConn, TimerTestDelay, Slave, rx, tx, dir, flagVars, line,
                 asked, errors>>

\* TimerPending: a timer fires in the call that brings it to zero.
CountDown(Timer) == IF Timer > 0 THEN Timer - 1 ELSE 0
Fires(Timer) == Timer = 1

\* The line keeps up with the timers.
FrameUnderWay == line.frame # None /\ line.next > 0
LineKeepsUp == /\ ~(Fires(Timer3_5) /\ FrameUnderWay /\ rx)
               /\ ~(Fires(TimerPost) /\ shifting)

\* The buffer is read from its beginning after the preamble, and filled from
\* there after the postamble.
CounterAfter == IF Fires(TimerPre) \/ Fires(TimerPost) THEN 0 ELSE Counter

\* SerialCommTimings.  Of several timers that fire in one call the later one
\* in the code has the last word on the receiver.
SerialCommTimings ==
  /\ LineKeepsUp
  /\ <<Timer3_5, TimerPre, TimerPost, TimerConn, TimerTestDelay>> # <<0, 0, 0, 0, 0>>
  /\ Timer3_5' = CountDown(Timer3_5) /\ TimerPre' = CountDown(TimerPre)
  /\ TimerPost' = CountDown(TimerPost) /\ TimerConn' = CountDown(TimerConn)
  /\ TimerTestDelay' = CountDown(TimerTestDelay)
  /\ EnabledTransmit' = (EnabledTransmit /\ ~Fires(TimerTestDelay))
  /\ NewMsg' = (NewMsg \/ Fires(Timer3_5))
  /\ ConnFlg' = (ConnFlg /\ ~Fires(TimerConn))
  /\ IF Fires(TimerPre) THEN SCI_transmit(Buf[0])
                        ELSE UNCHANGED sent /\ shifting' = (shifting /\ ~Fires(TimerPost))
  /\ Counter' = CounterAfter
  /\ tx' = (tx /\ ~Fires(TimerPost)) /\ dir' = (dir /\ ~Fires(TimerPost))
  /\ rx' = (Fires(TimerPost) \/ (~Fires(Timer3_5) /\ (Fires(TimerTestDelay) \/ rx)))
  /\ UNCHANGED <<mainVars, Size, Buf, Slave, MbConnect, PauseModbus, line, asked,
                 errors>>

\* ModBusReset called from a task: ModBusControl, RefreshData, PowerOn
ResetByTask ==
  /\ errors < MaxErrors /\ Interruptible
  /\ Slave' \in Slaves /\ errors' = errors + 1
  /\ NewMsg' = FALSE /\ Counter' = 0 /\ ConnFlg' = FALSE
  /\ dir' = FALSE /\ tx' = FALSE /\ shifting' = FALSE /\ rx' = TRUE
  /\ TimerPre' = 0 /\ TimerPost' = 0 /\ Timer3_5' = 0 /\ TimerConn' = 0
  /\ UNCHANGED <<mainVars, Size, Buf, TimerTestDelay, flagVars, line, asked, sent>>

\* TekModbusParamsUpdate counts the pause after a start.
PauseEnds ==
  /\ PauseModbus > 0 /\ PauseModbus' = PauseModbus - 1
  /\ UNCHANGED <<mainVars, frameVars, timerVars, Slave, sciVars, EnabledTransmit,
                 MbConnect, envVars>>

----
(***************************************************************************)
(* The master and the line.  The master waits for an answer as long as the *)
(* port may still give one.                                                *)
(***************************************************************************)

MasterBegins(kind) ==
  /\ line = Silence /\ asked = None
  /\ line' = [frame |-> kind, next |-> 0]
  /\ UNCHANGED <<mainVars, frameVars, timerVars, Slave, sciVars, flagVars, asked,
                 sent, errors>>

\* The next byte of the frame: it arrives if the receiver is on and the line
\* is free, unless it is lost or damaged on the way.
MasterSends ==
  /\ line.frame # None
  /\ LET last == line.next = FRAME - 1
         heard == rx /\ ~dir
         byte == [of |-> line.frame, at |-> line.next]
     IN  /\ line' = IF last THEN Silence ELSE [line EXCEPT !.next = @ + 1]
         /\ asked' = IF last THEN line.frame ELSE asked
         /\ \/ heard /\ RxHandler(byte) /\ UNCHANGED errors
            \/ heard /\ errors < MaxErrors /\ RxHandler(Noise) /\ errors' = errors + 1
            \/ ~heard /\ UNCHANGED <<Buf, Counter, Timer3_5, errors>>
            \/ /\ heard /\ errors < MaxErrors /\ errors' = errors + 1
               /\ UNCHANGED <<Buf, Counter, Timer3_5>>
  /\ UNCHANGED <<mainVars, NewMsg, Size, ConnFlg, TimerPre, TimerPost, TimerConn,
                 TimerTestDelay, Slave, sciVars, flagVars, sent>>

NoiseOnLine ==
  /\ line = Silence /\ rx /\ ~dir /\ errors < MaxErrors /\ Interruptible
  /\ RxHandler(Noise) /\ errors' = errors + 1
  /\ UNCHANGED <<mainVars, NewMsg, Size, ConnFlg, TimerPre, TimerPost, TimerConn,
                 TimerTestDelay, Slave, sciVars, flagVars, line, asked, sent>>

Quiet == /\ pc = "idle" /\ ~NewMsg /\ ~dir
         /\ Timer3_5 = 0 /\ TimerPre = 0 /\ TimerPost = 0
MasterGivesUp ==
  /\ asked # None /\ Quiet /\ asked' = None
  /\ UNCHANGED <<mainVars, frameVars, timerVars, Slave, sciVars, flagVars, line,
                 sent, errors>>

Next ==
  \/ Main \/ TxHandler \/ SerialCommTimings \/ PauseEnds \/ ResetByTask
  \/ LineBreak \/ NoiseOnLine \/ MasterSends \/ MasterGivesUp
  \/ \E kind \in Requests : MasterBegins(kind)

Spec == Init /\ [][Next]_vars

(***************************************************************************)
(* The timer interrupt comes every 55 us, the main loop has nothing else   *)
(* to do for ever, a byte that is being sent ends, and the master ends a   *)
(* frame it began and gives up an answer that does not come.  It need not  *)
(* begin a frame, and the line need not fail.                              *)
(***************************************************************************)
Fairness ==
  /\ WF_vars(Main) /\ WF_vars(SerialCommTimings) /\ WF_vars(PauseEnds)
  /\ WF_vars(TxHandler) /\ WF_vars(MasterSends) /\ WF_vars(MasterGivesUp)

FairSpec == Spec /\ Fairness

----
(***************************************************************************)
(* Properties                                                              *)
(***************************************************************************)

\* The port never listens and sends at once, so its own answer is not taken
\* for a request.
HalfDuplex == ~(rx /\ tx)

\* A connection is shown only while its timer runs, or in the one place of
\* the main loop where the timer is about to be set: without a master the
\* indication ends.
ConnectionTimed == ConnFlg => TimerConn > 0 \/ pc = "connect"

\* What goes out, byte by byte from the buffer the receiver also writes to,
\* is an answer from its beginning, and the line is released only after its
\* last byte, unless a task resets the port (errors counts those).
AnswerBegun == \A i \in DOMAIN sent : sent[i] = [of |-> "answer", at |-> i - 1]
AnswerWhole ==
  [][AnswerBegun' /\ (dir /\ ~dir' /\ errors' = errors => Len(sent) = FRAME)]_vars

\* The promise to the master: ModbusExchange
Phase == CASE dir -> "answering"
           [] ~dir /\ rx /\ pc = "idle" /\ ~EnabledTransmit -> "listening"
           [] OTHER -> "working"
Exchange == INSTANCE ModbusExchange WITH Requests <- Kinds, phase <- Phase
ExchangeSpec == Exchange!Spec

\* Whatever the line does, the port comes back to listening: no frame, break
\* or noise leaves the receiver off or the line driven.
Listens == []<>(rx /\ ~dir /\ ~EnabledTransmit)

\* A master that goes on asking a station with a number is answered again after the errors of the
\* line have ended: no remains of a damaged frame spoil all frames after it.
Answered == {"read", "write", "refused"}
Recovers == <>[](Slave # 0) /\ []<>(asked \in Answered) => []<>dir
===============================================================================
