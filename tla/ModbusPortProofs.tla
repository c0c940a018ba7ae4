-------------------------- MODULE ModbusPortProofs --------------------------
(***************************************************************************)
(* The theorems about ModbusPort, for every value of its constants that    *)
(* the theorem itself does not restrict.                                   *)
(***************************************************************************)
EXTENDS ModbusPort, TLAPS

(* The answer is on its way: the preamble runs, a byte is being sent, or   *)
(* the postamble runs.                                                     *)
Sending == TimerPre > 0 \/ TimerPost > 0 \/ shifting

(* Steps of the main loop that handle a request that was received whole.   *)
Handling == {"parse", "reset", "clear", "answer", "connect", "build", "rxoff",
             "txon", "drive"}

TypesInv ==
  /\ pc \in Steps
  /\ NewMsg \in BOOLEAN /\ EnabledTransmit \in BOOLEAN
  /\ rx \in BOOLEAN /\ tx \in BOOLEAN /\ dir \in BOOLEAN /\ shifting \in BOOLEAN
  /\ Timer3_5 \in Nat /\ TimerPre \in Nat /\ TimerPost \in Nat
  /\ TimerTestDelay \in Nat
  /\ Counter \in 0..MB_FRAME_MAX /\ Size \in Nat
  /\ Buf \in [0..(MB_FRAME_MAX - 1) -> Bytes]
  /\ line \in [frame : Kinds \cup {None}, next : 0..(FRAME - 1)]
  /\ asked \in Kinds \cup {None} /\ sent \in Seq(Bytes) /\ errors \in Nat

(* A break shuts the port until its timer ends, and the timer runs.        *)
BreakInv ==
  /\ EnabledTransmit <=> TimerTestDelay > 0
  /\ EnabledTransmit => pc = "idle" /\ ~dir /\ ~NewMsg /\ Timer3_5 = 0

(* The line is driven from the third of the three steps that take it to    *)
(* the end of the postamble, and the receiver is off for as long.          *)
LineInv ==
  /\ Sending => pc = "idle" /\ dir
  /\ dir <=> pc = "preamble" \/ (pc = "idle" /\ tx)
  /\ tx => pc \in {"idle", "drive", "preamble"}
  /\ pc \in {"drive", "preamble"} => tx
  /\ tx \/ pc \in {"txon", "received", "parse", "reset"} => ~rx

(* Nothing is received while a frame is handled or answered: the master    *)
(* waits for the answer.                                                   *)
ReceiveInv ==
  /\ pc \in Handling => asked # None
  /\ asked # None => line = Silence
  /\ pc \notin {"idle", "gap"} \/ dir => ~NewMsg /\ Timer3_5 = 0
  /\ pc = "restart" => ~rx \/ asked # None
  /\ NewMsg => ~rx /\ Timer3_5 = 0
  /\ Timer3_5 > 0 => rx

(* What was received is from the line, and its last byte from a request    *)
(* the master waits for.                                                   *)
ContentInv ==
  (Timer3_5 > 0 \/ NewMsg \/ pc = "received") /\ Counter > 0
      /\ Buf[Counter - 1].at = FRAME - 1
    => asked # None /\ Buf[Counter - 1].of \in Kinds

(* The buffer holds the answer, and so much of it is sent.                 *)
AnswerReady ==
  Size = FRAME /\ \A i \in 0..(FRAME - 1) : Buf[i] = [of |-> "answer", at |-> i]
AnswerInv ==
  /\ pc \in {"rxoff", "txon", "drive", "preamble"} \/ dir => AnswerReady
  /\ AnswerBegun /\ Len(sent) <= FRAME
  /\ pc = "preamble" \/ TimerPre > 0 => sent = <<>> /\ ~shifting /\ TimerPost = 0
  /\ shifting => /\ Counter < FRAME /\ Len(sent) = Counter + 1
                 /\ Counter > 0 => TimerPost > 0
  /\ dir /\ pc = "idle" /\ ~shifting /\ TimerPre = 0
       => TimerPost > 0 /\ Len(sent) = FRAME

Inv == TypesInv /\ BreakInv /\ LineInv /\ ReceiveInv /\ ContentInv /\ AnswerInv

-----------------------------------------------------------------------------
(* The constants, one by one.                                              *)
LEMMA Constants ==
  /\ Requests \subseteq Kinds /\ None \notin Kinds
  /\ FRAME \in Nat /\ FRAME >= 2 /\ MB_FRAME_MAX \in Nat /\ MB_FRAME_MAX >= FRAME
  /\ TOUT_CONN \in Nat \ {0} /\ Slaves \subseteq Nat
  BY PortAssumption

LEMMA Timeouts ==
  /\ Timeout3_5 \in Nat \ {0} /\ TimeoutPre \in Nat \ {0}
  /\ TimeoutPost \in Nat \ {0} /\ TimeoutTestDelay \in Nat \ {0}
<1>1. \A tout \in Nat : CalcTout(tout) \in Nat \ {0}
  BY DEF CalcTout
<1>2. /\ TOUT_3_5 \in Nat /\ TOUT_PREAMBLE \in Nat
      /\ TOUT_POSTAMBLE \in Nat /\ TOUT_TESTSCI \in Nat
  BY PortAssumption
<1> QED BY <1>1, <1>2 DEF Timeout3_5, TimeoutPre, TimeoutPost, TimeoutTestDelay

LEMMA SerialCommUpdateKeeps ==
  ASSUME MidFrame = FALSE, Inv, SerialCommUpdate
  PROVE  Inv'
<1>1. TypesInv'
  BY Constants DEF Inv, SerialCommUpdate, TypesInv, Steps, timerVars, sciVars,
           envVars, Untaken
<1>2. BreakInv'
  BY Constants DEF Inv, SerialCommUpdate, BreakInv, timerVars, sciVars, Untaken
<1>3. LineInv'
  BY DEF Inv, SerialCommUpdate, LineInv, Sending, ReceiveInv, Handling,
           timerVars, sciVars, Untaken
<1>4. ReceiveInv'
  BY Constants DEF Inv, SerialCommUpdate, ReceiveInv, Handling, timerVars,
           sciVars, envVars, Untaken
<1>5. ContentInv'
  BY Constants DEF Inv, SerialCommUpdate, ContentInv, timerVars, envVars,
           Untaken
<1>6. AnswerInv'
  BY DEF Inv, SerialCommUpdate, AnswerInv, AnswerReady, AnswerBegun, timerVars,
           sciVars, envVars
<1> QED BY <1>1, <1>2, <1>3, <1>4, <1>5, <1>6 DEF Inv

LEMMA CheckFrameKeeps ==
  ASSUME MidFrame = FALSE, Inv, CheckFrame
  PROVE  Inv'
<1>1. TypesInv'
  BY DEF Inv, CheckFrame, TypesInv, Steps, timerVars, sciVars, flagVars,
           envVars
<1>2. BreakInv'
  BY DEF Inv, CheckFrame, BreakInv, timerVars, sciVars, flagVars
<1>3. LineInv'
  BY DEF Inv, CheckFrame, LineInv, Sending, timerVars, sciVars
<1>4. ReceiveInv'
  <2>1. CASE pc' = "restart"
    BY <2>1 DEF Inv, CheckFrame, TypesInv, LineInv, ReceiveInv, Handling, timerVars,
               sciVars, envVars
  <2>2. CASE pc' = "parse"
    <3>1. PICK k \in Understood : pc' = "parse"
      BY <2>2 DEF CheckFrame
    <3>2. Counter = FRAME /\ Buf[FRAME - 1].at = FRAME - 1
      <4>1. PICK f \in Kinds \cup {"answer"} : Whole(f)
        BY <3>1, Constants DEF Understood
      <4>2. FRAME - 1 \in 0..(FRAME - 1)
        BY Constants
      <4>3. Counter = FRAME /\ Buf[FRAME - 1] = [of |-> f, at |-> FRAME - 1]
        BY <4>1, <4>2, Zenon DEF Whole
      <4> QED BY <4>3
    <3>3. asked # None
      BY <3>2, Constants DEF CheckFrame, Inv, ContentInv
    <3> QED BY <2>2, <3>3
        DEF Inv, CheckFrame, TypesInv, LineInv, ReceiveInv, Handling, timerVars,
            sciVars, envVars
  <2> QED BY <2>1, <2>2 DEF CheckFrame
<1>5. ContentInv'
  BY DEF Inv, CheckFrame, ContentInv, timerVars, envVars
<1>6. AnswerInv'
  BY DEF Inv, CheckFrame, AnswerInv, AnswerReady, AnswerBegun, LineInv,
           Sending, timerVars, sciVars, envVars, Understood, Whole
<1> QED BY <1>1, <1>2, <1>3, <1>4, <1>5, <1>6 DEF Inv

LEMMA DispatchKeeps ==
  ASSUME MidFrame = FALSE, Inv, Dispatch
  PROVE  Inv'
<1>1. TypesInv'
  BY DEF Inv, Dispatch, TypesInv, Steps, frameVars, timerVars, sciVars,
           flagVars, envVars
<1>2. BreakInv'
  BY DEF Inv, Dispatch, BreakInv, frameVars, timerVars, sciVars, flagVars
<1>3. LineInv'
  BY DEF Inv, Dispatch, LineInv, Sending, timerVars, sciVars
<1>4. ReceiveInv'
  BY DEF Inv, Dispatch, ReceiveInv, Handling, frameVars, timerVars, sciVars,
           envVars
<1>5. ContentInv'
  BY DEF Inv, Dispatch, ContentInv, frameVars, timerVars, envVars
<1>6. AnswerInv'
  BY DEF Inv, Dispatch, AnswerInv, AnswerReady, AnswerBegun, frameVars,
           timerVars, sciVars, envVars
<1> QED BY <1>1, <1>2, <1>3, <1>4, <1>5, <1>6 DEF Inv

LEMMA ResetByMainKeeps ==
  ASSUME MidFrame = FALSE, Inv, ResetByMain
  PROVE  Inv'
<1>1. TypesInv'
  <2>1. /\ dir' \in BOOLEAN /\ tx' \in BOOLEAN /\ shifting' \in BOOLEAN
        /\ rx' \in BOOLEAN /\ NewMsg' \in BOOLEAN
    BY Zenon DEF ResetByMain, Inv, TypesInv
  <2> QED BY <2>1, Constants, Timeouts
      DEF ResetByMain, Inv, TypesInv, Steps, timerVars, flagVars, envVars
<1>2. BreakInv'
  BY DEF Inv, ResetByMain, BreakInv, timerVars, flagVars
<1>3. LineInv'
  BY DEF Inv, ResetByMain, LineInv, Sending, timerVars
<1>4. ReceiveInv'
  BY DEF Inv, ResetByMain, ReceiveInv, Handling, timerVars, envVars
<1>5. ContentInv'
  BY DEF Inv, ResetByMain, ContentInv, timerVars, envVars
<1>6. AnswerInv'
  BY DEF Inv, ResetByMain, AnswerInv, AnswerReady, AnswerBegun, timerVars,
           envVars
<1> QED BY <1>1, <1>2, <1>3, <1>4, <1>5, <1>6 DEF Inv

LEMMA ClearTimersKeeps ==
  ASSUME MidFrame = FALSE, Inv, ClearTimers
  PROVE  Inv'
<1>1. TypesInv'
  BY DEF Inv, ClearTimers, TypesInv, Steps, sciVars, flagVars, envVars
<1>2. BreakInv'
  BY DEF Inv, ClearTimers, BreakInv, sciVars, flagVars
<1>3. LineInv'
  BY DEF Inv, ClearTimers, LineInv, Sending, sciVars
<1>4. ReceiveInv'
  BY DEF Inv, ClearTimers, ReceiveInv, Handling, sciVars, envVars
<1>5. ContentInv'
  BY DEF Inv, ClearTimers, ContentInv, envVars
<1>6. AnswerInv'
  BY DEF Inv, ClearTimers, AnswerInv, AnswerReady, AnswerBegun, LineInv,
           Sending, sciVars, envVars
<1> QED BY <1>1, <1>2, <1>3, <1>4, <1>5, <1>6 DEF Inv

LEMMA BeginAnswerKeeps ==
  ASSUME MidFrame = FALSE, Inv, BeginAnswer
  PROVE  Inv'
<1>1. TypesInv'
  BY DEF Inv, BeginAnswer, TypesInv, Steps, timerVars, sciVars, flagVars,
           envVars
<1>2. BreakInv'
  BY DEF Inv, BeginAnswer, BreakInv, timerVars, sciVars, flagVars
<1>3. LineInv'
  BY DEF Inv, BeginAnswer, LineInv, Sending, timerVars, sciVars
<1>4. ReceiveInv'
  BY DEF Inv, BeginAnswer, ReceiveInv, Handling, timerVars, sciVars, envVars
<1>5. ContentInv'
  BY DEF Inv, BeginAnswer, ContentInv, timerVars, envVars
<1>6. AnswerInv'
  BY DEF Inv, BeginAnswer, AnswerInv, AnswerReady, AnswerBegun, timerVars,
           sciVars, envVars
<1> QED BY <1>1, <1>2, <1>3, <1>4, <1>5, <1>6 DEF Inv

LEMMA TimeConnectionKeeps ==
  ASSUME MidFrame = FALSE, Inv, TimeConnection
  PROVE  Inv'
<1>1. TypesInv'
  BY DEF Inv, TimeConnection, TypesInv, Steps, frameVars, sciVars, flagVars,
           envVars
<1>2. BreakInv'
  BY DEF Inv, TimeConnection, BreakInv, frameVars, sciVars, flagVars
<1>3. LineInv'
  BY DEF Inv, TimeConnection, LineInv, Sending, sciVars
<1>4. ReceiveInv'
  BY DEF Inv, TimeConnection, ReceiveInv, Handling, frameVars, sciVars, envVars
<1>5. ContentInv'
  BY DEF Inv, TimeConnection, ContentInv, frameVars, envVars
<1>6. AnswerInv'
  BY DEF Inv, TimeConnection, AnswerInv, AnswerReady, AnswerBegun, frameVars,
           sciVars, envVars
<1> QED BY <1>1, <1>2, <1>3, <1>4, <1>5, <1>6 DEF Inv

LEMMA BuildAnswerKeeps ==
  ASSUME MidFrame = FALSE, Inv, BuildAnswer
  PROVE  Inv'
<1>1. TypesInv'
  BY Constants, Timeouts DEF Inv, BuildAnswer, TypesInv, Steps, Bytes, Silence,
           Noise, timerVars, sciVars, flagVars, envVars
<1>2. BreakInv'
  BY DEF Inv, BuildAnswer, BreakInv, timerVars, sciVars, flagVars
<1>3. LineInv'
  BY DEF Inv, BuildAnswer, LineInv, Sending, timerVars, sciVars
<1>4. ReceiveInv'
  BY DEF Inv, BuildAnswer, ReceiveInv, Handling, timerVars, sciVars, envVars
<1>5. ContentInv'
  BY DEF Inv, BuildAnswer, ContentInv, ReceiveInv, Handling, timerVars, envVars
<1>6. AnswerInv'
  BY Constants, Timeouts DEF Inv, BuildAnswer, AnswerInv, AnswerReady,
           AnswerBegun, TypesInv, timerVars, sciVars, envVars
<1> QED BY <1>1, <1>2, <1>3, <1>4, <1>5, <1>6 DEF Inv

LEMMA ReceiverOffKeeps ==
  ASSUME MidFrame = FALSE, Inv, ReceiverOff
  PROVE  Inv'
<1>1. TypesInv'
  BY DEF Inv, ReceiverOff, TypesInv, Steps, frameVars, timerVars, flagVars,
           envVars
<1>2. BreakInv'
  BY DEF Inv, ReceiverOff, BreakInv, frameVars, timerVars, flagVars
<1>3. LineInv'
  BY DEF Inv, ReceiverOff, LineInv, Sending, timerVars
<1>4. ReceiveInv'
  BY DEF Inv, ReceiverOff, ReceiveInv, Handling, frameVars, timerVars, envVars
<1>5. ContentInv'
  BY DEF Inv, ReceiverOff, ContentInv, frameVars, timerVars, envVars
<1>6. AnswerInv'
  BY DEF Inv, ReceiverOff, AnswerInv, AnswerReady, AnswerBegun, frameVars,
           timerVars, envVars
<1> QED BY <1>1, <1>2, <1>3, <1>4, <1>5, <1>6 DEF Inv

LEMMA TransmitterOnKeeps ==
  ASSUME MidFrame = FALSE, Inv, TransmitterOn
  PROVE  Inv'
<1>1. TypesInv'
  BY DEF Inv, TransmitterOn, TypesInv, Steps, frameVars, timerVars, flagVars,
           envVars
<1>2. BreakInv'
  BY DEF Inv, TransmitterOn, BreakInv, frameVars, timerVars, flagVars
<1>3. LineInv'
  BY DEF Inv, TransmitterOn, LineInv, Sending, timerVars
<1>4. ReceiveInv'
  BY DEF Inv, TransmitterOn, ReceiveInv, Handling, frameVars, timerVars,
           envVars
<1>5. ContentInv'
  BY DEF Inv, TransmitterOn, ContentInv, frameVars, timerVars, envVars
<1>6. AnswerInv'
  BY DEF Inv, TransmitterOn, AnswerInv, AnswerReady, AnswerBegun, frameVars,
           timerVars, envVars
<1> QED BY <1>1, <1>2, <1>3, <1>4, <1>5, <1>6 DEF Inv

LEMMA DriveLineKeeps ==
  ASSUME MidFrame = FALSE, Inv, DriveLine
  PROVE  Inv'
<1>1. TypesInv'
  BY DEF Inv, DriveLine, TypesInv, Steps, frameVars, timerVars, flagVars
<1>2. BreakInv'
  BY DEF Inv, DriveLine, BreakInv, frameVars, timerVars, flagVars
<1>3. LineInv'
  BY DEF Inv, DriveLine, LineInv, Sending, timerVars
<1>4. ReceiveInv'
  BY DEF Inv, DriveLine, ReceiveInv, Handling, frameVars, timerVars
<1>5. ContentInv'
  BY DEF Inv, DriveLine, ContentInv, ReceiveInv, Handling, frameVars, timerVars
<1>6. AnswerInv'
  BY Constants, Timeouts DEF Inv, DriveLine, AnswerInv, AnswerReady,
           AnswerBegun, TypesInv, LineInv, Sending, frameVars, timerVars
<1> QED BY <1>1, <1>2, <1>3, <1>4, <1>5, <1>6 DEF Inv

LEMMA BeginPreambleKeeps ==
  ASSUME MidFrame = FALSE, Inv, BeginPreamble
  PROVE  Inv'
<1>1. TypesInv'
  BY Timeouts DEF Inv, BeginPreamble, TypesInv, Steps, frameVars, sciVars,
           flagVars, envVars
<1>2. BreakInv'
  BY DEF Inv, BeginPreamble, BreakInv, frameVars, sciVars, flagVars
<1>3. LineInv'
  BY DEF Inv, BeginPreamble, LineInv, Sending, sciVars
<1>4. ReceiveInv'
  BY DEF Inv, BeginPreamble, ReceiveInv, Handling, frameVars, sciVars, envVars
<1>5. ContentInv'
  BY DEF Inv, BeginPreamble, ContentInv, frameVars, envVars
<1>6. AnswerInv'
  BY Timeouts DEF Inv, BeginPreamble, AnswerInv, AnswerReady, AnswerBegun,
           TypesInv, frameVars, sciVars, envVars
<1> QED BY <1>1, <1>2, <1>3, <1>4, <1>5, <1>6 DEF Inv

LEMMA ReStartReadLineKeeps ==
  ASSUME MidFrame = FALSE, Inv, ReStartReadLine
  PROVE  Inv'
<1>1. TypesInv'
  <2>1. /\ dir' \in BOOLEAN /\ tx' \in BOOLEAN /\ shifting' \in BOOLEAN
        /\ rx' \in BOOLEAN /\ NewMsg' \in BOOLEAN
    BY Zenon DEF ReStartReadLine, Inv, TypesInv
  <2> QED BY <2>1, Constants, Timeouts
      DEF ReStartReadLine, Inv, TypesInv, Steps, timerVars, flagVars, envVars
<1>2. BreakInv'
  BY DEF Inv, ReStartReadLine, BreakInv, timerVars, flagVars
<1>3. LineInv'
  BY DEF Inv, ReStartReadLine, LineInv, Sending, timerVars
<1>4. ReceiveInv'
  BY DEF Inv, ReStartReadLine, ReceiveInv, Handling, timerVars, envVars
<1>5. ContentInv'
  BY DEF Inv, ReStartReadLine, ContentInv, timerVars, envVars
<1>6. AnswerInv'
  BY DEF Inv, ReStartReadLine, AnswerInv, AnswerReady, AnswerBegun, timerVars,
           envVars
<1> QED BY <1>1, <1>2, <1>3, <1>4, <1>5, <1>6 DEF Inv

LEMMA ClearGapKeeps ==
  ASSUME MidFrame = FALSE, Inv, ClearGap
  PROVE  Inv'
<1>1. TypesInv'
  BY DEF Inv, ClearGap, TypesInv, Steps, frameVars, sciVars, flagVars, envVars
<1>2. BreakInv'
  BY DEF Inv, ClearGap, BreakInv, frameVars, sciVars, flagVars
<1>3. LineInv'
  BY DEF Inv, ClearGap, LineInv, Sending, sciVars
<1>4. ReceiveInv'
  BY DEF Inv, ClearGap, ReceiveInv, Handling, frameVars, sciVars, envVars
<1>5. ContentInv'
  BY DEF Inv, ClearGap, ContentInv, frameVars, envVars
<1>6. AnswerInv'
  BY DEF Inv, ClearGap, AnswerInv, AnswerReady, AnswerBegun, LineInv, Sending,
           frameVars, sciVars, envVars
<1> QED BY <1>1, <1>2, <1>3, <1>4, <1>5, <1>6 DEF Inv

LEMMA LineBreakKeeps ==
  ASSUME MidFrame = FALSE, Inv, LineBreak
  PROVE  Inv'
<1>1. TypesInv'
  <2>1. /\ dir' \in BOOLEAN /\ tx' \in BOOLEAN /\ shifting' \in BOOLEAN
        /\ rx' \in BOOLEAN /\ EnabledTransmit' \in BOOLEAN
    BY Zenon DEF LineBreak, Inv, TypesInv
  <2> QED BY <2>1, Constants, Timeouts
      DEF LineBreak, Inv, TypesInv, Steps, Silence, mainVars
<1>2. BreakInv'
  BY Constants, Timeouts DEF Inv, LineBreak, BreakInv, TypesInv, LineInv,
           Sending, ReceiveInv, Handling, ContentInv, mainVars, Interruptible
<1>3. LineInv'
  BY DEF Inv, LineBreak, LineInv, Sending, mainVars
<1>4. ReceiveInv'
  BY DEF Inv, LineBreak, ReceiveInv, Handling, mainVars
<1>5. ContentInv'
  BY DEF Inv, LineBreak, ContentInv, mainVars
<1>6. AnswerInv'
  BY Constants DEF Inv, LineBreak, AnswerInv, AnswerReady, AnswerBegun,
           mainVars, Interruptible
<1> QED BY <1>1, <1>2, <1>3, <1>4, <1>5, <1>6 DEF Inv

(* While a byte is being sent, the buffer holds the answer and the bytes    *)
(* before it are out.                                                      *)
LEMMA ShiftingFacts ==
  ASSUME Inv, shifting
  PROVE  /\ pc = "idle" /\ dir /\ tx /\ ~rx /\ ~NewMsg /\ Timer3_5 = 0 /\ TimerPre = 0
         /\ AnswerReady /\ Counter \in 0..(FRAME - 1) /\ Len(sent) = Counter + 1
         /\ Counter > 0 => TimerPost > 0
<1>1. pc = "idle" /\ dir /\ tx /\ ~rx
  BY DEF Inv, LineInv, Sending
<1>2. ~NewMsg /\ Timer3_5 = 0
  BY <1>1 DEF Inv, ReceiveInv
<1>3. TimerPre = 0
  BY DEF Inv, AnswerInv, TypesInv
<1>4. AnswerReady /\ Counter < FRAME /\ Len(sent) = Counter + 1
      /\ (Counter > 0 => TimerPost > 0)
  BY <1>1 DEF Inv, AnswerInv
<1> QED BY <1>1, <1>2, <1>3, <1>4, Constants DEF Inv, TypesInv

LEMMA TxHandlerEffect ==
  ASSUME Inv, TxHandler
  PROVE  \/ /\ Counter + 1 < FRAME /\ shifting' /\ TimerPost' = TimeoutPost
            /\ sent' = Append(sent, [of |-> "answer", at |-> Counter + 1])
         \/ /\ Counter + 1 = FRAME /\ ~shifting' /\ UNCHANGED <<sent, TimerPost>>
<1>1. Counter' = Counter + 1 /\ Size = FRAME /\ Counter \in 0..(FRAME - 1)
  BY ShiftingFacts DEF TxHandler, AnswerReady
<1>2. CASE Counter + 1 < FRAME
  <2>1. SCI_transmit(ByteToSend) /\ TimerPost' = TimeoutPost
    BY <1>1, <1>2 DEF TxHandler
  <2>2. ByteToSend = [of |-> "answer", at |-> Counter + 1]
    BY <1>1, <1>2, ShiftingFacts, Constants DEF ByteToSend, AnswerReady, TxHandler
  <2>3. sent' = Append(sent, ByteToSend) /\ shifting'
    BY <1>1, <1>2, <2>1, ShiftingFacts, Constants DEF SCI_transmit, TxHandler
  <2> QED BY <1>2, <2>1, <2>2, <2>3
<1>3. CASE ~(Counter + 1 < FRAME)
  BY <1>1, <1>3, Constants DEF TxHandler
<1> QED BY <1>2, <1>3


LEMMA TxHandlerKeeps ==
  ASSUME MidFrame = FALSE, Inv, TxHandler
  PROVE  Inv'
<1>1. TypesInv'
  <2>1. shifting \in BOOLEAN /\ shifting' \in BOOLEAN
    BY Zenon DEF TxHandler, SCI_transmit, Inv, TypesInv
  <2>2. Counter' \in 0..MB_FRAME_MAX
    BY ShiftingFacts, Constants DEF TxHandler
  <2>3. sent' \in Seq(Bytes) /\ TimerPost' \in Nat
    <3>1. Counter + 1 < FRAME => [of |-> "answer", at |-> Counter + 1] \in Bytes
      BY ShiftingFacts, Constants DEF TxHandler, Bytes
    <3>2. sent \in Seq(Bytes) /\ TimerPost \in Nat
      BY DEF Inv, TypesInv
    <3> QED BY <3>1, <3>2, TxHandlerEffect, Timeouts
  <2> QED BY <2>1, <2>2, <2>3 DEF TxHandler, Inv, TypesInv, mainVars, flagVars
<1>2. BreakInv'
  BY DEF Inv, TxHandler, BreakInv, mainVars, flagVars
<1>3. LineInv'
  BY DEF Inv, TxHandler, LineInv, Sending, mainVars
<1>4. ReceiveInv'
  BY DEF Inv, TxHandler, ReceiveInv, Handling, mainVars
<1>5. ContentInv'
  BY Constants DEF Inv, TxHandler, ContentInv, TypesInv, LineInv, Sending,
           ReceiveInv, Handling, mainVars, ByteToSend, SCI_transmit
<1>6. AnswerInv'
  <2> DEFINE byte == [of |-> "answer", at |-> Counter + 1]
  <2>1. shifting /\ UNCHANGED <<pc, dir, tx, TimerPre, Size, Buf>> /\ Counter' = Counter + 1
    BY DEF TxHandler, mainVars
  <2>2. AnswerReady'
    BY <2>1, ShiftingFacts DEF AnswerReady
  <2>3. CASE /\ Counter + 1 < FRAME /\ shifting' /\ TimerPost' = TimeoutPost
             /\ sent' = Append(sent, byte)
    <3>1. sent \in Seq(Bytes) /\ AnswerBegun
      BY DEF Inv, TypesInv, AnswerInv
    <3>2. AnswerBegun' /\ Len(sent') = Counter + 2
      BY <2>1, <2>3, <3>1, ShiftingFacts DEF AnswerBegun
    <3> QED BY <2>1, <2>2, <2>3, <3>2, ShiftingFacts, Timeouts, Constants DEF AnswerInv
  <2>4. CASE Counter + 1 = FRAME /\ ~shifting' /\ UNCHANGED <<sent, TimerPost>>
    <3>1. AnswerBegun' /\ Len(sent') = FRAME /\ TimerPost' > 0
      BY <2>1, <2>4, ShiftingFacts, Constants DEF AnswerBegun, Inv, AnswerInv
    <3> QED BY <2>1, <2>2, <2>4, <3>1, ShiftingFacts DEF AnswerInv
  <2> QED BY <2>3, <2>4, TxHandlerEffect
<1> QED BY <1>1, <1>2, <1>3, <1>4, <1>5, <1>6 DEF Inv

(* The timer interrupt while an answer is on its way, and while none is.   *)
LEMMA SendingFacts ==
  ASSUME Inv, Sending
  PROVE  /\ pc = "idle" /\ dir /\ tx /\ ~rx /\ ~NewMsg /\ Timer3_5 = 0 /\ AnswerReady
         /\ ~EnabledTransmit /\ TimerTestDelay = 0
<1>1. pc = "idle" /\ dir /\ tx /\ ~rx
  BY DEF Inv, LineInv
<1>2. ~NewMsg /\ Timer3_5 = 0 /\ AnswerReady
  BY <1>1 DEF Inv, ReceiveInv, AnswerInv
<1>3. ~EnabledTransmit /\ TimerTestDelay = 0
  BY <1>1 DEF Inv, BreakInv, TypesInv
<1> QED BY <1>1, <1>2, <1>3

LEMMA TimingsEffect ==
  ASSUME Inv, SerialCommTimings
  PROVE  \/ /\ Sending /\ Fires(TimerPost)                  \* the line is released
            /\ ~dir' /\ ~tx' /\ rx' /\ ~shifting' /\ TimerPre' = 0 /\ TimerPost' = 0
            /\ UNCHANGED sent /\ Len(sent) = FRAME
         \/ /\ Sending /\ Fires(TimerPre)                   \* the answer begins
            /\ dir' /\ tx' /\ ~rx' /\ shifting' /\ TimerPre' = 0 /\ TimerPost' = 0
            /\ sent' = <<[of |-> "answer", at |-> 0]>> /\ Counter' = 0
         \/ /\ Sending /\ dir' /\ tx' /\ ~rx'               \* it goes on
            /\ shifting' <=> shifting
            /\ TimerPre' > 0 <=> TimerPre > 0
            /\ TimerPost' > 0 <=> TimerPost > 0
            /\ UNCHANGED <<sent, Counter>>
         \/ /\ ~Sending /\ ~shifting' /\ TimerPre' = 0 /\ TimerPost' = 0
            /\ dir' <=> dir
            /\ tx' <=> tx
            /\ rx' => rx \/ EnabledTransmit
            /\ UNCHANGED <<sent, Counter>>
<1>1. /\ TimerPre \in Nat /\ TimerPost \in Nat /\ TimerTestDelay \in Nat
      /\ TimerPre' = CountDown(TimerPre) /\ TimerPost' = CountDown(TimerPost)
  BY DEF SerialCommTimings, Inv, TypesInv
<1>2. /\ tx' <=> tx /\ ~Fires(TimerPost)
      /\ dir' <=> dir /\ ~Fires(TimerPost)
      /\ ~(Fires(TimerPost) /\ shifting)
  BY Zenon DEF SerialCommTimings, LineKeepsUp
<1>3. /\ Fires(TimerPre) => SCI_transmit(Buf[0])
      /\ ~Fires(TimerPre) => UNCHANGED sent /\ (shifting' <=> shifting /\ ~Fires(TimerPost))
  BY Zenon DEF SerialCommTimings
<1>4. Counter' = CounterAfter
  BY DEF SerialCommTimings
<1>5. rx' <=> Fires(TimerPost) \/ (~Fires(Timer3_5) /\ (Fires(TimerTestDelay) \/ rx))
  BY Zenon DEF SerialCommTimings
<1>6. CASE Sending /\ Fires(TimerPost)
  <2>1. ~shifting /\ TimerPre = 0 /\ Len(sent) = FRAME
    BY <1>1, <1>2, <1>6, SendingFacts, Constants DEF Inv, AnswerInv, Fires
  <2> QED BY <1>1, <1>2, <1>3, <1>5, <1>6, <2>1 DEF Fires, CountDown
<1>7. CASE Sending /\ ~Fires(TimerPost) /\ Fires(TimerPre)
  <2>1. tx /\ dir /\ ~rx /\ Timer3_5 = 0 /\ TimerTestDelay = 0 /\ AnswerReady
    BY <1>7, SendingFacts
  <2>2. sent = <<>> /\ TimerPost = 0
    BY <1>7 DEF Inv, AnswerInv, Fires
  <2>3. Buf[0] = [of |-> "answer", at |-> 0]
    BY <2>1, Constants DEF AnswerReady
  <2>4. shifting' /\ sent' = <<Buf[0]>>
    BY <1>3, <1>7, <2>1, <2>2, Constants DEF SCI_transmit
  <2>5. Counter' = 0 /\ TimerPre' = 0 /\ TimerPost' = 0
    BY <1>1, <1>4, <1>7, <2>2 DEF CounterAfter, CountDown, Fires
  <2>6. dir' /\ tx' /\ ~rx'
    BY <1>2, <1>5, <1>7, <2>1 DEF Fires
  <2> QED BY <1>7, <2>3, <2>4, <2>5, <2>6
<1>8. CASE Sending /\ ~Fires(TimerPost) /\ ~Fires(TimerPre)
  <2>1. tx /\ dir /\ ~rx /\ Timer3_5 = 0 /\ TimerTestDelay = 0
    BY <1>8, SendingFacts
  <2>2. Counter' = Counter /\ UNCHANGED sent /\ (shifting' <=> shifting)
    BY <1>3, <1>4, <1>8 DEF CounterAfter
  <2> QED BY <1>1, <1>2, <1>5, <1>8, <2>1, <2>2 DEF CountDown, Fires
<1>9. CASE ~Sending
  <2>1. TimerPre = 0 /\ TimerPost = 0 /\ ~shifting /\ ~Fires(TimerPre) /\ ~Fires(TimerPost)
    BY <1>1, <1>9 DEF Sending, Fires
  <2>2. Fires(TimerTestDelay) => EnabledTransmit
    BY DEF Inv, BreakInv, Fires
  <2> QED BY <1>1, <1>2, <1>3, <1>4, <1>5, <1>9, <2>1, <2>2 DEF CountDown, CounterAfter
<1> QED BY <1>6, <1>7, <1>8, <1>9


LEMMA SerialCommTimingsKeeps ==
  ASSUME MidFrame = FALSE, Inv, SerialCommTimings
  PROVE  Inv'
<1>1. TypesInv'
  <2>1. \A t \in Nat : CountDown(t) \in Nat
    BY DEF CountDown
  <2>2. /\ Timer3_5' \in Nat /\ TimerPre' \in Nat /\ TimerPost' \in Nat
        /\ TimerTestDelay' \in Nat
    BY <2>1 DEF SerialCommTimings, Inv, TypesInv
  <2>3. tx' \in BOOLEAN /\ dir' \in BOOLEAN /\ EnabledTransmit' \in BOOLEAN /\ NewMsg' \in BOOLEAN
    BY Zenon DEF SerialCommTimings
  <2>4. rx' \in BOOLEAN
    BY Zenon DEF SerialCommTimings
  <2>5. shifting' \in BOOLEAN
    BY Zenon DEF SerialCommTimings, SCI_transmit, Inv, TypesInv
  <2>6. Counter' \in 0..MB_FRAME_MAX
    BY Constants DEF SerialCommTimings, CounterAfter, Inv, TypesInv
  <2>7. sent' \in Seq(Bytes)
    <3>1. Buf[0] \in Bytes
      BY Constants DEF Inv, TypesInv
    <3> QED BY <3>1 DEF SerialCommTimings, SCI_transmit, Inv, TypesInv
  <2> QED BY <2>2, <2>3, <2>4, <2>5, <2>6, <2>7
      DEF SerialCommTimings, Inv, TypesInv, mainVars
<1>2. BreakInv'
  BY Timeouts DEF Inv, SerialCommTimings, BreakInv, TypesInv, mainVars,
           SCI_transmit, CountDown, Fires, CounterAfter, LineKeepsUp,
           FrameUnderWay
<1>3. LineInv'
  <2>1. pc' = pc
    BY DEF SerialCommTimings, mainVars
  <2>2. CASE Sending
    BY <2>1, <2>2, TimingsEffect, SendingFacts, Constants
       DEF Inv, LineInv, Sending, AnswerInv, TypesInv
  <2>3. CASE ~Sending
    BY <2>1, <2>3, TimingsEffect DEF Inv, LineInv, BreakInv, Sending
  <2> QED BY <2>2, <2>3
<1>4. ReceiveInv'
  BY Constants, Timeouts DEF Inv, SerialCommTimings, ReceiveInv, Handling,
           TypesInv, LineInv, Sending, mainVars, SCI_transmit, CountDown,
           Fires, CounterAfter, LineKeepsUp, FrameUnderWay
<1>5. ContentInv'
  BY Timeouts DEF Inv, SerialCommTimings, ContentInv, TypesInv, mainVars,
           SCI_transmit, CountDown, Fires, CounterAfter, LineKeepsUp,
           FrameUnderWay
<1>6. AnswerInv'
  <2>1. UNCHANGED <<pc, Size, Buf>>
    BY DEF SerialCommTimings, mainVars
  <2>2. sent' = sent \/ sent' = <<[of |-> "answer", at |-> 0]>>
    BY TimingsEffect
  <2>3. AnswerBegun' /\ Len(sent') <= FRAME
    <3>1. AnswerBegun /\ Len(sent) <= FRAME
      BY DEF Inv, AnswerInv
    <3>2. CASE sent' = sent
      BY <3>1, <3>2 DEF AnswerBegun
    <3>3. CASE sent' = <<[of |-> "answer", at |-> 0]>>
      <4>1. /\ DOMAIN sent' = {1} /\ Len(sent') = 1
            /\ sent'[1] = [of |-> "answer", at |-> 0]
        BY <3>3
      <4> QED BY <4>1, Constants DEF AnswerBegun
    <3> QED BY <2>2, <3>2, <3>3
  <2>4. AnswerReady => AnswerReady'
    BY <2>1 DEF AnswerReady
  <2>5. CASE Sending
    <3>1. pc = "idle" /\ dir /\ AnswerReady
      BY <2>5, SendingFacts
    <3>2. AnswerInv /\ TimerPre \in Nat /\ TimerPost \in Nat /\ Counter \in Nat
      BY DEF Inv, TypesInv
    <3>3. CASE ~shifting' /\ ~dir' /\ TimerPre' = 0
      BY <2>1, <2>3, <3>1, <3>3 DEF AnswerInv
    <3>4. CASE /\ dir' /\ shifting' /\ TimerPre' = 0
               /\ sent' = <<[of |-> "answer", at |-> 0]>> /\ Counter' = 0
      BY <2>1, <2>3, <2>4, <3>1, <3>4, Constants DEF AnswerInv
    <3>5. CASE /\ dir'
               /\ shifting' <=> shifting
               /\ TimerPre' > 0 <=> TimerPre > 0
               /\ TimerPost' > 0 <=> TimerPost > 0
               /\ UNCHANGED <<sent, Counter>>
      <4>1. TimerPre' \in Nat /\ TimerPost' \in Nat
        BY <1>1 DEF TypesInv
      <4> QED BY <2>1, <2>3, <2>4, <3>1, <3>2, <3>5, <4>1 DEF AnswerInv
    <3> QED BY <2>5, <3>3, <3>4, <3>5, TimingsEffect
  <2>6. CASE ~Sending
    <3>1. /\ ~shifting' /\ TimerPre' = 0 /\ sent' = sent
          /\ dir' <=> dir
          /\ ~(dir /\ pc = "idle")
      <4>1. TimerPre \in Nat /\ TimerPost \in Nat
        BY DEF Inv, TypesInv
      <4>2. ~(dir /\ pc = "idle")
        BY <2>6, <4>1 DEF Inv, AnswerInv, Sending
      <4> QED BY <2>6, <4>2, TimingsEffect
    <3>2. TimerPost' = 0
      BY <2>6, TimingsEffect
    <3> QED BY <2>1, <2>3, <2>4, <3>1, <3>2 DEF Inv, AnswerInv
  <2> QED BY <2>5, <2>6
<1> QED BY <1>1, <1>2, <1>3, <1>4, <1>5, <1>6 DEF Inv

LEMMA ResetByTaskKeeps ==
  ASSUME MidFrame = FALSE, Inv, ResetByTask
  PROVE  Inv'
<1>1. TypesInv'
  <2>1. /\ dir' \in BOOLEAN /\ tx' \in BOOLEAN /\ shifting' \in BOOLEAN
        /\ rx' \in BOOLEAN /\ NewMsg' \in BOOLEAN
    BY Zenon DEF ResetByTask, Inv, TypesInv
  <2> QED BY <2>1, Constants, Timeouts
      DEF ResetByTask, Inv, TypesInv, Steps, mainVars, flagVars
<1>2. BreakInv'
  BY DEF Inv, ResetByTask, BreakInv, mainVars, flagVars
<1>3. LineInv'
  BY Constants DEF Inv, ResetByTask, LineInv, Sending, mainVars, Interruptible
<1>4. ReceiveInv'
  BY Constants DEF Inv, ResetByTask, ReceiveInv, Handling, mainVars,
           Interruptible
<1>5. ContentInv'
  BY DEF Inv, ResetByTask, ContentInv, mainVars
<1>6. AnswerInv'
  BY DEF Inv, ResetByTask, AnswerInv, AnswerReady, AnswerBegun, mainVars
<1> QED BY <1>1, <1>2, <1>3, <1>4, <1>5, <1>6 DEF Inv

LEMMA PauseEndsKeeps ==
  ASSUME MidFrame = FALSE, Inv, PauseEnds
  PROVE  Inv'
<1>1. TypesInv'
  BY DEF Inv, PauseEnds, TypesInv, Steps, mainVars, frameVars, timerVars,
           sciVars, envVars
<1>2. BreakInv'
  BY DEF Inv, PauseEnds, BreakInv, mainVars, frameVars, timerVars, sciVars
<1>3. LineInv'
  BY DEF Inv, PauseEnds, LineInv, Sending, mainVars, timerVars, sciVars
<1>4. ReceiveInv'
  BY DEF Inv, PauseEnds, ReceiveInv, Handling, mainVars, frameVars, timerVars,
           sciVars, envVars
<1>5. ContentInv'
  BY DEF Inv, PauseEnds, ContentInv, mainVars, frameVars, timerVars, envVars
<1>6. AnswerInv'
  BY DEF Inv, PauseEnds, AnswerInv, AnswerReady, AnswerBegun, mainVars,
           frameVars, timerVars, sciVars, envVars
<1> QED BY <1>1, <1>2, <1>3, <1>4, <1>5, <1>6 DEF Inv

(* A byte that is stored: only while the main loop is idle or about to be. *)
LEMMA MasterSendsEffect ==
  ASSUME Inv, MasterSends
  PROVE  /\ asked = None /\ line.frame \in Kinds
         /\ line' \in [frame : Kinds \cup {None}, next : 0..(FRAME - 1)]
         /\ \/ asked' = None
            \/ asked' = line.frame /\ line' = Silence
         /\ \/ UNCHANGED <<Buf, Counter, Timer3_5>>
            \/ /\ rx /\ ~dir /\ ~EnabledTransmit /\ pc \in {"idle", "gap"}
               /\ Counter < MB_FRAME_MAX /\ Counter' = Counter + 1
               /\ Timer3_5' = Timeout3_5
               /\ \E byte \in Bytes :
                    /\ Buf' = [Buf EXCEPT ![Counter] = byte]
                    /\ byte.at = FRAME - 1 => asked' # None /\ byte.of \in Kinds
<1>1. asked = None /\ line.frame \in Kinds /\ line.next \in 0..(FRAME - 1)
  BY DEF MasterSends, Inv, TypesInv, ReceiveInv, Silence
<1>2. /\ line' \in [frame : Kinds \cup {None}, next : 0..(FRAME - 1)]
      /\ line.next = FRAME - 1 => line' = Silence /\ asked' = line.frame
      /\ line.next # FRAME - 1 => asked' = asked
  <2>1. CASE line.next = FRAME - 1
    BY <1>1, <2>1, Constants DEF MasterSends, Silence
  <2>2. CASE line.next # FRAME - 1
    <3>1. line' = [line EXCEPT !.next = line.next + 1] /\ asked' = asked
      BY <2>2 DEF MasterSends
    <3>2. line \in [frame : Kinds \cup {None}, next : 0..(FRAME - 1)]
      BY DEF Inv, TypesInv
    <3>3. line.next + 1 \in 0..(FRAME - 1)
      BY <1>1, <2>2, Constants
    <3> QED BY <2>2, <3>1, <3>2, <3>3
  <2> QED BY <2>1, <2>2
<1> DEFINE byte == [of |-> line.frame, at |-> line.next]
<1>3. /\ byte \in Bytes /\ Noise \in Bytes
      /\ byte.at = FRAME - 1 => asked' # None /\ byte.of \in Kinds
      /\ Noise.at # FRAME - 1
  BY <1>1, <1>2, Constants DEF Bytes, Noise
<1>4. ASSUME rx, ~dir
      PROVE  pc \in {"idle", "gap"}
  BY <1>1, <1>4 DEF Inv, TypesInv, LineInv, ReceiveInv, Steps, Handling
<1>5. ASSUME rx, ~dir, NEW b \in {byte, Noise}, RxHandler(b)
      PROVE  \/ UNCHANGED <<Buf, Counter, Timer3_5>>
             \/ /\ ~EnabledTransmit /\ Counter < MB_FRAME_MAX
                /\ Counter' = Counter + 1 /\ Timer3_5' = Timeout3_5
                /\ Buf' = [Buf EXCEPT ![Counter] = b]
  BY <1>5 DEF RxHandler, Room
<1>6. \/ UNCHANGED <<Buf, Counter, Timer3_5>>
      \/ rx /\ ~dir /\ \E b \in {byte, Noise} : RxHandler(b)
  BY DEF MasterSends
<1> QED BY <1>1, <1>2, <1>3, <1>4, <1>5, <1>6


LEMMA MasterSendsKeeps ==
  ASSUME MidFrame = FALSE, Inv, MasterSends
  PROVE  Inv'
<1>0. /\ UNCHANGED <<pc, NewMsg, Size, rx, tx, dir, shifting, EnabledTransmit, TimerPre,
                     TimerPost, TimerTestDelay, sent>>
      /\ errors' \in {errors, errors + 1}
  BY DEF MasterSends, mainVars, sciVars, flagVars
<1>1. TypesInv'
  <2>1. /\ Buf' \in [0..(MB_FRAME_MAX - 1) -> Bytes] /\ Counter' \in 0..MB_FRAME_MAX
        /\ Timer3_5' \in Nat
    <3>1. /\ Buf \in [0..(MB_FRAME_MAX - 1) -> Bytes] /\ Counter \in 0..MB_FRAME_MAX
          /\ Timer3_5 \in Nat
      BY DEF Inv, TypesInv
    <3>2. CASE UNCHANGED <<Buf, Counter, Timer3_5>>
      BY <3>1, <3>2
    <3>3. ASSUME NEW byte \in Bytes, Buf' = [Buf EXCEPT ![Counter] = byte],
                 Counter < MB_FRAME_MAX, Counter' = Counter + 1, Timer3_5' = Timeout3_5
          PROVE  /\ Buf' \in [0..(MB_FRAME_MAX - 1) -> Bytes]
                 /\ Counter' \in 0..MB_FRAME_MAX /\ Timer3_5' \in Nat
      BY <3>1, <3>3, Constants, Timeouts
    <3> QED BY <3>2, <3>3, MasterSendsEffect
  <2>2. asked' \in Kinds \cup {None}
    BY MasterSendsEffect
  <2> QED BY <1>0, <2>1, <2>2, MasterSendsEffect DEF Inv, TypesInv
<1>2. BreakInv'
  BY <1>0, MasterSendsEffect DEF Inv, BreakInv
<1>3. LineInv'
  BY <1>0 DEF Inv, LineInv, Sending
<1>4. ReceiveInv'
  BY <1>0, MasterSendsEffect, Timeouts, Constants
     DEF Inv, TypesInv, LineInv, ReceiveInv, Handling
<1>5. ContentInv'
  <2>1. CASE UNCHANGED <<Buf, Counter, Timer3_5>>
    BY <1>0, <2>1, MasterSendsEffect DEF Inv, ContentInv
  <2>2. ASSUME NEW byte \in Bytes,
               Counter < MB_FRAME_MAX, Counter' = Counter + 1,
               Buf' = [Buf EXCEPT ![Counter] = byte],
               byte.at = FRAME - 1 => asked' # None /\ byte.of \in Kinds
        PROVE  ContentInv'
    <3>1. Buf \in [0..(MB_FRAME_MAX - 1) -> Bytes] /\ Counter \in 0..MB_FRAME_MAX
      BY DEF Inv, TypesInv
    <3>2. Counter' - 1 = Counter /\ Buf'[Counter] = byte
      BY <2>2, <3>1, Constants
    <3> QED BY <2>2, <3>2 DEF ContentInv
  <2> QED BY <2>1, <2>2, MasterSendsEffect
<1>6. AnswerInv'
  <2>1. UNCHANGED Counter \/ (~shifting /\ ~dir /\ pc \in {"idle", "gap"})
    BY MasterSendsEffect DEF Inv, LineInv, Sending
  <2>2. UNCHANGED Buf \/ (~dir /\ pc \in {"idle", "gap"})
    BY MasterSendsEffect
  <2>3. AnswerInv
    BY DEF Inv
  <2> QED BY <1>0, <2>1, <2>2, <2>3 DEF AnswerInv, AnswerReady, AnswerBegun
<1> QED BY <1>1, <1>2, <1>3, <1>4, <1>5, <1>6 DEF Inv

LEMMA NoiseOnLineKeeps ==
  ASSUME MidFrame = FALSE, Inv, NoiseOnLine
  PROVE  Inv'
<1>1. TypesInv'
  BY Constants, Timeouts DEF Inv, NoiseOnLine, TypesInv, Steps, Bytes, Silence,
           Noise, mainVars, sciVars, flagVars, RxHandler, Room, Interruptible
<1>2. BreakInv'
  BY Constants DEF Inv, NoiseOnLine, BreakInv, mainVars, sciVars, flagVars,
           RxHandler, Room, Interruptible
<1>3. LineInv'
  BY DEF Inv, NoiseOnLine, LineInv, Sending, mainVars, sciVars
<1>4. ReceiveInv'
  BY Constants DEF Inv, NoiseOnLine, ReceiveInv, Handling, mainVars, sciVars,
           RxHandler, Room, Interruptible
<1>5. ContentInv'
  BY Constants, Timeouts DEF Inv, NoiseOnLine, TypesInv, BreakInv, LineInv,
           ReceiveInv, ContentInv, Sending, Handling, Bytes, Noise, mainVars,
           sciVars, flagVars, RxHandler, Room, Interruptible
<1>6. AnswerInv'
  BY DEF Inv, NoiseOnLine, AnswerInv, AnswerReady, AnswerBegun, LineInv,
           Sending, mainVars, sciVars, RxHandler, Room, Interruptible
<1> QED BY <1>1, <1>2, <1>3, <1>4, <1>5, <1>6 DEF Inv

LEMMA MasterGivesUpKeeps ==
  ASSUME MidFrame = FALSE, Inv, MasterGivesUp
  PROVE  Inv'
<1>1. TypesInv'
  BY DEF Inv, MasterGivesUp, TypesInv, Steps, mainVars, frameVars, timerVars,
           sciVars, flagVars
<1>2. BreakInv'
  BY DEF Inv, MasterGivesUp, BreakInv, mainVars, frameVars, timerVars, sciVars,
           flagVars
<1>3. LineInv'
  BY DEF Inv, MasterGivesUp, LineInv, Sending, mainVars, timerVars, sciVars
<1>4. ReceiveInv'
  BY Constants DEF Inv, MasterGivesUp, ReceiveInv, Handling, mainVars,
           frameVars, timerVars, sciVars, Quiet
<1>5. ContentInv'
  BY Constants DEF Inv, MasterGivesUp, ContentInv, mainVars, frameVars,
           timerVars, Quiet
<1>6. AnswerInv'
  BY DEF Inv, MasterGivesUp, AnswerInv, AnswerReady, AnswerBegun, mainVars,
           frameVars, timerVars, sciVars
<1> QED BY <1>1, <1>2, <1>3, <1>4, <1>5, <1>6 DEF Inv

LEMMA MasterBeginsKeeps ==
  ASSUME MidFrame = FALSE, Inv, NEW kind \in Requests, MasterBegins(kind)
  PROVE  Inv'
<1>1. /\ UNCHANGED <<pc, NewMsg, Counter, Size, Buf, rx, tx, dir, shifting, EnabledTransmit,
                    Timer3_5, TimerPre, TimerPost, TimerTestDelay, asked, sent, errors>>
      /\ asked = None
  BY DEF MasterBegins, mainVars, frameVars, timerVars, sciVars, flagVars
<1>2. line' \in [frame : Kinds \cup {None}, next : 0..(FRAME - 1)]
  BY Constants DEF MasterBegins
<1>3. TypesInv' /\ BreakInv' /\ LineInv' /\ ContentInv'
  BY <1>1, <1>2 DEF Inv, TypesInv, BreakInv, LineInv, ContentInv, Sending
<1>4. ReceiveInv'
  BY <1>1 DEF Inv, ReceiveInv
<1>5. AnswerInv'
  BY <1>1 DEF Inv, AnswerInv, AnswerReady, AnswerBegun
<1> QED BY <1>3, <1>4, <1>5 DEF Inv

LEMMA InvInit == Init => Inv
<1> SUFFICES ASSUME Init PROVE Inv
  OBVIOUS
<1>1. TypesInv
  <2>1. /\ NewMsg \in BOOLEAN /\ EnabledTransmit \in BOOLEAN /\ rx \in BOOLEAN
        /\ tx \in BOOLEAN /\ dir \in BOOLEAN /\ shifting \in BOOLEAN
    BY Zenon DEF Init
  <2>2. Buf \in [0..(MB_FRAME_MAX - 1) -> Bytes] /\ Silence \in [frame : Kinds \cup {None}, next : 0..(FRAME - 1)]
    BY Constants DEF Init, Bytes, Noise, Silence
  <2> QED BY <2>1, <2>2, Constants DEF Init, TypesInv, Steps
<1>2. BreakInv /\ LineInv /\ ReceiveInv /\ ContentInv
  BY DEF Init, BreakInv, LineInv, ReceiveInv, ContentInv, Sending, Handling
<1>3. AnswerInv
  BY Constants DEF Init, AnswerInv, AnswerBegun
<1> QED BY <1>1, <1>2, <1>3 DEF Inv

LEMMA InvNext ==
  ASSUME MidFrame = FALSE, Inv, [Next]_vars
  PROVE  Inv'
<1>1. CASE UNCHANGED vars
  BY <1>1 DEF vars, mainVars, frameVars, timerVars, sciVars, flagVars, envVars, Inv,
     TypesInv, BreakInv, LineInv, ReceiveInv, ContentInv, AnswerInv, AnswerReady,
     AnswerBegun, Sending
<1>2. CASE Main
  BY <1>2, SerialCommUpdateKeeps, CheckFrameKeeps, DispatchKeeps, ResetByMainKeeps,
     ClearTimersKeeps, BeginAnswerKeeps, TimeConnectionKeeps, BuildAnswerKeeps,
     ReceiverOffKeeps, TransmitterOnKeeps, DriveLineKeeps, BeginPreambleKeeps,
     ReStartReadLineKeeps, ClearGapKeeps DEF Main
<1>3. ASSUME NEW kind \in Requests, MasterBegins(kind)
      PROVE  Inv'
  BY <1>3, MasterBeginsKeeps
<1> QED BY <1>1, <1>2, <1>3, TxHandlerKeeps, SerialCommTimingsKeeps, PauseEndsKeeps,
     ResetByTaskKeeps, LineBreakKeeps, NoiseOnLineKeeps, MasterSendsKeeps,
     MasterGivesUpKeeps DEF Next

(* The reachable states are those of the invariant.                        *)
LEMMA InvHolds == ASSUME MidFrame = FALSE PROVE Spec => []Inv
<1> QED BY InvInit, InvNext, PTL DEF Spec

(* The port never listens and sends at once.                               *)
THEOREM NeverListensAndSends ==
  ASSUME MidFrame = FALSE PROVE Spec => []HalfDuplex
<1>1. Inv => HalfDuplex
  BY DEF Inv, LineInv, HalfDuplex
<1> QED BY <1>1, InvHolds, PTL

-----------------------------------------------------------------------------
(* What goes out is an answer from its beginning, and the line is released *)
(* after its last byte unless a task resets the port.                      *)
LEMMA AnswerStep ==
  ASSUME Inv, Inv', [Next]_vars
  PROVE  AnswerBegun' /\ (dir /\ ~dir' /\ errors' = errors => Len(sent) = FRAME)
<1>1. AnswerBegun'
  BY DEF Inv, AnswerInv
<1> SUFFICES ASSUME dir, ~dir', errors' = errors PROVE Len(sent) = FRAME
  BY <1>1
<1>2. pc \in {"idle", "preamble"}
  BY DEF Inv, LineInv
<1>3. CASE SerialCommTimings
  BY <1>3, TimingsEffect
<1>4. ~ResetByTask /\ ~LineBreak
  BY DEF ResetByTask, LineBreak, Inv, TypesInv
<1>5. CASE Main
  BY <1>2, <1>5 DEF Main, SerialCommUpdate, CheckFrame, Dispatch, ResetByMain, ClearTimers,
     BeginAnswer, TimeConnection, BuildAnswer, ReceiverOff, TransmitterOn, DriveLine,
     BeginPreamble, ReStartReadLine, ClearGap, sciVars
<1>6. dir' = dir \/ Main \/ SerialCommTimings \/ ResetByTask \/ LineBreak
  BY DEF Next, vars, sciVars, TxHandler, PauseEnds, NoiseOnLine, MasterSends, MasterGivesUp,
     MasterBegins
<1> QED BY <1>3, <1>4, <1>5, <1>6

THEOREM AnswersAreWhole ==
  ASSUME MidFrame = FALSE PROVE Spec => AnswerWhole
<1>1. Inv /\ Inv' /\ [Next]_vars
        => [AnswerBegun' /\ (dir /\ ~dir' /\ errors' = errors => Len(sent) = FRAME)]_vars
  BY AnswerStep
<1> QED BY <1>1, InvHolds, PTL DEF Spec, AnswerWhole

-----------------------------------------------------------------------------
(* The port implements the exchange it promises to the master: the initial *)
(* state, each step, and the phase each step begins and ends in.           *)
LEMMA ExchangeInit == ASSUME Init PROVE Exchange!Init
<1>1. ~dir /\ rx /\ pc = "idle" /\ ~EnabledTransmit /\ asked = None
  BY DEF Init
<1> QED BY <1>1 DEF Exchange!Init, Phase

LEMMA PhaseKept ==
  ASSUME UNCHANGED <<pc, rx, dir, EnabledTransmit>>
  PROVE  Phase' = Phase
  BY DEF Phase

(* A step that leaves the master alone and the line undriven.              *)
LEMMA Undriven ==
  ASSUME ~dir, ~dir', UNCHANGED asked
  PROVE  [Exchange!Next]_(Exchange!vars)
<1>1. Phase \in {"listening", "working"} /\ Phase' \in {"listening", "working"}
  BY DEF Phase
<1> QED BY <1>1 DEF Exchange!Next, Exchange!Hear, Exchange!Drop, Exchange!vars

LEMMA ExchangeStep ==
  ASSUME Inv, Inv', [Next]_vars
  PROVE  [Exchange!Next]_(Exchange!vars)
<1>1. CASE UNCHANGED <<pc, rx, dir, EnabledTransmit, asked>>
  BY <1>1, PhaseKept DEF Exchange!vars
<1>2. CASE DriveLine
  <2>1. ~dir /\ asked # None
    BY <1>2 DEF Inv, LineInv, ReceiveInv, DriveLine, Handling
  <2>2. dir' /\ asked' = None /\ pc = "drive"
    BY <1>2 DEF DriveLine
  <2>3. Phase = "working" /\ Phase' = "answering"
    BY <2>1, <2>2 DEF Phase
  <2> QED BY <2>1, <2>2, <2>3 DEF Exchange!Next, Exchange!Answer
<1>3. CASE BeginPreamble
  <2>1. dir /\ dir' /\ asked' = asked
    BY <1>3 DEF Inv, LineInv, BeginPreamble, sciVars, envVars
  <2> QED BY <2>1 DEF Phase, Exchange!vars
<1>4. CASE MasterSends
  <2>1. asked = None /\ line.frame \in Kinds /\ (asked' = None \/ asked' = line.frame)
    BY <1>4, MasterSendsEffect
  <2>2. Phase' = Phase
    BY <1>4, PhaseKept DEF MasterSends, mainVars, sciVars, flagVars
  <2> QED BY <2>1, <2>2 DEF Exchange!Next, Exchange!Ask, Exchange!vars
<1>5. CASE MasterGivesUp
  <2>1. asked # None /\ asked' = None /\ Phase' = Phase
    BY <1>5, PhaseKept DEF MasterGivesUp, mainVars, sciVars, flagVars
  <2> QED BY <2>1 DEF Exchange!Next, Exchange!GiveUp
<1>6. CASE SerialCommTimings
  <2>1. asked' = asked /\ pc' = pc
    BY <1>6 DEF SerialCommTimings, mainVars
  <2>2. CASE dir /\ dir'
    BY <2>1, <2>2 DEF Phase, Exchange!vars
  <2>3. CASE dir /\ ~dir'
    <3>1. Sending /\ rx'
      BY <1>6, <2>3, TimingsEffect
    <3>2. pc = "idle" /\ ~EnabledTransmit
      BY <3>1, SendingFacts
    <3>3. ~EnabledTransmit'
      BY <1>6, <3>2, Zenon DEF SerialCommTimings
    <3>4. Phase = "answering" /\ Phase' = "listening"
      BY <2>1, <2>3, <3>1, <3>2, <3>3 DEF Phase
    <3> QED BY <2>1, <3>4 DEF Exchange!Next, Exchange!Release
  <2>4. CASE ~dir
    BY <1>6, <2>1, <2>4, TimingsEffect, SendingFacts, Undriven
  <2> QED BY <2>2, <2>3, <2>4
<1>7. CASE ResetByTask
  <2>1. ~dir' /\ rx' /\ asked' = asked /\ pc' = pc /\ EnabledTransmit' = EnabledTransmit
    BY <1>7 DEF ResetByTask, mainVars, flagVars
  <2>2. CASE dir
    <3>1. pc = "idle" \/ pc = "preamble"
      BY <2>2 DEF Inv, LineInv
    <3>2. ~EnabledTransmit
      BY <2>2 DEF Inv, BreakInv
    <3>3. Phase = "answering"
      BY <2>2 DEF Phase
    <3>4. pc = "idle"
      BY <2>1, <3>1 DEF Inv, LineInv
    <3>5. Phase' = "listening"
      BY <2>1, <3>2, <3>4 DEF Phase
    <3> QED BY <2>1, <3>3, <3>5 DEF Exchange!Next, Exchange!Release
  <2> QED BY <2>1, <2>2, Undriven
<1>8. CASE LineBreak
  <2>1. ~dir /\ ~dir' /\ asked' = asked
    BY <1>8 DEF LineBreak
  <2> QED BY <2>1, Undriven
<1>9. CASE SerialCommUpdate
  <2>1. asked' = asked /\ dir' = dir
    BY <1>9 DEF SerialCommUpdate, sciVars, envVars
  <2>2. CASE dir
    BY <2>1, <2>2 DEF Phase, Exchange!vars
  <2>3. CASE ~dir
    BY <2>1, <2>3, Undriven
  <2> QED BY <2>2, <2>3
<1>10. CASE /\ Main /\ ~SerialCommUpdate /\ ~DriveLine /\ ~BeginPreamble
  <2>1. pc \notin {"idle", "preamble"} /\ pc' # "preamble" /\ asked' = asked /\ (dir' = dir \/ ~dir')
    BY <1>10 DEF Main, CheckFrame, Dispatch, ResetByMain, ClearTimers, BeginAnswer,
       TimeConnection, BuildAnswer, ReceiverOff, TransmitterOn, ReStartReadLine, ClearGap,
       sciVars, envVars
  <2>2. ~dir
    BY <2>1 DEF Inv, LineInv
  <2> QED BY <2>1, <2>2, Undriven
<1>11. \/ UNCHANGED <<pc, rx, dir, EnabledTransmit, asked>>
       \/ Main \/ MasterSends \/ MasterGivesUp \/ SerialCommTimings \/ ResetByTask \/ LineBreak
  BY DEF Next, vars, mainVars, sciVars, flagVars, envVars, TxHandler, PauseEnds, NoiseOnLine,
     MasterBegins
<1> QED BY <1>1, <1>2, <1>3, <1>4, <1>5, <1>6, <1>7, <1>8, <1>9, <1>10, <1>11

(* The port answers only what it was asked, once, and listens again.       *)
THEOREM PortImplementsExchange ==
  ASSUME MidFrame = FALSE PROVE Spec => ExchangeSpec
<1>1. Init => Exchange!Init
  BY ExchangeInit
<1>2. Inv /\ Inv' /\ [Next]_vars => [Exchange!Next]_(Exchange!vars)
  BY ExchangeStep
<1> QED BY <1>1, <1>2, InvHolds, PTL DEF Spec, ExchangeSpec, Exchange!Spec

-----------------------------------------------------------------------------
(* A connection is timed whatever comes between two steps of the main loop *)
(* (MidFrame), so its invariant is one of its own.                         *)
TimedInv == TimerConn \in Nat /\ ConnectionTimed

LEMMA TimedNext ==
  ASSUME TimedInv, [Next]_vars
  PROVE  TimedInv'
<1>1. TOUT_CONN \in Nat \ {0}
  BY Constants
<1>2. CASE BeginAnswer
  <2>1. TimerConn' = TimerConn /\ (ConnFlg' <=> ConnFlg \/ pc' = "connect") /\ pc # "connect"
    BY <1>2, Zenon DEF BeginAnswer, timerVars
  <2> QED BY <2>1 DEF TimedInv, ConnectionTimed
<1>3. CASE SerialCommTimings
  <2>1. /\ TimerConn' = CountDown(TimerConn) /\ pc' = pc
        /\ ConnFlg' <=> ConnFlg /\ ~Fires(TimerConn)
    BY <1>3, Zenon DEF SerialCommTimings, mainVars
  <2> QED BY <2>1 DEF TimedInv, ConnectionTimed, CountDown, Fires
<1>4. CASE TimeConnection \/ ClearTimers \/ ResetByTask
  BY <1>1, <1>4 DEF TimeConnection, ClearTimers, ResetByTask, TimedInv, ConnectionTimed
<1>5. CASE /\ Main /\ ~BeginAnswer /\ ~TimeConnection /\ ~ClearTimers
  <2>1. pc # "connect" /\ UNCHANGED <<TimerConn, ConnFlg>>
    BY <1>5 DEF Main, SerialCommUpdate, CheckFrame, Dispatch, ResetByMain, BuildAnswer,
       ReceiverOff, TransmitterOn, DriveLine, BeginPreamble, ReStartReadLine, ClearGap,
       frameVars, timerVars
  <2> QED BY <2>1 DEF TimedInv, ConnectionTimed
<1>6. \/ UNCHANGED <<pc, TimerConn, ConnFlg>>
      \/ Main \/ SerialCommTimings \/ ResetByTask
  BY DEF Next, vars, mainVars, frameVars, timerVars, TxHandler, PauseEnds, LineBreak,
     NoiseOnLine, MasterSends, MasterGivesUp, MasterBegins
<1>7. CASE UNCHANGED <<pc, TimerConn, ConnFlg>>
  BY <1>7 DEF TimedInv, ConnectionTimed
<1> QED BY <1>2, <1>3, <1>4, <1>5, <1>6, <1>7

(* A connection is shown only while its timer runs.                        *)
THEOREM ConnectionIsTimed == Spec => []ConnectionTimed
<1>1. Init => TimedInv
  BY DEF Init, TimedInv, ConnectionTimed
<1>2. TimedInv => ConnectionTimed
  BY DEF TimedInv
<1> QED BY <1>1, <1>2, TimedNext, PTL DEF Spec

-----------------------------------------------------------------------------
(* The rest of the types: bounds of the timers and of what is counted, and *)
(* the variables no other theorem needs.                                   *)
RestInv ==
  /\ req \in Kinds \cup {None} /\ ConnFlg \in BOOLEAN /\ MbConnect \in BOOLEAN
  /\ Timer3_5 <= Timeout3_5 /\ TimerPre <= TimeoutPre /\ TimerPost <= TimeoutPost
  /\ TimerConn \in 0..TOUT_CONN /\ TimerTestDelay <= TimeoutTestDelay
  /\ Slave \in Slaves /\ PauseModbus \in 0..ModbusPauseStart
  /\ Size <= MB_FRAME_MAX /\ errors <= MaxErrors

LEMMA InvTypes == Inv /\ RestInv => TypeOK
<1>1. rx \in BOOLEAN /\ tx \in BOOLEAN /\ dir \in BOOLEAN /\ shifting \in BOOLEAN
        <=> {rx, tx, dir, shifting} \subseteq BOOLEAN
  BY Zenon
<1> QED BY <1>1, Timeouts, Constants, PortAssumption
    DEF Inv, TypesInv, AnswerInv, RestInv, TypeOK

LEMMA RestMain ==
  ASSUME Inv, RestInv, Main
  PROVE  RestInv'
<1>1. Slave' \in Slaves /\ UNCHANGED <<PauseModbus, errors, TimerTestDelay>>
  BY DEF Main, SerialCommUpdate, CheckFrame, Dispatch, ResetByMain, ClearTimers, BeginAnswer,
     TimeConnection, BuildAnswer, ReceiverOff, TransmitterOn, DriveLine, BeginPreamble,
     ReStartReadLine, ClearGap, RestInv, timerVars, flagVars, envVars
<1>2. /\ TimerPost' \in {TimerPost, 0} /\ Timer3_5' \in {Timer3_5, 0}
      /\ TimerPre' \in {TimerPre, 0, TimeoutPre} /\ TimerConn' \in {TimerConn, 0, TOUT_CONN}
      /\ Size' \in {Size, 0, Counter, FRAME}
  BY DEF Main, SerialCommUpdate, CheckFrame, Dispatch, ResetByMain, ClearTimers, BeginAnswer,
     TimeConnection, BuildAnswer, ReceiverOff, TransmitterOn, DriveLine, BeginPreamble,
     ReStartReadLine, ClearGap, frameVars, timerVars
<1>3. req' \in {req, None} \cup Requests
  BY DEF Main, SerialCommUpdate, CheckFrame, Dispatch, ResetByMain, ClearTimers, BeginAnswer,
     TimeConnection, BuildAnswer, ReceiverOff, TransmitterOn, DriveLine, BeginPreamble,
     ReStartReadLine, ClearGap, Understood, mainVars
<1>4. ConnFlg' \in BOOLEAN /\ MbConnect' \in BOOLEAN
  <2>1. CASE SerialCommUpdate
    BY <2>1, Zenon DEF SerialCommUpdate, RestInv
  <2>2. CASE ClearTimers \/ BeginAnswer
    <3>1. ConnFlg' \in BOOLEAN
      BY <2>2, Zenon DEF ClearTimers, BeginAnswer
    <3>2. MbConnect' = MbConnect
      BY <2>2 DEF ClearTimers, BeginAnswer, flagVars
    <3> QED BY <3>1, <3>2 DEF RestInv
  <2>3. CASE Main /\ ~SerialCommUpdate /\ ~ClearTimers /\ ~BeginAnswer
    <3>1. UNCHANGED <<ConnFlg, MbConnect>>
      BY <2>3 DEF Main, SerialCommUpdate, CheckFrame, Dispatch, ResetByMain, ClearTimers, BeginAnswer,
     TimeConnection, BuildAnswer, ReceiverOff, TransmitterOn, DriveLine, BeginPreamble,
     ReStartReadLine, ClearGap, frameVars, flagVars
    <3> QED BY <3>1 DEF RestInv
  <2> QED BY <2>1, <2>2, <2>3
<1>5. /\ TimerPost' <= TimeoutPost /\ Timer3_5' <= Timeout3_5 /\ TimerPre' <= TimeoutPre
      /\ TimerConn' \in 0..TOUT_CONN /\ Size' <= MB_FRAME_MAX
  BY <1>2, Constants, Timeouts DEF RestInv, Inv, TypesInv
<1> QED BY <1>1, <1>3, <1>4, <1>5, Constants DEF RestInv

LEMMA RestNext ==
  ASSUME Inv, RestInv, [Next]_vars
  PROVE  RestInv'
<1>1. CASE TxHandler
  <2>1. TimerPost' <= TimeoutPost
    BY <1>1, TxHandlerEffect, Timeouts DEF RestInv
  <2> QED BY <1>1, <2>1 DEF TxHandler, RestInv, mainVars, flagVars
<1>2. CASE SerialCommTimings
  <2>1. \A t, b \in Nat : t <= b => CountDown(t) <= b /\ CountDown(t) \in Nat
    BY DEF CountDown
  <2>2. /\ Timer3_5' <= Timeout3_5 /\ TimerPre' <= TimeoutPre /\ TimerPost' <= TimeoutPost
        /\ TimerConn' \in 0..TOUT_CONN /\ TimerTestDelay' <= TimeoutTestDelay
    <3>1. /\ Timer3_5' = CountDown(Timer3_5) /\ TimerPre' = CountDown(TimerPre)
          /\ TimerPost' = CountDown(TimerPost) /\ TimerConn' = CountDown(TimerConn)
          /\ TimerTestDelay' = CountDown(TimerTestDelay)
      BY <1>2 DEF SerialCommTimings
    <3>2. /\ Timer3_5 \in Nat /\ TimerPre \in Nat /\ TimerPost \in Nat /\ TimerConn \in Nat
          /\ TimerTestDelay \in Nat /\ TimerConn <= TOUT_CONN
      BY Constants DEF Inv, TypesInv, RestInv
    <3> QED BY <2>1, <3>1, <3>2, Timeouts, Constants DEF RestInv
  <2>3. ConnFlg' \in BOOLEAN
    BY <1>2, Zenon DEF SerialCommTimings
  <2> QED BY <1>2, <2>2, <2>3 DEF SerialCommTimings, RestInv, mainVars
<1>3. CASE PauseEnds
  BY <1>3, PortAssumption DEF PauseEnds, RestInv, mainVars, frameVars, timerVars, envVars
<1>4. CASE ResetByTask
  <2>1. ConnFlg' \in BOOLEAN
    BY <1>4, Zenon DEF ResetByTask
  <2> QED BY <1>4, <2>1, Timeouts, PortAssumption
      DEF ResetByTask, Inv, TypesInv, RestInv, mainVars, flagVars
<1>5. CASE LineBreak
  BY <1>5, Timeouts, PortAssumption DEF LineBreak, Inv, TypesInv, RestInv, mainVars
<1>6. CASE NoiseOnLine \/ MasterSends
  <2>1. Timer3_5' \in {Timer3_5, Timeout3_5}
    BY <1>6 DEF NoiseOnLine, MasterSends, RxHandler
  <2>2. errors' <= MaxErrors
    <3>1. errors' = errors \/ (errors' = errors + 1 /\ errors < MaxErrors)
      BY <1>6 DEF NoiseOnLine, MasterSends
    <3>2. errors \in Nat /\ errors <= MaxErrors /\ MaxErrors \in Nat
      BY PortAssumption DEF Inv, TypesInv, RestInv
    <3> QED BY <3>1, <3>2
  <2>3. UNCHANGED <<req, Size, ConnFlg, MbConnect, PauseModbus, TimerPre, TimerPost, TimerConn,
                    TimerTestDelay, Slave>>
    BY <1>6 DEF NoiseOnLine, MasterSends, mainVars, flagVars
  <2> QED BY <2>1, <2>2, <2>3, Timeouts DEF RestInv
<1>7. CASE UNCHANGED <<req, Size, ConnFlg, MbConnect, PauseModbus, Timer3_5, TimerPre, TimerPost,
                       TimerConn, TimerTestDelay, Slave, errors>>
  BY <1>7 DEF RestInv
<1>8. \/ UNCHANGED <<req, Size, ConnFlg, MbConnect, PauseModbus, Timer3_5, TimerPre, TimerPost,
                     TimerConn, TimerTestDelay, Slave, errors>>
      \/ Main \/ TxHandler \/ SerialCommTimings \/ PauseEnds \/ ResetByTask \/ LineBreak
      \/ NoiseOnLine \/ MasterSends
  BY DEF Next, vars, mainVars, frameVars, timerVars, flagVars, envVars, MasterGivesUp, MasterBegins
<1> QED BY <1>1, <1>2, <1>3, <1>4, <1>5, <1>6, <1>7, <1>8, RestMain

(* Every variable keeps its type: no index of the buffer and no timer      *)
(* leaves its range.                                                       *)
THEOREM PortTypesHold ==
  ASSUME MidFrame = FALSE PROVE Spec => []TypeOK
<1>1. Init => RestInv
  <2>1. Init => ConnFlg \in BOOLEAN /\ MbConnect \in BOOLEAN
    BY Zenon DEF Init
  <2> QED BY <2>1, Timeouts, PortAssumption DEF Init, RestInv
<1>2. Inv /\ RestInv /\ [Next]_vars => RestInv'
  BY RestNext
<1>3. Inv /\ RestInv => TypeOK
  BY InvTypes
<1> QED BY <1>1, <1>2, <1>3, InvHolds, PTL DEF Spec
===============================================================================
