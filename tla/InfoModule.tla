------------------------------ MODULE InfoModule ------------------------------
(***************************************************************************)
(* The information module, src/src/stat/im.c with ImBufferReader of        *)
(* src/src/core/interface.c: a peer connected by Bluetooth asks for device *)
(* data, parameters and journals.  The interrupt of the serial line stores *)
(* the bytes of a request; the main loop recognises it, builds the answer  *)
(* and sends it in three modes that take turns; the records of a journal   *)
(* are read from the memories one by one, between the other clients.       *)
(*                                                                         *)
(* A byte is a small number, so that the rest of a damaged request may     *)
(* look like another one.  Of the answers the model keeps, for a journal,  *)
(* the record number and which words of which record they were taken from; *)
(* all have DATA bytes after the request they repeat.                      *)
(*                                                                         *)
(* What the model assumes of time: the main loop runs between two bytes, a *)
(* text has no pauses of the length of a tick, the 10 Hz timer ticks when  *)
(* the main loop has nothing left to do, and a memory becomes free within  *)
(* the timeout.                                                            *)
(***************************************************************************)
EXTENDS Bluetooth, FiniteSets

CONSTANTS
  Requests,             \* what the peer asks for, as sequences of bytes
  DATA,
  IM_RD_BUFFER_SIZE, IM_TIMEOUT,
  MaxFaults,            \* bytes lost and connections broken
  MaxOthers             \* uses of the memory by others during one request

ASSUME InfoAssumption ==
  /\ Requests \subseteq Seq(Nat) /\ Requests # {} /\ <<>> \notin Requests
  /\ {DATA, IM_RD_BUFFER_SIZE, IM_TIMEOUT} \subseteq Nat \ {0}
  /\ IM_RD_BUFFER_SIZE > 3 /\ IM_TIMEOUT > 1
  /\ MaxFaults \in Nat /\ MaxOthers \in Nat

VARIABLES
  bt,       \* Bluetooth
  im,       \* Im, with CurrentLogRec and CurrentLogCnt and the statics of
            \* ImBufferReader
  rx,       \* the line receives (EnableBtRx) or sends (EnableBtTx)
  cells,    \* ImReadBuf
  mem,      \* the memories: free, used by others, or reading a record
  peer,     \* the WT41 and the device behind it, and the bytes under way
  job       \* observer: the request in work and the records answered so far

infoVars == <<bt, im, rx, cells, mem, peer, job>>
World == [bt |-> bt, im |-> im, rx |-> rx, cells |-> cells, mem |-> mem]

IM_LOGEV_TYPE == 1
IM_LOGCMD_TYPE == 2
IM_LOGPARAMS_TYPE == 3

\* TIMFuncState
imIdle == 0
imInit == 1
imLogDownload == 11

Free == <<>>
Other == <<"other">>
NoRequest == <<>>

----
\* The buffer has two halves, for even and odd records, whose bounds depend on
\* the journal: a part is named by its first word, and a record lies in several.
Words(LogType, RecordNum) ==
  LET odd == RecordNum % 2 = 1 IN
  CASE LogType = IM_LOGEV_TYPE -> IF odd THEN {80, 100} ELSE {0, 5, 7, 10, 14, 20}
    [] LogType = IM_LOGCMD_TYPE -> IF odd THEN {7, 10} ELSE {0, 5}
    [] LogType = IM_LOGPARAMS_TYPE -> IF odd THEN {5, 7} ELSE {0}
    [] OTHER -> {}

BufferCells == {20, 100}
Parts == {0, 5, 7, 10, 14, 20, 80, 100}

IM_DEFAULT ==
  [ControlMode |-> 0, FuncState |-> imInit, Index |-> 0, TxIndex |-> 0,
   CanSendData |-> FALSE, Timer |-> 0, CanReadNextRec |-> FALSE,
   IsBufReady |-> FALSE, IsLogTransmit |-> FALSE,
   RdBuffer |-> [i \in 0..IM_RD_BUFFER_SIZE - 1 |-> 0],
   WrBuffer |-> 0,
   CurrentLogRec |-> 0, CurrentLogCnt |-> 0, PrevRecNum |-> 65535,
   EvLogMainCellRead |-> FALSE, EvLogBufCellRead |-> FALSE]

InfoInit ==
  /\ bt = BTWT41_DEFAULT /\ im = IM_DEFAULT /\ rx = FALSE
  /\ cells = [p \in Parts |-> <<>>] /\ mem = Free
  /\ peer = [on |-> FALSE, owed |-> FALSE, out |-> <<>>, asked |-> NoRequest,
             answered |-> FALSE, again |-> FALSE, seen |-> TRUE, others |-> 0, faults |-> 0]
  /\ job = [request |-> NoRequest, next |-> 0]

----
\* ReceiveFunc: the functions by the length of their requests
RequestLength == <<1, 1, 2, 3, 4, 3>>

FunctionState(p) ==
  LET type == p.RdBuffer[1] IN
  CASE p.RdBuffer[0] = 1 -> 2
    [] p.RdBuffer[0] = 2 -> 3
    [] p.RdBuffer[0] = 3 -> 3 + type
    [] p.RdBuffer[0] = 4 /\ type = IM_LOGEV_TYPE /\ p.RdBuffer[2] = 1 -> 7
    [] p.RdBuffer[0] = 4 /\ type = IM_LOGEV_TYPE /\ p.RdBuffer[2] > 1 -> 8
    [] p.RdBuffer[0] = 4 /\ type = IM_LOGCMD_TYPE -> 9
    [] p.RdBuffer[0] = 4 /\ type = IM_LOGPARAMS_TYPE -> 10
    [] p.RdBuffer[0] = 5 -> imLogDownload
    [] p.RdBuffer[0] = 6 -> 12
    [] OTHER -> p.FuncState

IsFuncReceived(p) ==
  /\ ~p.CanSendData
  /\ p.RdBuffer[0] \in DOMAIN RequestLength
  /\ p.Index = RequestLength[p.RdBuffer[0]]

Echo(p) == [i \in 1..p.Index |-> p.RdBuffer[i - 1]]

StartLog(p) ==
  IF p.RdBuffer[0] # 5 THEN p
  ELSE [p EXCEPT !.CurrentLogCnt = 256 * p.RdBuffer[2] + p.RdBuffer[3],
                 !.CurrentLogRec = 0, !.CanReadNextRec = TRUE]

ReceiveFunc(w) ==
  LET p == w.im IN
  IF ~IsFuncReceived(p) THEN w
  ELSE [w EXCEPT !.im = [StartLog(p) EXCEPT !.FuncState = FunctionState(p),
                                           !.RdBuffer[0] = 0]]

\* ImBufferReader: the request to the memory.  The journal of events takes two,
\* the record and the cells of the buffer that belong to it.
BeginRead(w, LogType, RecordNum) ==
  LET p == w.im
      words == Words(LogType, RecordNum)
      part == CASE LogType # IM_LOGEV_TYPE -> words
                [] LogType = IM_LOGEV_TYPE /\ p.EvLogMainCellRead -> words \cap BufferCells
                [] OTHER -> words \ BufferCells
      second == LogType = IM_LOGEV_TYPE /\ p.EvLogMainCellRead
  IN [w EXCEPT !.mem = IF part = {} THEN @ ELSE <<part, LogType, RecordNum>>,
               !.im.PrevRecNum = RecordNum,
               !.im.EvLogMainCellRead = IF LogType = IM_LOGEV_TYPE THEN ~@ ELSE @,
               !.im.EvLogBufCellRead = IF second THEN TRUE ELSE @]

BufReady(w) == [w EXCEPT !.im.CanReadNextRec = FALSE, !.im.IsBufReady = TRUE]

\* A slip: the cells of the last record are taken for those of this one.
MutImBufferReader(w, LogType, RecordNum) ==
  LET p == w.im IN
  CASE ~p.CanReadNextRec \/ w.mem # Free -> w
    [] /\ p.CanReadNextRec /\ w.mem = Free
       /\ IF LogType = IM_LOGEV_TYPE THEN p.EvLogBufCellRead ELSE p.PrevRecNum = RecordNum ->
         BufReady(w)
    [] OTHER -> BeginRead(w, LogType, RecordNum)

ImBufferReader(w, LogType, RecordNum) ==
  LET p == w.im IN
  CASE ~p.CanReadNextRec \/ w.mem # Free -> w
    [] /\ p.CanReadNextRec /\ w.mem = Free
       /\ LogType = IM_LOGEV_TYPE /\ p.EvLogBufCellRead ->
         IF p.PrevRecNum = RecordNum
         THEN BufReady([w EXCEPT !.im.EvLogBufCellRead = FALSE]) ELSE w
    [] /\ p.CanReadNextRec /\ w.mem = Free
       /\ LogType # IM_LOGEV_TYPE /\ p.PrevRecNum = RecordNum -> BufReady(w)
    [] OTHER -> BeginRead(w, LogType, RecordNum)

----
\* FuncOne to FuncFour, FuncSix: what they say is left out
Answer(w) ==
  [w EXCEPT !.im.WrBuffer = w.im.FuncState, !.im.Index = @ + DATA,
            !.im.CanSendData = TRUE]

\* FuncFive: the record goes behind the request, or to the front if it is not
\* the first; after the last one the mode is left.
RecordAnswer(w, LogType, RecordNum) ==
  LET p == w.im
      last == RecordNum + 1 >= p.CurrentLogCnt
  IN [w EXCEPT !.im =
        [p EXCEPT !.IsBufReady = FALSE, !.CanSendData = TRUE, !.Index = @ + DATA,
                  !.WrBuffer = [rec |-> RecordNum,
                                words |-> [x \in Words(LogType, RecordNum) |->
                                             w.cells[x]]],
                  !.CurrentLogRec = @ + 1, !.CanReadNextRec = ~last,
                  !.IsLogTransmit = ~last,
                  !.FuncState = IF last THEN imInit ELSE @]]

FuncFive(w) ==
  LET type == w.im.RdBuffer[1]
      r == ImBufferReader([w EXCEPT !.im.IsLogTransmit = TRUE], type, w.im.CurrentLogRec)
  IN IF r.im.IsBufReady THEN RecordAnswer(r, type, r.im.CurrentLogRec) ELSE r

ImReset(p) == [p EXCEPT !.Timer = 0, !.Index = 0]

\* The switch of DownloadFunc
Function(w) ==
  LET p == w.im IN
  CASE p.FuncState = imInit ->
         [w EXCEPT !.rx = TRUE, !.im = [ImReset(p) EXCEPT !.FuncState = imIdle]]
    [] p.FuncState \in {2, 3, 4, 5, 6, 7, 8, 9, 10, 12} -> Answer(w)
    [] p.FuncState = imLogDownload /\ p.CurrentLogCnt > 0 /\ ~p.CanSendData -> FuncFive(w)
    [] OTHER -> w

DownloadFunc(w) ==
  LET f == Function(w) IN
  IF ~f.im.CanSendData THEN f
  ELSE [f EXCEPT !.rx = FALSE, !.im.Timer = IM_TIMEOUT,
                 !.im.FuncState = IF f.im.IsLogTransmit THEN @ ELSE imIdle]

\* A slip: the receiver comes back only with the timeout.
MutSendData(w) ==
  LET p == w.im IN
  CASE ~p.CanSendData \/ w.bt.TxBusy -> w
    [] p.CanSendData /\ ~w.bt.TxBusy /\ p.TxIndex > p.Index ->
         [w EXCEPT !.im = [ImReset(p) EXCEPT !.TxIndex = 0, !.CanSendData = FALSE]]
    [] OTHER -> [w EXCEPT !.im.Timer = IM_TIMEOUT, !.im.TxIndex = @ + 1,
                          !.bt.TxBusy = TRUE]

\* SendData: a byte, or the end of the answer
SendData(w) ==
  LET p == w.im IN
  CASE ~p.CanSendData \/ w.bt.TxBusy -> w
    [] p.CanSendData /\ ~w.bt.TxBusy /\ p.TxIndex > p.Index ->
         [w EXCEPT !.im = [ImReset(p) EXCEPT !.TxIndex = 0, !.CanSendData = FALSE],
                   !.rx = IF p.IsLogTransmit THEN @ ELSE TRUE]
    [] OTHER -> [w EXCEPT !.im.Timer = IM_TIMEOUT, !.im.TxIndex = @ + 1,
                          !.bt.TxBusy = TRUE]

Mode(m, w) ==
  CASE m = 0 -> ReceiveFunc(w) [] m = 1 -> DownloadFunc(w) [] m = 2 -> SendData(w)

\* ImUpdate without the change of the mode
ImStep(w) == Mode(w.im.ControlMode, w)

ImUpdate(w) == [ImStep(w) EXCEPT !.im.ControlMode = (@ + 1) % 3]

----
\* ImReceiveData: at the limit the index stays, and the byte falls on what
\* follows in TIM, the first cell of WrBuffer.
ImReceiveData(p, Data) ==
  LET q == [p EXCEPT !.Timer = IM_TIMEOUT] IN
  IF p.Index < IM_RD_BUFFER_SIZE
  THEN [q EXCEPT !.RdBuffer[p.Index] = Data, !.Index = @ + 1]
  ELSE q

\* BluetoothRxHandler
Received(Data) ==
  IF bt.Mode = "command"
  THEN /\ bt' = RxCommandMode(bt, Data)
       /\ UNCHANGED im
  ELSE /\ bt' = RxDataMode(bt, Data)
       /\ im' = ImReceiveData(im, Data)

ImTimer(p) ==
  LET t == IF p.Timer > 0 THEN p.Timer - 1 ELSE 0 IN
  IF t # 1 THEN [p EXCEPT !.Timer = t]
  ELSE [p EXCEPT !.Timer = t, !.FuncState = imInit, !.CurrentLogCnt = 0,
                 !.CurrentLogRec = 0, !.IsLogTransmit = FALSE]

----
\* The main loop has nothing to do until something comes from outside.
Resting == /\ ~bt.TxBusy /\ ~im.CanSendData /\ mem = Free
           /\ \A m \in 0..2 : Mode(m, World) = World
           /\ BtWTUpdate(World) = World

\* One pass of the main loop
Pass ==
  LET b == BtWTUpdate(World)
      w == ImUpdate(b)
      started == im.ControlMode = 0 /\ IsFuncReceived(im)
      record == ~im.CanSendData /\ w.im.CanSendData /\ im.FuncState = imLogDownload
      done == im.CanSendData /\ ~w.im.CanSendData /\ ~w.im.IsLogTransmit
  IN /\ bt' = w.bt /\ im' = w.im /\ rx' = w.rx /\ mem' = w.mem
     /\ job' = CASE done -> [request |-> NoRequest, next |-> 0]
                 [] started -> [request |-> Echo(im), next |-> 0]
                 [] record /\ im.Index = 0 -> [job EXCEPT !.next = @ + 1]
                 [] OTHER -> job
     /\ peer' = [peer EXCEPT !.seen = TRUE,
                             !.owed = @ \/ (bt.CmdState = 1 /\ w.bt.CmdState = 2),
                             !.asked = IF done THEN NoRequest ELSE @,
                             !.again = @ /\ ~done,
                             !.others = IF done THEN 0 ELSE @,
                             !.answered = done /\ job.request = peer.asked]
     /\ UNCHANGED cells

\* The interrupt of the receiver, or the byte is lost with the receiver off
RxByte ==
  /\ peer.out # <<>> /\ peer.seen
  /\ peer' = [peer EXCEPT !.out = Tail(@), !.seen = FALSE]
  /\ IF rx THEN Received(Head(peer.out)) ELSE UNCHANGED <<bt, im>>
  /\ UNCHANGED <<rx, cells, mem, job>>

\* CheckCommError: a byte with an error is dropped.
RxError ==
  /\ bt.State >= 7 /\ rx
  /\ peer.out # <<>> /\ peer.seen /\ peer.faults < MaxFaults
  /\ peer' = [peer EXCEPT !.out = Tail(@), !.seen = FALSE, !.faults = @ + 1]
  /\ UNCHANGED <<bt, im, rx, cells, mem, job>>

TxDone ==
  /\ bt.TxBusy
  /\ bt' = BluetoothTxHandler(bt)
  /\ UNCHANGED <<im, rx, cells, mem, peer, job>>

\* BtTimer and ImTimer
Tick ==
  /\ peer.out = <<>> /\ bt.Timer + im.Timer > 0 /\ Resting
  /\ bt' = BtTimer(bt) /\ im' = ImTimer(im)
  /\ UNCHANGED <<rx, cells, mem, peer, job>>

----
\* Other clients of the memories, and the end of a request
OthersRead ==
  /\ mem = Free /\ peer.others < MaxOthers /\ im.FuncState = imLogDownload
  /\ mem' = Other
  /\ peer' = [peer EXCEPT !.others = @ + 1]
  /\ UNCHANGED <<bt, im, rx, cells, job>>

MemoryDone ==
  /\ mem # Free
  /\ mem' = Free
  /\ cells' = IF mem = Other THEN cells
              ELSE [p \in Parts |-> IF p \in mem[1] THEN <<mem[2], mem[3]>> ELSE cells[p]]
  /\ UNCHANGED <<bt, im, rx, peer, job>>

\* The WT41 answers a command by a line, some of them after an empty one.
ModuleAnswers ==
  /\ peer.owed /\ rx /\ peer.out = <<>>
  /\ \E text \in {<<0, LineEnd>>, <<0, LineEnd, 0, LineEnd>>} :
       peer' = [peer EXCEPT !.owed = FALSE, !.out = text]
  /\ UNCHANGED <<bt, im, rx, cells, mem, job>>

\* Once the set-up is over and the last command of it is answered
Connect ==
  /\ ~peer.on /\ ~peer.owed /\ peer.out = <<>> /\ bt.State >= 7
  /\ peer' = [peer EXCEPT !.on = TRUE, !.out = <<RING, LineEnd>>]
  /\ UNCHANGED <<bt, im, rx, cells, mem, job>>

\* Not before the main loop has seen the connection
Ask ==
  /\ peer.on /\ peer.asked = NoRequest /\ peer.out = <<>> /\ Resting
  /\ \E r \in Requests :
       peer' = [peer EXCEPT !.asked = r, !.out = r, !.others = 0]
  /\ UNCHANGED <<bt, im, rx, cells, mem, job>>

Disconnected ==
  [peer EXCEPT !.on = FALSE, !.asked = NoRequest, !.out = @ \o NO_CARRIER \o <<LineEnd>>]

Break ==
  /\ peer.on /\ peer.faults < MaxFaults
  /\ peer' = [Disconnected EXCEPT !.faults = @ + 1]
  /\ UNCHANGED <<bt, im, rx, cells, mem, job>>

\* Without an answer long after all timers have run out the peer asks again,
\* and if that is no help it breaks the connection.
GiveUp ==
  /\ peer.on /\ peer.asked # NoRequest /\ peer.out = <<>>
  /\ bt.Timer + im.Timer = 0 /\ Resting
  /\ peer' = IF peer.again THEN [Disconnected EXCEPT !.again = FALSE]
             ELSE [peer EXCEPT !.asked = NoRequest, !.again = TRUE]
  /\ UNCHANGED <<bt, im, rx, cells, mem, job>>

InfoNext ==
  \/ Pass \/ RxByte \/ RxError \/ TxDone \/ Tick
  \/ OthersRead \/ MemoryDone
  \/ ModuleAnswers \/ Connect \/ Ask \/ Break \/ GiveUp

Fairness ==
  /\ WF_infoVars(Pass) /\ WF_infoVars(RxByte) /\ WF_infoVars(TxDone) /\ WF_infoVars(Tick)
  /\ WF_infoVars(MemoryDone) /\ WF_infoVars(ModuleAnswers)
  /\ WF_infoVars(Connect) /\ WF_infoVars(Ask) /\ WF_infoVars(GiveUp)

InfoSpec == InfoInit /\ [][InfoNext]_infoVars /\ Fairness

----
\* A record that is sent carries the next number of the download and nothing
\* but the words of that record of the journal asked for, although it is read
\* in parts, through a buffer shared by the journals, between other clients of
\* the memories (interface.c 1935-2027, im.c 380-491).
RecordTrue ==
  (im.CanSendData /\ job.request # NoRequest /\ job.request[1] = 5) =>
    LET log == job.request[2] IN
    /\ im.WrBuffer.rec = job.next
    /\ im.WrBuffer.words = [x \in Words(log, job.next) |-> <<log, job.next>>]

\* Whatever is lost, and wherever a connection breaks, a peer that asks again
\* is answered: the text that ends a connection may be missed because the line
\* is sending, and then the next connection looks like part of the last one.
\* This is why a request that is not completed has a timeout (im.c 516-530).
Served == []<>peer.answered
===============================================================================
