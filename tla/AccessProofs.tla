---------------------------- MODULE AccessProofs ----------------------------
(***************************************************************************)
(* The theorems about the two ways to the data of the drive: the menu, for *)
(* every set of parameters, every protection of them by passwords and all  *)
(* lists of the wizard, and the information module, for every set of       *)
(* requests, every length of commands, buffers and timeouts, and any       *)
(* number of faults and of other clients of the memories.                  *)
(*                                                                         *)
(* The information module works on worlds w (driver of the link, module,   *)
(* line, buffer of the readings, memory) and the request j in work; Fit is *)
(* its invariant, and the lemmas named ...Fit say that one function of the *)
(* main loop or one interrupt keeps it.                                    *)
(***************************************************************************)
EXTENDS Menu, InfoModule, TLAPS

(* What a step of the menu awake does to the mode and to the codes.        *)
LEMMA SelectParamEffect ==
  ASSUME NEW k, SelectParam(k)
  PROVE  /\ UNCHANGED extraPassword
         /\ k = "escape" => State' = "group"
         /\ State' \in {"group", "param", "edit"}
         /\ k # "escape" => State' # "group"
         /\ State' = "edit" /\ ~extraPassword
              => Param' = Param /\ Param \notin ReadOnly /\ EnableEdit(Param)
<1>1. CASE extraPassword
  BY <1>1 DEF SelectParam
<1>2. CASE ~extraPassword
  BY <1>2 DEF SelectParam
<1> QED BY <1>1, <1>2

LEMMA EditStateEffect ==
  ASSUME NEW k, NEW memReady, EditState(k, memReady)
  PROVE  /\ State' \in {"param", "edit"}
         /\ k = "escape" => State' = "param"
         /\ k # "enter" /\ k # "escape" => State' = "edit"
         /\ State' = "edit" => UNCHANGED <<Param, codes>>
  BY DEF EditState, EditParam, codes

LEMMA GroupEffect ==
  ASSUME NEW k, State = "group", SelectGroup(k)
  PROVE  /\ State' \in {"start", "group", "param"}
         /\ k = "escape" => State' \in {"group", "start"}
         /\ k = "enter" => State' \in {"group", "param"}
         /\ k # "escape" /\ k # "enter" => State' = "group"
<1>1. UNCHANGED place => State' = State
  BY DEF place
<1> QED BY <1>1 DEF SelectGroup

(* The wizard does not open the editor.                                    *)
LEMMA ExpressStepEffect ==
  ASSUME NEW k0, NEW memReady, State = "express", ExpressStep(k0, memReady)
  PROVE  State' \in {"express", "start"} /\ UNCHANGED Enable
<1> DEFINE k == IF Step \in {13, 16, 18, 19, 22, 24, 25} THEN "enter" ELSE k0
<1>1. PICK next \in Onward, last \in Last :
        /\ UNCHANGED Enable
        /\ \/ UNCHANGED State
           \/ State' = "start"
           \/ State' = AfterKey(k, next).state
  <2>1. PICK next \in Onward, p \in Edited, last \in Last :
          LET a == AfterKey(k, next)
              leave == a.ready /\ memReady
          IN /\ UNCHANGED Enable
             /\ IF next \in MoveSteps THEN UNCHANGED State
                ELSE IF leave /\ last
                     THEN State' = IF a.step < 34 THEN a.state ELSE "start"
                     ELSE State' = a.state
    BY ZenonT(60) DEF ExpressStep
  <2> QED BY <2>1
<1>2. \A onward : AfterKey(k, onward).state \in {"express", "start"}
  BY DEF AfterKey
<1> QED BY <1>1, <1>2

LEMMA ExpressEffect ==
  ASSUME NEW k, State = "express", ExpressState(k)
  PROVE  /\ State' \in {"express", "start"}
         /\ Enable => \/ k = "enter" /\ Enable' = FALSE
                      \/ k # "enter" /\ UNCHANGED <<Enable, State>>
         /\ ~Enable => UNCHANGED Enable
<1>1. CASE Enable
  BY <1>1 DEF ExpressState, ExpressChoice
<1>2. CASE ~Enable /\ Update
  BY <1>2 DEF ExpressState, place, wizard
<1>3. CASE ~Enable /\ ~Update
  <2>1. PICK memReady \in BOOLEAN : ExpressStep(k, memReady)
    BY <1>3 DEF ExpressState
  <2> QED BY <1>3, <2>1, ExpressStepEffect
<1> QED BY <1>1, <1>2, <1>3

-----------------------------------------------------------------------------
(* The editor: it stays on the parameter it was opened for, and it closes  *)
(* with the entry that changes a code.                                     *)
LEMMA EditKept ==
  ASSUME EditAuthorised, UNCHANGED <<State, Param, codes>>
  PROVE  EditAuthorised'
  BY DEF EditAuthorised, EnableEdit, codes

LEMMA UpdateEdit ==
  ASSUME EditAuthorised, MENU_Update
  PROVE  EditAuthorised'
<1>1. CASE State' # "edit"
  BY <1>1 DEF EditAuthorised
<1>2. CASE UNCHANGED <<place, codes>>
  BY <1>2, EditKept DEF place
<1>3. CASE Asleep /\ Key # "none" /\ (State' = "start" \/ StartState("none"))
  BY <1>1, <1>3 DEF StartState
<1>4. CASE ~Asleep /\ Awake(Key)
  <2>1. CASE State = "start" /\ StartState(Key)
    BY <1>1, <2>1 DEF StartState
  <2>2. CASE State = "group" /\ SelectGroup(Key)
    BY <1>1, <2>2, GroupEffect
  <2>3. CASE State = "param" /\ SelectParam(Key) /\ UNCHANGED Password
    <3>1. State' = "edit" /\ ~extraPassword' => Param' \notin ReadOnly /\ EnableEdit(Param)'
      BY <2>3, SelectParamEffect DEF EnableEdit
    <3> QED BY <3>1 DEF EditAuthorised
  <2>4. ASSUME State = "edit", NEW memReady \in BOOLEAN, EditState(Key, memReady)
        PROVE  EditAuthorised'
    BY <1>1, <2>4, EditStateEffect, EditKept
  <2>5. CASE State = "express" /\ ExpressState(Key)
    BY <1>1, <2>5, ExpressEffect
  <2> QED BY <1>4, <2>1, <2>2, <2>3, <2>4, <2>5 DEF Awake
<1> QED BY <1>2, <1>3, <1>4 DEF MENU_Update, codes

LEMMA NextEdit ==
  ASSUME EditAuthorised, [Next]_vars
  PROVE  EditAuthorised'
<1>1. CASE MENU_Update
  BY <1>1, UpdateEdit
<1>2. CASE UNCHANGED <<State, Param, codes>>
  BY <1>2, EditKept
<1>3. MENU_Update \/ UNCHANGED <<State, Param, codes>>
  BY DEF Next, vars, MENU_Display, KeyGiven, LogRead, WizardOffered, place
<1> QED BY <1>1, <1>2, <1>3

(* A parameter is in the editor only when it may be edited and its         *)
(* password is open, but for the second entry of a code.                   *)
THEOREM EditorIsAuthorised == Spec => []EditAuthorised
<1>1. Init => EditAuthorised
  BY DEF Init, EditAuthorised
<1> QED BY <1>1, NextEdit, PTL DEF Spec

-----------------------------------------------------------------------------
(* The modes: the first state, and each step.                              *)
LEMMA ModesStart == ASSUME Init PROVE Modes!ModesInit
  BY DEF Init, Modes!ModesInit

LEMMA AwakeModes ==
  ASSUME NEW k, Awake(k)
  PROVE  Modes!Awake(k) \/ UNCHANGED <<State, Enable>>
<1>1. CASE State = "start" /\ StartState(k) /\ UNCHANGED wizard
  BY <1>1 DEF StartState, Modes!Awake, Modes!StartState, wizard
<1>2. CASE State = "group" /\ SelectGroup(k) /\ UNCHANGED wizard
  BY <1>2, GroupEffect DEF Modes!Awake, Modes!SelectGroup, wizard
<1>3. CASE State = "param" /\ SelectParam(k) /\ UNCHANGED wizard
  BY <1>3, SelectParamEffect DEF Modes!Awake, Modes!SelectParam, wizard
<1>4. ASSUME State = "edit", NEW memReady \in BOOLEAN, EditState(k, memReady), UNCHANGED wizard
      PROVE  Modes!Awake(k)
  BY <1>4, EditStateEffect DEF Modes!Awake, Modes!EditParam, wizard
<1>5. CASE State = "express" /\ ExpressState(k)
  BY <1>5, ExpressEffect DEF Modes!Awake, Modes!ExpressState
<1> QED BY <1>1, <1>2, <1>3, <1>4, <1>5 DEF Awake

LEMMA ModesStep ==
  ASSUME [Next]_vars
  PROVE  [Modes!ModesNext]_(Modes!modes)
<1>1. CASE MENU_Update
  <2>1. Key' = "none"
    BY <1>1 DEF MENU_Update
  <2>2. CASE Key = "none" /\ Asleep' = TRUE /\ UNCHANGED <<place, wizard>>
    BY <2>1, <2>2 DEF Modes!ModesNext, Modes!ModesUpdate, place, wizard
  <2>3. CASE /\ Asleep /\ Key # "none" /\ Asleep' = FALSE /\ UNCHANGED Enable
             /\ State' = "start" \/ StartState("none")
    BY <2>1, <2>3 DEF Modes!ModesNext, Modes!ModesUpdate, StartState
  <2>4. CASE ~Asleep /\ UNCHANGED Asleep /\ UNCHANGED <<place, wizard>>
    BY <2>1, <2>4 DEF Modes!ModesNext, Modes!ModesUpdate, place, wizard
  <2>5. CASE ~Asleep /\ UNCHANGED Asleep /\ Awake(Key)
    BY <2>1, <2>5, AwakeModes DEF Modes!ModesNext, Modes!ModesUpdate
  <2> QED BY <1>1, <2>2, <2>3, <2>4, <2>5 DEF MENU_Update
<1>2. CASE KeyGiven
  BY <1>2 DEF KeyGiven, Keys, Modes!ModesNext, Modes!KeyGiven, Modes!KeyNames, place, wizard
<1>3. CASE WizardOffered
  <2>1. Enable' \in BOOLEAN
    BY <1>3, Zenon DEF WizardOffered
  <2> QED BY <1>3, <2>1 DEF WizardOffered, Modes!ModesNext, Modes!WizardOffered, place
<1>4. CASE UNCHANGED <<State, Key, Asleep, Enable>>
  BY <1>4 DEF Modes!modes
<1>5. MENU_Update \/ KeyGiven \/ WizardOffered \/ UNCHANGED <<State, Key, Asleep, Enable>>
  BY DEF Next, vars, MENU_Display, LogRead, place, wizard
<1> QED BY <1>1, <1>2, <1>3, <1>4, <1>5

(* The menu with its data goes only the ways its modes leave open.         *)
THEOREM MenuImplementsModes == Spec => ModesSpec
<1> QED BY ModesStart, ModesStep, PTL DEF Spec, ModesSpec, Modes!ModesSpec

-----------------------------------------------------------------------------
(* What the driver of the link, the module and the peer keep.              *)
Answers ==
  Nat \cup [rec : Nat, words : UNION {[part -> Seq(Nat)] : part \in SUBSET Parts}]

Buffers == [0 .. IM_RD_BUFFER_SIZE - 1 -> Nat]

Ims ==
  [ControlMode : Nat, FuncState : Nat, Index : Nat, TxIndex : Nat,
   CanSendData : BOOLEAN, Timer : Nat, CanReadNextRec : BOOLEAN,
   IsBufReady : BOOLEAN, IsLogTransmit : BOOLEAN,
   RdBuffer : Buffers, WrBuffer : Answers,
   CurrentLogRec : Nat, CurrentLogCnt : Nat, PrevRecNum : Nat,
   EvLogMainCellRead : BOOLEAN, EvLogBufCellRead : BOOLEAN]

Statuses == {"idle", "sending", "sent", "getting", "got"}
LinkModes == {"command", "data"}
Bts ==
  [State : Nat, CmdState : Nat, Status : Statuses, Mode : LinkModes, StrIndex : Nat,
   Timer : Nat, TxBusy : BOOLEAN, RxState : Nat,
   RxBuffer : [0 .. BT_RX_BUFFER_SIZE - 1 -> Nat]]

Peers ==
  [on : BOOLEAN, owed : BOOLEAN, out : Seq(Nat), asked : Requests \cup {NoRequest},
   answered : BOOLEAN, again : BOOLEAN, seen : BOOLEAN, others : Nat, faults : Nat]

Cells == [Parts -> Seq(Nat)]
Mems == {Free, Other} \cup ((SUBSET Parts) \X Nat \X Nat)
Infos == [bt : Bts, im : Ims, rx : BOOLEAN, cells : Cells, mem : Mems]
Jobs == [request : Seq(Nat), next : Nat]

(* During the set-up nothing reaches the module: the driver is in the      *)
(* command mode, as it is until a connection is there.                     *)
LinkOK(w) ==
  /\ w.bt.State <= 9
  /\ w.bt.State <= 8 => w.bt.Mode = "command"
  /\ w.bt.State <= 6 => /\ ~w.im.CanSendData /\ w.im.FuncState \in {imIdle, imInit}
                        /\ w.im.RdBuffer[0] = 0

(* While a request is in work or answered, no other is recognised.         *)
LineOK(w, j) ==
  /\ w.im.CanSendData \/ w.im.FuncState \notin {imIdle, imInit} =>
       w.im.RdBuffer[0] = 0 /\ (w.im.Index > 0 \/ ~w.rx)
  /\ w.im.CanSendData =>
       ~w.rx /\ w.im.FuncState = (IF w.im.IsLogTransmit THEN imLogDownload ELSE imIdle)
  /\ w.im.IsLogTransmit => w.im.FuncState = imLogDownload
  /\ ~w.im.IsBufReady
  /\ w.im.FuncState \notin {imIdle, imInit, imLogDownload} => j.request[1] # 5

(* A download under way, and of which journal it is.                       *)
Live(p) == p.CanReadNextRec /\ p.CurrentLogCnt > 0
Journal(p) == p.RdBuffer[1]

DownloadOK(w, j) ==
  Live(w.im) =>
    /\ w.im.FuncState = imLogDownload /\ j.request[2] = Journal(w.im)
    /\ w.im.CurrentLogRec < w.im.CurrentLogCnt /\ w.im.CurrentLogCnt > 1
    /\ j.next = IF w.im.CurrentLogRec = 0 THEN 0 ELSE w.im.CurrentLogRec - 1
    /\ w.im.CurrentLogRec = 0 => ~w.im.CanSendData /\ w.im.Index > 1
    /\ w.im.CurrentLogRec > 0 =>
         w.im.IsLogTransmit /\ ~w.rx /\ (w.im.CanSendData \/ w.im.Index = 0)

(* How far the record has been read: nothing yet, the first of the two     *)
(* parts of an event, or what has been asked for last.                     *)
NotReading(w) == w.mem \in {Free, Other}
Have(w, part, log, record) == \A x \in part : w.cells[x] = <<log, record>>
Fetched(w, part, log, record) ==
  w.mem = <<part, log, record>> \/ (NotReading(w) /\ Have(w, part, log, record))

MainPart(log, record) == Words(log, record) \ BufferCells
CellPart(log, record) == Words(log, record) \cap BufferCells

EventStage(w, log, r) ==
  \/ ~w.im.EvLogMainCellRead /\ ~w.im.EvLogBufCellRead /\ NotReading(w)
  \/ /\ w.im.EvLogMainCellRead /\ ~w.im.EvLogBufCellRead
     /\ Fetched(w, MainPart(log, r), log, r)
  \/ /\ ~w.im.EvLogMainCellRead /\ w.im.EvLogBufCellRead /\ w.im.PrevRecNum = r
     /\ Fetched(w, CellPart(log, r), log, r) /\ Have(w, MainPart(log, r), log, r)

OtherStage(w, log, r) ==
  /\ ~w.im.EvLogMainCellRead /\ ~w.im.EvLogBufCellRead
  /\ IF w.im.PrevRecNum = r THEN Fetched(w, Words(log, r), log, r) ELSE NotReading(w)

Stage(w, log, r) ==
  IF log = IM_LOGEV_TYPE THEN EventStage(w, log, r) ELSE OtherStage(w, log, r)

ReadOK(w) ==
  IF Live(w.im) THEN Stage(w, Journal(w.im), w.im.CurrentLogRec)
  ELSE /\ ~w.im.EvLogMainCellRead /\ ~w.im.EvLogBufCellRead
       /\ NotReading(w) /\ w.im.PrevRecNum # 0

(* RecordTrue of a world.                                                  *)
AnswerOK(w, j) ==
  w.im.CanSendData /\ j.request # NoRequest /\ j.request[1] = 5 =>
    /\ w.im.WrBuffer.rec = j.next
    /\ w.im.WrBuffer.words
         = [x \in Words(j.request[2], j.next) |-> <<j.request[2], j.next>>]

Fit(w, j) ==
  /\ w \in Infos /\ j \in Jobs
  /\ LinkOK(w) /\ LineOK(w, j) /\ DownloadOK(w, j) /\ ReadOK(w) /\ AnswerOK(w, j)

InfoInv == Fit(World, job) /\ im.ControlMode \in 0 .. 2 /\ peer \in Peers

(* No download of one single record is asked for: it would leave the       *)
(* number of that record behind, for which the next download of another    *)
(* journal would take its own first one (interface.c 1960).                *)
OneRecord(p) ==
  IsFuncReceived(p) /\ p.RdBuffer[0] = 5 /\ 256 * p.RdBuffer[2] + p.RdBuffer[3] = 1

NoSingleRecord == ~(im.ControlMode = 0 /\ OneRecord(im))

-----------------------------------------------------------------------------
(* What the driver of the link leaves alone.                               *)
LinkOnly(w, v) == v \in Infos /\ v.im = w.im /\ v.cells = w.cells /\ v.mem = w.mem

LEMMA LinkWords ==
  /\ "idle" \in Statuses /\ "sending" \in Statuses /\ "sent" \in Statuses
  /\ "getting" \in Statuses /\ "got" \in Statuses
  /\ "command" \in LinkModes /\ "data" \in LinkModes
  BY DEF Statuses, LinkModes

LEMMA LinkSet ==
  ASSUME NEW w \in Infos, NEW b \in Bts, NEW line \in BOOLEAN
  PROVE  LET v == [w EXCEPT !.rx = line, !.bt = b]
         IN  LinkOnly(w, v) /\ v.bt = b /\ v.rx = line
  BY DEF Infos, LinkOnly

LEMMA DriverSet ==
  ASSUME NEW w \in Infos, NEW b \in Bts
  PROVE  LET v == [w EXCEPT !.bt = b]
         IN  LinkOnly(w, v) /\ v.bt = b /\ v.rx = w.rx
  BY DEF Infos, LinkOnly

LEMMA Unchanged ==
  ASSUME NEW w \in Infos
  PROVE  LinkOnly(w, w) /\ w.bt \in Bts /\ w.rx \in BOOLEAN
  BY DEF Infos, LinkOnly

LEMMA SetupCommand ==
  ASSUME NEW w \in Infos
  PROVE  LET v == SendCommand(w)
         IN  LinkOnly(w, v) /\ v.bt.State = w.bt.State /\ v.bt.Mode = w.bt.Mode
<1> DEFINE v == SendCommand(w)
<1> SUFFICES LinkOnly(w, v) /\ v.bt.State = w.bt.State /\ v.bt.Mode = w.bt.Mode
  OBVIOUS
<1>1. w.bt \in Bts
  BY Unchanged
<1>2. CASE w.bt.CmdState = 0
  <2> DEFINE b == [w.bt EXCEPT !.StrIndex = 0, !.CmdState = 1]
  <2>1. b \in Bts /\ b.State = w.bt.State /\ b.Mode = w.bt.Mode
    BY <1>1 DEF Bts
  <2>2. v = [w EXCEPT !.rx = FALSE, !.bt.StrIndex = 0, !.bt.CmdState = 1]
    BY <1>2 DEF SendCommand
  <2>3. v = [w EXCEPT !.rx = FALSE, !.bt = b]
    BY <2>2 DEF Infos
  <2> HIDE DEF b, v
  <2> QED BY <2>1, <2>3, LinkSet
<1>3. CASE w.bt.CmdState = 1
  <2> DEFINE s == SendString(w.bt)
             b == IF s.Status = "sent" THEN [s EXCEPT !.CmdState = 2] ELSE s
  <2>1. s \in Bts /\ s.State = w.bt.State /\ s.Mode = w.bt.Mode
    <3>1. CASE w.bt.TxBusy
      BY <1>1, <3>1 DEF SendString
    <3>2. CASE ~w.bt.TxBusy /\ w.bt.StrIndex = COMMAND
      <4>1. s = [w.bt EXCEPT !.Status = "sent", !.StrIndex = 0]
        BY <3>2 DEF SendString
      <4> HIDE DEF s
      <4> QED BY <1>1, <4>1, LinkWords DEF Bts
    <3>3. CASE ~w.bt.TxBusy /\ w.bt.StrIndex # COMMAND
      <4>1. s = [w.bt EXCEPT !.StrIndex = w.bt.StrIndex + 1, !.Status = "sending",
                             !.TxBusy = TRUE]
        BY <3>3 DEF SendString
      <4>2. w.bt.StrIndex + 1 \in Nat
        BY <1>1 DEF Bts
      <4> HIDE DEF s
      <4> QED BY <1>1, <4>1, <4>2, LinkWords DEF Bts
    <3> QED BY <3>1, <3>2, <3>3
  <2>2. v = [w EXCEPT !.bt = b]
    BY <1>3 DEF SendCommand
  <2> HIDE DEF s, v
  <2>3. b \in Bts /\ b.State = w.bt.State /\ b.Mode = w.bt.Mode
    BY <2>1 DEF Bts
  <2> HIDE DEF b
  <2> QED BY <2>2, <2>3, DriverSet
<1>4. CASE w.bt.CmdState = 2
  <2> DEFINE b == [w.bt EXCEPT !.StrIndex = 0, !.CmdState = 3]
  <2>1. b \in Bts /\ b.State = w.bt.State /\ b.Mode = w.bt.Mode
    BY <1>1 DEF Bts
  <2>2. v = [w EXCEPT !.rx = TRUE, !.bt.StrIndex = 0, !.bt.CmdState = 3]
    BY <1>4 DEF SendCommand
  <2>3. v = [w EXCEPT !.rx = TRUE, !.bt = b]
    BY <2>2 DEF Infos
  <2> HIDE DEF b, v
  <2> QED BY <2>1, <2>3, LinkSet
<1>5. CASE w.bt.CmdState = 3 /\ w.bt.Status = "got"
  <2> DEFINE b == [w.bt EXCEPT !.CmdState = 4]
  <2>1. b \in Bts /\ b.State = w.bt.State /\ b.Mode = w.bt.Mode
    BY <1>1 DEF Bts
  <2>2. v = [w EXCEPT !.bt.CmdState = 4]
    BY <1>5 DEF SendCommand
  <2>3. v = [w EXCEPT !.bt = b]
    BY <2>2 DEF Infos
  <2> HIDE DEF b, v
  <2> QED BY <2>1, <2>3, DriverSet
<1>6. CASE w.bt.CmdState \notin {0, 1, 2} /\ ~(w.bt.CmdState = 3 /\ w.bt.Status = "got")
  <2>1. v = w
    BY <1>6 DEF SendCommand
  <2> HIDE DEF v
  <2> QED BY <2>1, Unchanged
<1> QED BY <1>2, <1>3, <1>4, <1>5, <1>6

LEMMA Cleared ==
  ASSUME NEW b \in Bts, NEW k \in Nat
  PROVE  LET d == ClearValues([b EXCEPT !.State = k])
         IN  d \in Bts /\ d.State = k /\ d.Mode = b.Mode
<1> DEFINE a == [b EXCEPT !.State = k]
<1>1. a \in Bts /\ a.State = k /\ a.Mode = b.Mode
  BY DEF Bts
<1> HIDE DEF a
<1>2. LET d == ClearValues(a) IN d \in Bts /\ d.State = a.State /\ d.Mode = a.Mode
  BY <1>1, LinkWords DEF ClearValues, Bts
<1> QED BY <1>1, <1>2 DEF a

(* The end of a state of the set-up.                                       *)
Advanced(w) == [w EXCEPT !.bt = ClearValues([w.bt EXCEPT !.State = w.bt.State + 1])]

LEMMA Advance ==
  ASSUME NEW w \in Infos
  PROVE  /\ LinkOnly(w, Advanced(w)) /\ Advanced(w).rx = w.rx
         /\ Advanced(w).bt.Mode = w.bt.Mode /\ Advanced(w).bt.State = w.bt.State + 1
<1> DEFINE d == ClearValues([w.bt EXCEPT !.State = w.bt.State + 1])
<1>1. d \in Bts /\ d.State = w.bt.State + 1 /\ d.Mode = w.bt.Mode
  <2>1. w.bt \in Bts /\ w.bt.State + 1 \in Nat
    BY DEF Infos, Bts
  <2> QED BY <2>1, Cleared
<1>2. Advanced(w) = [w EXCEPT !.bt = d]
  BY DEF Advanced
<1> HIDE DEF d
<1> QED BY <1>1, <1>2, DriverSet

(* A step of the driver of the link: it turns the line in the set-up only. *)
LEMMA LinkStep ==
  ASSUME NEW w \in Infos, LinkOK(w)
  PROVE  LET v == BtWTUpdate(w)
         IN  LinkOnly(w, v) /\ LinkOK(v) /\ (w.bt.State >= 7 => v.rx = w.rx)
<1> DEFINE v == BtWTUpdate(w)
<1> SUFFICES LinkOnly(w, v) /\ LinkOK(v) /\ (w.bt.State >= 7 => v.rx = w.rx)
  OBVIOUS
<1>1. w.bt \in Bts /\ w.bt.State \in 0 .. 9
  <2>1. w.bt \in Bts /\ w.bt.State \in Nat
    BY DEF Infos, Bts
  <2> QED BY <2>1 DEF LinkOK
<1>2. CASE w.bt.State = 0
  <2> DEFINE b == [w.bt EXCEPT !.Timer = BT_TIMER, !.State = 1]
  <2>1. b \in Bts /\ b.State = 1 /\ b.Mode = w.bt.Mode
    BY <1>1, BluetoothAssumption DEF Bts
  <2>2. v = [w EXCEPT !.rx = TRUE, !.bt.Timer = BT_TIMER, !.bt.State = 1]
    BY <1>2 DEF BtWTUpdate
  <2>3. v = [w EXCEPT !.rx = TRUE, !.bt = b]
    BY <2>2 DEF Infos
  <2> HIDE DEF b, v
  <2>4. LinkOnly(w, v) /\ v.bt = b
    BY <2>1, <2>3, LinkSet
  <2> QED BY <1>2, <2>1, <2>4 DEF LinkOK, LinkOnly
<1>3. CASE w.bt.State = 1
  <2>1. v = IF w.bt.Timer = 0 THEN Advanced(w) ELSE w
    BY <1>3 DEF BtWTUpdate, Onwards, Advanced
  <2> HIDE DEF v
  <2>2. LinkOnly(w, v) /\ v.bt.Mode = w.bt.Mode /\ v.bt.State \in {1, 2}
    BY <1>3, <2>1, Advance, Unchanged
  <2> QED BY <1>3, <2>2 DEF LinkOK, LinkOnly
<1>4. CASE w.bt.State \in 2 .. 6
  <2> DEFINE s == SendCommand(w)
  <2>1. LinkOnly(w, s) /\ s.bt.State = w.bt.State /\ s.bt.Mode = w.bt.Mode
    BY SetupCommand
  <2>2. v = IF s.bt.Status = "got" THEN Advanced(s) ELSE s
    BY <1>4 DEF BtWTUpdate, Onwards, Advanced
  <2> HIDE DEF s, v
  <2>3. s \in Infos
    BY <2>1 DEF LinkOnly
  <2>4. LinkOnly(s, v) /\ v.bt.Mode = s.bt.Mode /\ v.bt.State \in {s.bt.State, s.bt.State + 1}
    BY <2>2, <2>3, Advance, Unchanged
  <2>5. LinkOnly(w, v)
    BY <2>1, <2>4 DEF LinkOnly
  <2> QED BY <1>4, <2>1, <2>4, <2>5 DEF LinkOK, LinkOnly
<1>5. CASE w.bt.State = 7
  <2> DEFINE d == AwaitRing(w.bt)
  <2>1. d \in Bts /\ d.State \in {7, 8} /\ d.Mode = w.bt.Mode
    BY <1>1, <1>5, LinkWords DEF AwaitRing, ClearValues, Bts
  <2>2. v = [w EXCEPT !.bt = d]
    BY <1>5 DEF BtWTUpdate
  <2> HIDE DEF d, v
  <2>3. LinkOnly(w, v) /\ v.bt = d /\ v.rx = w.rx
    BY <2>1, <2>2, DriverSet
  <2> QED BY <1>5, <2>1, <2>3 DEF LinkOK, LinkOnly
<1>6. CASE w.bt.State = 8
  <2> DEFINE b == [w.bt EXCEPT !.Mode = "data"]
             s == [w EXCEPT !.bt = b]
  <2>1. b \in Bts /\ b.State = 8
    BY <1>1, <1>6, LinkWords DEF Bts
  <2>2. s = [w EXCEPT !.bt.Mode = "data"]
    OBVIOUS
  <2>3. v = Advanced(s)
    BY <1>6, <2>2 DEF BtWTUpdate, Onwards, Advanced
  <2> HIDE DEF b
  <2>4. LinkOnly(w, s) /\ s.bt = b /\ s.rx = w.rx
    BY <2>1, DriverSet
  <2> HIDE DEF s, v
  <2>5. s \in Infos /\ s.bt \in Bts
    BY <2>1, <2>4 DEF LinkOnly
  <2>6. v.bt.State = 9
    BY <2>1, <2>3, <2>4, <2>5, Advance
  <2>7. LinkOnly(s, v) /\ v.rx = s.rx
    BY <2>3, <2>5, Advance
  <2>8. LinkOnly(w, v)
    BY <2>4, <2>7 DEF LinkOnly
  <2> QED BY <2>4, <2>6, <2>7, <2>8 DEF LinkOK, LinkOnly
<1>7. CASE w.bt.State = 9 /\ w.bt.Mode = "command"
  <2> DEFINE d == [ClearValues(w.bt) EXCEPT !.State = 7]
  <2>1. d \in Bts /\ d.State = 7 /\ d.Mode = w.bt.Mode
    BY <1>1, LinkWords DEF ClearValues, Bts
  <2>2. v = [w EXCEPT !.bt = d]
    BY <1>7 DEF BtWTUpdate
  <2> HIDE DEF d, v
  <2>3. LinkOnly(w, v) /\ v.bt = d /\ v.rx = w.rx
    BY <2>1, <2>2, DriverSet
  <2> QED BY <1>7, <2>1, <2>3 DEF LinkOK, LinkOnly
<1>8. CASE w.bt.State = 9 /\ w.bt.Mode # "command"
  <2>1. v = w
    BY <1>8 DEF BtWTUpdate
  <2> HIDE DEF v
  <2> QED BY <2>1, Unchanged
<1> QED BY <1>1, <1>2, <1>3, <1>4, <1>5, <1>6, <1>7, <1>8

-----------------------------------------------------------------------------
(* A request that is recognised.                                           *)
LEMMA ImSet ==
  ASSUME NEW w \in Infos, NEW p \in Ims, NEW v, v = [w EXCEPT !.im = p]
  PROVE  /\ v \in Infos /\ v.im = p
         /\ v.rx = w.rx /\ v.mem = w.mem /\ v.bt = w.bt /\ v.cells = w.cells
  BY DEF Infos

LEMMA WorldTypes ==
  ASSUME NEW w \in Infos
  PROVE  w.im \in Ims /\ w.bt \in Bts /\ w.rx \in BOOLEAN /\ w.mem \in Mems /\ w.cells \in Cells
  BY DEF Infos

LEMMA BufferBytes ==
  ASSUME NEW p \in Ims
  PROVE  /\ p.RdBuffer \in Buffers
         /\ \A i \in 0 .. 3 : p.RdBuffer[i] \in Nat
         /\ \A i \in 0 .. IM_RD_BUFFER_SIZE - 1, k \in Nat :
              LET b == [p.RdBuffer EXCEPT ![i] = k]
              IN  b \in Buffers /\ b[i] = k /\ \A x \in 0 .. 3 : x # i => b[x] = p.RdBuffer[x]
<1>1. p.RdBuffer \in Buffers
  BY DEF Ims
<1>2. /\ p.RdBuffer \in [0 .. IM_RD_BUFFER_SIZE - 1 -> Nat]
      /\ IM_RD_BUFFER_SIZE \in Nat /\ IM_RD_BUFFER_SIZE > 3
  BY <1>1, InfoAssumption DEF Buffers
<1> QED BY <1>1, <1>2 DEF Buffers

LEMMA FunctionStates ==
  ASSUME NEW p \in Ims
  PROVE  /\ FunctionState(p) \in Nat
         /\ p.RdBuffer[0] = 5 => FunctionState(p) = imLogDownload
         /\ FunctionState(p) \notin {imIdle, imInit} \/ FunctionState(p) = p.FuncState
<1>1. p.RdBuffer[0] \in Nat /\ p.RdBuffer[1] \in Nat /\ p.FuncState \in Nat
  BY BufferBytes DEF Ims
<1> QED BY <1>1 DEF FunctionState, imLogDownload, imIdle, imInit

(* What is recognised, in the state of the module.                         *)
Recognised(p) ==
  [StartLog(p) EXCEPT !.FuncState = FunctionState(p), !.RdBuffer[0] = 0]

LEMMA LogSet ==
  ASSUME NEW p \in Ims, NEW n \in Nat, NEW q,
         q = [p EXCEPT !.CurrentLogCnt = n, !.CurrentLogRec = 0, !.CanReadNextRec = TRUE]
  PROVE  q \in Ims
  BY DEF Ims

LEMMA RecognisedFields ==
  ASSUME NEW p \in Ims, NEW q, q = Recognised(p)
  PROVE  /\ q \in Ims
         /\ q.FuncState = FunctionState(p) /\ q.RdBuffer[0] = 0 /\ Journal(q) = Journal(p)
         /\ q.Index = p.Index /\ q.CanSendData = p.CanSendData
         /\ q.IsLogTransmit = p.IsLogTransmit /\ q.IsBufReady = p.IsBufReady
         /\ q.PrevRecNum = p.PrevRecNum /\ q.EvLogMainCellRead = p.EvLogMainCellRead
         /\ q.EvLogBufCellRead = p.EvLogBufCellRead /\ q.WrBuffer = p.WrBuffer
         /\ q.ControlMode = p.ControlMode
         /\ IF p.RdBuffer[0] = 5
            THEN /\ q.CurrentLogCnt = 256 * p.RdBuffer[2] + p.RdBuffer[3]
                 /\ q.CurrentLogRec = 0 /\ q.CanReadNextRec
            ELSE /\ q.CurrentLogCnt = p.CurrentLogCnt
                 /\ q.CurrentLogRec = p.CurrentLogRec /\ q.CanReadNextRec = p.CanReadNextRec
<1> DEFINE f == FunctionState(p)
           b == [p.RdBuffer EXCEPT ![0] = 0]
           n == 256 * p.RdBuffer[2] + p.RdBuffer[3]
<1>1. f \in Nat
  BY FunctionStates
<1>2. b \in Buffers /\ b[0] = 0 /\ b[1] = p.RdBuffer[1]
  <2>1. 0 \in 0 .. IM_RD_BUFFER_SIZE - 1
    BY InfoAssumption
  <2> QED BY <2>1, BufferBytes
<1>3. n \in Nat
  BY BufferBytes
<1>4. CASE p.RdBuffer[0] = 5
  <2>1. q = [p EXCEPT !.CurrentLogCnt = n, !.CurrentLogRec = 0, !.CanReadNextRec = TRUE,
                      !.FuncState = f, !.RdBuffer = b]
    BY <1>4 DEF Recognised, StartLog, Ims
  <2> HIDE DEF f, b, n
  <2>2. q \in Ims
    <3> DEFINE r == [p EXCEPT !.FuncState = f, !.RdBuffer = b]
    <3>1. r \in Ims
      BY <1>1, <1>2 DEF Ims
    <3>2. q = [r EXCEPT !.CurrentLogCnt = n, !.CurrentLogRec = 0, !.CanReadNextRec = TRUE]
      BY <2>1 DEF Ims
    <3> HIDE DEF r
    <3> QED BY <1>3, <3>1, <3>2, LogSet
  <2>3. /\ q.FuncState = f /\ q.RdBuffer = b /\ q.CurrentLogCnt = n
        /\ q.CurrentLogRec = 0 /\ q.CanReadNextRec
        /\ q.Index = p.Index /\ q.CanSendData = p.CanSendData
        /\ q.IsLogTransmit = p.IsLogTransmit /\ q.IsBufReady = p.IsBufReady
        /\ q.PrevRecNum = p.PrevRecNum /\ q.EvLogMainCellRead = p.EvLogMainCellRead
        /\ q.EvLogBufCellRead = p.EvLogBufCellRead /\ q.WrBuffer = p.WrBuffer
        /\ q.ControlMode = p.ControlMode
    BY <2>1 DEF Ims
  <2> QED BY <1>2, <1>4, <2>2, <2>3 DEF f, n, Journal
<1>5. CASE p.RdBuffer[0] # 5
  <2>1. q = [p EXCEPT !.FuncState = f, !.RdBuffer = b]
    BY <1>5 DEF Recognised, StartLog, Ims
  <2> HIDE DEF f, b, n
  <2>2. q \in Ims
    BY <1>1, <1>2, <2>1 DEF Ims
  <2>3. /\ q.FuncState = f /\ q.RdBuffer = b
        /\ q.CurrentLogCnt = p.CurrentLogCnt
        /\ q.CurrentLogRec = p.CurrentLogRec /\ q.CanReadNextRec = p.CanReadNextRec
        /\ q.Index = p.Index /\ q.CanSendData = p.CanSendData
        /\ q.IsLogTransmit = p.IsLogTransmit /\ q.IsBufReady = p.IsBufReady
        /\ q.PrevRecNum = p.PrevRecNum /\ q.EvLogMainCellRead = p.EvLogMainCellRead
        /\ q.EvLogBufCellRead = p.EvLogBufCellRead /\ q.WrBuffer = p.WrBuffer
        /\ q.ControlMode = p.ControlMode
    BY <2>1 DEF Ims
  <2> QED BY <1>2, <1>5, <2>2, <2>3 DEF f, Journal
<1> QED BY <1>4, <1>5

LEMMA RequestEchoed ==
  ASSUME NEW p \in Ims, IsFuncReceived(p)
  PROVE  /\ Echo(p) \in Seq(Nat) /\ Echo(p)[1] = p.RdBuffer[0]
         /\ p.RdBuffer[0] \in 1 .. 6 /\ p.Index > 0 /\ ~p.CanSendData
         /\ p.RdBuffer[0] = 5 => Echo(p)[2] = Journal(p) /\ p.Index = 4
<1>1. p.RdBuffer[0] \in 1 .. 6 /\ p.Index = RequestLength[p.RdBuffer[0]] /\ ~p.CanSendData
  BY DEF IsFuncReceived, RequestLength
<1>2. p.Index \in 1 .. 4 /\ (p.RdBuffer[0] = 5 => p.Index = 4)
  BY <1>1 DEF RequestLength
<1>3. \A k \in 1 .. p.Index : p.RdBuffer[k - 1] \in Nat
  BY <1>2, BufferBytes
<1>4. Echo(p) \in [1 .. p.Index -> Nat]
  BY <1>3 DEF Echo
<1>5. Echo(p) \in Seq(Nat)
  BY <1>2, <1>4
<1>6. Echo(p)[1] = p.RdBuffer[0] /\ (p.Index = 4 => Echo(p)[2] = p.RdBuffer[1])
  BY <1>2 DEF Echo
<1> QED BY <1>1, <1>2, <1>5, <1>6 DEF Journal

LEMMA ReceiveFit ==
  ASSUME NEW w, NEW j, Fit(w, j), IsFuncReceived(w.im), ~OneRecord(w.im),
         NEW v, v = ReceiveFunc(w)
  PROVE  /\ Fit(v, [request |-> Echo(w.im), next |-> 0])
         /\ v.im.ControlMode = w.im.ControlMode /\ v.bt = w.bt
         /\ ~w.im.CanSendData /\ ~v.im.CanSendData
         /\ v.cells = w.cells
<1> DEFINE p == w.im
           q == Recognised(p)
           i == [request |-> Echo(p), next |-> 0]
<1>1. w \in Infos /\ p \in Ims
  BY WorldTypes DEF Fit
<1>2. v = [w EXCEPT !.im = q]
  BY DEF ReceiveFunc, Recognised
<1>3. /\ q \in Ims
      /\ q.FuncState = FunctionState(p) /\ q.RdBuffer[0] = 0 /\ Journal(q) = Journal(p)
      /\ q.Index = p.Index /\ q.CanSendData = p.CanSendData
      /\ q.IsLogTransmit = p.IsLogTransmit /\ q.IsBufReady = p.IsBufReady
      /\ q.PrevRecNum = p.PrevRecNum /\ q.EvLogMainCellRead = p.EvLogMainCellRead
      /\ q.EvLogBufCellRead = p.EvLogBufCellRead
      /\ q.ControlMode = p.ControlMode
      /\ IF p.RdBuffer[0] = 5
         THEN /\ q.CurrentLogCnt = 256 * p.RdBuffer[2] + p.RdBuffer[3]
              /\ q.CurrentLogRec = 0 /\ q.CanReadNextRec
         ELSE /\ q.CurrentLogCnt = p.CurrentLogCnt
              /\ q.CurrentLogRec = p.CurrentLogRec /\ q.CanReadNextRec = p.CanReadNextRec
  BY <1>1, RecognisedFields
<1>4. /\ Echo(p) \in Seq(Nat) /\ Echo(p)[1] = p.RdBuffer[0]
      /\ p.RdBuffer[0] \in 1 .. 6 /\ p.Index > 0 /\ ~p.CanSendData
      /\ p.RdBuffer[0] = 5 => Echo(p)[2] = Journal(p) /\ p.Index = 4
  BY <1>1, RequestEchoed
<1>5. /\ p.RdBuffer[0] = 5 => FunctionState(p) = imLogDownload
      /\ FunctionState(p) \notin {imIdle, imInit} \/ FunctionState(p) = p.FuncState
  BY <1>1, FunctionStates
<1>6. i \in Jobs /\ i.request = Echo(p) /\ i.next = 0
  BY <1>4 DEF Jobs
<1> HIDE DEF q, i
<1>7. /\ v \in Infos /\ v.im = q
      /\ v.rx = w.rx /\ v.mem = w.mem /\ v.bt = w.bt /\ v.cells = w.cells
  BY <1>1, <1>2, <1>3, ImSet
<1> HIDE DEF p
<1>8. LinkOK(w) /\ LineOK(w, j) /\ DownloadOK(w, j) /\ ReadOK(w)
  BY DEF Fit
<1>9. p.FuncState \in {imIdle, imInit} /\ w.bt.State \in Nat
  <2>1. p.RdBuffer[0] # 0
    BY <1>4
  <2> QED BY <1>1, <1>8, <2>1, WorldTypes DEF LineOK, p, Bts
<1>10. ~Live(p)
  BY <1>8, <1>9 DEF DownloadOK, imIdle, imInit, imLogDownload, p
<1>11. /\ ~p.EvLogMainCellRead /\ ~p.EvLogBufCellRead
       /\ NotReading(w) /\ p.PrevRecNum # 0
  BY <1>8, <1>10 DEF ReadOK, p
<1>12. LinkOK(v)
  <2>1. CASE w.bt.State <= 6
    <3>1. p.RdBuffer[0] = 0
      BY <1>8, <2>1 DEF LinkOK, p
    <3> QED BY <3>1, <1>4
  <2>2. CASE ~(w.bt.State <= 6)
    BY <1>7, <1>8, <2>2 DEF LinkOK
  <2> QED BY <2>1, <2>2
<1>13. p.IsLogTransmit = FALSE /\ p.IsBufReady = FALSE
  BY <1>1, <1>8, <1>9 DEF LineOK, imIdle, imInit, imLogDownload, p, Ims
<1>14. LineOK(v, i)
  BY <1>3, <1>4, <1>5, <1>6, <1>7, <1>9, <1>13 DEF LineOK, imIdle, imInit, imLogDownload
<1>15. Live(q) => p.RdBuffer[0] = 5
  BY <1>3, <1>10 DEF Live
<1>16. Live(q) => /\ q.FuncState = imLogDownload /\ q.CurrentLogRec = 0 /\ q.CurrentLogCnt > 1
                  /\ i.request[2] = Journal(q) /\ q.Index = 4
  <2>1. p.RdBuffer[0] = 5 => 256 * p.RdBuffer[2] + p.RdBuffer[3] # 1
    BY DEF OneRecord, p
  <2>2. q.CurrentLogCnt \in Nat
    BY <1>3 DEF Ims
  <2>3. p.RdBuffer[0] = 5 => q.CurrentLogCnt # 1
    BY <1>3, <2>1
  <2>4. Live(q) => q.CurrentLogCnt > 0 /\ q.CurrentLogCnt # 1
    BY <1>15, <2>3 DEF Live
  <2>5. Live(q) => q.CurrentLogCnt > 1
    BY <2>2, <2>4
  <2> QED BY <1>3, <1>4, <1>5, <1>6, <1>15, <2>5
<1>17. DownloadOK(v, i)
  <2>1. ~q.CanSendData /\ i.next = 0 /\ q.CurrentLogCnt \in Nat
    BY <1>3, <1>4, <1>6 DEF Ims
  <2> QED BY <1>7, <1>16, <2>1 DEF DownloadOK
<1>18. NotReading(v)
  BY <1>7, <1>11 DEF NotReading
<1>19. ReadOK(v)
  <2>1. CASE ~Live(q)
    BY <1>3, <1>7, <1>11, <1>18, <2>1 DEF ReadOK
  <2>2. CASE Live(q)
    <3>1. q.PrevRecNum # q.CurrentLogRec /\ ~q.EvLogMainCellRead /\ ~q.EvLogBufCellRead
      BY <1>3, <1>11, <1>16, <2>2
    <3>2. Stage(v, Journal(q), q.CurrentLogRec)
      BY <1>7, <1>18, <3>1 DEF Stage, EventStage, OtherStage
    <3> QED BY <1>7, <2>2, <3>2 DEF ReadOK
  <2> QED BY <2>1, <2>2
<1>20. AnswerOK(v, i)
  BY <1>3, <1>4, <1>7 DEF AnswerOK
<1>21. Fit(v, i)
  BY <1>6, <1>7, <1>12, <1>14, <1>17, <1>19, <1>20 DEF Fit
<1> QED BY <1>3, <1>4, <1>7, <1>21 DEF p, i

-----------------------------------------------------------------------------
(* What a step of the module leaves alone: how far the journals have been  *)
(* read, and what for.                                                     *)
SameReading(p, q) ==
  /\ q.RdBuffer = p.RdBuffer
  /\ q.CurrentLogRec = p.CurrentLogRec /\ q.CurrentLogCnt = p.CurrentLogCnt
  /\ q.CanReadNextRec = p.CanReadNextRec /\ q.PrevRecNum = p.PrevRecNum
  /\ q.EvLogMainCellRead = p.EvLogMainCellRead /\ q.EvLogBufCellRead = p.EvLogBufCellRead

SameRecord(p, q) ==
  /\ q.RdBuffer = p.RdBuffer /\ q.ControlMode = p.ControlMode
  /\ q.CurrentLogRec = p.CurrentLogRec /\ q.CurrentLogCnt = p.CurrentLogCnt
  /\ q.CanReadNextRec = p.CanReadNextRec /\ q.PrevRecNum = p.PrevRecNum
  /\ q.EvLogMainCellRead = p.EvLogMainCellRead /\ q.EvLogBufCellRead = p.EvLogBufCellRead

LEMMA ReadingKept ==
  ASSUME NEW w, NEW v, ReadOK(w), SameReading(w.im, v.im), v.mem = w.mem, v.cells = w.cells
  PROVE  ReadOK(v)
<1>1. (Live(v.im) <=> Live(w.im)) /\ Journal(v.im) = Journal(w.im)
  BY DEF SameReading, Live, Journal
<1>2. NotReading(v) <=> NotReading(w)
  BY DEF NotReading
<1>3. \A part, log, r : Have(v, part, log, r) <=> Have(w, part, log, r)
  BY DEF Have
<1>4. \A part, log, r : Fetched(v, part, log, r) <=> Fetched(w, part, log, r)
  BY <1>2, <1>3 DEF Fetched
<1>5. \A log, r : Stage(v, log, r) <=> Stage(w, log, r)
  BY <1>2, <1>3, <1>4 DEF Stage, EventStage, OtherStage, SameReading
<1> QED BY <1>1, <1>2, <1>5 DEF ReadOK, SameReading

LEMMA ReadKept ==
  ASSUME NEW w, NEW v, ReadOK(w), SameRecord(w.im, v.im), v.mem = w.mem, v.cells = w.cells
  PROVE  ReadOK(v)
<1>1. SameReading(w.im, v.im)
  BY DEF SameRecord, SameReading
<1> QED BY <1>1, ReadingKept

LEMMA LinkKept ==
  ASSUME NEW w, NEW v, LinkOK(w), v.bt = w.bt, ~(w.bt.State <= 6)
  PROVE  LinkOK(v)
  BY DEF LinkOK

(* The end of DownloadFunc, with something to send.                        *)
Closed(w) ==
  [w EXCEPT !.rx = FALSE, !.im.Timer = IM_TIMEOUT,
            !.im.FuncState = IF w.im.IsLogTransmit THEN w.im.FuncState ELSE imIdle]

LEMMA DownloadEnds ==
  ASSUME NEW w
  PROVE  LET f == Function(w)
         IN  DownloadFunc(w) = IF f.im.CanSendData THEN Closed(f) ELSE f
  BY DEF DownloadFunc, Closed

LEMMA ClosedFields ==
  ASSUME NEW w \in Infos, NEW v, v = Closed(w)
  PROVE  /\ v \in Infos /\ v.bt = w.bt /\ v.mem = w.mem /\ v.cells = w.cells /\ v.rx = FALSE
         /\ SameRecord(w.im, v.im)
         /\ v.im.Index = w.im.Index /\ v.im.CanSendData = w.im.CanSendData
         /\ v.im.IsLogTransmit = w.im.IsLogTransmit /\ v.im.IsBufReady = w.im.IsBufReady
         /\ v.im.WrBuffer = w.im.WrBuffer
         /\ v.im.FuncState = IF w.im.IsLogTransmit THEN w.im.FuncState ELSE imIdle
<1> DEFINE f == IF w.im.IsLogTransmit THEN w.im.FuncState ELSE imIdle
           q == [w.im EXCEPT !.Timer = IM_TIMEOUT, !.FuncState = f]
<1>1. w.im \in Ims /\ w.bt \in Bts /\ w.mem \in Mems
  BY WorldTypes
<1>2. f \in Nat /\ IM_TIMEOUT \in Nat
  BY <1>1, InfoAssumption DEF Ims, imIdle
<1>3. v = [w EXCEPT !.rx = FALSE, !.im = q]
  BY DEF Closed, Infos
<1> HIDE DEF f
<1>4. q \in Ims
  BY <1>1, <1>2 DEF Ims
<1>5. /\ SameRecord(w.im, q)
      /\ q.Index = w.im.Index /\ q.CanSendData = w.im.CanSendData
      /\ q.IsLogTransmit = w.im.IsLogTransmit /\ q.IsBufReady = w.im.IsBufReady
      /\ q.WrBuffer = w.im.WrBuffer /\ q.FuncState = f
  BY <1>1 DEF Ims, SameRecord
<1> HIDE DEF q
<1>7. v \in Infos /\ v.im = q /\ v.rx = FALSE /\ v.mem = w.mem /\ v.bt = w.bt /\ v.cells = w.cells
  BY <1>3, <1>4 DEF Infos
<1>8. /\ v.im.Index = w.im.Index /\ v.im.CanSendData = w.im.CanSendData
      /\ v.im.IsLogTransmit = w.im.IsLogTransmit /\ v.im.IsBufReady = w.im.IsBufReady
      /\ v.im.WrBuffer = w.im.WrBuffer /\ v.im.FuncState = f
  BY <1>5, <1>7
<1>9. SameRecord(w.im, v.im)
  BY <1>5, <1>7
<1> QED BY <1>7, <1>8, <1>9 DEF f

(* The answer is on its way.                                               *)
LEMMA SendingFit ==
  ASSUME NEW w, NEW j, Fit(w, j), w.im.CanSendData, NEW v, v = DownloadFunc(w)
  PROVE  /\ Fit(v, j) /\ v.im.ControlMode = w.im.ControlMode /\ v.bt = w.bt /\ v.im.CanSendData
         /\ v.cells = w.cells
<1>1. w \in Infos /\ j \in Jobs /\ LinkOK(w) /\ LineOK(w, j) /\ DownloadOK(w, j)
      /\ ReadOK(w) /\ AnswerOK(w, j)
  BY DEF Fit
<1>2. /\ w.im.FuncState = (IF w.im.IsLogTransmit THEN imLogDownload ELSE imIdle)
      /\ ~w.rx /\ w.im.RdBuffer[0] = 0 /\ ~w.im.IsBufReady
  BY <1>1 DEF LineOK
<1>3. Function(w) = w
  BY <1>2 DEF Function, imLogDownload, imIdle, imInit
<1>4. v = Closed(w)
  BY <1>3, DownloadEnds
<1>5. /\ v \in Infos /\ v.bt = w.bt /\ v.mem = w.mem /\ v.cells = w.cells /\ v.rx = FALSE
      /\ SameRecord(w.im, v.im)
      /\ v.im.Index = w.im.Index /\ v.im.CanSendData = w.im.CanSendData
      /\ v.im.IsLogTransmit = w.im.IsLogTransmit /\ v.im.IsBufReady = w.im.IsBufReady
      /\ v.im.WrBuffer = w.im.WrBuffer
      /\ v.im.FuncState = IF w.im.IsLogTransmit THEN w.im.FuncState ELSE imIdle
  BY <1>1, <1>4, ClosedFields
<1>6. v.im.FuncState = w.im.FuncState /\ v.rx = w.rx /\ v.im.RdBuffer = w.im.RdBuffer
  BY <1>1, <1>2, <1>5, WorldTypes DEF SameRecord, Infos
<1>7. LinkOK(v)
  BY <1>1, <1>5, <1>6 DEF LinkOK
<1>8. LineOK(v, j)
  BY <1>1, <1>5, <1>6 DEF LineOK
<1>9. DownloadOK(v, j)
  <2>1. /\ (Live(v.im) <=> Live(w.im)) /\ Journal(v.im) = Journal(w.im)
        /\ v.im.CurrentLogRec = w.im.CurrentLogRec /\ v.im.CurrentLogCnt = w.im.CurrentLogCnt
    BY <1>5 DEF SameRecord, Live, Journal
  <2> QED BY <1>1, <1>5, <1>6, <2>1 DEF DownloadOK
<1>10. ReadOK(v)
  BY <1>1, <1>5, ReadKept
<1>11. AnswerOK(v, j)
  BY <1>1, <1>5 DEF AnswerOK
<1> QED BY <1>1, <1>5, <1>7, <1>8, <1>9, <1>10, <1>11 DEF Fit, SameRecord

(* The module becomes ready for a request.                                 *)
LEMMA ReadyFit ==
  ASSUME NEW w, NEW j, Fit(w, j), w.im.FuncState = imInit, NEW v, v = DownloadFunc(w)
  PROVE  /\ Fit(v, j) /\ v.im.ControlMode = w.im.ControlMode /\ v.bt = w.bt /\ ~v.im.CanSendData
         /\ v.cells = w.cells
<1> DEFINE p == w.im
           q == [p EXCEPT !.Timer = 0, !.Index = 0, !.FuncState = imIdle]
<1>1. w \in Infos /\ j \in Jobs /\ LinkOK(w) /\ LineOK(w, j) /\ DownloadOK(w, j)
      /\ ReadOK(w) /\ AnswerOK(w, j)
  BY DEF Fit
<1>2. p \in Ims
  BY <1>1, WorldTypes
<1>3. p.CanSendData = FALSE /\ p.IsLogTransmit = FALSE /\ ~p.IsBufReady /\ ~Live(p)
  BY <1>1, <1>2 DEF LineOK, DownloadOK, Ims, imInit, imIdle, imLogDownload
<1>4. Function(w) = [w EXCEPT !.rx = TRUE, !.im = q]
  <2>1. q = [ImReset(p) EXCEPT !.FuncState = imIdle]
    BY <1>2 DEF ImReset, Ims
  <2>2. Function(w) = [w EXCEPT !.rx = TRUE, !.im = [ImReset(p) EXCEPT !.FuncState = imIdle]]
    BY DEF Function, imInit, imLogDownload
  <2> HIDE DEF q
  <2> QED BY <2>1, <2>2
<1>5. /\ q \in Ims /\ SameRecord(p, q) /\ q.FuncState = imIdle
      /\ q.CanSendData = p.CanSendData
      /\ q.IsLogTransmit = p.IsLogTransmit /\ q.IsBufReady = p.IsBufReady
  BY <1>2 DEF Ims, SameRecord, imIdle
<1> HIDE DEF q
<1>6. LET f == Function(w)
      IN  /\ f \in Infos /\ f.im = q /\ f.mem = w.mem /\ f.bt = w.bt /\ f.cells = w.cells
  BY <1>1, <1>4, <1>5 DEF Infos
<1>7. v = Function(w)
  BY <1>3, <1>5, <1>6, DownloadEnds
<1>8. /\ v \in Infos /\ v.im = q /\ v.mem = w.mem /\ v.bt = w.bt /\ v.cells = w.cells
  BY <1>6, <1>7
<1>9. LinkOK(v)
  BY <1>1, <1>3, <1>5, <1>8 DEF LinkOK, SameRecord
<1>10. LineOK(v, j)
  BY <1>1, <1>3, <1>5, <1>8 DEF LineOK, imIdle, imInit, imLogDownload
<1>11. ReadOK(v)
  <2>1. SameRecord(w.im, v.im)
    BY <1>5, <1>8
  <2> QED BY <1>1, <1>8, <2>1, ReadKept
<1>12. DownloadOK(v, j)
  BY <1>3, <1>5, <1>8 DEF DownloadOK, SameRecord, Live
<1>13. AnswerOK(v, j)
  BY <1>3, <1>5, <1>8 DEF AnswerOK
<1> QED BY <1>1, <1>3, <1>5, <1>8, <1>9, <1>10, <1>11, <1>12, <1>13 DEF Fit, SameRecord

(* The answers that are not records.                                       *)
LEMMA AnswerSet ==
  ASSUME NEW w \in Infos
  PROVE  Answer(w) = [w EXCEPT !.im = [w.im EXCEPT !.WrBuffer = w.im.FuncState,
                                                  !.Index = w.im.Index + DATA,
                                                  !.CanSendData = TRUE]]
  BY DEF Answer, Infos

LEMMA AnswerFit ==
  ASSUME NEW w, NEW j, Fit(w, j), NEW v, v = DownloadFunc(w), ~w.im.CanSendData,
         w.im.FuncState \in {2, 3, 4, 5, 6, 7, 8, 9, 10, 12}
  PROVE  /\ Fit(v, j) /\ v.im.ControlMode = w.im.ControlMode /\ v.bt = w.bt
         /\ v.cells = w.cells
<1> DEFINE p == w.im
           q == [p EXCEPT !.WrBuffer = p.FuncState, !.Index = p.Index + DATA,
                          !.CanSendData = TRUE]
           f == Function(w)
<1>1. w \in Infos /\ j \in Jobs /\ LinkOK(w) /\ LineOK(w, j) /\ DownloadOK(w, j)
      /\ ReadOK(w) /\ AnswerOK(w, j)
  BY DEF Fit
<1>2. p \in Ims /\ w.bt \in Bts
  BY <1>1, WorldTypes
<1>3. /\ p.IsLogTransmit = FALSE /\ ~p.IsBufReady /\ ~Live(p) /\ p.RdBuffer[0] = 0
      /\ j.request[1] # 5 /\ p.FuncState \notin {imIdle, imInit, imLogDownload}
  <2>1. p.FuncState \notin {imIdle, imInit, imLogDownload}
    BY DEF imIdle, imInit, imLogDownload
  <2> QED BY <1>1, <1>2, <2>1 DEF LineOK, DownloadOK, Ims
<1>4. f = [w EXCEPT !.im = q]
  <2>1. f = Answer(w)
    BY <1>3 DEF Function
  <2> QED BY <1>1, <2>1, AnswerSet
<1>5. q \in Ims /\ q.CanSendData
  <2>1. p.Index + DATA \in Nat /\ p.FuncState \in Answers
    <3>1. p.Index \in Nat /\ p.FuncState \in Nat
      BY <1>2 DEF Ims
    <3>2. DATA \in Nat
      BY InfoAssumption
    <3> QED BY <3>1, <3>2 DEF Answers
  <2> QED BY <1>2, <2>1 DEF Ims
<1>6. /\ SameRecord(p, q) /\ q.FuncState = p.FuncState
      /\ q.IsLogTransmit = p.IsLogTransmit /\ q.IsBufReady = p.IsBufReady
  BY <1>2 DEF Ims, SameRecord
<1> HIDE DEF q, f
<1>7. f \in Infos /\ f.im = q /\ f.mem = w.mem /\ f.bt = w.bt /\ f.cells = w.cells
  BY <1>1, <1>4, <1>5, ImSet
<1>8. v = Closed(f)
  BY <1>5, <1>7, DownloadEnds DEF f
<1>9. /\ v \in Infos /\ v.bt = f.bt /\ v.mem = f.mem /\ v.cells = f.cells /\ v.rx = FALSE
      /\ SameRecord(f.im, v.im)
      /\ v.im.Index = f.im.Index /\ v.im.CanSendData = f.im.CanSendData
      /\ v.im.IsLogTransmit = f.im.IsLogTransmit /\ v.im.IsBufReady = f.im.IsBufReady
      /\ v.im.WrBuffer = f.im.WrBuffer
      /\ v.im.FuncState = IF f.im.IsLogTransmit THEN f.im.FuncState ELSE imIdle
  BY <1>7, <1>8, ClosedFields
<1>10. SameRecord(w.im, v.im) /\ v.im.FuncState = imIdle /\ v.im.IsLogTransmit = FALSE
       /\ ~v.im.IsBufReady /\ v.im.CanSendData /\ v.im.RdBuffer = w.im.RdBuffer
  BY <1>3, <1>5, <1>6, <1>7, <1>9 DEF SameRecord
<1>11. LinkOK(v)
  <2>1. ~(w.bt.State <= 6)
    BY <1>1, <1>3 DEF LinkOK
  <2> QED BY <1>1, <1>7, <1>9, <2>1, LinkKept
<1>12. LineOK(v, j)
  BY <1>3, <1>9, <1>10 DEF LineOK
<1>13. DownloadOK(v, j)
  BY <1>3, <1>10 DEF DownloadOK, Live, SameRecord
<1>14. ReadOK(v)
  BY <1>1, <1>7, <1>9, <1>10, ReadKept
<1>15. AnswerOK(v, j)
  BY <1>3 DEF AnswerOK
<1> QED BY <1>1, <1>7, <1>9, <1>10, <1>11, <1>12, <1>13, <1>14, <1>15 DEF Fit, SameRecord

(* Nothing to do for DownloadFunc.                                         *)
LEMMA NothingToDo ==
  ASSUME NEW w, NEW v, v = DownloadFunc(w), ~w.im.CanSendData,
         w.im.FuncState \notin {imInit, 2, 3, 4, 5, 6, 7, 8, 9, 10, 12},
         ~(w.im.FuncState = imLogDownload /\ w.im.CurrentLogCnt > 0)
  PROVE  v = w
<1>1. Function(w) = w
  BY DEF Function, imInit, imLogDownload
<1> QED BY <1>1, DownloadEnds

(* The memory is busy, or all that was asked for is sent.                  *)
LEMMA WaitFit ==
  ASSUME NEW w, NEW j, Fit(w, j), NEW v, v = DownloadFunc(w), ~w.im.CanSendData,
         w.im.FuncState = imLogDownload, w.im.CurrentLogCnt > 0,
         ~w.im.CanReadNextRec \/ w.mem # Free
  PROVE  /\ Fit(v, j) /\ v.im.ControlMode = w.im.ControlMode /\ v.bt = w.bt
         /\ ~v.im.CanSendData
         /\ v.cells = w.cells
<1> DEFINE p == w.im
           q == [p EXCEPT !.IsLogTransmit = TRUE]
           a == [w EXCEPT !.im.IsLogTransmit = TRUE]
<1>1. w \in Infos /\ j \in Jobs /\ LinkOK(w) /\ LineOK(w, j) /\ DownloadOK(w, j)
      /\ ReadOK(w) /\ AnswerOK(w, j)
  BY DEF Fit
<1>2. p \in Ims
  BY <1>1, WorldTypes
<1>3. /\ q \in Ims /\ SameRecord(p, q) /\ q.FuncState = p.FuncState /\ q.IsLogTransmit
      /\ q.CanSendData = p.CanSendData /\ q.Index = p.Index
      /\ q.IsBufReady = p.IsBufReady
  BY <1>2 DEF Ims, SameRecord
<1>4. a = [w EXCEPT !.im = q]
  BY <1>1 DEF Infos
<1> HIDE DEF q, a
<1>5. /\ a \in Infos /\ a.im = q
      /\ a.rx = w.rx /\ a.mem = w.mem /\ a.bt = w.bt /\ a.cells = w.cells
  BY <1>1, <1>3, <1>4, ImSet
<1>6. Function(w) = FuncFive(w)
  BY DEF Function, imInit, imLogDownload
<1>7. FuncFive(w) = a
  <2>1. ~a.im.CanReadNextRec \/ a.mem # Free
    BY <1>3, <1>5 DEF SameRecord
  <2>2. ImBufferReader(a, w.im.RdBuffer[1], w.im.CurrentLogRec) = a
    BY <2>1 DEF ImBufferReader
  <2>3. ~a.im.IsBufReady
    BY <1>1, <1>3, <1>5 DEF LineOK
  <2> QED BY <2>2, <2>3 DEF FuncFive, a
<1>8. v = a
  BY <1>3, <1>5, <1>6, <1>7, DownloadEnds
<1>9. ~(w.bt.State <= 6)
  BY <1>1 DEF LinkOK, imInit, imIdle, imLogDownload
<1>10. LinkOK(v)
  BY <1>1, <1>5, <1>8, <1>9, LinkKept
<1>11. LineOK(v, j)
  BY <1>1, <1>3, <1>5, <1>8 DEF LineOK, SameRecord, imInit, imIdle, imLogDownload
<1>12. SameRecord(w.im, v.im)
  BY <1>3, <1>5, <1>8
<1>13. DownloadOK(v, j)
  <2>1. /\ (Live(v.im) <=> Live(w.im)) /\ Journal(v.im) = Journal(w.im)
        /\ v.im.CurrentLogRec = w.im.CurrentLogRec /\ v.im.CurrentLogCnt = w.im.CurrentLogCnt
    BY <1>12 DEF SameRecord, Live, Journal
  <2> QED BY <1>1, <1>3, <1>5, <1>8, <2>1 DEF DownloadOK
<1>14. ReadOK(v)
  BY <1>1, <1>5, <1>8, <1>12, ReadKept
<1>15. AnswerOK(v, j)
  BY <1>3, <1>5, <1>8 DEF AnswerOK
<1> QED BY <1>1, <1>3, <1>5, <1>8, <1>10, <1>11, <1>12, <1>13, <1>14, <1>15 DEF Fit, SameRecord

LEMMA WordsAreParts ==
  ASSUME NEW log, NEW r
  PROVE  Words(log, r) \subseteq Parts
  BY DEF Words, Parts, IM_LOGEV_TYPE, IM_LOGCMD_TYPE, IM_LOGPARAMS_TYPE

(* The record in the buffer of the readings.                               *)
Sent(w) ==
  [rec |-> w.im.CurrentLogRec,
   words |-> [x \in Words(Journal(w.im), w.im.CurrentLogRec) |-> w.cells[x]]]

LEMMA SentIsAnswer ==
  ASSUME NEW w \in Infos
  PROVE  Sent(w) \in Answers
<1> DEFINE part == Words(Journal(w.im), w.im.CurrentLogRec)
           words == [x \in part |-> w.cells[x]]
<1>1. part \in SUBSET Parts
  BY WordsAreParts
<1>2. w.cells \in [Parts -> Seq(Nat)] /\ w.im.CurrentLogRec \in Nat
  BY WorldTypes DEF Cells, Ims
<1> HIDE DEF part
<1>3. words \in [part -> Seq(Nat)]
  BY <1>1, <1>2
<1>4. words \in UNION {[s -> Seq(Nat)] : s \in SUBSET Parts}
  BY <1>1, <1>3
<1>5. Sent(w) = [rec |-> w.im.CurrentLogRec, words |-> words]
  BY DEF Sent, part
<1> HIDE DEF words
<1> QED BY <1>2, <1>4, <1>5 DEF Answers

(* The record is complete.                                                 *)
RecordRead(w) ==
  IF Journal(w.im) = IM_LOGEV_TYPE THEN w.im.EvLogBufCellRead
  ELSE w.im.PrevRecNum = w.im.CurrentLogRec

IsLast(p) == p.CurrentLogRec + 1 >= p.CurrentLogCnt

LEMMA RecordTaken ==
  ASSUME NEW w \in Infos, ReadOK(w), Live(w.im), w.mem = Free, RecordRead(w),
         w.im.IsBufReady = FALSE,
         NEW z, z = [w.im EXCEPT !.EvLogBufCellRead = FALSE, !.IsBufReady = FALSE,
                                 !.CanSendData = TRUE, !.Index = w.im.Index + DATA,
                                 !.WrBuffer = Sent(w),
                                 !.CurrentLogRec = w.im.CurrentLogRec + 1,
                                 !.CanReadNextRec = ~IsLast(w.im),
                                 !.IsLogTransmit = ~IsLast(w.im),
                                 !.FuncState = IF IsLast(w.im) THEN imInit
                                               ELSE w.im.FuncState]
  PROVE  FuncFive(w) = [w EXCEPT !.im = z]
<1> DEFINE p == w.im
           type == p.RdBuffer[1]
           rec == p.CurrentLogRec
           a == [w EXCEPT !.im.IsLogTransmit = TRUE]
           b == [p EXCEPT !.IsLogTransmit = TRUE, !.EvLogBufCellRead = FALSE,
                          !.CanReadNextRec = FALSE, !.IsBufReady = TRUE]
           r == [w EXCEPT !.im = b]
<1>1. p \in Ims
  BY WorldTypes
<1>2. Stage(w, type, rec) /\ p.CanReadNextRec
  BY DEF ReadOK, Live, Journal
<1>3. p.PrevRecNum = rec
  BY <1>2 DEF Stage, EventStage, RecordRead, Journal
<1>4. type # IM_LOGEV_TYPE => p.EvLogBufCellRead = FALSE
  BY <1>1, <1>2 DEF Stage, OtherStage, Ims
<1>5. a \in Infos /\ a.im = [p EXCEPT !.IsLogTransmit = TRUE] /\ a.mem = Free
  BY <1>1 DEF Infos, Ims
<1>6. a.im.CanReadNextRec /\ a.im.PrevRecNum = rec /\ a.im.EvLogBufCellRead = p.EvLogBufCellRead
  BY <1>1, <1>2, <1>3, <1>5 DEF Ims
<1>7. ImBufferReader(a, type, rec) = r
  <2>1. CASE type = IM_LOGEV_TYPE
    <3>1. a.im.EvLogBufCellRead
      BY <1>6, <2>1 DEF RecordRead, Journal
    <3>2. ImBufferReader(a, type, rec) = BufReady([a EXCEPT !.im.EvLogBufCellRead = FALSE])
      <4> HIDE DEF a
      <4> QED BY <1>5, <1>6, <2>1, <3>1 DEF ImBufferReader
    <3>3. BufReady([a EXCEPT !.im.EvLogBufCellRead = FALSE]) = r
      BY <1>1 DEF BufReady, Infos, Ims
    <3> QED BY <3>2, <3>3
  <2>2. CASE type # IM_LOGEV_TYPE
    <3>1. ImBufferReader(a, type, rec) = BufReady(a)
      <4> HIDE DEF a
      <4> QED BY <1>5, <1>6, <2>2 DEF ImBufferReader
    <3>2. BufReady(a) = [w EXCEPT !.im.IsLogTransmit = TRUE, !.im.CanReadNextRec = FALSE,
                                  !.im.IsBufReady = TRUE]
      BY <1>1 DEF BufReady, Infos, Ims
    <3>3. b = [p EXCEPT !.IsLogTransmit = TRUE, !.CanReadNextRec = FALSE, !.IsBufReady = TRUE]
      BY <1>1, <1>4, <2>2 DEF Ims
    <3> QED BY <3>1, <3>2, <3>3 DEF Infos
  <2> QED BY <2>1, <2>2
<1>8. b \in Ims /\ b.IsBufReady /\ b.CurrentLogRec = rec /\ b.RdBuffer = p.RdBuffer
      /\ b.CurrentLogCnt = p.CurrentLogCnt
  BY <1>1 DEF Ims
<1>9. r.im = b /\ r.cells = w.cells
  BY DEF Infos
<1>10. FuncFive(w) = RecordAnswer(r, type, rec)
  <2>1. FuncFive(w) = IF r.im.IsBufReady THEN RecordAnswer(r, type, r.im.CurrentLogRec) ELSE r
    <3> HIDE DEF r
    <3> QED BY <1>7 DEF FuncFive
  <2> HIDE DEF r, b
  <2> QED BY <1>8, <1>9, <2>1
<1>11. RecordAnswer(r, type, rec)
         = [r EXCEPT !.im =
             [b EXCEPT !.IsBufReady = FALSE, !.CanSendData = TRUE, !.Index = b.Index + DATA,
                       !.WrBuffer = Sent(w), !.CurrentLogRec = b.CurrentLogRec + 1,
                       !.CanReadNextRec = ~IsLast(p), !.IsLogTransmit = ~IsLast(p),
                       !.FuncState = IF IsLast(p) THEN imInit ELSE b.FuncState]]
  <2> HIDE DEF r, b
  <2> QED BY <1>8, <1>9 DEF RecordAnswer, Sent, IsLast, Journal
<1>12. z = [b EXCEPT !.IsBufReady = FALSE, !.CanSendData = TRUE, !.Index = b.Index + DATA,
                     !.WrBuffer = Sent(w), !.CurrentLogRec = b.CurrentLogRec + 1,
                     !.CanReadNextRec = ~IsLast(p), !.IsLogTransmit = ~IsLast(p),
                     !.FuncState = IF IsLast(p) THEN imInit ELSE b.FuncState]
  <2> DEFINE last == IsLast(p)
             answer == Sent(w)
             n == p.Index + DATA
             next == p.CurrentLogRec + 1
             s == IF last THEN imInit ELSE p.FuncState
  <2>1. z = [p EXCEPT !.EvLogBufCellRead = FALSE, !.IsBufReady = FALSE, !.CanSendData = TRUE,
                      !.Index = n, !.WrBuffer = answer, !.CurrentLogRec = next,
                      !.CanReadNextRec = ~last, !.IsLogTransmit = ~last, !.FuncState = s]
    OBVIOUS
  <2>2. b.Index = p.Index /\ b.CurrentLogRec = p.CurrentLogRec /\ b.FuncState = p.FuncState
    BY <1>1 DEF Ims
  <2> HIDE DEF last, answer, n, next, s
  <2>3. z = [b EXCEPT !.IsBufReady = FALSE, !.CanSendData = TRUE, !.Index = n,
                      !.WrBuffer = answer, !.CurrentLogRec = next,
                      !.CanReadNextRec = ~last, !.IsLogTransmit = ~last, !.FuncState = s]
    BY <1>1, <2>1 DEF Ims
  <2> HIDE DEF b
  <2> QED BY <2>2, <2>3 DEF last, answer, n, next, s
<1> HIDE DEF b
<1> QED BY <1>10, <1>11, <1>12 DEF Infos

(* A complete record is one record of the journal asked for.               *)
LEMMA RecordComplete ==
  ASSUME NEW w \in Infos, ReadOK(w), Live(w.im), w.mem = Free, RecordRead(w)
  PROVE  /\ w.im.PrevRecNum = w.im.CurrentLogRec /\ ~w.im.EvLogMainCellRead
         /\ Sent(w).words = [x \in Words(Journal(w.im), w.im.CurrentLogRec) |->
                               <<Journal(w.im), w.im.CurrentLogRec>>]
<1> DEFINE log == Journal(w.im)
           r == w.im.CurrentLogRec
<1>1. Stage(w, log, r)
  BY DEF ReadOK
<1>2. \A part : Fetched(w, part, log, r) => Have(w, part, log, r)
  <2>1. \A part : w.mem # <<part, log, r>>
    BY DEF Free
  <2> QED BY <2>1 DEF Fetched
<1>3. w.im.PrevRecNum = r /\ ~w.im.EvLogMainCellRead
  BY <1>1 DEF Stage, EventStage, OtherStage, RecordRead
<1>4. Have(w, Words(log, r), log, r)
  <2>1. CASE log = IM_LOGEV_TYPE
    <3>1. Fetched(w, CellPart(log, r), log, r) /\ Have(w, MainPart(log, r), log, r)
      BY <1>1, <2>1 DEF Stage, EventStage, RecordRead
    <3>2. Have(w, CellPart(log, r), log, r) /\ Have(w, MainPart(log, r), log, r)
      BY <1>2, <3>1
    <3> QED BY <3>2 DEF Have, CellPart, MainPart
  <2>2. CASE log # IM_LOGEV_TYPE
    <3>1. Fetched(w, Words(log, r), log, r)
      BY <1>1, <1>3, <2>2 DEF Stage, OtherStage
    <3> QED BY <1>2, <3>1
  <2> QED BY <2>1, <2>2
<1>5. \A x \in Words(log, r) : w.cells[x] = <<log, r>>
  BY <1>4 DEF Have
<1> QED BY <1>3, <1>5 DEF Sent

LEMMA JobNext ==
  ASSUME NEW j \in Jobs, NEW i, i = [j EXCEPT !.next = @ + 1]
  PROVE  i \in Jobs /\ i.request = j.request /\ i.next = j.next + 1
  BY DEF Jobs

LEMMA RecordFit ==
  ASSUME NEW w, NEW j, Fit(w, j), NEW v, v = DownloadFunc(w), ~w.im.CanSendData,
         w.im.FuncState = imLogDownload, w.im.CurrentLogCnt > 0,
         w.im.CanReadNextRec, w.mem = Free, RecordRead(w),
         NEW i, i = IF w.im.Index = 0 THEN [j EXCEPT !.next = @ + 1] ELSE j
  PROVE  /\ Fit(v, i) /\ v.im.ControlMode = w.im.ControlMode /\ v.bt = w.bt
         /\ v.im.CanSendData
         /\ v.cells = w.cells
<1> DEFINE p == w.im
           last == IsLast(p)
           s == IF last THEN imInit ELSE p.FuncState
           z == [p EXCEPT !.EvLogBufCellRead = FALSE, !.IsBufReady = FALSE,
                          !.CanSendData = TRUE, !.Index = p.Index + DATA, !.WrBuffer = Sent(w),
                          !.CurrentLogRec = p.CurrentLogRec + 1, !.CanReadNextRec = ~last,
                          !.IsLogTransmit = ~last, !.FuncState = s]
           f == Function(w)
<1>1. w \in Infos /\ j \in Jobs /\ LinkOK(w) /\ LineOK(w, j) /\ DownloadOK(w, j)
      /\ ReadOK(w) /\ AnswerOK(w, j)
  BY DEF Fit
<1>2. p \in Ims /\ Live(p) /\ p.IsBufReady = FALSE
  BY <1>1, WorldTypes DEF Live, LineOK, Ims
<1>3. f = [w EXCEPT !.im = z]
  <2>1. f = FuncFive(w)
    BY DEF Function, imInit, imLogDownload
  <2>2. FuncFive(w) = [w EXCEPT !.im = z]
    BY <1>1, <1>2, RecordTaken
  <2> QED BY <2>1, <2>2
<1>4. last \in BOOLEAN /\ (last <=> p.CurrentLogRec + 1 >= p.CurrentLogCnt)
  BY DEF IsLast
<1>5. p.Index + DATA \in Nat /\ p.CurrentLogRec + 1 \in Nat /\ s \in Nat /\ Sent(w) \in Answers
      /\ p.CurrentLogRec \in Nat /\ p.CurrentLogCnt \in Nat /\ p.Index \in Nat
  <2>1. Sent(w) \in Answers
    BY <1>1, SentIsAnswer
  <2>2. DATA \in Nat
    BY InfoAssumption
  <2>3. p.FuncState \in Nat /\ p.CurrentLogRec \in Nat /\ p.CurrentLogCnt \in Nat /\ p.Index \in Nat
    BY <1>2 DEF Ims
  <2> QED BY <2>1, <2>2, <2>3 DEF imInit
<1> HIDE DEF last, s
<1>6. /\ z \in Ims
      /\ z.EvLogBufCellRead = FALSE /\ z.IsBufReady = FALSE /\ z.CanSendData = TRUE
      /\ z.Index = p.Index + DATA /\ z.WrBuffer = Sent(w)
      /\ z.CurrentLogRec = p.CurrentLogRec + 1
      /\ z.CanReadNextRec = ~last /\ z.IsLogTransmit = ~last /\ z.FuncState = s
      /\ z.CurrentLogCnt = p.CurrentLogCnt /\ z.RdBuffer = p.RdBuffer
      /\ z.PrevRecNum = p.PrevRecNum /\ z.EvLogMainCellRead = p.EvLogMainCellRead
      /\ z.ControlMode = p.ControlMode
  <2> DEFINE n == p.Index + DATA
             rec == p.CurrentLogRec + 1
             answer == Sent(w)
  <2>1. z = [p EXCEPT !.EvLogBufCellRead = FALSE, !.IsBufReady = FALSE,
                      !.CanSendData = TRUE, !.Index = n, !.WrBuffer = answer,
                      !.CurrentLogRec = rec, !.CanReadNextRec = ~last,
                      !.IsLogTransmit = ~last, !.FuncState = s]
    OBVIOUS
  <2>2. n \in Nat /\ rec \in Nat /\ answer \in Answers
    BY <1>5
  <2> HIDE DEF z, n, rec, answer
  <2>3. /\ z \in Ims
        /\ z.EvLogBufCellRead = FALSE /\ z.IsBufReady = FALSE /\ z.CanSendData = TRUE
        /\ z.Index = n /\ z.WrBuffer = answer /\ z.CurrentLogRec = rec
    BY <1>2, <1>4, <1>5, <2>1, <2>2 DEF Ims
  <2>4. /\ z.CanReadNextRec = ~last /\ z.IsLogTransmit = ~last /\ z.FuncState = s
        /\ z.CurrentLogCnt = p.CurrentLogCnt /\ z.RdBuffer = p.RdBuffer
        /\ z.PrevRecNum = p.PrevRecNum /\ z.EvLogMainCellRead = p.EvLogMainCellRead
        /\ z.ControlMode = p.ControlMode
    BY <1>2, <2>1 DEF Ims
  <2> QED BY <2>3, <2>4 DEF n, rec, answer
<1> HIDE DEF z, f
<1>7. f \in Infos /\ f.im = z /\ f.mem = w.mem /\ f.bt = w.bt /\ f.cells = w.cells
  BY <1>1, <1>3, <1>6, ImSet
<1>8. v = Closed(f)
  BY <1>6, <1>7, DownloadEnds DEF f
<1>9. /\ v \in Infos /\ v.bt = f.bt /\ v.mem = f.mem /\ v.cells = f.cells /\ v.rx = FALSE
      /\ SameRecord(f.im, v.im)
      /\ v.im.Index = f.im.Index /\ v.im.CanSendData = f.im.CanSendData
      /\ v.im.IsLogTransmit = f.im.IsLogTransmit /\ v.im.IsBufReady = f.im.IsBufReady
      /\ v.im.WrBuffer = f.im.WrBuffer
      /\ v.im.FuncState = IF f.im.IsLogTransmit THEN f.im.FuncState ELSE imIdle
  BY <1>7, <1>8, ClosedFields
<1>10. /\ v.bt = w.bt /\ v.mem = Free /\ v.cells = w.cells /\ v.rx = FALSE
       /\ v.im.IsLogTransmit = ~last /\ ~v.im.IsBufReady /\ v.im.CanSendData
       /\ v.im.Index = p.Index + DATA /\ v.im.WrBuffer = Sent(w)
  BY <1>6, <1>7, <1>9
<1>11. v.im.FuncState = IF last THEN imIdle ELSE imLogDownload
  BY <1>4, <1>6, <1>7, <1>9 DEF s
<1>12. /\ v.im.RdBuffer = p.RdBuffer /\ v.im.ControlMode = p.ControlMode
       /\ v.im.CurrentLogRec = p.CurrentLogRec + 1 /\ v.im.CurrentLogCnt = p.CurrentLogCnt
       /\ v.im.CanReadNextRec = ~last /\ v.im.PrevRecNum = p.PrevRecNum
       /\ v.im.EvLogMainCellRead = p.EvLogMainCellRead /\ v.im.EvLogBufCellRead = FALSE
  BY <1>6, <1>7, <1>9 DEF SameRecord
<1>13. /\ j.request[2] = Journal(p) /\ p.CurrentLogRec < p.CurrentLogCnt /\ p.CurrentLogCnt > 1
       /\ j.next = (IF p.CurrentLogRec = 0 THEN 0 ELSE p.CurrentLogRec - 1)
       /\ p.CurrentLogRec = 0 => p.Index > 1
       /\ p.CurrentLogRec > 0 => p.Index = 0
  BY <1>1, <1>2 DEF DownloadOK
<1>14. i \in Jobs /\ i.request = j.request /\ i.next = p.CurrentLogRec
  <2>1. CASE p.CurrentLogRec = 0
    BY <1>1, <1>13, <2>1
  <2>2. CASE p.CurrentLogRec # 0
    BY <1>1, <1>5, <1>13, <2>2, JobNext
  <2> QED BY <2>1, <2>2
<1>15. /\ p.PrevRecNum = p.CurrentLogRec /\ ~p.EvLogMainCellRead
       /\ Sent(w).words = [x \in Words(Journal(p), p.CurrentLogRec) |->
                             <<Journal(p), p.CurrentLogRec>>]
  BY <1>1, <1>2, RecordComplete
<1>16. LinkOK(v)
  <2>1. ~(w.bt.State <= 6)
    BY <1>1 DEF LinkOK, imInit, imIdle, imLogDownload
  <2> QED BY <1>1, <1>10, <2>1, LinkKept
<1>17. p.RdBuffer[0] = 0
  BY <1>1 DEF LineOK, imInit, imIdle, imLogDownload
<1>18. LineOK(v, i)
  BY <1>4, <1>10, <1>11, <1>12, <1>17 DEF LineOK, imInit, imIdle, imLogDownload
<1>19. DownloadOK(v, i)
  <2>1. Live(v.im) => ~last
    BY <1>12 DEF Live
  <2>2. Journal(v.im) = Journal(p)
    BY <1>12 DEF Journal
  <2>3. ~last => p.CurrentLogRec + 1 < p.CurrentLogCnt
    BY <1>4, <1>5
  <2>4. v.im.CurrentLogRec > 0 /\ v.im.CurrentLogRec - 1 = p.CurrentLogRec
    BY <1>5, <1>12
  <2>5. ~last => v.im.FuncState = imLogDownload /\ v.im.CurrentLogRec < v.im.CurrentLogCnt
    BY <1>11, <1>12, <2>3
  <2>6. i.next = (IF v.im.CurrentLogRec = 0 THEN 0 ELSE v.im.CurrentLogRec - 1)
    BY <1>5, <1>12, <1>14
  <2>7. v.im.CurrentLogRec # 0 /\ v.im.CurrentLogCnt > 1 /\ i.request[2] = Journal(v.im)
    BY <1>5, <1>12, <1>13, <1>14, <2>2
  <2> QED BY <1>10, <2>1, <2>4, <2>5, <2>6, <2>7 DEF DownloadOK
<1>20. NotReading(v)
  BY <1>10 DEF NotReading
<1>21. ReadOK(v)
  <2>1. CASE ~Live(v.im)
    <3>1. last
      BY <1>2, <1>4, <1>12, <2>1 DEF Live
    <3>2. p.CurrentLogRec # 0
      BY <1>4, <1>5, <1>13, <3>1
    <3> QED BY <1>12, <1>15, <1>20, <2>1, <3>2 DEF ReadOK
  <2>2. CASE Live(v.im)
    <3>1. v.im.PrevRecNum # v.im.CurrentLogRec
      BY <1>5, <1>12, <1>15
    <3>2. Stage(v, Journal(v.im), v.im.CurrentLogRec)
      BY <1>12, <1>15, <1>20, <3>1 DEF Stage, EventStage, OtherStage
    <3> QED BY <2>2, <3>2 DEF ReadOK
  <2> QED BY <2>1, <2>2
<1>22. AnswerOK(v, i)
  <2>1. Sent(w).rec = p.CurrentLogRec
    BY DEF Sent
  <2> QED BY <1>10, <1>13, <1>14, <1>15, <2>1 DEF AnswerOK
<1>23. Fit(v, i)
  BY <1>9, <1>14, <1>16, <1>18, <1>19, <1>21, <1>22 DEF Fit
<1> QED BY <1>10, <1>12, <1>23

LEMMA BeginsReading ==
  ASSUME NEW w, NEW part, NEW log, NEW r,
         w.mem = IF part = {} THEN Free ELSE <<part, log, r>>
  PROVE  Fetched(w, part, log, r)
<1>1. CASE part = {}
  BY <1>1 DEF Fetched, NotReading, Have
<1>2. CASE part # {}
  BY <1>2 DEF Fetched
<1> QED BY <1>1, <1>2

(* A part of the record is asked for.                                      *)
LEMMA BeginFit ==
  ASSUME NEW w, NEW j, Fit(w, j), NEW v, v = DownloadFunc(w), ~w.im.CanSendData,
         w.im.FuncState = imLogDownload, w.im.CurrentLogCnt > 0,
         w.im.CanReadNextRec, w.mem = Free, ~RecordRead(w)
  PROVE  /\ Fit(v, j) /\ v.im.ControlMode = w.im.ControlMode /\ v.bt = w.bt
         /\ ~v.im.CanSendData /\ v.im # w.im
         /\ v.cells = w.cells
<1> DEFINE p == w.im
           log == p.RdBuffer[1]
           r == p.CurrentLogRec
           a == [w EXCEPT !.im.IsLogTransmit = TRUE]
           second == log = IM_LOGEV_TYPE /\ p.EvLogMainCellRead
           part == CASE log # IM_LOGEV_TYPE -> Words(log, r)
                     [] log = IM_LOGEV_TYPE /\ p.EvLogMainCellRead -> CellPart(log, r)
                     [] OTHER -> MainPart(log, r)
           main == IF log = IM_LOGEV_TYPE THEN ~p.EvLogMainCellRead ELSE p.EvLogMainCellRead
           cell == IF second THEN TRUE ELSE p.EvLogBufCellRead
           q == [p EXCEPT !.IsLogTransmit = TRUE, !.PrevRecNum = r,
                          !.EvLogMainCellRead = main, !.EvLogBufCellRead = cell]
           m == IF part = {} THEN Free ELSE <<part, log, r>>
           f == Function(w)
<1>1. w \in Infos /\ j \in Jobs /\ LinkOK(w) /\ LineOK(w, j) /\ DownloadOK(w, j)
      /\ ReadOK(w) /\ AnswerOK(w, j)
  BY DEF Fit
<1>2. p \in Ims /\ Live(p) /\ p.IsBufReady = FALSE
  BY <1>1, WorldTypes DEF Live, LineOK, Ims
<1>3. Stage(w, log, r)
  BY <1>1, <1>2 DEF ReadOK, Journal
<1>4. log \in Nat /\ r \in Nat /\ p.EvLogMainCellRead \in BOOLEAN /\ p.EvLogBufCellRead \in BOOLEAN
  BY <1>2, BufferBytes DEF Ims
<1>5. a.im = [p EXCEPT !.IsLogTransmit = TRUE] /\ a.mem = Free
  BY <1>1 DEF Infos
<1>6. /\ a.im.CanReadNextRec /\ a.im.PrevRecNum = p.PrevRecNum /\ a.im.IsBufReady = FALSE
      /\ a.im.EvLogMainCellRead = p.EvLogMainCellRead
      /\ a.im.EvLogBufCellRead = p.EvLogBufCellRead
  BY <1>2, <1>5 DEF Ims
<1>7. IF log = IM_LOGEV_TYPE THEN ~p.EvLogBufCellRead ELSE p.PrevRecNum # r
  BY DEF RecordRead, Journal
<1>8. ImBufferReader(a, log, r) = BeginRead(a, log, r)
  <2> HIDE DEF a
  <2> QED BY <1>5, <1>6, <1>7 DEF ImBufferReader
<1>9. BeginRead(a, log, r) = [w EXCEPT !.mem = m, !.im = q]
  <2>1. BeginRead(a, log, r)
          = [a EXCEPT !.mem = IF part = {} THEN Free ELSE <<part, log, r>>,
                      !.im.PrevRecNum = r, !.im.EvLogMainCellRead = main,
                      !.im.EvLogBufCellRead = cell]
    <3> HIDE DEF a
    <3> QED BY <1>5, <1>6 DEF BeginRead, CellPart, MainPart
  <2> HIDE DEF part, main, cell
  <2> QED BY <1>1, <1>2, <2>1 DEF Infos, Ims
<1>10. FuncFive(w) = BeginRead(a, log, r)
  <2> DEFINE b == BeginRead(a, log, r)
  <2>1. b.im.IsBufReady = FALSE
    <3>1. b.im = q
      <4> HIDE DEF q, m, b
      <4> QED BY <1>1, <1>9 DEF b, Infos
    <3> QED BY <1>2, <3>1 DEF Ims
  <2>2. FuncFive(w) = IF b.im.IsBufReady THEN RecordAnswer(b, log, b.im.CurrentLogRec) ELSE b
    <3> HIDE DEF b
    <3> QED BY <1>8 DEF FuncFive, b
  <2> HIDE DEF b
  <2> QED BY <2>1, <2>2 DEF b
<1>11. f = [w EXCEPT !.mem = m, !.im = q]
  <2>1. f = FuncFive(w)
    BY DEF Function, imInit, imLogDownload
  <2> HIDE DEF f, q, m, a
  <2> QED BY <1>9, <1>10, <2>1
<1>12. part \in SUBSET Parts /\ main \in BOOLEAN /\ cell \in BOOLEAN
  BY <1>4, WordsAreParts DEF MainPart, CellPart
<1> HIDE DEF part
<1>13. m \in Mems
  BY <1>4, <1>12 DEF Mems
<1>14. /\ q \in Ims /\ q.IsLogTransmit = TRUE /\ q.PrevRecNum = r
       /\ q.EvLogMainCellRead = main /\ q.EvLogBufCellRead = cell
  <2> HIDE DEF main, cell, r
  <2> QED BY <1>2, <1>4, <1>12 DEF Ims
<1>15. /\ q.CanSendData = p.CanSendData /\ q.Index = p.Index /\ q.FuncState = p.FuncState
       /\ q.IsBufReady = p.IsBufReady /\ q.RdBuffer = p.RdBuffer
       /\ q.CurrentLogRec = p.CurrentLogRec /\ q.CurrentLogCnt = p.CurrentLogCnt
       /\ q.CanReadNextRec = p.CanReadNextRec /\ q.ControlMode = p.ControlMode
  <2> HIDE DEF main, cell, r
  <2> QED BY <1>2 DEF Ims
<1> HIDE DEF q, m, f
<1>16. f \in Infos /\ f.im = q /\ f.mem = m /\ f.rx = w.rx /\ f.bt = w.bt /\ f.cells = w.cells
  BY <1>1, <1>11, <1>13, <1>14 DEF Infos
<1>17. v = f
  BY <1>15, <1>16, DownloadEnds DEF f
<1>18. v \in Infos /\ v.im = q /\ v.mem = m /\ v.rx = w.rx /\ v.bt = w.bt /\ v.cells = w.cells
  BY <1>16, <1>17
<1>19. Live(q) /\ Journal(q) = log
  BY <1>2, <1>15 DEF Live, Journal
<1>20. LinkOK(v)
  <2>1. ~(w.bt.State <= 6)
    BY <1>1 DEF LinkOK, imInit, imIdle, imLogDownload
  <2> QED BY <1>1, <1>18, <2>1, LinkKept
<1>21. LineOK(v, j)
  BY <1>1, <1>14, <1>15, <1>18 DEF LineOK, imInit, imIdle, imLogDownload
<1>22. DownloadOK(v, j)
  BY <1>1, <1>2, <1>14, <1>15, <1>18, <1>19 DEF DownloadOK, Journal
<1>23. Fetched(v, part, log, r)
  BY <1>18, BeginsReading DEF m
<1>24. Stage(v, log, r)
  <2>1. CASE log # IM_LOGEV_TYPE
    <3>1. part = Words(log, r)
      BY <2>1 DEF part
    <3>2. ~v.im.EvLogMainCellRead /\ ~v.im.EvLogBufCellRead
      BY <1>3, <1>14, <1>18, <2>1 DEF Stage, OtherStage
    <3>3. v.im.PrevRecNum = r
      BY <1>14, <1>18
    <3> QED BY <1>23, <2>1, <3>1, <3>2, <3>3 DEF Stage, OtherStage
  <2>2. CASE log = IM_LOGEV_TYPE /\ ~p.EvLogMainCellRead
    <3>1. part = MainPart(log, r)
      BY <2>2 DEF part
    <3>2. v.im.EvLogMainCellRead /\ ~v.im.EvLogBufCellRead
      BY <1>7, <1>14, <1>18, <2>2
    <3> QED BY <1>23, <2>2, <3>1, <3>2 DEF Stage, EventStage
  <2>3. CASE log = IM_LOGEV_TYPE /\ p.EvLogMainCellRead
    <3>1. part = CellPart(log, r)
      BY <2>3 DEF part
    <3>2. ~v.im.EvLogMainCellRead /\ v.im.EvLogBufCellRead /\ v.im.PrevRecNum = r
      BY <1>14, <1>18, <2>3
    <3>3. Fetched(w, MainPart(log, r), log, r)
      BY <1>3, <2>3 DEF Stage, EventStage
    <3>4. Have(w, MainPart(log, r), log, r)
      <4>1. w.mem # <<MainPart(log, r), log, r>>
        BY DEF Free
      <4> QED BY <3>3, <4>1 DEF Fetched
    <3>5. Have(v, MainPart(log, r), log, r)
      BY <1>18, <3>4 DEF Have
    <3> QED BY <1>23, <2>3, <3>1, <3>2, <3>5 DEF Stage, EventStage
  <2> QED BY <2>1, <2>2, <2>3
<1>25. ReadOK(v)
  <2>1. v.im.CurrentLogRec = r
    BY <1>15, <1>18
  <2> QED BY <1>18, <1>19, <1>24, <2>1 DEF ReadOK
<1>26. AnswerOK(v, j)
  BY <1>15, <1>18 DEF AnswerOK
<1>27. v.im # w.im
  <2>1. CASE log = IM_LOGEV_TYPE
    BY <1>4, <1>14, <1>18, <2>1
  <2>2. CASE log # IM_LOGEV_TYPE
    BY <1>7, <1>14, <1>18, <2>2
  <2> QED BY <2>1, <2>2
<1>28. Fit(v, j)
  BY <1>1, <1>18, <1>20, <1>21, <1>22, <1>25, <1>26 DEF Fit
<1> QED BY <1>15, <1>18, <1>27, <1>28

LEMMA DownloadFit ==
  ASSUME NEW w, NEW j, Fit(w, j), NEW v, v = DownloadFunc(w),
         NEW i, i = IF /\ ~w.im.CanSendData /\ v.im.CanSendData
                       /\ w.im.FuncState = imLogDownload /\ w.im.Index = 0
                    THEN [j EXCEPT !.next = @ + 1] ELSE j
  PROVE  /\ Fit(v, i) /\ v.im.ControlMode = w.im.ControlMode /\ v.bt = w.bt
         /\ w.im.CanSendData => v.im.CanSendData
         /\ v.cells = w.cells
<1>1. CASE w.im.CanSendData
  <2>1. i = j
    BY <1>1
  <2> QED BY <1>1, <2>1, SendingFit
<1>2. CASE ~w.im.CanSendData /\ w.im.FuncState = imInit
  <2>1. i = j
    BY <1>2 DEF imInit, imLogDownload
  <2> QED BY <1>2, <2>1, ReadyFit
<1>3. CASE ~w.im.CanSendData /\ w.im.FuncState \in {2, 3, 4, 5, 6, 7, 8, 9, 10, 12}
  <2>1. i = j
    BY <1>3 DEF imLogDownload
  <2> QED BY <1>3, <2>1, AnswerFit
<1>4. CASE ~w.im.CanSendData /\ w.im.FuncState = imLogDownload /\ w.im.CurrentLogCnt > 0
  <2>1. CASE ~w.im.CanReadNextRec \/ w.mem # Free
    <3>1. Fit(v, j) /\ v.im.ControlMode = w.im.ControlMode /\ v.bt = w.bt /\ ~v.im.CanSendData
          /\ v.cells = w.cells
      BY <1>4, <2>1, WaitFit
    <3>2. i = j
      BY <3>1
    <3> QED BY <1>4, <3>1, <3>2
  <2>2. CASE w.im.CanReadNextRec /\ w.mem = Free /\ RecordRead(w)
    <3> DEFINE k == IF w.im.Index = 0 THEN [j EXCEPT !.next = @ + 1] ELSE j
    <3>1. k = IF w.im.Index = 0 THEN [j EXCEPT !.next = @ + 1] ELSE j
      OBVIOUS
    <3> HIDE DEF k
    <3>2. /\ Fit(v, k) /\ v.im.ControlMode = w.im.ControlMode /\ v.bt = w.bt
          /\ v.im.CanSendData /\ v.cells = w.cells
      BY <1>4, <2>2, <3>1, RecordFit
    <3>3. i = k
      BY <1>4, <3>2 DEF k
    <3> QED BY <3>2, <3>3
  <2>3. CASE w.im.CanReadNextRec /\ w.mem = Free /\ ~RecordRead(w)
    <3>1. Fit(v, j) /\ v.im.ControlMode = w.im.ControlMode /\ v.bt = w.bt /\ ~v.im.CanSendData
          /\ v.cells = w.cells
      BY <1>4, <2>3, BeginFit
    <3>2. i = j
      BY <3>1
    <3> QED BY <1>4, <3>1, <3>2
  <2> QED BY <2>1, <2>2, <2>3
<1>5. CASE /\ ~w.im.CanSendData
           /\ w.im.FuncState \notin {imInit, 2, 3, 4, 5, 6, 7, 8, 9, 10, 12}
           /\ ~(w.im.FuncState = imLogDownload /\ w.im.CurrentLogCnt > 0)
  <2>1. v = w
    BY <1>5, NothingToDo
  <2>2. i = j
    BY <1>5, <2>1
  <2> QED BY <2>1, <2>2
<1> QED BY <1>1, <1>2, <1>3, <1>4, <1>5

(* With a record to be had the main loop does not rest.                    *)
LEMMA DownloadGoesOn ==
  ASSUME NEW w, NEW j, Fit(w, j), Live(w.im), w.mem = Free, ~w.im.CanSendData
  PROVE  DownloadFunc(w) # w
<1>1. w.im.FuncState = imLogDownload /\ w.im.CurrentLogCnt > 0 /\ w.im.CanReadNextRec
  BY DEF Fit, DownloadOK, Live
<1>2. CASE RecordRead(w)
  <2> DEFINE v == DownloadFunc(w)
             i == IF w.im.Index = 0 THEN [j EXCEPT !.next = @ + 1] ELSE j
  <2>1. v = DownloadFunc(w) /\ i = IF w.im.Index = 0 THEN [j EXCEPT !.next = @ + 1] ELSE j
    OBVIOUS
  <2> HIDE DEF v, i
  <2>2. v.im.CanSendData
    BY <1>1, <1>2, <2>1, RecordFit
  <2> QED BY <2>1, <2>2
<1>3. CASE ~RecordRead(w)
  <2>1. DownloadFunc(w).im # w.im
    BY <1>1, <1>3, BeginFit
  <2> QED BY <2>1
<1> QED BY <1>2, <1>3

-----------------------------------------------------------------------------
(* A byte of the answer, or its end.                                       *)
LEMMA SendByteFit ==
  ASSUME NEW w, NEW j, Fit(w, j), NEW v,
         v = [w EXCEPT !.im.Timer = IM_TIMEOUT, !.im.TxIndex = @ + 1, !.bt.TxBusy = TRUE]
  PROVE  /\ Fit(v, j) /\ v.im.ControlMode = w.im.ControlMode
         /\ v.im.CanSendData = w.im.CanSendData
         /\ v.cells = w.cells
<1> DEFINE p == w.im
           q == [p EXCEPT !.Timer = IM_TIMEOUT, !.TxIndex = p.TxIndex + 1]
           b == [w.bt EXCEPT !.TxBusy = TRUE]
<1>1. w \in Infos /\ j \in Jobs /\ LinkOK(w) /\ LineOK(w, j) /\ DownloadOK(w, j)
      /\ ReadOK(w) /\ AnswerOK(w, j)
  BY DEF Fit
<1>2. p \in Ims /\ w.bt \in Bts
  BY <1>1, WorldTypes
<1>3. IM_TIMEOUT \in Nat
  BY InfoAssumption
<1>4. /\ q \in Ims /\ SameRecord(p, q) /\ q.FuncState = p.FuncState
      /\ q.CanSendData = p.CanSendData /\ q.IsLogTransmit = p.IsLogTransmit
      /\ q.IsBufReady = p.IsBufReady /\ q.Index = p.Index /\ q.WrBuffer = p.WrBuffer
  <2>1. p.TxIndex + 1 \in Nat
    BY <1>2 DEF Ims
  <2> QED BY <1>2, <1>3, <2>1 DEF Ims, SameRecord
<1>5. b \in Bts /\ b.State = w.bt.State /\ b.Mode = w.bt.Mode
  BY <1>2 DEF Bts
<1>6. v = [w EXCEPT !.im = q, !.bt = b]
  BY <1>1, <1>2 DEF Infos, Ims
<1> HIDE DEF q, b
<1>7. v \in Infos /\ v.im = q /\ v.bt = b /\ v.mem = w.mem /\ v.rx = w.rx /\ v.cells = w.cells
  BY <1>1, <1>4, <1>5, <1>6 DEF Infos
<1>8. LinkOK(v)
  BY <1>1, <1>4, <1>5, <1>7 DEF LinkOK, SameRecord
<1>9. LineOK(v, j)
  BY <1>1, <1>4, <1>7 DEF LineOK, SameRecord
<1>10. SameRecord(w.im, v.im)
  BY <1>4, <1>7
<1>11. DownloadOK(v, j)
  <2>1. /\ (Live(v.im) <=> Live(w.im)) /\ Journal(v.im) = Journal(w.im)
        /\ v.im.CurrentLogRec = w.im.CurrentLogRec /\ v.im.CurrentLogCnt = w.im.CurrentLogCnt
    BY <1>10 DEF SameRecord, Live, Journal
  <2> QED BY <1>1, <1>4, <1>7, <2>1 DEF DownloadOK
<1>12. ReadOK(v)
  BY <1>1, <1>7, <1>10, ReadKept
<1>13. AnswerOK(v, j)
  BY <1>1, <1>4, <1>7 DEF AnswerOK
<1> QED BY <1>1, <1>4, <1>7, <1>8, <1>9, <1>10, <1>11, <1>12, <1>13 DEF Fit, SameRecord

LEMMA SendEndFit ==
  ASSUME NEW w, NEW j, Fit(w, j), NEW v, v = SendData(w),
         w.im.CanSendData, ~w.bt.TxBusy, w.im.TxIndex > w.im.Index,
         NEW i, i = IF w.im.CanSendData /\ ~v.im.CanSendData /\ ~v.im.IsLogTransmit
                    THEN [request |-> NoRequest, next |-> 0] ELSE j
  PROVE  /\ Fit(v, i) /\ v.im.ControlMode = w.im.ControlMode
         /\ v.cells = w.cells
<1> DEFINE p == w.im
           q == [p EXCEPT !.Timer = 0, !.Index = 0, !.TxIndex = 0, !.CanSendData = FALSE]
           line == IF w.im.IsLogTransmit THEN w.rx ELSE TRUE
<1>1. w \in Infos /\ j \in Jobs /\ LinkOK(w) /\ LineOK(w, j) /\ DownloadOK(w, j)
      /\ ReadOK(w) /\ AnswerOK(w, j)
  BY DEF Fit
<1>2. p \in Ims /\ w.bt \in Bts /\ w.rx \in BOOLEAN
  BY <1>1, WorldTypes
<1>3. /\ q \in Ims /\ SameRecord(p, q) /\ q.FuncState = p.FuncState
      /\ q.CanSendData = FALSE /\ q.IsLogTransmit = p.IsLogTransmit
      /\ q.IsBufReady = p.IsBufReady /\ q.Index = 0
  BY <1>2 DEF Ims, SameRecord
<1>4. v = [w EXCEPT !.im = q, !.rx = line]
  <2>1. q = [ImReset(p) EXCEPT !.TxIndex = 0, !.CanSendData = FALSE]
    BY <1>2 DEF ImReset, Ims
  <2>2. v = [w EXCEPT !.im = [ImReset(w.im) EXCEPT !.TxIndex = 0, !.CanSendData = FALSE],
                      !.rx = IF w.im.IsLogTransmit THEN @ ELSE TRUE]
    BY DEF SendData
  <2> HIDE DEF q
  <2> QED BY <2>1, <2>2
<1> HIDE DEF q
<1>5. line \in BOOLEAN
  BY <1>2
<1>6. v \in Infos /\ v.im = q /\ v.rx = line /\ v.mem = w.mem /\ v.bt = w.bt /\ v.cells = w.cells
  <2> HIDE DEF line
  <2> QED BY <1>1, <1>3, <1>4, <1>5 DEF Infos
<1>7. /\ p.FuncState = (IF p.IsLogTransmit THEN imLogDownload ELSE imIdle)
      /\ ~w.rx /\ p.RdBuffer[0] = 0 /\ ~p.IsBufReady
  BY <1>1 DEF LineOK
<1>8. i = IF p.IsLogTransmit THEN j ELSE [request |-> NoRequest, next |-> 0]
  BY <1>3, <1>6
<1>9. i \in Jobs
  <2>1. CASE p.IsLogTransmit
    BY <1>1, <1>8, <2>1
  <2>2. CASE ~p.IsLogTransmit
    <3>1. NoRequest \in Seq(Nat)
      BY DEF NoRequest
    <3> QED BY <1>8, <2>2, <3>1 DEF Jobs
  <2> QED BY <2>1, <2>2
<1>10. LinkOK(v)
  BY <1>1, <1>3, <1>6 DEF LinkOK, SameRecord
<1>11. q.RdBuffer = p.RdBuffer
  BY <1>3 DEF SameRecord
<1>12. LineOK(v, i)
  BY <1>3, <1>6, <1>7, <1>11 DEF LineOK, imIdle, imInit, imLogDownload
<1>13. SameRecord(w.im, v.im)
  BY <1>3, <1>6
<1>14. DownloadOK(v, i)
  <2>1. /\ (Live(v.im) <=> Live(w.im)) /\ Journal(v.im) = Journal(w.im)
        /\ v.im.CurrentLogRec = w.im.CurrentLogRec /\ v.im.CurrentLogCnt = w.im.CurrentLogCnt
    BY <1>13 DEF SameRecord, Live, Journal
  <2>2. Live(w.im) => p.IsLogTransmit /\ i = j /\ v.rx = w.rx
    <3>1. Live(w.im) => p.FuncState = imLogDownload
      BY <1>1 DEF DownloadOK
    <3>2. Live(w.im) => p.IsLogTransmit
      BY <1>7, <3>1 DEF imLogDownload, imIdle
    <3>3. v.rx = line
      BY <1>6
    <3>4. p.IsLogTransmit => i = j /\ line = w.rx
      BY <1>8
    <3> QED BY <3>2, <3>3, <3>4
  <2> QED BY <1>1, <1>3, <1>6, <2>1, <2>2 DEF DownloadOK
<1>15. ReadOK(v)
  BY <1>1, <1>6, <1>13, ReadKept
<1>16. AnswerOK(v, i)
  BY <1>3, <1>6 DEF AnswerOK
<1> QED BY <1>3, <1>6, <1>9, <1>10, <1>12, <1>13, <1>14, <1>15, <1>16 DEF Fit, SameRecord

LEMMA SendFit ==
  ASSUME NEW w, NEW j, Fit(w, j), NEW v, v = SendData(w),
         NEW i, i = IF w.im.CanSendData /\ ~v.im.CanSendData /\ ~v.im.IsLogTransmit
                    THEN [request |-> NoRequest, next |-> 0] ELSE j
  PROVE  /\ Fit(v, i) /\ v.im.ControlMode = w.im.ControlMode
         /\ v.im.CanSendData => w.im.CanSendData
         /\ v.cells = w.cells
<1>1. CASE ~w.im.CanSendData \/ w.bt.TxBusy
  <2>1. v = w
    BY <1>1 DEF SendData
  <2>2. i = j
    BY <2>1
  <2> QED BY <2>1, <2>2
<1>2. CASE w.im.CanSendData /\ ~w.bt.TxBusy /\ w.im.TxIndex > w.im.Index
  BY <1>2, SendEndFit
<1>3. CASE w.im.CanSendData /\ ~w.bt.TxBusy /\ ~(w.im.TxIndex > w.im.Index)
  <2>1. v = [w EXCEPT !.im.Timer = IM_TIMEOUT, !.im.TxIndex = @ + 1, !.bt.TxBusy = TRUE]
    BY <1>3 DEF SendData
  <2>2. /\ Fit(v, j) /\ v.im.ControlMode = w.im.ControlMode
        /\ v.im.CanSendData = w.im.CanSendData /\ v.cells = w.cells
    BY <2>1, SendByteFit
  <2>3. i = j
    BY <1>3, <2>2
  <2> QED BY <2>2, <2>3, <1>3
<1> QED BY <1>1, <1>2, <1>3

-----------------------------------------------------------------------------
(* A pass of the main loop.                                                *)
LEMMA LinkFit ==
  ASSUME NEW w, NEW j, Fit(w, j), NEW v, v = BtWTUpdate(w)
  PROVE  /\ Fit(v, j) /\ v.im = w.im
         /\ v.cells = w.cells
<1>1. w \in Infos /\ j \in Jobs /\ LinkOK(w) /\ LineOK(w, j) /\ DownloadOK(w, j)
      /\ ReadOK(w) /\ AnswerOK(w, j)
  BY DEF Fit
<1>2. LinkOnly(w, v) /\ LinkOK(v) /\ (w.bt.State >= 7 => v.rx = w.rx)
  BY <1>1, LinkStep
<1>3. v \in Infos /\ v.im = w.im /\ v.cells = w.cells /\ v.mem = w.mem
  BY <1>2 DEF LinkOnly
<1>4. w.bt.State \in Nat /\ w.im \in Ims
  BY <1>1, WorldTypes DEF Bts
<1>5. SameReading(w.im, v.im)
  BY <1>3 DEF SameReading
<1>6. ReadOK(v)
  BY <1>1, <1>3, <1>5, ReadingKept
<1>7. AnswerOK(v, j)
  BY <1>1, <1>3 DEF AnswerOK
<1>8. LineOK(v, j) /\ DownloadOK(v, j)
  <2>1. CASE w.bt.State >= 7
    BY <1>1, <1>2, <1>3, <2>1 DEF LineOK, DownloadOK
  <2>2. CASE w.bt.State <= 6
    <3>1. ~w.im.CanSendData /\ w.im.FuncState \in {imIdle, imInit}
      BY <1>1, <2>2 DEF LinkOK
    <3>2. ~Live(w.im)
      BY <1>1, <3>1 DEF DownloadOK, imIdle, imInit, imLogDownload
    <3> QED BY <1>1, <1>3, <3>1, <3>2 DEF LineOK, DownloadOK, imIdle, imInit, imLogDownload
  <2> QED BY <1>4, <2>1, <2>2
<1> QED BY <1>1, <1>2, <1>3, <1>6, <1>7, <1>8 DEF Fit

LEMMA TurnFit ==
  ASSUME NEW w, NEW j, Fit(w, j), w.im.ControlMode \in 0 .. 2,
         NEW v, v = [w EXCEPT !.im.ControlMode = (@ + 1) % 3]
  PROVE  /\ Fit(v, j) /\ v.im.ControlMode \in 0 .. 2
         /\ v.im.CanSendData = w.im.CanSendData /\ v.im.IsLogTransmit = w.im.IsLogTransmit
         /\ v.cells = w.cells
<1> DEFINE m == (w.im.ControlMode + 1) % 3
           q == [w.im EXCEPT !.ControlMode = m]
<1>1. w \in Infos /\ j \in Jobs /\ LinkOK(w) /\ LineOK(w, j) /\ DownloadOK(w, j)
      /\ ReadOK(w) /\ AnswerOK(w, j)
  BY DEF Fit
<1>2. w.im \in Ims
  BY <1>1, WorldTypes
<1>3. m \in 0 .. 2
  OBVIOUS
<1>4. v = [w EXCEPT !.im = q]
  BY <1>1 DEF Infos
<1> HIDE DEF m
<1>5. /\ q \in Ims /\ q.ControlMode = m
      /\ SameReading(w.im, q) /\ q.FuncState = w.im.FuncState
      /\ q.CanSendData = w.im.CanSendData /\ q.IsLogTransmit = w.im.IsLogTransmit
      /\ q.IsBufReady = w.im.IsBufReady /\ q.Index = w.im.Index
      /\ q.WrBuffer = w.im.WrBuffer
  BY <1>2, <1>3 DEF Ims, SameReading
<1> HIDE DEF q
<1>6. v \in Infos /\ v.im = q /\ v.rx = w.rx /\ v.mem = w.mem /\ v.bt = w.bt /\ v.cells = w.cells
  BY <1>1, <1>4, <1>5 DEF Infos
<1>7. SameReading(w.im, v.im)
  BY <1>5, <1>6
<1>8. LinkOK(v)
  BY <1>1, <1>5, <1>6, <1>7 DEF LinkOK, SameReading
<1>9. LineOK(v, j)
  BY <1>1, <1>5, <1>6, <1>7 DEF LineOK, SameReading
<1>10. DownloadOK(v, j)
  <2>1. /\ (Live(v.im) <=> Live(w.im)) /\ Journal(v.im) = Journal(w.im)
        /\ v.im.CurrentLogRec = w.im.CurrentLogRec /\ v.im.CurrentLogCnt = w.im.CurrentLogCnt
    BY <1>7 DEF SameReading, Live, Journal
  <2> QED BY <1>1, <1>5, <1>6, <2>1 DEF DownloadOK
<1>11. ReadOK(v)
  BY <1>1, <1>6, <1>7, ReadingKept
<1>12. AnswerOK(v, j)
  BY <1>1, <1>5, <1>6 DEF AnswerOK
<1> QED BY <1>1, <1>3, <1>5, <1>6, <1>8, <1>9, <1>10, <1>11, <1>12 DEF Fit

LEMMA ModeFit ==
  ASSUME NEW w, NEW j, Fit(w, j), w.im.ControlMode \in 0 .. 2,
         ~(w.im.ControlMode = 0 /\ OneRecord(w.im)),
         NEW v, v = ImStep(w),
         NEW i, i = CASE w.im.CanSendData /\ ~v.im.CanSendData /\ ~v.im.IsLogTransmit ->
                           [request |-> NoRequest, next |-> 0]
                      [] w.im.ControlMode = 0 /\ IsFuncReceived(w.im) ->
                           [request |-> Echo(w.im), next |-> 0]
                      [] /\ ~w.im.CanSendData /\ v.im.CanSendData
                         /\ w.im.FuncState = imLogDownload /\ w.im.Index = 0 ->
                           [j EXCEPT !.next = @ + 1]
                      [] OTHER -> j
  PROVE  Fit(v, i) /\ v.im.ControlMode = w.im.ControlMode /\ v.cells = w.cells
<1>1. CASE w.im.ControlMode = 0
  <2>1. v = ReceiveFunc(w)
    BY <1>1 DEF ImStep, Mode
  <2>2. CASE IsFuncReceived(w.im)
    <3>1. ~w.im.CanSendData
      BY <2>2 DEF IsFuncReceived
    <3>2. /\ Fit(v, [request |-> Echo(w.im), next |-> 0])
          /\ v.im.ControlMode = w.im.ControlMode /\ ~v.im.CanSendData /\ v.cells = w.cells
      BY <1>1, <2>1, <2>2, ReceiveFit
    <3>3. i = [request |-> Echo(w.im), next |-> 0]
      BY <1>1, <2>2, <3>1, <3>2
    <3> QED BY <3>2, <3>3
  <2>3. CASE ~IsFuncReceived(w.im)
    <3>1. v = w
      BY <2>1, <2>3 DEF ReceiveFunc
    <3>2. i = j
      BY <1>1, <2>3, <3>1
    <3> QED BY <3>1, <3>2
  <2> QED BY <2>2, <2>3
<1>2. CASE w.im.ControlMode = 1
  <2> DEFINE k == IF /\ ~w.im.CanSendData /\ v.im.CanSendData
                     /\ w.im.FuncState = imLogDownload /\ w.im.Index = 0
                  THEN [j EXCEPT !.next = @ + 1] ELSE j
  <2>1. v = DownloadFunc(w)
    BY <1>2 DEF ImStep, Mode
  <2>2. /\ Fit(v, k) /\ v.im.ControlMode = w.im.ControlMode
        /\ w.im.CanSendData => v.im.CanSendData
        /\ v.cells = w.cells
    BY <2>1, DownloadFit
  <2>3. i = k
    BY <1>2, <2>2
  <2> HIDE DEF k
  <2> QED BY <2>2, <2>3
<1>3. CASE w.im.ControlMode = 2
  <2> DEFINE k == IF w.im.CanSendData /\ ~v.im.CanSendData /\ ~v.im.IsLogTransmit
                  THEN [request |-> NoRequest, next |-> 0] ELSE j
  <2>1. v = SendData(w)
    BY <1>3 DEF ImStep, Mode
  <2>2. /\ Fit(v, k) /\ v.im.ControlMode = w.im.ControlMode
        /\ v.im.CanSendData => w.im.CanSendData
        /\ v.cells = w.cells
    BY <2>1, SendFit
  <2>3. i = k
    BY <1>3, <2>2
  <2> HIDE DEF k
  <2> QED BY <2>2, <2>3
<1> QED BY <1>1, <1>2, <1>3

LEMMA WorldStep ==
  ASSUME NEW v \in Infos,
         bt' = v.bt, im' = v.im, rx' = v.rx, cells' = v.cells, mem' = v.mem
  PROVE  World' = v
  BY DEF Infos, World

LEMMA PassKeeps ==
  ASSUME InfoInv, NoSingleRecord, Pass
  PROVE  InfoInv'
<1> DEFINE b == BtWTUpdate(World)
           u == ImStep(b)
           w == ImUpdate(b)
           started == im.ControlMode = 0 /\ IsFuncReceived(im)
           record == ~im.CanSendData /\ w.im.CanSendData /\ im.FuncState = imLogDownload
           done == im.CanSendData /\ ~w.im.CanSendData /\ ~w.im.IsLogTransmit
           i == CASE done -> [request |-> NoRequest, next |-> 0]
                  [] started -> [request |-> Echo(im), next |-> 0]
                  [] record /\ im.Index = 0 -> [job EXCEPT !.next = @ + 1]
                  [] OTHER -> job
<1>1. Fit(World, job) /\ im.ControlMode \in 0 .. 2 /\ peer \in Peers
  BY DEF InfoInv
<1>2. World.im = im /\ World.bt = bt /\ World.cells = cells
  BY DEF World
<1>3. Fit(b, job) /\ b.im = im /\ b.cells = cells
  BY <1>1, <1>2, LinkFit
<1>4. ~(im.ControlMode = 0 /\ OneRecord(im))
  BY DEF NoSingleRecord
<1>5. bt' = w.bt /\ im' = w.im /\ rx' = w.rx /\ mem' = w.mem /\ cells' = cells
  BY DEF Pass
<1>6. job' = i
  BY DEF Pass
<1>7. w = [u EXCEPT !.im.ControlMode = (@ + 1) % 3]
  BY DEF ImUpdate
<1> DEFINE k == CASE b.im.CanSendData /\ ~u.im.CanSendData /\ ~u.im.IsLogTransmit ->
                       [request |-> NoRequest, next |-> 0]
                  [] b.im.ControlMode = 0 /\ IsFuncReceived(b.im) ->
                       [request |-> Echo(b.im), next |-> 0]
                  [] /\ ~b.im.CanSendData /\ u.im.CanSendData
                     /\ b.im.FuncState = imLogDownload /\ b.im.Index = 0 ->
                       [job EXCEPT !.next = @ + 1]
                  [] OTHER -> job
<1>8. Fit(u, k) /\ u.im.ControlMode \in 0 .. 2 /\ u.cells = cells
  <2> HIDE DEF b
  <2>1. b.im.ControlMode \in 0 .. 2 /\ ~(b.im.ControlMode = 0 /\ OneRecord(b.im))
    BY <1>1, <1>3, <1>4
  <2>2. Fit(u, k) /\ u.im.ControlMode = b.im.ControlMode /\ u.cells = b.cells
    BY <1>3, <2>1, ModeFit
  <2> QED BY <1>3, <2>1, <2>2
<1> HIDE DEF b, u, w
<1>9. /\ Fit(w, k) /\ w.im.ControlMode \in 0 .. 2 /\ w.cells = cells
      /\ w.im.CanSendData = u.im.CanSendData /\ w.im.IsLogTransmit = u.im.IsLogTransmit
  <2> HIDE DEF k
  <2> QED BY <1>7, <1>8, TurnFit
<1>10. i = k
  BY <1>3, <1>9
<1> HIDE DEF i, k
<1>11. World' = w
  <2>1. w \in Infos
    BY <1>9 DEF Fit
  <2> QED BY <1>5, <1>9, <2>1, WorldStep
<1>12. Fit(w, job')
  BY <1>6, <1>9, <1>10
<1>13. (Fit(World, job))'
  BY <1>11, <1>12
<1>14. peer' \in Peers
  <2> DEFINE owed == peer.owed \/ (bt.CmdState = 1 /\ w.bt.CmdState = 2)
             asked == IF done THEN NoRequest ELSE peer.asked
             again == peer.again /\ ~done
             others == IF done THEN 0 ELSE peer.others
             answered == done /\ job.request = peer.asked
  <2>1. peer' = [peer EXCEPT !.seen = TRUE, !.owed = owed, !.asked = asked, !.again = again,
                             !.others = others, !.answered = answered]
    BY DEF Pass, w, b
  <2>2. owed \in BOOLEAN /\ again \in BOOLEAN /\ answered \in BOOLEAN
    OBVIOUS
  <2>3. asked \in Requests \cup {NoRequest} /\ others \in Nat
    <3> HIDE DEF done
    <3> QED BY <1>1 DEF Peers
  <2> HIDE DEF owed, asked, again, others, answered
  <2> QED BY <1>1, <2>1, <2>2, <2>3 DEF Peers
<1> QED BY <1>5, <1>9, <1>13, <1>14 DEF InfoInv

-----------------------------------------------------------------------------
(* The interrupts of the line.                                             *)
LEMMA OnlyLinkFit ==
  ASSUME NEW w, NEW j, Fit(w, j), NEW v, LinkOnly(w, v), v.rx = w.rx, LinkOK(v)
  PROVE  Fit(v, j)
<1>1. w \in Infos /\ j \in Jobs /\ LineOK(w, j) /\ DownloadOK(w, j)
      /\ ReadOK(w) /\ AnswerOK(w, j)
  BY DEF Fit
<1>2. v \in Infos /\ v.im = w.im /\ v.cells = w.cells /\ v.mem = w.mem
  BY DEF LinkOnly
<1>3. SameReading(w.im, v.im)
  BY <1>2 DEF SameReading
<1>4. ReadOK(v)
  BY <1>1, <1>2, <1>3, ReadingKept
<1>5. LineOK(v, j) /\ DownloadOK(v, j) /\ AnswerOK(v, j)
  BY <1>1, <1>2 DEF LineOK, DownloadOK, AnswerOK
<1> QED BY <1>1, <1>2, <1>4, <1>5 DEF Fit

LEMMA CommandByte ==
  ASSUME NEW b \in Bts, NEW Data \in Nat
  PROVE  LET c == RxCommandMode(b, Data)
         IN  c \in Bts /\ c.State = b.State /\ c.Mode = b.Mode
<1> DEFINE s == IF Data = LineEnd THEN "got" ELSE "getting"
           n == IF b.StrIndex > BT_RX_BUFFER_SIZE THEN b.StrIndex ELSE b.StrIndex + 1
           f == [i \in DOMAIN b.RxBuffer |-> IF i = b.StrIndex THEN Data ELSE b.RxBuffer[i]]
           c == RxCommandMode(b, Data)
<1> SUFFICES c \in Bts /\ c.State = b.State /\ c.Mode = b.Mode
  OBVIOUS
<1>1. s \in Statuses
  BY LinkWords
<1>2. n \in Nat
  BY DEF Bts
<1>3. f \in [0 .. BT_RX_BUFFER_SIZE - 1 -> Nat]
  <2>1. b.RxBuffer \in [0 .. BT_RX_BUFFER_SIZE - 1 -> Nat]
    BY DEF Bts
  <2> QED BY <2>1
<1>4. c = [b EXCEPT !.RxBuffer = f, !.Status = s, !.StrIndex = n]
  BY DEF RxCommandMode
<1> HIDE DEF c, f, s, n
<1> QED BY <1>1, <1>2, <1>3, <1>4 DEF Bts

LEMMA DataByte ==
  ASSUME NEW b \in Bts, NEW Data \in Nat
  PROVE  LET c == RxDataMode(b, Data) IN c \in Bts /\ c.State = b.State
<1> DEFINE c == RxDataMode(b, Data)
<1> SUFFICES c \in Bts /\ c.State = b.State
  OBVIOUS
<1>1. \/ c = [b EXCEPT !.RxState = 0]
      \/ c = [b EXCEPT !.RxState = 0, !.Mode = "command"]
      \/ c = [b EXCEPT !.RxState = b.RxState + 1]
  BY DEF RxDataMode
<1> HIDE DEF c
<1>2. b.RxState + 1 \in Nat /\ "command" \in LinkModes
  BY LinkWords DEF Bts
<1>3. CASE c = [b EXCEPT !.RxState = 0]
  BY <1>3 DEF Bts
<1>4. CASE c = [b EXCEPT !.RxState = 0, !.Mode = "command"]
  BY <1>2, <1>4 DEF Bts
<1>5. CASE c = [b EXCEPT !.RxState = b.RxState + 1]
  BY <1>2, <1>5 DEF Bts
<1> QED BY <1>1, <1>3, <1>4, <1>5

LEMMA DataByteFit ==
  ASSUME NEW w, NEW j, Fit(w, j), w.rx, w.bt.State = 9, NEW Data \in Nat,
         NEW v \in Infos, v.im = ImReceiveData(w.im, Data), v.bt.State = 9,
         v.rx = w.rx, v.mem = w.mem, v.cells = w.cells
  PROVE  Fit(v, j) /\ v.im.ControlMode = w.im.ControlMode
<1> DEFINE p == w.im
           q == v.im
<1>1. w \in Infos /\ j \in Jobs /\ LinkOK(w) /\ LineOK(w, j) /\ DownloadOK(w, j)
      /\ ReadOK(w) /\ AnswerOK(w, j)
  BY DEF Fit
<1>2. p \in Ims
  BY <1>1, WorldTypes
<1>3. /\ q.ControlMode = p.ControlMode /\ q.FuncState = p.FuncState
      /\ q.CanSendData = p.CanSendData /\ q.IsLogTransmit = p.IsLogTransmit
      /\ q.IsBufReady = p.IsBufReady
      /\ q.CurrentLogRec = p.CurrentLogRec /\ q.CurrentLogCnt = p.CurrentLogCnt
      /\ q.CanReadNextRec = p.CanReadNextRec /\ q.PrevRecNum = p.PrevRecNum
      /\ q.EvLogMainCellRead = p.EvLogMainCellRead /\ q.EvLogBufCellRead = p.EvLogBufCellRead
  <2>1. CASE p.Index < IM_RD_BUFFER_SIZE
    BY <1>2, <2>1 DEF ImReceiveData, Ims
  <2>2. CASE ~(p.Index < IM_RD_BUFFER_SIZE)
    BY <1>2, <2>2 DEF ImReceiveData, Ims
  <2> QED BY <2>1, <2>2
<1>4. p.Index \in Nat /\ IM_RD_BUFFER_SIZE \in Nat
  BY <1>2, InfoAssumption DEF Ims
<1>5. /\ p.Index > 0 => q.RdBuffer[0] = p.RdBuffer[0] /\ q.Index > 0
      /\ p.Index > 1 => q.RdBuffer[1] = p.RdBuffer[1] /\ q.Index > 1
  <2>1. CASE p.Index < IM_RD_BUFFER_SIZE
    <3>1. q.RdBuffer = [p.RdBuffer EXCEPT ![p.Index] = Data] /\ q.Index = p.Index + 1
      BY <1>2, <2>1 DEF ImReceiveData, Ims
    <3>2. p.Index \in 0 .. IM_RD_BUFFER_SIZE - 1
      BY <1>4, <2>1
    <3>3. \A x \in 0 .. 3 : x # p.Index => q.RdBuffer[x] = p.RdBuffer[x]
      BY <1>2, <3>1, <3>2, BufferBytes
    <3>4. p.Index > 0 => q.RdBuffer[0] = p.RdBuffer[0]
      BY <3>3
    <3>5. p.Index > 1 => q.RdBuffer[1] = p.RdBuffer[1]
      BY <3>3
    <3> QED BY <1>4, <3>1, <3>4, <3>5
  <2>2. CASE ~(p.Index < IM_RD_BUFFER_SIZE)
    <3>1. q.RdBuffer = p.RdBuffer /\ q.Index = p.Index
      BY <1>2, <2>2 DEF ImReceiveData, Ims
    <3> QED BY <3>1
  <2> QED BY <2>1, <2>2
<1>6. ~p.CanSendData /\ (p.FuncState \notin {imIdle, imInit} => p.Index > 0 /\ p.RdBuffer[0] = 0)
  BY <1>1 DEF LineOK
<1>7. LinkOK(v)
  BY <1>1 DEF LinkOK
<1>8. LineOK(v, j)
  BY <1>1, <1>3, <1>5, <1>6 DEF LineOK
<1>9. Live(q) <=> Live(p)
  BY <1>3 DEF Live
<1>10. Live(p) => p.CurrentLogRec = 0 /\ Journal(q) = Journal(p) /\ q.Index > 1
  <2>1. Live(p) => ~(p.CurrentLogRec > 0) /\ (p.CurrentLogRec = 0 => p.Index > 1)
    BY <1>1 DEF DownloadOK
  <2>2. p.CurrentLogRec \in Nat
    BY <1>2 DEF Ims
  <2> QED BY <1>5, <2>1, <2>2 DEF Journal
<1>11. DownloadOK(v, j)
  BY <1>1, <1>3, <1>9, <1>10 DEF DownloadOK
<1>12. ReadOK(v)
  <2>1. CASE ~Live(p)
    BY <1>1, <1>3, <1>9, <2>1 DEF ReadOK, NotReading
  <2>2. CASE Live(p)
    <3>1. Stage(w, Journal(q), q.CurrentLogRec)
      BY <1>1, <1>3, <1>10, <2>2 DEF ReadOK
    <3>2. Stage(v, Journal(q), q.CurrentLogRec)
      BY <1>3, <3>1 DEF Stage, EventStage, OtherStage, Fetched, Have, NotReading
    <3> QED BY <1>9, <2>2, <3>2 DEF ReadOK
  <2> QED BY <2>1, <2>2
<1>13. AnswerOK(v, j)
  BY <1>3, <1>6 DEF AnswerOK
<1> QED BY <1>1, <1>3, <1>7, <1>8, <1>11, <1>12, <1>13 DEF Fit

LEMMA WorldOf ==
  ASSUME Fit(World, job)
  PROVE  /\ World \in Infos /\ World.bt = bt /\ World.im = im /\ World.rx = rx
         /\ World.cells = cells /\ World.mem = mem
         /\ bt \in Bts /\ im \in Ims /\ rx \in BOOLEAN /\ cells \in Cells /\ mem \in Mems
<1>1. World \in Infos
  BY DEF Fit
<1>2. /\ World.bt = bt /\ World.im = im /\ World.rx = rx
      /\ World.cells = cells /\ World.mem = mem
  BY DEF World
<1> QED BY <1>1, <1>2, WorldTypes

LEMMA OnlyPeer ==
  ASSUME InfoInv, UNCHANGED <<bt, im, rx, cells, mem, job>>, peer' \in Peers
  PROVE  InfoInv'
<1>1. World' = World
  BY DEF World
<1>2. (Fit(World, job))'
  BY <1>1 DEF InfoInv
<1> QED BY <1>2 DEF InfoInv

LEMMA NextByte ==
  ASSUME peer \in Peers, peer.out # <<>>
  PROVE  Head(peer.out) \in Nat /\ Tail(peer.out) \in Seq(Nat)
<1>1. peer.out \in Seq(Nat)
  BY DEF Peers
<1> QED BY <1>1

LEMMA StoredByte ==
  ASSUME NEW p \in Ims, NEW Data \in Nat
  PROVE  ImReceiveData(p, Data) \in Ims
<1> DEFINE q == ImReceiveData(p, Data)
<1>1. p.Index \in Nat /\ IM_TIMEOUT \in Nat /\ IM_RD_BUFFER_SIZE \in Nat
  BY InfoAssumption DEF Ims
<1>2. CASE p.Index < IM_RD_BUFFER_SIZE
  <2> DEFINE b == [p.RdBuffer EXCEPT ![p.Index] = Data]
             n == p.Index + 1
  <2>1. b \in Buffers /\ n \in Nat
    <3>1. p.Index \in 0 .. IM_RD_BUFFER_SIZE - 1
      BY <1>1, <1>2
    <3> QED BY <1>1, <3>1, BufferBytes
  <2>2. q = [p EXCEPT !.Timer = IM_TIMEOUT, !.RdBuffer = b, !.Index = n]
    BY <1>2 DEF ImReceiveData, Ims
  <2> HIDE DEF q, b, n
  <2>3. q \in Ims
    BY <1>1, <2>1, <2>2 DEF Ims
  <2> QED BY <2>3 DEF q
<1>3. CASE ~(p.Index < IM_RD_BUFFER_SIZE)
  <2>1. q = [p EXCEPT !.Timer = IM_TIMEOUT]
    BY <1>3 DEF ImReceiveData
  <2> HIDE DEF q
  <2>2. q \in Ims
    BY <1>1, <2>1 DEF Ims
  <2> QED BY <2>2 DEF q
<1> QED BY <1>2, <1>3

LEMMA RxByteKeeps ==
  ASSUME InfoInv, RxByte
  PROVE  InfoInv'
<1> DEFINE Data == Head(peer.out)
<1>1. Fit(World, job) /\ im.ControlMode \in 0 .. 2 /\ peer \in Peers
  BY DEF InfoInv
<1>2. /\ World \in Infos /\ World.bt = bt /\ World.im = im /\ World.rx = rx
      /\ World.cells = cells /\ World.mem = mem
      /\ bt \in Bts /\ im \in Ims /\ rx \in BOOLEAN /\ cells \in Cells /\ mem \in Mems
  BY <1>1, WorldOf
<1>3. Data \in Nat /\ Tail(peer.out) \in Seq(Nat)
  BY <1>1, NextByte DEF RxByte
<1>4. peer' \in Peers
  <2>1. peer' = [peer EXCEPT !.out = Tail(peer.out), !.seen = FALSE]
    BY DEF RxByte
  <2> QED BY <1>1, <1>3, <2>1 DEF Peers
<1>5. /\ IF rx THEN Received(Data) ELSE UNCHANGED <<bt, im>>
      /\ UNCHANGED <<rx, cells, mem, job>>
  BY DEF RxByte
<1> HIDE DEF Data
<1>6. LinkOK(World) /\ bt.State \in Nat
  BY <1>1, <1>2 DEF Fit, Bts
<1>7. CASE ~rx
  BY <1>4, <1>5, <1>7, OnlyPeer
<1>8. CASE rx /\ bt.Mode = "command"
  <2> DEFINE v == [World EXCEPT !.bt = RxCommandMode(bt, Data)]
  <2>1. bt' = RxCommandMode(bt, Data) /\ im' = im
    BY <1>5, <1>8 DEF Received
  <2>2. bt' \in Bts /\ bt'.State = bt.State /\ bt'.Mode = bt.Mode
    BY <1>2, <1>3, <2>1, CommandByte
  <2>3. LinkOnly(World, v) /\ v.bt = bt' /\ v.rx = rx
    BY <1>2, <2>1, <2>2, DriverSet
  <2> HIDE DEF v
  <2>4. LinkOK(v)
    BY <1>2, <1>6, <2>2, <2>3 DEF LinkOK, LinkOnly
  <2>5. Fit(v, job)
    BY <1>1, <1>2, <2>3, <2>4, OnlyLinkFit
  <2>6. World' = v
    <3>1. v \in Infos /\ v.im = im /\ v.cells = cells /\ v.mem = mem
      BY <1>2, <2>3 DEF LinkOnly
    <3> QED BY <1>5, <2>1, <2>3, <3>1, WorldStep
  <2>7. (Fit(World, job))'
    BY <1>5, <2>5, <2>6
  <2> QED BY <1>1, <1>4, <2>1, <2>7 DEF InfoInv
<1>9. CASE rx /\ bt.Mode # "command"
  <2>1. bt' = RxDataMode(bt, Data) /\ im' = ImReceiveData(im, Data)
    BY <1>5, <1>9 DEF Received
  <2>2. bt.State = 9
    BY <1>2, <1>6, <1>9 DEF LinkOK
  <2>3. bt' \in Bts /\ bt'.State = 9
    BY <1>2, <1>3, <2>1, <2>2, DataByte
  <2>4. im' \in Ims
    BY <1>2, <1>3, <2>1, StoredByte
  <2>5. World' \in Infos
    BY <1>2, <1>5, <2>3, <2>4 DEF World, Infos
  <2>6. /\ World'.im = im' /\ World'.bt = bt' /\ World'.rx = rx /\ World'.mem = mem
        /\ World'.cells = cells
    BY <1>5 DEF World
  <2> DEFINE v == World'
  <2>7. v \in Infos /\ v.im = ImReceiveData(im, Data) /\ v.bt.State = 9 /\ v.rx = rx
        /\ v.mem = mem /\ v.cells = cells
    BY <2>1, <2>3, <2>5, <2>6
  <2> HIDE DEF v
  <2>8. Fit(v, job) /\ v.im.ControlMode = im.ControlMode
    BY <1>1, <1>2, <1>3, <1>9, <2>2, <2>7, DataByteFit
  <2>9. (Fit(World, job))'
    BY <1>5, <2>8 DEF v
  <2>10. im'.ControlMode = im.ControlMode
    BY <2>6, <2>8 DEF v
  <2> QED BY <1>1, <1>4, <2>9, <2>10 DEF InfoInv
<1> QED BY <1>7, <1>8, <1>9

LEMMA TxDoneKeeps ==
  ASSUME InfoInv, TxDone
  PROVE  InfoInv'
<1> DEFINE v == [World EXCEPT !.bt = BluetoothTxHandler(bt)]
<1>1. Fit(World, job) /\ im.ControlMode \in 0 .. 2 /\ peer \in Peers
  BY DEF InfoInv
<1>2. /\ World \in Infos /\ World.bt = bt /\ World.im = im /\ World.rx = rx
      /\ World.cells = cells /\ World.mem = mem /\ bt \in Bts
  BY <1>1, WorldOf
<1>3. bt' = BluetoothTxHandler(bt) /\ UNCHANGED <<im, rx, cells, mem, peer, job>>
  BY DEF TxDone
<1>4. bt' \in Bts /\ bt'.State = bt.State /\ bt'.Mode = bt.Mode
  BY <1>2, <1>3 DEF BluetoothTxHandler, Bts
<1>5. LinkOnly(World, v) /\ v.bt = bt' /\ v.rx = rx
  BY <1>2, <1>3, <1>4, DriverSet
<1> HIDE DEF v
<1>6. LinkOK(v)
  BY <1>1, <1>2, <1>4, <1>5 DEF LinkOK, LinkOnly, Fit
<1>7. Fit(v, job)
  BY <1>1, <1>2, <1>5, <1>6, OnlyLinkFit
<1>8. World' = v
  <2>1. v \in Infos /\ v.im = im /\ v.cells = cells /\ v.mem = mem
    BY <1>2, <1>5 DEF LinkOnly
  <2> QED BY <1>3, <1>5, <2>1, WorldStep
<1>9. (Fit(World, job))'
  BY <1>3, <1>7, <1>8
<1> QED BY <1>1, <1>3, <1>9 DEF InfoInv

(* The timers run only when the main loop rests: not with a record to be   *)
(* had.                                                                    *)
LEMMA TimerFit ==
  ASSUME NEW w, NEW j, Fit(w, j), ~w.im.CanSendData, ~Live(w.im),
         NEW v \in Infos, v.im = ImTimer(w.im), v.bt.State = w.bt.State, v.bt.Mode = w.bt.Mode,
         v.rx = w.rx, v.mem = w.mem, v.cells = w.cells
  PROVE  Fit(v, j) /\ v.im.ControlMode = w.im.ControlMode
<1> DEFINE p == w.im
           q == v.im
<1>1. w \in Infos /\ j \in Jobs /\ LinkOK(w) /\ LineOK(w, j) /\ ReadOK(w)
  BY DEF Fit
<1>2. p \in Ims
  BY <1>1, WorldTypes
<1> DEFINE t == IF p.Timer > 0 THEN p.Timer - 1 ELSE 0
<1>3. /\ q.ControlMode = p.ControlMode /\ q.RdBuffer = p.RdBuffer /\ q.Index = p.Index
      /\ q.CanSendData = p.CanSendData /\ q.IsBufReady = p.IsBufReady
      /\ q.CanReadNextRec = p.CanReadNextRec /\ q.PrevRecNum = p.PrevRecNum
      /\ q.EvLogMainCellRead = p.EvLogMainCellRead /\ q.EvLogBufCellRead = p.EvLogBufCellRead
      /\ \/ q.FuncState = p.FuncState /\ q.IsLogTransmit = p.IsLogTransmit
            /\ q.CurrentLogCnt = p.CurrentLogCnt
         \/ q.FuncState = imInit /\ q.IsLogTransmit = FALSE /\ q.CurrentLogCnt = 0
  <2>1. CASE t # 1
    <3>1. q = [p EXCEPT !.Timer = t]
      BY <2>1 DEF ImTimer
    <3> HIDE DEF q, t
    <3> QED BY <1>2, <3>1 DEF Ims
  <2>2. CASE t = 1
    <3>1. q = [p EXCEPT !.Timer = t, !.FuncState = imInit, !.CurrentLogCnt = 0,
                        !.CurrentLogRec = 0, !.IsLogTransmit = FALSE]
      BY <2>2 DEF ImTimer
    <3> HIDE DEF q, t
    <3> QED BY <1>2, <3>1 DEF Ims
  <2> QED BY <2>1, <2>2
<1>4. ~Live(q)
  BY <1>3 DEF Live
<1>5. LinkOK(v)
  BY <1>1, <1>3 DEF LinkOK
<1>6. LineOK(v, j)
  BY <1>1, <1>3 DEF LineOK, imIdle, imInit, imLogDownload
<1>7. DownloadOK(v, j)
  BY <1>4 DEF DownloadOK
<1>8. ReadOK(v)
  BY <1>1, <1>3, <1>4 DEF ReadOK, NotReading
<1>9. AnswerOK(v, j)
  BY <1>3 DEF AnswerOK
<1> QED BY <1>1, <1>3, <1>5, <1>6, <1>7, <1>8, <1>9 DEF Fit

LEMMA TimerTypes ==
  ASSUME NEW p \in Ims, NEW b \in Bts
  PROVE  /\ ImTimer(p) \in Ims
         /\ BtTimer(b) \in Bts /\ BtTimer(b).State = b.State /\ BtTimer(b).Mode = b.Mode
<1>1. ImTimer(p) \in Ims
  <2> DEFINE t == IF p.Timer > 0 THEN p.Timer - 1 ELSE 0
             q == ImTimer(p)
  <2>1. t \in Nat
    BY DEF Ims
  <2>2. CASE t # 1
    <3>1. q = [p EXCEPT !.Timer = t]
      BY <2>2 DEF ImTimer
    <3> HIDE DEF q, t
    <3>2. q \in Ims
      BY <2>1, <3>1 DEF Ims
    <3> QED BY <3>2 DEF q
  <2>3. CASE t = 1
    <3>1. q = [p EXCEPT !.Timer = t, !.FuncState = imInit, !.CurrentLogCnt = 0,
                        !.CurrentLogRec = 0, !.IsLogTransmit = FALSE]
      BY <2>3 DEF ImTimer
    <3> HIDE DEF q, t
    <3>2. q \in Ims
      BY <2>1, <3>1 DEF Ims, imInit
    <3> QED BY <3>2 DEF q
  <2> QED BY <2>2, <2>3
<1>2. BtTimer(b) \in Bts /\ BtTimer(b).State = b.State /\ BtTimer(b).Mode = b.Mode
  <2> DEFINE t == IF b.Timer > 0 THEN b.Timer - 1 ELSE b.Timer
  <2>1. t \in Nat
    BY DEF Bts
  <2>2. BtTimer(b) = [b EXCEPT !.Timer = t]
    BY DEF BtTimer
  <2> HIDE DEF t
  <2> QED BY <2>1, <2>2 DEF Bts
<1> QED BY <1>1, <1>2

LEMMA TickKeeps ==
  ASSUME InfoInv, Tick
  PROVE  InfoInv'
<1> DEFINE v == World'
<1>1. Fit(World, job) /\ im.ControlMode \in 0 .. 2 /\ peer \in Peers
  BY DEF InfoInv
<1>2. /\ World \in Infos /\ World.bt = bt /\ World.im = im /\ World.rx = rx
      /\ World.cells = cells /\ World.mem = mem
      /\ bt \in Bts /\ im \in Ims /\ rx \in BOOLEAN /\ cells \in Cells /\ mem \in Mems
  BY <1>1, WorldOf
<1>3. bt' = BtTimer(bt) /\ im' = ImTimer(im) /\ UNCHANGED <<rx, cells, mem, peer, job>>
  BY DEF Tick
<1>4. ~im.CanSendData /\ mem = Free /\ DownloadFunc(World) = World
  <2>1. Resting
    BY DEF Tick
  <2>2. Mode(1, World) = World
    BY <2>1 DEF Resting
  <2> QED BY <2>1, <2>2 DEF Resting, Mode
<1>5. ~Live(im)
  BY <1>1, <1>2, <1>4, DownloadGoesOn
<1>6. bt' \in Bts /\ bt'.State = bt.State /\ bt'.Mode = bt.Mode /\ im' \in Ims
  BY <1>2, <1>3, TimerTypes
<1>7. World' \in Infos
  BY <1>2, <1>3, <1>6 DEF World, Infos
<1>8. /\ v.im = ImTimer(im) /\ v.bt.State = bt.State /\ v.bt.Mode = bt.Mode
      /\ v.rx = rx /\ v.mem = mem /\ v.cells = cells /\ v.im = im'
  BY <1>3, <1>6 DEF World
<1>9. v \in Infos
  BY <1>7
<1> HIDE DEF v
<1>10. Fit(v, job) /\ v.im.ControlMode = im.ControlMode
  BY <1>1, <1>2, <1>4, <1>5, <1>8, <1>9, TimerFit
<1>11. (Fit(World, job))'
  BY <1>3, <1>10 DEF v
<1> QED BY <1>1, <1>3, <1>8, <1>10, <1>11 DEF InfoInv

-----------------------------------------------------------------------------
(* The memories.                                                           *)
LEMMA MemoryFit ==
  ASSUME NEW w, NEW j, Fit(w, j), NEW v \in Infos, v.im = w.im, v.bt = w.bt, v.rx = w.rx,
         \A log, r : Stage(w, log, r) => Stage(v, log, r),
         NotReading(w) => NotReading(v)
  PROVE  Fit(v, j)
<1>1. w \in Infos /\ j \in Jobs /\ LinkOK(w) /\ LineOK(w, j) /\ DownloadOK(w, j)
      /\ ReadOK(w) /\ AnswerOK(w, j)
  BY DEF Fit
<1>2. LinkOK(v) /\ LineOK(v, j) /\ DownloadOK(v, j) /\ AnswerOK(v, j)
  BY <1>1 DEF LinkOK, LineOK, DownloadOK, AnswerOK
<1>3. ReadOK(v)
  BY <1>1 DEF ReadOK
<1> QED BY <1>1, <1>2, <1>3 DEF Fit

LEMMA MemoryTaken ==
  ASSUME NEW w, NEW v, v.im = w.im, v.cells = w.cells, w.mem = Free, v.mem = Other
  PROVE  /\ \A log, r : Stage(w, log, r) => Stage(v, log, r)
         /\ NotReading(w) => NotReading(v)
<1>1. NotReading(w) /\ NotReading(v)
  BY DEF NotReading
<1>2. \A part, log, r : Have(w, part, log, r) <=> Have(v, part, log, r)
  BY DEF Have
<1>3. \A part, log, r : w.mem # <<part, log, r>>
  BY DEF Free
<1>4. \A part, log, r : Fetched(w, part, log, r) => Fetched(v, part, log, r)
  BY <1>1, <1>2, <1>3 DEF Fetched
<1>5. \A log, r : Stage(w, log, r) => Stage(v, log, r)
  BY <1>1, <1>2, <1>4 DEF Stage, EventStage, OtherStage
<1> QED BY <1>1, <1>5

(* What has been read falls into the cells it was asked for.               *)
LEMMA MemoryFreed ==
  ASSUME NEW w \in Infos, NEW v, v.im = w.im, w.mem # Free, v.mem = Free,
         v.cells = IF w.mem = Other THEN w.cells
                   ELSE [x \in Parts |-> IF x \in w.mem[1] THEN <<w.mem[2], w.mem[3]>>
                                         ELSE w.cells[x]]
  PROVE  /\ v.cells \in Cells
         /\ \A log, r : Stage(w, log, r) => Stage(v, log, r)
         /\ NotReading(w) => NotReading(v)
<1>1. w.cells \in [Parts -> Seq(Nat)] /\ w.mem \in Mems
  BY WorldTypes DEF Cells
<1>2. NotReading(v)
  BY DEF NotReading
<1>3. CASE w.mem = Other
  <2>1. v.cells = w.cells /\ NotReading(w)
    BY <1>3 DEF NotReading
  <2>2. \A part, log, r : Have(w, part, log, r) <=> Have(v, part, log, r)
    BY <2>1 DEF Have
  <2>3. \A part, log, r : w.mem # <<part, log, r>>
    BY <1>3 DEF Other
  <2>4. \A part, log, r : Fetched(w, part, log, r) => Fetched(v, part, log, r)
    BY <1>2, <2>2, <2>3 DEF Fetched
  <2>5. \A log, r : Stage(w, log, r) => Stage(v, log, r)
    BY <1>2, <2>2, <2>4 DEF Stage, EventStage, OtherStage
  <2> QED BY <1>1, <1>2, <2>1, <2>5 DEF Cells
<1>4. CASE w.mem # Other
  <2>1. PICK s \in SUBSET Parts, l \in Nat, n \in Nat : w.mem = <<s, l, n>>
    <3>1. w.mem \in (SUBSET Parts) \X Nat \X Nat
      BY <1>1, <1>4 DEF Mems
    <3>2. /\ w.mem = <<w.mem[1], w.mem[2], w.mem[3]>>
          /\ w.mem[1] \in SUBSET Parts /\ w.mem[2] \in Nat /\ w.mem[3] \in Nat
      BY <3>1
    <3> QED BY <3>2
  <2>2. v.cells = [x \in Parts |-> IF x \in s THEN <<l, n>> ELSE w.cells[x]]
    BY <1>4, <2>1
  <2>3. v.cells \in Cells
    <3> DEFINE t == <<l, n>>
    <3>1. t \in Seq(Nat)
      OBVIOUS
    <3>2. v.cells = [x \in Parts |-> IF x \in s THEN t ELSE w.cells[x]]
      BY <2>2
    <3> HIDE DEF t
    <3>3. \A x \in Parts : (IF x \in s THEN t ELSE w.cells[x]) \in Seq(Nat)
      BY <1>1, <3>1
    <3> QED BY <3>2, <3>3 DEF Cells
  <2>4. ~NotReading(w)
    BY <1>4 DEF NotReading
  <2>5. \A part, log, r : part \subseteq Parts /\ Fetched(w, part, log, r)
                            => Fetched(v, part, log, r)
    <3> SUFFICES ASSUME NEW part, NEW log, NEW r, part \subseteq Parts, Fetched(w, part, log, r)
                 PROVE  Fetched(v, part, log, r)
      OBVIOUS
    <3>1. s = part /\ l = log /\ n = r
      BY <2>1, <2>4 DEF Fetched
    <3>2. Have(v, part, log, r)
      BY <2>2, <3>1 DEF Have
    <3> QED BY <1>2, <3>2 DEF Fetched
  <2>6. \A part, log, r : part \subseteq Parts /\ Have(w, part, log, r)
                            /\ (\E any : Fetched(w, any, log, r))
                            => Have(v, part, log, r)
    <3> SUFFICES ASSUME NEW part, NEW log, NEW r, NEW any, part \subseteq Parts,
                        Have(w, part, log, r), Fetched(w, any, log, r)
                 PROVE  Have(v, part, log, r)
      OBVIOUS
    <3>1. l = log /\ n = r
      BY <2>1, <2>4 DEF Fetched
    <3> QED BY <2>2, <3>1 DEF Have
  <2>7. \A log, r : /\ Words(log, r) \subseteq Parts /\ MainPart(log, r) \subseteq Parts
                    /\ CellPart(log, r) \subseteq Parts
    BY WordsAreParts DEF MainPart, CellPart
  <2>8. ASSUME NEW log, NEW r, Stage(w, log, r)
        PROVE  Stage(v, log, r)
    <3>1. CASE log = IM_LOGEV_TYPE
      <4>1. EventStage(w, log, r)
        BY <2>8, <3>1 DEF Stage
      <4>2. EventStage(v, log, r)
        BY <2>4, <2>5, <2>6, <2>7, <4>1 DEF EventStage
      <4> QED BY <3>1, <4>2 DEF Stage
    <3>2. CASE log # IM_LOGEV_TYPE
      <4>1. OtherStage(w, log, r)
        BY <2>8, <3>2 DEF Stage
      <4>2. OtherStage(v, log, r)
        BY <2>4, <2>5, <2>7, <4>1 DEF OtherStage
      <4> QED BY <3>2, <4>2 DEF Stage
    <3> QED BY <3>1, <3>2
  <2> QED BY <1>2, <2>3, <2>8
<1> QED BY <1>3, <1>4

LEMMA MemoryKeeps ==
  ASSUME InfoInv, OthersRead \/ MemoryDone
  PROVE  InfoInv'
<1> DEFINE v == World'
<1>1. Fit(World, job) /\ im.ControlMode \in 0 .. 2 /\ peer \in Peers
  BY DEF InfoInv
<1>2. /\ World \in Infos /\ World.bt = bt /\ World.im = im /\ World.rx = rx
      /\ World.cells = cells /\ World.mem = mem
      /\ bt \in Bts /\ im \in Ims /\ rx \in BOOLEAN /\ cells \in Cells /\ mem \in Mems
  BY <1>1, WorldOf
<1>3. v.im = im' /\ v.bt = bt' /\ v.rx = rx' /\ v.cells = cells' /\ v.mem = mem'
  BY DEF World
<1>4. UNCHANGED <<bt, im, rx, job>>
  BY DEF OthersRead, MemoryDone
<1>5. peer' \in Peers
  <2>1. CASE OthersRead
    <3>1. peer' = [peer EXCEPT !.others = @ + 1]
      BY <2>1 DEF OthersRead
    <3> QED BY <1>1, <3>1 DEF Peers
  <2>2. CASE MemoryDone
    BY <1>1, <2>2 DEF MemoryDone
  <2> QED BY <2>1, <2>2
<1>6. /\ cells' \in Cells /\ mem' \in Mems
      /\ \A log, r : Stage(World, log, r) => Stage(v, log, r)
      /\ NotReading(World) => NotReading(v)
  <2>1. CASE OthersRead
    <3>1. mem = Free /\ mem' = Other /\ cells' = cells
      BY <2>1 DEF OthersRead
    <3> HIDE DEF v
    <3> QED BY <1>2, <1>3, <1>4, <3>1, MemoryTaken DEF Mems
  <2>2. CASE MemoryDone
    <3>1. /\ mem # Free /\ mem' = Free
          /\ cells' = IF mem = Other THEN cells
                      ELSE [x \in Parts |-> IF x \in mem[1] THEN <<mem[2], mem[3]>>
                                            ELSE cells[x]]
      BY <2>2 DEF MemoryDone
    <3> HIDE DEF v
    <3> QED BY <1>2, <1>3, <1>4, <3>1, MemoryFreed DEF Mems
  <2> QED BY <2>1, <2>2
<1>7. v \in Infos
  BY <1>2, <1>4, <1>6 DEF World, Infos
<1> HIDE DEF v
<1>8. Fit(v, job)
  BY <1>1, <1>2, <1>3, <1>4, <1>6, <1>7, MemoryFit
<1>9. (Fit(World, job))'
  BY <1>4, <1>8 DEF v
<1> QED BY <1>1, <1>4, <1>5, <1>9 DEF InfoInv

-----------------------------------------------------------------------------
(* The peer.                                                               *)
LEMMA TextsOfPeer ==
  ASSUME peer \in Peers
  PROVE  /\ peer.out \o NO_CARRIER \o <<LineEnd>> \in Seq(Nat)
         /\ <<0, LineEnd>> \in Seq(Nat) /\ <<0, LineEnd, 0, LineEnd>> \in Seq(Nat)
         /\ <<RING, LineEnd>> \in Seq(Nat)
         /\ Requests \subseteq Seq(Nat)
<1>1. peer.out \in Seq(Nat) /\ NO_CARRIER \in Seq(Nat) /\ LineEnd \in Nat /\ RING \in Nat
  BY BluetoothAssumption DEF Peers
<1>2. <<LineEnd>> \in Seq(Nat)
  BY <1>1
<1>3. peer.out \o NO_CARRIER \in Seq(Nat)
  BY <1>1
<1>4. (peer.out \o NO_CARRIER) \o <<LineEnd>> \in Seq(Nat)
  BY <1>2, <1>3
<1> QED BY <1>1, <1>4, InfoAssumption

LEMMA EndOfConnection ==
  ASSUME peer \in Peers
  PROVE  Disconnected \in Peers
<1>1. peer.out \o NO_CARRIER \o <<LineEnd>> \in Seq(Nat)
  BY TextsOfPeer
<1> DEFINE text == peer.out \o NO_CARRIER \o <<LineEnd>>
<1>2. Disconnected = [peer EXCEPT !.on = FALSE, !.asked = NoRequest, !.out = text]
  BY DEF Disconnected
<1> HIDE DEF text
<1>3. text \in Seq(Nat)
  BY <1>1 DEF text
<1> QED BY <1>2, <1>3 DEF Peers

LEMMA PeerKeeps ==
  ASSUME InfoInv, RxError \/ ModuleAnswers \/ Connect \/ Ask \/ Break \/ GiveUp
  PROVE  InfoInv'
<1>1. peer \in Peers
  BY DEF InfoInv
<1>2. UNCHANGED <<bt, im, rx, cells, mem, job>>
  BY DEF RxError, ModuleAnswers, Connect, Ask, Break, GiveUp
<1>3. peer' \in Peers
  <2>1. CASE RxError
    <3> DEFINE text == Tail(peer.out)
    <3>1. text \in Seq(Nat)
      BY <1>1, <2>1, NextByte DEF RxError
    <3> DEFINE n == peer.faults + 1
    <3>2. peer' = [peer EXCEPT !.out = text, !.seen = FALSE, !.faults = n]
      BY <2>1 DEF RxError
    <3>3. n \in Nat
      BY <1>1 DEF Peers
    <3> HIDE DEF text, n
    <3> QED BY <1>1, <3>1, <3>2, <3>3 DEF Peers
  <2>2. CASE ModuleAnswers
    <3>1. PICK text \in {<<0, LineEnd>>, <<0, LineEnd, 0, LineEnd>>} :
            peer' = [peer EXCEPT !.owed = FALSE, !.out = text]
      BY <2>2 DEF ModuleAnswers
    <3>2. text \in Seq(Nat)
      BY <1>1, TextsOfPeer
    <3> QED BY <1>1, <3>1, <3>2 DEF Peers
  <2>3. CASE Connect
    <3> DEFINE text == <<RING, LineEnd>>
    <3>1. peer' = [peer EXCEPT !.on = TRUE, !.out = text]
      BY <2>3 DEF Connect
    <3>2. text \in Seq(Nat)
      BY <1>1, TextsOfPeer
    <3> HIDE DEF text
    <3> QED BY <1>1, <3>1, <3>2 DEF Peers
  <2>4. CASE Ask
    <3>1. PICK r \in Requests : peer' = [peer EXCEPT !.asked = r, !.out = r, !.others = 0]
      BY <2>4 DEF Ask
    <3>2. r \in Seq(Nat)
      BY <1>1, TextsOfPeer
    <3> QED BY <1>1, <3>1, <3>2 DEF Peers
  <2>5. CASE Break
    <3> DEFINE d == Disconnected
               n == peer.faults + 1
    <3>1. peer' = [d EXCEPT !.faults = n]
      <4>1. peer' = [d EXCEPT !.faults = d.faults + 1]
        BY <2>5 DEF Break
      <4>2. d.faults = peer.faults
        BY <1>1 DEF Disconnected, Peers
      <4> HIDE DEF d
      <4> QED BY <4>1, <4>2
    <3>2. d \in Peers
      BY <1>1, EndOfConnection
    <3>3. n \in Nat
      BY <1>1 DEF Peers
    <3> HIDE DEF d, n
    <3> QED BY <3>1, <3>2, <3>3 DEF Peers
  <2>6. CASE GiveUp
    <3> DEFINE d == Disconnected
    <3>1. peer' = IF peer.again THEN [d EXCEPT !.again = FALSE]
                  ELSE [peer EXCEPT !.asked = NoRequest, !.again = TRUE]
      BY <2>6 DEF GiveUp
    <3>2. d \in Peers
      BY <1>1, EndOfConnection
    <3> HIDE DEF d
    <3>3. CASE peer.again
      BY <3>1, <3>2, <3>3 DEF Peers
    <3>4. CASE ~peer.again
      BY <1>1, <3>1, <3>4 DEF Peers
    <3> QED BY <3>3, <3>4
  <2> QED BY <2>1, <2>2, <2>3, <2>4, <2>5, <2>6
<1> QED BY <1>2, <1>3, OnlyPeer

-----------------------------------------------------------------------------
LEMMA DriverStarts ==
  /\ BTWT41_DEFAULT \in Bts
  /\ BTWT41_DEFAULT.State = 0 /\ BTWT41_DEFAULT.Mode = "command"
<1>1. [i \in 0 .. BT_RX_BUFFER_SIZE - 1 |-> 0] \in [0 .. BT_RX_BUFFER_SIZE - 1 -> Nat]
  OBVIOUS
<1> QED BY <1>1, LinkWords DEF BTWT41_DEFAULT, Bts

LEMMA ModuleStarts ==
  /\ IM_DEFAULT \in Ims
  /\ IM_DEFAULT.RdBuffer[0] = 0
<1> DEFINE b == [i \in 0 .. IM_RD_BUFFER_SIZE - 1 |-> 0]
<1>1. b \in Buffers /\ b[0] = 0
  <2>1. 0 \in 0 .. IM_RD_BUFFER_SIZE - 1
    BY InfoAssumption
  <2> QED BY <2>1 DEF Buffers
<1>2. 0 \in Answers
  BY DEF Answers
<1>3. IM_DEFAULT.RdBuffer = b
  BY DEF IM_DEFAULT
<1> HIDE DEF b
<1>4. IM_DEFAULT \in Ims
  BY <1>1, <1>2 DEF IM_DEFAULT, Ims, imInit, b
<1> QED BY <1>1, <1>3, <1>4

LEMMA InfoStarts ==
  ASSUME InfoInit
  PROVE  InfoInv
<1>1. /\ World.bt = BTWT41_DEFAULT /\ World.im = IM_DEFAULT
      /\ World.cells = [x \in Parts |-> <<>>] /\ World.mem = Free
  BY DEF InfoInit, World
<1>2. World \in Infos
  <2>1. [x \in Parts |-> <<>>] \in Cells
    BY DEF Cells
  <2> QED BY <2>1, DriverStarts, ModuleStarts DEF InfoInit, World, Infos, Mems
<1>3. job \in Jobs
  <2>1. NoRequest \in Seq(Nat)
    BY DEF NoRequest
  <2> QED BY <2>1 DEF InfoInit, Jobs
<1>4. /\ IM_DEFAULT.CanSendData = FALSE /\ IM_DEFAULT.FuncState = imInit
      /\ IM_DEFAULT.IsLogTransmit = FALSE /\ IM_DEFAULT.IsBufReady = FALSE
      /\ IM_DEFAULT.CanReadNextRec = FALSE /\ IM_DEFAULT.PrevRecNum # 0
      /\ IM_DEFAULT.EvLogMainCellRead = FALSE /\ IM_DEFAULT.EvLogBufCellRead = FALSE
      /\ IM_DEFAULT.ControlMode = 0
  BY DEF IM_DEFAULT
<1>5. LinkOK(World)
  BY <1>1, <1>4, DriverStarts, ModuleStarts DEF LinkOK
<1>6. LineOK(World, job)
  BY <1>1, <1>4 DEF LineOK, imIdle, imInit, imLogDownload
<1>7. ~Live(World.im)
  BY <1>1, <1>4 DEF Live
<1>8. DownloadOK(World, job) /\ ReadOK(World) /\ AnswerOK(World, job)
  BY <1>1, <1>4, <1>7 DEF DownloadOK, ReadOK, AnswerOK, NotReading
<1>9. peer \in Peers
  <2>1. NoRequest \in Seq(Nat) /\ NoRequest \in Requests \cup {NoRequest}
    BY DEF NoRequest
  <2>2. peer = [on |-> FALSE, owed |-> FALSE, out |-> NoRequest, asked |-> NoRequest,
                answered |-> FALSE, again |-> FALSE, seen |-> TRUE, others |-> 0, faults |-> 0]
    BY DEF InfoInit, NoRequest
  <2> QED BY <2>1, <2>2 DEF Peers
<1>10. im.ControlMode = 0
  BY <1>4 DEF InfoInit
<1> QED BY <1>2, <1>3, <1>5, <1>6, <1>8, <1>9, <1>10 DEF InfoInv, Fit

LEMMA InfoStep ==
  ASSUME InfoInv, NoSingleRecord, [InfoNext]_infoVars
  PROVE  InfoInv'
<1>1. CASE UNCHANGED infoVars
  BY <1>1 DEF infoVars, InfoInv, World
<1>2. CASE InfoNext
  BY <1>2, PassKeeps, RxByteKeeps, TxDoneKeeps, TickKeeps, MemoryKeeps, PeerKeeps DEF InfoNext
<1> QED BY <1>1, <1>2

LEMMA FitIsTrue ==
  ASSUME InfoInv
  PROVE  RecordTrue
  BY DEF InfoInv, Fit, AnswerOK, World, RecordTrue

(* RecordTrue: a record that is sent carries the next number of the        *)
(* download and nothing but the words of that record of the journal asked  *)
(* for, whatever is asked, lost, broken off or read by others in between,  *)
(* unless somebody asks for one single record.                             *)
THEOREM RecordsAreTrue == InfoSpec /\ []NoSingleRecord => []RecordTrue
<1>1. InfoInit => InfoInv
  BY InfoStarts
<1>2. InfoInv /\ NoSingleRecord /\ [InfoNext]_infoVars => InfoInv'
  BY InfoStep
<1>3. InfoInv => RecordTrue
  BY FitIsTrue
<1> QED BY <1>1, <1>2, <1>3, PTL DEF InfoSpec
=============================================================================
