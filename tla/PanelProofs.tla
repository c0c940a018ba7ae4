----------------------------- MODULE PanelProofs -----------------------------
(***************************************************************************)
(* The theorems about Panel, for every length of the task lists, of the    *)
(* messages and of the receiver's times but what the theorem itself says,  *)
(* and for every way the keys of the remote control may be enabled.        *)
(***************************************************************************)
EXTENDS Panel, TLAPS

(* The steps that the key of the remote control does not take part in.     *)
LEMMA OtherSteps ==
  ASSUME [Next]_vars
  PROVE  \/ PultKeyExecute \/ LocalControl \/ MpuControl \/ AddControl \/ AddControlHeld
         \/ LineSettles
         \/ /\ UNCHANGED <<PultKey, PduKey, confirm>>
            /\ \/ UNCHANGED <<receiver, capTimer>>
               \/ receiver # "settle" /\ capTimer' = 0
            /\ turn' # "valve" \/ turn' = turn
<1>1. CASE MenuTask \/ TypeTask
  BY <1>1 DEF MenuTask, TypeTask, rx, mpu
<1>2. CASE FrameBegins \/ BitCaptured \/ FrameCaptured
  BY <1>2 DEF FrameBegins, BitCaptured, FrameCaptured, OnLine, Capture, Elsewhere, mpu
<1>3. CASE Noise
  BY <1>3 DEF Noise, Capture, Elsewhere, mpu
<1>4. CASE Outside
  BY <1>4 DEF Outside, Handle, Switch, ClbControl, rx, mpu
<1>5. CASE UNCHANGED vars
  BY <1>5 DEF vars, rx, mpu
<1> QED BY <1>1, <1>2, <1>3, <1>4, <1>5 DEF Next, Tasks, Receiver

-----------------------------------------------------------------------------
(* A key that waits to be taken was received so lately that the line has   *)
(* not settled since, so that no other frame can be under way.             *)
SettleInv ==
  /\ capTimer \in Nat
  /\ PultKey # "none" =>
       receiver = "settle" /\ capTimer <= (IF turn = "valve" THEN 0 ELSE 1)

LEMMA SettleNext ==
  ASSUME PRE \in Nat, PRE > 1, PULT_CAP_RESET \in Nat, SettleInv, [Next]_vars
  PROVE  /\ SettleInv'
         /\ PultKey # "none" => PultKey' \in {PultKey, "none"}
<1>1. CASE PultKeyExecute
  BY <1>1 DEF PultKeyExecute, Capture, Elsewhere, SettleInv
<1>2. CASE LocalControl
  <2>1. PultKey' = "none" /\ UNCHANGED rx
    BY <1>2 DEF LocalControl
  <2> QED BY <2>1 DEF SettleInv, rx
<1>3. CASE MpuControl
  <2>1. PultKey' = PultKey /\ turn = "valve" /\ turn' # "valve" /\ PultTimer
    BY <1>3 DEF MpuControl
  <2>2. receiver = "settle"
          => receiver' = receiver /\ capTimer' \in {capTimer, capTimer + 1}
    BY <2>1 DEF PultTimer
  <2>3. capTimer' \in Nat
    BY <2>1 DEF PultTimer, Capture, SettleInv
  <2> QED BY <2>1, <2>2, <2>3 DEF SettleInv
<1>4. CASE AddControl \/ AddControlHeld
  <2>1. PultKey' \in {PultKey, "none"} /\ UNCHANGED rx /\ turn = "add" /\ turn' = "local"
    BY <1>4 DEF AddControl, AddControlHeld, BesidesScreen
  <2> QED BY <2>1 DEF SettleInv, rx
<1>5. CASE LineSettles
  BY <1>5 DEF LineSettles, OnLine, Capture, Elsewhere, SettleInv
<1>6. CASE /\ UNCHANGED <<PultKey, PduKey, confirm>>
           /\ \/ UNCHANGED <<receiver, capTimer>>
              \/ receiver # "settle" /\ capTimer' = 0
           /\ turn' # "valve" \/ turn' = turn
  BY <1>6 DEF SettleInv
<1> QED BY <1>1, <1>2, <1>3, <1>4, <1>5, <1>6, OtherSteps

(***************************************************************************)
(* No key of the remote control is overwritten before it has been taken    *)
(* (pult.c 115), as long as the line has to be quiet for two periods of    *)
(* the 50 Hz list before a frame: the firmware asks for 50 ms.  With one   *)
(* period a key received between LocalControl and PultTimer could be lost. *)
(***************************************************************************)
THEOREM NoKeyOverwritten ==
  ASSUME PRE > 1
  PROVE  Spec => KeysInTime
<1>1. PRE \in Nat /\ PULT_CAP_RESET \in Nat
  BY PanelAssumption
<1>2. PanelInit => SettleInv
  BY DEF PanelInit, SettleInv
<1>3. SettleInv /\ [Next]_vars => SettleInv'
  BY <1>1, SettleNext
<1>4. SettleInv /\ [Next]_vars
        => [PultKey # "none" => PultKey' \in {PultKey, "none"}]_vars
  BY <1>1, SettleNext
<1> QED BY <1>2, <1>3, <1>4, PTL DEF Spec, KeysInTime

-----------------------------------------------------------------------------
(* The confirmation.  While ENTER is awaited a movement is saved.          *)
SavedInv ==
  /\ WaitConfirmFlag \in BOOLEAN
  /\ WaitConfirmFlag => savedCommand \in Moves

LEMMA MovesAreKeys == "none" \notin Moves /\ "enter" \notin Moves
  BY DEF Moves

(* What a key does to the wait and to the key that is passed on.           *)
LEMMA KeyTaken ==
  ASSUME SavedInv, EnableControlPDU = "confirm", NEW k,
         PduKey' = PduKeysControls(k).key, savedCommand' = PduKeysControls(k).saved,
         WaitConfirmFlag' = PduKeysControls(k).wait
  PROVE  /\ SavedInv'
         /\ \/ /\ k \in Moves /\ Asked = "none"
               /\ Asked' = k /\ Granted' = "none"
            \/ /\ k = "enter" /\ Asked # "none"
               /\ Granted' = Asked /\ Asked' = "none"
            \/ Asked' \in {Asked, "none"} /\ Granted' = "none"
<1> DEFINE filter == k \in Moves /\ ~MuDu
           asking == ~filter /\ MuDu
<1>1. /\ PduKey' = IF filter \/ (asking /\ (k \in Moves \/ WaitConfirmFlag))
                   THEN IF asking /\ WaitConfirmFlag /\ k = "enter" THEN savedCommand ELSE "none"
                   ELSE k
      /\ savedCommand' = IF asking /\ ~WaitConfirmFlag /\ k \in Moves THEN k
                         ELSE IF asking THEN "none" ELSE savedCommand
      /\ WaitConfirmFlag' = IF asking THEN ~WaitConfirmFlag /\ k \in Moves ELSE WaitConfirmFlag
  BY DEF PduKeysControls
<1>2. CASE ~asking
  <2>1. PduKey' \in {"none", k} /\ (k \in Moves => PduKey' = "none")
    BY <1>1, <1>2
  <2>2. UNCHANGED <<savedCommand, WaitConfirmFlag>>
    BY <1>1, <1>2
  <2> QED BY <2>1, <2>2, MovesAreKeys DEF Asked, Granted, InConfirm, SavedInv
<1>3. CASE asking /\ WaitConfirmFlag
  <2>1. PduKey' = (IF k = "enter" THEN savedCommand ELSE "none") /\ WaitConfirmFlag' = FALSE
    BY <1>1, <1>3
  <2> QED BY <1>3, <2>1, MovesAreKeys DEF Asked, Granted, InConfirm, SavedInv
<1>4. CASE asking /\ ~WaitConfirmFlag
  <2>1. CASE k \in Moves
    <3>1. PduKey' = "none" /\ savedCommand' = k /\ WaitConfirmFlag' = TRUE
      BY <1>1, <1>4, <2>1
    <3> QED BY <1>4, <2>1, <3>1, MovesAreKeys DEF Asked, Granted, InConfirm, SavedInv
  <2>2. CASE k \notin Moves
    <3>1. PduKey' = k /\ WaitConfirmFlag' = FALSE
      BY <1>1, <1>4, <2>2
    <3> QED BY <1>4, <2>2, <3>1, MovesAreKeys DEF Asked, Granted, InConfirm, SavedInv
  <2> QED BY <2>1, <2>2
<1> QED BY <1>2, <1>3, <1>4 DEF SavedInv

LEMMA LocalControlConfirms ==
  ASSUME SavedInv, EnableControlPDU = "confirm", LocalControl
  PROVE  SavedInv' /\ [Confirmed!Next]_(Confirmed!vars)
<1>1. PultKey' = "none"
  BY DEF LocalControl
<1>2. CASE PultKey = "none"
  <2>1. UNCHANGED <<PduKey, savedCommand, WaitConfirmFlag>>
    BY <1>2 DEF LocalControl, confirm
  <2> QED BY <1>1, <1>2, <2>1 DEF SavedInv, Asked, Granted, Confirmed!vars
<1>3. CASE PultKey # "none"
  <2>1. /\ PduKey' = PduKeysControls(PultKey).key
        /\ savedCommand' = PduKeysControls(PultKey).saved
        /\ WaitConfirmFlag' = PduKeysControls(PultKey).wait
    BY <1>3 DEF LocalControl
  <2>2. /\ SavedInv'
        /\ \/ /\ PultKey \in Moves /\ Asked = "none"
              /\ Asked' = PultKey /\ Granted' = "none"
           \/ /\ PultKey = "enter" /\ Asked # "none"
              /\ Granted' = Asked /\ Asked' = "none"
           \/ Asked' \in {Asked, "none"} /\ Granted' = "none"
    BY <2>1, KeyTaken
  <2> QED BY <1>1, <2>2
          DEF Confirmed!Next, Confirmed!Ask, Confirmed!Grant, Confirmed!Forget
<1> QED BY <1>2, <1>3

LEMMA ShowMessageForgets ==
  ASSUME SavedInv, ShowMessage
  PROVE  SavedInv' /\ Asked' \in {Asked, "none"}
<1>1. CASE WaitConfirmFlag
  <2>1. PICK last \in BOOLEAN : /\ WaitConfirmFlag' = ~last
                                /\ savedCommand' = IF last THEN "none" ELSE savedCommand
    <3> DEFINE late == CancelTimer + 1 >= CONFIRM_TOUT
    <3>1. /\ WaitConfirmFlag' = ~late
          /\ savedCommand' = IF late THEN "none" ELSE savedCommand
      BY <1>1 DEF ShowMessage
    <3>2. late \in BOOLEAN
      OBVIOUS
    <3> HIDE DEF late
    <3> QED BY <3>1, <3>2
  <2> QED BY <1>1, <2>1 DEF SavedInv, Asked, InConfirm
<1>2. CASE ~WaitConfirmFlag
  BY <1>2 DEF ShowMessage, SavedInv, Asked, InConfirm
<1> QED BY <1>1, <1>2

LEMMA ConfirmationStep ==
  ASSUME SavedInv, [Next]_vars
  PROVE  SavedInv' /\ [Confirmed!Next]_(Confirmed!vars)
<1>1. CASE UNCHANGED <<PultKey, PduKey, savedCommand, WaitConfirmFlag>>
  BY <1>1 DEF SavedInv, Asked, Granted, Confirmed!vars
<1>2. CASE PultKeyExecute
  <2>1. UNCHANGED <<PduKey, savedCommand, WaitConfirmFlag>> /\ PultKey' \in Remote \cup {PultKey}
    BY <1>2 DEF PultKeyExecute, Elsewhere, mpu, confirm
  <2>2. "none" \notin Remote
    BY PanelAssumption
  <2>3. Asked' = Asked /\ Granted' = Granted /\ SavedInv'
    BY <2>1 DEF SavedInv, Asked, Granted
  <2> QED BY <2>1, <2>2, <2>3 DEF Confirmed!Next, Confirmed!Press, Confirmed!vars
<1>3. CASE LocalControl /\ EnableControlPDU = "confirm"
  BY <1>3, LocalControlConfirms
<1>4. ASSUME PultKey' \in {PultKey, "none"}, Asked' \in {Asked, "none"}, Granted' \in {Granted, "none"}
      PROVE  [Confirmed!Next]_(Confirmed!vars)
  BY <1>4 DEF Confirmed!Next, Confirmed!Forget
<1>5. CASE MpuControl
  <2>1. UNCHANGED <<PultKey, savedCommand, WaitConfirmFlag>> /\ PduKey' \in {PduKey, "none"}
    BY <1>5 DEF MpuControl, confirm
  <2>2. Asked' = Asked /\ Granted' \in {Granted, "none"} /\ SavedInv'
    BY <2>1, MovesAreKeys DEF SavedInv, Asked, Granted, InConfirm
  <2> QED BY <1>4, <2>1, <2>2
<1>6. CASE AddControl \/ AddControlHeld
  <2>1. PultKey' \in {PultKey, "none"} /\ PduKey' = PduKey
    BY <1>6 DEF AddControl, AddControlHeld, BesidesScreen, mpu
  <2>2. SavedInv' /\ Asked' \in {Asked, "none"}
    <3>1. ShowMessage \/ UNCHANGED <<savedCommand, WaitConfirmFlag>>
      BY <1>6 DEF AddControl, AddControlHeld, confirm
    <3> QED BY <3>1, ShowMessageForgets DEF SavedInv, Asked
  <2>3. Granted' = Granted
    BY <2>1 DEF Granted
  <2> QED BY <1>4, <2>1, <2>2, <2>3
<1>7. CASE LocalControl /\ EnableControlPDU # "confirm"
  <2>1. PultKey' = "none" /\ UNCHANGED <<savedCommand, WaitConfirmFlag>>
    BY <1>7 DEF LocalControl, PduKeysControls, confirm
  <2>2. SavedInv' /\ Asked' = Asked /\ Granted' = Granted
    BY <1>7, <2>1 DEF SavedInv, Asked, Granted, InConfirm
  <2> QED BY <1>4, <2>1, <2>2
<1>8. CASE LineSettles
  <2>1. UNCHANGED <<PultKey, PduKey, savedCommand, WaitConfirmFlag>>
    BY <1>8 DEF LineSettles, OnLine, Elsewhere, mpu, confirm
  <2> QED BY <1>1, <2>1
<1> QED BY <1>1, <1>2, <1>3, <1>5, <1>6, <1>7, <1>8, OtherSteps DEF confirm

(***************************************************************************)
(* A movement by the remote control is granted only when it was asked for, *)
(* nothing took its place and ENTER followed while it was awaited          *)
(* (interface.c 1359), with messages dropping keys, the switch turned and  *)
(* the editing of a parameter holding the command back.                    *)
(***************************************************************************)
THEOREM ConfirmationKept == Spec => ConfirmationSpec
<1>1. PanelInit => SavedInv
  BY DEF PanelInit, SavedInv
<1>2. PanelInit => Confirmed!Init
  BY MovesAreKeys DEF PanelInit, Confirmed!Init, Asked, Granted, InConfirm
<1>3. SavedInv /\ [Next]_vars => SavedInv'
  BY ConfirmationStep
<1>4. SavedInv /\ [Next]_vars => [Confirmed!Next]_(Confirmed!vars)
  BY ConfirmationStep
<1> QED BY <1>1, <1>2, <1>3, <1>4, PTL DEF Spec, ConfirmationSpec, Confirmed!Spec
=============================================================================
