------------------------------ MODULE Bluetooth ------------------------------
(***************************************************************************)
(* The driver of the Bluetooth module WT41, src/src/comm/btwt41.c: it      *)
(* configures the module by text commands, waits for a connection, and     *)
(* passes the bytes of a connection on until the module says that it is    *)
(* over.  The serial line works in one direction at a time.                *)
(*                                                                         *)
(* An operator takes a world w, which has the driver (w.bt) and the        *)
(* receiver of the line (w.rx), to the next one.  A text is a sequence of  *)
(* a few bytes: all commands are as long as COMMAND says, and the word     *)
(* RING is one byte.                                                       *)
(***************************************************************************)
EXTENDS Naturals, Sequences

CONSTANTS
  COMMAND,            \* bytes of a command
  BT_TIMER,           \* calls of BtTimer after the start
  BT_RX_BUFFER_SIZE,
  RING, LineEnd,
  NO_CARRIER          \* the text that reports the end of a connection

ASSUME BluetoothAssumption ==
  /\ {COMMAND, BT_TIMER, BT_RX_BUFFER_SIZE} \subseteq Nat \ {0}
  /\ NO_CARRIER \in Seq(Nat) /\ Len(NO_CARRIER) > 1
  /\ RING \in Nat /\ LineEnd \in Nat

BTWT41_DEFAULT ==
  [State |-> 0, CmdState |-> 0, Status |-> "idle", Mode |-> "command",
   StrIndex |-> 0, Timer |-> 0, TxBusy |-> FALSE, RxState |-> 0,
   RxBuffer |-> [i \in 0..BT_RX_BUFFER_SIZE - 1 |-> 0]]

ClearValues(b) == [b EXCEPT !.StrIndex = 0, !.CmdState = 0, !.Status = "idle"]

\* SendOneString and SendTwoString: a symbol as soon as the last one is gone
SendString(b) ==
  CASE b.TxBusy -> b
    [] ~b.TxBusy /\ b.StrIndex = COMMAND ->
         [b EXCEPT !.Status = "sent", !.StrIndex = 0]
    [] OTHER -> [b EXCEPT !.StrIndex = @ + 1, !.Status = "sending", !.TxBusy = TRUE]

\* The line is turned, the command sent, the line turned back and a line of
\* the module awaited, for ever if need be.
SendCommand(w) ==
  LET b == w.bt IN
  CASE b.CmdState = 0 ->
         [w EXCEPT !.rx = FALSE, !.bt.StrIndex = 0, !.bt.CmdState = 1]
    [] b.CmdState = 1 ->
         LET s == SendString(b)
         IN [w EXCEPT !.bt = IF s.Status = "sent" THEN [s EXCEPT !.CmdState = 2] ELSE s]
    [] b.CmdState = 2 ->
         [w EXCEPT !.rx = TRUE, !.bt.StrIndex = 0, !.bt.CmdState = 3]
    [] b.CmdState = 3 /\ b.Status = "got" -> [w EXCEPT !.bt.CmdState = 4]
    [] OTHER -> w

\* The end of every state of the set-up
Onwards(w, cond) ==
  IF cond THEN [w EXCEPT !.bt = ClearValues([w.bt EXCEPT !.State = @ + 1])] ELSE w

\* CheckString(p, "RING"): anywhere in the buffer, older lines included
RingHeard(b) == \E i \in DOMAIN b.RxBuffer : b.RxBuffer[i] = RING

AwaitRing(b) ==
  CASE b.Status # "got" -> b
    [] b.Status = "got" /\ RingHeard(b) -> [b EXCEPT !.StrIndex = 0, !.State = 8]
    [] OTHER -> ClearValues(b)

BtWTUpdate(w) ==
  CASE w.bt.State = 0 ->
         [w EXCEPT !.rx = TRUE, !.bt.Timer = BT_TIMER, !.bt.State = 1]
    [] w.bt.State = 1 -> Onwards(w, w.bt.Timer = 0)
    [] w.bt.State \in 2..6 -> LET s == SendCommand(w) IN Onwards(s, s.bt.Status = "got")
    [] w.bt.State = 7 -> [w EXCEPT !.bt = AwaitRing(@)]
    [] w.bt.State = 8 -> Onwards([w EXCEPT !.bt.Mode = "data"], TRUE)
    [] w.bt.State = 9 /\ w.bt.Mode = "command" ->
         [w EXCEPT !.bt = [ClearValues(@) EXCEPT !.State = 7]]
    [] OTHER -> w

\* The cell after the last one may be written too; it is not the driver's.
RxCommandMode(b, Data) ==
  [b EXCEPT !.RxBuffer = [i \in DOMAIN @ |-> IF i = b.StrIndex THEN Data ELSE @[i]],
            !.Status = IF Data = LineEnd THEN "got" ELSE "getting",
            !.StrIndex = IF @ > BT_RX_BUFFER_SIZE THEN @ ELSE @ + 1]

\* RxState is advanced before it is compared, so that the text is recognised
\* by its second letter and those after it.
RxDataMode(b, Data) ==
  LET n == b.RxState + 1 IN
  CASE Data # NO_CARRIER[n + 1] -> [b EXCEPT !.RxState = 0]
    [] Data = NO_CARRIER[n + 1] /\ n + 1 = Len(NO_CARRIER) ->
         [b EXCEPT !.RxState = 0, !.Mode = "command"]
    [] OTHER -> [b EXCEPT !.RxState = n]

BtTimer(b) == [b EXCEPT !.Timer = IF @ > 0 THEN @ - 1 ELSE @]
BluetoothTxHandler(b) == [b EXCEPT !.TxBusy = FALSE]
===============================================================================
