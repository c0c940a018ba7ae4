------------------------------- MODULE Journals -------------------------------
(***************************************************************************)
(* The event journal and the command journal (src/src/core/interface.c     *)
(* 379-515 and 590-637, src/src/stat/LogEv.c) over the two memories.  The  *)
(* parameter memory, Eeprom1, holds both rings and their addresses and     *)
(* counts; the log memory, Eeprom2, the five seconds before each event.    *)
(*                                                                         *)
(* A step is one period of the 2 kHz list: the next task of the 200 Hz     *)
(* list, then one call of each driver.  The 200 Hz list has ten tasks, so  *)
(* a word of two bytes, five calls each, takes exactly one round.          *)
(*                                                                         *)
(* A record is a mark that all its bytes carry: mixed marks are a record   *)
(* put together from two.  Of the log memory only the driver and the place *)
(* it writes to are kept.                                                  *)
(***************************************************************************)
EXTENDS Fm25v10, FiniteSets

CONSTANTS
  LOG_EV_CNT, LOG_CMD_CNT,      \* records of the two rings
  LOG_EV_DATA_CNT,              \* words of an event record
  LOG_CMD_DATA_CNT,             \* words of a command record
  LOG_EV_BUF_DATA_CNT,          \* words of a cell of the buffer
  LOG_EV_BUF_CELL_COUNT,        \* cells of the buffer
  LOG_START_TOUT,               \* rounds before the journals are enabled
  ByteBase,                     \* values of a byte of an address
  Samples,                      \* marks of the samples of the buffer
  Positions,                    \* records the menu may ask for
  Resets,                       \* may the journals be cleared?
  CommandGap,                   \* rounds between two commands, at least
  Lossy,                        \* the drivers, "par" or "log", that may fail
  MaxLosses                     \* bytes that may fail between power cuts

ASSUME SizeAssumption ==
  /\ {LOG_EV_CNT, LOG_CMD_CNT, LOG_EV_DATA_CNT, LOG_CMD_DATA_CNT,
      LOG_EV_BUF_DATA_CNT, LOG_EV_BUF_CELL_COUNT, LOG_START_TOUT}
       \subseteq Nat \ {0}
  /\ ByteBase \in Nat \ {0, 1}
  /\ LOG_EV_CNT < ByteBase * ByteBase /\ LOG_CMD_CNT < ByteBase * ByteBase
  /\ Samples \subseteq Nat /\ 0 \in Samples
  /\ Positions \subseteq 0 .. LOG_EV_CNT - 1
  /\ Resets \subseteq BOOLEAN /\ FALSE \in Resets
  /\ Lossy \subseteq {"par", "log"} /\ CommandGap \in Nat /\ MaxLosses \in Nat

VARIABLES
  mem,      \* the bytes of the parameter memory
  par, log, \* the drivers Eeprom1 and Eeprom2
  ev,       \* LogEv and the statics of LogEvControl
  cmd,      \* LogCmd and the static of LogCmdControl
  ram,      \* addresses and counts of the journals in GroupH
  prev,     \* PrevLogAddr, PrevLogCount
  buf,      \* LogEvBuffer
  menu,     \* Menu.EvLogFlag, Menu.EvLog.Position, ReadLogFlag
  slot,     \* the next task of the 200 Hz list
  env       \* the environment: rounds until a command may come, bytes lost,
            \* journals cleared, an error of the parameter memory cleared

vars == <<mem, par, log, ev, cmd, ram, prev, buf, menu, slot, env>>

World ==
  [mem |-> mem, par |-> par, log |-> log, ev |-> ev, cmd |-> cmd, ram |-> ram,
   prev |-> prev, buf |-> buf, menu |-> menu, env |-> env]

----
(***************************************************************************)
(* The layout of the memories, in words                                    *)
(***************************************************************************)

Pointers == {"LogEvAddr", "LogEvCount", "LogCmdAddr", "LogCmdCount"}

GetAdr(pointer) == CASE pointer = "LogEvAddr"   -> 0
                     [] pointer = "LogCmdAddr"  -> 1
                     [] pointer = "LogEvCount"  -> 2
                     [] pointer = "LogCmdCount" -> 3

LOG_EV_START_ADDR == 4
EvCell(i) == LOG_EV_START_ADDR + i * LOG_EV_DATA_CNT
LOG_CMD_START_ADDR == EvCell(LOG_EV_CNT)
CmdCell(i) == LOG_CMD_START_ADDR + i * LOG_CMD_DATA_CNT
MemoryWords == CmdCell(LOG_CMD_CNT)

LOG_EV_BUF_START_ADDR == 0
EvBuffer(i) ==
  LOG_EV_BUF_START_ADDR + i * LOG_EV_BUF_DATA_CNT * LOG_EV_BUF_CELL_COUNT

Address == 0 .. 2 * MemoryWords - 1

\* The low byte of a word is at the even address.
ByteOf(word, address) ==
  IF address % 2 = 0 THEN word % ByteBase ELSE word \div ByteBase

\* The byte of its buffer a driver takes now
Live(w, p) ==
  CASE p.Buffer \in Pointers   -> ByteOf(w.ram[p.Buffer], p.Addr)
    [] p.Buffer = "LogEv.Data"  -> w.ev.Data
    [] p.Buffer = "LogCmd.Data" -> w.cmd.Data
    [] OTHER                    -> 0

\* A word of the memory
WordAt(m, address) == m[2 * address] + ByteBase * m[2 * address + 1]

StoredPointers(m) == [p \in Pointers |-> WordAt(m, GetAdr(p))]

----
(***************************************************************************)
(* State after a reset                                                     *)
(***************************************************************************)

LogEvDefault ==
  [Data |-> 0, WriteFlag |-> FALSE, EventFlag |-> FALSE, Timer |-> LOG_START_TOUT,
   MainDataFlag |-> FALSE, BufCurIndex |-> 0, Addr |-> 0]

LogCmdDefault == [Data |-> 0, WriteFlag |-> FALSE, Timer |-> LOG_START_TOUT]

MenuDefault == [EvLogFlag |-> FALSE, Position |-> 0, ReadLogFlag |-> FALSE]

Calm == [gap |-> 0, losses |-> 0, cleared |-> FALSE, mended |-> FALSE]

EmptyBuffer == [c \in 1 .. LOG_EV_BUF_CELL_COUNT |-> 0]

\* Two marks are enough to tell a record from the one formed before it.
NextMark(mark) == IF mark = 1 THEN 2 ELSE 1

----
(***************************************************************************)
(* DataBufferPre.  The samples are shifted once a second, whatever the     *)
(* state of PreTimer, which is left open, unless an event is being stored. *)
(***************************************************************************)

ClearPointers(w) ==
  [w EXCEPT !.ram = [p \in Pointers |-> 0], !.env.cleared = TRUE]

ShiftBuffer(w, sample) ==
  [w EXCEPT !.buf = [c \in DOMAIN w.buf |->
                       IF c = LOG_EV_BUF_CELL_COUNT THEN sample ELSE w.buf[c + 1]]]

DataBufferPre(w, LogReset, second, sample) ==
  LET v == IF LogReset THEN ClearPointers(w) ELSE w
  IN  IF second /\ ~v.ev.EventFlag THEN ShiftBuffer(v, sample) ELSE v

----
(***************************************************************************)
(* LogEvControl.  "event" says that a fault register differs from the one  *)
(* of the last call.                                                       *)
(***************************************************************************)

\* The delay of a journal after a start, and LogEv.Enable
CountDown(Timer) == IF Timer > 0 THEN Timer - 1 ELSE 0

LogEvUpdate(e, event) ==
  LET Timer == CountDown(e.Timer)
  IN  IF Timer > 0 THEN [e EXCEPT !.Timer = Timer, !.WriteFlag = FALSE]
      ELSE IF event
      THEN [e EXCEPT !.Timer = Timer, !.Data = NextMark(@),
                     !.WriteFlag = TRUE, !.EventFlag = TRUE]
      ELSE [e EXCEPT !.Timer = Timer]

\* A changed address or count is written from where it is in GroupH.
StorePointer(w, pointer) ==
  [w EXCEPT !.par = WriteMem(@, GetAdr(pointer), pointer, 1),
            !.prev[pointer] = w.ram[pointer]]

StoreEvent(w) ==
  [w EXCEPT !.par = WriteMem(@, EvCell(w.ram["LogEvAddr"]), "LogEv.Data",
                             LOG_EV_DATA_CNT),
            !.ev.MainDataFlag = TRUE,
            !.ev.BufCurIndex = LOG_EV_BUF_CELL_COUNT,
            !.ev.WriteFlag = FALSE,
            !.ev.Addr = EvBuffer(w.ram["LogEvAddr"])]

ReadEvent(w) ==
  IF w.menu.ReadLogFlag
  THEN [w EXCEPT !.menu.EvLogFlag = FALSE, !.menu.ReadLogFlag = FALSE]
  ELSE [w EXCEPT !.ev.Addr = EvCell(w.menu.Position),
                 !.par = ReadMem(@, EvCell(w.menu.Position), "Ram.GroupE",
                                 LOG_EV_DATA_CNT),
                 !.menu.ReadLogFlag = TRUE]

Changed(w, pointer) == w.ram[pointer] # w.prev[pointer]

StoresEvent(w) ==
  /\ IsReady(w.par) /\ w.ev.WriteFlag
  /\ ~Changed(w, "LogEvAddr") /\ ~Changed(w, "LogEvCount")

EventToPar(w) ==
  IF ~IsReady(w.par) THEN w
  ELSE IF Changed(w, "LogEvAddr") THEN StorePointer(w, "LogEvAddr")
  ELSE IF Changed(w, "LogEvCount") THEN StorePointer(w, "LogEvCount")
  ELSE IF w.menu.EvLogFlag THEN ReadEvent(w)
  ELSE w

StoreBufferCell(w) ==
  IF w.ev.BufCurIndex = 0 THEN w
  ELSE [w EXCEPT !.log = WriteMem(@, w.ev.Addr, "LogEvBuffer", LOG_EV_BUF_DATA_CNT),
                 !.ev.BufCurIndex = @ - 1,
                 !.ev.Addr = @ + LOG_EV_BUF_DATA_CNT]

\* The address after the last one is the first again; the count stays full.
Following(address, size) == IF address + 1 >= size THEN 0 ELSE address + 1
Counted(count, size) == IF count < size THEN count + 1 ELSE count

MutEventStored(w) ==
  [w EXCEPT !.ev.MainDataFlag = FALSE, !.ev.EventFlag = FALSE,
            !.ev.BufCurIndex = 0,
            !.ram["LogEvAddr"] = Following(@, LOG_EV_CNT),
            !.ram["LogEvCount"] = Counted(@, LOG_EV_CNT)]

EventStored(w) ==
  IF w.ev.BufCurIndex # 0 THEN w
  ELSE [w EXCEPT !.ev.MainDataFlag = FALSE, !.ev.EventFlag = FALSE,
                 !.ram["LogEvAddr"] = Following(@, LOG_EV_CNT),
                 !.ram["LogEvCount"] = Counted(@, LOG_EV_CNT)]

EventToLog(w) ==
  IF IsReady(w.log) /\ w.ev.MainDataFlag THEN EventStored(StoreBufferCell(w))
  ELSE w

LogEvControl(w, event) ==
  LET v == [w EXCEPT !.ev = LogEvUpdate(@, event)]
  IN  IF StoresEvent(v) THEN StoreEvent(v) ELSE EventToLog(EventToPar(v))

----
(***************************************************************************)
(* LogCmdControl.  "command" says that GetCurrentCmd has left a command in *)
(* LogCmd.CmdReg.                                                          *)
(***************************************************************************)

LogCmdUpdate(c, command) ==
  LET Timer == CountDown(c.Timer)
  IN  IF Timer > 0 THEN [c EXCEPT !.Timer = Timer, !.WriteFlag = FALSE]
      ELSE IF command
      THEN [c EXCEPT !.Timer = Timer, !.Data = 1, !.WriteFlag = TRUE]
      ELSE [c EXCEPT !.Timer = Timer]

\* The address moves on when the record is only asked for.
StoreCommand(w) ==
  [w EXCEPT !.par = WriteMem(@, CmdCell(w.ram["LogCmdAddr"]), "LogCmd.Data",
                             LOG_CMD_DATA_CNT),
            !.cmd.WriteFlag = FALSE,
            !.ram["LogCmdAddr"] = Following(@, LOG_CMD_CNT),
            !.ram["LogCmdCount"] = Counted(@, LOG_CMD_CNT)]

MutCommandToPar(w) ==
  IF Changed(w, "LogCmdAddr") THEN StorePointer(w, "LogCmdAddr")
  ELSE IF w.cmd.WriteFlag THEN StoreCommand(w)
  ELSE IF Changed(w, "LogCmdCount") THEN StorePointer(w, "LogCmdCount")
  ELSE w

CommandToPar(w) ==
  IF ~IsReady(w.par) THEN w
  ELSE IF Changed(w, "LogCmdAddr") THEN StorePointer(w, "LogCmdAddr")
  ELSE IF w.cmd.WriteFlag THEN StoreCommand(w)
  ELSE IF Changed(w, "LogCmdCount") THEN StorePointer(w, "LogCmdCount")
  ELSE w

LogCmdControl(w, command) ==
  CommandToPar([w EXCEPT !.cmd = LogCmdUpdate(@, command)])

----
(***************************************************************************)
(* The two drivers in one period.  A byte may be lost on its way to the    *)
(* parameter memory, or be read back wrong from the log memory.            *)
(***************************************************************************)

MayLose(w) == {d \in Lossy :
                 \/ d = "par" /\ Sends(w.par)
                 \/ d = "log" /\ Reads(w.log) /\ F_WRITE \in w.log.Func}

\* What the log memory returns: the byte that was written, or another one
LogByte(p, wrong) == IF wrong THEN p.WrData + 1 ELSE p.WrData

EEPROM_Update(w, lost) ==
  [w EXCEPT
     !.mem = IF Sends(w.par) /\ "par" \notin lost
             THEN [@ EXCEPT ![w.par.Addr] = w.par.WrData] ELSE @,
     !.par = FM25V10_Update(@, w.mem[w.par.Addr], Live(w, w.par)),
     !.log = FM25V10_Update(@, LogByte(w.log, "log" \in lost), 0),
     !.env.losses = @ + Cardinality(lost)]

Become(w) ==
  /\ mem' = w.mem /\ par' = w.par /\ log' = w.log /\ ev' = w.ev /\ cmd' = w.cmd
  /\ ram' = w.ram /\ prev' = w.prev /\ buf' = w.buf /\ menu' = w.menu
  /\ env' = w.env

\* One period of the 2 kHz list, after the task of the 200 Hz list.  Bounds: one
\* byte of the parameter memory may fail between two power cuts, MaxLosses times.
Period(w) ==
  /\ slot' = (slot + 1) % 10
  /\ \E lost \in SUBSET MayLose(w) :
       /\ "par" \in lost => env.losses = 0 \/ par.RetryTimer > 0
       /\ env.losses + Cardinality(lost) <= MaxLosses
       /\ Become(EEPROM_Update(w, lost))

DataBufferPreTick ==
  /\ slot = 5
  /\ \E LogReset \in Resets, second \in BOOLEAN, sample \in Samples :
       /\ LogReset => ~env.cleared       \* bound: one clearing
       /\ Period(DataBufferPre(World, LogReset, second, sample))

\* A fault or its end is an event; an event is seen if the journal is enabled.
LogEvControlTick ==
  /\ slot = 6
  /\ \E event \in BOOLEAN : Period(LogEvControl(World, event))

LogCmdControlTick ==
  /\ slot = 7
  /\ \E command \in BOOLEAN :
       /\ command => env.gap = 0
       /\ Period(LogCmdControl(
            [World EXCEPT !.env.gap = IF command THEN CommandGap
                                      ELSE CountDown(@)], command))

\* MENU_Update asks for a record: a task of the 10 Hz list, in a period that only
\* LogEvControl can tell from another.  Bound: the memory has not failed yet.
MenuTick ==
  /\ slot = 4
  /\ ~menu.EvLogFlag
  /\ env.losses = 0 /\ ~env.mended
  /\ \E i \in Positions :
       Period([World EXCEPT !.menu.EvLogFlag = TRUE, !.menu.Position = i])

\* A task that has nothing to do with the journals
OtherTick == slot \notin {5, 6, 7} /\ Period(World)

\* The operator clears the protections, errors of the memories included: a task
\* of the 10 Hz list, before a task that makes requests.
ProtectionsClearTick ==
  /\ slot \in {6, 7}
  /\ par.Error \/ log.Error
  /\ Become([World EXCEPT !.par.Error = FALSE, !.log.Error = FALSE,
                          !.env.mended = @ \/ par.Error])
  /\ UNCHANGED slot

\* InterfaceInit after a power cut: addresses and counts are those stored.
\* Bound: not after an error of the parameter memory was cleared.
Restart ==
  /\ ~env.mended
  /\ UNCHANGED mem
  /\ par' = FM25V10_DEFAULT /\ log' = FM25V10_DEFAULT
  /\ ev' = LogEvDefault /\ cmd' = LogCmdDefault
  /\ ram' = StoredPointers(mem) /\ prev' = ram'
  /\ buf' = EmptyBuffer /\ menu' = MenuDefault /\ slot' = 0
  /\ env' = [Calm EXCEPT !.cleared = env.cleared]

Init ==
  /\ mem = [a \in Address |-> 0]
  /\ par = FM25V10_DEFAULT /\ log = FM25V10_DEFAULT
  /\ ev = LogEvDefault /\ cmd = LogCmdDefault
  /\ ram = StoredPointers(mem) /\ prev = ram
  /\ buf = EmptyBuffer /\ menu = MenuDefault /\ slot = 0
  /\ env = Calm

Next == DataBufferPreTick \/ LogEvControlTick \/ LogCmdControlTick
        \/ MenuTick \/ OtherTick \/ ProtectionsClearTick \/ Restart

Spec == Init /\ [][Next]_vars

----
(***************************************************************************)
(* The parameter memory as the abstract one: a request in progress is what *)
(* is left of it, and the byte that was taken counts until it is verified. *)
(***************************************************************************)

TakenBy(p) ==
  IF F_WRITE \in p.Func /\ (p.State = 4 \/ F_READ \in p.Func)
  THEN [some |-> TRUE, byte |-> p.WrData] ELSE [some |-> FALSE]

TaskOf(p) ==
  IF IsReady(p) THEN [busy |-> FALSE]
  ELSE [busy |-> TRUE, write |-> F_WRITE \in p.Func, addr |-> p.Addr,
        left |-> p.Count, taken |-> TakenBy(p)]

ParStore == INSTANCE BlockStore
  WITH Byte <- 0 .. ByteBase + 1, task <- TaskOf(par), failed <- par.Error

----
(***************************************************************************)
(* Properties                                                              *)
(***************************************************************************)

\* Every variable keeps its type: the drivers of fm25v10.h, the pointers of
\* GroupH within their rings, and the place of the buffer cell being written.
TypeOK ==
  LET Driver == [Func : SUBSET {F_READ, F_WRITE}, State : {0, 2, 3, 4},
                 Addr : 0 .. 4 * (MemoryWords + EvBuffer(LOG_EV_CNT)),
                 Buffer : Pointers \union {NullBuffer, "LogEv.Data", "LogCmd.Data",
                                           "LogEvBuffer", "Ram.GroupE"},
                 Count : Nat, WrData : Nat, RetryTimer : Nat,
                 Error : BOOLEAN]
  IN  /\ DOMAIN mem = Address /\ par \in Driver /\ log \in Driver
      /\ par.Addr \in Address
      /\ \A p \in {ram, prev} :
           /\ p["LogEvAddr"] < LOG_EV_CNT /\ p["LogEvCount"] <= LOG_EV_CNT
           /\ p["LogCmdAddr"] < LOG_CMD_CNT /\ p["LogCmdCount"] <= LOG_CMD_CNT
      /\ ev.BufCurIndex \in 0 .. LOG_EV_BUF_CELL_COUNT
      /\ ev.BufCurIndex > 0 => ev.MainDataFlag
      /\ slot \in 0 .. 9

\* The bytes of an event record carry more than one mark.
Torn(i) ==
  \E a, b \in 2 * EvCell(i) .. 2 * EvCell(i + 1) - 1 : mem[a] # mem[b]

\* An event record put together from two, by a power cut or a driver that gave
\* up in the middle of the writing or by a second event that changed LogEv.Data
\* under the driver, is only ever the one at the stored LogEvAddr, which the
\* next event will overwrite: the address is stored when the record is whole.
\* (As long as nobody clears the journals, or an error of the memory that has
\* refused an address.)
EventCellsWhole ==
  ~env.cleared /\ ~env.mended =>
    \A i \in 0 .. LOG_EV_CNT - 1 : Torn(i) => i = StoredPointers(mem)["LogEvAddr"]

\* PrevLogAddr and PrevLogCount are noted when the write is only asked for.
\* Still, an idle memory holds every address and count that is noted as
\* stored, whatever events, commands and power cuts came between, unless a
\* memory that had given up was taken back into use.
PointersStored ==
  IsReady(par) /\ ~par.Error /\ ~env.mended =>
    \A p \in Pointers : ~Changed(World, p) => StoredPointers(mem)[p] = ram[p]

\* The driver of the parameter memory, with all its clients and power cuts, is
\* the abstract one: no request replaces another, bytes in order, each
\* verified, nothing else ever written.
ParStoreSpec == ParStore!Spec
===============================================================================
