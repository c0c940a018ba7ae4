---------------------------- MODULE JournalsProofs ----------------------------
(***************************************************************************)
(* The theorems about Journals, for every size of the rings, of their      *)
(* records and of the buffer, every number of attempts and any bytes lost, *)
(* as long as nobody clears the journals.  The last one, which is about    *)
(* time, also needs the log memory to work and a record to be short.       *)
(***************************************************************************)
EXTENDS Journals, FiniteSetTheorems, TLAPS

-----------------------------------------------------------------------------
(* Words and their two bytes.                                              *)
LEMMA WordParts ==
  ASSUME NEW v \in Nat, NEW b \in Nat \ {0}
  PROVE  v % b \in 0 .. b - 1 /\ v \div b \in Nat /\ v = (v % b) + b * (v \div b)
  OBVIOUS

LEMMA WordsOrdered ==
  ASSUME NEW b \in Nat \ {0}, NEW q \in Nat, NEW r \in 0 .. b - 1,
         NEW s \in Nat, NEW t \in 0 .. b - 1, r + b * q <= t + b * s
  PROVE  q <= s
  OBVIOUS

LEMMA PartsOfWord ==
  ASSUME NEW b \in Nat \ {0}, NEW q \in Nat, NEW r \in 0 .. b - 1
  PROVE  r + b * q \in Nat /\ (r + b * q) % b = r /\ (r + b * q) \div b = q
<1> DEFINE v == r + b * q
<1>1. v \in Nat
  <2>1. b * q \in Nat
    OBVIOUS
  <2> QED BY <2>1
<1>2. v % b \in 0 .. b - 1 /\ v \div b \in Nat /\ v = (v % b) + b * (v \div b)
  BY <1>1, WordParts
<1>3. v \div b <= q /\ q <= v \div b
  BY <1>1, <1>2, WordsOrdered
<1>4. v \div b = q
  BY <1>2, <1>3
<1>5. v % b = r
  <2>1. b * q \in Nat
    OBVIOUS
  <2> QED BY <1>2, <1>4, <2>1
<1> QED BY <1>1, <1>4, <1>5

LEMMA HighByteOrdered ==
  ASSUME NEW b \in Nat \ {0}, NEW u \in Nat, NEW v \in Nat, u <= v
  PROVE  u \div b <= v \div b
  BY WordParts, WordsOrdered

LEMMA HighByteBounded ==
  ASSUME NEW b \in Nat \ {0}, NEW v \in Nat, v < b * b
  PROVE  v \div b \in 0 .. b - 1
  OBVIOUS

(* The low byte of a new word with the high byte of the old one, as a      *)
(* power cut may leave them, is no larger than either bound allows.        *)
LEMMA TornWord ==
  ASSUME NEW b \in Nat \ {0}, NEW old \in Nat, NEW new \in Nat, NEW top \in Nat,
         old <= top, new <= top, old <= new \/ new = 0
  PROVE  (new % b) + b * (old \div b) <= top
<1>1. /\ old % b \in 0 .. b - 1 /\ old \div b \in Nat /\ old = (old % b) + b * (old \div b)
      /\ new % b \in 0 .. b - 1 /\ new \div b \in Nat /\ new = (new % b) + b * (new \div b)
  BY WordParts
<1>2. CASE old <= new
  <2>1. old \div b <= new \div b
    BY <1>2, HighByteOrdered
  <2>2. \A x, y, z \in Nat : x <= y => z * x <= z * y
    OBVIOUS
  <2>3. b * (old \div b) <= b * (new \div b)
    BY <1>1, <2>1, <2>2
  <2>4. b * (old \div b) \in Nat /\ b * (new \div b) \in Nat
    BY <1>1
  <2> QED BY <1>1, <2>3, <2>4
<1>3. CASE new = 0
  <2>1. new % b = 0
    BY <1>3
  <2>2. b * (old \div b) \in Nat
    BY <1>1
  <2> QED BY <1>1, <2>1, <2>2
<1> QED BY <1>2, <1>3

-----------------------------------------------------------------------------
(* The layout of the memory, and the types of the world.                   *)
Byte == 0 .. ByteBase + 1

(* The largest value of an address or a count.                             *)
Top == [p \in Pointers |-> CASE p = "LogEvAddr" -> LOG_EV_CNT - 1
                             [] p = "LogEvCount" -> LOG_EV_CNT
                             [] p = "LogCmdAddr" -> LOG_CMD_CNT - 1
                             [] p = "LogCmdCount" -> LOG_CMD_CNT]

Buffers == Pointers \union {NullBuffer, "LogEv.Data", "LogCmd.Data", "LogEvBuffer",
                            "Ram.GroupE"}

Drivers == [Func : SUBSET {F_READ, F_WRITE}, State : {0, 2, 3, 4}, Addr : Nat,
            Buffer : Buffers, Count : Nat, WrData : Nat, RetryTimer : Nat, Error : BOOLEAN]

Worlds == [mem : [Address -> Byte], par : Drivers, log : Drivers,
           ev : [Data : 0 .. 2, WriteFlag : BOOLEAN, EventFlag : BOOLEAN, Timer : Nat,
                 MainDataFlag : BOOLEAN, BufCurIndex : 0 .. LOG_EV_BUF_CELL_COUNT, Addr : Nat],
           cmd : [Data : 0 .. 1, WriteFlag : BOOLEAN, Timer : Nat],
           ram : [Pointers -> Nat], prev : [Pointers -> Nat],
           buf : [1 .. LOG_EV_BUF_CELL_COUNT -> Nat],
           menu : [EvLogFlag : BOOLEAN, Position : 0 .. LOG_EV_CNT - 1,
                   ReadLogFlag : BOOLEAN],
           env : [gap : Nat, losses : Nat, cleared : BOOLEAN, mended : BOOLEAN]]

LEMMA Sizes ==
  /\ LOG_EV_CNT \in Nat \ {0} /\ LOG_CMD_CNT \in Nat \ {0}
  /\ LOG_EV_DATA_CNT \in Nat \ {0} /\ LOG_CMD_DATA_CNT \in Nat \ {0}
  /\ LOG_EV_BUF_DATA_CNT \in Nat \ {0} /\ LOG_EV_BUF_CELL_COUNT \in Nat \ {0}
  /\ LOG_START_TOUT \in Nat \ {0} /\ ByteBase \in Nat \ {0, 1}
  /\ LOG_EV_CNT < ByteBase * ByteBase /\ LOG_CMD_CNT < ByteBase * ByteBase
  /\ Samples \subseteq Nat /\ Positions \subseteq 0 .. LOG_EV_CNT - 1
  /\ CommandGap \in Nat /\ Lossy \subseteq {"par", "log"}
  BY SizeAssumption

(* The cells of a ring lie one after the other.                            *)
LEMMA Cells ==
  ASSUME NEW i \in Nat, NEW n \in Nat, NEW size \in Nat, i < n
  PROVE  i * size \in Nat /\ n * size \in Nat /\ i * size + size <= n * size
<1>1. \A x \in Nat : x * size \in Nat
  OBVIOUS
<1>2. (i + 1) * size <= n * size
  <2>1. \A x, y \in Nat : x <= y => x * size <= y * size
    OBVIOUS
  <2> QED BY <2>1
<1>3. (i + 1) * size = i * size + size
  OBVIOUS
<1> QED BY <1>1, <1>2, <1>3

LEMMA EventCells ==
  ASSUME NEW i \in 0 .. LOG_EV_CNT - 1
  PROVE  /\ EvCell(i) \in Nat /\ EvCell(i) >= 4
         /\ EvCell(i) + LOG_EV_DATA_CNT <= MemoryWords /\ MemoryWords \in Nat
<1>1. /\ i * LOG_EV_DATA_CNT \in Nat /\ LOG_EV_CNT * LOG_EV_DATA_CNT \in Nat
      /\ i * LOG_EV_DATA_CNT + LOG_EV_DATA_CNT <= LOG_EV_CNT * LOG_EV_DATA_CNT
  BY Cells, Sizes
<1>2. LOG_CMD_CNT * LOG_CMD_DATA_CNT \in Nat
  <2>1. \A x, y \in Nat : x * y \in Nat
    OBVIOUS
  <2> QED BY <2>1, Sizes
<1> QED BY <1>1, <1>2, Sizes
        DEF EvCell, LOG_EV_START_ADDR, MemoryWords, CmdCell, LOG_CMD_START_ADDR

LEMMA CommandCells ==
  ASSUME NEW i \in 0 .. LOG_CMD_CNT - 1
  PROVE  /\ CmdCell(i) \in Nat /\ CmdCell(i) >= 4
         /\ CmdCell(i) + LOG_CMD_DATA_CNT <= MemoryWords /\ MemoryWords \in Nat
<1>1. /\ i * LOG_CMD_DATA_CNT \in Nat /\ LOG_CMD_CNT * LOG_CMD_DATA_CNT \in Nat
      /\ i * LOG_CMD_DATA_CNT + LOG_CMD_DATA_CNT <= LOG_CMD_CNT * LOG_CMD_DATA_CNT
  BY Cells, Sizes
<1>2. LOG_EV_CNT * LOG_EV_DATA_CNT \in Nat
  <2>1. \A x, y \in Nat : x * y \in Nat
    OBVIOUS
  <2> QED BY <2>1, Sizes
<1> QED BY <1>1, <1>2, Sizes
        DEF EvCell, LOG_EV_START_ADDR, MemoryWords, CmdCell, LOG_CMD_START_ADDR

(* The two bytes of a pointer, and that no other cell has them.            *)
Low(p) == 2 * GetAdr(p)

LEMMA PointerCells ==
  /\ MemoryWords \in Nat /\ MemoryWords >= 4
  /\ \A p \in Pointers : /\ GetAdr(p) \in 0 .. 3 /\ Low(p) \in {0, 2, 4, 6}
                         /\ Low(p) \in Address /\ Low(p) + 1 \in Address
  /\ \A p, q \in Pointers : Low(p) = Low(q) => p = q
<1>1. MemoryWords \in Nat /\ MemoryWords >= 4
  <2>1. 0 \in 0 .. LOG_EV_CNT - 1 /\ LOG_EV_DATA_CNT \in Nat
    BY Sizes
  <2> QED BY <2>1, EventCells
<1>2. \A p \in Pointers : GetAdr(p) \in 0 .. 3 /\ Low(p) \in {0, 2, 4, 6}
  BY DEF Pointers, GetAdr, Low
<1>3. \A p, q \in Pointers : Low(p) = Low(q) => p = q
  BY DEF Pointers, GetAdr, Low
<1> QED BY <1>1, <1>2, <1>3 DEF Address

LEMMA Tops ==
  \A p \in Pointers : Top[p] \in Nat /\ Top[p] < ByteBase * ByteBase
<1>1. ByteBase * ByteBase \in Nat
  BY Sizes
<1> QED BY <1>1, Sizes DEF Top, Pointers

-----------------------------------------------------------------------------
(***************************************************************************)
(* The inductive invariant of the parameter memory.                        *)
(***************************************************************************)
Busy(w) == ~IsReady(w.par)
Writes(w) == F_WRITE \in w.par.Func
Writing(w, p) == Writes(w) /\ w.par.Buffer = p

(* The driver is where its request has brought it, inside the memory.      *)
DriverOK(w) ==
  /\ ~Busy(w) => w.par.State = 0
  /\ Busy(w) => w.par.Count > 0 /\ w.par.Addr + w.par.Count <= 2 * MemoryWords /\ ~w.par.Error
  /\ w.par.State = 2 => F_READ \in w.par.Func
  /\ w.par.State \in {3, 4} => w.par.Func = {F_WRITE}

(* A pointer does not change while it is written, and records are written  *)
(* behind the pointers.                                                    *)
PlaceOK(w) ==
  Writes(w) =>
    IF w.par.Buffer \in Pointers
    THEN /\ w.par.Addr \in {Low(w.par.Buffer), Low(w.par.Buffer) + 1}
         /\ w.par.Addr + w.par.Count = Low(w.par.Buffer) + 2
         /\ w.ram[w.par.Buffer] = w.prev[w.par.Buffer]
    ELSE w.par.Addr >= 8

(* The byte that was taken is the byte of the word.                        *)
TakenOK(w) ==
  Writes(w) /\ (w.par.State = 4 \/ F_READ \in w.par.Func) =>
    /\ w.par.WrData \in Byte
    /\ w.par.Buffer \in Pointers => w.par.WrData = ByteOf(w.ram[w.par.Buffer], w.par.Addr)

BytesOK(w) ==
  \A p \in Pointers : w.mem[Low(p)] \in 0 .. ByteBase - 1 /\ w.mem[Low(p) + 1] \in 0 .. ByteBase - 1

(* What is noted as stored is stored, but for the byte being written.      *)
StoredOK(w) ==
  ~w.env.mended /\ ~w.par.Error =>
    \A p \in Pointers :
      /\ ~Writing(w, p) => /\ w.mem[Low(p)] = w.prev[p] % ByteBase
                           /\ w.mem[Low(p) + 1] = w.prev[p] \div ByteBase
      /\ Writing(w, p) /\ w.par.Addr = Low(p) + 1 => w.mem[Low(p)] = w.prev[p] % ByteBase

(* Whatever a power cut leaves of an address is the number of a record.    *)
RingOK(w) ==
  ~w.env.mended =>
    \A p \in Pointers :
      /\ WordAt(w.mem, GetAdr(p)) <= Top[p]
      /\ Writing(w, p) => (w.prev[p] % ByteBase) + ByteBase * w.mem[Low(p) + 1] <= Top[p]

(* The addresses and counts go on from the ones stored, and not while one  *)
(* of an event is written.                                                 *)
Counts == {"LogEvCount", "LogCmdCount"}
EventPointers == {"LogEvAddr", "LogEvCount"}
AheadOK(w) ==
  \A p \in Pointers : /\ w.ram[p] <= Top[p] /\ w.prev[p] <= Top[p]
                      /\ w.prev[p] <= w.ram[p] \/ (w.ram[p] = 0 /\ p \notin Counts)
CalmOK(w) ==
  w.ev.MainDataFlag => \A p \in EventPointers : w.ram[p] = w.prev[p] /\ ~Writing(w, p)

Store(w) == /\ w \in Worlds
            /\ DriverOK(w) /\ PlaceOK(w) /\ TakenOK(w)
            /\ BytesOK(w) /\ StoredOK(w) /\ RingOK(w) /\ AheadOK(w) /\ CalmOK(w)

(* What the invariant does not speak of may change.                        *)
LEMMA StoreKept ==
  ASSUME NEW w, Store(w), NEW v \in Worlds,
         v.mem = w.mem, v.par = w.par, v.ram = w.ram, v.prev = w.prev,
         v.ev.MainDataFlag <=> w.ev.MainDataFlag, v.env.mended <=> w.env.mended
  PROVE  Store(v)
<1>1. \A p : Writing(v, p) <=> Writing(w, p)
  BY DEF Writing, Writes
<1>2. DriverOK(v) /\ PlaceOK(v) /\ TakenOK(v) /\ BytesOK(v)
  BY DEF Store, DriverOK, PlaceOK, TakenOK, BytesOK, Busy, Writes
<1>3. StoredOK(v) /\ RingOK(v)
  BY <1>1 DEF Store, StoredOK, RingOK
<1>4. AheadOK(v) /\ CalmOK(v)
  BY <1>1 DEF Store, AheadOK, CalmOK
<1> QED BY <1>2, <1>3, <1>4 DEF Store

(* A client's request, of a driver that has given up or not.               *)
LEMMA RequestEffect ==
  ASSUME NEW p \in Drivers, NEW f \in {F_READ, F_WRITE}, NEW a \in Nat, NEW b \in Buffers,
         NEW n \in Nat, NEW q, q = EEPROM_Func(p, f, a, b, n)
  PROVE  /\ q \in Drivers /\ q.Error = p.Error /\ q.State = p.State
         /\ p.Error => q = p
         /\ ~p.Error => /\ q.Addr = 2 * a /\ q.Buffer = b /\ q.Count = 2 * n
                        /\ q.Func = {f} /\ q.WrData = p.WrData
<1>1. CASE p.Error
  <2>1. q = p
    BY <1>1 DEF EEPROM_Func
  <2> QED BY <1>1, <2>1
<1>2. CASE ~p.Error
  <2>1. q = [p EXCEPT !.Addr = 2 * a, !.Buffer = b, !.Count = 2 * n, !.Func = {f}]
    BY <1>2 DEF EEPROM_Func
  <2>2. 2 * a \in Nat /\ 2 * n \in Nat /\ {f} \in SUBSET {F_READ, F_WRITE}
    OBVIOUS
  <2>3. /\ q.Addr = 2 * a /\ q.Buffer = b /\ q.Count = 2 * n /\ q.Func = {f}
        /\ q.WrData = p.WrData /\ q.State = p.State /\ q.Error = p.Error
    BY <2>1 DEF Drivers
  <2>4. q \in Drivers
    BY <2>1, <2>2 DEF Drivers
  <2> QED BY <1>2, <2>3, <2>4
<1> QED BY <1>1, <1>2

-----------------------------------------------------------------------------
(***************************************************************************)
(* The clients.  A task leaves the memory and makes one request at most,   *)
(* of an idle driver.                                                      *)
(***************************************************************************)
Client(w, v) ==
  /\ v.mem = w.mem /\ v.par.Error = w.par.Error
  /\ \/ v.par = w.par
     \/ ~Busy(w) /\ ~w.par.Error /\ v.par.State = 0 /\ v.par.Func \in {{F_READ}, {F_WRITE}}

(* A request for an address or a count.                                    *)
LEMMA StorePointerKeeps ==
  ASSUME NEW w, Store(w), ~Busy(w), NEW p \in Pointers, Changed(w, p)
  PROVE  Store(StorePointer(w, p)) /\ Client(w, StorePointer(w, p))
<1> DEFINE q == EEPROM_Func(w.par, F_WRITE, GetAdr(p), p, 1)
           v == StorePointer(w, p)
<1>1. w \in Worlds /\ w.par \in Drivers /\ p \in Buffers /\ GetAdr(p) \in Nat
  <2>1. GetAdr(p) \in Nat
    BY PointerCells
  <2> QED BY <2>1 DEF Store, Worlds, Buffers
<1>2. /\ q \in Drivers /\ q.Error = w.par.Error /\ q.State = 0
      /\ w.par.Error => q = w.par
      /\ ~w.par.Error => /\ q.Addr = Low(p) /\ q.Buffer = p /\ q.Count = 2
                         /\ q.Func = {F_WRITE}
  <2>1. w.par.State = 0
    BY DEF Store, DriverOK
  <2>2. /\ q \in Drivers /\ q.Error = w.par.Error /\ q.State = w.par.State
        /\ w.par.Error => q = w.par
        /\ ~w.par.Error => /\ q.Addr = 2 * GetAdr(p) /\ q.Buffer = p /\ q.Count = 2 * 1
                           /\ q.Func = {F_WRITE}
    BY <1>1, RequestEffect
  <2> QED BY <2>1, <2>2 DEF Low
<1>3. v = [w EXCEPT !.par = q, !.prev[p] = w.ram[p]]
  BY DEF StorePointer, WriteMem
<1> HIDE DEF q
<1>4. /\ v \in Worlds /\ v.par = q /\ v.prev = [w.prev EXCEPT ![p] = w.ram[p]]
      /\ v.mem = w.mem /\ v.ram = w.ram /\ v.ev = w.ev /\ v.env = w.env
  <2> HIDE DEF v
  <2>1. /\ v.par = q /\ v.prev = [w.prev EXCEPT ![p] = w.ram[p]]
        /\ v.mem = w.mem /\ v.ram = w.ram /\ v.ev = w.ev /\ v.env = w.env
    BY <1>1, <1>3 DEF Worlds
  <2>2. w.ram[p] \in Nat /\ [w.prev EXCEPT ![p] = w.ram[p]] \in [Pointers -> Nat]
    BY <1>1 DEF Worlds
  <2>3. v = [w EXCEPT !.par = q, !.prev = [w.prev EXCEPT ![p] = w.ram[p]]]
    BY <1>1, <1>3 DEF Worlds
  <2>4. v \in Worlds
    <3> DEFINE r == [w.prev EXCEPT ![p] = w.ram[p]]
    <3>1. w \in Worlds /\ q \in Drivers /\ r \in [Pointers -> Nat]
      BY <1>1, <1>2, <2>2
    <3> HIDE DEF r
    <3>2. [w EXCEPT !.par = q, !.prev = r] \in Worlds
      BY <3>1 DEF Worlds
    <3> QED BY <2>3, <3>2 DEF r
  <2> QED BY <2>1, <2>4
<1> HIDE DEF v
<1>5. Client(w, v)
  BY <1>2, <1>4 DEF Client
<1>6. /\ v.prev \in [Pointers -> Nat] /\ w.prev \in [Pointers -> Nat] /\ w.ram \in [Pointers -> Nat]
      /\ v.prev[p] = w.ram[p] /\ \A r \in Pointers : r # p => v.prev[r] = w.prev[r]
  BY <1>1, <1>4 DEF Worlds
<1>7. p \in EventPointers => ~w.ev.MainDataFlag
  BY DEF Store, CalmOK, Changed
<1>8. AheadOK(v)
  BY <1>4, <1>6 DEF Store, AheadOK
<1>9. CASE w.par.Error
  <2>1. v.par = w.par /\ \A r : ~Writing(v, r) /\ ~Writing(w, r)
    BY <1>2, <1>4, <1>9 DEF Busy, IsReady, Writing, Writes
  <2>2. DriverOK(v) /\ PlaceOK(v) /\ TakenOK(v) /\ BytesOK(v) /\ StoredOK(v)
    BY <1>4, <1>9, <2>1 DEF Store, DriverOK, PlaceOK, TakenOK, BytesOK, StoredOK, Busy, IsReady,
       Writes
  <2>3. RingOK(v)
    BY <1>4, <2>1 DEF Store, RingOK
  <2>4. CalmOK(v)
    BY <1>4, <1>6, <1>7, <2>1 DEF Store, CalmOK, EventPointers, Pointers
  <2> QED BY <1>4, <1>5, <1>8, <2>2, <2>3, <2>4 DEF Store, v
<1>10. CASE ~w.par.Error
  <2>1. /\ v.par.Addr = Low(p) /\ v.par.Buffer = p /\ v.par.Count = 2 /\ v.par.State = 0
        /\ v.par.Func = {F_WRITE} /\ ~v.par.Error
    BY <1>2, <1>4, <1>10
  <2>2. \A r \in Pointers : (Writing(v, r) <=> r = p) /\ ~Writing(w, r)
    BY <2>1 DEF Busy, IsReady, Writing, Writes
  <2>3. DriverOK(v) /\ TakenOK(v) /\ BytesOK(v)
    BY <1>4, <2>1, PointerCells
    DEF Store, DriverOK, TakenOK, BytesOK, Busy, IsReady, Writes, F_READ, F_WRITE
  <2>4. PlaceOK(v)
    BY <1>4, <1>6, <2>1, PointerCells DEF PlaceOK
  <2>5. Low(p) + 1 # Low(p)
    BY PointerCells
  <2>6. StoredOK(v)
    BY <1>4, <1>6, <1>10, <2>1, <2>2, <2>5 DEF Store, StoredOK
  <2>7. RingOK(v)
    <3> SUFFICES ASSUME ~w.env.mended
                 PROVE  (w.ram[p] % ByteBase) + ByteBase * w.mem[Low(p) + 1] <= Top[p]
      BY <1>4, <1>6, <2>2 DEF Store, RingOK
    <3>1. w.mem[Low(p) + 1] = w.prev[p] \div ByteBase
      BY <1>10, <2>2 DEF Store, StoredOK
    <3>2. /\ w.prev[p] <= Top[p] /\ w.ram[p] <= Top[p]
          /\ w.prev[p] <= w.ram[p] \/ w.ram[p] = 0
      BY DEF Store, AheadOK
    <3>3. /\ ByteBase \in Nat \ {0} /\ w.prev[p] \in Nat /\ w.ram[p] \in Nat
          /\ Top[p] \in Nat
      BY <1>6, Sizes, Tops
    <3> QED BY <3>1, <3>2, <3>3, TornWord
  <2>8. CalmOK(v)
    BY <1>4, <1>6, <1>7, <2>2 DEF Store, CalmOK, EventPointers, Pointers
  <2> QED BY <1>4, <1>5, <1>8, <2>3, <2>4, <2>6, <2>7, <2>8 DEF Store, v
<1> QED BY <1>9, <1>10

(* A request for a record.                                                 *)
LEMMA RecordKeeps ==
  ASSUME NEW w, Store(w), ~Busy(w), NEW f \in {F_READ, F_WRITE}, NEW a \in Nat,
         NEW b \in Buffers \ Pointers, NEW n \in Nat \ {0},
         a + n <= MemoryWords, f = F_WRITE => a >= 4,
         NEW v \in Worlds, v.mem = w.mem, v.par = EEPROM_Func(w.par, f, a, b, n),
         v.prev = w.prev, v.env.mended <=> w.env.mended, AheadOK(v),
         v.ev.MainDataFlag => \A p \in EventPointers : v.ram[p] = v.prev[p]
  PROVE  Store(v) /\ Client(w, v)
<1>1. w \in Worlds /\ w.par \in Drivers /\ b \in Buffers /\ n \in Nat /\ v.par \in Drivers
  BY DEF Store, Worlds
<1>2. /\ v.par.Error = w.par.Error /\ v.par.State = 0 /\ w.par.State = 0
      /\ w.par.Error => v.par = w.par
      /\ ~w.par.Error => /\ v.par.Addr = 2 * a /\ v.par.Buffer = b /\ v.par.Count = 2 * n
                         /\ v.par.Func = {f}
  <2>1. w.par.State = 0
    BY DEF Store, DriverOK
  <2>2. /\ v.par.Error = w.par.Error /\ v.par.State = w.par.State
        /\ w.par.Error => v.par = w.par
        /\ ~w.par.Error => /\ v.par.Addr = 2 * a /\ v.par.Buffer = b /\ v.par.Count = 2 * n
                           /\ v.par.Func = {f}
    <3>1. CASE w.par.Error
      BY <3>1 DEF EEPROM_Func
    <3>2. CASE ~w.par.Error
      <4>1. v.par = [w.par EXCEPT !.Addr = 2 * a, !.Buffer = b, !.Count = 2 * n, !.Func = {f}]
        BY <3>2 DEF EEPROM_Func
      <4> QED BY <1>1, <3>2, <4>1 DEF Drivers
    <3> QED BY <3>1, <3>2
  <2> QED BY <2>1, <2>2
<1>3. Client(w, v)
  BY <1>2 DEF Client
<1>4. \A p \in Pointers : ~Writing(v, p) /\ ~Writing(w, p)
  BY <1>2 DEF Busy, IsReady, Writing, Writes
<1>5. CalmOK(v)
  BY <1>4 DEF CalmOK, EventPointers, Pointers
<1>6. StoredOK(v) /\ RingOK(v) /\ BytesOK(v)
  BY <1>2, <1>4 DEF Store, StoredOK, RingOK, BytesOK
<1>7. DriverOK(v)
  <2>1. CASE w.par.Error
    BY <1>2, <2>1 DEF Store, DriverOK, Busy
  <2>2. CASE ~w.par.Error
    <3>1. v.par.Count > 0 /\ v.par.Addr + v.par.Count <= 2 * MemoryWords /\ ~v.par.Error
      BY <1>2, <2>2, PointerCells
    <3> QED BY <1>2, <2>2, <3>1 DEF DriverOK, Busy, IsReady
  <2> QED BY <2>1, <2>2
<1>8. PlaceOK(v) /\ TakenOK(v)
  <2>1. CASE w.par.Error
    BY <1>2, <2>1 DEF PlaceOK, TakenOK, Writes, Busy, IsReady
  <2>2. CASE ~w.par.Error
    <3>1. Writes(v) => f = F_WRITE /\ v.par.Addr >= 8
      BY <1>2, <2>2 DEF Writes
    <3>2. Writes(v) => F_READ \notin v.par.Func
      BY <1>2, <2>2 DEF Writes, F_READ, F_WRITE
    <3>3. v.par.Buffer \notin Pointers
      BY <1>2, <2>2
    <3> QED BY <1>2, <3>1, <3>2, <3>3 DEF PlaceOK, TakenOK
  <2> QED BY <2>1, <2>2
<1> QED BY <1>3, <1>5, <1>6, <1>7, <1>8 DEF Store

(* What a task does besides is to change fields the invariant does not     *)
(* speak of, or an address of an event that is complete.                   *)
LEMMA StoreEventKeeps ==
  ASSUME NEW w, Store(w), StoresEvent(w)
  PROVE  Store(StoreEvent(w)) /\ Client(w, StoreEvent(w))
<1> DEFINE i == w.ram["LogEvAddr"]
           q == EEPROM_Func(w.par, F_WRITE, EvCell(i), "LogEv.Data", LOG_EV_DATA_CNT)
           e == [w.ev EXCEPT !.MainDataFlag = TRUE, !.BufCurIndex = LOG_EV_BUF_CELL_COUNT,
                             !.WriteFlag = FALSE, !.Addr = EvBuffer(i)]
           v == StoreEvent(w)
<1>1. w \in Worlds /\ w.par \in Drivers /\ ~Busy(w) /\ i \in 0 .. LOG_EV_CNT - 1
  <2>1. w \in Worlds /\ w.par \in Drivers /\ ~Busy(w) /\ i \in Nat
    BY DEF StoresEvent, Busy, Store, Worlds, Pointers
  <2>2. i <= Top["LogEvAddr"] /\ Top["LogEvAddr"] = LOG_EV_CNT - 1
    BY DEF Store, AheadOK, Top, Pointers
  <2> QED BY <2>1, <2>2, Sizes
<1>2. /\ EvCell(i) \in Nat /\ EvCell(i) >= 4 /\ EvCell(i) + LOG_EV_DATA_CNT <= MemoryWords
      /\ LOG_EV_DATA_CNT \in Nat \ {0} /\ "LogEv.Data" \in Buffers \ Pointers
      /\ EvBuffer(i) \in Nat /\ LOG_EV_BUF_CELL_COUNT \in Nat
  <2>1. \A x, y, z \in Nat : x * y * z \in Nat
    OBVIOUS
  <2>2. EvBuffer(i) \in Nat
    BY <1>1, <2>1, Sizes DEF EvBuffer, LOG_EV_BUF_START_ADDR
  <2>3. "LogEv.Data" \in Buffers \ Pointers
    BY DEF Buffers, Pointers
  <2> QED BY <1>1, <2>2, <2>3, EventCells, Sizes
<1>3. q \in Drivers
  BY <1>1, <1>2, RequestEffect
<1>4. v = [w EXCEPT !.par = q, !.ev = e]
  BY <1>1 DEF StoreEvent, WriteMem, Worlds
<1>5. e \in [Data : 0 .. 2, WriteFlag : BOOLEAN, EventFlag : BOOLEAN, Timer : Nat,
             MainDataFlag : BOOLEAN, BufCurIndex : 0 .. LOG_EV_BUF_CELL_COUNT, Addr : Nat]
  <2>1. w.ev \in [Data : 0 .. 2, WriteFlag : BOOLEAN, EventFlag : BOOLEAN, Timer : Nat,
                  MainDataFlag : BOOLEAN, BufCurIndex : 0 .. LOG_EV_BUF_CELL_COUNT, Addr : Nat]
    BY <1>1 DEF Worlds
  <2>2. EvBuffer(i) \in Nat /\ LOG_EV_BUF_CELL_COUNT \in 0 .. LOG_EV_BUF_CELL_COUNT
    BY <1>2
  <2> HIDE DEF i
  <2> QED BY <2>1, <2>2
<1> HIDE DEF q, e, v
<1>6. /\ v \in Worlds /\ v.par = q /\ v.mem = w.mem /\ v.prev = w.prev /\ v.ram = w.ram
      /\ v.env = w.env
  BY <1>1, <1>3, <1>4, <1>5 DEF Worlds
<1>7. AheadOK(v)
  BY <1>6 DEF Store, AheadOK
<1>8. \A p \in EventPointers : v.ram[p] = v.prev[p]
  BY <1>6 DEF StoresEvent, Changed, EventPointers
<1> QED BY <1>1, <1>2, <1>6, <1>7, <1>8, RecordKeeps DEF q, v

LEMMA ReadEventKeeps ==
  ASSUME NEW w, Store(w), ~Busy(w)
  PROVE  Store(ReadEvent(w)) /\ Client(w, ReadEvent(w))
<1> DEFINE v == ReadEvent(w)
<1>1. w \in Worlds /\ w.par \in Drivers /\ w.menu.Position \in 0 .. LOG_EV_CNT - 1
  BY DEF Store, Worlds
<1>2. CASE w.menu.ReadLogFlag
  <2>1. /\ v \in Worlds /\ v.mem = w.mem /\ v.par = w.par /\ v.ram = w.ram /\ v.prev = w.prev
        /\ v.ev = w.ev /\ v.env = w.env
    BY <1>1, <1>2 DEF ReadEvent, Worlds
  <2>2. Client(w, v)
    BY <2>1 DEF Client
  <2> HIDE DEF v
  <2>3. Store(v)
    BY <2>1, StoreKept
  <2> QED BY <2>2, <2>3 DEF v
<1>3. CASE ~w.menu.ReadLogFlag
  <2> DEFINE a == EvCell(w.menu.Position)
             q == EEPROM_Func(w.par, F_READ, a, "Ram.GroupE", LOG_EV_DATA_CNT)
  <2>1. /\ a \in Nat /\ a + LOG_EV_DATA_CNT <= MemoryWords
        /\ LOG_EV_DATA_CNT \in Nat \ {0} /\ "Ram.GroupE" \in Buffers \ Pointers
    <3>1. "Ram.GroupE" \in Buffers \ Pointers
      BY DEF Buffers, Pointers
    <3> QED BY <1>1, <3>1, EventCells, Sizes
  <2>2. q \in Drivers
    BY <1>1, <2>1, RequestEffect
  <2>3. v = [w EXCEPT !.ev.Addr = a, !.par = q, !.menu.ReadLogFlag = TRUE]
    BY <1>3 DEF ReadEvent, ReadMem
  <2> HIDE DEF a, q, v
  <2>4. /\ v \in Worlds /\ v.par = q /\ v.mem = w.mem /\ v.prev = w.prev /\ v.ram = w.ram
        /\ v.env = w.env /\ v.ev.MainDataFlag = w.ev.MainDataFlag
    BY <1>1, <2>1, <2>2, <2>3 DEF Worlds
  <2>5. AheadOK(v) /\ (v.ev.MainDataFlag => \A p \in EventPointers : v.ram[p] = v.prev[p])
    BY <2>4 DEF Store, AheadOK, CalmOK
  <2>6. F_READ # F_WRITE
    BY DEF F_READ, F_WRITE
  <2> QED BY <2>1, <2>4, <2>5, <2>6, RecordKeeps DEF q, v
<1> QED BY <1>2, <1>3

LEMMA EventToParKeeps ==
  ASSUME NEW w, Store(w)
  PROVE  Store(EventToPar(w)) /\ Client(w, EventToPar(w))
<1>1. Client(w, w) /\ {"LogEvAddr", "LogEvCount"} \subseteq Pointers
  BY DEF Client, Pointers
<1> QED BY <1>1, StorePointerKeeps, ReadEventKeeps DEF EventToPar, Busy

(* An address goes to the next record or to the first, a count to the next *)
(* or stays.                                                               *)
LEMMA NextRecord ==
  ASSUME NEW n \in Nat, NEW size \in Nat \ {0}
  PROVE  /\ Following(n, size) \in 0 .. size - 1
         /\ n <= Following(n, size) \/ Following(n, size) = 0
         /\ Counted(n, size) \in Nat /\ n <= Counted(n, size)
         /\ n <= size => Counted(n, size) <= size
  BY DEF Following, Counted

LEMMA BufferCellKeeps ==
  ASSUME NEW w, Store(w)
  PROVE  LET v == StoreBufferCell(w)
         IN /\ Store(v) /\ v.mem = w.mem /\ v.par = w.par
            /\ v.ev.MainDataFlag = w.ev.MainDataFlag
<1> DEFINE v == StoreBufferCell(w)
           q == EEPROM_Func(w.log, F_WRITE, w.ev.Addr, "LogEvBuffer", LOG_EV_BUF_DATA_CNT)
           k == w.ev.BufCurIndex - 1
           a == w.ev.Addr + LOG_EV_BUF_DATA_CNT
<1>1. CASE w.ev.BufCurIndex = 0
  BY <1>1 DEF StoreBufferCell
<1>2. CASE w.ev.BufCurIndex # 0
  <2>1. w \in Worlds
    BY DEF Store
  <2>2. w.log \in Drivers /\ w.ev.Addr \in Nat /\ w.ev.BufCurIndex \in 0 .. LOG_EV_BUF_CELL_COUNT
    BY <2>1 DEF Worlds
  <2>3. k \in 0 .. LOG_EV_BUF_CELL_COUNT /\ a \in Nat
    BY <1>2, <2>2, Sizes
  <2>4. q \in Drivers
    <3>1. "LogEvBuffer" \in Buffers /\ LOG_EV_BUF_DATA_CNT \in Nat
      BY Sizes DEF Buffers
    <3> QED BY <2>2, <3>1, RequestEffect
  <2>5. v = [w EXCEPT !.log = q, !.ev.BufCurIndex = k, !.ev.Addr = a]
    BY <1>2 DEF StoreBufferCell, WriteMem
  <2> HIDE DEF q, k, a, v
  <2>6. /\ v \in Worlds /\ v.mem = w.mem /\ v.par = w.par /\ v.ram = w.ram /\ v.prev = w.prev
        /\ v.env = w.env /\ v.ev.MainDataFlag = w.ev.MainDataFlag
    BY <2>1, <2>3, <2>4, <2>5 DEF Worlds
  <2>7. Store(v)
    BY <2>6, StoreKept
  <2> QED BY <2>6, <2>7 DEF v
<1> QED BY <1>1, <1>2

LEMMA EventStoredKeeps ==
  ASSUME NEW w, Store(w), w.ev.MainDataFlag
  PROVE  LET v == EventStored(w) IN Store(v) /\ v.mem = w.mem /\ v.par = w.par
<1> DEFINE v == EventStored(w)
           A == Following(w.ram["LogEvAddr"], LOG_EV_CNT)
           C == Counted(w.ram["LogEvCount"], LOG_EV_CNT)
<1>1. CASE w.ev.BufCurIndex # 0
  BY <1>1 DEF EventStored
<1>2. CASE w.ev.BufCurIndex = 0
  <2>1. w \in Worlds /\ w.ram \in [Pointers -> Nat]
    BY DEF Store, Worlds
  <2>2. /\ w.ram["LogEvAddr"] \in Nat /\ w.ram["LogEvCount"] \in Nat
        /\ w.ram["LogEvCount"] <= LOG_EV_CNT
        /\ Top["LogEvAddr"] = LOG_EV_CNT - 1 /\ Top["LogEvCount"] = LOG_EV_CNT
    BY <2>1 DEF Store, AheadOK, Top, Pointers
  <2>3. /\ A \in 0 .. LOG_EV_CNT - 1 /\ (w.ram["LogEvAddr"] <= A \/ A = 0)
        /\ C \in Nat /\ w.ram["LogEvCount"] <= C /\ C <= LOG_EV_CNT
    BY <2>2, NextRecord, Sizes
  <2>4. v = [w EXCEPT !.ev.MainDataFlag = FALSE, !.ev.EventFlag = FALSE,
                      !.ram = [w.ram EXCEPT !["LogEvAddr"] = A, !["LogEvCount"] = C]]
    BY <1>2, <2>1 DEF EventStored, Worlds, Pointers
  <2>5. /\ [w.ram EXCEPT !["LogEvAddr"] = A, !["LogEvCount"] = C] \in [Pointers -> Nat]
        /\ A \in Nat /\ C \in Nat
    <3>1. A \in Nat /\ C \in Nat
      BY <2>3, Sizes
    <3> HIDE DEF A, C
    <3> QED BY <2>1, <3>1
  <2> HIDE DEF A, C, v
  <2>6. /\ v \in Worlds /\ v.mem = w.mem /\ v.par = w.par /\ v.prev = w.prev
        /\ v.env = w.env /\ ~v.ev.MainDataFlag
        /\ v.ram = [w.ram EXCEPT !["LogEvAddr"] = A, !["LogEvCount"] = C]
    BY <2>1, <2>4, <2>5 DEF Worlds
  <2>7. /\ v.ram["LogEvAddr"] = A /\ v.ram["LogEvCount"] = C
        /\ \A p \in Pointers \ EventPointers : v.ram[p] = w.ram[p]
    BY <2>1, <2>6 DEF EventPointers, Pointers
  <2>8. \A p \in EventPointers : w.ram[p] = w.prev[p] /\ ~Writing(w, p)
    BY DEF Store, CalmOK
  <2>9. AheadOK(v)
    <3>1. ASSUME NEW p \in Pointers
          PROVE  /\ v.ram[p] <= Top[p] /\ v.prev[p] <= Top[p]
                 /\ v.prev[p] <= v.ram[p] \/ (v.ram[p] = 0 /\ p \notin Counts)
      <4>1. CASE p = "LogEvAddr"
        <5>1. v.prev[p] = w.ram["LogEvAddr"] /\ v.prev[p] <= Top[p] /\ p \notin Counts
          BY <2>6, <2>8, <4>1 DEF Store, AheadOK, EventPointers, Counts
        <5> QED BY <2>2, <2>3, <2>7, <4>1, <5>1, Sizes
      <4>2. CASE p = "LogEvCount"
        <5>1. v.prev[p] = w.ram["LogEvCount"] /\ v.prev[p] <= Top[p]
          BY <2>6, <2>8, <4>2 DEF Store, AheadOK, EventPointers
        <5> QED BY <2>2, <2>3, <2>7, <4>2, <5>1
      <4>3. CASE p \in Pointers \ EventPointers
        BY <2>6, <2>7, <4>3 DEF Store, AheadOK
      <4> QED BY <4>1, <4>2, <4>3 DEF EventPointers
    <3> QED BY <3>1 DEF AheadOK
  <2>10. CalmOK(v)
    BY <2>6 DEF CalmOK
  <2>11. \A p : Writing(v, p) <=> Writing(w, p)
    BY <2>6 DEF Writing, Writes
  <2>12. \A p \in Pointers : Writing(w, p) => v.ram[p] = w.ram[p]
    BY <2>7, <2>8
  <2>13. DriverOK(v) /\ BytesOK(v) /\ StoredOK(v) /\ RingOK(v)
    BY <2>6, <2>11 DEF Store, DriverOK, BytesOK, StoredOK, RingOK, Busy
  <2>14. PlaceOK(v) /\ TakenOK(v)
    BY <2>6, <2>12 DEF Store, PlaceOK, TakenOK, Writes, Writing
  <2> QED BY <2>6, <2>9, <2>10, <2>13, <2>14 DEF Store, v
<1> QED BY <1>1, <1>2

LEMMA EventToLogKeeps ==
  ASSUME NEW w, Store(w)
  PROVE  LET v == EventToLog(w) IN Store(v) /\ v.mem = w.mem /\ v.par = w.par
<1>1. CASE IsReady(w.log) /\ w.ev.MainDataFlag
  <2>1. PICK u : u = StoreBufferCell(w)
    OBVIOUS
  <2>2. Store(u) /\ u.mem = w.mem /\ u.par = w.par /\ u.ev.MainDataFlag
    BY <1>1, <2>1, BufferCellKeeps
  <2>3. EventToLog(w) = EventStored(u)
    BY <1>1, <2>1 DEF EventToLog
  <2> QED BY <2>2, <2>3, EventStoredKeeps
<1>2. CASE ~(IsReady(w.log) /\ w.ev.MainDataFlag)
  BY <1>2 DEF EventToLog
<1> QED BY <1>1, <1>2

LEMMA EventNoted ==
  ASSUME NEW w, Store(w), NEW event \in BOOLEAN, NEW v, v = [w EXCEPT !.ev = LogEvUpdate(@, event)]
  PROVE  /\ Store(v) /\ v.mem = w.mem /\ v.par = w.par /\ v.log = w.log /\ v.ram = w.ram
         /\ v.prev = w.prev /\ v.env = w.env /\ v.ev = LogEvUpdate(w.ev, event)
         /\ v.ev.MainDataFlag = w.ev.MainDataFlag
<1> DEFINE e == LogEvUpdate(w.ev, event)
<1>1. w \in Worlds
  BY DEF Store
<1>2. /\ e \in [Data : 0 .. 2, WriteFlag : BOOLEAN, EventFlag : BOOLEAN, Timer : Nat,
                MainDataFlag : BOOLEAN, BufCurIndex : 0 .. LOG_EV_BUF_CELL_COUNT, Addr : Nat]
      /\ e.MainDataFlag = w.ev.MainDataFlag
  <2>1. w.ev \in [Data : 0 .. 2, WriteFlag : BOOLEAN, EventFlag : BOOLEAN, Timer : Nat,
                  MainDataFlag : BOOLEAN, BufCurIndex : 0 .. LOG_EV_BUF_CELL_COUNT, Addr : Nat]
    BY <1>1 DEF Worlds
  <2>2. CountDown(w.ev.Timer) \in Nat /\ NextMark(w.ev.Data) \in 0 .. 2
    BY <2>1 DEF CountDown, NextMark
  <2> DEFINE T == CountDown(w.ev.Timer)
             M == NextMark(w.ev.Data)
  <2>3. \/ e = [w.ev EXCEPT !.Timer = T, !.WriteFlag = FALSE]
        \/ e = [w.ev EXCEPT !.Timer = T, !.Data = M, !.WriteFlag = TRUE, !.EventFlag = TRUE]
        \/ e = [w.ev EXCEPT !.Timer = T]
    BY DEF LogEvUpdate
  <2>4. T \in Nat /\ M \in 0 .. 2
    BY <2>2
  <2> HIDE DEF e, T, M
  <2> QED BY <2>1, <2>3, <2>4
<1> HIDE DEF e
<1>3. v = [w EXCEPT !.ev = e]
  BY <1>1 DEF e, Worlds
<1>4. /\ v \in Worlds /\ v.mem = w.mem /\ v.par = w.par /\ v.log = w.log /\ v.ram = w.ram
      /\ v.prev = w.prev /\ v.env = w.env /\ v.ev = e /\ v.ev.MainDataFlag = w.ev.MainDataFlag
  BY <1>1, <1>2, <1>3 DEF Worlds
<1>5. Store(v)
  BY <1>4, StoreKept
<1> QED BY <1>4, <1>5 DEF e

LEMMA LogEvControlKeeps ==
  ASSUME NEW w, Store(w), NEW event \in BOOLEAN
  PROVE  Store(LogEvControl(w, event)) /\ Client(w, LogEvControl(w, event))
<1>1. PICK v : v = [w EXCEPT !.ev = LogEvUpdate(@, event)]
  OBVIOUS
<1>2. Store(v) /\ v.mem = w.mem /\ v.par = w.par
  BY <1>1, EventNoted
<1>3. LogEvControl(w, event)
        = IF StoresEvent(v) THEN StoreEvent(v) ELSE EventToLog(EventToPar(v))
  BY <1>1 DEF LogEvControl
<1>4. CASE StoresEvent(v)
  <2>1. Store(StoreEvent(v)) /\ Client(v, StoreEvent(v))
    BY <1>2, <1>4, StoreEventKeeps
  <2> QED BY <1>2, <1>3, <1>4, <2>1 DEF Client, Busy
<1>5. CASE ~StoresEvent(v)
  <2>1. PICK u : u = EventToPar(v)
    OBVIOUS
  <2>2. Store(u) /\ Client(v, u)
    BY <1>2, <2>1, EventToParKeeps
  <2>3. PICK x : x = EventToLog(u)
    OBVIOUS
  <2>4. Store(x) /\ x.mem = u.mem /\ x.par = u.par
    BY <2>2, <2>3, EventToLogKeeps
  <2>5. LogEvControl(w, event) = x
    BY <1>3, <1>5, <2>1, <2>3
  <2> QED BY <1>2, <2>2, <2>4, <2>5 DEF Client, Busy
<1> QED BY <1>4, <1>5

LEMMA StoreCommandKeeps ==
  ASSUME NEW w, Store(w), ~Busy(w), ~Changed(w, "LogCmdAddr")
  PROVE  Store(StoreCommand(w)) /\ Client(w, StoreCommand(w))
<1> DEFINE i == w.ram["LogCmdAddr"]
           q == EEPROM_Func(w.par, F_WRITE, CmdCell(i), "LogCmd.Data", LOG_CMD_DATA_CNT)
           A == Following(w.ram["LogCmdAddr"], LOG_CMD_CNT)
           C == Counted(w.ram["LogCmdCount"], LOG_CMD_CNT)
           v == StoreCommand(w)
<1>1. w \in Worlds /\ w.par \in Drivers /\ w.ram \in [Pointers -> Nat]
  BY DEF Store, Worlds
<1>2. /\ i \in 0 .. LOG_CMD_CNT - 1 /\ w.ram["LogCmdCount"] \in Nat
      /\ w.ram["LogCmdCount"] <= LOG_CMD_CNT
      /\ Top["LogCmdAddr"] = LOG_CMD_CNT - 1 /\ Top["LogCmdCount"] = LOG_CMD_CNT
  <2>1. /\ i \in Nat /\ i <= LOG_CMD_CNT - 1 /\ w.ram["LogCmdCount"] \in Nat
        /\ w.ram["LogCmdCount"] <= LOG_CMD_CNT
        /\ Top["LogCmdAddr"] = LOG_CMD_CNT - 1 /\ Top["LogCmdCount"] = LOG_CMD_CNT
    BY <1>1 DEF Store, AheadOK, Top, Pointers
  <2> QED BY <2>1, Sizes
<1>3. /\ CmdCell(i) \in Nat /\ CmdCell(i) >= 4 /\ CmdCell(i) + LOG_CMD_DATA_CNT <= MemoryWords
      /\ LOG_CMD_DATA_CNT \in Nat \ {0} /\ "LogCmd.Data" \in Buffers \ Pointers
  <2>1. "LogCmd.Data" \in Buffers \ Pointers
    BY DEF Buffers, Pointers
  <2> QED BY <1>2, <2>1, CommandCells, Sizes
<1>4. q \in Drivers
  BY <1>1, <1>3, RequestEffect
<1>5. /\ A \in 0 .. LOG_CMD_CNT - 1 /\ (i <= A \/ A = 0)
      /\ C \in Nat /\ w.ram["LogCmdCount"] <= C /\ C <= LOG_CMD_CNT
  BY <1>2, NextRecord, Sizes
<1>6. v = [w EXCEPT !.par = q, !.cmd.WriteFlag = FALSE,
                    !.ram = [w.ram EXCEPT !["LogCmdAddr"] = A, !["LogCmdCount"] = C]]
  BY <1>1 DEF StoreCommand, WriteMem, Worlds, Pointers
<1>7. A \in Nat /\ C \in Nat
  BY <1>5, Sizes
<1> HIDE DEF A, C, q, v
<1>8. [w.ram EXCEPT !["LogCmdAddr"] = A, !["LogCmdCount"] = C] \in [Pointers -> Nat]
  BY <1>1, <1>7
<1>9. /\ v \in Worlds /\ v.mem = w.mem /\ v.par = q /\ v.prev = w.prev
      /\ v.env = w.env /\ v.ev = w.ev
      /\ v.ram = [w.ram EXCEPT !["LogCmdAddr"] = A, !["LogCmdCount"] = C]
  BY <1>1, <1>4, <1>6, <1>8 DEF Worlds
<1>10. /\ v.ram["LogCmdAddr"] = A /\ v.ram["LogCmdCount"] = C
       /\ \A p \in EventPointers : v.ram[p] = w.ram[p]
  BY <1>1, <1>9 DEF EventPointers, Pointers
<1>11. AheadOK(v)
  <2>1. ASSUME NEW p \in Pointers
        PROVE  /\ v.ram[p] <= Top[p] /\ v.prev[p] <= Top[p]
               /\ v.prev[p] <= v.ram[p] \/ (v.ram[p] = 0 /\ p \notin Counts)
    <3>1. CASE p = "LogCmdAddr"
      <4>1. v.prev[p] = i /\ v.prev[p] <= Top[p] /\ p \notin Counts
        BY <1>9, <3>1 DEF Store, AheadOK, Changed, Counts
      <4> QED BY <1>2, <1>5, <1>10, <3>1, <4>1, Sizes
    <3>2. CASE p = "LogCmdCount"
      <4>1. /\ v.prev[p] \in Nat /\ v.prev[p] <= Top[p]
            /\ v.prev[p] <= w.ram["LogCmdCount"]
        <5>1. v.prev[p] \in Nat /\ p \in Counts
          BY <1>9, <3>2 DEF Worlds, Counts
        <5> QED BY <1>9, <3>2, <5>1 DEF Store, AheadOK
      <4> QED BY <1>2, <1>5, <1>10, <3>2, <4>1
    <3>3. CASE p \in EventPointers
      BY <1>9, <1>10, <3>3 DEF Store, AheadOK
    <3> QED BY <3>1, <3>2, <3>3 DEF EventPointers, Pointers
  <2> QED BY <2>1 DEF AheadOK
<1>12. v.ev.MainDataFlag => \A p \in EventPointers : v.ram[p] = v.prev[p]
  BY <1>9, <1>10 DEF Store, CalmOK
<1>13. F_WRITE \in {F_READ, F_WRITE} /\ (v.env.mended <=> w.env.mended)
  BY <1>9
<1>14. v.par = EEPROM_Func(w.par, F_WRITE, CmdCell(i), "LogCmd.Data", LOG_CMD_DATA_CNT)
  BY <1>9 DEF q
<1>15. Store(v) /\ Client(w, v)
  BY <1>3, <1>9, <1>11, <1>12, <1>13, <1>14, RecordKeeps
<1> QED BY <1>15 DEF v

LEMMA CommandToParKeeps ==
  ASSUME NEW w, Store(w)
  PROVE  Store(CommandToPar(w)) /\ Client(w, CommandToPar(w))
<1>1. Client(w, w) /\ {"LogCmdAddr", "LogCmdCount"} \subseteq Pointers
  BY DEF Client, Pointers
<1> QED BY <1>1, StorePointerKeeps, StoreCommandKeeps DEF CommandToPar, Busy

LEMMA CommandNoted ==
  ASSUME NEW w, Store(w), NEW command \in BOOLEAN,
         NEW v, v = [w EXCEPT !.cmd = LogCmdUpdate(@, command)]
  PROVE  /\ Store(v) /\ v.mem = w.mem /\ v.par = w.par /\ v.log = w.log /\ v.ram = w.ram
         /\ v.prev = w.prev /\ v.env = w.env /\ v.ev = w.ev
<1> DEFINE c == LogCmdUpdate(w.cmd, command)
<1>1. w \in Worlds
  BY DEF Store
<1>2. c \in [Data : 0 .. 1, WriteFlag : BOOLEAN, Timer : Nat]
  <2>1. w.cmd \in [Data : 0 .. 1, WriteFlag : BOOLEAN, Timer : Nat]
    BY <1>1 DEF Worlds
  <2>2. CountDown(w.cmd.Timer) \in Nat
    BY <2>1 DEF CountDown
  <2> DEFINE T == CountDown(w.cmd.Timer)
  <2>3. \/ c = [w.cmd EXCEPT !.Timer = T, !.WriteFlag = FALSE]
        \/ c = [w.cmd EXCEPT !.Timer = T, !.Data = 1, !.WriteFlag = TRUE]
        \/ c = [w.cmd EXCEPT !.Timer = T]
    BY DEF LogCmdUpdate
  <2>4. T \in Nat
    BY <2>2
  <2> HIDE DEF c, T
  <2>5. 1 \in 0 .. 1
    OBVIOUS
  <2>6. CASE c = [w.cmd EXCEPT !.Timer = T, !.WriteFlag = FALSE]
    BY <2>1, <2>4, <2>6
  <2>7. CASE c = [w.cmd EXCEPT !.Timer = T, !.Data = 1, !.WriteFlag = TRUE]
    BY <2>1, <2>4, <2>5, <2>7
  <2>8. CASE c = [w.cmd EXCEPT !.Timer = T]
    BY <2>1, <2>4, <2>8
  <2> QED BY <2>3, <2>6, <2>7, <2>8
<1> HIDE DEF c
<1>3. v = [w EXCEPT !.cmd = c]
  BY <1>1 DEF c, Worlds
<1>4. /\ v \in Worlds /\ v.mem = w.mem /\ v.par = w.par /\ v.log = w.log /\ v.ram = w.ram
      /\ v.prev = w.prev /\ v.env = w.env /\ v.ev = w.ev
  BY <1>1, <1>2, <1>3 DEF Worlds
<1>5. Store(v)
  BY <1>4, StoreKept
<1> QED BY <1>4, <1>5

LEMMA LogCmdControlKeeps ==
  ASSUME NEW w, Store(w), NEW command \in BOOLEAN
  PROVE  Store(LogCmdControl(w, command)) /\ Client(w, LogCmdControl(w, command))
<1>1. PICK v : v = [w EXCEPT !.cmd = LogCmdUpdate(@, command)]
  OBVIOUS
<1>2. Store(v) /\ v.mem = w.mem /\ v.par = w.par
  BY <1>1, CommandNoted
<1>3. Store(CommandToPar(v)) /\ Client(v, CommandToPar(v))
  BY <1>2, CommandToParKeeps
<1>4. LogCmdControl(w, command) = CommandToPar(v)
  BY <1>1 DEF LogCmdControl
<1> QED BY <1>2, <1>3, <1>4 DEF Client, Busy

LEMMA DataBufferPreKeeps ==
  ASSUME NEW w, Store(w), NEW second \in BOOLEAN, NEW sample \in Samples
  PROVE  LET v == DataBufferPre(w, FALSE, second, sample)
         IN /\ Store(v) /\ Client(w, v) /\ v.mem = w.mem /\ v.par = w.par /\ v.log = w.log
            /\ v.ram = w.ram /\ v.prev = w.prev /\ v.env = w.env /\ v.ev = w.ev
<1> DEFINE b == [k \in DOMAIN w.buf |->
                   IF k = LOG_EV_BUF_CELL_COUNT THEN sample ELSE w.buf[k + 1]]
           v == [w EXCEPT !.buf = b]
<1>1. w \in Worlds /\ w.buf \in [1 .. LOG_EV_BUF_CELL_COUNT -> Nat] /\ sample \in Nat
  BY Sizes DEF Store, Worlds
<1>2. b \in [1 .. LOG_EV_BUF_CELL_COUNT -> Nat]
  BY <1>1, Sizes
<1> HIDE DEF b
<1>3. /\ v \in Worlds /\ v.mem = w.mem /\ v.par = w.par /\ v.ram = w.ram /\ v.prev = w.prev
      /\ v.env = w.env /\ v.ev = w.ev /\ v.log = w.log
  BY <1>1, <1>2 DEF Worlds
<1>4. DataBufferPre(w, FALSE, second, sample) = v
      \/ DataBufferPre(w, FALSE, second, sample) = w
  BY DEF DataBufferPre, ShiftBuffer, b
<1> HIDE DEF v
<1>5. Store(v) /\ Client(w, v) /\ Client(w, w)
  BY <1>3, StoreKept DEF Client
<1> QED BY <1>3, <1>4, <1>5

-----------------------------------------------------------------------------
(***************************************************************************)
(* The drivers.                                                            *)
(***************************************************************************)
LEMMA DriverTypes ==
  ASSUME NEW p \in Drivers, NEW stored, NEW live \in Nat
  PROVE  FM25V10_Update(p, stored, live) \in Drivers
<1>1. /\ p.Func \in SUBSET {F_READ, F_WRITE} /\ p.State \in {0, 2, 3, 4} /\ p.Addr \in Nat
      /\ p.Count \in Nat /\ p.RetryTimer \in Nat
  BY DEF Drivers
<1>2. \A q \in Drivers : NextByte(q) \in Drivers
  <2> SUFFICES ASSUME NEW q \in Drivers PROVE NextByte(q) \in Drivers
    OBVIOUS
  <2>1. CASE q.Count > 1
    <3>1. q.Addr + 1 \in Nat /\ q.Count - 1 \in Nat
      BY <2>1 DEF Drivers
    <3>2. NextByte(q) = [q EXCEPT !.Addr = q.Addr + 1, !.Count = q.Count - 1, !.State = 0]
      BY <2>1 DEF NextByte
    <3> QED BY <3>1, <3>2 DEF Drivers
  <2>2. CASE ~(q.Count > 1)
    <3>1. NextByte(q) = [q EXCEPT !.RetryTimer = 0, !.Count = 0, !.Func = {}, !.State = 0]
      BY <2>2 DEF NextByte
    <3>2. {} \in SUBSET {F_READ, F_WRITE} /\ 0 \in {0, 2, 3, 4} /\ 0 \in Nat
      OBVIOUS
    <3> QED BY <3>1, <3>2 DEF Drivers
  <2> QED BY <2>1, <2>2
<1>3. WriteAgain(p) \in Drivers
  <2>1. p.RetryTimer + 1 \in Nat /\ p.Func \ {F_READ} \in SUBSET {F_READ, F_WRITE}
    BY <1>1
  <2>2. \/ WriteAgain(p) = [p EXCEPT !.RetryTimer = p.RetryTimer + 1,
                                     !.Func = p.Func \ {F_READ}, !.State = 0]
        \/ WriteAgain(p) = [p EXCEPT !.RetryTimer = p.RetryTimer + 1, !.Error = TRUE,
                                     !.Func = {}, !.State = 0]
    BY DEF WriteAgain
  <2> QED BY <2>1, <2>2 DEF Drivers
<1>4. ReadByte(p, stored) \in Drivers
  <2> DEFINE q == [p EXCEPT !.RetryTimer = 0, !.Func = p.Func \ {F_READ}]
  <2>1. q \in Drivers
    BY <1>1 DEF Drivers
  <2>2. ReadByte(p, stored) \in {NextByte(p), WriteAgain(p), NextByte(q)}
    BY DEF ReadByte
  <2> HIDE DEF q
  <2> QED BY <1>2, <1>3, <2>1, <2>2
<1>5. Dispatch(p) \in Drivers /\ TakeByte(p, live) \in Drivers /\ WriteByte(p) \in Drivers
  BY <1>1 DEF Dispatch, TakeByte, WriteByte, Drivers
<1>6. [p EXCEPT !.State = 0] \in Drivers
  BY DEF Drivers
<1>7. FM25V10_Update(p, stored, live)
        \in {[p EXCEPT !.State = 0], Dispatch(p), ReadByte(p, stored), TakeByte(p, live),
             WriteByte(p)}
  BY <1>1 DEF FM25V10_Update
<1> QED BY <1>4, <1>5, <1>6, <1>7

(* The byte a driver takes.                                                *)
LEMMA LiveByte ==
  ASSUME NEW w, Store(w), NEW p \in Drivers
  PROVE  Live(w, p) \in Byte /\ Live(w, p) \in Nat
<1>1. w \in Worlds /\ ByteBase \in Nat \ {0, 1}
  BY Sizes DEF Store
<1>2. CASE p.Buffer \in Pointers
  <2>1. Live(w, p) = ByteOf(w.ram[p.Buffer], p.Addr)
    BY <1>2 DEF Live, Pointers
  <2>2. /\ w.ram[p.Buffer] \in Nat /\ w.ram[p.Buffer] <= Top[p.Buffer]
        /\ Top[p.Buffer] \in Nat /\ Top[p.Buffer] < ByteBase * ByteBase
    BY <1>1, <1>2, Tops DEF Store, AheadOK, Worlds
  <2> DEFINE x == w.ram[p.Buffer]
  <2>3. x \in Nat /\ x < ByteBase * ByteBase
    <3>1. ByteBase * ByteBase \in Nat
      BY <1>1
    <3> QED BY <2>2, <3>1
  <2> HIDE DEF x
  <2>4. x % ByteBase \in 0 .. ByteBase - 1 /\ x \div ByteBase \in 0 .. ByteBase - 1
    BY <1>1, <2>3, WordParts, HighByteBounded
  <2>5. ByteOf(x, p.Addr) \in {x % ByteBase, x \div ByteBase}
    BY DEF ByteOf
  <2> QED BY <1>1, <2>1, <2>4, <2>5 DEF x, Byte
<1>3. CASE p.Buffer \notin Pointers
  <2>1. Live(w, p) \in {w.ev.Data, w.cmd.Data, 0}
    BY <1>3 DEF Live
  <2>2. w.ev.Data \in 0 .. 2 /\ w.cmd.Data \in 0 .. 1
    BY <1>1 DEF Worlds
  <2> QED BY <1>1, <2>1, <2>2 DEF Byte
<1> QED BY <1>2, <1>3

LEMMA WorldWritten ==
  ASSUME NEW w \in Worlds, NEW m \in [Address -> Byte], NEW p \in Drivers,
         NEW l \in Drivers,
         NEW e \in [gap : Nat, losses : Nat, cleared : BOOLEAN, mended : BOOLEAN]
  PROVE  [w EXCEPT !.mem = m, !.par = p, !.log = l, !.env = e] \in Worlds
  BY DEF Worlds

(* What a call leaves alone, and that it keeps the types.                  *)
LEMMA UpdateFrame ==
  ASSUME NEW w, Store(w), NEW lost \in SUBSET MayLose(w), NEW u, u = EEPROM_Update(w, lost)
  PROVE  /\ u \in Worlds /\ u.ram = w.ram /\ u.prev = w.prev /\ u.ev = w.ev
         /\ u.env.mended = w.env.mended
         /\ u.par = FM25V10_Update(w.par, w.mem[w.par.Addr], Live(w, w.par))
         /\ u.mem = IF Sends(w.par) /\ "par" \notin lost
                    THEN [w.mem EXCEPT ![w.par.Addr] = w.par.WrData] ELSE w.mem
         /\ u.log = FM25V10_Update(w.log, LogByte(w.log, "log" \in lost), 0)
         /\ u.env.losses = w.env.losses + Cardinality(lost)
<1> DEFINE m == IF Sends(w.par) /\ "par" \notin lost
                THEN [w.mem EXCEPT ![w.par.Addr] = w.par.WrData] ELSE w.mem
           p == FM25V10_Update(w.par, w.mem[w.par.Addr], Live(w, w.par))
           l == FM25V10_Update(w.log, LogByte(w.log, "log" \in lost), 0)
           n == w.env.losses + Cardinality(lost)
           e == [w.env EXCEPT !.losses = n]
<1>1. w \in Worlds /\ w.par \in Drivers /\ w.log \in Drivers /\ w.mem \in [Address -> Byte]
  BY DEF Store, Worlds
<1>2. m \in [Address -> Byte]
  <2>1. CASE Sends(w.par)
    <3>1. w.par.WrData \in Byte
      BY <2>1 DEF Sends, Store, DriverOK, TakenOK, Writes
    <3> QED BY <1>1, <3>1
  <2> QED BY <1>1, <2>1
<1>3. p \in Drivers /\ l \in Drivers
  BY <1>1, LiveByte, DriverTypes
<1>4. n \in Nat
  <2>1. lost \in SUBSET {"par", "log"}
    BY Sizes DEF MayLose
  <2>2. IsFiniteSet({"par", "log"})
    <3>1. IsFiniteSet({} \union {"par"})
      BY FS_EmptySet, FS_AddElement
    <3>2. IsFiniteSet(({} \union {"par"}) \union {"log"})
      BY <3>1, FS_AddElement
    <3>3. {"par", "log"} = ({} \union {"par"}) \union {"log"}
      OBVIOUS
    <3> QED BY <3>2, <3>3
  <2>3. Cardinality(lost) \in Nat
    BY <2>1, <2>2, FS_Subset, FS_CardinalityType
  <2>4. w.env.losses \in Nat
    BY <1>1 DEF Worlds
  <2> QED BY <2>3, <2>4
<1>5. u = [w EXCEPT !.mem = m, !.par = p, !.log = l, !.env = e]
  BY <1>1 DEF EEPROM_Update, Worlds
<1> HIDE DEF m, p, l, n
<1>6. /\ e \in [gap : Nat, losses : Nat, cleared : BOOLEAN, mended : BOOLEAN]
      /\ e.mended = w.env.mended /\ e.losses = n
  <2>1. w.env \in [gap : Nat, losses : Nat, cleared : BOOLEAN, mended : BOOLEAN]
    BY <1>1 DEF Worlds
  <2> QED BY <1>4, <2>1
<1> HIDE DEF e
<1>7. /\ u \in Worlds /\ u.mem = m /\ u.par = p /\ u.ram = w.ram /\ u.prev = w.prev
      /\ u.ev = w.ev /\ u.log = l /\ u.env.mended = w.env.mended /\ u.env.losses = n
  <2>1. /\ m \in [Address -> Byte] /\ p \in Drivers /\ l \in Drivers
        /\ e \in [gap : Nat, losses : Nat, cleared : BOOLEAN, mended : BOOLEAN]
    BY <1>2, <1>3, <1>6
  <2>2. u \in Worlds
    <3>1. [w EXCEPT !.mem = m, !.par = p, !.log = l, !.env = e] \in Worlds
      BY <1>1, <2>1, WorldWritten
    <3> QED BY <1>5, <3>1
  <2>3. /\ u.mem = m /\ u.par = p /\ u.ram = w.ram /\ u.prev = w.prev
        /\ u.ev = w.ev /\ u.log = l /\ u.env = e
    BY <1>1, <1>5 DEF Worlds
  <2> QED BY <1>6, <2>2, <2>3
<1> QED BY <1>7 DEF m, p, l, n

(* The steps of a call, from the state of the driver.                      *)
Frame(w, u) == /\ u \in Worlds /\ u.ram = w.ram /\ u.prev = w.prev /\ u.ev = w.ev
               /\ u.env.mended = w.env.mended

LEMMA FrameKept ==
  ASSUME NEW w, Store(w), NEW u, Frame(w, u),
         \A p \in Pointers : Writing(u, p) => Writing(w, p)
  PROVE  AheadOK(u) /\ CalmOK(u)
  BY DEF Store, Frame, AheadOK, CalmOK, EventPointers, Pointers

LEMMA DispatchKeeps ==
  ASSUME NEW w, Store(w), NEW u, Frame(w, u), Busy(w), w.par.State = 0,
         u.par = Dispatch(w.par), u.mem = w.mem
  PROVE  Store(u)
<1>1. w.par \in Drivers /\ w.par.Func \in SUBSET {F_READ, F_WRITE}
  BY DEF Store, Worlds, Drivers
<1>2. /\ u.par.Func = w.par.Func /\ u.par.Addr = w.par.Addr /\ u.par.Count = w.par.Count
      /\ u.par.Buffer = w.par.Buffer /\ u.par.WrData = w.par.WrData
      /\ u.par.Error = w.par.Error
      /\ u.par.State = IF F_READ \in w.par.Func THEN 2 ELSE 3
  BY <1>1 DEF Dispatch, Drivers
<1>3. \A p : Writing(u, p) <=> Writing(w, p)
  BY <1>2 DEF Writing, Writes
<1>4. DriverOK(u)
  <2>1. F_READ \notin w.par.Func => w.par.Func = {F_WRITE}
    BY <1>1 DEF Busy, IsReady
  <2> QED BY <1>2, <2>1 DEF Store, DriverOK, Busy, IsReady
<1>5. PlaceOK(u) /\ TakenOK(u)
  BY <1>2 DEF Frame, Store, PlaceOK, TakenOK, Writes
<1>6. BytesOK(u) /\ StoredOK(u) /\ RingOK(u)
  BY <1>2, <1>3 DEF Frame, Store, BytesOK, StoredOK, RingOK
<1> QED BY <1>3, <1>4, <1>5, <1>6, FrameKept DEF Store, Frame

LEMMA TakeKeeps ==
  ASSUME NEW w, Store(w), NEW u, Frame(w, u), Busy(w), w.par.State = 3,
         u.par = TakeByte(w.par, Live(w, w.par)), u.mem = w.mem
  PROVE  Store(u)
<1>1. w.par \in Drivers /\ w.par.Func = {F_WRITE} /\ Live(w, w.par) \in Byte
  <2>1. w.par \in Drivers /\ w.par.Func = {F_WRITE}
    BY DEF Store, Worlds, DriverOK
  <2> QED BY <2>1, LiveByte
<1>2. /\ u.par.Func = w.par.Func /\ u.par.Addr = w.par.Addr /\ u.par.Count = w.par.Count
      /\ u.par.Buffer = w.par.Buffer /\ u.par.WrData = Live(w, w.par)
      /\ u.par.Error = w.par.Error /\ u.par.State = 4
  BY <1>1 DEF TakeByte, Drivers
<1>3. \A p : Writing(u, p) <=> Writing(w, p)
  BY <1>2 DEF Writing, Writes
<1>4. DriverOK(u)
  BY <1>1, <1>2 DEF Store, DriverOK, Busy, IsReady
<1>5. PlaceOK(u)
  BY <1>2 DEF Frame, Store, PlaceOK, Writes
<1>6. TakenOK(u)
  <2>1. w.par.Buffer \in Pointers => Live(w, w.par) = ByteOf(w.ram[w.par.Buffer], w.par.Addr)
    BY DEF Live, Pointers
  <2> QED BY <1>1, <1>2, <2>1 DEF Frame, TakenOK
<1>7. BytesOK(u) /\ StoredOK(u) /\ RingOK(u)
  BY <1>2, <1>3 DEF Frame, Store, BytesOK, StoredOK, RingOK
<1> QED BY <1>3, <1>4, <1>5, <1>6, <1>7, FrameKept DEF Store, Frame

(* The byte that is sent, where it goes.                                   *)
LEMMA SentByte ==
  ASSUME NEW w, Store(w), Writes(w), w.par.State = 4 \/ F_READ \in w.par.Func,
         w.par.Buffer \in Pointers
  PROVE  LET p == w.par.Buffer
         IN /\ w.prev[p] \in Nat /\ w.prev[p] <= Top[p]
            /\ w.prev[p] % ByteBase \in 0 .. ByteBase - 1
            /\ w.prev[p] \div ByteBase \in 0 .. ByteBase - 1
            /\ w.prev[p] = (w.prev[p] % ByteBase) + ByteBase * (w.prev[p] \div ByteBase)
            /\ Writing(w, p) /\ w.par.Addr \in {Low(p), Low(p) + 1}
            /\ w.par.Addr = Low(p) => w.par.WrData = w.prev[p] % ByteBase /\ w.par.Count = 2
            /\ w.par.Addr = Low(p) + 1 => w.par.WrData = w.prev[p] \div ByteBase /\ w.par.Count = 1
<1> DEFINE p == w.par.Buffer
           x == w.prev[p]
<1>1. w \in Worlds /\ ByteBase \in Nat \ {0} /\ w.par.Count \in Nat
  BY Sizes DEF Store, Worlds, Drivers
<1>2. /\ x \in Nat /\ x <= Top[p] /\ Top[p] \in Nat /\ Top[p] < ByteBase * ByteBase
  BY <1>1, Tops DEF Store, AheadOK, Worlds
<1>3. /\ w.par.Addr \in {Low(p), Low(p) + 1} /\ w.ram[p] = x
      /\ w.par.Addr + w.par.Count = Low(p) + 2
      /\ w.par.WrData = ByteOf(x, w.par.Addr)
  BY DEF Store, PlaceOK, TakenOK
<1>4. Low(p) % 2 = 0 /\ (Low(p) + 1) % 2 = 1 /\ Low(p) \in Nat
  BY PointerCells
<1> HIDE DEF x
<1>5. x < ByteBase * ByteBase
  <2>1. ByteBase * ByteBase \in Nat
    BY <1>1
  <2> QED BY <1>2, <2>1
<1>6. /\ x % ByteBase \in 0 .. ByteBase - 1 /\ x \div ByteBase \in 0 .. ByteBase - 1
      /\ x = (x % ByteBase) + ByteBase * (x \div ByteBase)
  BY <1>1, <1>2, <1>5, WordParts, HighByteBounded
<1>7. w.par.Addr = Low(p) => w.par.WrData = x % ByteBase /\ w.par.Count = 2
  BY <1>1, <1>3, <1>4 DEF ByteOf
<1>8. w.par.Addr = Low(p) + 1 => w.par.WrData = x \div ByteBase /\ w.par.Count = 1
  BY <1>1, <1>3, <1>4 DEF ByteOf
<1> QED BY <1>2, <1>3, <1>6, <1>7, <1>8 DEF x, Writing

LEMMA SendKeeps ==
  ASSUME NEW w, Store(w), NEW u, Frame(w, u), Busy(w), w.par.State = 4,
         u.par = WriteByte(w.par),
         \/ u.mem = w.mem
         \/ u.mem = [w.mem EXCEPT ![w.par.Addr] = w.par.WrData]
  PROVE  Store(u)
<1>1. /\ w.par \in Drivers /\ w.par.Func = {F_WRITE} /\ ~w.par.Error
      /\ w.mem \in [Address -> Byte]
  BY DEF Store, Worlds, DriverOK
<1>2. /\ u.par.Func = {F_READ, F_WRITE} /\ u.par.Addr = w.par.Addr
      /\ u.par.Count = w.par.Count /\ u.par.Buffer = w.par.Buffer
      /\ u.par.WrData = w.par.WrData /\ u.par.Error = w.par.Error /\ u.par.State = 0
  BY <1>1 DEF WriteByte, Drivers
<1>3. \A p : Writing(u, p) <=> Writing(w, p)
  BY <1>1, <1>2 DEF Writing, Writes
<1>4. Writes(w) /\ Writes(u)
  BY <1>1, <1>2 DEF Writes
<1>5. DriverOK(u)
  BY <1>1, <1>2 DEF Store, DriverOK, Busy, IsReady
<1>6. PlaceOK(u) /\ TakenOK(u)
  BY <1>2, <1>4 DEF Frame, Store, PlaceOK, TakenOK
<1>7. CASE u.mem = w.mem
  <2>1. BytesOK(u) /\ StoredOK(u) /\ RingOK(u)
    BY <1>2, <1>3, <1>7 DEF Frame, Store, BytesOK, StoredOK, RingOK
  <2> QED BY <1>3, <1>5, <1>6, <2>1, FrameKept DEF Store, Frame
<1>8. CASE w.par.Buffer \notin Pointers /\ u.mem = [w.mem EXCEPT ![w.par.Addr] = w.par.WrData]
  <2>1. w.par.Addr >= 8 /\ w.par.Addr \in Nat
    BY <1>1, <1>4, <1>8 DEF Store, PlaceOK, Drivers
  <2>2. \A p \in Pointers : u.mem[Low(p)] = w.mem[Low(p)] /\ u.mem[Low(p) + 1] = w.mem[Low(p) + 1]
    <3>1. \A p \in Pointers : Low(p) # w.par.Addr /\ Low(p) + 1 # w.par.Addr
      BY <2>1, PointerCells
    <3> QED BY <1>1, <1>8, <3>1, PointerCells
  <2>3. \A p \in Pointers : WordAt(u.mem, GetAdr(p)) = WordAt(w.mem, GetAdr(p))
    BY <2>2 DEF WordAt, Low
  <2>4. BytesOK(u) /\ StoredOK(u) /\ RingOK(u)
    BY <1>2, <1>3, <2>2, <2>3 DEF Frame, Store, BytesOK, StoredOK, RingOK
  <2> QED BY <1>3, <1>5, <1>6, <2>4, FrameKept DEF Store, Frame
<1>9. CASE w.par.Buffer \in Pointers /\ u.mem = [w.mem EXCEPT ![w.par.Addr] = w.par.WrData]
  <2> DEFINE p == w.par.Buffer
             x == w.prev[p]
  <2>1. /\ p \in Pointers /\ x \in Nat /\ x <= Top[p]
        /\ x % ByteBase \in 0 .. ByteBase - 1 /\ x \div ByteBase \in 0 .. ByteBase - 1
        /\ x = (x % ByteBase) + ByteBase * (x \div ByteBase)
        /\ Writing(w, p) /\ w.par.Addr \in {Low(p), Low(p) + 1}
        /\ w.par.Addr = Low(p) => w.par.WrData = x % ByteBase
        /\ w.par.Addr = Low(p) + 1 => w.par.WrData = x \div ByteBase
    BY <1>4, <1>9, SentByte
  <2> HIDE DEF x
  <2>2. ASSUME NEW r \in Pointers, r # p
        PROVE  /\ u.mem[Low(r)] = w.mem[Low(r)] /\ u.mem[Low(r) + 1] = w.mem[Low(r) + 1]
               /\ ~Writing(w, r)
    <3>1. Low(r) # w.par.Addr /\ Low(r) + 1 # w.par.Addr
      <4>1. /\ Low(r) \in {0, 2, 4, 6} /\ Low(p) \in {0, 2, 4, 6} /\ Low(r) # Low(p)
        BY <2>1, <2>2, PointerCells
      <4> QED BY <2>1, <4>1
    <3>2. ~Writing(w, r)
      BY <2>2 DEF Writing
    <3> QED BY <1>1, <1>9, <3>1, <3>2, PointerCells
  <2>3. /\ Low(p) \in Address /\ Low(p) + 1 \in Address /\ Low(p) # Low(p) + 1
        /\ w.par.Addr = Low(p) => /\ u.mem[Low(p)] = x % ByteBase
                                  /\ u.mem[Low(p) + 1] = w.mem[Low(p) + 1]
        /\ w.par.Addr = Low(p) + 1 => /\ u.mem[Low(p)] = w.mem[Low(p)]
                                      /\ u.mem[Low(p) + 1] = x \div ByteBase
    <3>1. Low(p) \in Address /\ Low(p) + 1 \in Address /\ Low(p) # Low(p) + 1
      BY <2>1, PointerCells
    <3> QED BY <1>1, <1>9, <2>1, <3>1
  <2>4. BytesOK(u)
    <3>1. u.mem[Low(p)] \in 0 .. ByteBase - 1 /\ u.mem[Low(p) + 1] \in 0 .. ByteBase - 1
      BY <2>1, <2>3 DEF Store, BytesOK
    <3> QED BY <2>2, <3>1 DEF Store, BytesOK
  <2>5. ~w.env.mended /\ w.par.Addr = Low(p) + 1 => w.mem[Low(p)] = x % ByteBase
    BY <1>1, <2>1 DEF Store, StoredOK, x
  <2>6. StoredOK(u)
    <3> SUFFICES ASSUME ~u.env.mended /\ ~u.par.Error, NEW r \in Pointers
                 PROVE  /\ ~Writing(u, r) => /\ u.mem[Low(r)] = u.prev[r] % ByteBase
                                             /\ u.mem[Low(r) + 1] = u.prev[r] \div ByteBase
                        /\ Writing(u, r) /\ u.par.Addr = Low(r) + 1
                             => u.mem[Low(r)] = u.prev[r] % ByteBase
      BY DEF StoredOK
    <3>1. CASE r = p
      BY <1>2, <1>3, <2>1, <2>3, <2>5, <3>1 DEF Frame, x
    <3>2. CASE r # p
      BY <1>2, <1>3, <2>2, <3>2 DEF Frame, Store, StoredOK
    <3> QED BY <3>1, <3>2
  <2>7. RingOK(u)
    <3> SUFFICES ASSUME ~u.env.mended, NEW r \in Pointers
                 PROVE  /\ WordAt(u.mem, GetAdr(r)) <= Top[r]
                        /\ Writing(u, r) =>
                             (u.prev[r] % ByteBase) + ByteBase * u.mem[Low(r) + 1] <= Top[r]
      BY DEF RingOK
    <3>1. CASE r # p
      <4>1. WordAt(u.mem, GetAdr(r)) = WordAt(w.mem, GetAdr(r))
        BY <2>2, <3>1 DEF WordAt, Low
      <4> QED BY <1>3, <2>2, <3>1, <4>1 DEF Frame, Store, RingOK
    <3>2. CASE r = p
      <4>1. WordAt(u.mem, GetAdr(r)) = u.mem[Low(p)] + ByteBase * u.mem[Low(p) + 1]
        BY <3>2 DEF WordAt, Low
      <4>2. u.prev[r] = x /\ ~w.env.mended
        BY <3>2 DEF Frame, x
      <4>3. CASE w.par.Addr = Low(p)
        <5>1. (x % ByteBase) + ByteBase * w.mem[Low(p) + 1] <= Top[p]
          BY <2>1, <4>2 DEF Store, RingOK, x
        <5> QED BY <2>3, <3>2, <4>1, <4>2, <4>3, <5>1
      <4>4. CASE w.par.Addr = Low(p) + 1
        BY <2>1, <2>3, <2>5, <3>2, <4>1, <4>2, <4>4
      <4> QED BY <2>1, <4>3, <4>4
    <3> QED BY <3>1, <3>2
  <2> QED BY <1>3, <1>5, <1>6, <2>4, <2>6, <2>7, FrameKept DEF Store, Frame
<1> QED BY <1>7, <1>8, <1>9

(* The end of a byte: on to the next, or the end of the request.           *)
LEMMA NextByteFields ==
  ASSUME NEW q \in Drivers, NEW p, p = NextByte(q)
  PROVE  /\ p.State = 0 /\ p.Error = q.Error /\ p.Buffer = q.Buffer /\ p.WrData = q.WrData
         /\ q.Count > 1 => p.Addr = q.Addr + 1 /\ p.Count = q.Count - 1 /\ p.Func = q.Func
         /\ ~(q.Count > 1) => p.Func = {}
<1>1. CASE q.Count > 1
  <2>1. p = [q EXCEPT !.Addr = q.Addr + 1, !.Count = q.Count - 1, !.State = 0]
    BY <1>1 DEF NextByte
  <2> QED BY <1>1, <2>1 DEF Drivers
<1>2. CASE ~(q.Count > 1)
  <2>1. p = [q EXCEPT !.RetryTimer = 0, !.Count = 0, !.Func = {}, !.State = 0]
    BY <1>2 DEF NextByte
  <2> QED BY <1>2, <2>1 DEF Drivers
<1> QED BY <1>1, <1>2

LEMMA ReadKeeps ==
  ASSUME NEW w, Store(w), NEW u, Frame(w, u), Busy(w), w.par.State = 2,
         u.par = ReadByte(w.par, w.mem[w.par.Addr]), u.mem = w.mem
  PROVE  Store(u)
<1>1. /\ w.par \in Drivers /\ F_READ \in w.par.Func /\ ~w.par.Error
      /\ w.par.Func \in SUBSET {F_READ, F_WRITE} /\ w.par.Count \in Nat /\ w.par.Addr \in Nat
      /\ w.par.Count > 0 /\ w.par.Addr + w.par.Count <= 2 * MemoryWords
      /\ MemoryWords \in Nat /\ F_READ # F_WRITE
  BY PointerCells DEF Store, Worlds, DriverOK, Drivers, F_READ, F_WRITE
<1>2. CASE ~Writes(w)
  <2>1. u.par = NextByte(w.par)
    BY <1>2 DEF ReadByte, Writes
  <2>2. /\ u.par.State = 0 /\ u.par.Error = w.par.Error
        /\ w.par.Count > 1 => /\ u.par.Addr = w.par.Addr + 1 /\ u.par.Count = w.par.Count - 1
                              /\ u.par.Func = w.par.Func
        /\ ~(w.par.Count > 1) => u.par.Func = {}
    BY <1>1, <2>1, NextByteFields
  <2>3. ~Writes(u) /\ \A p : ~Writing(u, p) /\ ~Writing(w, p)
    BY <1>2, <2>2 DEF Writes, Writing
  <2>4. DriverOK(u)
    <3>1. CASE w.par.Count > 1
      BY <1>1, <2>2, <3>1 DEF DriverOK, Busy, IsReady
    <3>2. CASE ~(w.par.Count > 1)
      BY <2>2, <3>2 DEF DriverOK, Busy, IsReady
    <3> QED BY <3>1, <3>2
  <2>5. PlaceOK(u) /\ TakenOK(u) /\ BytesOK(u) /\ StoredOK(u) /\ RingOK(u)
    BY <2>2, <2>3 DEF Frame, Store, PlaceOK, TakenOK, BytesOK, StoredOK, RingOK
  <2> QED BY <2>3, <2>4, <2>5, FrameKept DEF Store, Frame
<1>3. CASE Writes(w) /\ w.mem[w.par.Addr] # w.par.WrData
  <2>1. u.par = WriteAgain(w.par) /\ w.par.RetryTimer + 1 \in Nat
    BY <1>1, <1>3 DEF ReadByte, Writes, Drivers
  <2>2. CASE w.par.RetryTimer + 1 < EEPROM_RETRY
    <3>1. u.par = [w.par EXCEPT !.RetryTimer = w.par.RetryTimer + 1,
                                !.Func = w.par.Func \ {F_READ}, !.State = 0]
      BY <2>1, <2>2 DEF WriteAgain
    <3>2. /\ u.par.State = 0 /\ u.par.Error = w.par.Error /\ u.par.Addr = w.par.Addr
          /\ u.par.Count = w.par.Count /\ u.par.Buffer = w.par.Buffer
          /\ u.par.Func = {F_WRITE}
      <4>1. w.par.Func \ {F_READ} = {F_WRITE}
        BY <1>1, <1>3 DEF Writes
      <4> QED BY <1>1, <3>1, <4>1 DEF Drivers
    <3>3. Writes(u) /\ F_READ \notin u.par.Func /\ \A p : Writing(u, p) <=> Writing(w, p)
      BY <1>1, <1>3, <3>2 DEF Writes, Writing
    <3>4. DriverOK(u) /\ TakenOK(u)
      BY <1>1, <3>2, <3>3 DEF DriverOK, TakenOK, Busy, IsReady
    <3>5. PlaceOK(u)
      BY <1>3, <3>2 DEF Frame, Store, PlaceOK
    <3>6. BytesOK(u) /\ StoredOK(u) /\ RingOK(u)
      BY <3>2, <3>3 DEF Frame, Store, BytesOK, StoredOK, RingOK
    <3> QED BY <3>3, <3>4, <3>5, <3>6, FrameKept DEF Store, Frame
  <2>3. CASE ~(w.par.RetryTimer + 1 < EEPROM_RETRY)
    <3>1. u.par = [w.par EXCEPT !.RetryTimer = w.par.RetryTimer + 1, !.Error = TRUE,
                                !.Func = {}, !.State = 0]
      BY <2>1, <2>3 DEF WriteAgain
    <3>2. u.par.State = 0 /\ u.par.Error /\ u.par.Func = {}
      BY <1>1, <3>1 DEF Drivers
    <3>3. ~Writes(u) /\ ~Busy(u) /\ \A p : ~Writing(u, p)
      BY <3>2 DEF Writes, Writing, Busy, IsReady
    <3>4. DriverOK(u) /\ PlaceOK(u) /\ TakenOK(u) /\ BytesOK(u) /\ StoredOK(u) /\ RingOK(u)
      BY <3>2, <3>3 DEF Frame, Store, DriverOK, PlaceOK, TakenOK, BytesOK, StoredOK, RingOK
    <3> QED BY <3>3, <3>4, FrameKept DEF Store, Frame
  <2> QED BY <2>2, <2>3
<1>4. CASE Writes(w) /\ w.mem[w.par.Addr] = w.par.WrData
  <2> DEFINE q == [w.par EXCEPT !.RetryTimer = 0, !.Func = w.par.Func \ {F_READ}]
  <2>1. u.par = NextByte(q)
    BY <1>1, <1>4 DEF ReadByte, Writes
  <2>2. /\ q \in Drivers /\ q.Func = {F_WRITE} /\ q.Error = w.par.Error
        /\ q.Addr = w.par.Addr /\ q.Count = w.par.Count /\ q.Buffer = w.par.Buffer
    <3>1. w.par.Func \ {F_READ} = {F_WRITE}
      BY <1>1, <1>4 DEF Writes
    <3> QED BY <1>1, <3>1 DEF Drivers
  <2> HIDE DEF q
  <2>3. /\ u.par.State = 0 /\ ~u.par.Error /\ u.par.Buffer = w.par.Buffer
        /\ w.par.Count > 1 => /\ u.par.Addr = w.par.Addr + 1 /\ u.par.Count = w.par.Count - 1
                              /\ u.par.Func = {F_WRITE}
        /\ ~(w.par.Count > 1) => u.par.Func = {}
    BY <1>1, <2>1, <2>2, NextByteFields
  <2>4. \A p : Writing(u, p) => Writing(w, p)
    BY <1>4, <2>3 DEF Writing
  <2>5. DriverOK(u)
    <3>1. CASE w.par.Count > 1
      BY <1>1, <2>3, <3>1 DEF DriverOK, Busy, IsReady
    <3>2. CASE ~(w.par.Count > 1)
      BY <2>3, <3>2 DEF DriverOK, Busy, IsReady
    <3> QED BY <3>1, <3>2
  <2>6. TakenOK(u)
    BY <1>1, <2>3 DEF TakenOK, Writes
  <2>7. PlaceOK(u)
    <3> SUFFICES ASSUME Writes(u) PROVE PlaceOK(u)
      BY DEF PlaceOK
    <3>1. w.par.Count > 1 /\ u.par.Addr = w.par.Addr + 1 /\ u.par.Count = w.par.Count - 1
      BY <2>3 DEF Writes
    <3>2. CASE w.par.Buffer \in Pointers
      <4>1. w.par.Addr = Low(w.par.Buffer) /\ w.par.Count = 2 /\ Low(w.par.Buffer) \in Nat
        BY <1>1, <1>4, <3>1, <3>2, SentByte, PointerCells
      <4> QED BY <1>4, <2>3, <3>1, <3>2, <4>1 DEF Frame, Store, PlaceOK
    <3>3. CASE w.par.Buffer \notin Pointers
      BY <1>1, <1>4, <2>3, <3>1, <3>3 DEF Store, PlaceOK
    <3> QED BY <3>2, <3>3
  <2>8. StoredOK(u)
    <3> SUFFICES ASSUME ~u.env.mended, NEW p \in Pointers
                 PROVE  /\ ~Writing(u, p) => /\ u.mem[Low(p)] = u.prev[p] % ByteBase
                                             /\ u.mem[Low(p) + 1] = u.prev[p] \div ByteBase
                        /\ Writing(u, p) /\ u.par.Addr = Low(p) + 1
                             => u.mem[Low(p)] = u.prev[p] % ByteBase
      BY DEF StoredOK
    <3>1. CASE ~Writing(w, p)
      BY <1>1, <2>4, <3>1 DEF Frame, Store, StoredOK
    <3>2. CASE Writing(w, p)
      <4>1. /\ p = w.par.Buffer /\ w.par.Addr \in {Low(p), Low(p) + 1}
            /\ w.par.Addr = Low(p) => w.par.WrData = w.prev[p] % ByteBase /\ w.par.Count = 2
            /\ w.par.Addr = Low(p) + 1 => w.par.WrData = w.prev[p] \div ByteBase /\ w.par.Count = 1
        BY <1>1, <1>4, <3>2, SentByte DEF Writing
      <4>2. CASE w.par.Addr = Low(p)
        <5>1. Writing(u, p)
          BY <2>3, <4>1, <4>2 DEF Writing, Writes
        <5> QED BY <1>4, <4>1, <4>2, <5>1 DEF Frame
      <4>3. CASE w.par.Addr = Low(p) + 1
        <5>1. ~Writing(u, p)
          BY <2>3, <4>1, <4>3 DEF Writing, Writes
        <5>2. w.mem[Low(p)] = w.prev[p] % ByteBase
          BY <1>1, <3>2, <4>3 DEF Frame, Store, StoredOK
        <5> QED BY <1>4, <4>1, <4>3, <5>1, <5>2 DEF Frame
      <4> QED BY <4>1, <4>2, <4>3
    <3> QED BY <3>1, <3>2
  <2>9. BytesOK(u) /\ RingOK(u)
    BY <2>4 DEF Frame, Store, BytesOK, RingOK
  <2> QED BY <2>4, <2>5, <2>6, <2>7, <2>8, <2>9, FrameKept DEF Store, Frame
<1> QED BY <1>2, <1>3, <1>4

LEMMA UpdateKeeps ==
  ASSUME NEW w, Store(w), NEW lost \in SUBSET MayLose(w)
  PROVE  Store(EEPROM_Update(w, lost))
<1>1. PICK u : u = EEPROM_Update(w, lost)
  OBVIOUS
<1>2. /\ Frame(w, u)
      /\ u.par = FM25V10_Update(w.par, w.mem[w.par.Addr], Live(w, w.par))
      /\ u.mem = IF Sends(w.par) /\ "par" \notin lost
                 THEN [w.mem EXCEPT ![w.par.Addr] = w.par.WrData] ELSE w.mem
  BY <1>1, UpdateFrame DEF Frame
<1>3. w.par \in Drivers /\ w.par.State \in {0, 2, 3, 4}
  BY DEF Store, Worlds, Drivers
<1>4. CASE ~Busy(w)
  <2>1. w.par.State = 0
    BY <1>4 DEF Store, DriverOK
  <2>2. u.par = w.par /\ u.mem = w.mem
    BY <1>2, <1>3, <1>4, <2>1 DEF FM25V10_Update, Busy, Sends, Drivers
  <2> QED BY <1>1, <1>2, <2>2, StoreKept DEF Frame
<1>5. CASE Busy(w) /\ w.par.State = 0
  BY <1>1, <1>2, <1>5, DispatchKeeps DEF FM25V10_Update, Busy, Sends
<1>6. CASE Busy(w) /\ w.par.State = 2
  BY <1>1, <1>2, <1>6, ReadKeeps DEF FM25V10_Update, Busy, Sends
<1>7. CASE Busy(w) /\ w.par.State = 3
  BY <1>1, <1>2, <1>7, TakeKeeps DEF FM25V10_Update, Busy, Sends
<1>8. CASE Busy(w) /\ w.par.State = 4
  BY <1>1, <1>2, <1>8, SendKeeps DEF FM25V10_Update, Busy, Sends
<1> QED BY <1>3, <1>4, <1>5, <1>6, <1>7, <1>8

-----------------------------------------------------------------------------
(***************************************************************************)
(* The steps of the journals.  StoreStep says of one that it keeps the     *)
(* invariant and is a step of the abstract memory or none of it.           *)
(***************************************************************************)
StoreStep == Store(World') /\ [ParStore!Next]_(ParStore!vars)

LEMMA WorldBecomes ==
  ASSUME NEW u \in Worlds, Become(u)
  PROVE  World' = u
  BY DEF World, Become, Worlds

(* What the abstract memory sees of the driver.                            *)
Job(b, w, a, n, x) == [busy |-> b, write |-> w, addr |-> a, left |-> n, taken |-> x]
Work(w, a, n, x) == Job(TRUE, w, a, n, x)

LEMMA WorkFields ==
  ASSUME NEW w, NEW a, NEW n, NEW x
  PROVE  /\ Work(w, a, n, x).busy = TRUE /\ Work(w, a, n, x).write = w
         /\ Work(w, a, n, x).addr = a
         /\ Work(w, a, n, x).left = n /\ Work(w, a, n, x).taken = x
         /\ ParStore!Request(w, a, n) = Work(w, a, n, ParStore!NothingTaken)
<1>1. Work(w, a, n, x).busy = TRUE /\ Work(w, a, n, x).write = w
  BY Zenon DEF Work, Job
<1>2. Work(w, a, n, x).addr = a /\ Work(w, a, n, x).left = n /\ Work(w, a, n, x).taken = x
  BY Zenon DEF Work, Job
<1>3. ParStore!Request(w, a, n) = Work(w, a, n, ParStore!NothingTaken)
  BY Zenon DEF Work, Job, ParStore!Request
<1> QED BY <1>1, <1>2, <1>3, Zenon

LEMMA TaskFields ==
  ASSUME NEW p \in Drivers
  PROVE  /\ IsReady(p) => TaskOf(p) = ParStore!Idle
         /\ ~IsReady(p) =>
              /\ TaskOf(p) = Work(F_WRITE \in p.Func, p.Addr, p.Count, TakenBy(p))
              /\ TaskOf(p).busy /\ TaskOf(p).write = (F_WRITE \in p.Func)
              /\ TaskOf(p).addr = p.Addr /\ TaskOf(p).left = p.Count
              /\ TaskOf(p).taken = TakenBy(p)
<1>1. IsReady(p) => TaskOf(p) = ParStore!Idle
  BY DEF TaskOf, ParStore!Idle
<1>2. ~IsReady(p) => TaskOf(p) = Work(F_WRITE \in p.Func, p.Addr, p.Count, TakenBy(p))
  BY Zenon DEF TaskOf, Work, Job
<1> DEFINE W == Work(F_WRITE \in p.Func, p.Addr, p.Count, TakenBy(p))
<1>3. /\ W.busy = TRUE /\ W.write = (F_WRITE \in p.Func) /\ W.addr = p.Addr
      /\ W.left = p.Count /\ W.taken = TakenBy(p)
  BY Zenon DEF Work, Job
<1> QED BY <1>1, <1>2, <1>3, Zenon

LEMMA DriverStep ==
  ASSUME NEW v, Store(v), v.mem = mem, NEW lost \in SUBSET MayLose(v),
         Become(EEPROM_Update(v, lost)), v.par = par
  PROVE  [ParStore!Next]_(ParStore!vars)
<1> DEFINE t == TaskOf(par)
<1>1. PICK u : u = EEPROM_Update(v, lost)
  OBVIOUS
<1>2. /\ u \in Worlds /\ par' = u.par /\ mem' = u.mem
  BY <1>1, UpdateKeeps DEF Become, Store
<1>3. /\ par' = FM25V10_Update(par, mem[par.Addr], Live(v, par))
      /\ mem' = IF Sends(par) /\ "par" \notin lost
                THEN [mem EXCEPT ![par.Addr] = par.WrData] ELSE mem
  BY <1>1, <1>2, UpdateFrame
<1>4. /\ par \in Drivers /\ par' \in Drivers /\ par.State \in {0, 2, 3, 4}
      /\ par.Func \in SUBSET {F_READ, F_WRITE} /\ F_READ # F_WRITE
      /\ par.Count \in Nat
  BY <1>2 DEF Store, Worlds, Drivers, F_READ, F_WRITE
<1>5. CASE IsReady(par)
  <2>1. par.State = 0
    BY <1>5 DEF Store, DriverOK, Busy
  <2>2. par' = par /\ mem' = mem
    BY <1>3, <1>4, <1>5, <2>1 DEF FM25V10_Update, Sends, Drivers
  <2> QED BY <2>2 DEF ParStore!vars, TaskOf, TakenBy
<1>6. CASE ~IsReady(par) /\ par.State = 0
  <2>1. par' = Dispatch(par) /\ mem' = mem
    BY <1>3, <1>6 DEF FM25V10_Update, Sends
  <2>2. /\ par'.Func = par.Func /\ par'.Addr = par.Addr /\ par'.Count = par.Count
        /\ par'.WrData = par.WrData /\ par'.Error = par.Error /\ par'.State \in {2, 3}
    BY <1>4, <2>1 DEF Dispatch, Drivers
  <2>3. TakenBy(par') = TakenBy(par)
    BY <1>6, <2>2 DEF TakenBy
  <2>4. TaskOf(par') = TaskOf(par)
    BY <2>2, <2>3 DEF TaskOf, IsReady
  <2> QED BY <2>1, <2>2, <2>4 DEF ParStore!vars
<1>7. CASE ~IsReady(par) /\ par.State = 3
  <2>1. par' = TakeByte(par, Live(v, par)) /\ mem' = mem
    BY <1>3, <1>7 DEF FM25V10_Update, Sends
  <2>2. par.Func = {F_WRITE} /\ Live(v, par) \in Byte
    BY <1>4, <1>7, LiveByte DEF Store, DriverOK
  <2>3. /\ par'.Func = par.Func /\ par'.Addr = par.Addr /\ par'.Count = par.Count
        /\ par'.WrData = Live(v, par) /\ par'.Error = par.Error /\ par'.State = 4
    BY <1>4, <2>1 DEF TakeByte, Drivers
  <2>4. TakenBy(par') = ParStore!Taken(Live(v, par)) /\ ~IsReady(par')
    BY <1>7, <2>2, <2>3 DEF TakenBy, IsReady, ParStore!Taken
  <2>5. TaskOf(par') = [t EXCEPT !.taken = ParStore!Taken(Live(v, par))]
    <3>1. TaskOf(par') = Work(TRUE, par.Addr, par.Count, ParStore!Taken(Live(v, par)))
      <4>1. par' \in Drivers /\ ~IsReady(par') /\ F_WRITE \in par'.Func
        BY <1>4, <2>2, <2>3, <2>4
      <4>2. TaskOf(par') = Work(F_WRITE \in par'.Func, par'.Addr, par'.Count, TakenBy(par'))
        BY <4>1, TaskFields
      <4>3. (F_WRITE \in par'.Func) = TRUE
        BY <4>1
      <4> QED BY <2>3, <2>4, <4>2, <4>3
    <3>2. t = Work(TRUE, par.Addr, par.Count, TakenBy(par))
      BY <1>4, <1>7, <2>2, TaskFields
    <3>3. [Work(TRUE, par.Addr, par.Count, TakenBy(par))
             EXCEPT !.taken = ParStore!Taken(Live(v, par))]
            = Work(TRUE, par.Addr, par.Count, ParStore!Taken(Live(v, par)))
      <4>1. PICK a, n, x, y : /\ a = par.Addr /\ n = par.Count /\ x = TakenBy(par)
                              /\ y = ParStore!Taken(Live(v, par))
        OBVIOUS
      <4>2. \A b, w : [Job(b, w, a, n, x) EXCEPT !.taken = y] = Job(b, w, a, n, y)
        BY DEF Job
      <4>3. [Work(TRUE, a, n, x) EXCEPT !.taken = y] = Work(TRUE, a, n, y)
        BY <4>2, Zenon DEF Work
      <4> QED BY <4>1, <4>3
    <3> QED BY <3>1, <3>2, <3>3, Zenon
  <2>6. t.busy /\ t.write
    BY <1>4, <1>7, <2>2, TaskFields
  <2>7. ParStore!Take
    BY <2>1, <2>2, <2>3, <2>5, <2>6 DEF ParStore!Take, Byte
  <2> QED BY <2>7 DEF ParStore!Next
<1>8. CASE ~IsReady(par) /\ par.State = 4
  <2>1. par' = WriteByte(par) /\ (mem' = mem \/ mem' = [mem EXCEPT ![par.Addr] = par.WrData])
    BY <1>3, <1>8 DEF FM25V10_Update, Sends
  <2>2. par.Func = {F_WRITE}
    BY <1>8 DEF Store, DriverOK
  <2>3. /\ par'.Func = {F_READ, F_WRITE} /\ par'.Addr = par.Addr /\ par'.Count = par.Count
        /\ par'.WrData = par.WrData /\ par'.Error = par.Error
    BY <1>4, <2>1, <2>2 DEF WriteByte, Drivers
  <2>4. /\ TakenBy(par) = ParStore!Taken(par.WrData)
        /\ TakenBy(par') = ParStore!Taken(par.WrData)
    BY <1>8, <2>2, <2>3 DEF TakenBy, ParStore!Taken
  <2>5. TaskOf(par') = TaskOf(par)
    BY <1>8, <2>2, <2>3, <2>4 DEF TaskOf, IsReady
  <2>6. /\ t.busy /\ t.write /\ t.addr = par.Addr
        /\ t.taken = ParStore!Taken(par.WrData)
    BY <1>4, <1>8, <2>2, <2>4, TaskFields
  <2>7. CASE mem' = mem
    BY <2>3, <2>5, <2>7 DEF ParStore!vars
  <2>8. CASE mem' = [mem EXCEPT ![par.Addr] = par.WrData]
    <3>1. t.taken.some /\ t.taken.byte = par.WrData
      BY <2>6 DEF ParStore!Taken
    <3>2. ParStore!Put
      BY <2>3, <2>5, <2>6, <2>8, <3>1 DEF ParStore!Put
    <3> QED BY <3>2 DEF ParStore!Next
  <2> QED BY <2>1, <2>7, <2>8
<1>9. CASE ~IsReady(par) /\ par.State = 2
  <2>1. par' = ReadByte(par, mem[par.Addr]) /\ mem' = mem /\ F_READ \in par.Func
    BY <1>3, <1>9 DEF FM25V10_Update, Sends, Store, DriverOK
  <2>2. t.busy /\ t.addr = par.Addr /\ t.left = par.Count /\ t.write = (F_WRITE \in par.Func)
        /\ t.taken = TakenBy(par)
    BY <1>4, <1>9, TaskFields
  <2>3. CASE F_WRITE \notin par.Func \/ mem[par.Addr] = par.WrData
    <3>1. PICK q : /\ q \in Drivers /\ par' = NextByte(q) /\ q.Error = par.Error
                   /\ q.Addr = par.Addr /\ q.Count = par.Count
                   /\ q.Func = IF F_WRITE \in par.Func THEN {F_WRITE} ELSE {F_READ}
      <4>1. CASE F_WRITE \notin par.Func
        <5>1. par' = NextByte(par) /\ par.Func = {F_READ}
          BY <1>4, <2>1, <4>1 DEF ReadByte
        <5> QED BY <1>4, <4>1, <5>1
      <4>2. CASE F_WRITE \in par.Func
        <5> DEFINE q == [par EXCEPT !.RetryTimer = 0, !.Func = par.Func \ {F_READ}]
        <5>1. par' = NextByte(q)
          BY <1>4, <2>1, <2>3, <4>2 DEF ReadByte
        <5>2. par.Func \ {F_READ} = {F_WRITE}
          BY <1>4, <4>2
        <5>3. /\ q \in Drivers /\ q.Error = par.Error /\ q.Addr = par.Addr
              /\ q.Count = par.Count /\ q.Func = {F_WRITE}
          BY <1>4, <5>2 DEF Drivers
        <5> HIDE DEF q
        <5> QED BY <4>2, <5>1, <5>3
      <4> QED BY <4>1, <4>2
    <3>2. /\ par'.State = 0 /\ par'.Error = par.Error
          /\ par.Count > 1 => /\ par'.Addr = par.Addr + 1 /\ par'.Count = par.Count - 1
                              /\ par'.Func = IF F_WRITE \in par.Func THEN {F_WRITE} ELSE {F_READ}
          /\ ~(par.Count > 1) => par'.Func = {}
      BY <1>2, <3>1, NextByteFields
    <3>3. F_WRITE \in par.Func => t.taken.some /\ mem[t.addr] = t.taken.byte
      BY <2>1, <2>2, <2>3 DEF TakenBy
    <3>4. TaskOf(par') = IF t.left > 1
                         THEN ParStore!Request(t.write, t.addr + 1, t.left - 1)
                         ELSE ParStore!Idle
      <4>1. CASE par.Count > 1
        <5>1. TakenBy(par') = ParStore!NothingTaken /\ ~IsReady(par')
              /\ (F_WRITE \in par'.Func) = (F_WRITE \in par.Func)
          BY <1>4, <3>2, <4>1 DEF TakenBy, ParStore!NothingTaken, IsReady
        <5> QED BY <2>2, <3>2, <4>1, <5>1 DEF TaskOf, ParStore!Request
      <4>2. CASE ~(par.Count > 1)
        BY <2>2, <3>2, <4>2 DEF TaskOf, IsReady, ParStore!Idle
      <4> QED BY <4>1, <4>2
    <3>5. ParStore!Advance
      BY <2>1, <2>2, <3>2, <3>3, <3>4 DEF ParStore!Advance
    <3> QED BY <3>5 DEF ParStore!Next
  <2>4. CASE F_WRITE \in par.Func /\ mem[par.Addr] # par.WrData
    <3>1. par' = WriteAgain(par) /\ par.Func \ {F_READ} = {F_WRITE}
      BY <1>4, <2>1, <2>4 DEF ReadByte
    <3>2. CASE par.RetryTimer + 1 < EEPROM_RETRY
      <4>1. par' = [par EXCEPT !.RetryTimer = par.RetryTimer + 1,
                               !.Func = {F_WRITE}, !.State = 0]
        BY <3>1, <3>2 DEF WriteAgain
      <4>2. /\ par'.Func = {F_WRITE} /\ par'.Addr = par.Addr /\ par'.Count = par.Count
            /\ par'.Error = par.Error /\ par'.State = 0
        BY <1>4, <4>1 DEF Drivers
      <4>3. TakenBy(par') = ParStore!NothingTaken /\ ~IsReady(par')
        BY <1>4, <4>2 DEF TakenBy, ParStore!NothingTaken, IsReady
      <4>4. TaskOf(par') = [t EXCEPT !.taken = ParStore!NothingTaken]
        <5>1. TaskOf(par') = Work(TRUE, par.Addr, par.Count, ParStore!NothingTaken)
          BY <1>4, <4>2, <4>3, TaskFields
        <5>2. t = Work(TRUE, par.Addr, par.Count, TakenBy(par))
          BY <1>4, <1>9, <2>4, TaskFields
        <5>3. [Work(TRUE, par.Addr, par.Count, TakenBy(par))
                 EXCEPT !.taken = ParStore!NothingTaken]
                = Work(TRUE, par.Addr, par.Count, ParStore!NothingTaken)
          <6>1. PICK a, n, x, y : /\ a = par.Addr /\ n = par.Count /\ x = TakenBy(par)
                                  /\ y = ParStore!NothingTaken
            OBVIOUS
          <6>2. \A b, w : [Job(b, w, a, n, x) EXCEPT !.taken = y] = Job(b, w, a, n, y)
            BY DEF Job
          <6>3. [Work(TRUE, a, n, x) EXCEPT !.taken = y] = Work(TRUE, a, n, y)
            BY <6>2, Zenon DEF Work
          <6> QED BY <6>1, <6>3
        <5> QED BY <5>1, <5>2, <5>3, Zenon
      <4>5. ParStore!Repeat
        BY <2>1, <2>2, <2>4, <4>2, <4>4 DEF ParStore!Repeat
      <4> QED BY <4>5 DEF ParStore!Next
    <3>3. CASE ~(par.RetryTimer + 1 < EEPROM_RETRY)
      <4>1. par' = [par EXCEPT !.RetryTimer = par.RetryTimer + 1, !.Error = TRUE,
                               !.Func = {}, !.State = 0]
        BY <3>1, <3>3 DEF WriteAgain
      <4>2. par'.Func = {} /\ par'.Error = TRUE
        BY <1>4, <4>1 DEF Drivers
      <4>3. TaskOf(par') = ParStore!Idle
        BY <4>2 DEF TaskOf, IsReady, ParStore!Idle
      <4>4. ParStore!Fail
        BY <2>1, <2>2, <2>4, <4>2, <4>3 DEF ParStore!Fail
      <4> QED BY <4>4 DEF ParStore!Next
    <3> QED BY <3>2, <3>3
  <2> QED BY <2>3, <2>4
<1> QED BY <1>4, <1>5, <1>6, <1>7, <1>8, <1>9

(* A request is accepted in the period of the task that makes it.          *)
LEMMA AskStep ==
  ASSUME NEW v, Store(v), v.mem = mem, NEW lost \in SUBSET MayLose(v),
         Become(EEPROM_Update(v, lost)),
         IsReady(par), ~par.Error, v.par.Error = par.Error, v.par.State = 0,
         v.par.Func \in {{F_READ}, {F_WRITE}}
  PROVE  [ParStore!Next]_(ParStore!vars)
<1>1. PICK u : u = EEPROM_Update(v, lost)
  OBVIOUS
<1>2. /\ u \in Worlds /\ par' = u.par /\ mem' = u.mem
  BY <1>1, UpdateKeeps DEF Become, Store
<1>3. Busy(v) /\ v.par \in Drivers /\ F_READ # F_WRITE
  BY DEF Busy, IsReady, Store, Worlds, F_READ, F_WRITE
<1>4. par' = Dispatch(v.par) /\ mem' = mem
  <2>1. /\ u.par = FM25V10_Update(v.par, v.mem[v.par.Addr], Live(v, v.par))
        /\ u.mem = IF Sends(v.par) /\ "par" \notin lost
                   THEN [v.mem EXCEPT ![v.par.Addr] = v.par.WrData] ELSE v.mem
    BY <1>1, UpdateFrame
  <2> QED BY <1>2, <1>3, <2>1 DEF FM25V10_Update, Busy, Sends
<1>5. /\ par'.Func = v.par.Func /\ par'.Addr = v.par.Addr /\ par'.Count = v.par.Count
      /\ par'.Error = par.Error /\ par'.State \in {2, 3} /\ par' \in Drivers
  <2>1. par' = [v.par EXCEPT !.State = IF F_READ \in v.par.Func THEN 2 ELSE 3]
    BY <1>4 DEF Dispatch
  <2>2. par' \in Drivers /\ par'.State \in {2, 3}
    BY <1>3, <2>1 DEF Drivers
  <2>3. /\ par'.Func = v.par.Func /\ par'.Addr = v.par.Addr /\ par'.Count = v.par.Count
        /\ par'.Error = v.par.Error
    BY <1>3, <2>1 DEF Drivers
  <2> QED BY <2>2, <2>3
<1>6. TakenBy(par') = ParStore!NothingTaken /\ ~IsReady(par')
  BY <1>3, <1>5 DEF TakenBy, IsReady, ParStore!NothingTaken
<1> DEFINE t == TaskOf(par')
<1>7. /\ t = Work(F_WRITE \in par'.Func, par'.Addr, par'.Count, TakenBy(par'))
      /\ t.busy /\ t.write = (F_WRITE \in par'.Func) /\ t.addr = par'.Addr
      /\ t.left = par'.Count
  BY <1>5, <1>6, TaskFields
<1>8. t = ParStore!Request(t.write, t.addr, t.left)
  <2>1. ParStore!Request(F_WRITE \in par'.Func, par'.Addr, par'.Count)
          = Work(F_WRITE \in par'.Func, par'.Addr, par'.Count, ParStore!NothingTaken)
    BY Zenon DEF Work, Job, ParStore!Request
  <2> QED BY <1>6, <1>7, <2>1, Zenon
<1>9. t.write \in BOOLEAN /\ t.addr \in Address /\ t.left \in Nat \ {0}
  <2>1. t.write \in BOOLEAN
    <3>1. t.write = (F_WRITE \in par'.Func)
      BY <1>7
    <3>2. (F_WRITE \in par'.Func) \in BOOLEAN
      OBVIOUS
    <3> QED BY <3>1, <3>2, Zenon
  <2>2. /\ v.par.Count > 0 /\ v.par.Addr + v.par.Count <= 2 * MemoryWords
        /\ v.par.Count \in Nat /\ v.par.Addr \in Nat
    BY <1>3 DEF Store, DriverOK, Drivers
  <2> QED BY <1>5, <1>7, <2>1, <2>2, PointerCells DEF Address
<1>10. TaskOf(par) = ParStore!Idle
  BY DEF TaskOf, ParStore!Idle
<1>11. ~TaskOf(par).busy
  BY <1>10 DEF ParStore!Idle
<1>12. ParStore!Accept
  BY <1>4, <1>5, <1>7, <1>8, <1>9, <1>11 DEF ParStore!Accept
<1> QED BY <1>12 DEF ParStore!Next

LEMMA PeriodStep ==
  ASSUME NEW v, Store(v), Client(World, v), Period(v)
  PROVE  StoreStep
<1>1. PICK lost \in SUBSET MayLose(v) : Become(EEPROM_Update(v, lost))
  BY DEF Period
<1>2. PICK u : u = EEPROM_Update(v, lost)
  OBVIOUS
<1>3. Store(u) /\ Become(u)
  BY <1>1, <1>2, UpdateKeeps
<1>4. World' = u
  BY <1>3, WorldBecomes DEF Store
<1>5. World.mem = mem /\ World.par = par
  BY DEF World
<1>6. [ParStore!Next]_(ParStore!vars)
  <2>1. CASE v.par = par
    BY <1>1, <1>5, <2>1, DriverStep DEF Client
  <2>2. CASE v.par # par
    BY <1>1, <1>5, <2>2, AskStep DEF Client, Busy
  <2> QED BY <2>1, <2>2
<1> QED BY <1>3, <1>4, <1>6 DEF StoreStep

(* The operator clears the errors of the memories.                         *)
LEMMA ClearStep ==
  ASSUME Store(World), ProtectionsClearTick
  PROVE  StoreStep
<1> DEFINE q == [par EXCEPT !.Error = FALSE]
           l == [log EXCEPT !.Error = FALSE]
           e == [env EXCEPT !.mended = env.mended \/ par.Error]
           v == [World EXCEPT !.par = q, !.log = l, !.env = e]
<1>1. /\ World \in Worlds /\ World.par = par /\ World.mem = mem /\ World.ram = ram
      /\ World.prev = prev /\ World.ev = ev /\ World.env = env
      /\ par \in Drivers /\ log \in Drivers
      /\ env \in [gap : Nat, losses : Nat, cleared : BOOLEAN, mended : BOOLEAN]
  BY DEF Store, World, Worlds
<1>2. v = [World EXCEPT !.par.Error = FALSE, !.log.Error = FALSE,
                        !.env.mended = @ \/ par.Error]
  BY DEF World
<1>3. /\ q \in Drivers /\ q.Func = par.Func /\ q.Addr = par.Addr /\ q.Count = par.Count
      /\ q.State = par.State /\ q.Buffer = par.Buffer /\ q.WrData = par.WrData
      /\ q.Error = FALSE /\ l \in Drivers
  BY <1>1 DEF Drivers
<1>4. /\ e \in [gap : Nat, losses : Nat, cleared : BOOLEAN, mended : BOOLEAN]
      /\ e.mended <=> env.mended \/ par.Error
  <2>1. (env.mended \/ par.Error) \in BOOLEAN
    OBVIOUS
  <2> DEFINE b == env.mended \/ par.Error
  <2>2. b \in BOOLEAN /\ e = [env EXCEPT !.mended = b]
    BY <2>1, Zenon
  <2> HIDE DEF b, e
  <2>3. e \in [gap : Nat, losses : Nat, cleared : BOOLEAN, mended : BOOLEAN] /\ e.mended = b
    BY <1>1, <2>2
  <2> QED BY <2>3 DEF b
<1> HIDE DEF q, l, e
<1>5. /\ v \in Worlds /\ v.par = q /\ v.mem = mem /\ v.ram = ram /\ v.prev = prev
      /\ v.ev = ev /\ v.env = e
  BY <1>1, <1>3, <1>4 DEF Worlds
<1> HIDE DEF v
<1>6. Become(v)
  BY <1>2 DEF ProtectionsClearTick
<1>7. World' = v
  BY <1>5, <1>6, WorldBecomes
<1>8. \A p : Writing(v, p) <=> Writing(World, p)
  BY <1>1, <1>3, <1>5 DEF Writing, Writes
<1>9. par.Error => ~Busy(World)
  BY <1>1 DEF Store, DriverOK
<1>10. DriverOK(v) /\ PlaceOK(v) /\ TakenOK(v) /\ BytesOK(v) /\ AheadOK(v) /\ CalmOK(v)
  BY <1>1, <1>3, <1>5, <1>8 DEF Store, DriverOK, PlaceOK, TakenOK, BytesOK, AheadOK, CalmOK,
     Busy, IsReady, Writes
<1>11. StoredOK(v) /\ RingOK(v)
  BY <1>1, <1>3, <1>4, <1>5, <1>8 DEF Store, StoredOK, RingOK
<1>12. [ParStore!Next]_(ParStore!vars)
  <2>1. par' = q /\ mem' = mem
    BY <1>5, <1>6 DEF Become
  <2>2. TaskOf(par') = TaskOf(par)
    BY <1>3, <2>1 DEF TaskOf, TakenBy, IsReady
  <2>3. CASE par.Error
    BY <1>3, <2>1, <2>2, <2>3 DEF ParStore!Mend, ParStore!Next, ParStore!vars
  <2>4. CASE ~par.Error
    <3>1. par'.Error = par.Error
      BY <1>1, <1>3, <2>1, <2>4 DEF Drivers
    <3> QED BY <2>1, <2>2, <3>1 DEF ParStore!vars
  <2> QED BY <2>3, <2>4
<1> QED BY <1>5, <1>7, <1>10, <1>11, <1>12 DEF StoreStep, Store

(* A power cut: the addresses and counts are read back as they are.        *)
LEMMA RestartStep ==
  ASSUME Store(World), Restart
  PROVE  StoreStep
<1> DEFINE r == StoredPointers(mem)
<1>1. /\ World \in Worlds /\ World.par = par /\ World.mem = mem /\ World.env = env
      /\ mem \in [Address -> Byte] /\ env.cleared \in BOOLEAN
  BY DEF Store, World, Worlds
<1>2. \A p \in Pointers : r[p] = WordAt(mem, GetAdr(p))
  BY DEF StoredPointers
<1>3. ASSUME NEW p \in Pointers
      PROVE  /\ r[p] \in Nat /\ r[p] <= Top[p]
             /\ mem[Low(p)] = r[p] % ByteBase /\ mem[Low(p) + 1] = r[p] \div ByteBase
  <2>1. /\ mem[Low(p)] \in 0 .. ByteBase - 1 /\ mem[Low(p) + 1] \in 0 .. ByteBase - 1
        /\ ByteBase \in Nat \ {0}
    BY <1>1, Sizes DEF Store, BytesOK
  <2>2. r[p] = mem[Low(p)] + ByteBase * mem[Low(p) + 1]
    BY <1>2 DEF WordAt, Low
  <2> HIDE DEF r
  <2>3. r[p] <= Top[p]
    BY <1>1, <1>2 DEF Restart, Store, RingOK, r
  <2> DEFINE lo == mem[Low(p)]
             hi == mem[Low(p) + 1]
  <2>4. lo \in 0 .. ByteBase - 1 /\ hi \in Nat /\ r[p] = lo + ByteBase * hi
    BY <2>1, <2>2
  <2> HIDE DEF lo, hi
  <2>5. /\ lo + ByteBase * hi \in Nat
        /\ (lo + ByteBase * hi) % ByteBase = lo /\ (lo + ByteBase * hi) \div ByteBase = hi
    BY <2>1, <2>4, PartsOfWord
  <2> QED BY <2>3, <2>4, <2>5 DEF lo, hi
<1>4. r \in [Pointers -> Nat]
  <2>1. r = [p \in Pointers |-> r[p]]
    BY DEF StoredPointers
  <2> HIDE DEF r
  <2> QED BY <1>3, <2>1
<1> HIDE DEF r
<1>5. /\ mem' = mem /\ par' = FM25V10_DEFAULT /\ log' = FM25V10_DEFAULT /\ ev' = LogEvDefault
      /\ cmd' = LogCmdDefault /\ ram' = r /\ prev' = r /\ buf' = EmptyBuffer
      /\ menu' = MenuDefault /\ env' = [Calm EXCEPT !.cleared = env.cleared]
  BY DEF Restart, r
<1>6. FM25V10_DEFAULT \in Drivers
  BY DEF FM25V10_DEFAULT, Drivers, Buffers, NullBuffer
<1>7. /\ LogEvDefault \in [Data : 0 .. 2, WriteFlag : BOOLEAN, EventFlag : BOOLEAN, Timer : Nat,
                           MainDataFlag : BOOLEAN, BufCurIndex : 0 .. LOG_EV_BUF_CELL_COUNT,
                           Addr : Nat]
      /\ LogCmdDefault \in [Data : 0 .. 1, WriteFlag : BOOLEAN, Timer : Nat]
      /\ EmptyBuffer \in [1 .. LOG_EV_BUF_CELL_COUNT -> Nat]
      /\ MenuDefault \in [EvLogFlag : BOOLEAN, Position : 0 .. LOG_EV_CNT - 1,
                          ReadLogFlag : BOOLEAN]
  BY Sizes DEF LogEvDefault, LogCmdDefault, EmptyBuffer, MenuDefault
<1>8. /\ env' \in [gap : Nat, losses : Nat, cleared : BOOLEAN, mended : BOOLEAN]
      /\ env'.mended = FALSE
  BY <1>1, <1>5 DEF Calm
<1>9. World' \in Worlds
  BY <1>1, <1>4, <1>5, <1>6, <1>7, <1>8 DEF World, Worlds
<1> DEFINE v == World'
<1>10. /\ v.mem = mem /\ v.par = FM25V10_DEFAULT /\ v.ram = r /\ v.prev = r
       /\ v.ev = LogEvDefault
  BY <1>5 DEF World
<1>11. /\ v.par.Func = {} /\ v.par.State = 0 /\ v.par.Error = FALSE
       /\ v.ev.MainDataFlag = FALSE
  BY <1>10 DEF FM25V10_DEFAULT, LogEvDefault
<1> HIDE DEF v
<1>12. ~Busy(v) /\ ~Writes(v) /\ \A p : ~Writing(v, p)
  BY <1>11 DEF Busy, IsReady, Writes, Writing
<1>13. DriverOK(v) /\ PlaceOK(v) /\ TakenOK(v) /\ CalmOK(v)
  BY <1>11, <1>12 DEF DriverOK, PlaceOK, TakenOK, CalmOK
<1>14. BytesOK(v) /\ StoredOK(v) /\ RingOK(v) /\ AheadOK(v)
  <2>1. BytesOK(v)
    BY <1>1, <1>10 DEF Store, BytesOK
  <2>2. StoredOK(v) /\ AheadOK(v)
    BY <1>3, <1>4, <1>10, <1>12 DEF StoredOK, AheadOK
  <2>3. RingOK(v)
    BY <1>2, <1>3, <1>10, <1>12 DEF RingOK, r
  <2> QED BY <2>1, <2>2, <2>3
<1>15. [ParStore!Next]_(ParStore!vars)
  <2>1. TaskOf(par') = ParStore!Idle /\ par'.Error = FALSE
    BY <1>5 DEF TaskOf, IsReady, FM25V10_DEFAULT, ParStore!Idle
  <2> QED BY <1>5, <2>1 DEF ParStore!Cut, ParStore!Next
<1> QED BY <1>9, <1>13, <1>14, <1>15 DEF StoreStep, Store, v

LEMMA StoreNext ==
  ASSUME TRUE \notin Resets, Store(World), [Next]_vars
  PROVE  StoreStep
<1>1. /\ World \in Worlds /\ World.mem = mem /\ World.par = par /\ World.ram = ram
      /\ World.prev = prev /\ World.ev = ev /\ World.env = env /\ World.menu = menu
  BY DEF Store, World
<1>2. Client(World, World)
  BY DEF Client
<1>3. CASE UNCHANGED vars
  <2>1. World' = World /\ mem' = mem /\ par' = par
    BY <1>3 DEF World, vars
  <2>2. ParStore!vars' = ParStore!vars
    BY <2>1 DEF ParStore!vars, TaskOf, TakenBy
  <2> QED BY <2>1, <2>2 DEF StoreStep
<1>4. CASE DataBufferPreTick
  <2>1. PICK second \in BOOLEAN, sample \in Samples :
          Period(DataBufferPre(World, FALSE, second, sample))
    <3>1. Resets = {FALSE}
      BY SizeAssumption
    <3> QED BY <1>4, <3>1 DEF DataBufferPreTick
  <2> QED BY <2>1, DataBufferPreKeeps, PeriodStep
<1>5. CASE LogEvControlTick
  BY <1>5, LogEvControlKeeps, PeriodStep DEF LogEvControlTick
<1>6. CASE LogCmdControlTick
  <2>1. PICK command \in BOOLEAN :
          Period(LogCmdControl([World EXCEPT !.env.gap = IF command THEN CommandGap
                                                         ELSE CountDown(@)], command))
    BY <1>6 DEF LogCmdControlTick
  <2> DEFINE g == IF command THEN CommandGap ELSE CountDown(env.gap)
             e == [env EXCEPT !.gap = g]
             v == [World EXCEPT !.env = e]
  <2>2. /\ e \in [gap : Nat, losses : Nat, cleared : BOOLEAN, mended : BOOLEAN]
        /\ e.mended = env.mended
    <3>1. env \in [gap : Nat, losses : Nat, cleared : BOOLEAN, mended : BOOLEAN]
      BY <1>1 DEF Worlds
    <3>2. CommandGap \in Nat /\ CountDown(env.gap) \in Nat
      BY <3>1, Sizes DEF CountDown
    <3>3. g \in Nat
      BY <3>2
    <3> HIDE DEF g
    <3> QED BY <3>1, <3>3
  <2>3. [World EXCEPT !.env.gap = IF command THEN CommandGap ELSE CountDown(@)] = v
    BY DEF World
  <2> HIDE DEF e
  <2>4. /\ v \in Worlds /\ v.mem = mem /\ v.par = par /\ v.ram = ram /\ v.prev = prev
        /\ v.ev = ev /\ v.env = e
    BY <1>1, <2>2 DEF Worlds
  <2> HIDE DEF v
  <2>5. Store(v)
    BY <1>1, <2>2, <2>4, StoreKept
  <2>6. Store(LogCmdControl(v, command)) /\ Client(v, LogCmdControl(v, command))
    BY <2>5, LogCmdControlKeeps
  <2>7. Client(World, LogCmdControl(v, command))
    BY <1>1, <2>4, <2>6 DEF Client, Busy
  <2>8. Period(LogCmdControl(v, command))
    BY <2>1, <2>3
  <2> QED BY <2>6, <2>7, <2>8, PeriodStep
<1>7. CASE MenuTick
  <2>1. PICK i \in Positions : Period([World EXCEPT !.menu.EvLogFlag = TRUE,
                                                    !.menu.Position = i])
    BY <1>7 DEF MenuTick
  <2> DEFINE m == [menu EXCEPT !.EvLogFlag = TRUE, !.Position = i]
             v == [World EXCEPT !.menu = m]
  <2>2. m \in [EvLogFlag : BOOLEAN, Position : 0 .. LOG_EV_CNT - 1, ReadLogFlag : BOOLEAN]
    <3>1. menu \in [EvLogFlag : BOOLEAN, Position : 0 .. LOG_EV_CNT - 1, ReadLogFlag : BOOLEAN]
      BY <1>1 DEF Worlds
    <3>2. i \in 0 .. LOG_EV_CNT - 1
      BY Sizes
    <3> QED BY <3>1, <3>2
  <2>3. [World EXCEPT !.menu.EvLogFlag = TRUE, !.menu.Position = i] = v
    BY DEF World
  <2> HIDE DEF m
  <2>4. /\ v \in Worlds /\ v.mem = mem /\ v.par = par /\ v.ram = ram /\ v.prev = prev
        /\ v.ev = ev /\ v.env = env
    BY <1>1, <2>2 DEF Worlds
  <2> HIDE DEF v
  <2>5. Store(v) /\ Client(World, v)
    BY <1>1, <2>4, StoreKept DEF Client
  <2> QED BY <2>1, <2>3, <2>5, PeriodStep
<1>8. CASE OtherTick
  BY <1>2, <1>8, PeriodStep DEF OtherTick
<1>9. CASE ProtectionsClearTick
  BY <1>9, ClearStep
<1>10. CASE Restart
  BY <1>10, RestartStep
<1> QED BY <1>3, <1>4, <1>5, <1>6, <1>7, <1>8, <1>9, <1>10 DEF Next

LEMMA StoreInit ==
  ASSUME Init PROVE Store(World) /\ ParStore!Init
<1> DEFINE r == StoredPointers(mem)
<1>1. mem = [a \in Address |-> 0] /\ mem \in [Address -> Byte]
  BY Sizes DEF Init, Byte
<1>2. ASSUME NEW p \in Pointers
      PROVE  mem[Low(p)] = 0 /\ mem[Low(p) + 1] = 0 /\ WordAt(mem, GetAdr(p)) = 0
  <2>1. mem[Low(p)] = 0 /\ mem[Low(p) + 1] = 0
    BY <1>1, PointerCells
  <2>2. WordAt(mem, GetAdr(p)) = 0 + ByteBase * 0
    BY <2>1 DEF WordAt, Low
  <2> QED BY <2>1, <2>2, Sizes
<1>3. r = [p \in Pointers |-> 0]
  BY <1>2 DEF StoredPointers
<1> HIDE DEF r
<1>4. /\ par = FM25V10_DEFAULT /\ log = FM25V10_DEFAULT /\ ev = LogEvDefault
      /\ cmd = LogCmdDefault /\ ram = r /\ prev = r /\ buf = EmptyBuffer
      /\ menu = MenuDefault /\ env = Calm
  BY DEF Init, r
<1>5. FM25V10_DEFAULT \in Drivers
  BY DEF FM25V10_DEFAULT, Drivers, Buffers, NullBuffer
<1>6. /\ LogEvDefault \in [Data : 0 .. 2, WriteFlag : BOOLEAN, EventFlag : BOOLEAN, Timer : Nat,
                           MainDataFlag : BOOLEAN, BufCurIndex : 0 .. LOG_EV_BUF_CELL_COUNT,
                           Addr : Nat]
      /\ LogCmdDefault \in [Data : 0 .. 1, WriteFlag : BOOLEAN, Timer : Nat]
      /\ EmptyBuffer \in [1 .. LOG_EV_BUF_CELL_COUNT -> Nat]
      /\ MenuDefault \in [EvLogFlag : BOOLEAN, Position : 0 .. LOG_EV_CNT - 1,
                          ReadLogFlag : BOOLEAN]
      /\ Calm \in [gap : Nat, losses : Nat, cleared : BOOLEAN, mended : BOOLEAN]
  BY Sizes DEF LogEvDefault, LogCmdDefault, EmptyBuffer, MenuDefault, Calm
<1>7. World \in Worlds /\ World.par = par
  BY <1>1, <1>3, <1>4, <1>5, <1>6 DEF World, Worlds
<1>8. /\ World.mem = mem /\ World.ram = r /\ World.prev = r
      /\ World.par.Func = {} /\ World.par.State = 0 /\ World.par.Error = FALSE
      /\ World.ev.MainDataFlag = FALSE
  BY <1>4 DEF World, FM25V10_DEFAULT, LogEvDefault
<1>9. ~Busy(World) /\ ~Writes(World) /\ \A p : ~Writing(World, p)
  BY <1>8 DEF Busy, IsReady, Writes, Writing
<1>10. DriverOK(World) /\ PlaceOK(World) /\ TakenOK(World) /\ CalmOK(World)
  BY <1>8, <1>9 DEF DriverOK, PlaceOK, TakenOK, CalmOK
<1>11. BytesOK(World) /\ StoredOK(World) /\ RingOK(World) /\ AheadOK(World)
  <2>1. 0 % ByteBase = 0 /\ 0 \div ByteBase = 0 /\ 0 \in 0 .. ByteBase - 1
    BY Sizes
  <2>2. \A p \in Pointers : Top[p] \in Nat /\ r[p] = 0
    BY <1>3, Tops
  <2> QED BY <1>2, <1>8, <1>9, <2>1, <2>2 DEF BytesOK, StoredOK, RingOK, AheadOK
<1>12. ParStore!Init
  BY <1>1, <1>7, <1>8 DEF ParStore!Init, TaskOf, IsReady, ParStore!Idle, Byte
<1> QED BY <1>7, <1>10, <1>11, <1>12 DEF Store

LEMMA StoreHolds == ASSUME TRUE \notin Resets PROVE Spec => []Store(World)
<1>1. Init => Store(World)
  BY StoreInit
<1>2. Store(World) /\ [Next]_vars => Store(World)'
  BY StoreNext DEF StoreStep
<1> QED BY <1>1, <1>2, PTL DEF Spec

(* Every address and count that is noted as stored is in the memory as     *)
(* soon as the driver is idle, whatever events, commands, lost bytes and   *)
(* power cuts came between, if nobody clears the journals.                 *)
THEOREM PointersAreStored ==
  ASSUME TRUE \notin Resets PROVE Spec => []PointersStored
<1>1. Store(World) => PointersStored
  <2> SUFFICES ASSUME Store(World), IsReady(par), ~par.Error, ~env.mended,
                      NEW p \in Pointers, ~Changed(World, p)
               PROVE  StoredPointers(mem)[p] = ram[p]
    BY DEF PointersStored
  <2>1. /\ World.mem = mem /\ World.par = par /\ World.ram = ram /\ World.prev = prev
        /\ World.env = env /\ World \in Worlds
    BY DEF Store, World
  <2>2. ~Writing(World, p)
    BY <2>1 DEF Writing, Writes, IsReady
  <2>3. /\ mem[Low(p)] = prev[p] % ByteBase /\ mem[Low(p) + 1] = prev[p] \div ByteBase
        /\ prev[p] = ram[p] /\ prev[p] \in Nat
    BY <2>1, <2>2 DEF Store, StoredOK, Changed, Worlds
  <2>4. StoredPointers(mem)[p] = mem[Low(p)] + ByteBase * mem[Low(p) + 1]
    BY DEF StoredPointers, WordAt, Low
  <2>5. ByteBase \in Nat \ {0}
    BY Sizes
  <2>6. prev[p] = (prev[p] % ByteBase) + ByteBase * (prev[p] \div ByteBase)
    BY <2>3, <2>5, WordParts
  <2> QED BY <2>3, <2>4, <2>6
<1> QED BY <1>1, StoreHolds, PTL

(* The driver of the parameter memory with all its clients does what the   *)
(* abstract memory promises: one request at a time, byte after byte, each  *)
(* verified, and nothing else ever written.                                *)
THEOREM JournalsImplementBlockStore ==
  ASSUME TRUE \notin Resets PROVE Spec => ParStoreSpec
<1>1. Init => ParStore!Init
  BY StoreInit
<1>2. Store(World) /\ [Next]_vars => [ParStore!Next]_(ParStore!vars)
  BY StoreNext DEF StoreStep
<1> QED BY <1>1, <1>2, StoreHolds, PTL DEF Spec, ParStoreSpec, ParStore!Spec

-----------------------------------------------------------------------------
(***************************************************************************)
(* The event records.  One put together from two marks stays at the        *)
(* address stored, for a record takes less time than the cells of the      *)
(* buffer that follow it: when the address moves on, the record has been   *)
(* written to its end, a second time if an event came in between.          *)
(***************************************************************************)
TornIn(m, i) == \E a, b \in 2 * EvCell(i) .. 2 * EvCell(i + 1) - 1 : m[a] # m[b]
NoneTorn(m) == \A i \in 0 .. LOG_EV_CNT - 1 : ~TornIn(m, i)

(* The calls of a driver that writes: done for the byte, left for the      *)
(* request, and, with every byte lost that may be, to the end of it.       *)
Phase(p) == IF p.State = 3 THEN 1 ELSE IF p.State = 4 THEN 2 ELSE IF p.State = 2 THEN 4
            ELSE IF F_READ \in p.Func THEN 3 ELSE 0
CallsLeft(p) == 5 * p.Count - Phase(p)
Again(w) == IF Phase(w.par) >= 3 /\ w.mem[w.par.Addr] # w.par.WrData THEN 5 ELSE 0
ToTheEnd(w) == CallsLeft(w.par) + Again(w) + 5 * (MaxLosses - w.env.losses)

(* With n periods to the next call of LogEvControl, those to the call in   *)
(* which the address moves on, at least.                                   *)
Wait(s) == IF s <= 6 THEN 6 - s ELSE 16 - s
CellTime == 10 * LOG_EV_BUF_DATA_CNT
ToAdvance(w, n) ==
  (IF IsReady(w.log) THEN n ELSE CallsLeft(w.log)) + (w.ev.BufCurIndex - 1) * CellTime

OnlyThere(w) ==
  ~w.env.mended =>
    \A i \in 0 .. LOG_EV_CNT - 1 : TornIn(w.mem, i) => i = WordAt(w.mem, GetAdr("LogEvAddr"))
NotPassed(w) ==
  ~w.env.mended /\ ~w.par.Error /\ ~NoneTorn(w.mem) =>
    ~Changed(w, "LogEvAddr") /\ ~Writing(w, "LogEvAddr")
Redone(w, n) ==
  ~w.env.mended /\ ~w.par.Error /\ ~NoneTorn(w.mem) /\ w.ev.MainDataFlag =>
    Writing(w, "LogEv.Data") \/ (w.ev.WriteFlag /\ ~Busy(w) /\ n <= 6)

(* While the record is written: where, in which call, what of it is there, *)
(* and that the time will do.                                              *)
Start(w) == 2 * EvCell(w.ram["LogEvAddr"])
WrittenOK(w) ==
  w.ev.WriteFlag \/ /\ \A a \in Start(w) .. w.par.Addr - 1 : w.mem[a] = w.ev.Data
                    /\ Phase(w.par) >= 2 => w.par.WrData = w.ev.Data
RecordOK(w, n) ==
  Writing(w, "LogEv.Data") =>
    /\ w.ev.MainDataFlag /\ n + Phase(w.par) \in {0, 5, 10}
    /\ Start(w) <= w.par.Addr /\ w.par.Addr + w.par.Count = Start(w) + 2 * LOG_EV_DATA_CNT
    /\ WrittenOK(w) /\ ToTheEnd(w) <= ToAdvance(w, n)

EventOK(w) ==
  /\ (w.ev.MainDataFlag \/ w.ev.WriteFlag) => w.ev.Timer = 0
  /\ w.ev.MainDataFlag => w.ev.BufCurIndex > 0

(* The log memory, which does not fail, is written in whole rounds.        *)
LogOK(w, n) ==
  /\ ~w.log.Error
  /\ IsReady(w.log) => w.log.State = 0
  /\ ~IsReady(w.log) =>
       /\ F_WRITE \in w.log.Func /\ w.log.Count > 0
       /\ w.log.State = 2 => F_READ \in w.log.Func
       /\ w.log.State \in {3, 4} => w.log.Func = {F_WRITE}
       /\ \E j \in Nat : CallsLeft(w.log) = 10 * j + n

OthersOK(w) ==
  /\ Writes(w) =>
       /\ w.par.Buffer \in Pointers \union {"LogEv.Data", "LogCmd.Data"}
       /\ w.par.Buffer = "LogCmd.Data" => w.par.Addr >= 2 * LOG_CMD_START_ADDR
  /\ w.env.losses <= MaxLosses

Records(w, n) == /\ OnlyThere(w) /\ NotPassed(w) /\ Redone(w, n) /\ RecordOK(w, n)
                 /\ EventOK(w) /\ LogOK(w, n) /\ OthersOK(w)

(* A record, with every byte lost that may be, is written before all but   *)
(* one of the cells of the buffer that follows it are.                     *)
ShortRecord ==
  2 * LOG_EV_DATA_CNT + MaxLosses <= 2 * ((LOG_EV_BUF_CELL_COUNT - 1) * LOG_EV_BUF_DATA_CNT + 1)

(* The records of the ring do not overlap, and the commands lie behind.    *)
LEMMA CellsApart ==
  ASSUME NEW i \in 0 .. LOG_EV_CNT - 1
  PROVE  /\ EvCell(i) \in Nat /\ EvCell(i) >= 4
         /\ EvCell(i + 1) = EvCell(i) + LOG_EV_DATA_CNT
         /\ EvCell(i + 1) <= LOG_CMD_START_ADDR /\ LOG_CMD_START_ADDR \in Nat
         /\ \A j \in 0 .. LOG_EV_CNT - 1 : i < j => EvCell(i + 1) <= EvCell(j)
<1>1. \A x \in Nat : x * LOG_EV_DATA_CNT \in Nat
  BY Sizes
<1>2. (i + 1) * LOG_EV_DATA_CNT = i * LOG_EV_DATA_CNT + LOG_EV_DATA_CNT
  BY Sizes
<1>3. i * LOG_EV_DATA_CNT + LOG_EV_DATA_CNT <= LOG_EV_CNT * LOG_EV_DATA_CNT
  BY Cells, Sizes
<1>4. \A j \in 0 .. LOG_EV_CNT - 1 :
        i < j => i * LOG_EV_DATA_CNT + LOG_EV_DATA_CNT <= j * LOG_EV_DATA_CNT
  BY Cells, Sizes
<1>5. /\ i \in Nat /\ LOG_EV_CNT \in Nat /\ LOG_EV_DATA_CNT \in Nat
      /\ \A j \in 0 .. LOG_EV_CNT - 1 : j \in Nat
  BY Sizes
<1>6. /\ EvCell(i) = 4 + i * LOG_EV_DATA_CNT
      /\ EvCell(i + 1) = 4 + i * LOG_EV_DATA_CNT + LOG_EV_DATA_CNT
      /\ LOG_CMD_START_ADDR = 4 + LOG_EV_CNT * LOG_EV_DATA_CNT
      /\ \A j \in 0 .. LOG_EV_CNT - 1 : EvCell(j) = 4 + j * LOG_EV_DATA_CNT
  BY <1>1, <1>2, <1>5 DEF EvCell, LOG_EV_START_ADDR, LOG_CMD_START_ADDR
<1> QED BY <1>1, <1>3, <1>4, <1>5, <1>6

LEMMA OtherCell ==
  ASSUME NEW i \in 0 .. LOG_EV_CNT - 1, NEW j \in 0 .. LOG_EV_CNT - 1, i # j,
         NEW a \in 2 * EvCell(j) .. 2 * EvCell(j) + 2 * LOG_EV_DATA_CNT - 1
  PROVE  a \notin 2 * EvCell(i) .. 2 * EvCell(i + 1) - 1
<1>1. i < j \/ j < i
  OBVIOUS
<1>2. CASE i < j
  <2>1. EvCell(i + 1) <= EvCell(j) /\ EvCell(j) \in Nat /\ EvCell(i) \in Nat
        /\ EvCell(i + 1) = EvCell(i) + LOG_EV_DATA_CNT
    BY <1>2, CellsApart
  <2> QED BY <2>1, Sizes
<1>3. CASE j < i
  <2>1. EvCell(j + 1) <= EvCell(i) /\ EvCell(j) \in Nat /\ EvCell(i) \in Nat
        /\ EvCell(j + 1) = EvCell(j) + LOG_EV_DATA_CNT
    BY <1>3, CellsApart
  <2> QED BY <2>1, Sizes
<1> QED BY <1>1, <1>2, <1>3

(* A record that no byte of changes is as it was.                          *)
LEMMA TornKept ==
  ASSUME NEW i, NEW m, NEW k, \A a \in 2 * EvCell(i) .. 2 * EvCell(i + 1) - 1 : m[a] = k[a]
  PROVE  TornIn(m, i) <=> TornIn(k, i)
  BY DEF TornIn

-----------------------------------------------------------------------------
(* Tasks that leave the events alone.                                      *)
SameEvent(e, f) ==
  /\ f.Data = e.Data /\ f.WriteFlag = e.WriteFlag /\ f.Timer = e.Timer
  /\ f.MainDataFlag = e.MainDataFlag /\ f.BufCurIndex = e.BufCurIndex

LEMMA RecordsKept ==
  ASSUME NEW w, NEW v, NEW n, Records(w, n),
         v.mem = w.mem, v.par = w.par, v.log = w.log, SameEvent(w.ev, v.ev),
         v.ram["LogEvAddr"] = w.ram["LogEvAddr"], v.prev["LogEvAddr"] = w.prev["LogEvAddr"],
         v.env.mended = w.env.mended, v.env.losses = w.env.losses
  PROVE  Records(v, n)
<1>1. /\ Writes(v) <=> Writes(w)
      /\ Busy(v) <=> Busy(w)
      /\ \A p : Writing(v, p) <=> Writing(w, p)
      /\ Changed(v, "LogEvAddr") <=> Changed(w, "LogEvAddr")
  BY DEF Writes, Busy, Writing, Changed
<1>2. OnlyThere(v) /\ NotPassed(v) /\ Redone(v, n) /\ EventOK(v) /\ LogOK(v, n) /\ OthersOK(v)
  BY <1>1 DEF Records, OnlyThere, NotPassed, Redone, EventOK, LogOK, OthersOK, SameEvent
<1>3. Start(v) = Start(w) /\ ToTheEnd(v) = ToTheEnd(w) /\ ToAdvance(v, n) = ToAdvance(w, n)
  BY DEF Start, ToTheEnd, Again, ToAdvance, SameEvent
<1>4. RecordOK(v, n)
  BY <1>1, <1>3 DEF Records, RecordOK, WrittenOK, SameEvent
<1> QED BY <1>2, <1>4 DEF Records

(* A request of an idle driver, while no record in work is torn.           *)
Settled(w) == ~w.env.mended /\ ~w.par.Error /\ w.ev.MainDataFlag => NoneTorn(w.mem)
Sound(w) == ~w.env.mended /\ ~w.par.Error => NoneTorn(w.mem)

LEMMA AskKeeps ==
  ASSUME NEW w, NEW v, NEW n, Records(w, n), Settled(w), ~Busy(w), w.par \in Drivers,
         NEW f \in {F_READ, F_WRITE}, NEW a \in Nat, NEW b \in Buffers, NEW k \in Nat,
         v.par = EEPROM_Func(w.par, f, a, b, k),
         f = F_WRITE => b \in Pointers \union {"LogCmd.Data"},
         b = "LogCmd.Data" => a >= LOG_CMD_START_ADDR,
         b = "LogEvAddr" => Sound(w),
         v.mem = w.mem, v.log = w.log, SameEvent(w.ev, v.ev),
         v.ram["LogEvAddr"] = w.ram["LogEvAddr"],
         v.prev["LogEvAddr"] = w.prev["LogEvAddr"] \/ Sound(w),
         v.env.mended = w.env.mended, v.env.losses = w.env.losses
  PROVE  Records(v, n)
<1>1. /\ v.par.Error = w.par.Error
      /\ w.par.Error => v.par = w.par
      /\ ~w.par.Error => v.par.Addr = 2 * a /\ v.par.Buffer = b /\ v.par.Func = {f}
  <2>1. CASE w.par.Error
    BY <2>1 DEF EEPROM_Func
  <2>2. CASE ~w.par.Error
    <3>1. v.par = [w.par EXCEPT !.Addr = 2 * a, !.Buffer = b, !.Count = 2 * k, !.Func = {f}]
      BY <2>2 DEF EEPROM_Func
    <3> QED BY <2>2, <3>1 DEF Drivers
  <2> QED BY <2>1, <2>2
<1>2. ~Writes(w) /\ \A p : ~Writing(w, p)
  BY DEF Busy, IsReady, Writes, Writing
<1>3. /\ ~Writing(v, "LogEv.Data")
      /\ Writing(v, "LogEvAddr") => Sound(w)
      /\ Writes(v) => v.par.Buffer = b /\ f = F_WRITE /\ v.par.Addr = 2 * a
  <2>1. "LogEv.Data" \notin Pointers \union {"LogCmd.Data"}
    BY DEF Pointers
  <2> QED BY <1>1, <1>2, <2>1 DEF Writes, Writing
<1>4. OnlyThere(v) /\ RecordOK(v, n) /\ EventOK(v) /\ LogOK(v, n)
  BY <1>3 DEF Records, OnlyThere, RecordOK, EventOK, LogOK, SameEvent
<1>5. NotPassed(v)
  BY <1>1, <1>2, <1>3 DEF Records, NotPassed, Sound, Changed
<1>6. Redone(v, n)
  BY <1>1 DEF Redone, Settled, SameEvent
<1>7. OthersOK(v)
  <2>1. b = "LogCmd.Data" => 2 * a >= 2 * LOG_CMD_START_ADDR
    <3>1. 0 \in 0 .. LOG_EV_CNT - 1
      BY Sizes
    <3>2. LOG_CMD_START_ADDR \in Nat
      BY <3>1, CellsApart
    <3> QED BY <3>2
  <2> QED BY <1>3, <2>1 DEF Records, OthersOK
<1> QED BY <1>4, <1>5, <1>6, <1>7 DEF Records

(* The fields of a world a task has changed.                               *)
LEMMA StorePointerRecords ==
  ASSUME NEW w, Store(w), NEW n, Records(w, n), Settled(w), ~Busy(w),
         NEW p \in Pointers, Changed(w, p)
  PROVE  Records(StorePointer(w, p), n)
<1> DEFINE q == EEPROM_Func(w.par, F_WRITE, GetAdr(p), p, 1)
           v == StorePointer(w, p)
<1>1. w \in Worlds /\ w.par \in Drivers /\ GetAdr(p) \in Nat /\ p \in Buffers
  <2>1. w \in Worlds /\ w.par \in Drivers /\ p \in Buffers
    BY DEF Store, Worlds, Buffers
  <2>2. GetAdr(p) \in 0 .. 3
    BY PointerCells
  <2> QED BY <2>1, <2>2
<1>2. v = [w EXCEPT !.par = q, !.prev = [w.prev EXCEPT ![p] = w.ram[p]]]
  BY <1>1 DEF StorePointer, WriteMem, Worlds
<1> HIDE DEF q, v
<1>3. /\ v.par = q /\ v.mem = w.mem /\ v.log = w.log /\ v.ev = w.ev /\ v.ram = w.ram
      /\ v.env = w.env /\ v.prev = [w.prev EXCEPT ![p] = w.ram[p]]
  BY <1>1, <1>2 DEF Worlds
<1>4. /\ p # "LogEvAddr" => v.prev["LogEvAddr"] = w.prev["LogEvAddr"]
      /\ p = "LogEvAddr" => Sound(w)
  BY <1>1, <1>3 DEF Records, NotPassed, Sound, Worlds
<1>5. Records(v, n)
  <2>1. F_WRITE \in {F_READ, F_WRITE} /\ p # "LogCmd.Data" /\ 1 \in Nat
    BY DEF Pointers
  <2>2. v.par = EEPROM_Func(w.par, F_WRITE, GetAdr(p), p, 1)
    BY <1>3 DEF q
  <2>3. p = "LogCmd.Data" => GetAdr(p) >= LOG_CMD_START_ADDR
    BY <2>1
  <2>4. v.prev["LogEvAddr"] = w.prev["LogEvAddr"] \/ Sound(w)
    BY <1>4
  <2>5. /\ SameEvent(w.ev, v.ev) /\ v.ram["LogEvAddr"] = w.ram["LogEvAddr"]
        /\ v.env.mended = w.env.mended /\ v.env.losses = w.env.losses
    BY <1>3 DEF SameEvent
  <2>6. /\ p \in Pointers \union {"LogCmd.Data"} /\ (p = "LogEvAddr" => Sound(w))
        /\ v.mem = w.mem /\ v.log = w.log
    BY <1>3, <1>4
  <2> QED BY <1>1, <2>1, <2>2, <2>3, <2>4, <2>5, <2>6, AskKeeps
<1> QED BY <1>5 DEF v

LEMMA StoreCommandRecords ==
  ASSUME NEW w, Store(w), NEW n, Records(w, n), Settled(w), ~Busy(w)
  PROVE  Records(StoreCommand(w), n)
<1> DEFINE i == w.ram["LogCmdAddr"]
           q == EEPROM_Func(w.par, F_WRITE, CmdCell(i), "LogCmd.Data", LOG_CMD_DATA_CNT)
           A == Following(w.ram["LogCmdAddr"], LOG_CMD_CNT)
           C == Counted(w.ram["LogCmdCount"], LOG_CMD_CNT)
           r == [w.ram EXCEPT !["LogCmdAddr"] = A, !["LogCmdCount"] = C]
           c == [w.cmd EXCEPT !.WriteFlag = FALSE]
           v == StoreCommand(w)
<1>1. w \in Worlds /\ w.par \in Drivers /\ i \in 0 .. LOG_CMD_CNT - 1
  <2>1. w \in Worlds /\ i \in Nat /\ i <= Top["LogCmdAddr"] /\ Top["LogCmdAddr"] = LOG_CMD_CNT - 1
    BY DEF Store, AheadOK, Worlds, Top, Pointers
  <2>2. w.par \in Drivers
    BY <2>1 DEF Worlds
  <2>3. i \in 0 .. LOG_CMD_CNT - 1
    BY <2>1, Sizes
  <2> QED BY <2>1, <2>2, <2>3
<1>2. CmdCell(i) \in Nat /\ CmdCell(i) >= LOG_CMD_START_ADDR
  <2>1. CmdCell(i) \in Nat
    BY <1>1, CommandCells
  <2>2. i * LOG_CMD_DATA_CNT \in Nat
    BY <1>1, Cells, Sizes
  <2>3. 0 \in 0 .. LOG_EV_CNT - 1
    BY Sizes
  <2>4. LOG_CMD_START_ADDR \in Nat
    BY <2>3, CellsApart
  <2> QED BY <2>1, <2>2, <2>4 DEF CmdCell
<1>3. v = [w EXCEPT !.par = q, !.cmd = c, !.ram = r]
  BY <1>1 DEF StoreCommand, WriteMem, Worlds
<1>4. r["LogEvAddr"] = w.ram["LogEvAddr"]
  <2>1. w.ram \in [Pointers -> Nat] /\ "LogEvAddr" \in Pointers
    BY <1>1 DEF Worlds, Pointers
  <2> HIDE DEF A, C
  <2> QED BY <2>1
<1> HIDE DEF q, c, r, v
<1>5. /\ v.par = q /\ v.mem = w.mem /\ v.log = w.log /\ v.ev = w.ev /\ v.ram = r
      /\ v.env = w.env /\ v.prev = w.prev
  BY <1>1, <1>3 DEF Worlds
<1>6. Records(v, n)
  <2>1. F_WRITE \in {F_READ, F_WRITE} /\ "LogCmd.Data" \in Buffers /\ LOG_CMD_DATA_CNT \in Nat
    BY Sizes DEF Buffers
  <2> HIDE DEF i
  <2> QED BY <1>1, <1>2, <1>4, <1>5, <2>1, AskKeeps DEF q, SameEvent
<1> QED BY <1>6 DEF v

(* LogCmdControl comes between the end of a record and its repetition at   *)
(* no time: then the driver is busy or the record whole.                   *)
LEMMA CommandToParRecords ==
  ASSUME NEW w, Store(w), NEW n \in Nat, n > 6, Records(w, n)
  PROVE  Records(CommandToPar(w), n)
<1>1. ~Busy(w) => Settled(w)
  BY DEF Records, Redone, Settled, Writing, Writes, Busy, IsReady
<1>2. {"LogCmdAddr", "LogCmdCount"} \subseteq Pointers
  BY DEF Pointers
<1> QED BY <1>1, <1>2, StorePointerRecords, StoreCommandRecords DEF CommandToPar, Busy

LEMMA LogCmdControlRecords ==
  ASSUME NEW w, Store(w), NEW n \in Nat, n > 6, Records(w, n), NEW command \in BOOLEAN
  PROVE  Records(LogCmdControl(w, command), n)
<1>1. PICK v : v = [w EXCEPT !.cmd = LogCmdUpdate(@, command)]
  OBVIOUS
<1>2. /\ Store(v) /\ v.mem = w.mem /\ v.par = w.par /\ v.log = w.log /\ v.ram = w.ram
      /\ v.prev = w.prev /\ v.env = w.env /\ v.ev = w.ev
  BY <1>1, CommandNoted
<1>3. Records(v, n)
  BY <1>2, RecordsKept DEF SameEvent
<1>4. LogCmdControl(w, command) = CommandToPar(v)
  BY <1>1 DEF LogCmdControl
<1> QED BY <1>2, <1>3, <1>4, CommandToParRecords

LEMMA DataBufferPreRecords ==
  ASSUME NEW w, Store(w), NEW n, Records(w, n), NEW second \in BOOLEAN, NEW sample \in Samples
  PROVE  Records(DataBufferPre(w, FALSE, second, sample), n)
<1>1. PICK v : v = DataBufferPre(w, FALSE, second, sample)
  OBVIOUS
<1>2. /\ v.mem = w.mem /\ v.par = w.par /\ v.log = w.log
      /\ v.ram = w.ram /\ v.prev = w.prev /\ v.env = w.env /\ v.ev = w.ev
  BY <1>1, DataBufferPreKeeps
<1>3. Records(v, n)
  BY <1>2, RecordsKept DEF SameEvent
<1> QED BY <1>1, <1>3

-----------------------------------------------------------------------------
(* LogEvControl.  An event is noted: the mark of the record changes, and   *)
(* the record will be written once more.                                   *)
LEMMA EventNotedRecords ==
  ASSUME NEW w, Store(w), NEW n, Records(w, n), NEW event \in BOOLEAN,
         NEW v, v = [w EXCEPT !.ev = LogEvUpdate(@, event)]
  PROVE  Records(v, n)
<1>1. /\ Store(v) /\ v.mem = w.mem /\ v.par = w.par /\ v.log = w.log /\ v.ram = w.ram
      /\ v.prev = w.prev /\ v.env = w.env /\ v.ev = LogEvUpdate(w.ev, event)
  BY EventNoted
<1>2. w.ev \in [Data : 0 .. 2, WriteFlag : BOOLEAN, EventFlag : BOOLEAN, Timer : Nat,
                MainDataFlag : BOOLEAN, BufCurIndex : 0 .. LOG_EV_BUF_CELL_COUNT, Addr : Nat]
  BY DEF Store, Worlds
<1> DEFINE e == LogEvUpdate(w.ev, event)
           T == CountDown(w.ev.Timer)
           M == NextMark(w.ev.Data)
<1>3. T \in Nat /\ (w.ev.Timer = 0 => T = 0)
  BY <1>2 DEF CountDown
<1>4. \/ T > 0 /\ e = [w.ev EXCEPT !.Timer = T, !.WriteFlag = FALSE]
      \/ T = 0 /\ e = [w.ev EXCEPT !.Timer = T, !.Data = M, !.WriteFlag = TRUE,
                                   !.EventFlag = TRUE]
      \/ T = 0 /\ e = [w.ev EXCEPT !.Timer = T]
  BY <1>3 DEF LogEvUpdate
<1> HIDE DEF e, T, M
<1>5. /\ e.MainDataFlag = w.ev.MainDataFlag /\ e.BufCurIndex = w.ev.BufCurIndex
      /\ T = 0 => /\ e.WriteFlag \/ ((e.WriteFlag <=> w.ev.WriteFlag) /\ e.Data = w.ev.Data)
                  /\ e.Timer = 0
      /\ T > 0 => ~e.WriteFlag
  <2>1. CASE T > 0 /\ e = [w.ev EXCEPT !.Timer = T, !.WriteFlag = FALSE]
    BY <1>2, <1>3, <2>1
  <2>2. CASE T = 0 /\ e = [w.ev EXCEPT !.Timer = T, !.Data = M, !.WriteFlag = TRUE,
                                       !.EventFlag = TRUE]
    BY <1>2, <2>2
  <2>3. CASE T = 0 /\ e = [w.ev EXCEPT !.Timer = T]
    BY <1>2, <2>3
  <2> QED BY <1>4, <2>1, <2>2, <2>3
<1>6. w.ev.MainDataFlag => T = 0
  BY <1>3 DEF Records, EventOK
<1>7. v.ev = e
  BY <1>1 DEF e
<1>8. /\ Writes(v) <=> Writes(w)
      /\ Busy(v) <=> Busy(w)
      /\ \A p : Writing(v, p) <=> Writing(w, p)
      /\ Changed(v, "LogEvAddr") <=> Changed(w, "LogEvAddr")
  BY <1>1 DEF Writes, Busy, Writing, Changed
<1>9. OnlyThere(v) /\ NotPassed(v) /\ LogOK(v, n) /\ OthersOK(v)
  BY <1>1, <1>8 DEF Records, OnlyThere, NotPassed, LogOK, OthersOK
<1>10. EventOK(v)
  BY <1>3, <1>5, <1>6, <1>7 DEF Records, EventOK
<1>11. Redone(v, n)
  <2>1. w.ev.MainDataFlag /\ w.ev.WriteFlag => e.WriteFlag
    BY <1>5, <1>6, Zenon
  <2>2. e.MainDataFlag = w.ev.MainDataFlag
    BY <1>5
  <2>3. Redone(w, n)
    BY DEF Records
  <2> QED BY <1>1, <1>7, <1>8, <2>1, <2>2, <2>3, Zenon DEF Redone
<1>12. Start(v) = Start(w) /\ ToTheEnd(v) = ToTheEnd(w) /\ ToAdvance(v, n) = ToAdvance(w, n)
  BY <1>1, <1>5, <1>7 DEF Start, ToTheEnd, Again, ToAdvance
<1>13. RecordOK(v, n)
  <2> SUFFICES ASSUME Writing(v, "LogEv.Data") PROVE RecordOK(v, n)
    BY DEF RecordOK
  <2>1. /\ w.ev.MainDataFlag /\ n + Phase(w.par) \in {0, 5, 10}
        /\ Start(w) <= w.par.Addr /\ w.par.Addr + w.par.Count = Start(w) + 2 * LOG_EV_DATA_CNT
        /\ WrittenOK(w) /\ ToTheEnd(w) <= ToAdvance(w, n)
    BY <1>8 DEF Records, RecordOK
  <2>2. WrittenOK(v)
    BY <1>1, <1>5, <1>6, <1>7, <1>12, <2>1 DEF WrittenOK
  <2> QED BY <1>1, <1>5, <1>7, <1>12, <2>1, <2>2 DEF RecordOK
<1> QED BY <1>9, <1>10, <1>11, <1>13 DEF Records

(* A round of the 200 Hz list begins: what is left for the log memory is   *)
(* rounds.                                                                 *)
LEMMA LogRound ==
  ASSUME NEW w, w.log \in Drivers, LogOK(w, 0), NEW v, v.log = w.log
  PROVE  LogOK(v, 10) /\ (~IsReady(w.log) => CallsLeft(w.log) >= 10)
<1>1. ASSUME ~IsReady(w.log)
      PROVE  (\E j \in Nat : CallsLeft(w.log) = 10 * j + 10) /\ CallsLeft(w.log) >= 10
  <2>1. PICK j \in Nat : CallsLeft(w.log) = 10 * j + 0
    BY <1>1 DEF LogOK
  <2>2. Phase(w.log) \in 0 .. 4
    BY DEF Phase
  <2>3. w.log.Count \in Nat /\ w.log.Count > 0
    BY <1>1 DEF LogOK, Drivers
  <2>4. CallsLeft(w.log) >= 1
    BY <2>2, <2>3 DEF CallsLeft
  <2>5. j - 1 \in Nat /\ CallsLeft(w.log) = 10 * (j - 1) + 10
    BY <2>1, <2>4
  <2> QED BY <2>5
<1> QED BY <1>1 DEF LogOK

LEMMA TimeWillDo ==
  ASSUME ShortRecord, NEW l \in Nat, l <= MaxLosses
  PROVE  10 * LOG_EV_DATA_CNT + 5 * (MaxLosses - l) <= 10 + (LOG_EV_BUF_CELL_COUNT - 1) * CellTime
<1> DEFINE k == LOG_EV_BUF_CELL_COUNT - 1
           x == k * LOG_EV_BUF_DATA_CNT
<1>1. k \in Nat /\ LOG_EV_BUF_DATA_CNT \in Nat /\ LOG_EV_DATA_CNT \in Nat /\ MaxLosses \in Nat
  BY Sizes, SizeAssumption
<1>2. \A a, b \in Nat : a * b \in Nat /\ a * (10 * b) = 10 * (a * b)
  OBVIOUS
<1>3. x \in Nat /\ k * CellTime = 10 * x
  BY <1>1, <1>2 DEF CellTime
<1>4. 2 * LOG_EV_DATA_CNT + MaxLosses <= 2 * (x + 1)
  BY DEF ShortRecord
<1> HIDE DEF x, k
<1>5. 10 * LOG_EV_DATA_CNT + 5 * (MaxLosses - l) <= 10 + k * CellTime
  BY <1>1, <1>3, <1>4
<1> QED BY <1>5 DEF k

LEMMA StoreEventRecords ==
  ASSUME NEW w, Store(w), Records(w, 0), StoresEvent(w), ShortRecord
  PROVE  Records(StoreEvent(w), 10)
<1> DEFINE i == w.ram["LogEvAddr"]
           q == EEPROM_Func(w.par, F_WRITE, EvCell(i), "LogEv.Data", LOG_EV_DATA_CNT)
           e == [w.ev EXCEPT !.MainDataFlag = TRUE, !.BufCurIndex = LOG_EV_BUF_CELL_COUNT,
                             !.WriteFlag = FALSE, !.Addr = EvBuffer(i)]
           v == StoreEvent(w)
<1>1. w \in Worlds /\ w.par \in Drivers /\ w.log \in Drivers /\ i \in 0 .. LOG_EV_CNT - 1
      /\ w.env.losses \in Nat
  <2>1. w \in Worlds /\ i \in Nat /\ i <= Top["LogEvAddr"] /\ Top["LogEvAddr"] = LOG_EV_CNT - 1
    BY DEF Store, AheadOK, Worlds, Top, Pointers
  <2>2. w.par \in Drivers /\ w.log \in Drivers /\ w.env.losses \in Nat
    BY <2>1 DEF Worlds
  <2>3. i \in 0 .. LOG_EV_CNT - 1
    BY <2>1, Sizes
  <2> QED BY <2>1, <2>2, <2>3
<1>2. EvCell(i) \in Nat /\ LOG_EV_DATA_CNT \in Nat
  BY <1>1, EventCells, Sizes
<1>3. v = [w EXCEPT !.par = q, !.ev = e]
  BY <1>1 DEF StoreEvent, WriteMem, Worlds
<1>4. /\ q.Error = w.par.Error /\ q.State = w.par.State
      /\ w.par.Error => q = w.par
      /\ ~w.par.Error => /\ q.Addr = 2 * EvCell(i) /\ q.Buffer = "LogEv.Data"
                         /\ q.Count = 2 * LOG_EV_DATA_CNT /\ q.Func = {F_WRITE}
  <2> HIDE DEF i
  <2>1. CASE w.par.Error
    BY <2>1 DEF EEPROM_Func
  <2>2. CASE ~w.par.Error
    <3>1. q = [w.par EXCEPT !.Addr = 2 * EvCell(i), !.Buffer = "LogEv.Data",
                            !.Count = 2 * LOG_EV_DATA_CNT, !.Func = {F_WRITE}]
      BY <2>2 DEF EEPROM_Func
    <3> HIDE DEF q
    <3> QED BY <1>1, <2>2, <3>1 DEF Drivers
  <2> QED BY <2>1, <2>2
<1>5. /\ e.MainDataFlag /\ e.BufCurIndex = LOG_EV_BUF_CELL_COUNT /\ ~e.WriteFlag
      /\ e.Timer = w.ev.Timer
  BY <1>1 DEF Worlds
<1> HIDE DEF q, e, v
<1>6. /\ v.par = q /\ v.mem = w.mem /\ v.log = w.log /\ v.ev = e /\ v.ram = w.ram
      /\ v.env = w.env /\ v.prev = w.prev
  BY <1>1, <1>3 DEF Worlds
<1>7. ~Writes(w) /\ q.State = 0 /\ w.ev.WriteFlag /\ ~Changed(w, "LogEvAddr")
  BY <1>4 DEF StoresEvent, Store, DriverOK, Busy, Writes, IsReady
<1>8. Writes(v) <=> ~w.par.Error
  BY <1>4, <1>6, <1>7 DEF Writes
<1>9. Writes(v) => v.par.Buffer = "LogEv.Data"
  BY <1>4, <1>6, <1>8
<1>10. OnlyThere(v)
  BY <1>6 DEF Records, OnlyThere
<1>11. NotPassed(v)
  BY <1>6, <1>7, <1>9 DEF NotPassed, Changed, Writing
<1>12. Redone(v, 10)
  BY <1>4, <1>6, <1>8, <1>9 DEF Redone, Writing
<1>13. EventOK(v)
  BY <1>5, <1>6, <1>7, Sizes DEF Records, EventOK
<1>14. LogOK(w, 0) /\ w.env.losses <= MaxLosses
  BY DEF Records, OthersOK
<1>15. LogOK(v, 10) /\ (~IsReady(w.log) => CallsLeft(w.log) >= 10)
  BY <1>1, <1>6, <1>14, LogRound
<1>16. OthersOK(v)
  BY <1>6, <1>9, <1>14 DEF OthersOK
<1>17. RecordOK(v, 10)
  <2> SUFFICES ASSUME Writing(v, "LogEv.Data") PROVE RecordOK(v, 10)
    BY DEF RecordOK
  <2>1. /\ ~w.par.Error /\ q.Addr = 2 * EvCell(i) /\ q.Count = 2 * LOG_EV_DATA_CNT
        /\ q.Func = {F_WRITE}
    BY <1>4, <1>8 DEF Writing
  <2>2. Phase(q) = 0
    BY <1>7, <2>1 DEF Phase, F_READ, F_WRITE
  <2>3. Start(v) = 2 * EvCell(i) /\ Start(v) \in Nat
    BY <1>2, <1>6 DEF Start
  <2>4. WrittenOK(v)
    BY <1>6, <2>1, <2>2, <2>3 DEF WrittenOK
  <2>5. ToTheEnd(v) = 10 * LOG_EV_DATA_CNT + 5 * (MaxLosses - w.env.losses)
    <3>1. CallsLeft(v.par) = 10 * LOG_EV_DATA_CNT
      BY <1>2, <1>6, <2>1, <2>2 DEF CallsLeft
    <3>2. Again(v) = 0
      BY <1>6, <2>2 DEF Again
    <3> QED BY <1>2, <3>1, <3>2, <1>6 DEF ToTheEnd
  <2>6. /\ IsReady(w.log) => ToAdvance(v, 10) = 10 + (LOG_EV_BUF_CELL_COUNT - 1) * CellTime
        /\ ~IsReady(w.log) => ToAdvance(v, 10) = CallsLeft(w.log)
                                                   + (LOG_EV_BUF_CELL_COUNT - 1) * CellTime
    BY <1>5, <1>6 DEF ToAdvance
  <2>7. /\ (LOG_EV_BUF_CELL_COUNT - 1) * CellTime \in Nat /\ CallsLeft(w.log) \in Int
        /\ MaxLosses \in Nat
    <3>1. LOG_EV_BUF_CELL_COUNT - 1 \in Nat /\ CellTime \in Nat /\ MaxLosses \in Nat
      BY Sizes, SizeAssumption DEF CellTime
    <3>2. \A a, b \in Nat : a * b \in Nat
      OBVIOUS
    <3>3. CallsLeft(w.log) \in Int
      BY <1>1 DEF CallsLeft, Drivers, Phase
    <3> QED BY <3>1, <3>2, <3>3
  <2>8. ToTheEnd(v) <= ToAdvance(v, 10)
    <3>1. ToTheEnd(v) <= 10 + (LOG_EV_BUF_CELL_COUNT - 1) * CellTime
      BY <1>1, <1>14, <2>5, TimeWillDo
    <3>2. ToTheEnd(v) \in Int
      BY <1>1, <1>2, <2>5, <2>7
    <3> HIDE DEF i
    <3> QED BY <1>15, <2>6, <2>7, <3>1, <3>2
  <2> QED BY <1>5, <1>6, <2>1, <2>2, <2>3, <2>4, <2>8 DEF RecordOK
<1> QED BY <1>10, <1>11, <1>12, <1>13, <1>15, <1>16, <1>17 DEF Records, v

(* The menu's request to read a record.                                    *)
LEMMA ReadEventRecords ==
  ASSUME NEW w, Store(w), NEW n, Records(w, n), Settled(w), ~Busy(w)
  PROVE  /\ Records(ReadEvent(w), n) /\ SameEvent(w.ev, ReadEvent(w).ev)
         /\ ReadEvent(w).log = w.log /\ ReadEvent(w).env = w.env
<1> DEFINE v == ReadEvent(w)
<1>1. w \in Worlds /\ w.par \in Drivers /\ w.menu.Position \in 0 .. LOG_EV_CNT - 1
  BY DEF Store, Worlds
<1>2. CASE w.menu.ReadLogFlag
  <2>1. /\ v.mem = w.mem /\ v.par = w.par /\ v.ram = w.ram /\ v.prev = w.prev
        /\ v.ev = w.ev /\ v.env = w.env /\ v.log = w.log
    BY <1>1, <1>2 DEF ReadEvent, Worlds
  <2> HIDE DEF v
  <2>2. SameEvent(w.ev, v.ev)
    BY <2>1 DEF SameEvent
  <2>3. Records(v, n)
    BY <2>1, <2>2, RecordsKept
  <2> QED BY <2>1, <2>2, <2>3 DEF v
<1>3. CASE ~w.menu.ReadLogFlag
  <2> DEFINE a == EvCell(w.menu.Position)
             q == EEPROM_Func(w.par, F_READ, a, "Ram.GroupE", LOG_EV_DATA_CNT)
  <2>1. /\ a \in Nat /\ LOG_EV_DATA_CNT \in Nat /\ "Ram.GroupE" \in Buffers
        /\ F_READ \in {F_READ, F_WRITE} /\ F_READ # F_WRITE
    BY <1>1, EventCells, Sizes DEF Buffers, F_READ, F_WRITE
  <2>2. v = [w EXCEPT !.ev.Addr = a, !.par = q, !.menu.ReadLogFlag = TRUE]
    BY <1>3 DEF ReadEvent, ReadMem
  <2> HIDE DEF a, q, v
  <2>3. /\ v.par = q /\ v.mem = w.mem /\ v.prev = w.prev /\ v.ram = w.ram
        /\ v.env = w.env /\ v.log = w.log /\ v.ev = [w.ev EXCEPT !.Addr = a]
    BY <1>1, <2>2 DEF Worlds
  <2>4. SameEvent(w.ev, v.ev)
    BY <1>1, <2>3 DEF Worlds, SameEvent
  <2>5. Records(v, n)
    BY <1>1, <2>1, <2>3, <2>4, AskKeeps DEF q
  <2> QED BY <2>3, <2>4, <2>5 DEF v
<1> QED BY <1>2, <1>3

LEMMA StorePointerFrame ==
  ASSUME NEW w, Store(w), NEW p
  PROVE  /\ StorePointer(w, p).ev = w.ev /\ StorePointer(w, p).log = w.log
         /\ StorePointer(w, p).env = w.env
  BY DEF Store, Worlds, StorePointer

(* Between its end and its repetition a record is stored, and the driver   *)
(* is not asked for anything else.                                         *)
LEMMA EventToParRecords ==
  ASSUME NEW w, Store(w), Records(w, 0), ~StoresEvent(w)
  PROVE  Records(EventToPar(w), 0) /\ Redone(EventToPar(w), 10)
<1>1. {"LogEvAddr", "LogEvCount"} \subseteq EventPointers /\ EventPointers \subseteq Pointers
  BY DEF Pointers, EventPointers
<1>2. ~Busy(w) => Settled(w)
  <2>1. w.ev.MainDataFlag => ~Changed(w, "LogEvAddr") /\ ~Changed(w, "LogEvCount")
    BY <1>1 DEF Store, CalmOK, Changed
  <2>2. ~Busy(w) => ~Writing(w, "LogEv.Data")
    BY DEF Busy, IsReady, Writing, Writes
  <2>3. Redone(w, 0)
    BY DEF Records
  <2> QED BY <2>1, <2>2, <2>3 DEF Redone, Settled, StoresEvent, Busy
<1>3. CASE Busy(w)
  <2>1. EventToPar(w) = w
    BY <1>3 DEF EventToPar, Busy
  <2>2. Redone(w, 10)
    BY <1>3 DEF Records, Redone
  <2> QED BY <2>1, <2>2
<1>4. ASSUME ~Busy(w), NEW u, Client(w, u), Records(u, 0), SameEvent(w.ev, u.ev), u.env = w.env
      PROVE  Redone(u, 10)
  BY <1>2, <1>4 DEF Client, Settled, SameEvent, Redone
<1>5. CASE ~Busy(w)
  <2>1. CASE EventToPar(w) = w
    <3>1. Client(w, w) /\ SameEvent(w.ev, w.ev)
      BY DEF Client, SameEvent
    <3> QED BY <1>4, <1>5, <2>1, <3>1
  <2>2. ASSUME NEW p \in Pointers, Changed(w, p), EventToPar(w) = StorePointer(w, p)
        PROVE  Records(EventToPar(w), 0) /\ Redone(EventToPar(w), 10)
    <3>1. Records(StorePointer(w, p), 0)
      BY <1>2, <1>5, <2>2, StorePointerRecords
    <3>2. Client(w, StorePointer(w, p))
      BY <1>5, <2>2, StorePointerKeeps
    <3>3. SameEvent(w.ev, StorePointer(w, p).ev) /\ StorePointer(w, p).env = w.env
      BY StorePointerFrame DEF SameEvent
    <3> QED BY <1>4, <1>5, <2>2, <3>1, <3>2, <3>3
  <2>3. CASE EventToPar(w) = ReadEvent(w)
    BY <1>2, <1>4, <1>5, <2>3, ReadEventRecords, ReadEventKeeps
  <2> QED BY <1>1, <1>5, <2>1, <2>2, <2>3 DEF EventToPar
<1> QED BY <1>3, <1>5

(* The cell before the last one is asked for while the record is written,  *)
(* the last one when it has been.                                          *)
LEMMA NextCellRecords ==
  ASSUME NEW w, Store(w), Records(w, 0), Redone(w, 10), IsReady(w.log), w.ev.MainDataFlag
  PROVE  Records(EventStored(StoreBufferCell(w)), 10)
<1> DEFINE u == StoreBufferCell(w)
           v == EventStored(u)
           q == EEPROM_Func(w.log, F_WRITE, w.ev.Addr, "LogEvBuffer", LOG_EV_BUF_DATA_CNT)
           k == w.ev.BufCurIndex - 1
           a == w.ev.Addr + LOG_EV_BUF_DATA_CNT
<1>1. /\ w \in Worlds /\ w.log \in Drivers /\ w.par \in Drivers /\ k \in Nat
      /\ w.ev.BufCurIndex # 0 /\ w.env.losses \in Nat
  <2>1. w \in Worlds
    BY DEF Store
  <2>2. w.ev.BufCurIndex > 0
    BY DEF Records, EventOK
  <2>3. /\ w.log \in Drivers /\ w.par \in Drivers /\ w.env.losses \in Nat
        /\ w.ev.BufCurIndex \in 0..LOG_EV_BUF_CELL_COUNT
    BY <2>1 DEF Worlds
  <2>4. k \in Nat /\ w.ev.BufCurIndex # 0
    BY <2>2, <2>3, Sizes
  <2> QED BY <2>1, <2>3, <2>4
<1>2. /\ ~w.log.Error /\ w.log.State = 0 /\ w.ev.Timer = 0
  BY DEF Records, LogOK, EventOK
<1>3. q = [w.log EXCEPT !.Addr = 2 * w.ev.Addr, !.Buffer = "LogEvBuffer",
                        !.Count = 2 * LOG_EV_BUF_DATA_CNT, !.Func = {F_WRITE}]
  BY <1>2 DEF EEPROM_Func
<1>4. u = [w EXCEPT !.log = q, !.ev.BufCurIndex = k, !.ev.Addr = a]
  BY <1>1 DEF StoreBufferCell, WriteMem
<1> HIDE DEF q, k, a, u, v
<1>5. /\ q.Func = {F_WRITE} /\ q.Count = 2 * LOG_EV_BUF_DATA_CNT /\ q.State = 0 /\ ~q.Error
  BY <1>1, <1>2, <1>3 DEF Drivers
<1>6. /\ u.mem = w.mem /\ u.par = w.par /\ u.ram = w.ram /\ u.prev = w.prev /\ u.env = w.env
      /\ u.log = q /\ u.ev.BufCurIndex = k /\ u.ev.Data = w.ev.Data
      /\ u.ev.WriteFlag = w.ev.WriteFlag /\ u.ev.Timer = w.ev.Timer
      /\ u.ev.MainDataFlag
  BY <1>1, <1>4 DEF Worlds
<1>7. u \in [mem : {u.mem}, par : {u.par}, log : {u.log},
             ev : [Data : 0 .. 2, WriteFlag : BOOLEAN, EventFlag : BOOLEAN, Timer : Nat,
                   MainDataFlag : BOOLEAN, BufCurIndex : Nat, Addr : {u.ev.Addr}],
             cmd : {u.cmd}, ram : [Pointers -> Nat], prev : {u.prev}, buf : {u.buf},
             menu : {u.menu}, env : {u.env}]
  BY <1>1, <1>4 DEF Worlds
<1>8. /\ v.mem = w.mem /\ v.par = w.par /\ v.prev = w.prev /\ v.env = w.env
      /\ v.log = q /\ v.ev.BufCurIndex = k /\ v.ev.Data = w.ev.Data
      /\ v.ev.WriteFlag = w.ev.WriteFlag /\ v.ev.Timer = 0
      /\ k > 0 => v.ev.MainDataFlag /\ v.ram = w.ram
      /\ k = 0 => ~v.ev.MainDataFlag
  <2>1. CASE k = 0
    <3> DEFINE A == Following(u.ram["LogEvAddr"], LOG_EV_CNT)
               C == Counted(u.ram["LogEvCount"], LOG_EV_CNT)
    <3>1. v = [u EXCEPT !.ev.MainDataFlag = FALSE, !.ev.EventFlag = FALSE,
                        !.ram = [u.ram EXCEPT !["LogEvAddr"] = A, !["LogEvCount"] = C]]
      BY <1>6, <1>7, <2>1 DEF EventStored, Pointers, v
    <3> HIDE DEF A, C
    <3>2. /\ v.mem = u.mem /\ v.par = u.par /\ v.prev = u.prev /\ v.env = u.env /\ v.log = u.log
          /\ v.ev = [u.ev EXCEPT !.MainDataFlag = FALSE, !.EventFlag = FALSE]
      BY <1>7, <3>1
    <3>3. /\ v.ev.BufCurIndex = u.ev.BufCurIndex /\ v.ev.Data = u.ev.Data
          /\ v.ev.WriteFlag = u.ev.WriteFlag /\ v.ev.Timer = u.ev.Timer
          /\ ~v.ev.MainDataFlag
      BY <1>7, <3>2
    <3> QED BY <1>2, <1>6, <2>1, <3>2, <3>3
  <2>2. CASE k > 0
    <3>1. v = u
      BY <1>6, <2>2 DEF EventStored, v
    <3> QED BY <1>2, <1>6, <2>2, <3>1
  <2> QED BY <1>1, <2>1, <2>2
<1>9. LogOK(v, 10) /\ CallsLeft(q) = CellTime /\ ~IsReady(q)
  <2>1. Phase(q) = 0
    BY <1>5 DEF Phase, F_READ, F_WRITE
  <2>2. CallsLeft(q) = 10 * LOG_EV_BUF_DATA_CNT
    BY <1>5, <2>1, Sizes DEF CallsLeft
  <2>3. LOG_EV_BUF_DATA_CNT - 1 \in Nat /\ q.Count > 0
        /\ 10 * LOG_EV_BUF_DATA_CNT = 10 * (LOG_EV_BUF_DATA_CNT - 1) + 10
    BY <1>5, Sizes
  <2>4. ~IsReady(q) /\ F_WRITE \in q.Func
    BY <1>5 DEF IsReady
  <2> QED BY <1>5, <1>8, <2>2, <2>3, <2>4 DEF LogOK, CellTime
<1>10. \A p : Writing(v, p) <=> Writing(w, p)
  BY <1>8 DEF Writing, Writes
<1>11. k = 0 => ~Writing(w, "LogEv.Data")
  <2> SUFFICES ASSUME k = 0, Writing(w, "LogEv.Data") PROVE FALSE
    OBVIOUS
  <2>1. /\ ToTheEnd(w) <= ToAdvance(w, 0) /\ w.env.losses <= MaxLosses
    BY DEF Records, RecordOK, OthersOK
  <2>2. ToAdvance(w, 0) = 0
    BY <1>1, Sizes DEF ToAdvance, CellTime, k
  <2>3. w.par.Count \in Nat /\ w.par.Count > 0 /\ Phase(w.par) \in 0 .. 4
    BY <1>1 DEF Store, DriverOK, Busy, IsReady, Writing, Writes, Drivers, Phase
  <2>4. Again(w) \in {0, 5} /\ MaxLosses \in Nat
    BY SizeAssumption DEF Again
  <2> QED BY <1>1, <2>1, <2>2, <2>3, <2>4 DEF ToTheEnd, CallsLeft
<1>12. OnlyThere(v) /\ EventOK(v) /\ OthersOK(v)
  BY <1>1, <1>8, <1>10 DEF Records, OnlyThere, EventOK, OthersOK, Writes
<1>13. CASE k = 0
  <2>1. NotPassed(v)
    BY <1>8, <1>11, <1>13 DEF NotPassed, Redone
  <2>2. Redone(v, 10)
    BY <1>8, <1>13 DEF Redone
  <2>3. RecordOK(v, 10)
    BY <1>10, <1>11, <1>13 DEF RecordOK
  <2> QED BY <1>9, <1>12, <2>1, <2>2, <2>3 DEF Records, v, u
<1>14. CASE k > 0
  <2>1. NotPassed(v)
    BY <1>8, <1>10, <1>14 DEF Records, NotPassed, Changed
  <2>2. Redone(v, 10)
    BY <1>8, <1>10, <1>14 DEF Redone, Busy
  <2>3. RecordOK(v, 10)
    <3> SUFFICES ASSUME Writing(v, "LogEv.Data") PROVE RecordOK(v, 10)
      BY DEF RecordOK
    <3>1. /\ 0 + Phase(w.par) \in {0, 5, 10}
          /\ Start(w) <= w.par.Addr /\ w.par.Addr + w.par.Count = Start(w) + 2 * LOG_EV_DATA_CNT
          /\ WrittenOK(w) /\ ToTheEnd(w) <= ToAdvance(w, 0)
      BY <1>10 DEF Records, RecordOK
    <3>2. Start(v) = Start(w) /\ ToTheEnd(v) = ToTheEnd(w)
      BY <1>8, <1>14 DEF Start, ToTheEnd, Again
    <3>3. ToAdvance(v, 10) = ToAdvance(w, 0)
      <4>1. ToAdvance(v, 10) = CellTime + (k - 1) * CellTime
        BY <1>8, <1>9 DEF ToAdvance
      <4>2. ToAdvance(w, 0) = k * CellTime
        <5>1. CellTime \in Nat
          BY Sizes DEF CellTime
        <5>2. \A x, y \in Nat : 0 + x * y = x * y
          OBVIOUS
        <5>3. ToAdvance(w, 0) = 0 + k * CellTime
          BY DEF ToAdvance, k
        <5> QED BY <1>1, <5>1, <5>2, <5>3
      <4>3. CellTime \in Nat
        BY Sizes DEF CellTime
      <4>4. \A x, y \in Nat : y + (x - 1) * y = x * y
        OBVIOUS
      <4> QED BY <1>1, <4>1, <4>2, <4>3, <4>4
    <3>4. WrittenOK(v)
      BY <1>8, <3>1, <3>2 DEF WrittenOK
    <3>5. Phase(w.par) = 0
      BY <3>1 DEF Phase
    <3> QED BY <1>8, <1>14, <3>1, <3>2, <3>3, <3>4, <3>5 DEF RecordOK
  <2> QED BY <1>9, <1>12, <2>1, <2>2, <2>3 DEF Records, v, u
<1> QED BY <1>1, <1>13, <1>14

LEMMA EventToLogRecords ==
  ASSUME NEW w, Store(w), Records(w, 0), Redone(w, 10)
  PROVE  Records(EventToLog(w), 10)
<1>1. CASE IsReady(w.log) /\ w.ev.MainDataFlag
  BY <1>1, NextCellRecords DEF EventToLog
<1>2. CASE ~(IsReady(w.log) /\ w.ev.MainDataFlag)
  <2>1. w.log \in Drivers
    BY DEF Store, Worlds
  <2>2. LogOK(w, 10)
    BY <2>1, LogRound DEF Records
  <2>3. RecordOK(w, 10)
    <3> SUFFICES ASSUME Writing(w, "LogEv.Data") PROVE RecordOK(w, 10)
      BY DEF RecordOK
    <3>1. w.ev.MainDataFlag /\ 0 + Phase(w.par) \in {0, 5, 10}
      BY DEF Records, RecordOK
    <3>2. Phase(w.par) = 0
      BY <3>1 DEF Phase
    <3>3. ToAdvance(w, 10) = ToAdvance(w, 0)
      BY <1>2, <3>1 DEF ToAdvance
    <3> QED BY <3>2, <3>3 DEF Records, RecordOK
  <2> QED BY <1>2, <2>2, <2>3 DEF Records, EventToLog
<1> QED BY <1>1, <1>2

(* LogEvControl: a record is asked for, or a request for the addresses and *)
(* the buffer.                                                             *)
LEMMA LogEvControlRecords ==
  ASSUME NEW w, Store(w), Records(w, 0), NEW event \in BOOLEAN, ShortRecord
  PROVE  Records(LogEvControl(w, event), 10)
<1>1. PICK v : v = [w EXCEPT !.ev = LogEvUpdate(@, event)]
  OBVIOUS
<1>2. Store(v)
  BY <1>1, EventNoted
<1>3. Records(v, 0)
  BY <1>1, EventNotedRecords
<1>4. LogEvControl(w, event) = IF StoresEvent(v) THEN StoreEvent(v) ELSE EventToLog(EventToPar(v))
  BY <1>1 DEF LogEvControl
<1>5. CASE StoresEvent(v)
  BY <1>2, <1>3, <1>4, <1>5, StoreEventRecords
<1>6. CASE ~StoresEvent(v)
  <2>1. Store(EventToPar(v)) /\ Records(EventToPar(v), 0) /\ Redone(EventToPar(v), 10)
    BY <1>2, <1>3, <1>6, EventToParKeeps, EventToParRecords
  <2> QED BY <1>4, <1>6, <2>1, EventToLogRecords
<1> QED BY <1>5, <1>6

-----------------------------------------------------------------------------
(* A call of a driver that writes.                                         *)
Shape(p) == /\ p.State = 2 => F_READ \in p.Func
            /\ p.State \in {3, 4} => p.Func = {F_WRITE}

LEMMA WriteCall ==
  ASSUME NEW p \in Drivers, F_WRITE \in p.Func, Shape(p), NEW stored, NEW live
  PROVE  LET q == FM25V10_Update(p, stored, live)
         IN /\ p.State # 2 =>
                 /\ q.Addr = p.Addr /\ q.Count = p.Count /\ q.Buffer = p.Buffer
                 /\ q.Error = p.Error /\ F_WRITE \in q.Func /\ Shape(q)
                 /\ Phase(q) = Phase(p) + 1 /\ Phase(p) \in 0 .. 3
                 /\ q.WrData = IF p.State = 3 THEN live ELSE p.WrData
                 /\ Phase(p) = 0 <=> (p.State = 0 /\ F_READ \notin p.Func)
                 /\ Phase(p) = 1 <=> p.State = 3
                 /\ Phase(p) = 2 <=> p.State = 4
            /\ p.State = 2 => Phase(p) = 4
<1> DEFINE q == FM25V10_Update(p, stored, live)
<1>1. ~IsReady(p) /\ F_READ # F_WRITE /\ p.Func \in SUBSET {F_READ, F_WRITE}
      /\ p.State \in {0, 2, 3, 4}
  BY DEF IsReady, F_READ, F_WRITE, Drivers
<1>2. CASE p.State = 0
  <2>1. q = [p EXCEPT !.State = IF F_READ \in p.Func THEN 2 ELSE 3]
    BY <1>1, <1>2 DEF FM25V10_Update, Dispatch
  <2> HIDE DEF q
  <2>2. /\ q.Addr = p.Addr /\ q.Count = p.Count /\ q.Buffer = p.Buffer /\ q.Error = p.Error
        /\ q.Func = p.Func /\ q.WrData = p.WrData
        /\ q.State = IF F_READ \in p.Func THEN 2 ELSE 3
    BY <2>1 DEF Drivers
  <2> QED BY <1>1, <1>2, <2>2 DEF Phase, Shape, q
<1>3. CASE p.State = 3
  <2>1. q = [p EXCEPT !.WrData = live, !.State = 4]
    BY <1>1, <1>3 DEF FM25V10_Update, TakeByte
  <2> HIDE DEF q
  <2>2. /\ q.Addr = p.Addr /\ q.Count = p.Count /\ q.Buffer = p.Buffer /\ q.Error = p.Error
        /\ q.Func = p.Func /\ q.WrData = live /\ q.State = 4
    BY <2>1 DEF Drivers
  <2> QED BY <1>1, <1>3, <2>2 DEF Phase, Shape, q
<1>4. CASE p.State = 4
  <2>1. q = [p EXCEPT !.Func = p.Func \union {F_READ}, !.State = 0]
    BY <1>1, <1>4 DEF FM25V10_Update, WriteByte
  <2> HIDE DEF q
  <2>2. /\ q.Addr = p.Addr /\ q.Count = p.Count /\ q.Buffer = p.Buffer /\ q.Error = p.Error
        /\ q.Func = p.Func \union {F_READ} /\ q.WrData = p.WrData /\ q.State = 0
    BY <2>1 DEF Drivers
  <2> QED BY <1>1, <1>4, <2>2 DEF Phase, Shape, q
<1>5. CASE p.State = 2
  BY <1>5 DEF Phase
<1> QED BY <1>1, <1>2, <1>3, <1>4, <1>5

WritesAnew(p) == F_WRITE \in p.Func /\ F_READ \notin p.Func

(* A byte that is read back: the next one, the end, or once more.          *)
LEMMA ReadBack ==
  ASSUME NEW p \in Drivers, F_WRITE \in p.Func, p.State = 2, NEW stored, NEW live
  PROVE  LET q == FM25V10_Update(p, stored, live)
         IN /\ q.State = 0 /\ q.WrData = p.WrData /\ q.Buffer = p.Buffer
            /\ stored = p.WrData => q.Error = p.Error
            /\ stored = p.WrData /\ p.Count > 1 =>
                 q.Addr = p.Addr + 1 /\ q.Count = p.Count - 1 /\ WritesAnew(q)
            /\ stored = p.WrData /\ ~(p.Count > 1) => IsReady(q)
            /\ stored # p.WrData =>
                 \/ q.Addr = p.Addr /\ q.Count = p.Count /\ WritesAnew(q) /\ q.Error = p.Error
                 \/ IsReady(q) /\ q.Error
<1> DEFINE q == FM25V10_Update(p, stored, live)
<1>1. /\ ~IsReady(p) /\ p.Func \ {F_READ} = {F_WRITE}
      /\ p.RetryTimer \in Nat
  BY DEF IsReady, F_READ, F_WRITE, Drivers
<1>2. q = ReadByte(p, stored)
  BY <1>1 DEF FM25V10_Update
<1>3. CASE stored = p.WrData
  <2> DEFINE r == [p EXCEPT !.RetryTimer = 0, !.Func = p.Func \ {F_READ}]
  <2>1. q = NextByte(r)
    BY <1>2, <1>3 DEF ReadByte
  <2>2. /\ r \in Drivers /\ r.Func = {F_WRITE} /\ r.Error = p.Error /\ r.Addr = p.Addr
        /\ r.Count = p.Count /\ r.Buffer = p.Buffer /\ r.WrData = p.WrData
    BY <1>1 DEF Drivers
  <2> HIDE DEF q, r
  <2>3. /\ q.State = 0 /\ q.Error = r.Error /\ q.Buffer = r.Buffer /\ q.WrData = r.WrData
        /\ r.Count > 1 => q.Addr = r.Addr + 1 /\ q.Count = r.Count - 1 /\ q.Func = r.Func
        /\ ~(r.Count > 1) => q.Func = {}
    BY <2>1, <2>2, NextByteFields
  <2> QED BY <1>1, <1>3, <2>2, <2>3 DEF q, WritesAnew, IsReady
<1>4. CASE stored # p.WrData
  <2>1. \/ q = [p EXCEPT !.RetryTimer = p.RetryTimer + 1, !.Func = {F_WRITE}, !.State = 0]
        \/ q = [p EXCEPT !.RetryTimer = p.RetryTimer + 1, !.Error = TRUE, !.Func = {},
                         !.State = 0]
    BY <1>1, <1>2, <1>4 DEF ReadByte, WriteAgain
  <2> HIDE DEF q
  <2>2. CASE q = [p EXCEPT !.RetryTimer = p.RetryTimer + 1, !.Func = {F_WRITE}, !.State = 0]
    BY <1>1, <1>4, <2>2 DEF Drivers, q, WritesAnew
  <2>3. CASE q = [p EXCEPT !.RetryTimer = p.RetryTimer + 1, !.Error = TRUE, !.Func = {},
                           !.State = 0]
    BY <1>4, <2>3 DEF Drivers, q, IsReady
  <2> QED BY <2>1, <2>2, <2>3
<1> QED BY <1>3, <1>4

(* The log memory returns what was written: every call is one less.        *)
LEMMA LogCall ==
  ASSUME NEW w, w.log \in Drivers, NEW n \in 1 .. 10, LogOK(w, n),
         NEW u, u.log = FM25V10_Update(w.log, w.log.WrData, 0)
  PROVE  /\ LogOK(u, n - 1)
         /\ IsReady(w.log) => IsReady(u.log)
         /\ ~IsReady(w.log) => \/ ~IsReady(u.log) /\ CallsLeft(u.log) = CallsLeft(w.log) - 1
                               \/ IsReady(u.log) /\ CallsLeft(w.log) = 1 /\ n = 1
<1>1. CASE IsReady(w.log)
  <2>1. u.log = w.log
    BY <1>1 DEF LogOK, FM25V10_Update, Drivers
  <2> QED BY <1>1, <2>1 DEF LogOK
<1>2. CASE ~IsReady(w.log)
  <2>1. /\ F_WRITE \in w.log.Func /\ Shape(w.log) /\ ~w.log.Error
        /\ w.log.Count \in Nat /\ w.log.Count > 0 /\ w.log.State \in {0, 2, 3, 4}
    BY <1>2 DEF LogOK, Shape, Drivers
  <2>2. PICK j \in Nat : CallsLeft(w.log) = 10 * j + n
    BY <1>2 DEF LogOK
  <2>3. CASE w.log.State # 2
    <3>1. /\ u.log.Count = w.log.Count /\ u.log.Error = w.log.Error /\ F_WRITE \in u.log.Func
          /\ Shape(u.log) /\ Phase(u.log) = Phase(w.log) + 1 /\ Phase(w.log) \in 0 .. 3
      BY <2>1, <2>3, WriteCall
    <3>2. CallsLeft(u.log) = CallsLeft(w.log) - 1
      BY <2>1, <3>1 DEF CallsLeft
    <3>3. CallsLeft(u.log) = 10 * j + (n - 1) /\ ~IsReady(u.log)
      BY <2>2, <3>1, <3>2 DEF IsReady
    <3> QED BY <1>2, <2>1, <3>1, <3>2, <3>3 DEF LogOK, Shape
  <2>4. CASE w.log.State = 2
    <3>1. /\ u.log.State = 0 /\ u.log.Error = w.log.Error
          /\ w.log.Count > 1 => u.log.Count = w.log.Count - 1 /\ WritesAnew(u.log)
          /\ ~(w.log.Count > 1) => IsReady(u.log)
      BY <2>1, <2>4, ReadBack
    <3>2. Phase(w.log) = 4
      BY <2>4 DEF Phase
    <3>3. CASE w.log.Count > 1
      <4>1. Phase(u.log) = 0
        BY <3>1, <3>3 DEF Phase, WritesAnew
      <4>2. CallsLeft(u.log) = CallsLeft(w.log) - 1
        BY <2>1, <3>1, <3>2, <3>3, <4>1 DEF CallsLeft
      <4>3. CallsLeft(u.log) = 10 * j + (n - 1)
        BY <2>2, <4>2
      <4>4. ~IsReady(u.log)
        BY <3>1, <3>3 DEF IsReady, WritesAnew
      <4> QED BY <1>2, <2>1, <3>1, <3>3, <4>2, <4>3, <4>4 DEF LogOK, WritesAnew
    <3>4. CASE ~(w.log.Count > 1)
      <4>1. CallsLeft(w.log) = 1
        BY <2>1, <3>2, <3>4 DEF CallsLeft
      <4>2. n = 1
        BY <2>2, <4>1
      <4> QED BY <1>2, <2>1, <3>1, <3>4, <4>1, <4>2 DEF LogOK
    <3> QED BY <3>3, <3>4
  <2> QED BY <2>3, <2>4
<1> QED BY <1>1, <1>2

(* What a call of both drivers leaves behind, in n periods less one.       *)
Called(w, u, n) ==
  /\ u.ram = w.ram /\ u.prev = w.prev /\ u.ev = w.ev /\ u.env.mended = w.env.mended
  /\ u.par = FM25V10_Update(w.par, w.mem[w.par.Addr], Live(w, w.par))
  /\ LogOK(u, n - 1)
  /\ \A x, y \in Int : y < x /\ x <= ToAdvance(w, n) => y <= ToAdvance(u, n - 1)
  /\ u.env.losses \in Nat /\ u.env.losses <= MaxLosses
  /\ \/ /\ u.env.losses = w.env.losses
        /\ u.mem = IF Sends(w.par) THEN [w.mem EXCEPT ![w.par.Addr] = w.par.WrData] ELSE w.mem
     \/ u.env.losses = w.env.losses + 1 /\ u.mem = w.mem /\ Sends(w.par)

LEMMA CallOfDrivers ==
  ASSUME NEW w, Store(w), NEW n \in 1 .. 10, Records(w, n), "log" \notin Lossy,
         NEW lost \in SUBSET MayLose(w), w.env.losses + Cardinality(lost) <= MaxLosses
  PROVE  Called(w, EEPROM_Update(w, lost), n)
<1>1. PICK u : u = EEPROM_Update(w, lost)
  OBVIOUS
<1>2. /\ u.ram = w.ram /\ u.prev = w.prev /\ u.ev = w.ev /\ u.env.mended = w.env.mended
      /\ u.par = FM25V10_Update(w.par, w.mem[w.par.Addr], Live(w, w.par))
      /\ u.mem = IF Sends(w.par) /\ "par" \notin lost
                 THEN [w.mem EXCEPT ![w.par.Addr] = w.par.WrData] ELSE w.mem
      /\ u.log = FM25V10_Update(w.log, LogByte(w.log, "log" \in lost), 0)
      /\ u.env.losses = w.env.losses + Cardinality(lost)
  BY <1>1, UpdateFrame
<1>3. /\ w.log \in Drivers /\ w.env.losses \in Nat /\ w.ev.BufCurIndex \in Nat
      /\ LOG_EV_BUF_CELL_COUNT \in Nat
  BY Sizes DEF Store, Worlds
<1>4. \/ lost = {} /\ Cardinality(lost) = 0
      \/ "par" \in lost /\ Cardinality(lost) = 1 /\ Sends(w.par)
  <2>1. lost = {} \/ (lost = {"par"} /\ Sends(w.par))
    BY Sizes DEF MayLose
  <2> QED BY <2>1, FS_EmptySet, FS_Singleton
<1>5. u.log = FM25V10_Update(w.log, w.log.WrData, 0)
  <2>1. "log" \notin lost
    BY DEF MayLose
  <2> QED BY <1>2, <2>1 DEF LogByte
<1>6. /\ LogOK(u, n - 1)
      /\ IsReady(w.log) => IsReady(u.log)
      /\ ~IsReady(w.log) => \/ ~IsReady(u.log) /\ CallsLeft(u.log) = CallsLeft(w.log) - 1
                            \/ IsReady(u.log) /\ CallsLeft(w.log) = 1 /\ n = 1
  BY <1>3, <1>5, LogCall DEF Records
<1>7. \A x, y \in Int : y < x /\ x <= ToAdvance(w, n) => y <= ToAdvance(u, n - 1)
  <2> DEFINE r == (w.ev.BufCurIndex - 1) * CellTime
  <2>1. r \in Int /\ CallsLeft(w.log) \in Int
    <3>1. w.ev.BufCurIndex - 1 \in Int /\ CellTime \in Int
      BY <1>3, Sizes DEF CellTime
    <3>2. \A x, y \in Int : x * y \in Int
      OBVIOUS
    <3>3. CallsLeft(w.log) \in Int
      BY <1>3 DEF CallsLeft, Drivers, Phase
    <3> QED BY <3>1, <3>2, <3>3
  <2>2. /\ ToAdvance(w, n) = (IF IsReady(w.log) THEN n ELSE CallsLeft(w.log)) + r
        /\ ToAdvance(u, n - 1) = (IF IsReady(u.log) THEN n - 1 ELSE CallsLeft(u.log)) + r
    BY <1>2 DEF ToAdvance
  <2> HIDE DEF r
  <2>3. CASE IsReady(w.log)
    BY <1>6, <2>1, <2>2, <2>3
  <2>4. CASE ~IsReady(w.log) /\ ~IsReady(u.log)
    BY <1>6, <2>1, <2>2, <2>4
  <2>5. CASE ~IsReady(w.log) /\ IsReady(u.log)
    BY <1>6, <2>1, <2>2, <2>5
  <2> QED BY <2>3, <2>4, <2>5
<1>8. u.env.losses \in Nat /\ u.env.losses <= MaxLosses
  BY <1>2, <1>3, <1>4
<1>9. \/ /\ u.env.losses = w.env.losses
         /\ u.mem = IF Sends(w.par) THEN [w.mem EXCEPT ![w.par.Addr] = w.par.WrData] ELSE w.mem
      \/ u.env.losses = w.env.losses + 1 /\ u.mem = w.mem /\ Sends(w.par)
  BY <1>2, <1>3, <1>4
<1> QED BY <1>1, <1>2, <1>6, <1>7, <1>8, <1>9 DEF Called

(* A driver that is idle, or reads.                                        *)
LEMMA QuietCall ==
  ASSUME NEW w, Store(w), NEW n \in 1 .. 10, Records(w, n), NEW u, Called(w, u, n), ~Writes(w)
  PROVE  Records(u, n - 1)
<1>1. w.par \in Drivers /\ w.par.Func \in SUBSET {F_READ, F_WRITE} /\ F_READ # F_WRITE
      /\ w.par.State \in {0, 2, 3, 4}
  BY DEF Store, Worlds, Drivers, F_READ, F_WRITE
<1>2. u.mem = w.mem
  <2>1. ~Sends(w.par)
    BY DEF Sends, Store, DriverOK, Writes
  <2> QED BY <2>1 DEF Called
<1>3. /\ ~Writes(u) /\ u.par.Error = w.par.Error
      /\ ~Busy(w) => ~Busy(u)
  <2>1. CASE ~Busy(w)
    <3>1. w.par.State = 0
      BY <2>1 DEF Store, DriverOK
    <3>2. u.par = w.par
      BY <1>1, <2>1, <3>1 DEF Called, FM25V10_Update, Busy, Drivers
    <3> QED BY <2>1, <3>2 DEF Busy, Writes
  <2>2. CASE Busy(w) /\ w.par.State = 0
    <3>1. u.par = [w.par EXCEPT !.State = IF F_READ \in w.par.Func THEN 2 ELSE 3]
      BY <2>2 DEF Called, FM25V10_Update, Dispatch, Busy
    <3> QED BY <1>1, <2>2, <3>1 DEF Drivers, Writes
  <2>3. CASE Busy(w) /\ w.par.State = 2
    <3>1. u.par = NextByte(w.par)
      BY <2>3 DEF Called, FM25V10_Update, ReadByte, Busy, Writes
    <3>2. /\ u.par.Error = w.par.Error
          /\ w.par.Count > 1 => u.par.Func = w.par.Func
          /\ ~(w.par.Count > 1) => u.par.Func = {}
      BY <1>1, <3>1, NextByteFields
    <3> QED BY <2>3, <3>2 DEF Writes
  <2>4. w.par.State \notin {3, 4}
    BY DEF Store, DriverOK, Writes
  <2> QED BY <1>1, <2>1, <2>2, <2>3, <2>4
<1>4. \A p : ~Writing(u, p) /\ ~Writing(w, p)
  BY <1>3 DEF Writing
<1>5. OnlyThere(u) /\ EventOK(u) /\ LogOK(u, n - 1) /\ OthersOK(u)
  BY <1>2, <1>3 DEF Called, Records, OnlyThere, EventOK, OthersOK
<1>6. NotPassed(u)
  BY <1>2, <1>3, <1>4 DEF Called, Records, NotPassed, Changed
<1>7. Redone(u, n - 1)
  BY <1>2, <1>3, <1>4 DEF Called, Records, Redone
<1>8. RecordOK(u, n - 1)
  BY <1>4 DEF RecordOK
<1> QED BY <1>5, <1>6, <1>7, <1>8 DEF Records

(* A byte that is sent elsewhere does not touch a record.                  *)
LEMMA SentElsewhere ==
  ASSUME NEW w, Store(w), NEW i \in 0 .. LOG_EV_CNT - 1,
         w.par.Addr \notin 2 * EvCell(i) .. 2 * EvCell(i + 1) - 1,
         NEW m, m = w.mem \/ m = [w.mem EXCEPT ![w.par.Addr] = w.par.WrData]
  PROVE  TornIn(m, i) <=> TornIn(w.mem, i)
<1>1. w.mem \in [Address -> Byte]
  BY DEF Store, Worlds
<1>2. ASSUME NEW a \in 2 * EvCell(i) .. 2 * EvCell(i + 1) - 1
      PROVE  m[a] = w.mem[a]
  <2>1. a \in Address
    <3>1. /\ EvCell(i) \in Nat /\ EvCell(i + 1) = EvCell(i) + LOG_EV_DATA_CNT
          /\ EvCell(i) + LOG_EV_DATA_CNT <= MemoryWords /\ MemoryWords \in Nat
      BY EventCells, CellsApart
    <3> QED BY <3>1, Sizes DEF Address
  <2> QED BY <1>1, <2>1
<1> QED BY <1>2, TornKept

(* The next byte of a request is behind this one, of the same buffer.      *)
LEMMA WriterGoesOn ==
  ASSUME NEW w, Store(w), Writes(w), NEW n, NEW u, Called(w, u, n)
  PROVE  /\ ~w.par.Error
         /\ Writes(u) => u.par.Buffer = w.par.Buffer /\ u.par.Addr \in {w.par.Addr, w.par.Addr + 1}
         /\ \A p : Writing(u, p) => Writing(w, p)
         /\ u.mem = w.mem \/ u.mem = [w.mem EXCEPT ![w.par.Addr] = w.par.WrData]
<1>1. w.par \in Drivers /\ F_WRITE \in w.par.Func /\ Shape(w.par) /\ ~w.par.Error
  BY DEF Store, Worlds, DriverOK, Writes, Shape, Busy, IsReady
<1>2. u.mem = w.mem \/ u.mem = [w.mem EXCEPT ![w.par.Addr] = w.par.WrData]
  BY DEF Called
<1>3. PICK q : q = FM25V10_Update(w.par, w.mem[w.par.Addr], Live(w, w.par))
  OBVIOUS
<1>4. u.par = q
  BY <1>3 DEF Called
<1>5. Writes(u) => u.par.Buffer = w.par.Buffer /\ u.par.Addr \in {w.par.Addr, w.par.Addr + 1}
  <2>1. CASE w.par.State # 2
    <3>1. q.Buffer = w.par.Buffer /\ q.Addr = w.par.Addr
      BY <1>1, <1>3, <2>1, WriteCall
    <3> QED BY <1>4, <3>1
  <2>2. CASE w.par.State = 2
    <3>1. /\ q.Buffer = w.par.Buffer
          /\ q.Addr \in {w.par.Addr, w.par.Addr + 1} \/ IsReady(q)
      BY <1>1, <1>3, <2>2, ReadBack
    <3> QED BY <1>4, <3>1 DEF Writes, IsReady
  <2> QED BY <2>1, <2>2
<1> QED BY <1>1, <1>2, <1>5 DEF Writing

(* Addresses, counts and commands: the stored address of the events        *)
(* changes when no record is torn.                                         *)
LEMMA OtherCall ==
  ASSUME NEW w, Store(w), NEW n \in 1 .. 10, Records(w, n), NEW u, Called(w, u, n),
         Writes(w), w.par.Buffer # "LogEv.Data"
  PROVE  Records(u, n - 1)
<1>1. /\ w.par.Addr \in Nat
      /\ w.par.Buffer \in Pointers \/ w.par.Addr >= 2 * LOG_CMD_START_ADDR
  BY DEF Store, Worlds, Drivers, Records, OthersOK
<1>2. /\ ~w.par.Error
      /\ Writes(u) => u.par.Buffer = w.par.Buffer /\ u.par.Addr \in {w.par.Addr, w.par.Addr + 1}
      /\ \A p : Writing(u, p) => Writing(w, p)
      /\ u.mem = w.mem \/ u.mem = [w.mem EXCEPT ![w.par.Addr] = w.par.WrData]
  BY WriterGoesOn
<1>3. ASSUME NEW i \in 0 .. LOG_EV_CNT - 1
      PROVE  TornIn(u.mem, i) <=> TornIn(w.mem, i)
  <2>1. /\ EvCell(i) \in Nat /\ EvCell(i) >= 4 /\ EvCell(i + 1) = EvCell(i) + LOG_EV_DATA_CNT
        /\ EvCell(i + 1) <= LOG_CMD_START_ADDR /\ LOG_CMD_START_ADDR \in Nat
    BY CellsApart
  <2>2. w.par.Buffer \in Pointers => w.par.Addr <= 7
    <3> SUFFICES ASSUME w.par.Buffer \in Pointers PROVE w.par.Addr <= 7
      OBVIOUS
    <3>1. GetAdr(w.par.Buffer) \in 0 .. 3
      BY PointerCells
    <3>2. w.par.Addr \in {Low(w.par.Buffer), Low(w.par.Buffer) + 1}
      BY DEF Store, PlaceOK
    <3> QED BY <3>1, <3>2 DEF Low
  <2>3. w.par.Addr \notin 2 * EvCell(i) .. 2 * EvCell(i + 1) - 1
    BY <1>1, <2>1, <2>2, Sizes
  <2> QED BY <1>2, <2>3, SentElsewhere
<1>4. NoneTorn(u.mem) <=> NoneTorn(w.mem)
  BY <1>3 DEF NoneTorn
<1>5. ~Writing(w, "LogEv.Data") /\ Busy(w)
  BY DEF Writing, Writes, Busy, IsReady
<1>6. NotPassed(u) /\ Redone(u, n - 1) /\ RecordOK(u, n - 1) /\ EventOK(u)
  <2>1. NotPassed(u)
    BY <1>2, <1>4 DEF Called, Records, NotPassed, Changed
  <2>2. Redone(u, n - 1)
    BY <1>2, <1>4, <1>5 DEF Called, Records, Redone
  <2>3. RecordOK(u, n - 1) /\ EventOK(u)
    BY <1>2, <1>5 DEF Called, Records, RecordOK, EventOK
  <2> QED BY <2>1, <2>2, <2>3
<1>7. OthersOK(u)
  <2>1. LOG_CMD_START_ADDR \in Nat
    BY Sizes, CellsApart
  <2> QED BY <1>1, <1>2, <2>1 DEF Called, Records, OthersOK
<1>8. OnlyThere(u)
  <2> SUFFICES ASSUME ~u.env.mended, NEW i \in 0 .. LOG_EV_CNT - 1, TornIn(u.mem, i)
               PROVE  i = WordAt(u.mem, GetAdr("LogEvAddr"))
    BY DEF OnlyThere
  <2>1. TornIn(w.mem, i) /\ ~w.env.mended
    BY <1>3 DEF Called
  <2>2. i = WordAt(w.mem, GetAdr("LogEvAddr"))
    BY <2>1 DEF Records, OnlyThere
  <2>3. ~Writing(w, "LogEvAddr")
    BY <1>2, <2>1 DEF Records, NotPassed, NoneTorn
  <2>4. w.par.Addr \notin {0, 1}
    <3>1. w.par.Buffer \in Pointers => w.par.Buffer # "LogEvAddr"
      BY <2>3 DEF Writing
    <3>2. CASE w.par.Buffer \in Pointers
      <4>1. w.par.Addr \in {Low(w.par.Buffer), Low(w.par.Buffer) + 1}
        BY <3>2 DEF Store, PlaceOK
      <4>2. GetAdr(w.par.Buffer) \in 1 .. 3
        BY <3>1, <3>2 DEF Pointers, GetAdr
      <4> QED BY <4>1, <4>2 DEF Low
    <3>3. CASE w.par.Buffer \notin Pointers
      <4>1. 0 \in 0 .. LOG_EV_CNT - 1
        BY Sizes
      <4>2. EvCell(0) \in Nat /\ EvCell(0) >= 4 /\ EvCell(0 + 1) <= LOG_CMD_START_ADDR
            /\ EvCell(0 + 1) = EvCell(0) + LOG_EV_DATA_CNT /\ LOG_CMD_START_ADDR \in Nat
        BY <4>1, CellsApart
      <4> QED BY <1>1, <3>3, <4>2, Sizes
    <3> QED BY <3>2, <3>3
  <2>5. u.mem[0] = w.mem[0] /\ u.mem[1] = w.mem[1]
    <3>1. w.mem \in [Address -> Byte] /\ {0, 1} \subseteq Address
      BY PointerCells DEF Store, Worlds, Address
    <3> QED BY <1>2, <2>4, <3>1
  <2>6. GetAdr("LogEvAddr") = 0
    BY DEF GetAdr
  <2> QED BY <2>2, <2>5, <2>6 DEF WordAt
<1>9. LogOK(u, n - 1)
  BY DEF Called
<1> QED BY <1>6, <1>7, <1>8, <1>9 DEF Records

(* While a record is written: its place, that the address is the stored    *)
(* one, and that no other record is touched.                               *)
LEMMA RecordPlace ==
  ASSUME NEW w, Store(w), NEW n, Records(w, n), Writing(w, "LogEv.Data")
  PROVE  /\ w.ram["LogEvAddr"] \in 0 .. LOG_EV_CNT - 1
         /\ Start(w) \in Nat /\ Start(w) >= 8 /\ w.par.Addr \in Nat /\ w.par.Count \in Nat \ {0}
         /\ Start(w) = 2 * EvCell(w.ram["LogEvAddr"])
         /\ Start(w) + 2 * LOG_EV_DATA_CNT = 2 * EvCell(w.ram["LogEvAddr"] + 1)
         /\ Start(w) <= w.par.Addr /\ w.par.Addr + w.par.Count = Start(w) + 2 * LOG_EV_DATA_CNT
         /\ ~Changed(w, "LogEvAddr") /\ w.ev.MainDataFlag /\ ~w.par.Error
         /\ ~w.env.mended => WordAt(w.mem, 0) = w.ram["LogEvAddr"]
         /\ ~w.env.mended =>
              \A i \in 0 .. LOG_EV_CNT - 1 : TornIn(w.mem, i) => i = w.ram["LogEvAddr"]
<1> DEFINE A == w.ram["LogEvAddr"]
<1>1. /\ w \in Worlds /\ w.par.Addr \in Nat /\ w.par.Count \in Nat \ {0} /\ ~w.par.Error
      /\ A \in 0 .. LOG_EV_CNT - 1
  <2>1. w \in Worlds /\ A \in Nat /\ A <= Top["LogEvAddr"] /\ Top["LogEvAddr"] = LOG_EV_CNT - 1
    BY DEF Store, AheadOK, Worlds, Top, Pointers
  <2>2. w.par.Count > 0 /\ ~w.par.Error
    BY DEF Store, DriverOK, Busy, IsReady, Writing, Writes
  <2>3. w.par.Count \in Nat /\ w.par.Addr \in Nat
    BY <2>1 DEF Worlds, Drivers
  <2> HIDE DEF A
  <2> QED BY <2>1, <2>2, <2>3, Sizes
<1>2. /\ EvCell(A) \in Nat /\ EvCell(A) >= 4 /\ EvCell(A + 1) = EvCell(A) + LOG_EV_DATA_CNT
  BY <1>1, CellsApart
<1>3. /\ w.ev.MainDataFlag /\ Start(w) <= w.par.Addr
      /\ w.par.Addr + w.par.Count = Start(w) + 2 * LOG_EV_DATA_CNT
  BY DEF Records, RecordOK
<1>4. A = w.prev["LogEvAddr"] /\ ~Writing(w, "LogEvAddr")
  BY <1>3 DEF Store, CalmOK, EventPointers
<1>5. ~w.env.mended => WordAt(w.mem, 0) = A
  <2> SUFFICES ASSUME ~w.env.mended PROVE WordAt(w.mem, 0) = A
    OBVIOUS
  <2>1. "LogEvAddr" \in Pointers /\ Low("LogEvAddr") = 0
    BY DEF Pointers, Low, GetAdr
  <2>2. w.mem[0] = A % ByteBase /\ w.mem[0 + 1] = A \div ByteBase
    BY <1>1, <1>4, <2>1 DEF Store, StoredOK
  <2>3. A \in Nat /\ ByteBase \in Nat \ {0}
    BY <1>1, Sizes
  <2> HIDE DEF A
  <2>4. A = (A % ByteBase) + ByteBase * (A \div ByteBase)
    BY <2>3, WordParts
  <2>5. 2 * 0 = 0 /\ 2 * 0 + 1 = 0 + 1
    OBVIOUS
  <2>6. WordAt(w.mem, 0) = w.mem[0] + ByteBase * w.mem[0 + 1]
    BY <2>5 DEF WordAt
  <2> QED BY <2>2, <2>4, <2>6
<1>6. GetAdr("LogEvAddr") = 0
  BY DEF GetAdr
<1>7. ~w.env.mended =>
        \A i \in 0 .. LOG_EV_CNT - 1 : TornIn(w.mem, i) => i = A
  BY <1>5, <1>6 DEF Records, OnlyThere
<1>8. Start(w) = 2 * EvCell(A)
  BY DEF Start
<1>9. ~Changed(w, "LogEvAddr")
  BY <1>4 DEF Changed
<1> HIDE DEF A
<1>10. /\ Start(w) \in Nat /\ Start(w) >= 8 /\ Start(w) + 2 * LOG_EV_DATA_CNT = 2 * EvCell(A + 1)
  BY <1>2, <1>8, Sizes
<1> QED BY <1>1, <1>3, <1>5, <1>7, <1>8, <1>9, <1>10 DEF A

(* What holds of a call whatever the driver does with the record.          *)
LEMMA RecordCallFrame ==
  ASSUME NEW w, Store(w), NEW n \in 1 .. 10, Records(w, n), NEW u, Called(w, u, n),
         Writing(w, "LogEv.Data")
  PROVE  /\ OnlyThere(u) /\ NotPassed(u) /\ EventOK(u) /\ LogOK(u, n - 1) /\ OthersOK(u)
         /\ Start(u) = Start(w) /\ \A p : Writing(u, p) => p = "LogEv.Data"
<1> DEFINE A == w.ram["LogEvAddr"]
<1>1. /\ A \in 0 .. LOG_EV_CNT - 1
      /\ Start(w) \in Nat /\ Start(w) >= 8 /\ w.par.Addr \in Nat /\ w.par.Count \in Nat \ {0}
      /\ Start(w) = 2 * EvCell(A) /\ Start(w) + 2 * LOG_EV_DATA_CNT = 2 * EvCell(A + 1)
      /\ Start(w) <= w.par.Addr /\ w.par.Addr + w.par.Count = Start(w) + 2 * LOG_EV_DATA_CNT
      /\ ~Changed(w, "LogEvAddr") /\ w.ev.MainDataFlag /\ ~w.par.Error
      /\ ~w.env.mended => WordAt(w.mem, 0) = A
      /\ ~w.env.mended => \A i \in 0 .. LOG_EV_CNT - 1 : TornIn(w.mem, i) => i = A
  BY RecordPlace
<1>2. /\ Writes(u) => u.par.Buffer = w.par.Buffer
      /\ \A p : Writing(u, p) => Writing(w, p)
      /\ u.mem = w.mem \/ u.mem = [w.mem EXCEPT ![w.par.Addr] = w.par.WrData]
  BY WriterGoesOn DEF Writing
<1>3. \A p : Writing(u, p) => p = "LogEv.Data"
  BY <1>2 DEF Writing
<1>4. u.ram = w.ram /\ u.prev = w.prev /\ u.ev = w.ev /\ u.env.mended = w.env.mended
  BY DEF Called
<1>5. OnlyThere(u)
  <2> SUFFICES ASSUME ~u.env.mended, NEW i \in 0 .. LOG_EV_CNT - 1, TornIn(u.mem, i)
               PROVE  i = WordAt(u.mem, GetAdr("LogEvAddr"))
    BY DEF OnlyThere
  <2>1. i = A
    <3> SUFFICES ASSUME i # A PROVE FALSE
      OBVIOUS
    <3>1. w.par.Addr \in 2 * EvCell(A) .. 2 * EvCell(A) + 2 * LOG_EV_DATA_CNT - 1
      BY <1>1, Sizes
    <3>2. w.par.Addr \notin 2 * EvCell(i) .. 2 * EvCell(i + 1) - 1
      BY <1>1, <3>1, OtherCell
    <3>3. TornIn(w.mem, i)
      BY <1>2, <3>2, SentElsewhere
    <3> QED BY <1>1, <1>4, <3>3
  <2>2. u.mem[0] = w.mem[0] /\ u.mem[1] = w.mem[1]
    <3>1. w.mem \in [Address -> Byte] /\ {0, 1} \subseteq Address
      BY PointerCells DEF Store, Worlds, Address
    <3> QED BY <1>1, <1>2, <3>1
  <2>3. WordAt(u.mem, 0) = WordAt(w.mem, 0) /\ GetAdr("LogEvAddr") = 0
    <3>1. WordAt(u.mem, 0) = WordAt(w.mem, 0)
      BY <2>2 DEF WordAt
    <3>2. GetAdr("LogEvAddr") = 0
      BY DEF GetAdr
    <3> QED BY <3>1, <3>2
  <2> QED BY <1>1, <1>4, <2>1, <2>3
<1>6. NotPassed(u)
  BY <1>1, <1>3, <1>4 DEF NotPassed, Changed
<1>7. EventOK(u) /\ LogOK(u, n - 1)
  BY <1>4 DEF Called, Records, EventOK
<1>8. OthersOK(u)
  <2>1. Writes(u) => u.par.Buffer = "LogEv.Data"
    BY <1>2 DEF Writing
  <2> QED BY <2>1 DEF Called, OthersOK
<1>9. Start(u) = Start(w)
  BY <1>4 DEF Start
<1> QED BY <1>3, <1>5, <1>6, <1>7, <1>8, <1>9

(* Within a byte: one call less to the end of the record, or a byte lost   *)
(* that was counted.                                                       *)
LEMMA RecordGoesOn ==
  ASSUME NEW w, Store(w), NEW n \in 1 .. 10, Records(w, n), NEW u, Called(w, u, n),
         Writing(w, "LogEv.Data"), w.par.State # 2
  PROVE  Records(u, n - 1)
<1>1. /\ Start(w) \in Nat /\ w.par.Addr \in Nat /\ w.par.Count \in Nat \ {0}
      /\ Start(w) <= w.par.Addr /\ w.par.Addr + w.par.Count = Start(w) + 2 * LOG_EV_DATA_CNT
      /\ Start(w) >= 8
      /\ w.ev.MainDataFlag
  BY RecordPlace
<1>2. /\ OnlyThere(u) /\ NotPassed(u) /\ EventOK(u) /\ LogOK(u, n - 1) /\ OthersOK(u)
      /\ Start(u) = Start(w)
  BY RecordCallFrame
<1>3. /\ w \in Worlds /\ w.par \in Drivers /\ F_WRITE \in w.par.Func /\ Shape(w.par)
      /\ w.par.Buffer = "LogEv.Data" /\ w.env.losses \in Nat /\ MaxLosses \in Nat
  BY SizeAssumption DEF Store, Worlds, DriverOK, Writing, Writes, Shape
<1>4. /\ u.par.Addr = w.par.Addr /\ u.par.Count = w.par.Count /\ u.par.Buffer = w.par.Buffer
      /\ F_WRITE \in u.par.Func
      /\ Phase(u.par) = Phase(w.par) + 1 /\ Phase(w.par) \in 0 .. 3
      /\ u.par.WrData = IF w.par.State = 3 THEN Live(w, w.par) ELSE w.par.WrData
      /\ Phase(w.par) = 1 <=> w.par.State = 3
      /\ Phase(w.par) = 2 <=> w.par.State = 4
  <2>1. PICK q : q = FM25V10_Update(w.par, w.mem[w.par.Addr], Live(w, w.par))
    OBVIOUS
  <2>2. u.par = q
    BY <2>1 DEF Called
  <2> QED BY <1>3, <2>1, <2>2, WriteCall
<1>5. u.ram = w.ram /\ u.ev = w.ev
  BY DEF Called
<1>6. Writing(u, "LogEv.Data")
  BY <1>3, <1>4 DEF Writing, Writes
<1>7. Redone(u, n - 1)
  BY <1>6 DEF Redone
<1>8. u.mem = w.mem \/ u.mem = [w.mem EXCEPT ![w.par.Addr] = w.par.WrData]
  BY DEF Called
<1>9. WrittenOK(u)
  <2> SUFFICES ASSUME ~w.ev.WriteFlag
               PROVE  /\ \A a \in Start(w) .. w.par.Addr - 1 : u.mem[a] = w.ev.Data
                      /\ Phase(u.par) >= 2 => u.par.WrData = w.ev.Data
    BY <1>2, <1>4, <1>5 DEF WrittenOK
  <2>1. /\ \A a \in Start(w) .. w.par.Addr - 1 : w.mem[a] = w.ev.Data
        /\ Phase(w.par) >= 2 => w.par.WrData = w.ev.Data
    BY DEF Records, RecordOK, WrittenOK
  <2>2. Live(w, w.par) = w.ev.Data
    BY <1>3 DEF Live, Pointers
  <2>3. Phase(u.par) >= 2 => u.par.WrData = w.ev.Data
    BY <1>4, <2>1, <2>2
  <2>4. ASSUME NEW a \in Start(w) .. w.par.Addr - 1 PROVE u.mem[a] = w.mem[a]
    <3>1. a \in Address
      <4>1. w.par.Addr + w.par.Count <= 2 * MemoryWords /\ MemoryWords \in Nat
        BY PointerCells DEF Store, DriverOK, Busy, IsReady, Writing, Writes
      <4> QED BY <1>1, <4>1 DEF Address
    <3>2. w.mem \in [Address -> Byte] /\ a # w.par.Addr
      <4>1. w.mem \in [Address -> Byte]
        BY <1>3 DEF Worlds
      <4>2. w.par.Addr \in Nat /\ Start(w) \in Nat
        BY <1>1
      <4> QED BY <4>1, <4>2
    <3> QED BY <1>8, <3>1, <3>2
  <2> QED BY <2>1, <2>3, <2>4
<1>10. ToTheEnd(u) <= ToAdvance(u, n - 1)
  <2>1. /\ ToTheEnd(w) <= ToAdvance(w, n)
        /\ \A x, y \in Int : y < x /\ x <= ToAdvance(w, n) => y <= ToAdvance(u, n - 1)
    BY DEF Records, RecordOK, Called
  <2>2. CallsLeft(u.par) = CallsLeft(w.par) - 1 /\ CallsLeft(w.par) \in Int
    BY <1>1, <1>4 DEF CallsLeft
  <2>3. Again(u) \in {0, 5} /\ Again(w) \in {0, 5} /\ u.env.losses \in Nat
    BY DEF Again, Called
  <2>4. /\ ToTheEnd(w) = CallsLeft(w.par) + Again(w) + 5 * (MaxLosses - w.env.losses)
        /\ ToTheEnd(u) = CallsLeft(w.par) - 1 + Again(u) + 5 * (MaxLosses - u.env.losses)
        /\ ToTheEnd(w) \in Int /\ ToTheEnd(u) \in Int
    BY <1>3, <2>2, <2>3 DEF ToTheEnd
  <2>5. \/ u.env.losses = w.env.losses /\ Again(u) <= Again(w)
        \/ u.env.losses = w.env.losses + 1
    <3>1. CASE w.par.State = 4 /\ u.env.losses = w.env.losses
      <4>1. u.mem = [w.mem EXCEPT ![w.par.Addr] = w.par.WrData]
        BY <1>3, <3>1 DEF Called, Sends, IsReady
      <4>2. w.mem \in [Address -> Byte] /\ w.par.Addr \in Address
        <5>1. w.par.Addr + w.par.Count <= 2 * MemoryWords /\ MemoryWords \in Nat
          BY PointerCells DEF Store, DriverOK, Busy, IsReady, Writing, Writes
        <5>2. w.mem \in [Address -> Byte]
          BY <1>3 DEF Worlds
        <5> QED BY <1>1, <5>1, <5>2 DEF Address
      <4>3. u.mem[u.par.Addr] = u.par.WrData
        BY <1>4, <3>1, <4>1, <4>2
      <4> QED BY <2>3, <3>1, <4>3 DEF Again
    <3>2. CASE w.par.State # 4
      <4>1. ~Sends(w.par)
        BY <3>2 DEF Sends
      <4>2. u.mem = w.mem /\ u.env.losses = w.env.losses
        BY <4>1 DEF Called
      <4>3. CASE Phase(u.par) >= 3
        <5>1. Phase(w.par) >= 3 /\ u.par.WrData = w.par.WrData
          BY <1>4, <3>2, <4>3
        <5>2. Again(u) = Again(w)
          BY <1>4, <4>2, <4>3, <5>1 DEF Again
        <5> QED BY <2>3, <4>2, <5>2
      <4>4. CASE ~(Phase(u.par) >= 3)
        BY <2>3, <4>2, <4>4 DEF Again
      <4> QED BY <4>3, <4>4
    <3> QED BY <3>1, <3>2 DEF Called
  <2>6. ToTheEnd(u) < ToTheEnd(w)
    BY <1>3, <2>2, <2>3, <2>4, <2>5
  <2> QED BY <2>1, <2>4, <2>6
<1>11. RecordOK(u, n - 1)
  <2>1. n + Phase(w.par) \in {0, 5, 10}
    BY DEF Records, RecordOK
  <2>2. n - 1 + Phase(u.par) \in {0, 5, 10}
    BY <1>4, <2>1
  <2> QED BY <1>1, <1>2, <1>4, <1>5, <1>9, <1>10, <2>2 DEF RecordOK
<1> QED BY <1>2, <1>7, <1>11 DEF Records

(* A byte is there, or is written again.  At its end the record is whole,  *)
(* or an event has changed the mark and LogEvControl comes in time.        *)
LEMMA RecordReadBack ==
  ASSUME NEW w, Store(w), NEW n \in 1 .. 10, Records(w, n), NEW u, Called(w, u, n),
         Writing(w, "LogEv.Data"), w.par.State = 2
  PROVE  Records(u, n - 1)
<1>1. /\ w.ram["LogEvAddr"] \in 0 .. LOG_EV_CNT - 1
      /\ Start(w) \in Nat /\ w.par.Addr \in Nat /\ w.par.Count \in Nat \ {0}
      /\ Start(w) <= w.par.Addr /\ w.par.Addr + w.par.Count = Start(w) + 2 * LOG_EV_DATA_CNT
      /\ Start(w) = 2 * EvCell(w.ram["LogEvAddr"])
      /\ Start(w) + 2 * LOG_EV_DATA_CNT = 2 * EvCell(w.ram["LogEvAddr"] + 1)
      /\ ~w.env.mended =>
            \A i \in 0 .. LOG_EV_CNT - 1 : TornIn(w.mem, i) => i = w.ram["LogEvAddr"]
      /\ w.ev.MainDataFlag
  BY RecordPlace
<1>2. /\ OnlyThere(u) /\ NotPassed(u) /\ EventOK(u) /\ LogOK(u, n - 1) /\ OthersOK(u)
      /\ Start(u) = Start(w)
  BY RecordCallFrame
<1>3. /\ w.par \in Drivers /\ F_WRITE \in w.par.Func /\ w.par.Buffer = "LogEv.Data"
      /\ w.env.losses \in Nat /\ MaxLosses \in Nat /\ LOG_EV_DATA_CNT \in Nat
  BY SizeAssumption DEF Store, Worlds, Writing, Writes
<1> DEFINE stored == w.mem[w.par.Addr]
<1>4. /\ u.par.State = 0 /\ u.par.WrData = w.par.WrData /\ u.par.Buffer = w.par.Buffer
      /\ stored = w.par.WrData /\ w.par.Count > 1 =>
           /\ u.par.Addr = w.par.Addr + 1 /\ u.par.Count = w.par.Count - 1
           /\ WritesAnew(u.par)
      /\ stored = w.par.WrData /\ ~(w.par.Count > 1) => IsReady(u.par)
      /\ stored # w.par.WrData =>
           \/ u.par.Addr = w.par.Addr /\ u.par.Count = w.par.Count /\ WritesAnew(u.par)
           \/ IsReady(u.par) /\ u.par.Error
  <2>1. PICK q : q = FM25V10_Update(w.par, stored, Live(w, w.par))
    OBVIOUS
  <2>2. u.par = q
    BY <2>1 DEF Called
  <2> QED BY <1>3, <2>1, <2>2, ReadBack
<1>5. /\ u.ram = w.ram /\ u.ev = w.ev /\ u.mem = w.mem /\ u.env.losses = w.env.losses
      /\ u.env.mended = w.env.mended
  BY DEF Called, Sends
<1>6. Phase(w.par) = 4 /\ n \in {1, 6}
  <2>1. n + Phase(w.par) \in {0, 5, 10}
    BY DEF Records, RecordOK
  <2> QED BY <2>1 DEF Phase
<1>7. WritesAnew(u.par) => Writing(u, "LogEv.Data") /\ Phase(u.par) = 0
  BY <1>3, <1>4 DEF WritesAnew, Writing, Writes, Phase
<1>8. IsReady(u.par) => ~Writing(u, "LogEv.Data") /\ ~Busy(u)
  BY DEF IsReady, Writing, Writes, Busy
<1>9. /\ ~w.ev.WriteFlag => /\ \A a \in Start(w) .. w.par.Addr - 1 : w.mem[a] = w.ev.Data
                            /\ w.par.WrData = w.ev.Data
      /\ ToTheEnd(w) <= ToAdvance(w, n)
      /\ \A x, y \in Int : y < x /\ x <= ToAdvance(w, n) => y <= ToAdvance(u, n - 1)
  BY <1>6 DEF Records, RecordOK, WrittenOK, Called
<1>10. /\ Again(w) = IF stored # w.par.WrData THEN 5 ELSE 0
       /\ CallsLeft(w.par) = 5 * w.par.Count - 4
       /\ WritesAnew(u.par) => Again(u) = 0 /\ CallsLeft(u.par) = 5 * u.par.Count
  <2>1. Again(w) = IF stored # w.par.WrData THEN 5 ELSE 0
    BY <1>6 DEF Again
  <2>2. CallsLeft(w.par) = 5 * w.par.Count - 4
    BY <1>6 DEF CallsLeft
  <2>3. ASSUME WritesAnew(u.par) PROVE Again(u) = 0 /\ CallsLeft(u.par) = 5 * u.par.Count
    <3>1. u.par.Count \in Int
      <4>1. ~IsReady(u.par)
        BY <2>3 DEF WritesAnew, IsReady
      <4> QED BY <1>1, <1>4, <4>1
    <3> QED BY <1>7, <2>3, <3>1 DEF Again, CallsLeft
  <2> QED BY <2>1, <2>2, <2>3
<1>11. ASSUME WritesAnew(u.par), u.par.Addr \in Nat, Start(w) <= u.par.Addr,
              u.par.Addr + u.par.Count = Start(w) + 2 * LOG_EV_DATA_CNT,
              ~w.ev.WriteFlag => \A a \in Start(w) .. u.par.Addr - 1 : w.mem[a] = w.ev.Data,
              ToTheEnd(u) < ToTheEnd(w), ToTheEnd(u) \in Int, ToTheEnd(w) \in Int
       PROVE  Records(u, n - 1)
  <2>1. ToTheEnd(u) <= ToAdvance(u, n - 1)
    BY <1>9, <1>11
  <2>2. WrittenOK(u)
    BY <1>2, <1>5, <1>7, <1>11 DEF WrittenOK
  <2>3. n - 1 + Phase(u.par) \in {0, 5, 10}
    BY <1>6, <1>7, <1>11
  <2>4. RecordOK(u, n - 1)
    BY <1>1, <1>2, <1>5, <1>11, <2>1, <2>2, <2>3 DEF RecordOK
  <2>5. Redone(u, n - 1)
    BY <1>7, <1>11 DEF Redone
  <2> QED BY <1>2, <2>4, <2>5 DEF Records
<1>12. CASE stored = w.par.WrData /\ w.par.Count > 1
  <2>1. u.par.Addr = w.par.Addr + 1 /\ u.par.Count = w.par.Count - 1 /\ WritesAnew(u.par)
    BY <1>4, <1>12
  <2>2. ~w.ev.WriteFlag => \A a \in Start(w) .. u.par.Addr - 1 : w.mem[a] = w.ev.Data
    <3>1. ~w.ev.WriteFlag => w.mem[w.par.Addr] = w.ev.Data
      BY <1>9, <1>12
    <3>2. \A a \in Start(w) .. u.par.Addr - 1 :
            a \in Start(w) .. w.par.Addr - 1 \/ a = w.par.Addr
      BY <1>1, <2>1
    <3> QED BY <1>9, <3>1, <3>2
  <2>3. ToTheEnd(u) < ToTheEnd(w) /\ ToTheEnd(u) \in Int /\ ToTheEnd(w) \in Int
    BY <1>1, <1>3, <1>5, <1>10, <1>12, <2>1 DEF ToTheEnd
  <2>4. /\ u.par.Addr \in Nat /\ Start(w) <= u.par.Addr
        /\ u.par.Addr + u.par.Count = Start(w) + 2 * LOG_EV_DATA_CNT
    BY <1>1, <2>1
  <2> QED BY <1>11, <2>1, <2>2, <2>3, <2>4
<1>13. CASE stored = w.par.WrData /\ ~(w.par.Count > 1)
  <2>1. IsReady(u.par) /\ w.par.Addr + 1 = Start(w) + 2 * LOG_EV_DATA_CNT
    BY <1>1, <1>4, <1>13
  <2>2. RecordOK(u, n - 1)
    BY <1>8, <2>1 DEF RecordOK
  <2>3. Redone(u, n - 1)
    <3> SUFFICES ASSUME ~w.env.mended, ~NoneTorn(w.mem) PROVE w.ev.WriteFlag
      BY <1>5, <1>6, <1>8, <2>1 DEF Redone
    <3>1. TornIn(w.mem, w.ram["LogEvAddr"])
      BY <1>1 DEF NoneTorn
    <3>2. ASSUME ~w.ev.WriteFlag,
                 NEW a \in 2 * EvCell(w.ram["LogEvAddr"]) .. 2 * EvCell(w.ram["LogEvAddr"] + 1) - 1
          PROVE  w.mem[a] = w.ev.Data
      <4>1. a \in Start(w) .. w.par.Addr - 1 \/ a = w.par.Addr
        BY <1>1, <2>1
      <4> QED BY <1>9, <1>13, <3>2, <4>1
    <3> QED BY <3>1, <3>2 DEF TornIn
  <2> QED BY <1>2, <2>2, <2>3 DEF Records
<1>14. CASE stored # w.par.WrData /\ IsReady(u.par) /\ u.par.Error
  <2>1. RecordOK(u, n - 1) /\ Redone(u, n - 1)
    BY <1>8, <1>14 DEF RecordOK, Redone
  <2> QED BY <1>2, <2>1 DEF Records
<1>15. CASE /\ stored # w.par.WrData /\ WritesAnew(u.par)
            /\ u.par.Addr = w.par.Addr /\ u.par.Count = w.par.Count
  <2>1. ToTheEnd(u) < ToTheEnd(w) /\ ToTheEnd(u) \in Int /\ ToTheEnd(w) \in Int
    BY <1>1, <1>3, <1>5, <1>10, <1>15 DEF ToTheEnd
  <2> QED BY <1>1, <1>9, <1>11, <1>15, <2>1
<1> QED BY <1>4, <1>12, <1>13, <1>14, <1>15

LEMMA UpdateRecords ==
  ASSUME NEW w, Store(w), NEW n \in 1 .. 10, Records(w, n), "log" \notin Lossy,
         NEW lost \in SUBSET MayLose(w), w.env.losses + Cardinality(lost) <= MaxLosses
  PROVE  Records(EEPROM_Update(w, lost), n - 1)
<1>1. PICK u : u = EEPROM_Update(w, lost)
  OBVIOUS
<1>2. Called(w, u, n)
  BY <1>1, CallOfDrivers
<1>3. Records(u, n - 1)
  BY <1>2, QuietCall, OtherCall, RecordGoesOn, RecordReadBack DEF Writing
<1> QED BY <1>1, <1>3

-----------------------------------------------------------------------------
(* The environment is not the tasks' to change.                            *)
LEMMA TasksLeaveEnv ==
  ASSUME NEW w, Store(w)
  PROVE  /\ StoreEvent(w).env = w.env /\ EventToPar(w).env = w.env
         /\ EventToLog(w).env = w.env /\ CommandToPar(w).env = w.env
<1>1. w \in Worlds
  BY DEF Store
<1>2. StoreEvent(w).env = w.env
  BY <1>1 DEF StoreEvent, Worlds
<1>3. ReadEvent(w).env = w.env /\ StoreCommand(w).env = w.env
  BY <1>1 DEF ReadEvent, StoreCommand, Worlds
<1>4. EventToPar(w).env = w.env /\ CommandToPar(w).env = w.env
  BY <1>3, StorePointerFrame DEF EventToPar, CommandToPar
<1>5. Store(StoreBufferCell(w)) /\ StoreBufferCell(w).env = w.env
  <2>1. StoreBufferCell(w).env = w.env
    BY <1>1 DEF StoreBufferCell, Worlds
  <2> QED BY <2>1, BufferCellKeeps
<1>6. ASSUME NEW u, Store(u) PROVE EventStored(u).env = u.env
  BY <1>6 DEF Store, Worlds, EventStored
<1>7. EventToLog(w).env = w.env
  BY <1>5, <1>6 DEF EventToLog
<1> QED BY <1>2, <1>4, <1>7

LEMMA ControlsLeaveEnv ==
  ASSUME NEW w, Store(w), NEW b \in BOOLEAN
  PROVE  LogEvControl(w, b).env = w.env /\ LogCmdControl(w, b).env = w.env
<1>1. LogEvControl(w, b).env = w.env
  <2>1. PICK v : v = [w EXCEPT !.ev = LogEvUpdate(@, b)]
    OBVIOUS
  <2>2. Store(v) /\ v.env = w.env
    BY <2>1, EventNoted
  <2>3. LogEvControl(w, b) = IF StoresEvent(v) THEN StoreEvent(v) ELSE EventToLog(EventToPar(v))
    BY <2>1 DEF LogEvControl
  <2>4. Store(EventToPar(v))
    BY <2>2, EventToParKeeps
  <2> QED BY <2>2, <2>3, <2>4, TasksLeaveEnv
<1>2. LogCmdControl(w, b).env = w.env
  <2>1. PICK v : v = [w EXCEPT !.cmd = LogCmdUpdate(@, b)]
    OBVIOUS
  <2>2. Store(v) /\ v.env = w.env
    BY <2>1, CommandNoted
  <2>3. LogCmdControl(w, b) = CommandToPar(v)
    BY <2>1 DEF LogCmdControl
  <2> QED BY <2>2, <2>3, TasksLeaveEnv
<1> QED BY <1>1, <1>2

(* A period, from the task of the 200 Hz list on.                          *)
InTime == slot \in 0 .. 9 /\ Records(World, Wait(slot))

LEMMA PeriodRecords ==
  ASSUME slot \in 0 .. 9, "log" \notin Lossy, NEW v, Store(v), v.env.losses = env.losses,
         Records(v, IF slot = 6 THEN 10 ELSE Wait(slot)), Period(v)
  PROVE  InTime'
<1> DEFINE n == IF slot = 6 THEN 10 ELSE Wait(slot)
<1>1. PICK lost \in SUBSET MayLose(v) : /\ Become(EEPROM_Update(v, lost))
                                        /\ v.env.losses + Cardinality(lost) <= MaxLosses
  BY DEF Period
<1>2. PICK u : u = EEPROM_Update(v, lost)
  OBVIOUS
<1>3. n \in 1 .. 10 /\ Wait((slot + 1) % 10) = n - 1 /\ (slot + 1) % 10 \in 0 .. 9
  BY DEF Wait
<1> HIDE DEF n
<1>4. Store(u) /\ Records(u, n - 1)
  BY <1>1, <1>2, <1>3, UpdateKeeps, UpdateRecords DEF n
<1>5. World' = u
  BY <1>1, <1>2, <1>4, WorldBecomes DEF Store
<1>6. slot' = (slot + 1) % 10
  BY DEF Period
<1> QED BY <1>3, <1>4, <1>5, <1>6 DEF InTime

LEMMA RestartRecords ==
  ASSUME Store(World), InTime, Restart
  PROVE  InTime'
<1> DEFINE v == World'
<1>1. /\ v.mem = mem /\ v.par = FM25V10_DEFAULT /\ v.log = FM25V10_DEFAULT
      /\ v.ram = v.prev /\ v.ev = LogEvDefault
      /\ v.env = [Calm EXCEPT !.cleared = env.cleared]
      /\ World.mem = mem /\ World.env = env
  BY DEF Restart, World
<1>2. /\ v.par.Func = {} /\ v.log.Func = {} /\ v.log.State = 0 /\ ~v.log.Error
      /\ ~v.ev.MainDataFlag /\ ~v.ev.WriteFlag
      /\ ~v.env.mended /\ v.env.losses = 0
  BY <1>1 DEF FM25V10_DEFAULT, LogEvDefault, Calm
<1> HIDE DEF v
<1>3. ~Writes(v) /\ (\A p : ~Writing(v, p)) /\ IsReady(v.log) /\ ~Changed(v, "LogEvAddr")
  BY <1>1, <1>2 DEF Writes, Writing, IsReady, Changed
<1>4. OnlyThere(v)
  BY <1>1 DEF InTime, Records, OnlyThere, Restart
<1>5. /\ NotPassed(v) /\ Redone(v, 6) /\ RecordOK(v, 6) /\ EventOK(v) /\ LogOK(v, 6)
      /\ OthersOK(v)
  BY <1>2, <1>3, SizeAssumption DEF NotPassed, Redone, RecordOK, EventOK, LogOK, OthersOK
<1>6. slot' = 0 /\ Wait(0) = 6
  BY DEF Restart, Wait
<1> QED BY <1>4, <1>5, <1>6 DEF InTime, Records, v

LEMMA ClearRecords ==
  ASSUME Store(World), InTime, ProtectionsClearTick
  PROVE  InTime'
<1> DEFINE q == [par EXCEPT !.Error = FALSE]
           l == [log EXCEPT !.Error = FALSE]
           v == World'
<1>1. /\ World \in Worlds /\ World.par = par /\ World.log = log /\ World.mem = mem
      /\ World.ram = ram /\ World.prev = prev /\ World.ev = ev /\ World.env = env
      /\ par \in Drivers /\ log \in Drivers
      /\ env \in [gap : Nat, losses : Nat, cleared : BOOLEAN, mended : BOOLEAN]
  BY DEF Store, World, Worlds
<1>2. /\ v.mem = mem /\ v.par = q /\ v.log = l /\ v.ram = ram /\ v.prev = prev /\ v.ev = ev
      /\ v.env = [env EXCEPT !.mended = @ \/ par.Error]
  BY DEF ProtectionsClearTick, Become, World
<1>3. /\ q.Func = par.Func /\ q.Addr = par.Addr /\ q.Count = par.Count
      /\ q.State = par.State /\ q.Buffer = par.Buffer /\ q.WrData = par.WrData
      /\ l.Func = log.Func /\ l.State = log.State /\ l.Count = log.Count /\ ~l.Error
  BY <1>1 DEF Drivers
<1>4. v.env.losses = env.losses /\ (v.env.mended <=> env.mended \/ par.Error)
  <2>1. v.env.losses = env.losses
    BY <1>1, <1>2
  <2>2. v.env.mended = (env.mended \/ par.Error)
    BY <1>1, <1>2, Zenon
  <2> QED BY <2>1, <2>2
<1> HIDE DEF q, l, v
<1>5. /\ Writes(v) <=> Writes(World)
      /\ Busy(v) <=> Busy(World)
      /\ \A p : Writing(v, p) <=> Writing(World, p)
      /\ Changed(v, "LogEvAddr") <=> Changed(World, "LogEvAddr")
      /\ IsReady(v.log) <=> IsReady(World.log)
  BY <1>1, <1>2, <1>3 DEF Writes, Busy, Writing, Changed, IsReady
<1>6. Phase(v.par) = Phase(World.par) /\ CallsLeft(v.par) = CallsLeft(World.par)
      /\ Phase(v.log) = Phase(World.log) /\ CallsLeft(v.log) = CallsLeft(World.log)
  BY <1>1, <1>2, <1>3 DEF Phase, CallsLeft
<1> DEFINE n == Wait(slot)
<1>7. Records(World, n)
  BY DEF InTime
<1> HIDE DEF n
<1>8. OnlyThere(v) /\ EventOK(v)
  BY <1>1, <1>2, <1>4, <1>7 DEF Records, OnlyThere, EventOK
<1>9. NotPassed(v) /\ Redone(v, n)
  BY <1>1, <1>2, <1>4, <1>5, <1>7 DEF Records, NotPassed, Redone
<1>10. LogOK(v, n)
  BY <1>1, <1>2, <1>3, <1>5, <1>6, <1>7 DEF Records, LogOK
<1>11. OthersOK(v)
  BY <1>1, <1>2, <1>3, <1>4, <1>5, <1>7 DEF Records, OthersOK
<1>12. RecordOK(v, n)
  <2>1. Start(v) = Start(World) /\ ToTheEnd(v) = ToTheEnd(World)
        /\ ToAdvance(v, n) = ToAdvance(World, n)
    BY <1>1, <1>2, <1>3, <1>4, <1>5, <1>6 DEF Start, ToTheEnd, Again, ToAdvance
  <2>2. WrittenOK(v) <=> WrittenOK(World)
    BY <1>1, <1>2, <1>3, <1>6, <2>1 DEF WrittenOK
  <2> QED BY <1>1, <1>2, <1>3, <1>5, <1>6, <1>7, <2>1, <2>2 DEF Records, RecordOK
<1>13. slot' = slot
  BY DEF ProtectionsClearTick
<1> QED BY <1>8, <1>9, <1>10, <1>11, <1>12, <1>13 DEF InTime, Records, n, v

LEMMA RecordsNext ==
  ASSUME TRUE \notin Resets, "log" \notin Lossy, ShortRecord,
         Store(World), InTime, [Next]_vars
  PROVE  InTime'
<1>1. /\ World \in Worlds /\ World.mem = mem /\ World.par = par /\ World.log = log
      /\ World.ram = ram /\ World.prev = prev /\ World.ev = ev /\ World.env = env
      /\ World.menu = menu
  BY DEF Store, World
<1>2. slot \in 0 .. 9 /\ Records(World, Wait(slot))
  BY DEF InTime
<1>3. CASE UNCHANGED vars
  <2>1. World' = World /\ slot' = slot
    BY <1>3 DEF World, vars
  <2> QED BY <1>2, <2>1 DEF InTime
<1>4. CASE DataBufferPreTick
  <2>1. PICK second \in BOOLEAN, sample \in Samples :
          Period(DataBufferPre(World, FALSE, second, sample))
    <3>1. Resets = {FALSE}
      BY SizeAssumption
    <3> QED BY <1>4, <3>1 DEF DataBufferPreTick
  <2>2. slot = 5
    BY <1>4 DEF DataBufferPreTick
  <2>3. PICK v : v = DataBufferPre(World, FALSE, second, sample)
    OBVIOUS
  <2>4. Store(v) /\ v.env = env
    BY <1>1, <2>3, DataBufferPreKeeps
  <2>5. Records(v, Wait(slot))
    BY <1>2, <2>3, DataBufferPreRecords
  <2>6. Records(v, IF slot = 6 THEN 10 ELSE Wait(slot))
    BY <2>2, <2>5
  <2>7. Period(v)
    BY <2>1, <2>3, Zenon
  <2> QED BY <1>2, <2>4, <2>6, <2>7, PeriodRecords
<1>5. CASE LogEvControlTick
  <2>1. PICK event \in BOOLEAN : Period(LogEvControl(World, event))
    BY <1>5 DEF LogEvControlTick
  <2>2. slot = 6 /\ Wait(slot) = 0
    BY <1>5 DEF LogEvControlTick, Wait
  <2>3. PICK v : v = LogEvControl(World, event)
    OBVIOUS
  <2>4. Store(v) /\ v.env = env
    BY <1>1, <2>3, LogEvControlKeeps, ControlsLeaveEnv
  <2>5. Records(v, 10)
    BY <1>2, <2>2, <2>3, LogEvControlRecords
  <2> QED BY <1>2, <2>1, <2>2, <2>3, <2>4, <2>5, PeriodRecords
<1>6. CASE LogCmdControlTick
  <2>1. PICK command \in BOOLEAN :
          Period(LogCmdControl([World EXCEPT !.env.gap = IF command THEN CommandGap
                                                         ELSE CountDown(@)], command))
    BY <1>6 DEF LogCmdControlTick
  <2> DEFINE g == IF command THEN CommandGap ELSE CountDown(env.gap)
             e == [env EXCEPT !.gap = g]
             v == [World EXCEPT !.env = e]
  <2>2. /\ e \in [gap : Nat, losses : Nat, cleared : BOOLEAN, mended : BOOLEAN]
        /\ e.mended = env.mended /\ e.losses = env.losses
    <3>1. env \in [gap : Nat, losses : Nat, cleared : BOOLEAN, mended : BOOLEAN]
      BY <1>1 DEF Worlds
    <3>2. CommandGap \in Nat /\ CountDown(env.gap) \in Nat
      BY <3>1, Sizes DEF CountDown
    <3>3. g \in Nat
      BY <3>2
    <3> HIDE DEF g
    <3> QED BY <3>1, <3>3
  <2>3. [World EXCEPT !.env.gap = IF command THEN CommandGap ELSE CountDown(@)] = v
    BY DEF World
  <2> HIDE DEF e
  <2>4. /\ v \in Worlds /\ v.mem = mem /\ v.par = par /\ v.log = log /\ v.ram = ram
        /\ v.prev = prev /\ v.ev = ev /\ v.env = e
    BY <1>1, <2>2 DEF Worlds
  <2> HIDE DEF v
  <2>5. Store(v)
    BY <1>1, <2>2, <2>4, StoreKept
  <2>6. slot = 7 /\ Wait(slot) = 9
    BY <1>6 DEF LogCmdControlTick, Wait
  <2>7. Records(v, Wait(slot))
    BY <1>1, <1>2, <2>2, <2>4, RecordsKept DEF SameEvent
  <2>8. PICK u : u = LogCmdControl(v, command)
    OBVIOUS
  <2>9. Store(u) /\ u.env = e
    BY <2>4, <2>5, <2>8, LogCmdControlKeeps, ControlsLeaveEnv
  <2>10. Records(u, Wait(slot))
    BY <2>5, <2>6, <2>7, <2>8, LogCmdControlRecords
  <2>11. Period(u)
    BY <2>1, <2>3, <2>8
  <2> QED BY <1>2, <2>2, <2>6, <2>9, <2>10, <2>11, PeriodRecords
<1>7. CASE MenuTick
  <2>1. PICK i \in Positions : Period([World EXCEPT !.menu.EvLogFlag = TRUE,
                                                    !.menu.Position = i])
    BY <1>7 DEF MenuTick
  <2> DEFINE m == [menu EXCEPT !.EvLogFlag = TRUE, !.Position = i]
             v == [World EXCEPT !.menu = m]
  <2>2. m \in [EvLogFlag : BOOLEAN, Position : 0 .. LOG_EV_CNT - 1, ReadLogFlag : BOOLEAN]
    <3>1. menu \in [EvLogFlag : BOOLEAN, Position : 0 .. LOG_EV_CNT - 1, ReadLogFlag : BOOLEAN]
      BY <1>1 DEF Worlds
    <3>2. i \in 0 .. LOG_EV_CNT - 1
      BY Sizes
    <3> QED BY <3>1, <3>2
  <2>3. [World EXCEPT !.menu.EvLogFlag = TRUE, !.menu.Position = i] = v
    BY DEF World
  <2> HIDE DEF m
  <2>4. /\ v \in Worlds /\ v.mem = mem /\ v.par = par /\ v.log = log /\ v.ram = ram
        /\ v.prev = prev /\ v.ev = ev /\ v.env = env
    BY <1>1, <2>2 DEF Worlds
  <2> HIDE DEF v
  <2>5. Store(v)
    BY <1>1, <2>4, StoreKept
  <2>6. Records(v, Wait(slot))
    BY <1>1, <1>2, <2>4, RecordsKept DEF SameEvent
  <2>7. slot = 4
    BY <1>7 DEF MenuTick
  <2>8. Records(v, IF slot = 6 THEN 10 ELSE Wait(slot)) /\ Period(v)
    BY <2>1, <2>3, <2>6, <2>7
  <2> QED BY <1>2, <2>4, <2>5, <2>8, PeriodRecords
<1>8. CASE OtherTick
  <2>1. slot # 6 /\ Period(World)
    BY <1>8 DEF OtherTick
  <2> QED BY <1>1, <1>2, <2>1, PeriodRecords
<1>9. CASE ProtectionsClearTick
  BY <1>9, ClearRecords
<1>10. CASE Restart
  BY <1>10, RestartRecords
<1> QED BY <1>3, <1>4, <1>5, <1>6, <1>7, <1>8, <1>9, <1>10 DEF Next

LEMMA RecordsInit ==
  ASSUME Init PROVE InTime
<1> DEFINE v == World
<1>1. /\ v.mem = [a \in Address |-> 0] /\ v.par = FM25V10_DEFAULT /\ v.log = FM25V10_DEFAULT
      /\ v.ram = v.prev /\ v.ev = LogEvDefault /\ v.env = Calm
  BY DEF Init, World
<1>2. /\ v.par.Func = {} /\ v.log.Func = {} /\ v.log.State = 0 /\ ~v.log.Error
      /\ ~v.ev.MainDataFlag /\ ~v.ev.WriteFlag
      /\ ~v.env.mended /\ v.env.losses = 0
  BY <1>1 DEF FM25V10_DEFAULT, LogEvDefault, Calm
<1> HIDE DEF v
<1>3. ~Writes(v) /\ (\A p : ~Writing(v, p)) /\ IsReady(v.log) /\ ~Changed(v, "LogEvAddr")
  BY <1>1, <1>2 DEF Writes, Writing, IsReady, Changed
<1>4. OnlyThere(v)
  <2> SUFFICES ASSUME NEW i \in 0 .. LOG_EV_CNT - 1 PROVE ~TornIn(v.mem, i)
    BY DEF OnlyThere
  <2>1. \A a \in 2 * EvCell(i) .. 2 * EvCell(i + 1) - 1 : a \in Address
    <3>1. /\ EvCell(i) \in Nat /\ EvCell(i + 1) = EvCell(i) + LOG_EV_DATA_CNT
          /\ EvCell(i) + LOG_EV_DATA_CNT <= MemoryWords /\ MemoryWords \in Nat
      BY EventCells, CellsApart
    <3> QED BY <3>1, Sizes DEF Address
  <2> QED BY <1>1, <2>1 DEF TornIn
<1>5. /\ NotPassed(v) /\ Redone(v, 6) /\ RecordOK(v, 6) /\ EventOK(v) /\ LogOK(v, 6)
      /\ OthersOK(v)
  BY <1>2, <1>3, SizeAssumption DEF NotPassed, Redone, RecordOK, EventOK, LogOK, OthersOK
<1>6. slot = 0 /\ Wait(0) = 6
  BY DEF Init, Wait
<1> QED BY <1>4, <1>5, <1>6 DEF InTime, Records, v

(* An event record put together from two is only ever the one at the       *)
(* stored address, whatever events, commands, requests of the menu, lost   *)
(* bytes and power cuts came between: the next event overwrites it.        *)
THEOREM EventRecordsWhole ==
  ASSUME TRUE \notin Resets, "log" \notin Lossy, ShortRecord
  PROVE  Spec => []EventCellsWhole
<1>1. Init => InTime
  BY RecordsInit
<1>2. Store(World) /\ InTime /\ [Next]_vars => InTime'
  BY RecordsNext
<1>3. InTime => EventCellsWhole
  <2>1. World.mem = mem /\ World.env = env
    BY DEF World
  <2>2. StoredPointers(mem)["LogEvAddr"] = WordAt(mem, GetAdr("LogEvAddr"))
    BY DEF StoredPointers, Pointers
  <2>3. \A i \in 0 .. LOG_EV_CNT - 1 : Torn(i) <=> TornIn(mem, i)
    BY DEF Torn, TornIn
  <2> QED BY <2>1, <2>2, <2>3 DEF InTime, Records, OnlyThere, EventCellsWhole
<1> QED BY <1>1, <1>2, <1>3, StoreHolds, PTL DEF Spec
=============================================================================
