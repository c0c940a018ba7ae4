------------------------------- MODULE Fm25v10 --------------------------------
(***************************************************************************)
(* The driver of one FM25V10 memory (src/src/stat/fm25v10.c) and the       *)
(* request its clients make (EEPROM_Func).  The driver works byte by byte, *)
(* one state per call of the 2 kHz list: a byte is taken from the client's *)
(* buffer as it is at that moment, sent, read back and compared.           *)
(*                                                                         *)
(* An operator takes the driver's record to its next value.  The memory    *)
(* and the buffers belong to the module that uses the driver.  Names of    *)
(* regions stand for the buffer pointer: all words of a record the clients *)
(* write carry the same mark, so the offset in the buffer is left out, and *)
(* so is RdData, the destination of a read.                                *)
(***************************************************************************)
EXTENDS Naturals

CONSTANT EEPROM_RETRY      \* attempts to write one byte

ASSUME RetryAssumption == EEPROM_RETRY \in Nat \ {0}

F_READ == "read"
F_WRITE == "write"

NullBuffer == "null"

\* TFM25V10 as initialised at start
FM25V10_DEFAULT ==
  [Func |-> {}, State |-> 0, Addr |-> 0, Buffer |-> NullBuffer, Count |-> 0,
   WrData |-> 0, RetryTimer |-> 0, Error |-> FALSE]

\* IsMemParReady, IsMemLogReady
IsReady(p) == p.Func = {}

\* A request: addresses and counts of words become those of bytes.  Nothing
\* is asked of the request that may be in progress, and State is left as it is.
EEPROM_Func(p, Func, Addr, Buffer, Count) ==
  IF p.Error THEN p
  ELSE [p EXCEPT !.Addr = 2 * Addr, !.Buffer = Buffer, !.Count = 2 * Count,
                 !.Func = {Func}]

ReadMem(p, Addr, Buffer, Count) == EEPROM_Func(p, F_READ, Addr, Buffer, Count)
WriteMem(p, Addr, Buffer, Count) == EEPROM_Func(p, F_WRITE, Addr, Buffer, Count)

----
\* case 1: State is left one below the next case
Dispatch(p) == [p EXCEPT !.State = IF F_READ \in p.Func THEN 2 ELSE 3]

NextByte(p) ==
  IF p.Count > 1
  THEN [p EXCEPT !.Addr = @ + 1, !.Count = @ - 1, !.State = 0]
  ELSE [p EXCEPT !.RetryTimer = 0, !.Count = 0, !.Func = {}, !.State = 0]

WriteAgain(p) ==
  IF p.RetryTimer + 1 < EEPROM_RETRY
  THEN [p EXCEPT !.RetryTimer = @ + 1, !.Func = @ \ {F_READ}, !.State = 0]
  ELSE [p EXCEPT !.RetryTimer = @ + 1, !.Error = TRUE, !.Func = {}, !.State = 0]

\* A slip: the byte read back is not compared with the one written.
MutReadByte(p, Tmp) ==
  IF F_WRITE \notin p.Func THEN NextByte(p)
  ELSE NextByte([p EXCEPT !.RetryTimer = 0, !.Func = @ \ {F_READ}])

\* case 3: Tmp is the byte read at Addr
ReadByte(p, Tmp) ==
  IF F_WRITE \notin p.Func THEN NextByte(p)
  ELSE IF Tmp # p.WrData THEN WriteAgain(p)
  ELSE NextByte([p EXCEPT !.RetryTimer = 0, !.Func = @ \ {F_READ}])

\* case 4: Tmp is the byte of the buffer
TakeByte(p, Tmp) == [p EXCEPT !.WrData = Tmp, !.State = 4]

\* case 5: the byte is sent, to be read back by the next pass
WriteByte(p) == [p EXCEPT !.Func = @ \union {F_READ}, !.State = 0]

\* The call that sends a byte to the memory
Sends(p) == ~IsReady(p) /\ p.State = 4

\* The call that reads a byte of the memory
Reads(p) == ~IsReady(p) /\ p.State = 2

\* One call, with the byte of the memory and the byte of the buffer it sees
FM25V10_Update(p, stored, live) ==
  IF IsReady(p) THEN [p EXCEPT !.State = 0]
  ELSE CASE p.State = 0 -> Dispatch(p)
         [] p.State = 2 -> ReadByte(p, stored)
         [] p.State = 3 -> TakeByte(p, live)
         [] p.State = 4 -> WriteByte(p)
===============================================================================
