------------------------------ MODULE BlockStore ------------------------------
(***************************************************************************)
(* What a memory driver promises to its clients, without its states, its   *)
(* retries and its timing: one request at a time, byte after byte in the   *)
(* order of the addresses, and a byte of a write is left behind only when  *)
(* the memory holds what was taken from the buffer.  Whatever is outside   *)
(* the current byte of the current write never changes.                    *)
(***************************************************************************)
EXTENDS Naturals

CONSTANTS Address,   \* the byte addresses of the memory
          Byte       \* the values of a byte

VARIABLES mem,       \* the memory, a byte per address
          task,      \* the request in progress, or Idle
          failed     \* the driver has given up

vars == <<mem, task, failed>>

Idle == [busy |-> FALSE]
NothingTaken == [some |-> FALSE]
Taken(b) == [some |-> TRUE, byte |-> b]

Request(write, addr, left) ==
  [busy |-> TRUE, write |-> write, addr |-> addr, left |-> left,
   taken |-> NothingTaken]

Init == /\ mem \in [Address -> Byte]
        /\ task = Idle
        /\ failed = FALSE

\* A client asks for a block, of a driver that is idle and has not failed.
Accept == /\ ~task.busy /\ ~failed
          /\ task'.busy
          /\ task'.write \in BOOLEAN /\ task'.addr \in Address
          /\ task'.left \in Nat \ {0}
          /\ task' = Request(task'.write, task'.addr, task'.left)
          /\ UNCHANGED <<mem, failed>>

\* The byte to be written is taken from the client's buffer.
Take == /\ task.busy /\ task.write
        /\ \E b \in Byte : task' = [task EXCEPT !.taken = Taken(b)]
        /\ UNCHANGED <<mem, failed>>

\* The byte is written.
Put == /\ task.busy /\ task.write /\ task.taken.some
       /\ mem' = [mem EXCEPT ![task.addr] = task.taken.byte]
       /\ UNCHANGED <<task, failed>>

\* The byte was not written and is taken again.
Repeat == /\ task.busy /\ task.write
          /\ task' = [task EXCEPT !.taken = NothingTaken]
          /\ UNCHANGED <<mem, failed>>

\* The byte is read, or is written and verified: on to the next or to the end.
Advance ==
  /\ task.busy
  /\ task.write => task.taken.some /\ mem[task.addr] = task.taken.byte
  /\ task' = IF task.left > 1
             THEN Request(task.write, task.addr + 1, task.left - 1)
             ELSE Idle
  /\ UNCHANGED <<mem, failed>>

\* The memory cannot be written: the request is dropped, and all later ones.
Fail == /\ task.busy /\ task.write
        /\ task' = Idle
        /\ failed' = TRUE
        /\ UNCHANGED mem

\* The operator clears the error.
Mend == /\ failed
        /\ failed' = FALSE
        /\ UNCHANGED <<mem, task>>

\* A power cut: the request is forgotten, the memory stays.
Cut == /\ task' = Idle
       /\ failed' = FALSE
       /\ UNCHANGED mem

Next == Accept \/ Take \/ Put \/ Repeat \/ Advance \/ Fail \/ Mend \/ Cut

Spec == Init /\ [][Next]_vars
===============================================================================
