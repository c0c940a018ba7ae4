---------------------------- MODULE ModbusExchange ----------------------------
(***************************************************************************)
(* What the Modbus port promises to the master of the line: it drives the  *)
(* line only to answer, an answer follows a request that was received      *)
(* whole, and a request is answered at most once.  The port may drop any   *)
(* request; it then listens again.                                         *)
(***************************************************************************)
CONSTANTS Requests, None

VARIABLES
  asked,   \* the request of the master that waits for an answer, or None
  phase    \* "listening", "working" on what was received, or "answering"

vars == <<asked, phase>>

TypeOK == /\ asked \in Requests \cup {None}
          /\ phase \in {"listening", "working", "answering"}

Init == asked = None /\ phase = "listening"

\* The master completes a request, or gives up waiting for the answer.
Ask(k) == asked = None /\ asked' = k /\ UNCHANGED phase
GiveUp == asked # None /\ asked' = None /\ UNCHANGED phase

\* The port has heard something, a request, a damaged one or noise.
Hear == phase = "listening" /\ phase' = "working" /\ UNCHANGED asked

\* What was heard needs no answer.
Drop == phase = "working" /\ phase' = "listening" /\ UNCHANGED asked

\* The port takes the line, for a request nobody has answered yet.
Answer == /\ phase = "working" /\ asked # None
          /\ phase' = "answering" /\ asked' = None

\* The port releases the line and listens.
Release == phase = "answering" /\ phase' = "listening" /\ UNCHANGED asked

Next == (\E k \in Requests : Ask(k)) \/ GiveUp \/ Hear \/ Drop \/ Answer \/ Release

Spec == Init /\ [][Next]_vars
===============================================================================
