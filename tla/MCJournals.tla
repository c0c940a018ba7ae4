------------------------------ MODULE MCJournals ------------------------------
(* Instances of Journals for TLC: sets the configurations cannot write, and  *)
(* a view without the fields nothing reads before they are set again: those  *)
(* of an idle driver, a byte not yet taken, and the place of the next cell   *)
(* of the buffer when there is none.                                         *)
EXTENDS Journals

MCOnlyZero == {0}
MCTwoSamples == {0, 1}
MCNever == {FALSE}
MCAnyTime == {FALSE, TRUE}
MCNowhere == {}
MCFirst == {0}
MCParLossy == {"par"}

DriverView(p) ==
  IF IsReady(p) THEN <<p.Error, p.RetryTimer>>
  ELSE [p EXCEPT !.WrData = IF TakenBy(p).some THEN @ ELSE 0]

MCView ==
  <<mem, DriverView(par), DriverView(log),
    [ev EXCEPT !.Addr = IF ev.BufCurIndex = 0 THEN 0 ELSE @],
    cmd, ram, prev, buf, menu, slot, env>>
===============================================================================
