----------------------------- MODULE Protections -----------------------------
(***************************************************************************)
(* The protections of the drive (src/core/protections.c): when a latched   *)
(* fault counts, and the two resets, the partial one of every start and    *)
(* the full one the operator asks for.                                     *)
(*                                                                         *)
(* How a protection measures (the PrtCalc library, voltage and current     *)
(* levels, time-outs) is an input: prt.faults holds the bits it latched.   *)
(***************************************************************************)
EXTENDS DriveState

(***************************************************************************)
(* The faults that stop the drive: those configured to, and the three that *)
(* no parameter masks.  Which ones are configured depends on each          *)
(* protection's parameter and on GrB->SettingPlace (spLinAuto compares     *)
(* them, spFire leaves only the short circuit to choose): StopKinds is the *)
(* outcome for the settings of a run.                                      *)
(***************************************************************************)
ActiveFaults(w) ==
  IF w.prt.delay > 0 THEN {}
  ELSE w.prt.faults \cap (StopKinds \cup {"NoMove", "PosSens", "Th_Err"})

IsFaultExist(w)  == ActiveFaults(w) # {}
IsDefectExist(w) == w.prt.delay = 0 /\ w.prt.defects # {}

(***************************************************************************)
(* The assignments to Status.Fault and Status.Defect; IsFaultExist also    *)
(* sets onlyPosSens, which nothing ever clears.                            *)
(***************************************************************************)
ReadFaults(w) ==
  [w EXCEPT !.st = [w.st EXCEPT !.fault = IsFaultExist(w),
                                !.defect = IsDefectExist(w)],
            !.prt.onlyPosSens = @ \/ ActiveFaults(w) = {"PosSens"}]

(***************************************************************************)
(* ShCProtect: over counts samples above the level; at hit the counter of  *)
(* some phase has reached ShcTicTime.                                      *)
(***************************************************************************)
ShCProtect(w, hit) ==
  IF hit /\ w.prt.delay = 0
  THEN [w EXCEPT !.prt.faults = @ \cup {"ShC"}]
  ELSE w

(***************************************************************************)
(* The reset of a start.  On the BUR-90 the clutch ("mufta") and the       *)
(* "no movement" fault survive it unless the unit replaces a BUR-60 or the *)
(* valve has a seal.                                                       *)
(***************************************************************************)
ResetsMuff  == BurM90to60 \/ BreakMode # "vtNone"
ResetFaults == IF ResetsMuff THEN {"ShC", "NoMove"} ELSE {"ShC"}

MutResetKeepsOverWay(w) ==
  [w EXCEPT !.st = [w.st EXCEPT !.fault = FALSE, !.defect = FALSE,
                                !.mufta = @ /\ ~ResetsMuff],
            !.prt = [w.prt EXCEPT !.muff = @ /\ ~ResetsMuff,
                                  !.faults = @ \ ResetFaults,
                                  !.defects = @ \ {"Overway"}]]

ProtectionsReset(w) ==
  [w EXCEPT !.st = [w.st EXCEPT !.fault = FALSE, !.defect = FALSE,
                                !.mufta = @ /\ ~ResetsMuff],
            !.prt = [w.prt EXCEPT !.overWay = FALSE,
                                  !.muff = @ /\ ~ResetsMuff,
                                  !.faults = @ \ ResetFaults,
                                  !.defects = @ \ {"Overway"}]]

MutClearNotStored(w) ==
  [w EXCEPT !.st = [w.st EXCEPT !.fault = FALSE, !.defect = FALSE,
                                !.mufta = FALSE],
            !.prt = [w.prt EXCEPT !.overWay = FALSE, !.muff = FALSE,
                                  !.faults = {}, !.defects = {}]]

(***************************************************************************)
(* The full reset: every latched bit goes, the cause of a fault does not.  *)
(***************************************************************************)
ProtectionsClear(w) ==
  [w EXCEPT !.st = [w.st EXCEPT !.fault = FALSE, !.defect = FALSE,
                                !.mufta = FALSE],
            !.prt = [w.prt EXCEPT !.overWay = FALSE, !.muff = FALSE,
                                  !.faults = {}, !.defects = {},
                                  !.isShcReset = TRUE]]

(***************************************************************************)
(* FaultIndication: the bits that follow their cause.  posErr is the error *)
(* flag of the encoder.                                                    *)
(***************************************************************************)
FaultIndication(w, posErr) ==
  IF w.prt.delay > 0 THEN [w EXCEPT !.prt.delay = @ - 1]
  ELSE [w EXCEPT !.prt = [w.prt EXCEPT
          !.defects = (@ \ {"Overway"})
                        \cup (IF w.prt.overWay THEN {"Overway"} ELSE {}),
          !.faults = (@ \ {"PosSens"})
                       \cup (IF posErr /\ PosSensEnable # "pmOff"
                             THEN {"PosSens"} ELSE {})]]

(***************************************************************************)
(* ProtectionsEnable looks at the clutch on every fourth call (muffTurn);  *)
(* the confirmed reset of a short circuit is sent to the EEPROM when it is *)
(* ready.                                                                  *)
(***************************************************************************)
ProtectionsEnable(w, muffTurn, memReady) ==
  IF w.prt.delay > 0 THEN w
  ELSE LET clear == w.prt.isShcReset /\ memReady IN
       [w EXCEPT
          !.prt = [w.prt EXCEPT
                     !.mufEnable = IF muffTurn
                                   THEN /\ w.dmc.mode \in MuffModes
                                        /\ w.dmc.zazor = 0
                                        /\ ~w.dmc.kickEnable
                                   ELSE @,
                     !.isShcReset = @ /\ ~clear],
          !.pwr = [w.pwr EXCEPT !.scFaults = @ /\ ~clear,
                                !.eeReq = @ \/ clear]]

(***************************************************************************)
(* The parameter memory writes GrH->ScFaults byte by byte, from the        *)
(* variable itself.  The bits of LOAD_SHC_MASK share the low byte, so one  *)
(* byte decides what is stored; retries and the other byte follow or       *)
(* precede it, and last tells that the request is done.                    *)
(***************************************************************************)
EepromUpdate(w, last) ==
  [w EXCEPT !.pwr = [w.pwr EXCEPT !.eeSc = w.pwr.scFaults, !.eeReq = ~last]]

(***************************************************************************)
(* The protection library: it raises a fault, and drops one whose cause    *)
(* has gone if the fault is not latched; a defect is only signalled.        *)
(***************************************************************************)
RaiseFault(w, f) == [w EXCEPT !.prt.faults = @ \cup {f}]
DropFault(w, f)  == [w EXCEPT !.prt.faults = @ \ {f}]
SetDefect(w, on) ==
  [w EXCEPT !.prt.defects = (@ \ {"Other"}) \cup (IF on THEN {"Other"} ELSE {})]

(***************************************************************************)
(* EngPhOrdPrt: a shaft that turns against the requested direction is      *)
(* found only while the drive moves, and once the slack is taken up.       *)
(***************************************************************************)
EngPhOrdPrt(w) ==
  IF ~IsStopped(w) /\ w.dmc.zazor = 0 THEN RaiseFault(w, "PhOrd") ELSE w
=============================================================================
