---------------------------- MODULE DriveInvariant ----------------------------
(***************************************************************************)
(* The inductive invariant of BurDrive, and what its tasks may do to the   *)
(* part of the state it speaks of.                                         *)
(***************************************************************************)
EXTENDS BurDrive

Halting(w) ==   \* stopped, but the gates may still be open
  \/ w.dmc.mode = "wmDynBrake"
  \/ w.st.stop /\ w.dmc.sifu # "none"

Consistent(w) ==
  /\ w.st.stop = ~(w.st.closing \/ w.st.opening)
  /\ ~(w.st.closing /\ w.st.opening)
  /\ w.st.stop = (w.dmc.mode \notin MovingModes)
  /\ w.st.closing => w.dmc.dir = -1
  /\ w.st.opening => w.dmc.dir = 1
  /\ w.dmc.mode # "wmTestThyr" /\ ~w.pwr.testMode

MovesFreely(w) ==
  ~w.st.stop => /\ w.mcu.startDelay = 0
                /\ w.dmc.dynEnable
                /\ w.dmc.reqDir # "none"
                /\ w.dmc.sifu \in {"none", w.dmc.reqDir}

(***************************************************************************)
(* The gates are closed before the braking current flows, and a start is   *)
(* held off while they may be open.                                        *)
(***************************************************************************)
BrakesSafely(w) ==
  /\ w.dmc.mode # "wmDynBrake" => w.dmc.dyn = 0
  /\ w.dmc.mode = "wmDynBrake" /\ w.dmc.dyn > 0
       => w.dmc.sifu \in {"none", "brake"}
  /\ Halting(w) => w.mcu.startDelay >= StartDelayTime - 1

Sound(w) == w \in World /\ Consistent(w) /\ MovesFreely(w) /\ BrakesSafely(w)

(***************************************************************************)
(* The command task runs once at most before the motor task closes the     *)
(* gates, and rest counts what StartDelay no longer does.                  *)
(***************************************************************************)
Paced ==
  /\ ran \in BOOLEAN /\ rest \in 0 .. StartDelayTime
  /\ Halting(Now) /\ mcu.startDelay = StartDelayTime - 1 => ~ran
  /\ st.stop => rest + mcu.startDelay >= StartDelayTime - 1
  /\ ~st.stop => rest = 0

(***************************************************************************)
(* The invariant the theorems of DriveProofs rest on: status word,         *)
(* modes, gates and the lock on commands fit together.                     *)
(***************************************************************************)
DriveInv == Sound(Now) /\ Paced

-----------------------------------------------------------------------------
(* What stays the same of w in v. *)
SameGates(w, v) ==
  /\ v.dmc.dir = w.dmc.dir /\ v.dmc.reqDir = w.dmc.reqDir
  /\ v.dmc.sifu = w.dmc.sifu /\ v.dmc.dyn = w.dmc.dyn
  /\ v.dmc.dynEnable = w.dmc.dynEnable
  /\ v.pwr.testMode = w.pwr.testMode

SameMotion(w, v) ==
  /\ v.st.stop = w.st.stop
  /\ v.st.closing = w.st.closing /\ v.st.opening = w.st.opening
  /\ v.dmc.mode = w.dmc.mode

Kept(w, v) == /\ SameMotion(w, v) /\ SameGates(w, v)
              /\ v.mcu.startDelay = w.mcu.startDelay

(* A stop; the gates are left as they are. *)
Halted(w, v) ==
  /\ SameGates(w, v)
  /\ v.st.stop /\ ~v.st.closing /\ ~v.st.opening
  /\ v.dmc.mode \in {"wmStop", "wmDynBrake"}
  /\ v.mcu.startDelay = StartDelayTime

(* What the protections do to a moving drive. *)
Coasts(w, v) == Halted(w, v) /\ v.dmc.mode = "wmStop" /\ ~w.st.stop

(***************************************************************************)
(* A call of the motor task: it starts and stops no movement, carries on   *)
(* with one in its direction, and leads braking to its end.                *)
(***************************************************************************)
CarriesOn(c, d) ==
  /\ d.dir = c.dir /\ d.reqDir = c.reqDir
  /\ d.dyn = c.dyn /\ d.dynEnable = c.dynEnable
  /\ d.mode \in MovingModes
  /\ d.sifu \in {c.sifu, c.reqDir}

MovesOn(w, v) ==
  /\ v.st = w.st /\ v.mcu = w.mcu /\ v.pwr = w.pwr
  /\ CarriesOn(w.dmc, v.dmc)

StandsStill(w, v) ==
  /\ v.st = w.st /\ v.mcu = w.mcu /\ v.pwr = w.pwr
  /\ v.dmc.mode = "wmStop" /\ v.dmc.sifu = "none"
  /\ v.dmc.dyn = w.dmc.dyn

Brakes(w, v) ==
  /\ v.st = w.st /\ v.pwr = w.pwr
  /\ \/ /\ v.dmc.mode = "wmDynBrake" /\ v.dmc.dyn = w.dmc.dyn + 1
        /\ v.dmc.sifu = IF v.dmc.dyn < NoCurrPause THEN "none" ELSE "brake"
        /\ v.mcu.startDelay = BlockDelay
     \/ /\ v.dmc.mode = "wmStop" /\ v.dmc.dyn = 0
        /\ v.dmc.sifu = w.dmc.sifu
        /\ v.mcu.startDelay = StartDelayTime

(* The motor task as a whole. *)
Motor(w, v) ==
  /\ v.st.stop = w.st.stop
  /\ v.st.closing = w.st.closing /\ v.st.opening = w.st.opening
  /\ v.pwr.testMode = w.pwr.testMode
  /\ \/ /\ w.dmc.mode \in MovingModes /\ CarriesOn(w.dmc, v.dmc)
        /\ v.mcu.startDelay = w.mcu.startDelay
     \/ /\ w.dmc.mode = "wmStop" /\ v.dmc.mode = "wmStop"
        /\ v.dmc.sifu = "none" /\ v.dmc.dyn = w.dmc.dyn
        /\ v.mcu.startDelay = w.mcu.startDelay
     \/ /\ w.dmc.mode = "wmDynBrake" /\ v.dmc.mode = "wmDynBrake"
        /\ v.dmc.dyn = w.dmc.dyn + 1
        /\ v.dmc.sifu = IF v.dmc.dyn < NoCurrPause THEN "none" ELSE "brake"
        /\ v.mcu.startDelay = BlockDelay
     \/ /\ w.dmc.mode = "wmDynBrake" /\ v.dmc.mode = "wmStop"
        /\ v.dmc.dyn = 0 /\ v.dmc.sifu = w.dmc.sifu
        /\ v.mcu.startDelay = StartDelayTime

(***************************************************************************)
(* A call of the command task: it counts the delay down, or it lets the    *)
(* drive be, stops it, or starts it from rest.                             *)
(***************************************************************************)
Waited(w, v) == /\ SameMotion(w, v) /\ SameGates(w, v)
                /\ w.mcu.startDelay > 0
                /\ v.mcu.startDelay = w.mcu.startDelay - 1

Started(w, v) ==
  /\ w.st.stop /\ ~v.st.stop
  /\ \/ v.st.closing /\ ~v.st.opening /\ v.dmc.dir = -1
     \/ v.st.opening /\ ~v.st.closing /\ v.dmc.dir = 1
  /\ v.dmc.mode \in {"wmTestPh", "wmSpeedTest"}
  /\ v.dmc.reqDir \in {"up", "down"} /\ v.dmc.sifu = w.dmc.sifu
  /\ v.dmc.dyn = 0 /\ v.dmc.dynEnable
  /\ v.mcu.startDelay = w.mcu.startDelay
  /\ v.pwr.testMode = w.pwr.testMode

(* With no delay running. *)
Obeyed(w, v) == Kept(w, v) \/ Halted(w, v) \/ Started(w, v)

Commanded(w, v) == Waited(w, v) \/ (w.mcu.startDelay = 0 /\ Obeyed(w, v))

(* The command task gathers the commands: it touches only the requests. *)
SetsRequests(w, v) ==
  /\ v \in World /\ Kept(w, v)
  /\ v.st = w.st /\ v.dmc = w.dmc /\ v.prt = w.prt /\ v.pwr = w.pwr

(***************************************************************************)
(* Ready for a command: it may be stopped, for it moves, or it stands      *)
(* still already and does not brake.                                       *)
(***************************************************************************)
Ready(w) == /\ w \in World /\ Consistent(w)
            /\ w.dmc.dynEnable \/ w.dmc.mode = "wmStop"

(* Any other task: it lets the drive be, or stops a moving one. *)
Idle(w, v) == Kept(w, v) \/ (Halted(w, v) /\ ~w.st.stop)

(***************************************************************************)
(* One call of the interrupt: the protections lead from Now to p, the task *)
(* from p to Now'.                                                         *)
(***************************************************************************)
Protected(p) ==
  /\ p \in World
  /\ Kept(Now, p) \/ Coasts(Now, p)
  /\ /\ PosSensEnable = "pmSignStop" /\ ~st.stop
     /\ prt.muff \/ ActiveFaults(Now) # {}
     => Coasts(Now, p)

TaskStep(p) ==
  \/ Motor(p, Now') /\ ran' = TRUE /\ rest' = rest
  \/ /\ Commanded(p, Now') /\ ran /\ ran' = FALSE
     /\ rest' = IF ~st.stop \/ ~st'.stop THEN 0
                ELSE IF rest < StartDelayTime THEN rest + 1 ELSE rest
  \/ Idle(p, Now') /\ ran' = ran /\ rest' = rest

Interrupt(p) == Protected(p) /\ Now' \in World /\ TaskStep(p)
=============================================================================
