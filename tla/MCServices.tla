----------------------------- MODULE MCServices -----------------------------
(*****************************************************************************)
(* Services of the main controller: the link to the battery with its update, *)
(* the modem, recovery and update of the motor controller, and, at the end   *)
(* of its bus, the loop that drives the gear motor. The machines share       *)
(* neither steps nor state: "which" names the one a behaviour is of, and a   *)
(* name that two of them use is one variable here. ServicesProofs has        *)
(* theorems about it for every value of its constants.                       *)
(*****************************************************************************)
EXTENDS Naturals

CONSTANTS Blocks, PageBlocks, Depth, MaxErrors, Tries,      \* of the battery link
          Retries, MaxEvents,                             \* also of the modem
          Messages,                                       \* of the modem
          AuxTicks, DlTicks, CbTicks, ResetTicks, Chunks, \* of the motor's update
          Top, DriveLimit, StallLimit, SaveAfter, MaxActs \* of the gear motor

VARIABLES which, pc, q, req, status, errors, lost, sub, tries, tm, known, pb5, upd, off, again,
          answer, res, flash, buf, packOn, silent, plugged, ride, events, sm, retried, flags,
          idx, at, cmd, held, count, used, read, info, pend, rails, sim, mode, aux, dl, dlCb,
          orphan, phase, left, reset, boot, backlog, recovery, bike, resetIn, resetCb, ota,
          prompt, m, moved, asked, acts
all == <<which, pc, q, req, status, errors, lost, sub, tries, tm, known, pb5, upd, off, again,
         answer, res, flash, buf, packOn, silent, plugged, ride, events, sm, retried, flags,
         idx, at, cmd, held, count, used, read, info, pend, rails, sim, mode, aux, dl, dlCb,
         orphan, phase, left, reset, boot, backlog, recovery, bike, resetIn, resetCb, ota,
         prompt, m, moved, asked, acts>>

Battery == INSTANCE BatteryLink
Gsm == INSTANCE Modem
Motor == INSTANCE MotorUpdate
Gear == INSTANCE GearMotor

ASSUME MCServicesAssumption == Battery!BatteryAssumption /\ Gsm!ModemAssumption /\
    Motor!MotorUpdateAssumption /\ Gear!MotorAssumption

BatteryInit == which = "battery" /\ Battery!Init /\ sm = 0 /\ retried = 0 /\ flags = 0 /\
           idx = 0 /\ at = 0 /\ cmd = 0 /\ held = 0 /\ count = 0 /\ used = 0 /\ read = 0 /\
           info = 0 /\ pend = 0 /\ rails = 0 /\ sim = 0 /\ mode = 0 /\ aux = 0 /\ dl = 0 /\
           dlCb = 0 /\ orphan = 0 /\ phase = 0 /\ left = 0 /\ reset = 0 /\ boot = 0 /\
           backlog = 0 /\ recovery = 0 /\ bike = 0 /\ resetIn = 0 /\ resetCb = 0 /\ ota = 0 /\
           prompt = 0 /\ m = 0 /\ moved = 0 /\ asked = 0 /\ acts = 0
BatteryStill == UNCHANGED <<which, sm, retried, flags, idx, at, cmd, held, count, used, read,
            info, pend, rails, sim, mode, aux, dl, dlCb, orphan, phase, left, reset, boot,
            backlog, recovery, bike, resetIn, resetCb, ota, prompt, m, moved, asked, acts>>
BatteryNext == which = "battery" /\ Battery!Next /\ BatteryStill
ModemInit == which = "modem" /\ Gsm!Init /\ pc = 0 /\ q = 0 /\ req = 0 /\ status = 0 /\
           errors = 0 /\ lost = 0 /\ tries = 0 /\ tm = 0 /\ known = 0 /\ pb5 = 0 /\ upd = 0 /\
           off = 0 /\ again = 0 /\ answer = 0 /\ res = 0 /\ flash = 0 /\ buf = 0 /\
           packOn = 0 /\ silent = 0 /\ plugged = 0 /\ ride = 0 /\ mode = 0 /\ aux = 0 /\
           dl = 0 /\ dlCb = 0 /\ orphan = 0 /\ phase = 0 /\ left = 0 /\ reset = 0 /\
           boot = 0 /\ backlog = 0 /\ recovery = 0 /\ bike = 0 /\ resetIn = 0 /\ resetCb = 0 /\
           ota = 0 /\ prompt = 0 /\ m = 0 /\ moved = 0 /\ asked = 0 /\ acts = 0
ModemStill == UNCHANGED <<which, pc, q, req, status, errors, lost, tries, tm, known, pb5, upd,
            off, again, answer, res, flash, buf, packOn, silent, plugged, ride, mode, aux, dl,
            dlCb, orphan, phase, left, reset, boot, backlog, recovery, bike, resetIn, resetCb,
            ota, prompt, m, moved, asked, acts>>
ModemNext == which = "modem" /\ Gsm!Next /\ ModemStill
MotorInit == which = "motor" /\ Motor!Init /\ q = 0 /\ req = 0 /\ status = 0 /\ errors = 0 /\
           lost = 0 /\ sub = 0 /\ tries = 0 /\ tm = 0 /\ known = 0 /\ pb5 = 0 /\ upd = 0 /\
           off = 0 /\ again = 0 /\ answer = 0 /\ res = 0 /\ buf = 0 /\ packOn = 0 /\
           silent = 0 /\ plugged = 0 /\ ride = 0 /\ events = 0 /\ sm = 0 /\ retried = 0 /\
           flags = 0 /\ idx = 0 /\ at = 0 /\ cmd = 0 /\ held = 0 /\ count = 0 /\ used = 0 /\
           read = 0 /\ info = 0 /\ pend = 0 /\ rails = 0 /\ sim = 0 /\ m = 0 /\ moved = 0 /\
           asked = 0 /\ acts = 0
MotorStill == UNCHANGED <<which, q, req, status, errors, lost, sub, tries, tm, known, pb5, upd,
            off, again, answer, res, buf, packOn, silent, plugged, ride, events, sm, retried,
            flags, idx, at, cmd, held, count, used, read, info, pend, rails, sim, m, moved,
            asked, acts>>
MotorNext == which = "motor" /\ Motor!Next /\ MotorStill
GearInit == which = "gear" /\ Gear!Init /\ pc = 0 /\ q = 0 /\ req = 0 /\ status = 0 /\
           errors = 0 /\ lost = 0 /\ sub = 0 /\ tries = 0 /\ tm = 0 /\ known = 0 /\ pb5 = 0 /\
           upd = 0 /\ off = 0 /\ again = 0 /\ answer = 0 /\ res = 0 /\ flash = 0 /\ buf = 0 /\
           packOn = 0 /\ silent = 0 /\ plugged = 0 /\ ride = 0 /\ events = 0 /\ sm = 0 /\
           retried = 0 /\ flags = 0 /\ idx = 0 /\ cmd = 0 /\ held = 0 /\ count = 0 /\
           used = 0 /\ read = 0 /\ info = 0 /\ pend = 0 /\ rails = 0 /\ sim = 0 /\ mode = 0 /\
           aux = 0 /\ dl = 0 /\ dlCb = 0 /\ orphan = 0 /\ phase = 0 /\ left = 0 /\ reset = 0 /\
           boot = 0 /\ backlog = 0 /\ recovery = 0 /\ bike = 0 /\ resetIn = 0 /\ resetCb = 0 /\
           ota = 0 /\ prompt = 0
GearStill == UNCHANGED <<which, pc, q, req, status, errors, lost, sub, tries, tm, known, pb5,
            upd, off, again, answer, res, flash, buf, packOn, silent, plugged, ride, events,
            sm, retried, flags, idx, cmd, held, count, used, read, info, pend, rails, sim,
            mode, aux, dl, dlCb, orphan, phase, left, reset, boot, backlog, recovery, bike,
            resetIn, resetCb, ota, prompt>>
GearNext == which = "gear" /\ Gear!Next /\ GearStill

AnyInit == BatteryInit \/ ModemInit \/ MotorInit \/ GearInit
AnyNext == BatteryNext \/ ModemNext \/ MotorNext \/ GearNext

Fair1 == \/ which = "battery" /\ Battery!Pass /\ BatteryStill
         \/ which = "modem" /\ Gsm!Step /\ ModemStill
         \/ which = "motor" /\ Motor!Pass /\ MotorStill
Fair2 == \/ which = "battery" /\ Battery!Expire(0) /\ BatteryStill
         \/ which = "modem" /\ Gsm!InfoStep /\ ModemStill
         \/ which = "motor" /\ Motor!Tick /\ MotorStill
Fair3 == \/ which = "battery" /\ Battery!Expire(4) /\ BatteryStill
Fair4 == \/ which = "battery" /\ Battery!Served /\ BatteryStill

AnySpec == AnyInit /\ [][AnyNext]_all /\ WF_all(Fair1) /\ WF_all(Fair2) /\ WF_all(Fair3) /\ SF_all(Fair4)

TypeOK == /\ which = "battery" => Battery!TypeOK
          /\ which = "modem" => Gsm!TypeOK
          /\ which = "motor" => Motor!TypeOK
          /\ which = "gear" => Gear!TypeOK

(* A pack is told to install its update only when it holds the image       *)
(* (battery.c:1437-1500).                                                  *)
ResultIsTrue == which = "battery" => Battery!ResultIsTrue

(* A modem at rest is off, a motor at rest runs its application, and a     *)
(* download of the motor has its timer (modem.c:1595, motor.c:472-660).    *)
RestIsSafe == /\ which = "modem" => Gsm!RestIsSafe
              /\ which = "motor" => Motor!RestIsSafe

(* A motor that sent a frame after its reset is not reflashed, and a pass  *)
(* of the shifter's loop does not lose sight of a running gear motor       *)
(* (motor.c:495-526, shifterware main.c:287-760).                          *)
MotorsMinded == [][/\ which = "motor" => Motor!ReflashedUnheard
                   /\ which = "gear" => Gear!KeepsWatch]_all

(* Each service comes to rest again whatever its target does, and a pack   *)
(* that falls silent is reported.                                          *)
ComesToRest == []<>(/\ which = "battery" => Battery!Settled
                    /\ which = "modem" => Gsm!AtRest
                    /\ which = "motor" => Motor!AtRest)
=============================================================================
