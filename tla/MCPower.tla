------------------------------- MODULE MCPower ------------------------------
(*****************************************************************************)
(* The battery pack and the power bank: the state machines of both, the      *)
(* gauge and the bus receiver of the pack, the service port of the bank. The *)
(* machines share neither steps nor state: "which" names the one a behaviour *)
(* is of, and a name that two of them use is one variable here. PowerProofs  *)
(* has theorems about it for every value of its constants.                   *)
(*****************************************************************************)
EXTENDS Naturals

CONSTANTS ProtBits, MaxEvents,      \* of the pack
          CellFaults, BankEvents,   \* of the power bank
          GaugeFields, LowRuns, FullReads, WarmTemps, Rests, MaxSum, GaugeCuts,  \* of the gauge
          NBlocks, TextCommands, PortUnits, PortFaults,  \* of the service port
          LoaderSize, MaxCount, BusUnits, BusFaults      \* of the bus

VARIABLES which, state, saved, fet, prot, changed, fault, allow, enable, vm, cool, monitor,
          pre, fuse, short, temp, mosHot, charger, cur, broken, events, empty, class, held,
          recovered, pf, record, update, full, load, ov2pin, pc, ee, magic, cfg, est, sum, low,
          beyond, lows, cuts, port, left, clean, done, units, faults, rx, ota, count, area,
          loader, marker, armed, answered, sent, ran
all == <<which, state, saved, fet, prot, changed, fault, allow, enable, vm, cool, monitor, pre,
         fuse, short, temp, mosHot, charger, cur, broken, events, empty, class, held,
         recovered, pf, record, update, full, load, ov2pin, pc, ee, magic, cfg, est, sum, low,
         beyond, lows, cuts, port, left, clean, done, units, faults, rx, ota, count, area,
         loader, marker, armed, answered, sent, ran>>

Pack == INSTANCE PackStates
Bank == INSTANCE PowerBank WITH MaxEvents <- BankEvents
G == INSTANCE PackGauge WITH Full <- 20, MaxCuts <- GaugeCuts, Fields <- GaugeFields,
        Runs <- LowRuns, Reads <- FullReads, Warm <- WarmTemps
S == INSTANCE BankPort WITH MaxUnits <- PortUnits, MaxFaults <- PortFaults,
        Commands <- TextCommands
U == INSTANCE PackBus WITH MaxUnits <- BusUnits, MaxFaults <- BusFaults

ASSUME MCPowerAssumption == Pack!PackAssumption /\ Bank!BankAssumption /\ G!GaugeAssumption /\
    S!PortAssumption /\ U!BusAssumption

PackInit == which = "pack" /\ Pack!Init /\ empty = 0 /\ class = 0 /\ held = 0 /\
           recovered = 0 /\ pf = 0 /\ record = 0 /\ update = 0 /\ full = 0 /\ load = 0 /\
           ov2pin = 0 /\ pc = 0 /\ ee = 0 /\ magic = 0 /\ cfg = 0 /\ est = 0 /\ sum = 0 /\
           low = 0 /\ beyond = 0 /\ lows = 0 /\ cuts = 0 /\ port = 0 /\ left = 0 /\
           clean = 0 /\ done = 0 /\ units = 0 /\ faults = 0 /\ rx = 0 /\ ota = 0 /\
           count = 0 /\ area = 0 /\ loader = 0 /\ marker = 0 /\ armed = 0 /\ answered = 0 /\
           sent = 0 /\ ran = 0
PackStill == UNCHANGED <<which, empty, class, held, recovered, pf, record, update, full, load,
            ov2pin, pc, ee, magic, cfg, est, sum, low, beyond, lows, cuts, port, left, clean,
            done, units, faults, rx, ota, count, area, loader, marker, armed, answered, sent,
            ran>>
PackNext == which = "pack" /\ Pack!Next /\ PackStill
BankInit == which = "bank" /\ Bank!Init /\ prot = 0 /\ changed = 0 /\ allow = 0 /\
           enable = 0 /\ vm = 0 /\ cool = 0 /\ monitor = 0 /\ pre = 0 /\ fuse = 0 /\
           short = 0 /\ pc = 0 /\ ee = 0 /\ magic = 0 /\ cfg = 0 /\ est = 0 /\ sum = 0 /\
           low = 0 /\ beyond = 0 /\ lows = 0 /\ cuts = 0 /\ port = 0 /\ left = 0 /\
           clean = 0 /\ done = 0 /\ units = 0 /\ faults = 0 /\ rx = 0 /\ ota = 0 /\
           count = 0 /\ area = 0 /\ loader = 0 /\ marker = 0 /\ armed = 0 /\ answered = 0 /\
           sent = 0 /\ ran = 0
BankStill == UNCHANGED <<which, prot, changed, allow, enable, vm, cool, monitor, pre, fuse,
            short, pc, ee, magic, cfg, est, sum, low, beyond, lows, cuts, port, left, clean,
            done, units, faults, rx, ota, count, area, loader, marker, armed, answered, sent,
            ran>>
BankNext == which = "bank" /\ Bank!Next /\ BankStill
GaugeInit == which = "gauge" /\ G!Init /\ state = 0 /\ saved = 0 /\ fet = 0 /\ prot = 0 /\
           changed = 0 /\ fault = 0 /\ allow = 0 /\ enable = 0 /\ vm = 0 /\ cool = 0 /\
           monitor = 0 /\ pre = 0 /\ fuse = 0 /\ short = 0 /\ temp = 0 /\ mosHot = 0 /\
           charger = 0 /\ cur = 0 /\ broken = 0 /\ events = 0 /\ empty = 0 /\ class = 0 /\
           held = 0 /\ recovered = 0 /\ pf = 0 /\ record = 0 /\ update = 0 /\ full = 0 /\
           load = 0 /\ ov2pin = 0 /\ port = 0 /\ left = 0 /\ clean = 0 /\ done = 0 /\
           units = 0 /\ faults = 0 /\ rx = 0 /\ ota = 0 /\ count = 0 /\ area = 0 /\
           loader = 0 /\ marker = 0 /\ armed = 0 /\ answered = 0 /\ sent = 0 /\ ran = 0
GaugeStill == UNCHANGED <<which, state, saved, fet, prot, changed, fault, allow, enable, vm,
            cool, monitor, pre, fuse, short, temp, mosHot, charger, cur, broken, events, empty,
            class, held, recovered, pf, record, update, full, load, ov2pin, port, left, clean,
            done, units, faults, rx, ota, count, area, loader, marker, armed, answered, sent,
            ran>>
GaugeNext == which = "gauge" /\ G!Next /\ GaugeStill
PortInit == which = "port" /\ S!Init /\ state = 0 /\ saved = 0 /\ fet = 0 /\ prot = 0 /\
           changed = 0 /\ fault = 0 /\ allow = 0 /\ enable = 0 /\ vm = 0 /\ cool = 0 /\
           monitor = 0 /\ pre = 0 /\ fuse = 0 /\ short = 0 /\ temp = 0 /\ mosHot = 0 /\
           charger = 0 /\ cur = 0 /\ broken = 0 /\ events = 0 /\ empty = 0 /\ class = 0 /\
           held = 0 /\ recovered = 0 /\ pf = 0 /\ record = 0 /\ update = 0 /\ full = 0 /\
           load = 0 /\ ov2pin = 0 /\ pc = 0 /\ ee = 0 /\ magic = 0 /\ cfg = 0 /\ est = 0 /\
           sum = 0 /\ low = 0 /\ beyond = 0 /\ lows = 0 /\ cuts = 0 /\ rx = 0 /\ ota = 0 /\
           count = 0 /\ area = 0 /\ loader = 0 /\ marker = 0 /\ armed = 0 /\ answered = 0 /\
           sent = 0 /\ ran = 0
PortStill == UNCHANGED <<which, state, saved, fet, prot, changed, fault, allow, enable, vm,
            cool, monitor, pre, fuse, short, temp, mosHot, charger, cur, broken, events, empty,
            class, held, recovered, pf, record, update, full, load, ov2pin, pc, ee, magic, cfg,
            est, sum, low, beyond, lows, cuts, rx, ota, count, area, loader, marker, armed,
            answered, sent, ran>>
PortNext == which = "port" /\ S!Next /\ PortStill
BusInit == which = "bus" /\ U!Init /\ state = 0 /\ saved = 0 /\ fet = 0 /\ prot = 0 /\
           changed = 0 /\ fault = 0 /\ allow = 0 /\ enable = 0 /\ vm = 0 /\ cool = 0 /\
           monitor = 0 /\ pre = 0 /\ fuse = 0 /\ short = 0 /\ temp = 0 /\ mosHot = 0 /\
           charger = 0 /\ cur = 0 /\ broken = 0 /\ events = 0 /\ empty = 0 /\ class = 0 /\
           held = 0 /\ recovered = 0 /\ pf = 0 /\ record = 0 /\ update = 0 /\ full = 0 /\
           load = 0 /\ ov2pin = 0 /\ pc = 0 /\ ee = 0 /\ magic = 0 /\ cfg = 0 /\ est = 0 /\
           sum = 0 /\ low = 0 /\ beyond = 0 /\ lows = 0 /\ cuts = 0 /\ port = 0 /\ clean = 0
BusStill == UNCHANGED <<which, state, saved, fet, prot, changed, fault, allow, enable, vm,
            cool, monitor, pre, fuse, short, temp, mosHot, charger, cur, broken, events, empty,
            class, held, recovered, pf, record, update, full, load, ov2pin, pc, ee, magic, cfg,
            est, sum, low, beyond, lows, cuts, port, clean>>
BusNext == which = "bus" /\ U!Next /\ BusStill

AnyInit == PackInit \/ BankInit \/ GaugeInit \/ PortInit \/ BusInit
AnyNext == PackNext \/ BankNext \/ GaugeNext \/ PortNext \/ BusNext

Fair1 == \/ which = "pack" /\ (Pack!Shorted \/ Pack!Dispatch) /\ PackStill
         \/ which = "bank" /\ Bank!FastTick /\ BankStill
Fair2 == \/ which = "pack" /\ (Pack!Move \/ (Pack!Leaks # {} /\ Pack!Check)) /\ PackStill
         \/ which = "bank" /\ Bank!SlowTick /\ BankStill
Fair3 == \/ which = "bank" /\ Bank!Clear /\ BankStill
Fair4 == \/ which = "bank" /\ Bank!Start /\ BankStill
Fair5 == \/ which = "bank" /\ Bank!UpdateStarves /\ BankStill

AnySpec == AnyInit /\ [][AnyNext]_all /\ WF_all(Fair1) /\ WF_all(Fair2) /\ WF_all(Fair3) /\ WF_all(Fair4) /\ WF_all(Fair5)

TypeOK == /\ which = "pack" => Pack!TypeOK
          /\ which = "bank" => Bank!TypeOK
          /\ which = "gauge" => G!TypeOK
          /\ which = "port" => S!TypeOK
          /\ which = "bus" => U!TypeOK

(* Whatever moved a pack or the power bank, a transistor is closed only in *)
(* a state that lets its current flow (state_handlers.c of both).          *)
FetsFollowState == /\ which = "pack" => Pack!FetsFollowState
                   /\ which = "bank" => Bank!FetsFollowState

(* A failure is left by a reset, a power-down or the console's release, by *)
(* nothing that is measured.                                               *)
FailureHolds == [][(which = "pack" => Pack!FailureKept) /\ (which = "bank" => Bank!FailureKept)]_all

(* The stored and the exchanged data are sound: the magic number stands    *)
(* for checked fields wherever power went away, and a pack whose lowest    *)
(* cell stays low shows that it is nearly empty; a frame on the port of    *)
(* the power bank is executed exactly once, its update area is filled by   *)
(* one download at a time and its boot loader is whole; the pack runs      *)
(* nothing that was not sent.                                              *)
DataIsSound == /\ which = "gauge" => G!Configured /\ G!LowCellsShown
               /\ which = "port" => S!ExecutedOnce /\ S!OneDownload /\ S!LoaderIsWhole
               /\ which = "bus" => U!OnlySent

(* A protection of the pack or of the bank does not outlast its cause.     *)
Recovers == []<>((which = "pack" => ~Pack!Held) /\ (which = "bank" => Bank!AtRest))
=============================================================================
