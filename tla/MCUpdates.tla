------------------------------ MODULE MCUpdates -----------------------------
(*****************************************************************************)
(* The over-the-air update: the orchestrator of the main controller, the     *)
(* record that keeps its order across a loss of power, and the boot loaders  *)
(* of the battery pack, the power bank, the shifter and the Bluetooth        *)
(* coprocessor. The machines share neither steps nor state: "which" names    *)
(* the one a behaviour is of, and a name that two of them use is one         *)
(* variable here. UpdateProofs has theorems about it for every value of its  *)
(* constants.                                                                *)
(*****************************************************************************)
EXTENDS DualRecord

CONSTANTS Packs, Blocks, Asks, Tries, MaxUpsets,  \* of the orchestrator
          Images, NPages, MaxCuts, MaxOrders,     \* of the boot loaders
          PackOrders,                             \* of the pack's
          Alien,                                  \* of the shifter's
          NSlots, MaxSends                        \* of the coprocessor's

VARIABLES which, pack, st, tm, ans, wire, bins, desc, done, cur, blk, flash, order, saved, fi,
          tries, asks, armed, bike, restart, onward, upsets, app, shadow, flag, page, loop,
          waiting, target, held, running, told, cuts, orders, finished, busy, slot1, slot2,
          mirrored, valid1, valid2, ptr, torn, ext, int, slot, scanned, sends
all == <<which, pack, st, tm, ans, wire, bins, desc, done, cur, blk, flash, order, saved, fi,
         tries, asks, armed, bike, restart, onward, upsets, a, b, value, last, before, pc,
         scarred, app, shadow, flag, page, loop, waiting, target, held, running, told, cuts,
         orders, finished, busy, slot1, slot2, mirrored, valid1, valid2, ptr, torn, ext, int,
         slot, scanned, sends>>

Order == INSTANCE OtaUpdate
Pack == INSTANCE PackBoot WITH MaxOrders <- PackOrders
Bank == INSTANCE BankBoot
Shifter == INSTANCE ShifterBoot
Ble == INSTANCE BleBoot

ASSUME MCUpdatesAssumption == Order!OtaAssumption /\ Pack!PackBootAssumption /\
    Bank!BankBootAssumption /\ Shifter!ShifterBootAssumption /\ Ble!BleBootAssumption

OrderInit == which = "order" /\ Order!Init /\ a = 0 /\ b = 0 /\ value = 0 /\ last = 0 /\
           before = 0 /\ pc = "none" /\ scarred = 0 /\ app = 0 /\ shadow = 0 /\ flag = 0 /\
           page = 0 /\ loop = 0 /\ waiting = 0 /\ target = 0 /\ held = 0 /\ running = 0 /\
           told = 0 /\ cuts = 0 /\ orders = 0 /\ finished = 0 /\ busy = 0 /\ slot1 = 0 /\
           slot2 = 0 /\ mirrored = 0 /\ valid1 = 0 /\ valid2 = 0 /\ ptr = 0 /\ torn = 0 /\
           ext = 0 /\ int = 0 /\ slot = 0 /\ scanned = 0 /\ sends = 0
OrderStill == UNCHANGED <<which, a, b, value, last, before, pc, scarred, app, shadow, flag,
            page, loop, waiting, target, held, running, told, cuts, orders, finished, busy,
            slot1, slot2, mirrored, valid1, valid2, ptr, torn, ext, int, slot, scanned, sends>>
OrderNext == which = "order" /\ Order!Next /\ OrderStill
RecordInit == which = "record" /\ Init /\ pack = 0 /\ st = 0 /\ tm = 0 /\ ans = 0 /\
           wire = 0 /\ bins = 0 /\ desc = 0 /\ done = 0 /\ cur = 0 /\ blk = 0 /\ flash = 0 /\
           order = 0 /\ saved = 0 /\ fi = 0 /\ tries = 0 /\ asks = 0 /\ armed = 0 /\
           bike = 0 /\ restart = 0 /\ onward = 0 /\ upsets = 0 /\ app = 0 /\ shadow = 0 /\
           flag = 0 /\ page = 0 /\ loop = 0 /\ waiting = 0 /\ target = 0 /\ held = 0 /\
           running = 0 /\ told = 0 /\ cuts = 0 /\ orders = 0 /\ finished = 0 /\ busy = 0 /\
           slot1 = 0 /\ slot2 = 0 /\ mirrored = 0 /\ valid1 = 0 /\ valid2 = 0 /\ ptr = 0 /\
           torn = 0 /\ ext = 0 /\ int = 0 /\ slot = 0 /\ scanned = 0 /\ sends = 0
RecordStill == UNCHANGED <<which, pack, st, tm, ans, wire, bins, desc, done, cur, blk, flash,
            order, saved, fi, tries, asks, armed, bike, restart, onward, upsets, app, shadow,
            flag, page, loop, waiting, target, held, running, told, cuts, orders, finished,
            busy, slot1, slot2, mirrored, valid1, valid2, ptr, torn, ext, int, slot, scanned,
            sends>>
RecordNext == which = "record" /\ Next /\ RecordStill
PackInit == which = "pack" /\ Pack!Init /\ pack = 0 /\ st = 0 /\ tm = 0 /\ ans = 0 /\
           wire = 0 /\ bins = 0 /\ desc = 0 /\ done = 0 /\ cur = 0 /\ blk = 0 /\ flash = 0 /\
           order = 0 /\ saved = 0 /\ fi = 0 /\ tries = 0 /\ asks = 0 /\ armed = 0 /\
           bike = 0 /\ restart = 0 /\ onward = 0 /\ upsets = 0 /\ a = 0 /\ b = 0 /\
           value = 0 /\ last = 0 /\ before = 0 /\ scarred = 0 /\ finished = 0 /\ busy = 0 /\
           slot1 = 0 /\ slot2 = 0 /\ mirrored = 0 /\ valid1 = 0 /\ valid2 = 0 /\ ptr = 0 /\
           torn = 0 /\ ext = 0 /\ int = 0 /\ slot = 0 /\ scanned = 0 /\ sends = 0
PackStill == UNCHANGED <<which, pack, st, tm, ans, wire, bins, desc, done, cur, blk, flash,
            order, saved, fi, tries, asks, armed, bike, restart, onward, upsets, a, b, value,
            last, before, scarred, finished, busy, slot1, slot2, mirrored, valid1, valid2, ptr,
            torn, ext, int, slot, scanned, sends>>
PackNext == which = "pack" /\ Pack!Next /\ PackStill
BankInit == which = "bank" /\ Bank!Init /\ pack = 0 /\ st = 0 /\ tm = 0 /\ ans = 0 /\
           wire = 0 /\ bins = 0 /\ desc = 0 /\ done = 0 /\ cur = 0 /\ blk = 0 /\ flash = 0 /\
           order = 0 /\ saved = 0 /\ fi = 0 /\ tries = 0 /\ asks = 0 /\ armed = 0 /\
           bike = 0 /\ restart = 0 /\ onward = 0 /\ upsets = 0 /\ a = 0 /\ b = 0 /\
           value = 0 /\ last = 0 /\ before = 0 /\ scarred = 0 /\ flag = 0 /\ loop = 0 /\
           waiting = 0 /\ held = 0 /\ slot1 = 0 /\ slot2 = 0 /\ mirrored = 0 /\ valid1 = 0 /\
           valid2 = 0 /\ ptr = 0 /\ torn = 0 /\ ext = 0 /\ int = 0 /\ slot = 0 /\
           scanned = 0 /\ sends = 0
BankStill == UNCHANGED <<which, pack, st, tm, ans, wire, bins, desc, done, cur, blk, flash,
            order, saved, fi, tries, asks, armed, bike, restart, onward, upsets, a, b, value,
            last, before, scarred, flag, loop, waiting, held, slot1, slot2, mirrored, valid1,
            valid2, ptr, torn, ext, int, slot, scanned, sends>>
BankNext == which = "bank" /\ Bank!Next /\ BankStill
ShifterInit == which = "shifter" /\ Shifter!Init /\ pack = 0 /\ st = 0 /\ tm = 0 /\ ans = 0 /\
           wire = 0 /\ bins = 0 /\ desc = 0 /\ done = 0 /\ cur = 0 /\ blk = 0 /\ flash = 0 /\
           order = 0 /\ saved = 0 /\ fi = 0 /\ tries = 0 /\ asks = 0 /\ armed = 0 /\
           bike = 0 /\ restart = 0 /\ onward = 0 /\ upsets = 0 /\ a = 0 /\ b = 0 /\
           value = 0 /\ last = 0 /\ before = 0 /\ scarred = 0 /\ app = 0 /\ shadow = 0 /\
           flag = 0 /\ loop = 0 /\ waiting = 0 /\ target = 0 /\ held = 0 /\ running = 0 /\
           told = 0 /\ finished = 0 /\ busy = 0 /\ ext = 0 /\ int = 0 /\ slot = 0 /\
           scanned = 0 /\ sends = 0
ShifterStill == UNCHANGED <<which, pack, st, tm, ans, wire, bins, desc, done, cur, blk, flash,
            order, saved, fi, tries, asks, armed, bike, restart, onward, upsets, a, b, value,
            last, before, scarred, app, shadow, flag, loop, waiting, target, held, running,
            told, finished, busy, ext, int, slot, scanned, sends>>
ShifterNext == which = "shifter" /\ Shifter!Next /\ ShifterStill
BleInit == which = "ble" /\ Ble!Init /\ pack = 0 /\ st = 0 /\ tm = 0 /\ ans = 0 /\ wire = 0 /\
           bins = 0 /\ desc = 0 /\ done = 0 /\ cur = 0 /\ blk = 0 /\ flash = 0 /\ order = 0 /\
           saved = 0 /\ fi = 0 /\ tries = 0 /\ asks = 0 /\ armed = 0 /\ bike = 0 /\
           restart = 0 /\ onward = 0 /\ upsets = 0 /\ a = 0 /\ b = 0 /\ value = 0 /\
           last = 0 /\ before = 0 /\ scarred = 0 /\ app = 0 /\ shadow = 0 /\ flag = 0 /\
           page = 0 /\ loop = 0 /\ waiting = 0 /\ target = 0 /\ held = 0 /\ told = 0 /\
           orders = 0 /\ finished = 0 /\ busy = 0 /\ slot1 = 0 /\ slot2 = 0 /\ mirrored = 0 /\
           valid1 = 0 /\ valid2 = 0 /\ ptr = 0 /\ torn = 0
BleStill == UNCHANGED <<which, pack, st, tm, ans, wire, bins, desc, done, cur, blk, flash,
            order, saved, fi, tries, asks, armed, bike, restart, onward, upsets, a, b, value,
            last, before, scarred, app, shadow, flag, page, loop, waiting, target, held, told,
            orders, finished, busy, slot1, slot2, mirrored, valid1, valid2, ptr, torn>>
BleNext == which = "ble" /\ Ble!Next /\ BleStill

AnyInit == OrderInit \/ RecordInit \/ PackInit \/ BankInit \/ ShifterInit \/ BleInit
AnyNext == OrderNext \/ RecordNext \/ PackNext \/ BankNext \/ ShifterNext \/ BleNext

Fair1 == \/ which = "order" /\ Order!Step /\ OrderStill
         \/ which = "pack" /\ Pack!Step /\ PackStill
         \/ which = "bank" /\ Bank!Step /\ BankStill
         \/ which = "shifter" /\ Shifter!Step /\ ShifterStill
Fair2 == \/ which = "order" /\ Order!NvicReset /\ OrderStill
         \/ which = "pack" /\ Pack!Watchdog /\ PackStill
         \/ which = "bank" /\ Bank!Watchdog /\ BankStill
Fair3 == \/ which = "order" /\ Order!Restart /\ OrderStill
Fair4 == \/ which = "order" /\ Order!Status /\ OrderStill
Fair5 == \/ which = "order" /\ Order!Expire /\ OrderStill

AnySpec == AnyInit /\ [][AnyNext]_all /\ WF_all(Fair1) /\ WF_all(Fair2) /\ WF_all(Fair3) /\ WF_all(Fair4) /\ SF_all(Fair5)

TypesOK == /\ which = "order" => Order!TypeOK
           /\ which = "record" => TypeOK
           /\ which = "pack" => Pack!TypeOK
           /\ which = "bank" => Bank!TypeOK
           /\ which = "shifter" => Shifter!TypeOK
           /\ which = "ble" => Ble!TypeOK

(* The record of the order is one of the two-copy records: Survives, from  *)
(* DualRecord, is checked of it here by its own name.                      *)

(* A target is pushed a file whose every block is the answer to the        *)
(* request for that block (update.c:274-379).                              *)
PushedIsSound == which = "order" => Order!PushedIsSound

(* An update reported as failed is not resumed by the restart that follows *)
(* (states.c:3044-3115, update.c:596-608).                                 *)
FailedNotResumed == [][which = "order" => Order!FailureForgotten]_all

(* The loaders of the pack and of the power bank keep one contract: only a *)
(* whole image runs, and the last one goes only under an order (main.c and *)
(* image.c of bmsboot, boot.c and image.c of powerbankboot).               *)
Banks == INSTANCE BootContract WITH
           running <- IF which \in {"pack", "bank"} THEN running ELSE "none",
           kept <- IF which = "pack" THEN Pack!Kept ELSE IF which = "bank" THEN Bank!Kept ELSE {},
           told <- which \in {"pack", "bank"} /\ told
Implements == Banks!Spec

(* The loaders of the shifter and of the coprocessor start a whole image   *)
(* although they do not sum it (shifterboot main.c:171-236, bleboot        *)
(* oad.c).                                                                 *)
RightImageRuns == /\ which = "shifter" => Shifter!RightImageRuns
                  /\ which = "ble" => Ble!OnlyWholeImages

(* Nothing waits for ever for something no timer ends: the orchestrator    *)
(* rests or waits for a target it has no timer for, a loader with a whole  *)
(* image leaves itself, and the shifter's does not reset for ever.         *)
ComesToRest == []<>(/\ which = "order" => Order!UpdateRests
                    /\ which = "pack" => Pack!LeavesLoader
                    /\ which = "bank" => Bank!LeavesLoader
                    /\ which = "shifter" => Shifter!Settled)

\* What the coprocessor may hold: files in the order of their targets.
MCPacks == {<<0, 3>>, <<1, 4>>, <<2>>, <<5>>}
=============================================================================
