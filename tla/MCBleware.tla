------------------------------ MODULE MCBleware -----------------------------
(*****************************************************************************)
(* The Bluetooth coprocessor: its connections and their sessions, the        *)
(* transfer of a pack by a phone, the update over the serial line and the    *)
(* store of the phones' keys. The machines share neither steps nor state:    *)
(* "which" names the one a behaviour is of, and a name that two of them use  *)
(* is one variable here. BlewareProofs has theorems about it for every value *)
(* of its constants.                                                         *)
(*****************************************************************************)
EXTENDS Naturals

CONSTANTS SessionKeys, NoRecord, NConns, Patience, LinkEvents,              \* of the sessions
          Phones, LastType, Sector, SlotCells, Chunk, Sizes, PhoneActs,         \* of the transfer
          NBlocks, Wrap, MaxRetries, MaxResends, LineFaults,                    \* of the serial line
          Keys, Keyed, Page, Tries, FlashFaults, MaxOrders, Batches, Wear       \* of the key store

VARIABLES which, conn, buffer, q, sm, adv, off, closing, events, owner, taken, file, got,
          cursor, flash, sending, event, ingest, dropping, acts, seq, retries, started, result,
          pend, line, acks, at, resends, faults, scratch, worn, pc, page, tries, slot, rec,
          job, granted, orders
all == <<which, conn, buffer, q, sm, adv, off, closing, events, owner, taken, file, got,
         cursor, flash, sending, event, ingest, dropping, acts, seq, retries, started, result,
         pend, line, acks, at, resends, faults, scratch, worn, pc, page, tries, slot, rec, job,
         granted, orders>>

S == INSTANCE BleSessions WITH Keys <- SessionKeys, Unknown <- NoRecord,
        MaxEvents <- LinkEvents
O == INSTANCE OadTransfer WITH MaxActs <- PhoneActs
Y == INSTANCE Ymodem WITH MaxFaults <- LineFaults
K == INSTANCE KeyStore WITH MaxFaults <- FlashFaults

MCBatches == {<<"a", "b">>, <<"b", "c">>, <<"a", "a", "c">>}

ASSUME MCBlewareAssumption == S!SessionsAssumption /\ O!OadAssumption /\ Y!YmodemAssumption /\
    K!KeyStoreAssumption

SessionsInit == which = "sessions" /\ S!Init /\ owner = 0 /\ taken = 0 /\ file = 0 /\
           got = 0 /\ cursor = 0 /\ flash = 0 /\ sending = 0 /\ event = 0 /\ ingest = 0 /\
           dropping = 0 /\ acts = 0 /\ seq = 0 /\ retries = 0 /\ started = 0 /\ result = 0 /\
           pend = 0 /\ line = 0 /\ acks = 0 /\ at = 0 /\ resends = 0 /\ faults = 0 /\
           scratch = 0 /\ worn = 0 /\ pc = 0 /\ page = 0 /\ tries = 0 /\ slot = 0 /\ rec = 0 /\
           job = 0 /\ granted = 0 /\ orders = 0
SessionsStill == UNCHANGED <<which, owner, taken, file, got, cursor, flash, sending, event,
            ingest, dropping, acts, seq, retries, started, result, pend, line, acks, at,
            resends, faults, scratch, worn, pc, page, tries, slot, rec, job, granted, orders>>
SessionsNext == which = "sessions" /\ S!Next /\ SessionsStill
OadInit == which = "oad" /\ O!Init /\ conn = 0 /\ buffer = 0 /\ q = 0 /\ sm = 0 /\ adv = 0 /\
           off = 0 /\ closing = 0 /\ events = 0 /\ seq = 0 /\ retries = 0 /\ started = 0 /\
           result = 0 /\ pend = 0 /\ line = 0 /\ acks = 0 /\ at = 0 /\ resends = 0 /\
           faults = 0 /\ scratch = 0 /\ worn = 0 /\ pc = 0 /\ page = 0 /\ tries = 0 /\
           slot = 0 /\ rec = 0 /\ job = 0 /\ granted = 0 /\ orders = 0
OadStill == UNCHANGED <<which, conn, buffer, q, sm, adv, off, closing, events, seq, retries,
            started, result, pend, line, acks, at, resends, faults, scratch, worn, pc, page,
            tries, slot, rec, job, granted, orders>>
OadNext == which = "oad" /\ O!Next /\ OadStill
SerialInit == which = "serial" /\ Y!Init /\ conn = 0 /\ buffer = 0 /\ q = 0 /\ sm = 0 /\
           adv = 0 /\ off = 0 /\ closing = 0 /\ events = 0 /\ owner = 0 /\ taken = 0 /\
           file = 0 /\ cursor = 0 /\ flash = 0 /\ sending = 0 /\ event = 0 /\ ingest = 0 /\
           dropping = 0 /\ acts = 0 /\ scratch = 0 /\ worn = 0 /\ pc = 0 /\ page = 0 /\
           tries = 0 /\ slot = 0 /\ rec = 0 /\ job = 0 /\ granted = 0 /\ orders = 0
SerialStill == UNCHANGED <<which, conn, buffer, q, sm, adv, off, closing, events, owner, taken,
            file, cursor, flash, sending, event, ingest, dropping, acts, scratch, worn, pc,
            page, tries, slot, rec, job, granted, orders>>
SerialNext == which = "serial" /\ Y!Next /\ SerialStill
KeysInit == which = "keys" /\ K!Init /\ conn = 0 /\ buffer = 0 /\ q = 0 /\ sm = 0 /\ adv = 0 /\
           off = 0 /\ closing = 0 /\ events = 0 /\ owner = 0 /\ taken = 0 /\ file = 0 /\
           got = 0 /\ cursor = 0 /\ sending = 0 /\ event = 0 /\ ingest = 0 /\ dropping = 0 /\
           acts = 0 /\ seq = 0 /\ retries = 0 /\ started = 0 /\ result = 0 /\ pend = 0 /\
           line = 0 /\ acks = 0 /\ at = 0 /\ resends = 0
KeysStill == UNCHANGED <<which, conn, buffer, q, sm, adv, off, closing, events, owner, taken,
            file, got, cursor, sending, event, ingest, dropping, acts, seq, retries, started,
            result, pend, line, acks, at, resends>>
KeysNext == which = "keys" /\ K!Next /\ KeysStill

AnyInit == SessionsInit \/ OadInit \/ SerialInit \/ KeysInit
AnyNext == SessionsNext \/ OadNext \/ SerialNext \/ KeysNext

Fair1 == \/ which = "sessions" /\ S!Dispatch /\ SessionsStill
         \/ which = "oad" /\ O!Expire /\ OadStill
         \/ which = "serial" /\ Y!Hear /\ SerialStill
         \/ which = "keys" /\ K!Work /\ KeysStill
Fair2 == \/ which = "sessions" /\ S!DispatchAbort /\ SessionsStill
         \/ which = "oad" /\ O!Ingest /\ OadStill
         \/ which = "serial" /\ Y!HearNothing /\ SerialStill
Fair3 == which = "sessions" /\ S!Clock /\ SessionsStill
FairEnd(c) == which = "sessions" /\ S!Closed(c) /\ SessionsStill
FairDrop(p) == which = "oad" /\ O!Dropped(p) /\ OadStill

AnySpec == AnyInit /\ [][AnyNext]_all /\ WF_all(Fair1) /\ WF_all(Fair2) /\ WF_all(Fair3) /\
           (\A c \in S!Conns : WF_all(FairEnd(c))) /\ (\A p \in Phones : WF_all(FairDrop(p)))

TypeOK == /\ which = "sessions" => S!TypeOK
          /\ which = "oad" => O!TypeOK
          /\ which = "serial" => Y!TypeOK
          /\ which = "keys" => K!TypeOK

(* One phone has a session at a time, and a coprocessor without a session  *)
(* can be found, once every event is handled; a deleted key stays out, and *)
(* a batch of keys that was let in finds its slots (auth.c, gatt_write.c,  *)
(* state_machine_handlers.c, secrets.c, extflash.c).                       *)
PhonesAreKnown == /\ which = "sessions" => S!OneSession /\ S!Reachable
                  /\ which = "keys" => K!DeletedStaysOut /\ K!BatchFits

(* An image that is accepted or marked for the boot loader is whole, block *)
(* by block (oad.c, pack_ingest.c, ymodem.c, cmd_update.c).                *)
OnlyWholeImages == /\ which = "oad" => O!AcceptedIsWhole
                   /\ which = "serial" => Y!InOrder /\ Y!MarkedIsWhole

(* No connection without a session is kept for ever, and no transfer and   *)
(* no order to the key store goes on for ever.                             *)
ComesToRest == []<>(/\ which = "sessions" => S!OnlyGuests
                    /\ which = "oad" => ~taken
                    /\ which = "serial" => Y!Ended
                    /\ which = "keys" => K!AtRest)
=============================================================================
