------------------------------ MODULE KeyStore ------------------------------
(***************************************************************************)
(* The key store of the BLE coprocessor (bleware/src/secrets.c): records   *)
(* in one sector of the external flash.  Slots 0..Keyed - 1 hold the keys  *)
(* of phones, then come the M-ID record and the manufacturing key.  Every  *)
(* record is written by reading the sector, erasing it and programming it  *)
(* page by page (extflash_sector_write), then compared, at most Tries      *)
(* times.  The orders are the back office's (provisioning.c); each is      *)
(* answered after the M-ID record has been made sure of, and a success     *)
(* rewrites that record.                                                   *)
(*                                                                         *)
(* A slot holds a record, "blank" or "torn" (its CRC is wrong).  A fault   *)
(* is a transfer that fails or a reset; there are at most MaxFaults.       *)
(* Lookups (secrets_record_read) are taken to read what the flash holds.   *)
(***************************************************************************)
EXTENDS Integers, Sequences, FiniteSets

CONSTANTS Keys, Keyed,
          Page,        \* records a page holds (8 in the code)
          Tries,       \* 4 in the code
          Batches,     \* the key lists of sub-command 7
          Wear,        \* the sets of slots that may be worn out
          MaxFaults, MaxOrders

KeyStoreAssumption == Keyed \in Nat \ {0} /\ Page \in Nat \ {0} /\ Tries \in Nat \ {0}
                      /\ MaxFaults \in Nat /\ MaxOrders \in Nat /\ Batches \subseteq Seq(Keys)
                      /\ Wear # {} /\ Keys \cap {"blank", "torn", "mid", "mfg"} = {}

VARIABLES flash, scratch,
          worn,      \* slots that can no longer be programmed
          pc,        \* where extflash_sector_write is, "choose" between records
          page,      \* the next page to program
          tries,
          slot, rec, \* what is written
          job,       \* the order that is served
          granted,   \* keys added, or begun to be, since their last deletion
          faults, orders

vars == <<flash, scratch, worn, pc, page, tries, slot, rec, job, granted, faults, orders>>

MidSlot == Keyed
MfgSlot == Keyed + 1
Slots == 0..MfgSlot
KeySlots == 0..Keyed - 1
LastPage == MfgSlot \div Page
OnPage(i) == {s \in Slots : s \div Page = i}
Recs == Keys \cup {"blank", "torn", "mid", "mfg"}
Blank == [s \in Slots |-> "blank"]
NoJob == [kind |-> "none", keys |-> <<>>]
writing == <<page, tries, slot, rec>>

Init == /\ flash = Blank /\ scratch = Blank /\ worn \in Wear
        /\ pc = "idle" /\ page = 0 /\ tries = 0 /\ slot = 0 /\ rec = "blank"
        /\ job = NoJob /\ granted = {} /\ faults = 0 /\ orders = 0

Valid(s) == flash[s] \notin {"blank", "torn"}
Holders(k) == {s \in KeySlots : flash[s] = k}
FreeSlots == {s \in KeySlots : ~Valid(s)}
First(S) == CHOOSE s \in S : \A t \in S : s <= t

(* secrets_upsert_keyed_record: the slot with that key, else the first     *)
(* whose record is invalid                                                 *)
SlotsForFree(k) == IF FreeSlots # {} THEN FreeSlots ELSE Holders(k)
SlotsFor(k) == IF Holders(k) # {} THEN Holders(k) ELSE FreeSlots

(* secrets_upsert_keyed_batch's test                                       *)
Fits(ks) == Cardinality({i \in DOMAIN ks : Holders(ks[i]) # {}}) + Cardinality(FreeSlots) >= Len(ks)

Write(s, r) == /\ slot' = s /\ rec' = r /\ tries' = Tries /\ pc' = "read"
               /\ UNCHANGED page

(* build_reply: secrets_ensure_mid_record, then, after a success,          *)
(* backoffice_on_success_hook                                              *)
Reply(kind) == /\ job' = [kind |-> kind, keys |-> <<>>]
               /\ IF Valid(MidSlot) THEN pc' = "choose" /\ UNCHANGED writing
                                    ELSE Write(MidSlot, "mid")

(* gatt_handle_backoffice_message_data's sub-commands 1, 7, 2, 3 and 6     *)
Order == /\ pc = "idle" /\ orders < MaxOrders /\ orders' = orders + 1
         /\ \/ \E k \in Keys : /\ job' = [kind |-> "add", keys |-> <<k>>]
                               /\ pc' = "choose" /\ UNCHANGED <<writing, flash, granted>>
            \/ \E ks \in Batches :
                 /\ IF Fits(ks)
                    THEN job' = [kind |-> "batch", keys |-> ks] /\ pc' = "choose" /\ UNCHANGED writing
                    ELSE Reply("refused")
                 /\ UNCHANGED <<flash, granted>>
            \/ /\ job' = [kind |-> "mfg", keys |-> <<>>] /\ Write(MfgSlot, "mfg")
               /\ UNCHANGED <<flash, granted>>
            \/ \E k \in Keys : IF Holders(k) = {}
                               THEN Reply("refused") /\ UNCHANGED <<flash, granted>>
                               ELSE /\ job' = [kind |-> "delete", keys |-> <<k>>]
                                    /\ Write(First(Holders(k)), "blank") /\ UNCHANGED <<flash, granted>>
            \/ /\ flash' = Blank /\ granted' = {}
               /\ job' = [kind |-> "served", keys |-> <<>>] /\ Write(MidSlot, "mid")
         /\ UNCHANGED <<scratch, worn, faults>>

(* between two records of an order                                         *)
Choose == /\ pc = "choose"
          /\ CASE job.kind \in {"add", "batch"} /\ job.keys # <<>> ->
                    LET k == Head(job.keys)  IN
                    IF SlotsFor(k) = {}
                    THEN Reply("refused") /\ UNCHANGED granted
                    ELSE /\ Write(First(SlotsFor(k)), k)
                         /\ granted' = granted \cup {k} /\ UNCHANGED job
               [] job.kind \in {"add", "batch"} /\ job.keys = <<>> ->
                    Reply("served") /\ UNCHANGED granted
               [] job.kind = "served" -> /\ job' = [kind |-> "hooked", keys |-> <<>>]
                                         /\ Write(MidSlot, "mid") /\ UNCHANGED granted
               [] OTHER -> /\ job' = NoJob /\ pc' = "idle" /\ UNCHANGED <<writing, granted>>
          /\ UNCHANGED <<flash, scratch, worn, faults, orders>>

Read == /\ pc = "read" /\ pc' = "erase" /\ scratch' = flash
        /\ UNCHANGED <<flash, worn, writing, job, granted, faults, orders>>

(* the result of extflash_erase_range is not looked at                     *)
Erase == /\ pc = "erase" /\ pc' = "program" /\ page' = 0
         /\ \/ flash' = Blank /\ UNCHANGED faults
            \/ faults < MaxFaults /\ faults' = faults + 1 /\ UNCHANGED flash
         /\ scratch' = [scratch EXCEPT ![slot] = rec]
         /\ UNCHANGED <<worn, tries, slot, rec, job, granted, orders>>

(* programming only clears bits                                            *)
Over(s, new) == IF new = "blank" \/ flash[s] = new THEN flash[s]
                ELSE IF flash[s] = "blank" /\ s \notin worn THEN new
                ELSE "torn"
Program == /\ pc = "program"
           /\ flash' = [s \in Slots |-> IF s \in OnPage(page) THEN Over(s, scratch[s])
                                                              ELSE flash[s]]
           /\ page' = page + 1
           /\ pc' = IF page = LastPage THEN "verify" ELSE "program"
           /\ UNCHANGED <<scratch, worn, tries, slot, rec, job, granted, faults, orders>>

(* a transfer that fails ends the attempt                                  *)
Fail == /\ pc \in {"read", "program"} /\ faults < MaxFaults /\ faults' = faults + 1
        /\ pc' = "verify"
        /\ UNCHANGED <<flash, scratch, worn, writing, job, granted, orders>>

(* what a record that has been written, or given up, means to its order    *)
Written(ok) ==
  /\ granted' = IF ok /\ job.kind = "delete" THEN granted \ {Head(job.keys)} ELSE granted
  /\ CASE job.kind \in {"add", "batch"} /\ ok ->
            job' = [job EXCEPT !.keys = Tail(@)] /\ pc' = "choose" /\ UNCHANGED writing
       [] job.kind \in {"mfg", "delete"} /\ ok -> Reply("served")
       [] job.kind \in {"add", "batch", "mfg", "delete"} /\ ~ok -> Reply("refused")
       [] OTHER -> pc' = "choose" /\ UNCHANGED <<job, writing>>

AgainForever == /\ pc' = "read" /\ UNCHANGED <<tries, page, slot, rec, job, granted>>
Again == /\ tries' = tries - 1 /\ pc' = "read"
         /\ UNCHANGED <<page, slot, rec, job, granted>>

(* secrets_record_write_verify's loop                                      *)
Verify == /\ pc = "verify"
          /\ IF flash[slot] # rec /\ tries > 1 THEN Again ELSE Written(flash[slot] = rec)
          /\ UNCHANGED <<flash, scratch, worn, faults, orders>>

(* a reset; a page that is being programmed is torn                        *)
Cut == /\ faults < MaxFaults /\ faults' = faults + 1 /\ pc # "idle"
       /\ flash' \in {flash} \cup (IF pc # "program" THEN {} ELSE
                       {[s \in Slots |-> IF s \in OnPage(page) /\ scratch[s] # "blank"
                                         THEN "torn" ELSE flash[s]]})
       /\ pc' = "idle" /\ job' = NoJob
       /\ UNCHANGED <<scratch, worn, writing, granted, orders>>

Next == Order \/ Choose \/ Read \/ Erase \/ Program \/ Fail \/ Verify \/ Cut
Work == Choose \/ Read \/ Erase \/ Program \/ Verify
Spec == Init /\ [][Next]_vars /\ WF_vars(Work)

TypeOK == /\ worn \in Wear
          /\ flash \in [Slots -> Recs] /\ scratch \in [Slots -> Recs]
          /\ pc \in {"idle", "choose", "read", "erase", "program", "verify"}
          /\ page \in 0..LastPage + 1 /\ tries \in 0..Tries /\ slot \in Slots /\ rec \in Recs
          /\ granted \subseteq Keys /\ faults \in 0..MaxFaults /\ orders \in 0..MaxOrders

(* A key whose deletion was confirmed opens the bike no more: whatever     *)
(* fails or is cut short, no slot holds a key that was not added since.    *)
DeletedStaysOut == \A s \in Slots : flash[s] \in granted \cup {"blank", "torn", "mid", "mfg"}

(* A batch that was let in never runs out of slots half way.               *)
BatchFits == pc = "choose" /\ job.kind = "batch" /\ job.keys # <<>> => SlotsFor(Head(job.keys)) # {}

(* Writing comes to an end: the tries run out.                             *)
AtRest == pc = "idle"
=============================================================================
