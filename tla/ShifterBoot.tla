----------------------------- MODULE ShifterBoot -----------------------------
(***************************************************************************)
(* The boot loader of the gear shifter (shifterboot).  Slot 1 takes a new  *)
(* image, sent block by block over Modbus to the loader or to the running  *)
(* application; slot 2 holds the image that runs.  A slot is a function    *)
(* from its pages to the image each page belongs to; magic, type and CRC   *)
(* are in page 0.  The loader never sums slot 2: a header is enough to     *)
(* start it.  Power may be cut between any two page operations.            *)
(***************************************************************************)
EXTENDS Naturals

CONSTANTS
    Images,     \* images of the shifter's own type
    Alien,      \* an image with the type byte of another device
    NPages,     \* pages of a slot
    MaxCuts, MaxOrders

ShifterBootAssumption ==
    /\ Alien \notin Images /\ {"blank", "junk"} \cap (Images \cup {Alien}) = {}
    /\ NPages \in Nat \ {0, 1} /\ MaxCuts \in Nat /\ MaxOrders \in Nat

VARIABLES
    slot1, slot2,
    pc,           \* where the loader stands; "app" while slot 2 runs
    page,         \* the page an erase or the copy is at
    mirrored,     \* slot 1 is being erased because slot 2 has its CRC
    valid1, valid2, \* slot1_valid and slot2_valid, read in phase 1
    ptr,          \* write_ptr, in pages of slot 1
    torn,         \* power went while slot 2 was being replaced
    cuts, orders  \* bounds: power cuts and frames of the master so far

vars == <<slot1, slot2, pc, page, mirrored, valid1, valid2, ptr, torn, cuts, orders>>

Pages == 0..(NPages - 1)
Contents == Images \cup {Alien, "blank", "junk"}
Blank == [p \in Pages |-> "blank"]

Header(slot) == slot[0] \in Images \cup {Alien}          \* IMAGE_MAGIC
Whole(slot) == Header(slot) /\ \A p \in Pages : slot[p] = slot[0]

TypeOK ==
    /\ slot1 \in [Pages -> Contents] /\ slot2 \in [Pages -> Contents]
    /\ pc \in {"check", "erase1", "erase2", "copy", "wipe2", "wait", "decide",
               "loop", "drop1", "app"}
    /\ page \in Pages
    /\ mirrored \in BOOLEAN /\ valid1 \in BOOLEAN /\ valid2 \in BOOLEAN
    /\ ptr \in 0..NPages /\ torn \in BOOLEAN
    /\ cuts \in 0..MaxCuts /\ orders \in 0..MaxOrders

Init ==
    /\ slot1 = Blank
    /\ slot2 \in {[p \in Pages |-> i] : i \in Images \cup {"blank"}}
    /\ pc = "check" /\ page = 0 /\ mirrored = FALSE
    /\ valid1 = FALSE /\ valid2 = FALSE /\ ptr = 0 /\ torn = FALSE
    /\ cuts = 0 /\ orders = 0

------------------------------------------------------------------------------
(* Phase 1                                                                  *)

\* Mutant: slot 1 is copied for its header alone.
CheckHeader ==
    /\ pc = "check" /\ page' = 0 /\ mirrored' = FALSE
    /\ valid1' = Header(slot1) /\ valid2' = Header(slot2)
    /\ pc' = IF Header(slot1) /\ slot1[0] # slot2[0] THEN "erase2"
             ELSE IF Header(slot1) THEN "erase1" ELSE "wait"
    /\ UNCHANGED <<slot1, slot2, ptr, torn, cuts, orders>>

\* The headers are read; a new image in slot 1 is summed before it is copied,
\* one of another type or with a bad sum is erased, and one whose CRC slot 2
\* has is taken for copied.
Check ==
    /\ pc = "check" /\ page' = 0
    /\ valid1' = Header(slot1) /\ valid2' = Header(slot2)
    /\ mirrored' = (slot1[0] \in Images /\ slot1[0] = slot2[0])
    /\ \/ ~Header(slot1) /\ pc' = "wait"
       \/ slot1[0] = Alien /\ pc' = "erase1"
       \/ slot1[0] \in Images /\ slot1[0] = slot2[0] /\ pc' = "erase1"
       \/ /\ slot1[0] \in Images /\ slot1[0] # slot2[0]
          /\ pc' = IF Whole(slot1) THEN "erase2" ELSE "erase1"
    /\ UNCHANGED <<slot1, slot2, ptr, torn, cuts, orders>>

\* flash_erase_pages, a page at a time from the first; then slot 1 is read again.
Erase1 ==
    /\ pc = "erase1"
    /\ slot1' = [slot1 EXCEPT ![page] = "blank"]
    /\ page' = (page + 1) % NPages
    /\ IF page = NPages - 1
       THEN pc' = "wait" /\ valid1' = Header(slot1') /\ mirrored' = FALSE
       ELSE UNCHANGED <<pc, valid1, mirrored>>
    /\ UNCHANGED <<slot2, valid2, ptr, torn, cuts, orders>>

Erase2 ==
    /\ pc = "erase2"
    /\ slot2' = [slot2 EXCEPT ![page] = "blank"]
    /\ page' = (page + 1) % NPages
    /\ pc' = IF page = NPages - 1 THEN "copy" ELSE pc
    /\ UNCHANGED <<slot1, mirrored, valid1, valid2, ptr, torn, cuts, orders>>

\* flash_copy_region: the header goes first, and the result is not read back.
Copy ==
    /\ pc = "copy"
    /\ slot2' = [slot2 EXCEPT ![page] = slot1[page]]
    /\ page' = (page + 1) % NPages
    /\ pc' = (IF page = NPages - 1 THEN "wait" ELSE pc)
    /\ torn' = (torn /\ page # NPages - 1)
    /\ UNCHANGED <<slot1, mirrored, valid1, valid2, ptr, cuts, orders>>

\* mdelay(250): the master may have left the order to wipe slot 2.
Wait ==
    /\ pc = "wait" /\ UNCHANGED <<slot1, slot2, page, mirrored, valid1, valid2,
                                  ptr, torn, cuts>>
    /\ \/ pc' = "decide" /\ UNCHANGED orders
       \/ pc' = "wipe2" /\ orders < MaxOrders /\ orders' = orders + 1

Wipe2 ==
    /\ pc = "wipe2"
    /\ slot2' = [slot2 EXCEPT ![page] = "blank"]
    /\ page' = (page + 1) % NPages
    /\ IF page = NPages - 1
       THEN pc' = "decide" /\ valid2' = Header(slot2') /\ torn' = FALSE
       ELSE UNCHANGED <<pc, valid2, torn>>
    /\ UNCHANGED <<slot1, mirrored, valid1, ptr, cuts, orders>>

\* boot_app, a reset to look again, or the loop.
Decide ==
    /\ pc = "decide"
    /\ \/ valid2 /\ ~valid1 /\ pc' = "app"
       \/ valid1 /\ pc' = "check"
       \/ ~valid2 /\ ~valid1 /\ pc' = "loop"
    /\ ptr' = 0
    /\ UNCHANGED <<slot1, slot2, page, mirrored, valid1, valid2, torn, cuts, orders>>

------------------------------------------------------------------------------
(* Phase 2, and the application, which takes the same frames                *)

Ordered == orders < MaxOrders /\ orders' = orders + 1

\* MB_SUB_APPLY_IMAGE: the sum is answered, and a good one resets the loader.
Apply ==
    /\ pc = "loop" /\ Ordered
    /\ pc' = IF Whole(slot1) THEN "check" ELSE pc
    /\ UNCHANGED <<slot1, slot2, page, mirrored, valid1, valid2, ptr, torn, cuts>>

\* MB_SUB_ERASE_SLOT1.
EraseOrder ==
    /\ pc = "loop" /\ Ordered /\ pc' = "drop1" /\ page' = 0
    /\ UNCHANGED <<slot1, slot2, mirrored, valid1, valid2, ptr, torn, cuts>>

Drop1 ==
    /\ pc = "drop1"
    /\ slot1' = [slot1 EXCEPT ![page] = "blank"]
    /\ page' = (page + 1) % NPages
    /\ pc' = IF page = NPages - 1 THEN "loop" ELSE pc
    /\ UNCHANGED <<slot2, mirrored, valid1, valid2, ptr, torn, cuts, orders>>

\* Flash that is not blank takes no other value.
Programmed(old, new) == IF old \in {"blank", new} THEN new ELSE "junk"

\* MB_SUB_OTA_STREAM: the first block rewinds the pointer, every other block
\* is written where the pointer stands, whatever its position in the stream.
Chunk ==
    /\ pc = "loop" /\ Ordered
    /\ \E p \in Pages, i \in Images \cup {Alien} :
         LET at == IF p = 0 THEN 0 ELSE ptr
             new == IF p = at THEN i ELSE "junk"
         IN /\ at \in Pages
            /\ slot1' = [slot1 EXCEPT ![at] = Programmed(@, new)]
            /\ ptr' = at + 1
    /\ UNCHANGED <<slot2, pc, page, mirrored, valid1, valid2, torn, cuts>>

\* The application has taken an image, whole, cut short or out of order, and
\* resets into the loader.
Staged ==
    /\ pc = "app" /\ Ordered
    /\ slot1' \in {[p \in Pages |-> IF p < n THEN i ELSE x] :
                     i \in Images \cup {Alien}, n \in 1..NPages, x \in {"blank", "junk"}}
    /\ pc' = "check"
    /\ UNCHANGED <<slot2, page, mirrored, valid1, valid2, ptr, torn, cuts>>

\* A loss of power.
Cut ==
    /\ cuts < MaxCuts /\ cuts' = cuts + 1
    /\ pc' = "check" /\ page' = 0 /\ mirrored' = FALSE
    /\ torn' = (torn \/ (pc = "copy" /\ page > 0) \/ pc = "wipe2")
    /\ UNCHANGED <<slot1, slot2, valid1, valid2, ptr, orders>>

------------------------------------------------------------------------------
Step == Check \/ Erase1 \/ Erase2 \/ Copy \/ Wait \/ Wipe2 \/ Decide \/ Drop1

Next == \/ Check \/ Erase1 \/ Erase2 \/ Copy \/ Wait \/ Wipe2 \/ Decide \/ Drop1
        \/ Apply \/ EraseOrder \/ Chunk \/ Staged \/ Cut

Spec == Init /\ [][Next]_vars /\ WF_vars(Step)

------------------------------------------------------------------------------
\* What runs is whole, although slot 2 is never summed: only a loss of power
\* inside the copy can leave a header before a part of an image
\* (main.c:171-236, flash.c:249-259).
RightImageRuns == pc = "app" => (Whole(slot2) \/ torn)

\* The loader does not reset for ever: it starts slot 2 or serves the master
\* (main.c:204-234).
Settled == pc \in {"app", "loop"}
Settles == []<>Settled

=============================================================================
