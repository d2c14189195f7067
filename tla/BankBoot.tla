------------------------------ MODULE BankBoot ------------------------------
(***************************************************************************)
(* The boot loader of the power bank (powerbankboot).  Two banks of flash  *)
(* hold the application (AP) and its shadow; a pair of RTC backup          *)
(* registers, a value and its complement, says that the application has    *)
(* staged a finished upgrade in the shadow.  A bank is a function from its *)
(* pages to the image each page belongs to.  Power may be cut between any  *)
(* two page operations, and may take the backup registers with it.         *)
(***************************************************************************)
EXTENDS Naturals

CONSTANTS Images, NPages, MaxCuts, MaxOrders

BankBootAssumption ==
    /\ NPages \in Nat \ {0, 1}
    /\ MaxCuts \in Nat /\ MaxOrders \in Nat
    /\ "none" \notin Images /\ "blank" \notin Images /\ "junk" \notin Images

VARIABLES
    app, shadow,  \* the banks at AP_BASE and SHADOW_BASE
    finished,     \* the backup registers: "yes", "no" or "torn"
    pc,           \* where the loader stands; "app" while the image runs
    page,         \* the page flash_copy_image is at
    busy,         \* bit 0 of g_loop_mode: the watchdog is not kicked
    target,       \* s_ota.addr once s_ota.state is OTA_ST_DATA, or NoPage
    running,      \* the image that runs
    told,         \* an image was given up by an order on the serial line
    cuts, orders  \* bounds: power cuts and orders from outside so far

vars == <<app, shadow, finished, pc, page, busy, target, running, told, cuts, orders>>

None == "none"
Pages == 0..(NPages - 1)
NoPage == NPages
Contents == Images \cup {"blank", "junk"}

WholeHeader(bank) == bank[0] \in Images                  \* mutant: no CRC

\* image_verify: the magic, the size and the CRC agree.
Whole(bank) == \E i \in Images : \A p \in Pages : bank[p] = i

TypeOK ==
    /\ app \in [Pages -> Contents] /\ shadow \in [Pages -> Contents]
    /\ finished \in {"yes", "no", "torn"}
    /\ pc \in {"boot", "toApp", "toShadow", "loop", "app"}
    /\ page \in Pages
    /\ busy \in BOOLEAN /\ target \in Pages \cup {NoPage}
    /\ (target # NoPage) => busy
    /\ running \in Images \cup {None} /\ (running # None) = (pc = "app")
    /\ told \in BOOLEAN
    /\ cuts \in 0..MaxCuts /\ orders \in 0..MaxOrders

Init ==
    /\ app \in {[p \in Pages |-> i] : i \in Images \cup {"blank"}}
    /\ shadow \in {[p \in Pages |-> i] : i \in Images \cup {"blank"}}
    /\ finished = "no" /\ pc = "boot" /\ page = 0
    /\ busy = FALSE /\ target = NoPage
    /\ running = None /\ told = FALSE
    /\ cuts = 0 /\ orders = 0

------------------------------------------------------------------------------
(* boot_main                                                                *)

\* goto_application: the registers are cleared and the image at AP started.
GotoApplication(bank) ==
    /\ finished' = "no" /\ pc' = "app" /\ running' = bank[0] /\ told' = FALSE

\* boot_read_persistent_flags: a pair that does not agree counts as "no".
\* Then the four ways on: install, mirror and start, recover, or download.
Boot ==
    /\ pc = "boot"
    /\ busy' = FALSE /\ target' = NoPage
    /\ UNCHANGED <<app, shadow, cuts, orders>>
    /\ \/ /\ finished = "yes" /\ Whole(shadow)
          /\ pc' = "toApp" /\ page' = 0
          /\ UNCHANGED <<finished, running, told>>
       \/ /\ ~(finished = "yes" /\ Whole(shadow))
          /\ Whole(app) /\ Whole(shadow)
          /\ GotoApplication(app) /\ UNCHANGED page
       \/ /\ Whole(app) /\ ~Whole(shadow)
          /\ pc' = "toShadow" /\ page' = 0
          /\ finished' = (IF finished = "torn" THEN "no" ELSE finished)
          /\ UNCHANGED <<running, told>>
       \/ /\ finished # "yes" /\ ~Whole(app) /\ Whole(shadow)
          /\ pc' = "toApp" /\ page' = 0 /\ finished' = "no"
          /\ UNCHANGED <<running, told>>
       \/ /\ ~Whole(app) /\ ~Whole(shadow)
          /\ pc' = "loop" /\ finished' = "no"
          /\ UNCHANGED <<page, running, told>>

\* flash_copy_image(AP, SHADOW), a page at a time, repeated until AP verifies.
CopyToApp ==
    /\ pc = "toApp"
    /\ app' = [app EXCEPT ![page] = shadow[page]]
    /\ page' = (page + 1) % NPages
    /\ IF page = NPages - 1 /\ Whole(app')
       THEN GotoApplication(app')
       ELSE UNCHANGED <<finished, pc, running, told>>
    /\ UNCHANGED <<shadow, busy, target, cuts, orders>>

\* flash_copy_image(SHADOW, AP): the backup is renewed before the start.
CopyToShadow ==
    /\ pc = "toShadow"
    /\ shadow' = [shadow EXCEPT ![page] = app[page]]
    /\ page' = (page + 1) % NPages
    /\ IF page = NPages - 1 /\ Whole(shadow')
       THEN GotoApplication(app)
       ELSE UNCHANGED <<finished, pc, running, told>>
    /\ UNCHANGED <<app, busy, target, cuts, orders>>

\* Event 0x04 kicks the watchdog unless a download is open.
Watchdog ==
    /\ pc = "loop" /\ busy
    /\ pc' = "boot"
    /\ UNCHANGED <<app, shadow, finished, page, busy, target, running, told,
                   cuts, orders>>

------------------------------------------------------------------------------
(* ota_process_byte: a frame of the host at a time                          *)

Ordered == orders < MaxOrders /\ orders' = orders + 1

\* OTA_CMD_ERASE with an address inside AP: its page is erased and the parser
\* is left in OTA_ST_DATA, which nothing but a reset leaves.
Erase ==
    /\ pc = "loop" /\ target = NoPage /\ Ordered
    /\ \E p \in Pages : target' = p /\ app' = [app EXCEPT ![p] = "blank"]
    /\ busy' = TRUE /\ told' = TRUE
    /\ UNCHANGED <<shadow, finished, pc, page, running, cuts>>

\* ota_data_byte: every block goes to the one address accepted, erased and
\* written again when the flash refuses it.
Block ==
    /\ pc = "loop" /\ target # NoPage /\ Ordered
    /\ \E x \in Images \cup {"junk"} : app' = [app EXCEPT ![target] = x]
    /\ UNCHANGED <<shadow, finished, pc, page, busy, target, running, told, cuts>>

------------------------------------------------------------------------------
(* The application and the power                                            *)

\* The application writes a page of the shadow it is sent.
Stage ==
    /\ pc = "app" /\ Ordered
    /\ \E p \in Pages, x \in Images \cup {"junk"} :
         shadow' = [shadow EXCEPT ![p] = x]
    /\ UNCHANGED <<app, finished, pc, page, busy, target, running, told, cuts>>

\* The application stores the flag of a finished upgrade and resets.
Leave ==
    /\ pc = "app" /\ Ordered
    /\ finished' \in {"yes", "no"}
    /\ pc' = "boot" /\ running' = None
    /\ UNCHANGED <<app, shadow, page, busy, target, told, cuts>>

\* A loss of power; without the backup supply the registers are lost too, and
\* between the two writes of store_boot_flag they disagree.
Cut ==
    /\ cuts < MaxCuts /\ cuts' = cuts + 1
    /\ pc' = "boot" /\ running' = None
    /\ finished' \in {finished, "no", "torn"}
    /\ UNCHANGED <<app, shadow, page, busy, target, told, orders>>

------------------------------------------------------------------------------
Step == Boot \/ CopyToApp \/ CopyToShadow

Next == \/ Boot \/ CopyToApp \/ CopyToShadow \/ Watchdog
        \/ Erase \/ Block \/ Stage \/ Leave \/ Cut

Spec == Init /\ [][Next]_vars /\ WF_vars(Step) /\ WF_vars(Watchdog)

------------------------------------------------------------------------------
\* The loader keeps the contract of a loader with two banks (boot.c:45-116,
\* image.c:23-77): a verified image is all it starts, across every cut.
Kept == {i \in Images : \/ \A p \in Pages : app[p] = i
                        \/ \A p \in Pages : shadow[p] = i}
Contract == INSTANCE BootContract WITH kept <- Kept
Implements == Contract!Spec

\* A power bank that holds a whole image does not stay in its loader
\* (boot.c:51-67): a download left open is ended by the watchdog.
LeavesLoader == running # None \/ ~(Whole(app) \/ Whole(shadow))
Recovers == []<>LeavesLoader
=============================================================================
