------------------------------ MODULE PackBoot ------------------------------
(***************************************************************************)
(* The boot loader of the battery pack (bmsboot).  Two banks of flash hold *)
(* the application and its shadow; a byte of EEPROM, written by the        *)
(* application before it resets, says what the loader is to do.  A bank is *)
(* a function from its pages to the image each page belongs to; the header *)
(* is in page 0, and image_verify passes exactly when every page is of the *)
(* same image.  Power may be cut between any two page operations.          *)
(***************************************************************************)
EXTENDS Naturals

CONSTANTS Images, NPages, MaxCuts, MaxOrders

PackBootAssumption ==
    /\ NPages \in Nat \ {0, 1}
    /\ MaxCuts \in Nat /\ MaxOrders \in Nat
    /\ "none" \notin Images /\ "blank" \notin Images /\ "junk" \notin Images

VARIABLES
    app, shadow,  \* the banks at APP_BASE and SHADOW_BASE
    flag,         \* the byte at BOOT_FLAG_ADDR
    pc,           \* where the loader stands; "app" while the image runs
    page,         \* the page flash_copy_image is at
    loop,         \* g_loop_flags
    waiting,      \* g_boot_countdown is not zero
    target,       \* s_ota.addr, or Idle when no address is open
    held,         \* s_first_page, kept in RAM until the download is verified
    running,      \* the image that runs
    told,         \* the shadow, or all of it, was given up by an order
    cuts, orders  \* bounds: power cuts and orders from outside so far

vars == <<app, shadow, flag, pc, page, loop, waiting, target, held, running,
          told, cuts, orders>>

None == "none"
Idle == <<"none", 0>>
Pages == 0..(NPages - 1)
Contents == Images \cup {"blank", "junk"}
Flags == {"zero", "normal", "stay", "ack", "wipe"}

WholeHeader(bank) == bank[0] \in Images                  \* mutant: no CRC

\* image_verify: the magic, the size and the CRC agree.
Whole(bank) == \E i \in Images : \A p \in Pages : bank[p] = i
ImageOf(bank) == bank[0]

TypeOK ==
    /\ app \in [Pages -> Contents] /\ shadow \in [Pages -> Contents]
    /\ flag \in Flags
    /\ pc \in {"boot", "wipe", "wipeShadow", "copy", "loop", "app"}
    /\ page \in Pages
    /\ loop \subseteq {"busy", "done", "stay"}
    /\ waiting \in BOOLEAN
    /\ target \in {Idle} \cup ({"app", "shadow"} \X Pages)
    /\ held \in Contents
    /\ running \in Images \cup {None} /\ (running # None) = (pc = "app")
    /\ told \in BOOLEAN
    /\ cuts \in 0..MaxCuts /\ orders \in 0..MaxOrders

Init ==
    /\ \E i \in Images : app = [p \in Pages |-> i]
    /\ shadow \in {[p \in Pages |-> i] : i \in Images \cup {"blank"}}
    /\ flag = "zero" /\ pc = "boot" /\ page = 0
    /\ loop = {} /\ waiting = FALSE /\ target = Idle /\ held = "junk"
    /\ running = None /\ told = FALSE
    /\ cuts = 0 /\ orders = 0

------------------------------------------------------------------------------
(* goto_application and the copy                                            *)

\* goto_application: the flag is cleared and the image at APP_BASE started.
Launch == /\ flag' = "zero" /\ pc' = "app" /\ running' = ImageOf(app)
          /\ told' = FALSE

\* flash_copy_image, entered only behind image_verify(SHADOW_BASE).
StartCopy == pc' = "copy" /\ page' = 0

\* One page erased and programmed from the shadow; after the last one the
\* application is verified, and the whole copy repeated if it is not whole.
CopyPage ==
    /\ pc = "copy"
    /\ app' = [app EXCEPT ![page] = shadow[page]]
    /\ page' = (page + 1) % NPages
    /\ UNCHANGED <<shadow, loop, waiting, target, held, cuts, orders>>
    /\ IF page = NPages - 1 /\ Whole(app')
       THEN /\ flag' = "zero" /\ pc' = "app" /\ running' = app'[0]
            /\ told' = FALSE
       ELSE UNCHANGED <<flag, pc, running, told>>

------------------------------------------------------------------------------
(* main                                                                     *)

\* Bring-up: the flag decides what happens before the loop.
Boot ==
    /\ pc = "boot"
    /\ loop' = {} /\ waiting' = FALSE /\ target' = Idle /\ held' = "junk"
    /\ UNCHANGED <<app, shadow, running, told, cuts, orders>>
    /\ \/ flag = "stay" /\ Whole(shadow) /\ StartCopy /\ UNCHANGED flag
       \/ flag = "ack" /\ flag' = "normal" /\ pc' = "loop" /\ UNCHANGED page
       \/ flag = "wipe" /\ flag' = "normal" /\ pc' = "wipe" /\ UNCHANGED page
       \/ /\ flag \in {"zero", "normal"} \/ (flag = "stay" /\ ~Whole(shadow))
          /\ pc' = "loop" /\ UNCHANGED <<flag, page>>

\* The first page of either bank is erased, with its header.
Wipe ==
    /\ pc = "wipe"
    /\ app' = [app EXCEPT ![0] = "blank"] /\ pc' = "wipeShadow"
    /\ UNCHANGED <<shadow, flag, page, loop, waiting, target, held, running,
                   told, cuts, orders>>

WipeShadow ==
    /\ pc = "wipeShadow"
    /\ shadow' = [shadow EXCEPT ![0] = "blank"] /\ pc' = "loop"
    /\ UNCHANGED <<app, flag, page, loop, waiting, target, held, running,
                   told, cuts, orders>>

\* Event 0x04 with a countdown at zero and no download just ended.
Decide ==
    /\ pc = "loop" /\ ~waiting /\ "done" \notin loop
    /\ UNCHANGED <<shadow, target, held, cuts, orders>>
    /\ \/ /\ loop = {} /\ Whole(app) /\ Launch
          /\ UNCHANGED <<app, page, loop, waiting>>
       \/ /\ loop = {} /\ ~Whole(app) /\ Whole(shadow) /\ StartCopy
          /\ UNCHANGED <<app, flag, loop, waiting, running, told>>
       \/ /\ loop = {} /\ ~Whole(app) /\ ~Whole(shadow)
          /\ app' = [app EXCEPT ![0] = "blank"]
          /\ loop' = {"stay"} /\ flag' = "normal" /\ waiting' = TRUE
          /\ UNCHANGED <<pc, page, running, told>>
       \/ /\ loop # {} /\ waiting' = TRUE
          /\ UNCHANGED <<app, flag, pc, page, loop, running, told>>

\* Event 0x04 after the host has had its download verified.
Finish ==
    /\ pc = "loop" /\ ~waiting /\ "done" \in loop
    /\ UNCHANGED <<shadow, page, target, held, cuts, orders>>
    /\ \/ /\ Whole(app) /\ Launch /\ loop' = loop \ {"done"}
          /\ UNCHANGED <<app, waiting>>
       \/ /\ ~Whole(app)
          /\ app' = [app EXCEPT ![0] = "blank"]
          /\ loop' = {} /\ waiting' = TRUE
          /\ UNCHANGED <<flag, pc, running, told>>

\* Event 0x04 counts down.
CountDown ==
    /\ pc = "loop" /\ waiting /\ waiting' = FALSE
    /\ UNCHANGED <<app, shadow, flag, pc, page, loop, target, held, running,
                   told, cuts, orders>>

\* Event 0x40 kicks the watchdog only when no download is open.
Watchdog ==
    /\ pc = "loop" /\ ("busy" \in loop \/ target # Idle)
    /\ pc' = "boot"
    /\ UNCHANGED <<app, shadow, flag, page, loop, waiting, target, held,
                   running, told, cuts, orders>>

------------------------------------------------------------------------------
(* ota_process_byte: a frame of the host at a time                          *)

Ordered == orders < MaxOrders /\ orders' = orders + 1

\* ota_arg_byte: an address at or above APP_BASE is accepted, in either bank.
Address ==
    /\ pc = "loop" /\ target = Idle /\ Ordered
    /\ target' \in {"app", "shadow"} \X Pages
    /\ waiting' = FALSE /\ loop' = loop \cup {"busy"} /\ told' = TRUE
    /\ UNCHANGED <<app, shadow, flag, pc, page, held, running, cuts>>

\* ota_data_byte: the first page of the application stays in RAM.
Block ==
    /\ pc = "loop" /\ target # Idle
    /\ target' = Idle
    /\ \E x \in Images \cup {"junk"} :
         IF target = <<"app", 0>>
         THEN held' = x /\ app' = [app EXCEPT ![0] = "blank"] /\ UNCHANGED shadow
         ELSE /\ UNCHANGED held
              /\ IF target[1] = "app"
                 THEN app' = [app EXCEPT ![target[2]] = x] /\ UNCHANGED shadow
                 ELSE shadow' = [shadow EXCEPT ![target[2]] = x] /\ UNCHANGED app
    /\ UNCHANGED <<flag, pc, page, loop, waiting, running, told, cuts, orders>>

\* A sum that does not agree is refused and closes the address.
Refuse ==
    /\ pc = "loop" /\ target # Idle /\ target' = Idle
    /\ UNCHANGED <<app, shadow, flag, pc, page, loop, waiting, held, running,
                   told, cuts, orders>>

\* OTA_CMD_VERIFY with APP_BASE: the page held in RAM is written at last.
Verify ==
    /\ pc = "loop" /\ target = Idle /\ Ordered
    /\ app' = [app EXCEPT ![0] = held]
    /\ loop' = (loop \ {"busy"}) \cup {"done"} /\ waiting' = FALSE
    /\ told' = TRUE
    /\ UNCHANGED <<shadow, flag, pc, page, target, held, running, cuts>>

------------------------------------------------------------------------------
(* The application and the power                                            *)

\* The application writes a page of the shadow it is sent.
Stage ==
    /\ pc = "app" /\ Ordered
    /\ \E p \in Pages, x \in Images \cup {"junk"} :
         shadow' = [shadow EXCEPT ![p] = x]
    /\ UNCHANGED <<app, flag, pc, page, loop, waiting, target, held, running,
                   told, cuts>>

\* The application leaves its order in the EEPROM and resets.
Leave ==
    /\ pc = "app" /\ Ordered
    /\ flag' \in {"stay", "wipe", "ack"} /\ told' = (flag' = "wipe")
    /\ pc' = "boot" /\ running' = None
    /\ UNCHANGED <<app, shadow, page, loop, waiting, target, held, cuts>>

\* A loss of power, in the loader or in the application.
Cut ==
    /\ cuts < MaxCuts /\ cuts' = cuts + 1
    /\ pc' = "boot" /\ running' = None
    /\ UNCHANGED <<app, shadow, flag, page, loop, waiting, target, held, told,
                   orders>>

------------------------------------------------------------------------------
Step == Boot \/ Wipe \/ WipeShadow \/ CopyPage \/ Decide \/ Finish \/ CountDown

Next == \/ Boot \/ Wipe \/ WipeShadow \/ CopyPage \/ Decide \/ Finish \/ CountDown
        \/ Watchdog \/ Address \/ Block \/ Refuse \/ Verify \/ Stage \/ Leave \/ Cut

\* The loader's own loop runs, and the watchdog bites when nothing kicks it.
Spec == Init /\ [][Next]_vars /\ WF_vars(Step) /\ WF_vars(Watchdog)

------------------------------------------------------------------------------
\* The loader keeps the contract of a loader with two banks (main.c:35-105,
\* image.c:22-71): a verified image is all it starts, across every cut.
Kept == {i \in Images : \/ \A p \in Pages : app[p] = i
                        \/ \A p \in Pages : shadow[p] = i}
Contract == INSTANCE BootContract WITH kept <- Kept
Implements == Contract!Spec

\* A pack that holds a whole image does not stay in its loader, whatever the
\* host left half done on the line (main.c:57-104, ota.c:144-158).  Once the
\* loader has found neither bank whole it waits for a download and does not
\* look at the shadow again.
LeavesLoader == running # None \/ "stay" \in loop \/ ~(Whole(app) \/ Whole(shadow))
Recovers == []<>LeavesLoader
=============================================================================
