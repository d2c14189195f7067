------------------------------ MODULE BleBoot ------------------------------
(***************************************************************************)
(* The boot image manager of the Bluetooth coprocessor (bleboot).  A new   *)
(* image waits in a slot of the external SPI flash behind a header of      *)
(* markers; the full scan sums it, copies it into the internal flash, sums *)
(* it again and starts it; the quick scan starts what the internal flash   *)
(* holds by its marker alone.  Bytes of flash only lose bits, so a marker  *)
(* goes from 0xFF to 0xFE to 0xFC and never back without an erase.         *)
(***************************************************************************)
EXTENDS Naturals

CONSTANTS
    Images,     \* complete images, each with its own CRC
    NSlots,     \* slots of the external flash the scan visits
    MaxCuts, MaxSends

BleBootAssumption ==
    /\ NSlots \in Nat \ {0} /\ MaxCuts \in Nat /\ MaxSends \in Nat
    /\ "none" \notin Images /\ "part" \notin Images

VARIABLES
    ext,        \* the slots: magic, markers at 16 and 17, crc, body
    int,        \* the internal flash: the image and its marker at 17
    pc, slot,   \* where the manager stands, and the slot it looks at
    running,    \* the image that was started
    scanned,    \* what the full scan returned
    cuts, sends \* bounds: resets and images sent so far

vars == <<ext, int, pc, slot, running, scanned, cuts, sends>>

Slots == 0..(NSlots - 1)
Marks == {"FF", "FE", "FC"}
Bodies == Images \cup {"none", "part"}
Empty == [magic |-> FALSE, at16 |-> "FF", at17 |-> "FF", crc |-> "none", body |-> "none"]

\* Programming a marker clears bits only.
Marked(old, new) == IF old = "FC" THEN "FC" ELSE new

TypeOK ==
    /\ ext \in [Slots -> [magic : BOOLEAN, at16 : Marks, at17 : Marks,
                          crc : Bodies, body : Bodies]]
    /\ int \in [image : Bodies, mark : Marks]
    /\ pc \in {"prepare", "iterate", "header", "copy", "sum", "quick", "last",
               "panic", "lost", "app"}
    /\ slot \in 0..NSlots
    /\ running \in Images \cup {"none", "part"}
    /\ (running = "none") = (pc # "app")
    /\ scanned \in {0, 1}
    /\ cuts \in 0..MaxCuts /\ sends \in 0..MaxSends

Init ==
    /\ ext = [s \in Slots |-> Empty]
    /\ \E i \in Images : int = [image |-> i, mark |-> "FF"]
    /\ pc = "prepare" /\ slot = 0 /\ running = "none" /\ scanned = 0
    /\ cuts = 0 /\ sends = 0

Keep == UNCHANGED <<cuts, sends>>
Goto(p) == pc' = p
LaunchInternal == pc' = "app" /\ running' = int.image

------------------------------------------------------------------------------
(* bim_full_scan_and_launch                                                 *)

\* bim_flash_prepare: the chip is woken and identified, or the scan gives -1.
Prepare ==
    /\ pc = "prepare" /\ slot' = 0 /\ Keep
    /\ UNCHANGED <<ext, int, running>>
    /\ \/ scanned' = 0 /\ Goto("iterate")
       \/ scanned' = 1 /\ Goto("last")

\* bim_slot_iterator: the first slot with the magic, from this slot on.
Iterate ==
    /\ pc = "iterate" /\ Keep
    /\ UNCHANGED <<ext, int, running, scanned>>
    /\ \/ /\ \A s \in Slots : s >= slot => ~ext[s].magic
          /\ slot' = NSlots /\ Goto("quick")
       \/ /\ \E s \in Slots :
               /\ s >= slot /\ ext[s].magic
               /\ \A r \in Slots : (r >= slot /\ r < s) => ~ext[r].magic
               /\ slot' = s
          /\ Goto("header")

\* The markers and the first sum, of the body in slot 0 whatever the slot is.
\* A slot that does not pass is looked at again: the index stays.
HeaderPasses(s) ==
    ext[s].at16 = "FE" /\ ext[s].at17 # "FC" /\ ext[0].body = ext[s].crc

Header ==
    /\ pc = "header" /\ Keep
    /\ Goto(IF HeaderPasses(slot) THEN "copy" ELSE "iterate")
    /\ UNCHANGED <<ext, int, slot, running, scanned>>

\* bim_iflash_copy_from_spi, which a range that is not blank makes fail, and
\* the marker at 16 that is written either way.
Copy ==
    /\ pc = "copy" /\ Keep
    /\ \/ /\ int' = [image |-> ext[0].body, mark |-> ext[0].at17] /\ Goto("sum")
          /\ ext' = [ext EXCEPT ![slot].at16 = "FC"]
       \/ /\ Goto("iterate") /\ UNCHANGED int
          /\ ext' = [ext EXCEPT ![slot].at16 = "FC"]
    /\ UNCHANGED <<slot, running, scanned>>

\* bim_crc32_image over the copy: 0xFE marks it good in both flashes and it is
\* started; a bad one is marked 0xFC in slot 0 and the scan goes on.
Sum ==
    /\ pc = "sum" /\ Keep
    /\ UNCHANGED <<slot, scanned>>
    /\ \/ /\ int.image = ext[0].crc
          /\ ext' = [ext EXCEPT ![slot].at17 = Marked(@, "FE")]
          /\ int' = [int EXCEPT !.mark = Marked(@, "FE")]
          /\ LaunchInternal
       \/ /\ int.image # ext[0].crc
          /\ ext' = [ext EXCEPT ![0].at17 = "FC", ![0].at16 = "FC"]
          /\ Goto("iterate") /\ UNCHANGED <<int, running>>

------------------------------------------------------------------------------
(* The two ways that are left                                               *)

\* bim_quick_scan_and_launch: any marker but 0xFC, and no sum.
Quick ==
    /\ pc = "quick" /\ Keep
    /\ UNCHANGED <<ext, int, slot, scanned>>
    /\ IF int.image # "none" /\ int.mark # "FC"
       THEN LaunchInternal
       ELSE Goto("last") /\ UNCHANGED running

\* bim_verify_and_launch_image: slot 0, when its marker says it was verified.
Last ==
    /\ pc = "last" /\ Keep
    /\ UNCHANGED <<ext, slot, scanned>>
    /\ \/ /\ scanned = 0 /\ ext[0].at17 = "FE" /\ ext[0].body = ext[0].crc
          /\ int' = [image |-> ext[0].body, mark |-> "FE"]
          /\ pc' = "app" /\ running' = ext[0].body
       \/ /\ Goto(IF scanned = 1 THEN "panic" ELSE "lost") /\ UNCHANGED <<int, running>>

------------------------------------------------------------------------------
(* The running image and resets                                             *)

\* The coprocessor's firmware stages an image in slot 0, or breaks off.
Send ==
    /\ pc = "app" /\ sends < MaxSends /\ sends' = sends + 1
    /\ \E i \in Images, done \in BOOLEAN :
         ext' = [ext EXCEPT ![0] = [magic |-> TRUE,
                                    at16 |-> IF done THEN "FE" ELSE "FF",
                                    at17 |-> "FF", crc |-> i,
                                    body |-> IF done THEN i ELSE "part"]]
    /\ UNCHANGED <<int, pc, slot, running, scanned, cuts>>

\* A reset or a loss of power, at any step; inside the copy a part is left.
Cut ==
    /\ cuts < MaxCuts /\ cuts' = cuts + 1
    /\ Goto("prepare") /\ running' = "none"
    /\ int' \in {int} \cup (IF pc = "copy" THEN {[image |-> "part", mark |-> "FF"]} ELSE {})
    /\ UNCHANGED <<ext, slot, scanned, sends>>

------------------------------------------------------------------------------
Step == Prepare \/ Iterate \/ Header \/ Copy \/ Sum \/ Quick \/ Last

Next == Prepare \/ Iterate \/ Header \/ Copy \/ Sum \/ Quick \/ Last \/ Send \/ Cut

Spec == Init /\ [][Next]_vars /\ WF_vars(Step)

------------------------------------------------------------------------------
\* Nothing but a whole image is started, although the quick scan goes by the
\* marker alone (oad.c:345-384, 424-539).
OnlyWholeImages == running # "part"

=============================================================================
