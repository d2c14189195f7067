---------------------------- MODULE BootContract ----------------------------
(***************************************************************************)
(* What a boot loader with two banks promises, whatever its flash layout:  *)
(* it starts only an image that is whole, and it never loses the last      *)
(* whole image unless it was told to give it up (a wipe or a download over *)
(* the serial line).  PackBoot and BankBoot are shown to implement it.     *)
(***************************************************************************)
CONSTANT Images

VARIABLES
    running,   \* the image that runs, or None while the loader does
    kept,      \* the images that are whole in at least one bank
    told       \* an outside order is in force that may cost the images

None == "none"

Init == running = None /\ kept \in SUBSET Images /\ told = FALSE

\* Only a whole image is started.
Start == /\ running = None
         /\ \E i \in kept : running' = i
         /\ told' = FALSE /\ UNCHANGED kept

\* A reset, ordered by the image or by a loss of power.
Restart == /\ running' = None
           /\ told' => told \/ running # None
           /\ UNCHANGED kept

\* Writing the banks: the last whole image goes only under an order, given
\* before or by this very step over the serial line.
Write == /\ kept' \in SUBSET Images
         /\ told => told'
         /\ kept # {} => (kept' # {} \/ told')
         /\ UNCHANGED running

Next == Start \/ Restart \/ Write

Spec == Init /\ [][Next]_<<running, kept, told>>
=============================================================================
