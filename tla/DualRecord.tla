----------------------------- MODULE DualRecord -----------------------------
(***************************************************************************)
(* A record that mainware keeps twice, each copy behind its own CRC: the   *)
(* configuration in two sectors of flash, or the state record in two       *)
(* halves of the EEPROM.  A save rewrites both copies, the first one       *)
(* first; a load takes the first copy that sums.  A copy that is being     *)
(* written is Torn.  Power may go, and an erase or a write may fail, at    *)
(* any step; a page of EEPROM that is never reached keeps the old copy as  *)
(* a sector does that is not erased.                                       *)
(***************************************************************************)
CONSTANTS
    Values,       \* contents of the record
    Default,      \* what a board without a record starts from
    Torn,         \* a copy whose CRC does not agree
    Restores,     \* the load writes both copies again after taking the second
    SingleFault   \* no second fault until both copies agree again

ASSUME DualRecordAssumption ==
    /\ Default \in Values /\ Torn \notin Values
    /\ Restores \in BOOLEAN /\ SingleFault \in BOOLEAN

VARIABLES
    a, b,      \* the copies
    value,     \* the record in RAM; after a cut, the one that was there
    last,      \* the record of the last save or load that was completed
    before,    \* the record the last save was to replace
    pc,        \* the next step of the save, or "boot" or "run"
    scarred    \* the save began, or went on, with only one good copy

vars == <<a, b, value, last, before, pc, scarred>>

Saving == {"eraseA", "writeA", "eraseB", "writeB"}

TypeOK ==
    /\ a \in Values \cup {Torn} /\ b \in Values \cup {Torn}
    /\ value \in Values /\ last \in Values /\ before \in Values
    /\ pc \in {"boot", "run"} \cup Saving
    /\ scarred \in BOOLEAN

\* A new board.
Init ==
    /\ a = Torn /\ b = Torn
    /\ value = Default /\ last = Default /\ before = Default
    /\ pc = "boot" /\ scarred = FALSE

------------------------------------------------------------------------------
(* Loading                                                                  *)

LoadA ==
    /\ pc = "boot" /\ a # Torn
    /\ value' = a /\ last' = a /\ pc' = "run"
    /\ UNCHANGED <<a, b, before, scarred>>

\* flash_read_config_with_crc_restore heals the first bank from the second,
\* eeprom_read_config_with_crc_fallback does not.
LoadB ==
    /\ pc = "boot" /\ a = Torn /\ b # Torn
    /\ value' = b /\ last' = b /\ scarred' = FALSE
    /\ pc' = IF Restores THEN "eraseA" ELSE "run"
    /\ UNCHANGED <<a, b, before>>

\* Neither copy sums, or the EEPROM does not answer: the defaults are saved
\* over whatever is there.
LoadDefault ==
    /\ pc = "boot"
    /\ \/ a = Torn /\ b = Torn
       \/ ~SingleFault /\ ~Restores
    /\ value' = Default /\ last' = Default /\ scarred' = FALSE
    /\ pc' = "eraseA"
    /\ UNCHANGED <<a, b, before>>

------------------------------------------------------------------------------
(* Saving                                                                   *)

\* A field of the record changes and the record is saved.
Save ==
    /\ pc = "run"
    /\ value' \in Values
    /\ before' = value
    /\ pc' = "eraseA" /\ scarred' = (a # value \/ b # value)
    /\ UNCHANGED <<a, b, last>>

\* Mutant: both copies are erased before the first is written.
EraseBoth == /\ pc = "eraseA" /\ a' = Torn /\ b' = Torn /\ pc' = "writeA"
             /\ UNCHANGED <<value, last, before, scarred>>

EraseA == /\ pc = "eraseA" /\ a' = Torn /\ pc' = "writeA"
          /\ UNCHANGED <<b, value, last, before, scarred>>

WriteA == /\ pc = "writeA" /\ a' = value /\ pc' = "eraseB"
          /\ UNCHANGED <<b, value, last, before, scarred>>

EraseB == /\ pc = "eraseB" /\ b' = Torn /\ pc' = "writeB"
          /\ UNCHANGED <<a, value, last, before, scarred>>

WriteB == /\ pc = "writeB" /\ b' = value /\ pc' = "run" /\ last' = value
          /\ UNCHANGED <<a, value, before, scarred>>

\* An erase that fails leaves its copy, a write that fails leaves it torn, and
\* the save goes on to the other copy; what both return is only logged.
Fails ==
    /\ SingleFault => ~scarred
    /\ \/ /\ pc \in {"eraseA", "writeA"} /\ pc' = "eraseB"
          /\ scarred' = TRUE /\ UNCHANGED last
       \/ /\ pc \in {"eraseB", "writeB"} /\ pc' = "run"
          /\ last' = value /\ UNCHANGED scarred
    /\ UNCHANGED <<a, b, value, before>>

\* A reset or a loss of power.
Cut ==
    /\ pc # "boot" /\ (SingleFault /\ pc \in Saving => ~scarred)
    /\ pc' = "boot"
    /\ UNCHANGED <<a, b, value, last, before, scarred>>

------------------------------------------------------------------------------
Next == \/ LoadA \/ LoadB \/ LoadDefault
        \/ Save \/ EraseA \/ WriteA \/ EraseB \/ WriteB \/ Fails
        \/ Cut

Spec == Init /\ [][Next]_vars

------------------------------------------------------------------------------
Loaded == IF a # Torn THEN a ELSE IF b # Torn THEN b ELSE Default

\* What a boot loads is the record as it was before the save that a cut or a
\* failed write broke, or as that save was to leave it: "a power loss mid-write
\* can't brick the stored config" (flash.c:189).
Survives == pc = "boot" => Loaded \in {last, value, before}

\* Between saves the copies give the record, or the one before it when the
\* first copy could not be erased.
Settled == /\ last = value
           /\ \/ a = value
              \/ a \in {Torn, before} /\ b = value

\* A save that began on two good copies, or that heals the first one.
OnCourse ==
    /\ pc \in {"eraseA", "writeA", "eraseB"} =>
         \/ b = last
         \/ b = Torn /\ value = Default /\ last = Default
    /\ pc = "eraseA" => a = Torn \/ (a = last /\ before = last)
    /\ pc = "writeA" => a = Torn
    /\ pc \in {"eraseB", "writeB"} => a = value
    /\ pc = "writeB" => b = Torn

\* A save with only one good copy to go by.
OneLeft ==
    /\ pc = "writeA" => a = Torn
    /\ pc \in {"eraseB", "writeB"} => a \in {value, Torn, before}
    /\ pc = "writeB" => b = Torn

\* The strengthening that is inductive while faults come one at a time.
Inv ==
    /\ Survives
    /\ pc = "run" => Settled
    /\ (pc \in Saving /\ ~scarred) => OnCourse
    /\ (pc \in Saving /\ scarred) => OneLeft
=============================================================================
