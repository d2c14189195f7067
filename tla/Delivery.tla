------------------------------ MODULE Delivery ------------------------------
(***************************************************************************)
(* What a producer on the main controller may rely on when it hands a      *)
(* message to the SSP transport: the message is sent at most MaxSends      *)
(* times, a message reported as done has reached the peer at least once,   *)
(* and a message is given up only after its last transmission.  Copies     *)
(* that are still on the wire may arrive after either.                     *)
(***************************************************************************)
EXTENDS Naturals

CONSTANTS
    Msgs,      \* messages
    MaxSends   \* transmissions of one message, at least one

VARIABLES
    fate,  \* "new", "refused", "pending", "done" or "dropped"
    sent,  \* transmissions of each message
    got    \* copies of each message the peer has processed

vars == <<fate, sent, got>>

Init == /\ fate = [m \in Msgs |-> "new"]
        /\ sent = [m \in Msgs |-> 0]
        /\ got = [m \in Msgs |-> 0]

Becomes(m, from, to) == fate[m] = from /\ fate' = [fate EXCEPT ![m] = to]

Submit(m)   == Becomes(m, "new", "pending") /\ UNCHANGED <<sent, got>>
Refuse(m)   == Becomes(m, "new", "refused") /\ UNCHANGED <<sent, got>>
Transmit(m) == /\ fate[m] = "pending" /\ sent[m] < MaxSends
               /\ sent' = [sent EXCEPT ![m] = @ + 1]
               /\ UNCHANGED <<fate, got>>
Arrive(m)   == /\ got[m] < sent[m]
               /\ got' = [got EXCEPT ![m] = @ + 1]
               /\ UNCHANGED <<fate, sent>>
Confirm(m)  == got[m] > 0 /\ Becomes(m, "pending", "done") /\ UNCHANGED <<sent, got>>
Drop(m)     == sent[m] = MaxSends /\ Becomes(m, "pending", "dropped") /\ UNCHANGED <<sent, got>>

Next == \E m \in Msgs :
            Submit(m) \/ Refuse(m) \/ Transmit(m) \/ Arrive(m) \/ Confirm(m) \/ Drop(m)

Spec == Init /\ [][Next]_vars
=============================================================================
