---------------------------- MODULE BleSessions ----------------------------
(***************************************************************************)
(* The BLE coprocessor's connections (bleware): the connection table, the  *)
(* bluetooth task's message queue and the flat state machine it drives,    *)
(* the handshake that gives a connection its session key, the supervision  *)
(* of connections once a second and the two advertising sets.              *)
(*                                                                         *)
(* A session key is a pointer, and every connection's pointer is to the    *)
(* one working buffer into which each handshake and each backoffice        *)
(* fragment writes the key it needs.  "key" is whether a connection has    *)
(* the pointer, "buffer" is what it points to, and "mine" is the key the   *)
(* phone on that connection uses.  Time is counted in steps of ten         *)
(* seconds: an unauthenticated connection is told to go after Patience of  *)
(* them and the coprocessor resets itself one step later.                  *)
(***************************************************************************)
EXTENDS Integers, Sequences, FiniteSets

CONSTANTS Keys,       \* key records in the coprocessor's store
          Unknown,    \* a key identifier with no record
          NConns,     \* entries of the connection table (3 in the code)
          Patience,   \* 30 s, in steps of the clock
          MaxEvents   \* how often the outside acts or the heap is full

SessionsAssumption == NConns \in Nat \ {0} /\ Patience \in Nat \ {0}
                      /\ MaxEvents \in Nat /\ Unknown \notin Keys

VARIABLES conn,     \* the connection table
          buffer,   \* g_mkey_working_buffer
          q,        \* the bluetooth task's message queue
          sm,       \* g_sm_context[1]
          adv,      \* the radio sends advertising set 1
          off,      \* mainware switched set 1 off
          closing,  \* links the stack was told to close
          events

vars == <<conn, buffer, q, sm, adv, off, closing, events>>

Conns == 0..NConns - 1
Free == [st |-> "free", key |-> FALSE, proven |-> FALSE, age |-> 0, mine |-> Unknown]
Writes == {"auth", "guess", "cmd", "office"}
Msg(ev, c) == [ev |-> ev, c |-> c, w |-> "none"]

Init == /\ conn = [c \in Conns |-> Free]
        /\ buffer = Unknown
        /\ q = <<Msg("boot", 0)>>
        /\ sm = 0
        /\ adv = FALSE /\ off = FALSE
        /\ closing = {}
        /\ events = 0

(* ble_authenticated_connection_count: the entries that have a pointer     *)
Authenticated == {c \in Conns : conn[c].key}
Active == {c \in Conns : conn[c].st # "free"}

(* gap_adv_apply_set1 enables the set, again until the stack agrees        *)
Apply1 == adv' = TRUE /\ off' = FALSE
(* gap_adv_disable_set1                                                    *)
Disable1 == adv' = FALSE
Apply1If(p) == IF p THEN Apply1 ELSE UNCHANGED <<adv, off>>

(* firmware_abort: everything but the key store starts over                *)
Abort == /\ conn' = [c \in Conns |-> Free]
         /\ buffer' = Unknown
         /\ q' = <<Msg("boot", 0)>>
         /\ sm' = 0
         /\ adv' = FALSE /\ off' = FALSE
         /\ closing' = {}

(***************************************************************************)
(* Writes of a phone, taken from the queue by event 0x0F                   *)
(***************************************************************************)
(* auth_derive_session_key: the buffer is cleared, then filled with the    *)
(* record of the identifier, before anything is known about the writer     *)
Derive(k) == buffer' = k

(* the pointer is put in the entry; event 0x18 tells the state machine     *)
KeySet(c, good) == [conn EXCEPT ![c].key = TRUE, ![c].proven = @ \/ good]

(* the sequence number of a message, decrypted with what the pointer shows *)
SeqRight(c) == buffer = conn[c].mine /\ conn[c].proven

(* the existing key is compared with the derived one: both are the buffer  *)
AlreadyAuthed(c) == conn[c].key
AdmittedTwo(c) == Cardinality(Authenticated) < 2 \/ AlreadyAuthed(c)
Admitted(c) == Authenticated = {} \/ AlreadyAuthed(c)

(* the result is negative: ble_post_link_error asks the stack directly     *)
LinkError(c) == /\ closing' = IF c \in Active THEN closing \cup {c} ELSE closing
                /\ UNCHANGED <<conn, adv, off>>

(* A handshake.  The key is set before the sequence number in the message  *)
(* shows whether the phone has it.                                         *)
Handshake(m, rest) ==
  LET k == conn[m.c].mine
      good == m.w = "auth"
  IN /\ Derive(k)
     /\ IF k = Unknown \/ ~Admitted(m.c) \/ m.c \notin Active
        THEN LinkError(m.c) /\ q' = rest
        ELSE /\ conn' = KeySet(m.c, good)
             /\ q' = Append(rest, Msg(IF good THEN "authed" ELSE "disconnect", m.c))
             /\ UNCHANGED <<adv, off, closing>>

(* An encrypted command: without a key the link is closed; the decrypted   *)
(* sequence number is right only if the buffer still holds this phone's    *)
(* key.                                                                    *)
Command(m, rest) ==
  IF ~conn[m.c].key
  THEN LinkError(m.c) /\ q' = rest /\ UNCHANGED buffer
  ELSE /\ q' = IF SeqRight(m.c) THEN rest
               ELSE Append(rest, Msg("disconnect", m.c))
       /\ UNCHANGED <<conn, buffer, adv, off, closing>>

(* A backoffice message: every fragment is decrypted with the              *)
(* manufacturing key, and a whole one counts as activity.                  *)
OfficeKey == "mfg"
Touched(c) == IF c \in Active THEN [conn EXCEPT ![c].age = 0] ELSE conn
Office(m, rest) ==
  /\ buffer' = OfficeKey
  /\ conn' = Touched(m.c)
  /\ q' = rest
  /\ UNCHANGED <<adv, off, closing>>

Write(m, rest) == CASE m.w \in {"auth", "guess"} -> Handshake(m, rest)
                    [] m.w = "cmd" -> Command(m, rest)
                    [] OTHER -> Office(m, rest)

(***************************************************************************)
(* The other events                                                        *)
(***************************************************************************)
Quiet(rest) == q' = rest /\ UNCHANGED <<conn, buffer, adv, off, closing>>

Boot(rest) == /\ q' = rest
              /\ adv' = TRUE
              /\ UNCHANGED <<conn, buffer, off, closing>>

Connected(rest) ==
  /\ Apply1If(Cardinality(Active) < NConns /\ Authenticated = {})
  /\ q' = rest /\ UNCHANGED <<conn, buffer, closing>>

Disconnected(rest) ==
  /\ Apply1If(Authenticated = {})
  /\ q' = rest /\ UNCHANGED <<conn, buffer, closing>>
(* event 0x18: the advertisement goes, but only if the session is still there; the   *)
(* clock it arms asks for other connection parameters 7.5 s later          *)
Authed(rest) ==
  /\ adv' = (adv /\ Authenticated = {})
  /\ q' = rest
  /\ UNCHANGED <<conn, buffer, off, closing>>

(* event 0x19: nobody is left                                              *)
Left(rest) == /\ Apply1If(Authenticated = {})
              /\ q' = rest /\ UNCHANGED <<conn, buffer, closing>>

(* the bluetooth task carries out ble_post_disconnect                      *)
Disconnect(m, rest) == /\ closing' = closing \cup ({m.c} \cap Active)
                       /\ q' = rest
                       /\ UNCHANGED <<conn, buffer, adv, off>>

(* platform_tick_handler looks at the entries in order and stops at the    *)
(* first whose link is gone                                                *)
Gone == {c \in Conns : conn[c].st = "gone"}
Seen(c) == c \in Active /\ \A g \in Gone : c < g
Overdue == {c \in Conns : Seen(c) /\ ~conn[c].key /\ conn[c].age >= Patience}
TickAborts == \E c \in Overdue : conn[c].age > Patience
Nth(i) == CHOOSE c \in Overdue : Cardinality({d \in Overdue : d < c}) = i - 1
Asked == [i \in 1..Cardinality(Overdue) |-> Msg("disconnect", Nth(i))]
Supervise(rest) ==
  /\ ~TickAborts
  /\ \E lost \in {FALSE} \cup {events < MaxEvents} : LET sent == IF lost THEN <<>> ELSE Asked IN
       /\ events' = IF lost THEN events + 1 ELSE events
       /\ IF Gone = {} THEN q' = rest \o sent /\ UNCHANGED conn
          ELSE LET g == CHOOSE c \in Gone : \A d \in Gone : c <= d
               IN conn' = [conn EXCEPT ![g] = Free] /\ q' = rest \o sent \o <<Msg("closed", g)>>
  /\ UNCHANGED <<buffer, adv, off, closing>>

(* commands of mainware: xs3_app_dispatch_command                          *)
Ordered(m, rest) ==
  /\ m.w # "reset"
  /\ CASE m.w = "adv1on" -> Apply1
       [] m.w = "adv1off" -> Disable1 /\ off' = TRUE
       [] OTHER -> UNCHANGED <<adv, off>>
  /\ closing' = IF m.w = "dropall" THEN closing \cup Active ELSE closing
  /\ q' = rest
  /\ UNCHANGED <<conn, buffer>>

(* sm_run_dispatcher: state 0 knows only the boot event                    *)
Handled(m, rest) ==
  CASE m.ev = "boot" -> Boot(rest)
    [] m.ev = "connected" -> Connected(rest)
    [] m.ev = "closed" -> Disconnected(rest)
    [] m.ev = "write" -> Write(m, rest)
    [] m.ev = "authed" -> Authed(rest)
    [] m.ev = "left" -> Left(rest)
    [] m.ev = "tick" -> Supervise(rest)
    [] m.ev = "order" -> Ordered(m, rest)
    [] OTHER -> Disconnect(m, rest)

Dispatch == /\ q # <<>>
            /\ (Head(q).ev # "tick" => UNCHANGED events)
            /\ IF sm = 0 /\ Head(q).ev # "boot" THEN Quiet(Tail(q)) /\ UNCHANGED <<sm, events>>
               ELSE Handled(Head(q), Tail(q)) /\ sm' = 1

(* The abort of the tick and of the orders 0x112, 0x11C and 0x11D          *)
DispatchAbort == /\ q # <<>> /\ sm = 1
                 /\ \/ Head(q).ev = "tick" /\ TickAborts
                    \/ Head(q).ev = "order" /\ Head(q).w = "reset"
                 /\ Abort /\ UNCHANGED events

Happens == events < MaxEvents /\ events' = events + 1

(* state_machine_post without memory for its envelope resets the program   *)
NoMemory == Happens /\ sm = 1 /\ Abort

(***************************************************************************)
(* The outside: the stack, the clock, the phones and mainware              *)
(***************************************************************************)
Connect(c, k) == /\ Happens /\ adv /\ conn[c].st = "free" /\ c \notin closing
                 /\ \A d \in Conns : d < c => conn[d].st # "free"
                 /\ conn' = [conn EXCEPT ![c] = [Free EXCEPT !.st = "up", !.mine = k]]
                 /\ adv' = FALSE
                 /\ q' = Append(q, Msg("connected", c))
                 /\ UNCHANGED <<buffer, sm, off, closing>>

PhoneWrites(c, w) == /\ Happens /\ conn[c].st = "up"
                     /\ q' = Append(q, [ev |-> "write", c |-> c, w |-> w])
                     /\ UNCHANGED <<conn, buffer, sm, adv, off, closing>>

(* the link ends, told by the stack or found out by the tick               *)
Closed(c) == /\ conn[c].st = "up" /\ c \in closing
             /\ conn' = [conn EXCEPT ![c] = Free]
             /\ closing' = closing \ {c}
             /\ q' = Append(q, Msg("closed", c))
             /\ UNCHANGED <<buffer, sm, adv, off, events>>
Vanish(c) == /\ Happens /\ conn[c].st = "up"
             /\ \/ conn' = [conn EXCEPT ![c] = Free] /\ q' = Append(q, Msg("closed", c))
                \/ conn' = [conn EXCEPT ![c].st = "gone"] /\ UNCHANGED q
             /\ closing' = closing \ {c}
             /\ UNCHANGED <<buffer, sm, adv, off>>

(* (and event 0x19, posted by code that is not in this repository)         *)
Orders == {"adv1on", "adv1off", "dropall", "reset", "left"}
Order(w) == /\ Happens
            /\ q' = Append(q, IF w = "left" THEN Msg("left", 0) ELSE [ev |-> "order", c |-> 0, w |-> w])
            /\ UNCHANGED <<conn, buffer, sm, adv, off, closing>>

(* the platform clock; ticks do not pile up                                *)
Clock == /\ sm = 1 /\ \A i \in DOMAIN q : q[i].ev # "tick"
         /\ conn' = [c \in Conns |-> IF conn[c].st = "free" THEN conn[c]
                     ELSE [conn[c] EXCEPT !.age = IF @ > Patience THEN @ ELSE @ + 1]]
         /\ q' = Append(q, Msg("tick", 0))
         /\ UNCHANGED <<buffer, sm, adv, off, closing, events>>

Next == \/ Dispatch
        \/ DispatchAbort
        \/ \E c \in Conns, k \in Keys \cup {Unknown} : Connect(c, k)
        \/ \E c \in Conns, w \in Writes : PhoneWrites(c, w)
        \/ \E c \in Conns : Closed(c)
        \/ \E c \in Conns : Vanish(c)
        \/ \E w \in Orders : Order(w)
        \/ Clock
        \/ NoMemory

Fairness == /\ WF_vars(Dispatch) /\ WF_vars(DispatchAbort) /\ WF_vars(Clock)
            /\ \A c \in Conns : WF_vars(Closed(c))
Spec == Init /\ [][Next]_vars /\ Fairness

----------------------------------------------------------------------------
(* Values of the variables.                                                *)
TypeOK == /\ conn \in [Conns -> [st : {"free", "up", "gone"}, key : BOOLEAN, proven : BOOLEAN,
                                 age : 0..Patience + 1, mine : Keys \cup {Unknown}]]
          /\ buffer \in Keys \cup {Unknown, "mfg"}
          /\ \A i \in DOMAIN q : q[i].c \in Conns
          /\ sm \in 0..1 /\ adv \in BOOLEAN /\ off \in BOOLEAN
          /\ closing \subseteq Conns
          /\ events \in 0..MaxEvents

(* One connection has a session at a time, whatever the order in which the *)
(* phones connect, try, are refused and leave.                             *)
OneSession == Cardinality(Authenticated) <= 1

(* Once every message is handled, a coprocessor without a session that was *)
(* not told to be silent and that has an entry left can be found: the      *)
(* connect, authenticate, close and leave events each decide about the     *)
(* advertisement from what the table says when they are handled, not when  *)
(* they were posted.                                                       *)
Reachable == (sm = 1 /\ q = <<>> /\ Authenticated = {} /\ Cardinality(Active) < NConns /\ ~off)
             => adv

(* The bike does not keep a connection that never authenticates: again and *)
(* again every connection has a session.                                   *)
OnlyGuests == \A c \in Active : conn[c].key

=============================================================================
