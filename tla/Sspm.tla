-------------------------------- MODULE Sspm --------------------------------
(***************************************************************************)
(* The SSP link between the main controller and the motor controller       *)
(* (mainware/src/ssp.c, "the inter-module bus"): a table of NSlots         *)
(* outbound messages, each sent once under a rolling handle and given up   *)
(* when the retry timer runs out.  Giving up one message wipes the whole   *)
(* table, and more than BacklogLimit of them with no frame heard in        *)
(* between put the bike's motor into recovery.                             *)
(*                                                                         *)
(* maybe_enqueue_tx_message is called by the main loop and also by a       *)
(* timer callback inside the SysTick interrupt (sspm5_tx_timeout_cb, the   *)
(* wheel-size update), which may come between the main loop's choice of a  *)
(* slot and its store of the record.                                       *)
(*                                                                         *)
(* `mode' is the motor update state machine as this module sees it: it     *)
(* accepts messages when "ready" (g_update_mode = 2), serves the link but  *)
(* takes none when "starting" (0 and 1) and does neither when "busy".      *)
(* The motor's half of the protocol is not part of the source.             *)
(***************************************************************************)
EXTENDS Integers, Sequences, FiniteSets

CONSTANTS NSlots,        \* TX_MSG_SLOTS, 16
          HandleMod,     \* 256: the handle is a byte
          RetryTicks,    \* 0x32
          BetweenTicks,  \* 0xF
          BacklogLimit,  \* 4
          NMsgs,         \* bound: messages the program sends
          IsrSends,      \* whether a timer callback may send one
          MotorCmds,     \* the messages the motor may send
          WireCap        \* bound: frames a serial line and its rings hold

SspmAssumption ==
    /\ NSlots \in Nat \ {0} /\ HandleMod \in Nat /\ HandleMod > NSlots
    /\ RetryTicks \in Nat \ {0} /\ BetweenTicks \in 1 .. RetryTicks
    /\ BacklogLimit \in Nat
    /\ NMsgs \in Nat /\ IsrSends \in BOOLEAN
    /\ WireCap \in Nat \ {0}

Slots   == 0 .. NSlots - 1
Handles == 0 .. HandleMod - 1
NoTimer == -1
NoMsg == 0
Msgs == 1 .. NMsgs                \* in the order they are submitted
Empty == [state |-> 0, handle |-> 0, msg |-> NoMsg]
NoPick == [slot |-> -1, handle |-> 0, msg |-> NoMsg]

VARIABLES
    table,      \* TX_MSG_TABLE: state 2 fresh, 1 sent, 0 free; handle; message
    nextHandle, \* TX_MSG_HANDLE_CTR
    picked,     \* the main loop's enqueue, between choice and store
    scan,       \* SSPM_TBL_SCANIDX
    retry, between,  \* the two pacing timers
    committed,  \* SSPM_TBL_COMMITTED: messages given up since a frame was heard
    recovery,   \* error flag 0x400000
    mode,       \* the update state machine
    toMotor, toMain, \* the two directions of the wire
    fate, sent, got, \* per message
    told,       \* the motor messages sent so far
    raced       \* a callback has sent between a choice and its store

queue == <<table, nextHandle, picked>>
pace  == <<scan, retry, between>>
ctl   == <<committed, recovery>>
wire  == <<toMotor, toMain>>
marks == <<fate, sent, got>>
vars  == <<queue, pace, ctl, mode, wire, marks, told, raced>>

Init ==
    /\ table = [i \in Slots |-> Empty]
    /\ nextHandle = 0 /\ picked = NoPick
    /\ scan = 0 /\ retry = NoTimer /\ between = NoTimer
    /\ committed = 0 /\ recovery = FALSE /\ mode = "ready"
    /\ toMotor = <<>> /\ toMain = <<>>
    /\ fate = [m \in Msgs |-> "new"]
    /\ sent = [m \in Msgs |-> 0] /\ got = [m \in Msgs |-> 0]
    /\ told = {} /\ raced = FALSE

\* A full transmit ring cuts the frame short: the receiver drops it.
Put(line, frame) == IF Len(line) < WireCap THEN Append(line, frame) ELSE line

Frame(kind, handle, id) == [kind |-> kind, handle |-> handle, id |-> id]

Live(i) == table[i].state # 0
AtLoopTop == picked = NoPick

----------------------------------------------------------------------------
(* maybe_enqueue_tx_message.  The free slots are tried in order, each with *)
(* the next handle: a handle in use skips the slot.                        *)

\* Mutant: a slot is reused once its message was sent.
SentSlots == {i \in Slots : table[i].state # 2}

FreeSlots == {i \in Slots : ~Live(i)}

HandleInUse(h) == \E i \in Slots : table[i].handle = h      \* free slots included
Tried(i) == (nextHandle + Cardinality({j \in FreeSlots : j < i})) % HandleMod

\* Mutant: the handle is advanced between its test and its use.
PicksNext(i, h) ==
    /\ i \in FreeSlots /\ h = (Tried(i) + 1) % HandleMod /\ ~HandleInUse(Tried(i))
    /\ \A j \in FreeSlots : j < i => HandleInUse(Tried(j))

Picks(i, h) ==
    /\ i \in FreeSlots /\ h = Tried(i) /\ ~HandleInUse(h)
    /\ \A j \in FreeSlots : j < i => HandleInUse(Tried(j))

NoRoom == \A i \in FreeSlots : HandleInUse(Tried(i))

\* It returns 0, which its callers take for a slot number.
Ignored(m) ==
    /\ mode # "ready"
    /\ fate' = [fate EXCEPT ![m] = "ignored"]
    /\ UNCHANGED <<table, nextHandle>>

\* It returns 0xFD, or 0xFF after a handle for every free slot: the caller
\* logs "ERROR SSP place".
TooLong(m) ==
    /\ mode = "ready" /\ fate' = [fate EXCEPT ![m] = "tooLong"]
    /\ UNCHANGED <<table, nextHandle>>

Refused(m) ==
    /\ mode = "ready" /\ NoRoom
    /\ fate' = [fate EXCEPT ![m] = "noRoom"]
    /\ nextHandle' = (nextHandle + Cardinality(FreeSlots)) % HandleMod
    /\ UNCHANGED table

Stored(i, h, m) ==
    /\ table' = [table EXCEPT ![i] = [state |-> 2, handle |-> h, msg |-> m]]
    /\ nextHandle' = (h + 1) % HandleMod
    /\ fate' = [fate EXCEPT ![m] = "pending"]

Submits(m) ==
    /\ fate[m] = "new" /\ m # picked.msg
    /\ \A k \in 1 .. m - 1 : fate[k] # "new" \/ k = picked.msg
rest == <<pace, ctl, mode, wire, sent, got, told>>

EnqueueFails(m) ==
    /\ AtLoopTop /\ Submits(m)
    /\ Ignored(m) \/ TooLong(m) \/ Refused(m)
    /\ UNCHANGED <<picked, raced, rest>>

EnqueuePick(m) ==
    /\ AtLoopTop /\ Submits(m) /\ mode = "ready"
    /\ \E i \in Slots, h \in Handles :
         /\ Picks(i, h)
         /\ picked' = [slot |-> i, handle |-> h, msg |-> m]
         /\ nextHandle' = h
    /\ UNCHANGED <<table, fate, raced, rest>>

EnqueueStore ==
    /\ ~AtLoopTop
    /\ Stored(picked.slot, picked.handle, picked.msg)
    /\ picked' = NoPick
    /\ UNCHANGED <<raced, rest>>

\* sspm5_tx_timeout_cb: the whole call, between any two steps above.
IsrEnqueue(m) ==
    /\ IsrSends /\ Submits(m)
    /\ \/ Ignored(m) \/ Refused(m)
       \/ /\ mode = "ready"
          /\ \E i \in Slots, h \in Handles : Picks(i, h) /\ Stored(i, h, m)
    /\ raced' = (raced \/ ~AtLoopTop)
    /\ UNCHANGED <<picked, rest>>

----------------------------------------------------------------------------
(* sspm_tx_queue_pump and the main loop's reaction to it                   *)

Served == AtLoopTop /\ mode # "busy"

\* Mutant: a timer that ran out is started again at every call.
StartedAgain(timer, n) == IF timer <= 0 THEN n ELSE timer

Started(timer, n) == IF timer = NoTimer THEN n ELSE timer

\* Mutant: off by one.
BacklogEarly ==
    IF committed < BacklogLimit THEN UNCHANGED <<recovery, mode>>
    ELSE recovery' = TRUE /\ UNCHANGED mode

\* Above the limit the flag is raised at every call and, standing by, the
\* motor is reset (update_mode_request(3), which only acts on "ready").
Backlog ==
    IF committed <= BacklogLimit THEN UNCHANGED <<recovery, mode>>
    ELSE recovery' = TRUE /\ mode' \in {mode, IF mode = "ready" THEN "busy" ELSE mode}

\* A fresh message waits for one timer, a sent one for both.
Ready(e, r, b) == e.state # 0 /\ (e.state = 2 \/ r = 0) /\ b = 0

\* clear_buffer_0x180: every slot is wiped, not just the one given up; the
\* count of them is a byte.
Wipe ==
    /\ table' = [i \in Slots |-> Empty]
    /\ fate' = [m \in Msgs |-> IF fate[m] = "pending" THEN "dropped" ELSE fate[m]]
    /\ committed' = (committed + 1) % 256

Send(i) ==
    /\ table' = [table EXCEPT ![i].state = 1]
    /\ toMotor' = Put(toMotor, Frame("msg", table[i].handle, table[i].msg))
    /\ sent' = [sent EXCEPT ![table[i].msg] = @ + 1]

Serve(i) ==
    LET r == Started(retry, RetryTicks)
        b == Started(between, BetweenTicks)
    IN  IF ~Ready(table[i], r, b)
        THEN /\ retry' = r /\ between' = b
             /\ UNCHANGED <<table, fate, sent, committed, toMotor>>
        ELSE /\ retry' = RetryTicks /\ between' = BetweenTicks
             /\ IF table[i].state = 1
                THEN Wipe /\ UNCHANGED <<sent, toMotor>>
                ELSE Send(i) /\ UNCHANGED <<fate, committed>>

Pump ==
    /\ Served
    /\ Backlog
    /\ scan' = (scan + 1) % NSlots
    /\ Serve((scan + 1) % NSlots)
    /\ UNCHANGED <<nextHandle, picked, toMain, got, told, raced>>

----------------------------------------------------------------------------
(* sspm_rx_reply_handler: any valid frame clears the count, and the main   *)
(* loop then clears error flag 0x400000.                                   *)

Heard ==
    /\ Served /\ toMain # <<>>
    /\ toMain' = Tail(toMain) /\ committed' = 0 /\ recovery' = FALSE

\* tx_table_release_by_handle: the first live slot with that handle.
\* Mutant: the first live slot whatever its handle.
ReleasedAny(h) == {i \in Slots : Live(i)}

Released(h) == {i \in Slots : Live(i) /\ table[i].handle = h}

RxDone ==
    /\ Heard /\ Head(toMain).kind = "ack"
    /\ LET R == Released(Head(toMain).handle) IN
       \/ R = {} /\ UNCHANGED <<table, fate>>
       \/ \E i \in R : /\ \A j \in R : i <= j
                       /\ table' = [table EXCEPT ![i].state = 0]
                       /\ fate' = [fate EXCEPT ![table[i].msg] = "done"]
    /\ UNCHANGED <<nextHandle, picked, pace, mode, toMotor, sent, got, told, raced>>

\* A request is bridged to the BLE handlers and acknowledged.
RxRequest ==
    /\ Heard /\ Head(toMain).kind = "cmd"
    /\ toMotor' = Put(toMotor, Frame("ack", 0, Head(toMain).id))
    /\ UNCHANGED <<queue, pace, mode, marks, told, raced>>

----------------------------------------------------------------------------
(* The SysTick interrupt, the update state machine, the motor and the wire *)

Tick ==
    /\ retry > 0 \/ between > 0
    /\ retry' = IF retry > 0 THEN retry - 1 ELSE retry
    /\ between' = IF between > 0 THEN between - 1 ELSE between
    /\ UNCHANGED <<queue, scan, ctl, mode, wire, marks, told, raced>>

UpdateStep ==
    /\ AtLoopTop
    /\ mode' \in {"ready", "starting", "busy"} \ {mode}
    /\ mode = "ready" => mode' = "busy"
    /\ UNCHANGED <<queue, pace, ctl, wire, marks, told, raced>>

MotorReceive ==
    /\ toMotor # <<>> /\ toMotor' = Tail(toMotor)
    /\ LET f == Head(toMotor) IN
       IF f.kind = "msg"
       THEN /\ got' = [got EXCEPT ![f.id] = @ + 1]
            /\ toMain' = Put(toMain, Frame("ack", f.handle, f.id))
       ELSE UNCHANGED <<got, toMain>>
    /\ UNCHANGED <<queue, pace, ctl, mode, fate, sent, told, raced>>

MotorSend(c) ==
    /\ c \notin told /\ told' = told \cup {c}
    /\ toMain' = Put(toMain, Frame("cmd", 0, c))
    /\ UNCHANGED <<queue, pace, ctl, mode, toMotor, marks, raced>>

Lose ==
    /\ \/ toMotor # <<>> /\ toMotor' = Tail(toMotor) /\ UNCHANGED toMain
       \/ toMain # <<>> /\ toMain' = Tail(toMain) /\ UNCHANGED toMotor
    /\ UNCHANGED <<queue, pace, ctl, mode, marks, told, raced>>

\* Environment: no frame on the wire carries the handle a new message is
\* about to get.  Only NSlots messages can be queued at a time and each one
\* waits for its acknowledgement or RetryTicks, so a wrap of the 8-bit
\* counter outlasts any frame.
OnWire(h) ==
    \/ \E k \in DOMAIN toMotor : toMotor[k].kind = "msg" /\ toMotor[k].handle = h
    \/ \E k \in DOMAIN toMain : toMain[k].kind = "ack" /\ toMain[k].handle = h
WireFasterThanWrap == \A i \in Slots, h \in Handles : Picks(i, h) => ~OnWire(h)

Next ==
    \/ \E m \in Msgs : \/ EnqueueFails(m)
                       \/ EnqueuePick(m) /\ WireFasterThanWrap
                       \/ IsrEnqueue(m) /\ WireFasterThanWrap
    \/ EnqueueStore
    \/ Pump \/ RxDone \/ RxRequest
    \/ Tick \/ UpdateStep \/ MotorReceive \/ Lose
    \/ \E c \in MotorCmds : MotorSend(c)

Spec == Init /\ [][Next]_vars

\* The main loop runs for ever, an update ends (module MotorUpdate) and
\* SysTick fires.  Nothing is assumed of the motor or the wire.
UpdateDone == mode = "busy" /\ UpdateStep
FairSpec ==
    /\ Spec
    /\ WF_vars(EnqueueStore) /\ SF_vars(Pump) /\ WF_vars(Tick)
    /\ WF_vars(UpdateDone)

----------------------------------------------------------------------------
Fates == {"new", "ignored", "tooLong", "noRoom", "pending", "done", "dropped"}

FrameSet == [kind : {"msg", "ack"}, handle : Handles, id : Msgs \cup MotorCmds]
            \cup [kind : {"cmd"}, handle : {0}, id : MotorCmds]

\* The shape of the table, the timers and the wire; a message is sent once.
TypeOK ==
    /\ table \in [Slots -> [state : 0 .. 2, handle : Handles, msg : Msgs \cup {NoMsg}]]
    /\ nextHandle \in Handles
    /\ picked \in [slot : Slots, handle : Handles, msg : Msgs] \cup {NoPick}
    /\ scan \in Slots
    /\ retry \in NoTimer .. RetryTicks /\ between \in NoTimer .. BetweenTicks
    /\ committed \in 0 .. 255 /\ recovery \in BOOLEAN
    /\ mode \in {"ready", "starting", "busy"}
    /\ toMotor \in Seq(FrameSet) /\ toMain \in Seq(FrameSet)
    /\ Len(toMotor) <= WireCap /\ Len(toMain) <= WireCap
    /\ fate \in [Msgs -> Fates]
    /\ sent \in [Msgs -> 0 .. 1] /\ got \in [Msgs -> 0 .. 1]
    /\ told \subseteq MotorCmds /\ raced \in BOOLEAN

\* "A non-colliding rolling handle" (ssp.c): no two queued messages share one.
UniqueHandle ==
    \A i, j \in Slots : i # j /\ Live(i) /\ Live(j) => table[i].handle # table[j].handle

\* The callback's call of the same function breaks that only when it comes
\* between the main loop's choice and its store: called before or after, it
\* leaves handles unique over wraps of the counter and wipes of the table.
UniqueNames == raced \/ UniqueHandle

\* A message released by an acknowledgement has reached the motor: an
\* acknowledgement that comes after the table was wiped, or after its slot
\* was taken by another message, releases nothing.
DoneIsTrue == raced \/ \A m \in Msgs : fate[m] = "done" => got[m] > 0

\* A message the program was told is queued is in the table.
PendingIsQueued ==
    raced \/ \A m \in Msgs : fate[m] = "pending" => \E i \in Slots : Live(i) /\ table[i].msg = m

\* The motor is put into recovery only after more than BacklogLimit messages
\* were given up, however many one wipe of the table throws away.
RecoveryEarned ==
    recovery => Cardinality({m \in Msgs : fate[m] = "dropped"}) > BacklogLimit

\* Every queued message is eventually acknowledged or given up, whatever
\* the wire does and however often an update stops the link.
Quiet == raced \/ \A m \in Msgs : fate[m] # "pending"
Resolved == []<>Quiet
=============================================================================
