------------------------------- MODULE SspBle -------------------------------
(***************************************************************************)
(* The SSP link between the main controller and its BLE coprocessor        *)
(* (mainware/src/ssp.c, "src/ssp_ble.c").                                  *)
(*                                                                         *)
(* Outbound, ssp_ble_enqueue_tx_packet puts a message into one of NSlots   *)
(* queue slots under a rolling sequence number; ssp_ble_tx_queue_pump      *)
(* looks at one slot per pass of the main loop and sends it, up to four    *)
(* times, paced by two timers that ALL slots share; an acknowledgement     *)
(* received by ble_ssp_dispatch releases the slot.  Three messages given   *)
(* up with no frame heard in between reboot the coprocessor.  Inbound,     *)
(* ble_ssp_dispatch runs a command and acknowledges it.                    *)
(*                                                                         *)
(* A frame on the wire is a record; SLIP and CRC make a damaged frame a    *)
(* lost one.  The coprocessor's half is not part of the source: it         *)
(* acknowledges what it receives, as the main controller does.             *)
(***************************************************************************)
EXTENDS Integers, Sequences, FiniteSets

CONSTANTS NSlots,       \* 128
          SeqMod,       \* 256: the sequence number is a byte
          Fresh,        \* 5: type of a slot just queued, one more than its sends
          RetryTicks,   \* 100
          PacketTicks,  \* 1
          NMsgs,        \* bound: messages the program sends
          Cmds,         \* the commands the coprocessor may send
          BikeStates,   \* the bike states that may be current: 0x1A and 0x1B,
                        \* 8 and 9 ("shipping"), any other one ("ride")
          WireCap       \* bound: frames a serial line and its rings hold

SspBleAssumption ==
    /\ NSlots \in Nat \ {0} /\ SeqMod \in Nat /\ SeqMod > NSlots
    /\ RetryTicks \in Nat \ {0} /\ PacketTicks \in Nat \ {0}
    /\ NMsgs \in Nat
    /\ Fresh \in Nat /\ Fresh > 1
    /\ "ride" \in BikeStates
    /\ "oadTransfer" \in BikeStates => "oadFailed" \in BikeStates
    /\ BikeStates \subseteq {"ride", "oadTransfer", "oadFailed", "shipping"}
    /\ WireCap \in Nat \ {0}

Slots == 0 .. NSlots - 1
Seqs  == 0 .. SeqMod - 1
MaxSends == Fresh - 1
StallLimit == 2
NoTimer == -1                  \* SCHED_SLOT_NONE: not allocated yet
NoMsg == 0
Msgs == 1 .. NMsgs             \* in the order they are submitted

VARIABLES
    queue,   \* per slot: type (sends left + 1), seq, and the message
    txSeq,   \* g_ssp_tx_seq
    scan,    \* +0x602, the slot pumped last
    retry, packet,   \* the two pacing timers
    stalls,  \* +0x601 got_packet: messages given up since a frame was heard
    rebooting,       \* error flag 0x800000
    bike,    \* maybe_get_bike_state()
    toBle, toMain,   \* the two directions of the wire
    fate, sent, got, \* per message, see Delivery
    cmd, ran         \* per inbound command: its state at the sender, runs here

txq  == <<queue, txSeq, fate>>
pace == <<scan, retry, packet, sent>>
ctl  == <<stalls, rebooting, bike>>
wire == <<toBle, toMain>>
peer == <<got, cmd>>
vars == <<txq, pace, ctl, wire, peer, ran>>

Init ==
    /\ queue = [i \in Slots |-> [type |-> 0, seq |-> 0, msg |-> NoMsg]]
    /\ txSeq = 0 /\ scan = 0
    /\ retry = NoTimer /\ packet = NoTimer
    /\ stalls = 0 /\ rebooting = FALSE /\ bike = "ride"
    /\ toBle = <<>> /\ toMain = <<>>
    /\ fate = [m \in Msgs |-> "new"]
    /\ sent = [m \in Msgs |-> 0] /\ got = [m \in Msgs |-> 0]
    /\ cmd = [c \in Cmds |-> "new"] /\ ran = [c \in Cmds |-> 0]

\* A full transmit ring cuts the frame short: the receiver drops it.
Put(line, frame) == IF Len(line) < WireCap THEN Append(line, frame) ELSE line

Frame(kind, seq, id) == [kind |-> kind, seq |-> seq, id |-> id]

----------------------------------------------------------------------------
(* ssp_ble_enqueue_tx_packet                                               *)

Live(i) == queue[i].type # 0

\* Mutant: a slot is reused once its message was sent.
SentSlots == {i \in Slots : queue[i].type # Fresh}

FreeSlots == {i \in Slots : ~Live(i)}

\* Mutant: the sequence number is taken without a look at the queue.
SeqNeverInUse(s) == FALSE

\* ssp_ble_seq_id_in_use compares every slot, free ones included.
SeqInUse(s) == \E i \in Slots : queue[i].seq = s

\* The first sequence number from txSeq on that no slot carries.
NextSeq(s) ==
    \E k \in 0 .. NSlots :
        /\ s = (txSeq + k) % SeqMod /\ ~SeqInUse(s)
        /\ \A j \in 0 .. k - 1 : SeqInUse((txSeq + j) % SeqMod)

Submits(m) == fate[m] = "new" /\ \A k \in 1 .. m - 1 : fate[k] # "new"

Enqueue(m) ==
    /\ Submits(m)
    /\ \E i \in FreeSlots, s \in Seqs :
         /\ \A j \in FreeSlots : i <= j
         /\ NextSeq(s)
         /\ queue' = [queue EXCEPT ![i] = [type |-> Fresh, seq |-> s, msg |-> m]]
         /\ txSeq' = (s + 1) % SeqMod
    /\ fate' = [fate EXCEPT ![m] = "pending"]
    /\ UNCHANGED <<pace, ctl, wire, peer, ran>>

\* 0xFD (longer than 0x100) or 0xFF: the caller logs "ERROR SSP place" and
\* forgets the message.
EnqueueRefused(m, long) ==
    /\ Submits(m) /\ (long \/ FreeSlots = {})
    /\ fate' = [fate EXCEPT ![m] = "refused"]
    /\ UNCHANGED <<queue, txSeq, pace, ctl, wire, peer, ran>>

----------------------------------------------------------------------------
(* ssp_ble_tx_queue_pump: one call per pass of the main loop               *)

\* Mutant: a timer that ran out is started again at every call.
StartedAgain(timer, n) == IF timer <= 0 THEN n ELSE timer

Started(timer, n) == IF timer = NoTimer THEN n ELSE timer

\* Mutant: off by one.
StalledLate == stalls > StallLimit + 1

Stalled == stalls > StallLimit

\* In the shipping states a stall only resets the counter.
PumpBlocked ==
    /\ Stalled /\ bike = "shipping"
    /\ stalls' = 0
    /\ retry' = Started(retry, RetryTicks) /\ packet' = Started(packet, PacketTicks)
    /\ UNCHANGED <<txq, scan, sent, rebooting, bike, wire, peer, ran>>

\* shifter_mode_command_dispatch(4) overwrites all error flags and leaves
\* the transfer state; anywhere else the coprocessor is reset by a pulse on
\* its pin and with it the commands it was still sending.
Recover ==
    IF ~Stalled THEN UNCHANGED <<rebooting, bike, cmd>>
    ELSE IF bike = "oadTransfer"
    THEN rebooting' = FALSE /\ bike' = "oadFailed" /\ UNCHANGED cmd
    ELSE /\ rebooting' = TRUE
         /\ cmd' = [c \in Cmds |-> IF cmd[c] = "sending" THEN "lost" ELSE cmd[c]]
         /\ UNCHANGED bike

\* A fresh message waits for the packet timer, a sent one for both.
Ready(e, r, p) == e.type # 0 /\ (e.type = Fresh \/ r = 0) /\ p = 0

Serve(i, heard) ==
    LET e == queue[i]
        r == Started(retry, RetryTicks)
        p == Started(packet, PacketTicks)
    IN  IF ~Ready(e, r, p)
        THEN /\ retry' = r /\ packet' = p /\ stalls' = heard
             /\ UNCHANGED <<queue, fate, sent, toBle>>
        ELSE /\ retry' = RetryTicks /\ packet' = PacketTicks
             /\ queue' = [queue EXCEPT ![i].type = @ - 1]
             /\ IF e.type = 1
                THEN /\ stalls' = heard + 1
                     /\ fate' = [fate EXCEPT ![e.msg] = "dropped"]
                     /\ UNCHANGED <<sent, toBle>>
                ELSE /\ stalls' = heard
                     /\ toBle' = Put(toBle, Frame("msg", e.seq, e.msg))
                     /\ sent' = [sent EXCEPT ![e.msg] = @ + 1]
                     /\ UNCHANGED fate

PumpServe ==
    /\ ~(Stalled /\ bike = "shipping")
    /\ Recover
    /\ scan' = (scan + 1) % NSlots
    /\ Serve((scan + 1) % NSlots, IF Stalled THEN 0 ELSE stalls)
    /\ UNCHANGED <<txSeq, toMain, got, ran>>

Pump == PumpBlocked \/ PumpServe

----------------------------------------------------------------------------
(* ble_ssp_dispatch: any valid frame resets the stall counter, and the     *)
(* main loop then clears error flag 0x800000.                              *)

Heard == toMain # <<>> /\ toMain' = Tail(toMain) /\ stalls' = 0 /\ rebooting' = FALSE

\* ble_command: the slot that carries the acknowledged number and is live.
\* Mutants: the first live slot whatever its number; a slot already freed.
AckedFreed(s) == {i \in Slots : queue[i].seq = s}

Acked(s) == {i \in Slots : queue[i].seq = s /\ Live(i)}

DispatchAck ==
    /\ Heard /\ Head(toMain).kind = "ack"
    /\ \/ /\ Acked(Head(toMain).seq) = {}
          /\ UNCHANGED <<queue, fate>>
       \/ \E i \in Acked(Head(toMain).seq) :
            /\ \A j \in Acked(Head(toMain).seq) : i <= j
            /\ queue' = [queue EXCEPT ![i].type = 0]
            /\ fate' = [fate EXCEPT ![queue[i].msg] = "done"]
    /\ UNCHANGED <<txSeq, pace, bike, toBle, peer, ran>>

\* Mutant: the acknowledgement does not wait for the command to be run.
DispatchCmdLater ==
    /\ Heard /\ Head(toMain).kind = "cmd"
    /\ toBle' = Put(toBle, Frame("ack", 0, Head(toMain).id))
    /\ UNCHANGED <<txq, pace, bike, peer, ran>>

\* A command is run before it is acknowledged, every time it arrives.
DispatchCmd ==
    /\ Heard /\ Head(toMain).kind = "cmd"
    /\ ran' = [ran EXCEPT ![Head(toMain).id] = @ + 1]
    /\ toBle' = Put(toBle, Frame("ack", 0, Head(toMain).id))
    /\ UNCHANGED <<txq, pace, bike, peer>>

----------------------------------------------------------------------------
(* The SysTick interrupt, the rest of the program, the coprocessor and the *)
(* wire                                                                    *)

Tick ==
    /\ retry > 0 \/ packet > 0
    /\ retry' = IF retry > 0 THEN retry - 1 ELSE retry
    /\ packet' = IF packet > 0 THEN packet - 1 ELSE packet
    /\ UNCHANGED <<txq, scan, sent, ctl, wire, peer, ran>>

ChangeState ==
    /\ bike' \in BikeStates \ {bike}
    /\ UNCHANGED <<txq, pace, stalls, rebooting, wire, peer, ran>>

BleReceive ==
    /\ toBle # <<>> /\ toBle' = Tail(toBle)
    /\ LET f == Head(toBle) IN
       IF f.kind = "msg"
       THEN /\ got' = [got EXCEPT ![f.id] = @ + 1]
            /\ toMain' = Put(toMain, Frame("ack", f.seq, f.id))
            /\ UNCHANGED cmd
       ELSE /\ cmd' = [cmd EXCEPT ![f.id] = IF @ = "sending" THEN "done" ELSE @]
            /\ UNCHANGED <<got, toMain>>
    /\ UNCHANGED <<txq, pace, ctl, ran>>

BleSend(c) ==
    /\ cmd[c] \in {"new", "sending"}
    /\ cmd' = [cmd EXCEPT ![c] = "sending"]
    /\ Len(toMain) < WireCap /\ ran[c] < MaxSends    \* bound
    /\ toMain' = Append(toMain, Frame("cmd", 0, c))
    /\ UNCHANGED <<txq, pace, ctl, toBle, got, ran>>

Lose ==
    /\ \/ toBle # <<>> /\ toBle' = Tail(toBle) /\ UNCHANGED toMain
       \/ toMain # <<>> /\ toMain' = Tail(toMain) /\ UNCHANGED toBle
    /\ UNCHANGED <<txq, pace, ctl, peer, ran>>

\* A frame is delivered or lost before the 8-bit sequence number comes round
\* to the one it carries: the wire holds WireCap frames, a wrap takes more
\* than SeqMod - NSlots messages.
WireFasterThanWrap ==
    \A s \in Seqs : NextSeq(s) =>
        /\ \A k \in DOMAIN toBle : toBle[k].kind = "msg" => toBle[k].seq # s
        /\ \A k \in DOMAIN toMain : toMain[k].kind = "ack" => toMain[k].seq # s

Dispatch == DispatchAck \/ DispatchCmd

Next ==
    \/ \E m \in Msgs : \/ Enqueue(m) /\ WireFasterThanWrap
                       \/ \E long \in BOOLEAN : EnqueueRefused(m, long)
    \/ Pump \/ Dispatch \/ Tick \/ ChangeState
    \/ BleReceive \/ Lose
    \/ \E c \in Cmds : BleSend(c)

Spec == Init /\ [][Next]_vars

\* The main loop runs for ever and SysTick fires: the pump is called again
\* and again, and the timers run.  Nothing is assumed of the wire.
FairSpec == Spec /\ WF_vars(Pump) /\ WF_vars(Tick)

----------------------------------------------------------------------------
FrameSet == [kind : {"msg", "ack"}, seq : Seqs, id : Msgs \cup Cmds]
            \cup [kind : {"cmd"}, seq : {0}, id : Cmds]

\* The shape of the queue, the timers and the wire; at most three messages
\* are given up before the stall is acted on.
TypeOK ==
    /\ queue \in [Slots -> [type : 0 .. Fresh, seq : Seqs, msg : Msgs \cup {NoMsg}]]
    /\ txSeq \in Seqs /\ scan \in Slots
    /\ retry \in NoTimer .. RetryTicks /\ packet \in NoTimer .. PacketTicks
    /\ stalls \in 0 .. StallLimit + 1
    /\ rebooting \in BOOLEAN /\ bike \in BikeStates
    /\ toBle \in Seq(FrameSet) /\ toMain \in Seq(FrameSet)
    /\ Len(toBle) <= WireCap /\ Len(toMain) <= WireCap
    /\ fate \in [Msgs -> {"new", "refused", "pending", "done", "dropped"}]
    /\ sent \in [Msgs -> 0 .. MaxSends] /\ got \in [Msgs -> 0 .. MaxSends]
    /\ cmd \in [Cmds -> {"new", "sending", "done", "lost"}] /\ ran \in [Cmds -> Nat]

\* No two queued messages share a sequence number, however often the 8-bit
\* counter wraps while one of them is still being retried: an acknowledgement
\* names one message.
UniqueNames ==
    \A i, j \in Slots : i # j /\ Live(i) /\ Live(j) => queue[i].seq # queue[j].seq

\* A message the program was told is queued sits in exactly one slot, and
\* its slot's countdown is the number of transmissions it has left.
QueuedOnce ==
    \A m \in Msgs :
        LET held == {i \in Slots : Live(i) /\ queue[i].msg = m} IN
        IF fate[m] = "pending"
        THEN \E i \in held : held = {i} /\ queue[i].type = Fresh - sent[m]
        ELSE held = {}

\* A released message has reached the coprocessor: late and duplicate
\* acknowledgements never release a message that was not delivered.
DoneWasDelivered == \A m \in Msgs : fate[m] = "done" => got[m] > 0

\* A command the coprocessor believes done has been run here.
DoneIsTrue == \A c \in Cmds : cmd[c] = "done" => ran[c] > 0

\* The transport implements its contract.
Contract == INSTANCE Delivery
Implements == Contract!Spec

\* Every queued message is eventually released or given up, whatever the
\* wire does, even though all slots share one retry timer.
Resolved == \A m \in Msgs : fate[m] = "pending" ~> fate[m] \in {"done", "dropped"}

\* With the stall counter at its limit the pump does something about it.
StallHandled == Stalled ~> ~Stalled

\* The two together: a message is pending only once.
Quiet == ~Stalled /\ \A m \in Msgs : fate[m] # "pending"
=============================================================================
