------------------------------- MODULE MCLinks ------------------------------
(*****************************************************************************)
(* The timers of the main controller and its two serial links: the queue to  *)
(* the Bluetooth coprocessor, once with all its messages and no commands, so *)
(* that the sequence numbers wrap (wrap), once with commands and every bike  *)
(* state and one message less (ble), and the table of the motor controller.  *)
(* The machines share neither steps nor state: "which" names the one a       *)
(* behaviour is of, and a name that two of them use is one variable here.    *)
(* LinksProofs has theorems about it for every value of its constants.       *)
(*****************************************************************************)
EXTENDS Scheduler

CONSTANTS p1, k1, k2,  \* a client that polls a timer, clients with a callback
          BleSlots, SeqMod, Fresh, BleRetry, PacketTicks, BleMsgs, Cmds, BikeStates,
          WireCap,           \* of both links
          MotorSlots, HandleMod, MotorRetry, BetweenTicks, BacklogLimit, MotorMsgs,
          IsrSends, MotorCmds,
          c1                 \* a command of a peer

VARIABLES which, queue, txSeq, scan, retry, packet, stalls, rebooting, bike, toBle, toMain,
          fate, sent, got, cmd, ran, entries, nextHandle, picked, between, committed, recovery,
          mode, toMotor, told, raced
all == <<which, allocated, armed, counters, callbacks, ref, pc, me, byte, slot, ticks, reg,
         isr, queue, txSeq, scan, retry, packet, stalls, rebooting, bike, toBle, toMain, fate,
         sent, got, cmd, ran, entries, nextHandle, picked, between, committed, recovery, mode,
         toMotor, told, raced>>

Ble == INSTANCE SspBle WITH NSlots <- BleSlots, RetryTicks <- BleRetry, NMsgs <- BleMsgs
Motor == INSTANCE Sspm WITH NSlots <- MotorSlots, RetryTicks <- MotorRetry, NMsgs <- MotorMsgs,
        table <- entries

ASSUME MCLinksAssumption == Ble!SspBleAssumption /\ Motor!SspmAssumption

TimersInit == which = "timers" /\ Init /\ queue = 0 /\ txSeq = 0 /\ scan = 0 /\ retry = 0 /\
           packet = 0 /\ stalls = 0 /\ rebooting = 0 /\ bike = 0 /\ toBle = 0 /\ toMain = 0 /\
           fate = 0 /\ sent = 0 /\ got = 0 /\ cmd = 0 /\ ran = 0 /\ entries = 0 /\
           nextHandle = 0 /\ picked = 0 /\ between = 0 /\ committed = 0 /\ recovery = 0 /\
           mode = 0 /\ toMotor = 0 /\ told = 0 /\ raced = 0
TimersStill == UNCHANGED <<which, queue, txSeq, scan, retry, packet, stalls, rebooting, bike,
            toBle, toMain, fate, sent, got, cmd, ran, entries, nextHandle, picked, between,
            committed, recovery, mode, toMotor, told, raced>>
TimersNext == which = "timers" /\ Next /\ TimersStill
WrapInit == which = "wrap" /\ Ble!Init /\ Init /\ me = p1 /\ entries = 0 /\ nextHandle = 0 /\
           picked = 0 /\ between = 0 /\ committed = 0 /\ recovery = 0 /\ mode = 0 /\
           toMotor = 0 /\ told = 0 /\ raced = 0
WrapStill == UNCHANGED <<which, allocated, armed, counters, callbacks, ref, pc, me, byte, slot,
            ticks, reg, isr, entries, nextHandle, picked, between, committed, recovery, mode,
            toMotor, told, raced>>
WrapNext == which = "wrap" /\ Ble!Next /\ bike' = bike /\ cmd' = cmd /\ WrapStill
BleInit == which = "ble" /\ Ble!Init /\ Init /\ me = p1 /\ entries = 0 /\ nextHandle = 0 /\
           picked = 0 /\ between = 0 /\ committed = 0 /\ recovery = 0 /\ mode = 0 /\
           toMotor = 0 /\ told = 0 /\ raced = 0
BleStill == UNCHANGED <<which, allocated, armed, counters, callbacks, ref, pc, me, byte, slot,
            ticks, reg, isr, entries, nextHandle, picked, between, committed, recovery, mode,
            toMotor, told, raced>>
BleNext == which = "ble" /\ Ble!Next /\ fate'[BleMsgs] = "new" /\ BleStill
MotorInit == which = "motor" /\ Motor!Init /\ Init /\ me = p1 /\ queue = 0 /\ txSeq = 0 /\
           packet = 0 /\ stalls = 0 /\ rebooting = 0 /\ bike = 0 /\ toBle = 0 /\ cmd = 0 /\
           ran = 0
MotorStill == UNCHANGED <<which, allocated, armed, counters, callbacks, ref, pc, me, byte,
            slot, ticks, reg, isr, queue, txSeq, packet, stalls, rebooting, bike, toBle, cmd,
            ran>>
MotorNext == which = "motor" /\ Motor!Next /\ MotorStill

AnyInit == TimersInit \/ WrapInit \/ BleInit \/ MotorInit
AnyNext == TimersNext \/ WrapNext \/ BleNext \/ MotorNext

Fair1 == \/ which = "ble" /\ Ble!Pump /\ BleStill
         \/ which = "motor" /\ Motor!EnqueueStore /\ MotorStill
Fair2 == \/ which = "ble" /\ Ble!Tick /\ BleStill
         \/ which = "motor" /\ Motor!Tick /\ MotorStill
Fair3 == \/ which = "motor" /\ Motor!UpdateDone /\ MotorStill
Fair4 == \/ which = "motor" /\ Motor!Pump /\ MotorStill

AnySpec == AnyInit /\ [][AnyNext]_all /\ WF_all(Fair1) /\ WF_all(Fair2) /\ WF_all(Fair3) /\ SF_all(Fair4)

TypesOK == /\ which = "timers" => TypeOK
           /\ which = "wrap" => Ble!TypeOK
           /\ which = "ble" => Ble!TypeOK
           /\ which = "motor" => Motor!TypeOK

\* A behaviour of the queue to the coprocessor.
Linked == which \in {"wrap", "ble"}

(* The sequence numbers and the handles of queued messages stay apart over *)
(* a wrap of their counters, unless a callback sends inside the call that  *)
(* is storing a message (ssp.c:177-212, 369-406).                          *)
UniqueNames == /\ Linked => Ble!UniqueNames
               /\ which = "motor" => Motor!UniqueNames

(* What is taken for delivered was: a command the coprocessor believes     *)
(* done was run, a message the motor table released has arrived.           *)
DoneIsTrue == /\ Linked => Ble!DoneIsTrue
              /\ which = "motor" => Motor!DoneIsTrue

(* The motor is not put into recovery for a single lost message            *)
(* (ssp.c:440-446).                                                        *)
RecoveryEarned == which = "motor" => Motor!RecoveryEarned

(* The queue to the coprocessor keeps the contract of a transport that may *)
(* lose and repeat (ssp.c:177-212, 542-654).                               *)
Transport == INSTANCE Delivery WITH Msgs <- Ble!Msgs, MaxSends <- Ble!MaxSends,
               fate <- IF Linked THEN fate ELSE [n \in Ble!Msgs |-> "new"],
               sent <- IF Linked THEN sent ELSE [n \in Ble!Msgs |-> 0],
               got <- IF Linked THEN got ELSE [n \in Ble!Msgs |-> 0]
Implements == Transport!Spec

(* Every queued message is released or given up, and the stall counter     *)
(* does not stay at its limit, whatever the wires do.                      *)
Resolved == []<>(/\ which = "ble" => Ble!Quiet
                 /\ which = "motor" => Motor!Quiet)
=============================================================================
