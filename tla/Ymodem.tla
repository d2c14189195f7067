------------------------------- MODULE Ymodem -------------------------------
(***************************************************************************)
(* A firmware image sent to the BLE coprocessor over its serial line       *)
(* (bleware/src/ymodem.c) and started as an update (cmd_update.c).  The    *)
(* receiver knows a block by its number alone; the two CRC bytes of a      *)
(* block are read and not looked at.  The sender is the usual one: it      *)
(* waits for the answer to a block and sends it again when none comes.     *)
(* Block 0 is the name, 1..NBlocks the data, then an EOT and a block 0     *)
(* without a name.                                                         *)
(***************************************************************************)
EXTENDS Integers, Sequences

CONSTANTS NBlocks,     \* data blocks of the image
          Wrap,        \* block numbers are taken modulo this (256)
          MaxRetries,  \* MAX_RETRIES
          MaxResends,  \* the sender's patience
          MaxFaults    \* messages damaged, lost or late

YmodemAssumption == /\ NBlocks \in Nat \ {0} /\ Wrap \in Nat \ {0, 1}
                    /\ MaxRetries \in Nat /\ MaxResends \in Nat /\ MaxFaults \in Nat

VARIABLES seq,      \* blk_seq
          retries, started,
          got,      \* the blocks handed to the write callback
          result,   \* none, ok, cancel or error
          pend,     \* the boot loader's marker: an image waits
          line,     \* what travels to the receiver
          acks,     \* answers that travel to the sender
          at,       \* the sender's step: 0..NBlocks, then EOT, end, done
          resends, faults

vars == <<seq, retries, started, got, result, pend, line, acks, at, resends, faults>>

Eot == NBlocks + 1
End == NBlocks + 2
Done == NBlocks + 3
Good(i) == [n |-> i, data |-> "good"]
Image == [i \in 1..NBlocks |-> Good(i)]

Init == /\ seq = 0 /\ retries = 0 /\ started = FALSE
        /\ got = <<>> /\ result = "none" /\ pend = FALSE
        /\ line = <<>> /\ acks = <<>>
        /\ at = 0 /\ resends = 0 /\ faults = 0

(***************************************************************************)
(* The receiver, ymodem_engine_receive                                     *)
(***************************************************************************)
Answer(n) == acks' = acks \o [i \in 1..n |-> "ack"]
Over(r) == result' = r /\ UNCHANGED <<seq, retries, started, got>>

(* an EOT ends the file and the numbers start again                        *)
HearEot == /\ seq' = 0 /\ retries' = 0 /\ Answer(1)
           /\ UNCHANGED <<started, got, result>>

(* a block that is not the one awaited is answered unless it is block 0    *)
Unawaited(b) == b.n % Wrap # seq % Wrap
HearOther(b) == /\ retries' = 0
                /\ Answer(IF b.n % Wrap # 0 THEN 1 ELSE 0)
                /\ UNCHANGED <<seq, started, got, result>>

(* the nameless block 0 ends the batch                                     *)
HearEnd == Over("ok") /\ Answer(1)

HearName == /\ seq' = 1 /\ started' = TRUE /\ retries' = 0 /\ Answer(1)
            /\ UNCHANGED <<got, result>>

HearData(b) == /\ got' = Append(got, b)
               /\ seq' = seq + 1 /\ started' = TRUE /\ retries' = 0 /\ Answer(1)
               /\ UNCHANGED result

Block(b) == IF Unawaited(b) THEN HearOther(b)
            ELSE IF seq = 0 THEN (IF b.data = "end" THEN HearEnd ELSE HearName)
            ELSE HearData(b)

(* Nothing readable: only a transfer that started counts.  The NAK of      *)
(* every twentieth time is never reached.                                  *)
RetryForever == /\ UNCHANGED <<seq, retries, started, got, result>>
RetryLate == IF started /\ retries > MaxRetries THEN Over("error")
             ELSE /\ retries' = IF started THEN retries + 1 ELSE retries
                  /\ UNCHANGED <<seq, started, got, result>>
Retry == IF started /\ retries >= MaxRetries THEN Over("error")
         ELSE /\ retries' = IF started THEN retries + 1 ELSE retries
              /\ UNCHANGED <<seq, started, got, result>>

Hear == /\ result = "none" /\ line # <<>>
        /\ line' = Tail(line)
        /\ LET b == Head(line)
           IN IF b.data = "noise" THEN Retry /\ UNCHANGED acks
              ELSE IF b.n = Eot THEN HearEot ELSE Block(b)
        /\ UNCHANGED <<pend, at, resends, faults>>

HearNothing == /\ result = "none" /\ line = <<>>
               /\ Retry
               /\ UNCHANGED <<pend, line, acks, at, resends, faults>>

(* firmware_update_start: the header, then the CRC over the whole image;   *)
(* the marker is written and the coprocessor resets.                       *)
HeaderRight == got # <<>> /\ got[1] = Good(1)
CrcOfBlocks == Len(got) = NBlocks
CrcRight == got = Image
Update == /\ result = "ok" /\ ~pend
          /\ HeaderRight /\ CrcRight
          /\ pend' = TRUE
          /\ UNCHANGED <<seq, retries, started, got, result, line, acks, at, resends, faults>>

(***************************************************************************)
(* The sender and the line                                                 *)
(***************************************************************************)
Message(i) == IF i = End THEN [n |-> 0, data |-> "end"] ELSE Good(i)
Quiet == UNCHANGED <<seq, retries, started, got, result, pend>>

(* The first sending of each step follows the answer to the last one.      *)
Fates(m) == {m} \cup (IF faults < MaxFaults THEN {[m EXCEPT !.data = "noise"], [m EXCEPT !.data = "bad"]} ELSE {})
Transmit(i) == \E m \in Fates(Message(i)) :
                 /\ m = Message(i) \/ (m.data = "bad" => i \in 1..NBlocks)
                 /\ line' = Append(line, m)
                 /\ faults' = IF m = Message(i) THEN faults ELSE faults + 1

Start == /\ at = 0 /\ resends = 0 /\ line = <<>> /\ acks = <<>> /\ ~started
         /\ Transmit(0) /\ resends' = 1
         /\ UNCHANGED <<acks, at>> /\ Quiet
Acked == /\ acks # <<>> /\ at < Done
         /\ acks' = Tail(acks) /\ at' = at + 1 /\ resends' = 1
         /\ IF at = End THEN UNCHANGED <<line, faults>> ELSE Transmit(at + 1)
         /\ Quiet
Resend == /\ at < Done /\ resends \in 1..MaxResends
          /\ line = <<>> /\ (acks = <<>> \/ faults < MaxFaults)
          /\ line' = <<Message(at)>> /\ resends' = resends + 1
          /\ faults' = IF acks = <<>> THEN faults ELSE faults + 1
          /\ UNCHANGED <<acks, at>> /\ Quiet
LoseAck == /\ acks # <<>> /\ faults < MaxFaults
           /\ acks' = Tail(acks) /\ faults' = faults + 1
           /\ UNCHANGED <<line, at, resends>> /\ Quiet

Next == Hear \/ HearNothing \/ Update \/ Start \/ Acked \/ Resend \/ LoseAck

Spec == Init /\ [][Next]_vars /\ WF_vars(Hear) /\ WF_vars(HearNothing)

----------------------------------------------------------------------------
(* Values of the variables.  No message is handed over twice: the receiver *)
(* hands over at most the blocks of the image and, when it never heard the *)
(* EOT, the nameless block behind them.                                    *)
TypeOK == /\ seq \in 0..End /\ retries \in 0..MaxRetries /\ started \in BOOLEAN
          /\ result \in {"none", "ok", "error"} /\ pend \in BOOLEAN
          /\ Len(got) <= Eot
          /\ at \in 0..Done /\ resends \in 0..MaxResends + 1 /\ faults \in 0..MaxFaults

(* A block is written in its own place or whole turns of the numbers away  *)
(* from it.  No more is true: a receiver that waits for a damaged block    *)
(* answers every other one, and takes the one a turn later for it.         *)
InOrder == \A i \in DOMAIN got : got[i].n % Wrap = i % Wrap

(* An image that the boot loader is told to take is the sender's, whole,   *)
(* although neither the transfer's result nor its blocks say so.           *)
MarkedIsWhole == pend => got = Image

(* A transfer that started ends.                                           *)
Ended == result # "none" \/ ~started
=============================================================================
