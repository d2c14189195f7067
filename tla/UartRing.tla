------------------------------ MODULE UartRing ------------------------------
(***************************************************************************)
(* A serial line of the main controller: a transmit and a receive ring     *)
(* (mainware/src/util.c, ringbuf_push_byte and ringbuf_get_byte) shared by *)
(* the main loop and the UART's interrupt handler (ssp.c and console.c:    *)
(* sspm_bus_send_byte, sspm_bus_get_byte, usart6_irq_handler and their     *)
(* twins for the other lines, which are the same code).                    *)
(*                                                                         *)
(* The main loop keeps the handler out of the ring it works on by masking  *)
(* one of two enable bits of CR1, a read-modify-write of a register the    *)
(* handler also writes; the rings themselves are plain memory, so every    *)
(* access of the main loop is a step of its own.  The handler runs to its  *)
(* end between two of those steps.                                         *)
(*                                                                         *)
(* On the console's line a SysTick callback may print too                  *)
(* (motor_post_update_cb and others call g_log_func): MaxPrints bytes of   *)
(* it, 0 for a line no callback prints on.                                 *)
(***************************************************************************)
EXTENDS Integers, Sequences, SequencesExt

CONSTANTS Cap,        \* ring capacity
          MaxBytes,   \* bound: bytes sent by the main loop, and bytes received
          MaxPrints   \* bound: bytes a timer callback prints on this line

UartRingAssumption ==
    Cap \in Nat \ {0} /\ MaxBytes \in Nat /\ MaxPrints \in Nat

NoByte == 0
Bytes == 1 .. 2 * MaxBytes + MaxPrints

VARIABLES
    tx, rx,   \* the rings: data, head, tail, count
    cr1,      \* the enable bits that are set: "txe", "rxne"
    dr,       \* the receiver's data register
    pc, op,   \* the main loop's step, and what it does
    reg,      \* the CR1 value it has loaded
    i, n,     \* the index and the count it has loaded
    given,    \* bytes the main loop has tried to send
    printed,  \* bytes printed by the callback
    arrived,  \* bytes that came in on the wire
    queued, out,   \* bytes accepted by the transmit ring, bytes on the wire
    heard, taken,  \* bytes accepted by the receive ring, bytes read
    tangled        \* a callback has printed inside an operation of the main loop

regs  == <<reg, i, n>>
made  == <<given, printed, arrived>>
trace == <<queued, out, heard, taken>>
vars  == <<tx, rx, cr1, dr, pc, op, regs, made, trace, tangled>>

\* One cell more than the capacity: the index is wrapped after its use.
EmptyRing == [data |-> [k \in 0 .. Cap |-> NoByte], head |-> 0, tail |-> 0, count |-> 0]

Init ==
    /\ tx = EmptyRing /\ rx = EmptyRing
    /\ cr1 = {"rxne"} /\ dr = NoByte
    /\ pc = "idle" /\ op = "send"
    /\ reg = {} /\ i = 0 /\ n = 0
    /\ given = 0 /\ printed = 0 /\ arrived = 0
    /\ queued = <<>> /\ out = <<>> /\ heard = <<>> /\ taken = <<>>
    /\ tangled = FALSE

\* Mutant: off by one.
FullLate(r) == r.count > Cap

Full(r) == r.count >= Cap

\* Mutant: off by one.
WrappedLate(k) == IF k > Cap THEN 0 ELSE k

Wrapped(k) == IF k >= Cap THEN 0 ELSE k

\* ringbuf_push_byte and ringbuf_get_byte run without interruption
Pushed(r, b) == [r EXCEPT !.data[r.head] = b, !.head = Wrapped(r.head + 1), !.count = @ + 1]
Popped(r)    == [r EXCEPT !.tail = Wrapped(r.tail + 1), !.count = @ - 1]

----------------------------------------------------------------------------
(* The main loop: mask, ringbuf_push_byte or ringbuf_get_byte, unmask      *)

Goto(from, to) == pc = from /\ pc' = to
Bit == IF op = "send" THEN "txe" ELSE "rxne"

Call(o) ==
    /\ Goto("idle", "mask") /\ op' = o
    /\ reg' = cr1
    /\ IF o = "send" THEN given < MaxBytes /\ given' = given + 1 ELSE UNCHANGED given
    /\ UNCHANGED <<tx, rx, cr1, dr, i, n, printed, arrived, trace, tangled>>

\* Mutant: the handler is not kept out.
MaskNothing == Goto("mask", "body") /\ UNCHANGED <<tx, rx, cr1, dr, op, regs, made, trace>>

Mask ==
    /\ Goto("mask", "body") /\ cr1' = reg \ {Bit}
    /\ UNCHANGED <<tx, rx, dr, op, regs, made, trace>>

\* ringbuf_push_byte: a full ring refuses the byte
PushFull ==
    /\ op = "send" /\ Full(tx) /\ Goto("body", "load")
    /\ UNCHANGED <<tx, rx, cr1, dr, op, regs, made, trace>>

PushBegin ==
    /\ op = "send" /\ ~Full(tx) /\ Goto("body", "index")
    /\ i' = tx.head
    /\ queued' = Append(queued, given)
    /\ UNCHANGED <<tx, rx, cr1, dr, op, reg, n, made, out, heard, taken>>

\* ringbuf_get_byte: nothing is read from an empty ring or into a null pointer
PopNothing ==
    /\ op = "flush" \/ (op = "get" /\ rx.count = 0)
    /\ Goto("body", "load")
    /\ UNCHANGED <<tx, rx, cr1, dr, op, regs, made, trace>>

PopBegin ==
    /\ op = "get" /\ rx.count # 0 /\ Goto("body", "index")
    /\ i' = rx.tail
    /\ UNCHANGED <<tx, rx, cr1, dr, op, reg, n, made, trace>>

ring == <<tx, rx>>
Ring(step) ==
    /\ IF op = "send" THEN tx' = [tx EXCEPT ![step.key] = step.value] /\ UNCHANGED rx
                      ELSE rx' = [rx EXCEPT ![step.key] = step.value] /\ UNCHANGED tx
    /\ UNCHANGED <<cr1, dr, op, reg, i, made>>

\* the index is advanced first, then used, then wrapped
Index ==
    /\ Goto("index", "data")
    /\ Ring([key |-> IF op = "send" THEN "head" ELSE "tail", value |-> i + 1])
    /\ UNCHANGED <<n, trace>>

Data ==
    /\ Goto("data", "wrap")
    /\ IF op = "send"
       THEN tx' = [tx EXCEPT !.data[i] = given] /\ UNCHANGED taken
       ELSE taken' = Append(taken, rx.data[i]) /\ UNCHANGED tx
    /\ UNCHANGED <<rx, cr1, dr, op, regs, made, queued, out, heard>>

Wrap ==
    /\ Goto("wrap", "count")
    /\ IF op = "send" THEN Ring([key |-> "head", value |-> Wrapped(tx.head)])
                      ELSE Ring([key |-> "tail", value |-> Wrapped(rx.tail)])
    /\ n' = IF op = "send" THEN tx.count + 1 ELSE rx.count - 1
    /\ UNCHANGED trace

Count ==
    /\ Goto("count", "load")
    /\ Ring([key |-> "count", value |-> n])
    /\ UNCHANGED <<n, trace>>

Load ==
    /\ Goto("load", "unmask") /\ reg' = cr1
    /\ UNCHANGED <<ring, cr1, dr, op, i, n, made, trace>>

\* Mutant: the register is written back as it was.
UnmaskNothing ==
    /\ Goto("unmask", "idle") /\ cr1' = reg
    /\ UNCHANGED <<ring, dr, op, regs, made, trace>>

Unmask ==
    /\ Goto("unmask", "idle") /\ cr1' = reg \cup {Bit}
    /\ UNCHANGED <<ring, dr, op, regs, made, trace>>

Step ==
    /\ \/ Mask \/ PushFull \/ PushBegin \/ PopNothing \/ PopBegin
       \/ Index \/ Data \/ Wrap \/ Count \/ Load \/ Unmask
    /\ UNCHANGED tangled

----------------------------------------------------------------------------
(* The UART and its interrupt handler                                      *)

cpu == <<pc, op, regs>>

\* A byte that comes in before the last one was read is lost (overrun).
Arrive ==
    /\ arrived < MaxBytes /\ arrived' = arrived + 1
    /\ dr' = IF dr = NoByte THEN MaxBytes + arrived + 1 ELSE dr
    /\ UNCHANGED <<ring, cr1, cpu, given, printed, trace, tangled>>

IrqReceive ==
    /\ "rxne" \in cr1 /\ dr # NoByte /\ dr' = NoByte
    /\ IF Full(rx) THEN UNCHANGED <<rx, heard>>
       ELSE rx' = Pushed(rx, dr) /\ heard' = Append(heard, dr)
    /\ UNCHANGED <<tx, cr1, cpu, made, queued, out, taken, tangled>>

IrqTransmit ==
    /\ "txe" \in cr1
    /\ \/ tx.count = 0 /\ cr1' = cr1 \ {"txe"} /\ UNCHANGED <<tx, out>>
       \/ /\ tx.count # 0 /\ tx' = Popped(tx)
          /\ out' = Append(out, tx.data[tx.tail])
          /\ UNCHANGED cr1
    /\ UNCHANGED <<rx, dr, cpu, made, queued, heard, taken, tangled>>

\* The callback prints one byte: mask, push, unmask.
IsrPrint ==
    /\ printed < MaxPrints
    /\ printed' = printed + 1
    /\ cr1' = cr1 \cup {"txe"}
    /\ tangled' = (tangled \/ pc # "idle")
    /\ IF Full(tx) THEN UNCHANGED <<tx, queued>>
       ELSE /\ tx' = Pushed(tx, 2 * MaxBytes + printed + 1)
            /\ queued' = Append(queued, 2 * MaxBytes + printed + 1)
    /\ UNCHANGED <<rx, dr, cpu, given, arrived, out, heard, taken>>

Next ==
    \/ \E o \in {"send", "get", "flush"} : Call(o)
    \/ Step
    \/ Arrive \/ IrqReceive \/ IrqTransmit \/ IsrPrint

Spec == Init /\ [][Next]_vars

\* A call of the main loop ends, and an enabled interrupt is taken.
FairSpec == Spec /\ WF_vars(Step) /\ WF_vars(IrqTransmit) /\ WF_vars(IrqReceive)

----------------------------------------------------------------------------
RingSet == [data : [0 .. Cap -> {NoByte} \cup Bytes], head : 0 .. Cap, tail : 0 .. Cap,
            count : 0 .. Cap]

\* The shape of the rings: the indices stay in the buffer and a byte count
\* never passes the capacity or zero, unless a callback printed inside a push.
TypeOK ==
    /\ rx \in RingSet /\ (tangled \/ tx \in RingSet)
    /\ cr1 \subseteq {"txe", "rxne"} /\ reg \subseteq {"txe", "rxne"}
    /\ dr \in {NoByte} \cup Bytes
    /\ pc \in {"idle", "mask", "body", "index", "data", "wrap", "count", "load", "unmask"}
    /\ op \in {"send", "get", "flush"}
    /\ i \in 0 .. Cap /\ n \in Int
    /\ given \in 0 .. MaxBytes /\ printed \in 0 .. MaxPrints /\ arrived \in 0 .. MaxBytes
    /\ queued \in Seq(Bytes) /\ out \in Seq({NoByte} \cup Bytes)
    /\ heard \in Seq(Bytes) /\ taken \in Seq(Bytes)
    /\ tangled \in BOOLEAN

\* Accepted bytes leave on the wire in the order they were accepted, none
\* twice, none skipped, none stale; a callback that prints between two
\* operations of the main loop takes its place in that order.
SentInOrder == tangled \/ IsPrefix(out, queued)

\* The same of the bytes the main loop reads, whatever the callback does to
\* CR1 and to the other ring meanwhile.
ReadInOrder == IsPrefix(taken, heard)

\* Outside its operations the count of a ring is the distance of its indices.
Consistent(r) == (r.tail + r.count) % Cap = r.head
Working == pc \in {"index", "data", "wrap", "count"}
RingsConsistent ==
    /\ tangled \/ (Working /\ op = "send") \/ Consistent(tx)
    /\ (Working /\ op # "send") \/ Consistent(rx)

\* "TXEIE is masked while bytes are queued directly" (console.c): the handler
\* stays out of a push, except one a callback has printed into.
MaskedWhileQueueing == tangled \/ (Working /\ op = "send" => "txe" \notin cr1)

\* Every accepted byte is transmitted: no interleaving of the writes of CR1
\* by the main loop and by the handler leaves bytes in the ring with the
\* interrupt disabled.
Drained == Len(out) = Len(queued) \/ tangled
AllTransmitted == []<>Drained
=============================================================================
