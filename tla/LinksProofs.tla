----------------------------- MODULE LinksProofs ----------------------------
(***************************************************************************)
(* Proofs about the timers and the two links of the main controller, for   *)
(* every value of the constants of MCLinks: names stay unique over a wrap  *)
(* of their counters, nothing is taken for delivered that did not arrive,  *)
(* the queue to the coprocessor keeps the contract of Delivery, and        *)
(* recovery of the motor is earned.  The last part takes the properties of *)
(* MCLinks' run from the two links.                                        *)
(*                                                                         *)
(* The timers' invariants are not inductive as they stand.  Inside         *)
(* scheduler_alloc and scheduler_release the main loop works from a byte   *)
(* it loaded before the interrupt may have changed the bitmap, so          *)
(* Registers says what that byte and the other locals still guarantee: the *)
(* interrupt only ever clears bits and forgets references, hence a byte    *)
(* loaded earlier covers every timer that is still held.                   *)
(***************************************************************************)
EXTENDS MCLinks, Integers, Sequences, FiniteSets, FiniteSetTheorems, TLAPS

-----------------------------------------------------------------------------
(* The timers                                                               *)


\* Where the main loop has chosen a free slot, where it works on one.
Choosing == {"clear", "mark", "take"}
Working  == {"count", "callback", "arm", "armed", "disarm", "disarmed", "free", "freed", "forget"}

Registers ==
    /\ pc \in Choosing => slot \notin allocated
    /\ pc \in {"take", "freed"} => \A c \in Clients : ref[c] \in SameByte(slot) => ref[c] \in reg
    /\ pc \in Working => \A c \in Clients : ref[c] = slot => c = me

IInv == TypeOK /\ Exclusive /\ HeldIsAllocated /\ Registers

\* The zeroed timer table at reset satisfies the invariant.
LEMMA InitIInv == Init => IInv
<1> SUFFICES ASSUME Init PROVE IInv
  OBVIOUS
<1> USE SchedulerAssumption DEF Init
<1>1. TypeOK
  BY DEF TypeOK, Slots, Labels
<1>2. Exclusive /\ HeldIsAllocated
  BY DEF Exclusive, HeldIsAllocated, Slots, NoSlot
<1>3. Registers
  BY DEF Registers, Choosing, Working
<1> QED BY <1>1, <1>2, <1>3 DEF IInv

\* The main loop's steps that change nothing but its own registers.
LEMMA CallStep ==
    ASSUME IInv, NEW c \in Clients,
           AllocCall(c) \/ ReleaseCall(c) \/ (\E n \in 1 .. MaxTicks : StartCall(c, n))
    PROVE  IInv'
<1> USE SchedulerAssumption DEF At, Goto, table
<1>1. CASE AllocCall(c)
  <2>1. TypeOK'
    BY <1>1 DEF IInv, TypeOK, AllocCall, Labels
  <2>2. Exclusive' /\ HeldIsAllocated' /\ Registers'
    BY <1>1 DEF IInv, AllocCall, Exclusive, HeldIsAllocated, Registers, Choosing, Working
  <2> QED BY <2>1, <2>2 DEF IInv
<1>2. CASE ReleaseCall(c)
  <2>1. TypeOK'
    BY <1>2 DEF IInv, TypeOK, ReleaseCall, Labels
  <2>2. Exclusive' /\ HeldIsAllocated' /\ Registers'
    BY <1>2 DEF IInv, ReleaseCall, Exclusive, HeldIsAllocated, Registers, Choosing, Working
  <2> QED BY <2>1, <2>2 DEF IInv
<1>3. ASSUME NEW n \in 1 .. MaxTicks, StartCall(c, n) PROVE IInv'
  <2>1. TypeOK'
    BY <1>3 DEF IInv, TypeOK, StartCall, Labels
  <2>2. Exclusive' /\ HeldIsAllocated' /\ Registers'
    BY <1>3 DEF IInv, StartCall, Exclusive, HeldIsAllocated, Registers, Choosing, Working
  <2> QED BY <2>1, <2>2 DEF IInv
<1> QED BY <1>1, <1>2, <1>3

\* The accesses of scheduler_alloc keep the invariant.
LEMMA AllocStep ==
    ASSUME IInv, AllocScan \/ AllocFail \/ AllocBit \/ AllocClear \/ AllocLoad \/ AllocStore
    PROVE  IInv'
<1> USE SchedulerAssumption DEF At, Goto, table, local
<1>1. CASE AllocScan \/ AllocFail
  <2>1. TypeOK'
    BY <1>1 DEF IInv, TypeOK, AllocScan, AllocFail, Labels
  <2>2. Exclusive' /\ HeldIsAllocated' /\ Registers'
    BY <1>1 DEF IInv, AllocScan, AllocFail, Exclusive, HeldIsAllocated, Registers, Choosing, Working
  <2> QED BY <2>1, <2>2 DEF IInv
<1>2. CASE AllocBit
  <2>1. slot' \in Slots \ allocated
    BY <1>2 DEF AllocBit, Byte
  <2>2. TypeOK'
    BY <1>2, <2>1 DEF IInv, TypeOK, AllocBit, Labels
  <2>3. Exclusive' /\ HeldIsAllocated' /\ Registers'
    BY <1>2, <2>1 DEF IInv, AllocBit, Exclusive, HeldIsAllocated, Registers, Choosing, Working
  <2> QED BY <2>2, <2>3 DEF IInv
<1>3. CASE AllocClear
  <2>1. TypeOK'
    BY <1>3 DEF IInv, TypeOK, AllocClear, Labels
  <2>2. Exclusive' /\ HeldIsAllocated' /\ Registers'
    BY <1>3 DEF IInv, AllocClear, Exclusive, HeldIsAllocated, Registers, Choosing, Working
  <2> QED BY <2>1, <2>2 DEF IInv
<1>4. CASE AllocLoad
  <2>1. TypeOK'
    BY <1>4 DEF IInv, TypeOK, AllocLoad, Labels
  <2>2. Exclusive' /\ HeldIsAllocated'
    BY <1>4 DEF IInv, AllocLoad, Exclusive, HeldIsAllocated
  <2>3. \A c \in Clients : ref[c] \in SameByte(slot) => ref[c] \in reg'
    BY <1>4 DEF IInv, AllocLoad, HeldIsAllocated, SameByte, Slots, NoSlot
  <2>4. Registers'
    BY <1>4, <2>3 DEF IInv, AllocLoad, Registers, Choosing, Working, SameByte
  <2> QED BY <2>1, <2>2, <2>4 DEF IInv
<1>5. CASE AllocStore
  <2>1. slot \notin allocated /\ (\A c \in Clients : ref[c] \in allocated \cup {NoSlot})
    BY <1>5 DEF IInv, AllocStore, Registers, HeldIsAllocated, Choosing
  <2>2. slot \in Slots /\ NoSlot \notin Slots
    BY DEF IInv, TypeOK, Slots, NoSlot
  <2>3. TypeOK'
    BY <1>5 DEF IInv, TypeOK, AllocStore, SameByte, Labels
  <2>4. Exclusive'
    BY <1>5, <2>1, <2>2 DEF IInv, TypeOK, AllocStore, Exclusive
  <2>5. HeldIsAllocated'
    BY <1>5, <2>1, <2>2 DEF IInv, TypeOK, AllocStore, Registers, HeldIsAllocated
  <2>6. Registers'
    BY <1>5 DEF AllocStore, Registers, Choosing, Working
  <2> QED BY <2>3, <2>4, <2>5, <2>6 DEF IInv
<1> QED BY <1>1, <1>2, <1>3, <1>4, <1>5

\* The accesses of scheduler_start keep the invariant.
LEMMA StartStep ==
    ASSUME IInv, StartCounter \/ StartCallback \/ StartLoad \/ StartStore
    PROVE  IInv'
<1> USE SchedulerAssumption DEF At, Goto, table, local
<1>1. TypeOK'
  <2>1. CASE StartCounter
    BY <2>1 DEF IInv, TypeOK, StartCounter, Labels
  <2>2. CASE StartCallback
    BY <2>2 DEF IInv, TypeOK, StartCallback, Labels
  <2>3. CASE StartLoad
    BY <2>3 DEF IInv, TypeOK, StartLoad, Labels
  <2>4. CASE StartStore
    BY <2>4 DEF IInv, TypeOK, StartStore, SameByte, Labels
  <2> QED BY <2>1, <2>2, <2>3, <2>4
<1>2. UNCHANGED <<allocated, ref, me, slot>> /\ pc \in Working /\ pc # "freed" /\ pc # "forget"
      /\ pc' \in (Working \cup {"main"}) \ {"freed", "forget"}
  BY DEF StartCounter, StartCallback, StartLoad, StartStore, Working
<1>3. Exclusive' /\ HeldIsAllocated' /\ Registers'
  BY <1>2 DEF IInv, Exclusive, HeldIsAllocated, Registers, Choosing, Working
<1> QED BY <1>1, <1>3 DEF IInv

\* The accesses of scheduler_release keep the invariant.
LEMMA ReleaseStep ==
    ASSUME IInv, DisarmLoad \/ DisarmStore \/ FreeLoad \/ FreeStore \/ Forget
    PROVE  IInv'
<1> USE SchedulerAssumption DEF At, Goto, table, local
<1>1. CASE DisarmLoad \/ DisarmStore
  <2>1. TypeOK'
    BY <1>1 DEF IInv, TypeOK, DisarmLoad, DisarmStore, SameByte, Labels
  <2>2. Exclusive' /\ HeldIsAllocated' /\ Registers'
    BY <1>1 DEF IInv, DisarmLoad, DisarmStore, Exclusive, HeldIsAllocated, Registers, Choosing, Working
  <2> QED BY <2>1, <2>2 DEF IInv
<1>2. CASE FreeLoad
  <2>1. TypeOK'
    BY <1>2 DEF IInv, TypeOK, FreeLoad, Labels
  <2>2. Exclusive' /\ HeldIsAllocated'
    BY <1>2 DEF IInv, FreeLoad, Exclusive, HeldIsAllocated
  <2>3. \A c \in Clients : ref[c] \in SameByte(slot) => ref[c] \in reg'
    BY <1>2 DEF IInv, FreeLoad, HeldIsAllocated, SameByte, Slots, NoSlot
  <2>4. Registers'
    BY <1>2, <2>3 DEF IInv, FreeLoad, Registers, Choosing, Working, SameByte
  <2> QED BY <2>1, <2>2, <2>4 DEF IInv
<1>3. CASE FreeStore
  <2>1. TypeOK'
    BY <1>3 DEF IInv, TypeOK, FreeStore, SameByte, Labels
  <2>2. Exclusive' /\ Registers'
    BY <1>3 DEF IInv, FreeStore, Exclusive, Registers, Choosing, Working
  <2>3. \A c \in Clients : c # me => ref[c] \in allocated' \cup {NoSlot}
    BY <1>3 DEF IInv, FreeStore, Registers, HeldIsAllocated, Working
  <2>4. HeldIsAllocated'
    BY <1>3, <2>3 DEF FreeStore, HeldIsAllocated
  <2> QED BY <2>1, <2>2, <2>4 DEF IInv
<1>4. CASE Forget
  <2>1. TypeOK'
    BY <1>4 DEF IInv, TypeOK, Forget, Labels
  <2>2. Exclusive' /\ HeldIsAllocated' /\ Registers'
    BY <1>4 DEF IInv, TypeOK, Forget, Exclusive, HeldIsAllocated, Registers, Choosing, Working, Slots, NoSlot
  <2> QED BY <2>1, <2>2 DEF IInv
<1> QED BY <1>1, <1>2, <1>3, <1>4

\* The tick interrupt, callbacks included, keeps the invariant.
LEMMA TickStep == ASSUME IInv, TickEnter \/ Tick PROVE IInv'
<1> USE SchedulerAssumption DEF table, local
<1>1. CASE TickEnter
  <2>1. TypeOK'
    BY <1>1 DEF IInv, TypeOK, TickEnter
  <2>2. Exclusive' /\ HeldIsAllocated' /\ Registers'
    BY <1>1 DEF IInv, TickEnter, Exclusive, HeldIsAllocated, Registers
  <2> QED BY <2>1, <2>2 DEF IInv
<1>2. CASE Tick
  <2> isr \in Slots /\ isr' \in 0 .. NSlots /\ UNCHANGED <<pc, local>>
    BY <1>2 DEF IInv, TypeOK, Tick, TickFire, TickCount, TickSkip, InIsr, Slots
  <2>a. Ticked(isr) \in 0 .. MaxTicks
    BY DEF IInv, TypeOK, Ticked
  <2>b. [counters EXCEPT ![isr] = Ticked(isr)] \in [Slots -> 0 .. MaxTicks]
    BY <2>a DEF IInv, TypeOK
  <2>1. CASE TickCount \/ TickSkip
    <3>1. TypeOK'
      <4>1. counters' \in [Slots -> 0 .. MaxTicks]
        BY <2>1, <2>b DEF IInv, TypeOK, TickCount, TickSkip
      <4> QED BY <2>1, <4>1 DEF IInv, TypeOK, TickCount, TickSkip
    <3>2. Exclusive' /\ HeldIsAllocated' /\ Registers'
      BY <2>1 DEF IInv, TickCount, TickSkip, Exclusive, HeldIsAllocated, Registers
    <3> QED BY <3>1, <3>2 DEF IInv
  <2>2. CASE TickFire
    <3> DEFINE c == callbacks[isr]
    <3>1. c \in Clients /\ RunCallback(c)
      BY <2>2 DEF IInv, TypeOK, TickFire, Fires
    <3> HIDE DEF c
    <3>2. CASE ref[c] \notin Slots
      <4> counters' = [counters EXCEPT ![isr] = Ticked(isr)]
          /\ UNCHANGED <<allocated, armed, callbacks, ref>>
        BY <3>1, <3>2 DEF RunCallback
      <4>1. TypeOK'
        <5>1. counters' \in [Slots -> 0 .. MaxTicks]
          BY <2>b, Zenon
        <5> QED BY <5>1 DEF IInv, TypeOK
      <4>2. Exclusive' /\ HeldIsAllocated' /\ Registers'
        BY <3>1, <3>2 DEF IInv, RunCallback, Exclusive, HeldIsAllocated, Registers
      <4> QED BY <4>1, <4>2 DEF IInv
    <3>3. CASE ref[c] \in Slots
      <4>1. /\ allocated' = allocated \ {ref[c]}
            /\ ref' = [ref EXCEPT ![c] = NoSlot]
        BY <3>1, <3>3 DEF RunCallback
      <4>2. TypeOK'
        <5> DEFINE counted == [counters EXCEPT ![isr] = Ticked(isr)]
        <5>1. counted \in [Slots -> 0 .. MaxTicks]
          BY <2>b
        <5>2. counters' = [counted EXCEPT ![ref[c]] = 0]
          BY <3>1, <3>3 DEF RunCallback
        <5> HIDE DEF counted
        <5>z. 0 \in 0 .. MaxTicks
          BY DEF TypeOK, IInv
        <5>3. counters' \in [Slots -> 0 .. MaxTicks]
          BY <5>1, <5>2, <5>z, Zenon
        <5>4. armed' \subseteq Slots /\ callbacks' \in [Slots -> Clients \cup {NoCb}]
          BY <3>1, <3>3 DEF IInv, TypeOK, RunCallback
        <5> QED BY <4>1, <5>3, <5>4 DEF IInv, TypeOK
      <4>3. NoSlot \notin Slots /\ ref'[c] = NoSlot /\ (\A d \in Clients : d # c => ref'[d] = ref[d])
        BY <3>1, <4>1 DEF IInv, TypeOK, Slots, NoSlot
      <4>4. Exclusive'
        BY <4>3 DEF IInv, Exclusive
      <4>5. HeldIsAllocated'
        BY <3>1, <3>3, <4>1, <4>3 DEF IInv, Exclusive, HeldIsAllocated
      <4>6. Registers'
        BY <3>1, <4>1, <4>3 DEF IInv, TypeOK, Registers, SameByte
      <4> QED BY <4>2, <4>4, <4>5, <4>6 DEF IInv
    <3> QED BY <3>2, <3>3
  <2> QED BY <1>2, <2>1, <2>2 DEF Tick
<1> QED BY <1>1, <1>2

\* Every step keeps the invariant.
LEMMA NextIInv == IInv /\ [Next]_vars => IInv'
<1> SUFFICES ASSUME IInv, [Next]_vars PROVE IInv'
  OBVIOUS
<1>1. CASE Call
  BY <1>1, CallStep DEF Call
<1>2. CASE AllocScan \/ AllocFail \/ AllocBit \/ AllocClear \/ AllocLoad \/ AllocStore
  BY <1>2, AllocStep
<1>3. CASE StartCounter \/ StartCallback \/ StartLoad \/ StartStore
  BY <1>3, StartStep
<1>4. CASE DisarmLoad \/ DisarmStore \/ FreeLoad \/ FreeStore \/ Forget
  BY <1>4, ReleaseStep
<1>5. CASE TickEnter \/ Tick
  BY <1>5, TickStep
<1>6. CASE UNCHANGED vars
  BY <1>6 DEF vars, table, local, IInv, TypeOK, Exclusive, HeldIsAllocated, Registers
<1> QED BY <1>1, <1>2, <1>3, <1>4, <1>5, <1>6 DEF Next, Main

\* The invariant holds in every reachable state.
LEMMA Inductive == Spec => []IInv
<1> QED BY InitIInv, NextIInv, PTL DEF Spec

\* The timer table and the registers of the main loop keep their types.
THEOREM TypeCorrect == Spec => []TypeOK
<1>1. IInv => TypeOK
  BY DEF IInv
<1> QED BY <1>1, Inductive, PTL

\* scheduler_alloc never hands out a timer somebody holds, although the
\* interrupt releases timers behind its back.
THEOREM OwnersExclusive == Spec => []Exclusive
<1>1. IInv => Exclusive
  BY DEF IInv
<1> QED BY <1>1, Inductive, PTL

\* No stale bitmap byte ever frees a timer in use.
THEOREM HeldStaysAllocated == Spec => []HeldIsAllocated
<1>1. IInv => HeldIsAllocated
  BY DEF IInv
<1> QED BY <1>1, Inductive, PTL

\* A step changes the counter of a held timer only by the tick, or as an
\* operation of its holder.
LEMMA ForeignStep ==
    ASSUME IInv, Next, NEW c \in Clients,
           ref[c] \in Slots, ref'[c] = ref[c], counters'[ref[c]] # counters[ref[c]]
    PROVE  (InIsr /\ counters'[ref[c]] = counters[ref[c]] - 1) \/ me = c
<1> USE SchedulerAssumption DEF table, local
<1>1. CASE AllocClear
  <2>1. ref[c] # slot
    BY <1>1 DEF AllocClear, At, IInv, Registers, HeldIsAllocated, Choosing, Slots, NoSlot
  <2> QED BY <1>1, <2>1 DEF AllocClear, IInv, TypeOK
<1>2. CASE StartCounter
  <2>1. c # me => ref[c] # slot
    BY <1>2 DEF StartCounter, At, IInv, Registers, Working
  <2> QED BY <1>2, <2>1 DEF StartCounter, IInv, TypeOK
<1>3. CASE Forget
  <2>1. c # me => ref[c] # slot
    BY <1>3 DEF Forget, At, IInv, Registers, Working
  <2> QED BY <1>3, <2>1 DEF Forget, IInv, TypeOK
<1>4. CASE Tick
  <2>1. isr \in Slots /\ counters[isr] \in Nat
    BY <1>4 DEF IInv, TypeOK, Tick, TickFire, TickCount, TickSkip, InIsr, Slots
  <2>2. counters'[ref[c]] = [counters EXCEPT ![isr] = Ticked(isr)][ref[c]]
    <3>1. CASE TickCount \/ TickSkip
      BY <3>1 DEF TickCount, TickSkip
    <3>2. CASE TickFire
      <4> DEFINE d == callbacks[isr]
      <4>1. d \in Clients /\ RunCallback(d)
        BY <3>2 DEF IInv, TypeOK, TickFire, Fires
      <4> HIDE DEF d
      <4>2. CASE ref[d] \in Slots
        <5>1. ref'[d] = NoSlot /\ NoSlot \notin Slots
          BY <4>1, <4>2 DEF RunCallback, IInv, TypeOK, Slots, NoSlot
        <5>2. ref[d] # ref[c]
          BY <4>1, <5>1 DEF IInv, Exclusive
        <5> QED BY <4>1, <4>2, <5>2 DEF RunCallback, IInv, TypeOK
      <4>3. CASE ref[d] \notin Slots
        BY <4>1, <4>3 DEF RunCallback
      <4> QED BY <4>2, <4>3
    <3> QED BY <1>4, <3>1, <3>2 DEF Tick
  <2>3. ref[c] = isr /\ counters'[ref[c]] = counters[ref[c]] - 1
    BY <2>1, <2>2 DEF IInv, TypeOK, Ticked
  <2> QED BY <2>1, <2>3 DEF InIsr, Slots
<1>5. CASE \E d \in Clients :
               AllocCall(d) \/ ReleaseCall(d) \/ (\E n \in 1 .. MaxTicks : StartCall(d, n))
  BY <1>5 DEF AllocCall, ReleaseCall, StartCall
<1>6. CASE AllocScan \/ AllocFail \/ AllocBit \/ AllocLoad \/ AllocStore
  BY <1>6 DEF AllocScan, AllocFail, AllocBit, AllocLoad, AllocStore
<1>7. CASE StartCallback \/ StartLoad \/ StartStore
  BY <1>7 DEF StartCallback, StartLoad, StartStore
<1>8. CASE DisarmLoad \/ DisarmStore \/ FreeLoad \/ FreeStore \/ TickEnter
  BY <1>8 DEF DisarmLoad, DisarmStore, FreeLoad, FreeStore, TickEnter
<1> QED BY <1>1, <1>2, <1>3, <1>4, <1>5, <1>6, <1>7, <1>8 DEF Next, Main, Call

\* Nobody but its holder changes a running timer, except the tick, by one.
THEOREM TimersUndisturbed == Spec => NoForeignChange
<1>1. IInv /\ [Next]_vars =>
        [\A c \in Clients :
          ref[c] \in Slots /\ ref'[c] = ref[c] /\ counters'[ref[c]] # counters[ref[c]]
            => \/ InIsr /\ counters'[ref[c]] = counters[ref[c]] - 1
               \/ me = c]_vars
  BY ForeignStep
<1> QED BY <1>1, Inductive, PTL DEF Spec, NoForeignChange

-----------------------------------------------------------------------------
(* The queue to the coprocessor: the inductive invariant                    *)

\* A live slot holds a pending message, with the transmissions it has left;
\* no two hold the same message or the same sequence number; and a pending
\* message is in a slot.
HeldArePending ==
    \A i \in Ble!Slots : Ble!Live(i) =>
        /\ queue[i].msg \in Ble!Msgs /\ fate[queue[i].msg] = "pending"
        /\ queue[i].type = Fresh - sent[queue[i].msg]

HeldApart ==
    \A i, j \in Ble!Slots : Ble!Live(i) /\ Ble!Live(j) /\ i # j =>
        queue[i].msg # queue[j].msg /\ queue[i].seq # queue[j].seq

PendingAreHeld ==
    \A m \in Ble!Msgs : fate[m] = "pending" => \E i \in Ble!Slots : Ble!Live(i) /\ queue[i].msg = m

NewAreUnsent == \A m \in Ble!Msgs : fate[m] = "new" => sent[m] = 0

QueueSound == HeldArePending /\ HeldApart /\ PendingAreHeld /\ NewAreUnsent

\* A frame that carries message m under number s names m to every slot that
\* is still live under s.
On(line) == {line[k] : k \in 1 .. Len(line)}

Names(f) == \A i \in Ble!Slots : Ble!Live(i) /\ queue[i].seq = f.seq => queue[i].msg = f.id

ToBleFrame(f) ==
    \/ f.kind = "msg" /\ f.id \in Ble!Msgs /\ Names(f)
    \/ f.kind = "ack" /\ f.id \in Cmds /\ ran[f.id] > 0

ToMainFrame(f) ==
    \/ f.kind = "ack" /\ f.id \in Ble!Msgs /\ got[f.id] > 0 /\ Names(f)
    \/ f.kind = "cmd" /\ f.id \in Cmds

WireSound == /\ \A f \in On(toBle) : ToBleFrame(f)
             /\ \A f \in On(toMain) : ToMainFrame(f)

\* What has arrived and what is still on the wire was sent.
Copies(line, m) ==
    Cardinality({k \in 1 .. Len(line) : line[k].kind = "msg" /\ line[k].id = m})

NothingInvented == \A m \in Ble!Msgs : got[m] + Copies(toBle, m) <= sent[m]

Sound == QueueSound /\ WireSound /\ NothingInvented /\ Ble!DoneWasDelivered /\ Ble!DoneIsTrue

Inv == Ble!TypeOK /\ Sound

-----------------------------------------------------------------------------
(* The lines                                                                *)

FrameLine(line) == line \in Seq(Ble!FrameSet) /\ Len(line) <= WireCap

LEMMA PutLine ==
  ASSUME Ble!SspBleAssumption, NEW line, FrameLine(line), NEW f \in Ble!FrameSet
  PROVE  /\ FrameLine(Ble!Put(line, f))
         /\ On(Ble!Put(line, f)) \subseteq On(line) \cup {f}
<1> USE DEF FrameLine
<1>1. CASE Len(line) < WireCap
  <2>1. Ble!Put(line, f) = Append(line, f)
    BY <1>1 DEF Ble!Put
  <2>2. FrameLine(Append(line, f))
    BY <1>1 DEF Ble!SspBleAssumption
  <2>3. On(Append(line, f)) \subseteq On(line) \cup {f}
    BY DEF On
  <2>4. QED
    BY <2>1, <2>2, <2>3
<1>2. CASE ~(Len(line) < WireCap)
  BY <1>2 DEF Ble!Put
<1>3. QED
  BY <1>1, <1>2

LEMMA TailLine ==
  ASSUME Ble!SspBleAssumption, NEW line, FrameLine(line), line # <<>>
  PROVE  /\ FrameLine(Tail(line))
         /\ Head(line) \in Ble!FrameSet
         /\ Head(line) \in On(line)
         /\ On(Tail(line)) \subseteq On(line)
  BY DEF FrameLine, On, Ble!SspBleAssumption

LEMMA FinitePlaces ==
  ASSUME NEW line, Len(line) \in Nat, NEW m
  PROVE  /\ IsFiniteSet({k \in 1 .. Len(line) : line[k].kind = "msg" /\ line[k].id = m})
         /\ Copies(line, m) \in Nat
<1>1. IsFiniteSet(1 .. Len(line))
  BY FS_Interval
<1>2. IsFiniteSet({k \in 1 .. Len(line) : line[k].kind = "msg" /\ line[k].id = m})
  BY <1>1, FS_Subset
<1>3. QED
  BY <1>2, FS_CardinalityType DEF Copies

LEMMA CopiesTyped ==
  ASSUME NEW line, FrameLine(line), NEW m
  PROVE  Copies(line, m) \in Nat
<1>1. Len(line) \in Nat
  BY DEF FrameLine
<1>2. QED
  BY <1>1, FinitePlaces

\* The lines of both links: their frames only differ in the set they are of.
LEMMA AppendCopies ==
  ASSUME NEW S, NEW line \in Seq(S), NEW f \in S, NEW m
  PROVE  /\ Copies(line, m) \in Nat /\ Copies(Append(line, f), m) \in Nat
         /\ Copies(Append(line, f), m) <= Copies(line, m) + 1
         /\ ~(f.kind = "msg" /\ f.id = m) => Copies(Append(line, f), m) = Copies(line, m)
<1> DEFINE n == Len(line) + 1
           P == {k \in 1 .. Len(line) : line[k].kind = "msg" /\ line[k].id = m}
           Q == {k \in 1 .. n :
                    Append(line, f)[k].kind = "msg" /\ Append(line, f)[k].id = m}
<1>1. Len(line) \in Nat /\ Len(Append(line, f)) = n
  OBVIOUS
<1>2. IsFiniteSet(P) /\ Cardinality(P) \in Nat
  BY <1>1, FinitePlaces DEF Copies
<1>3. Copies(line, m) = Cardinality(P) /\ Copies(Append(line, f), m) = Cardinality(Q)
  BY <1>1 DEF Copies
<1>4. CASE f.kind = "msg" /\ f.id = m
  <2>1. Q = P \cup {n}
    BY <1>4
  <2>2. Cardinality(P \cup {n}) = IF n \in P THEN Cardinality(P) ELSE Cardinality(P) + 1
    BY <1>2, FS_AddElement
  <2> HIDE DEF P, Q, n
  <2>3. QED
    BY <1>2, <1>3, <1>4, <2>1, <2>2
<1>5. CASE ~(f.kind = "msg" /\ f.id = m)
  <2>1. Q = P
    BY <1>5
  <2> HIDE DEF P, Q, n
  <2>2. QED
    BY <1>2, <1>3, <1>5, <2>1
<1>6. QED
  BY <1>4, <1>5

LEMMA RestCopies ==
  ASSUME NEW S, NEW line \in Seq(S), line # <<>>, NEW m
  PROVE  /\ Copies(line, m) \in Nat /\ Copies(Tail(line), m) \in Nat
         /\ Copies(Tail(line), m) <= Copies(line, m)
         /\ Head(line).kind = "msg" /\ Head(line).id = m =>
                Copies(Tail(line), m) + 1 <= Copies(line, m)
<1> DEFINE P == {k \in 1 .. Len(line) : line[k].kind = "msg" /\ line[k].id = m}
           Q == {k \in 1 .. Len(Tail(line)) :
                    Tail(line)[k].kind = "msg" /\ Tail(line)[k].id = m}
           f == [k \in Q |-> k + 1]
<1>1. IsFiniteSet(P) /\ IsFiniteSet(Q) /\ Cardinality(P) \in Nat /\ Cardinality(Q) \in Nat
  <2>1. Len(line) \in Nat /\ Len(Tail(line)) \in Nat
    OBVIOUS
  <2>2. QED
    BY <2>1, FinitePlaces DEF Copies
<1>2. IsFiniteSet(P \ {1})
      /\ Cardinality(P \ {1}) = IF 1 \in P THEN Cardinality(P) - 1 ELSE Cardinality(P)
  BY <1>1, FS_RemoveElement
<1>3. f \in Injection(Q, P \ {1})
  <2>1. f \in [Q -> P \ {1}]
    OBVIOUS
  <2>2. \A a, b \in Q : f[a] = f[b] => a = b
    OBVIOUS
  <2>3. QED
    BY <2>1, <2>2 DEF Injection, IsInjective
<1>4. Cardinality(Q) <= Cardinality(P \ {1})
  <2> HIDE DEF P, Q, f
  <2>1. QED
    BY <1>2, <1>3, FS_Injection
<1>5. Head(line).kind = "msg" /\ Head(line).id = m => 1 \in P
  OBVIOUS
<1>6. QED
  <2>1. Copies(line, m) = Cardinality(P) /\ Copies(Tail(line), m) = Cardinality(Q)
    BY DEF Copies
  <2> HIDE DEF P, Q, f
  <2>2. QED
    BY <1>1, <1>2, <1>4, <1>5, <2>1

LEMMA PutCopies ==
  ASSUME NEW line, FrameLine(line), NEW f \in Ble!FrameSet, NEW m
  PROVE  /\ Copies(Ble!Put(line, f), m) <= Copies(line, m) + 1
         /\ ~(f.kind = "msg" /\ f.id = m) => Copies(Ble!Put(line, f), m) = Copies(line, m)
<1>1. line \in Seq(Ble!FrameSet) /\ Copies(line, m) \in Nat
  BY CopiesTyped DEF FrameLine
<1>2. QED
  BY <1>1, AppendCopies DEF Ble!Put

LEMMA TailCopies ==
  ASSUME NEW line, FrameLine(line), line # <<>>, NEW m
  PROVE  /\ Copies(Tail(line), m) <= Copies(line, m)
         /\ Head(line).kind = "msg" /\ Head(line).id = m =>
                Copies(Tail(line), m) + 1 <= Copies(line, m)
  BY RestCopies DEF FrameLine

-----------------------------------------------------------------------------
(* Steps that leave most of it alone                                        *)

\* TypeOK in four parts that few actions change together.
QueueTyped ==
    /\ queue \in [Ble!Slots -> [type : 0 .. Fresh, seq : Ble!Seqs, msg : Ble!Msgs \cup {Ble!NoMsg}]]
    /\ txSeq \in Ble!Seqs
    /\ fate \in [Ble!Msgs -> {"new", "refused", "pending", "done", "dropped"}]
    /\ sent \in [Ble!Msgs -> 0 .. Ble!MaxSends]

PaceTyped ==
    /\ scan \in Ble!Slots
    /\ retry \in Ble!NoTimer .. BleRetry /\ packet \in Ble!NoTimer .. PacketTicks
    /\ stalls \in 0 .. Ble!StallLimit + 1
    /\ bike \in BikeStates

PeerTyped ==
    /\ got \in [Ble!Msgs -> 0 .. Ble!MaxSends]
    /\ cmd \in [Cmds -> {"new", "sending", "done", "lost"}] /\ ran \in [Cmds -> Nat]

LEMMA TypeParts ==
  Ble!TypeOK => /\ QueueTyped /\ PaceTyped /\ rebooting \in BOOLEAN /\ PeerTyped
            /\ FrameLine(toBle) /\ FrameLine(toMain)
  BY Zenon DEF Ble!TypeOK, QueueTyped, PaceTyped, PeerTyped, FrameLine

LEMMA PartsTyped ==
  ASSUME QueueTyped, PaceTyped, rebooting \in BOOLEAN, PeerTyped,
         FrameLine(toBle), FrameLine(toMain)
  PROVE  Ble!TypeOK
  BY Zenon DEF Ble!TypeOK, QueueTyped, PaceTyped, PeerTyped, FrameLine

LEMMA PartsTypedNext ==
  ASSUME QueueTyped', PaceTyped', rebooting' \in BOOLEAN, PeerTyped',
         FrameLine(toBle'), FrameLine(toMain')
  PROVE  Ble!TypeOK'
  BY Zenon DEF Ble!TypeOK, QueueTyped, PaceTyped, PeerTyped, FrameLine

LEMMA InitInv == ASSUME Ble!SspBleAssumption PROVE Ble!Init => Inv
<1> SUFFICES ASSUME Ble!Init
             PROVE  Inv
  OBVIOUS
<1> USE DEF Ble!Init, Ble!SspBleAssumption
<1>1. Ble!TypeOK
  <2> USE DEF Ble!Slots, Ble!Seqs, Ble!NoTimer, Ble!NoMsg, Ble!StallLimit, Ble!MaxSends
  <2>1. QueueTyped
    BY DEF QueueTyped
  <2>2. PaceTyped
    BY DEF PaceTyped
  <2>6. rebooting \in BOOLEAN
    BY Zenon
  <2>3. FrameLine(toBle) /\ FrameLine(toMain)
    BY DEF FrameLine
  <2>4. PeerTyped
    BY DEF PeerTyped
  <2>5. QED
    BY <2>1, <2>2, <2>3, <2>4, <2>6, PartsTyped
<1>2. QueueSound
  BY DEF QueueSound, HeldArePending, HeldApart, PendingAreHeld, NewAreUnsent, Ble!Live
<1>3. On(toBle) = {} /\ On(toMain) = {}
  BY DEF On
<1>4. WireSound
  BY <1>3 DEF WireSound
<1>5. \A m \in Ble!Msgs : Copies(toBle, m) = 0
  <2> SUFFICES ASSUME NEW m \in Ble!Msgs
               PROVE  Copies(toBle, m) = 0
    OBVIOUS
  <2>1. {k \in 1 .. Len(toBle) : toBle[k].kind = "msg" /\ toBle[k].id = m} = {}
    OBVIOUS
  <2>2. QED
    BY <2>1, FS_EmptySet DEF Copies
<1>6. NothingInvented
  BY <1>5 DEF NothingInvented
<1>7. Ble!DoneWasDelivered /\ Ble!DoneIsTrue
  BY DEF Ble!DoneWasDelivered, Ble!DoneIsTrue
<1>8. QED
  BY <1>1, <1>2, <1>4, <1>6, <1>7 DEF Inv, Sound

\* What is said of a frame stays true while no slot comes alive.
LEMMA FramesKept ==
  ASSUME \A i \in Ble!Slots : Ble!Live(i)' => Ble!Live(i) /\ queue'[i].seq = queue[i].seq
                                              /\ queue'[i].msg = queue[i].msg,
         \A m \in Ble!Msgs : got[m] > 0 => got'[m] > 0,
         \A c \in Cmds : ran[c] > 0 => ran'[c] > 0
  PROVE  /\ \A f : ToBleFrame(f) => ToBleFrame(f)'
         /\ \A f : ToMainFrame(f) => ToMainFrame(f)'
  BY DEF ToBleFrame, ToMainFrame, Names

LEMMA QueueKept ==
  ASSUME QueueSound, UNCHANGED <<queue, fate, sent>>
  PROVE  QueueSound'
  BY DEF QueueSound, HeldArePending, HeldApart, PendingAreHeld, NewAreUnsent, Ble!Live

\* Nothing but the timers, the counters and a command's state changes.
LEMMA SoundKept ==
  ASSUME Sound, UNCHANGED <<queue, fate, sent, got, ran, toBle, toMain>>,
         \A c \in Cmds : cmd'[c] = "done" => cmd[c] = "done"
  PROVE  Sound'
<1>1. QueueSound'
  BY QueueKept DEF Sound
<1>2. WireSound'
  BY DEF Sound, WireSound, ToBleFrame, ToMainFrame, Names, Ble!Live
<1>3. NothingInvented' /\ Ble!DoneWasDelivered' /\ Ble!DoneIsTrue'
  BY DEF Sound, NothingInvented, Ble!DoneWasDelivered, Ble!DoneIsTrue
<1>4. QED
  BY <1>1, <1>2, <1>3 DEF Sound

-----------------------------------------------------------------------------
(* Step by step                                                             *)

LEMMA ModRange == \A n \in Nat \ {0}, a \in Nat : a % n \in 0 .. n - 1
  OBVIOUS

LEMMA EnqueueKeeps ==
  ASSUME Ble!SspBleAssumption, Inv, NEW m \in Ble!Msgs, Ble!Enqueue(m), Ble!WireFasterThanWrap
  PROVE  Inv'
<1>1. PICK i \in Ble!FreeSlots, s \in Ble!Seqs :
        /\ Ble!NextSeq(s)
        /\ queue' = [queue EXCEPT ![i] = [type |-> Fresh, seq |-> s, msg |-> m]]
        /\ txSeq' = (s + 1) % SeqMod
  BY Zenon DEF Ble!Enqueue
<1>2. /\ fate[m] = "new"
      /\ fate' = [fate EXCEPT ![m] = "pending"]
      /\ UNCHANGED <<Ble!pace, Ble!ctl, Ble!wire, Ble!peer, ran>>
  BY DEF Ble!Enqueue, Ble!Submits
<1>3. UNCHANGED <<scan, retry, packet, sent, stalls, rebooting, bike, toBle, toMain,
                  got, cmd, ran>>
  BY <1>2 DEF Ble!pace, Ble!ctl, Ble!wire, Ble!peer
<1>4. /\ QueueTyped /\ PaceTyped /\ rebooting \in BOOLEAN /\ PeerTyped
      /\ FrameLine(toBle) /\ FrameLine(toMain)
  BY TypeParts DEF Inv
<1>5. /\ i \in Ble!Slots /\ ~Ble!Live(i) /\ ~Ble!SeqInUse(s) /\ Fresh # 0
      /\ queue'[i] = [type |-> Fresh, seq |-> s, msg |-> m]
      /\ \A j \in Ble!Slots \ {i} : queue'[j] = queue[j]
  BY <1>1, <1>4 DEF Ble!FreeSlots, Ble!NextSeq, QueueTyped, Ble!SspBleAssumption
<1>6. \A j \in Ble!Slots : Ble!Live(j)' <=> j = i \/ Ble!Live(j)
  BY <1>5 DEF Ble!Live
<1>7. QueueTyped'
  <2>1. queue' \in [Ble!Slots -> [type : 0 .. Fresh, seq : Ble!Seqs, msg : Ble!Msgs \cup {Ble!NoMsg}]]
    BY <1>1, <1>4, <1>5 DEF QueueTyped, Ble!SspBleAssumption
  <2>2. txSeq' \in Ble!Seqs
    BY <1>1, ModRange DEF Ble!Seqs, Ble!SspBleAssumption
  <2>3. QED
    BY <1>2, <1>3, <1>4, <2>1, <2>2 DEF QueueTyped
<1>8. Ble!TypeOK'
  <2>1. PaceTyped' /\ PeerTyped' /\ FrameLine(toBle') /\ FrameLine(toMain')
    BY <1>3, <1>4 DEF PaceTyped, PeerTyped, FrameLine
  <2>2. rebooting' \in BOOLEAN
    BY <1>3, <1>4, Zenon
  <2>3. QED
    BY <1>7, <2>1, <2>2, PartsTypedNext
<1>9. QueueSound /\ WireSound /\ NothingInvented /\ Ble!DoneWasDelivered /\ Ble!DoneIsTrue
  BY DEF Inv, Sound
<1>10. \A n \in Ble!Msgs : fate'[n] = IF n = m THEN "pending" ELSE fate[n]
  BY <1>2, <1>4 DEF QueueTyped
<1>11. QueueSound'
  <2>1. HeldArePending'
    BY <1>2, <1>3, <1>5, <1>6, <1>9, <1>10, <1>4
    DEF HeldArePending, QueueSound, NewAreUnsent, Ble!SspBleAssumption
  <2>2. HeldApart'
    BY <1>2, <1>5, <1>6, <1>9 DEF HeldApart, HeldArePending, QueueSound, Ble!SeqInUse
  <2>3. PendingAreHeld'
    BY <1>5, <1>6, <1>9, <1>10 DEF PendingAreHeld, QueueSound
  <2>4. NewAreUnsent'
    BY <1>3, <1>9, <1>10 DEF NewAreUnsent, QueueSound
  <2>5. QED
    BY <2>1, <2>2, <2>3, <2>4 DEF QueueSound
<1>12. WireSound'
  <2>1. \A f \in On(toBle) : f.kind = "msg" => f.seq # s
    BY <1>1, <1>4 DEF Ble!WireFasterThanWrap, On, FrameLine
  <2>2. \A f \in On(toMain) : f.kind = "ack" => f.seq # s
    BY <1>1, <1>4 DEF Ble!WireFasterThanWrap, On, FrameLine
  <2>3. \A f : Names(f) /\ f.seq # s => Names(f)'
    BY <1>5, <1>6 DEF Names
  <2>4. \A f \in On(toBle) : ToBleFrame(f)'
    BY <1>3, <1>9, <2>1, <2>3 DEF WireSound, ToBleFrame
  <2>5. \A f \in On(toMain) : ToMainFrame(f)'
    BY <1>3, <1>9, <2>2, <2>3 DEF WireSound, ToMainFrame
  <2>6. QED
    BY <1>3, <2>4, <2>5 DEF WireSound
<1>13. NothingInvented' /\ Ble!DoneWasDelivered' /\ Ble!DoneIsTrue'
  BY <1>3, <1>9, <1>10 DEF NothingInvented, Ble!DoneWasDelivered, Ble!DoneIsTrue
<1>14. QED
  BY <1>8, <1>11, <1>12, <1>13 DEF Inv, Sound

LEMMA RefusedKeeps ==
  ASSUME Inv, NEW m \in Ble!Msgs, NEW long \in BOOLEAN, Ble!EnqueueRefused(m, long)
  PROVE  Inv'
<1>1. /\ fate[m] = "new"
      /\ fate' = [fate EXCEPT ![m] = "refused"]
      /\ UNCHANGED <<queue, txSeq, scan, retry, packet, sent, stalls, rebooting, bike,
                     toBle, toMain, got, cmd, ran>>
  BY DEF Ble!EnqueueRefused, Ble!Submits, Ble!pace, Ble!ctl, Ble!wire, Ble!peer
<1>2. /\ QueueTyped /\ PaceTyped /\ rebooting \in BOOLEAN /\ PeerTyped
      /\ FrameLine(toBle) /\ FrameLine(toMain)
  BY TypeParts DEF Inv
<1>3. Ble!TypeOK'
  <2>1. QueueTyped' /\ PaceTyped' /\ PeerTyped' /\ FrameLine(toBle') /\ FrameLine(toMain')
    BY <1>1, <1>2 DEF QueueTyped, PaceTyped, PeerTyped, FrameLine
  <2>2. rebooting' \in BOOLEAN
    BY <1>1, <1>2, Zenon
  <2>3. QED
    BY <2>1, <2>2, PartsTypedNext
<1>4. QueueSound /\ WireSound /\ NothingInvented /\ Ble!DoneWasDelivered /\ Ble!DoneIsTrue
  BY DEF Inv, Sound
<1>5. \A n \in Ble!Msgs : fate'[n] = IF n = m THEN "refused" ELSE fate[n]
  BY <1>1, <1>2 DEF QueueTyped
<1>6. QueueSound'
  BY <1>1, <1>4, <1>5
  DEF QueueSound, HeldArePending, HeldApart, PendingAreHeld, NewAreUnsent, Ble!Live
<1>7. WireSound'
  BY <1>1, <1>4 DEF WireSound, ToBleFrame, ToMainFrame, Names, Ble!Live
<1>8. NothingInvented' /\ Ble!DoneWasDelivered' /\ Ble!DoneIsTrue'
  BY <1>1, <1>4, <1>5 DEF NothingInvented, Ble!DoneWasDelivered, Ble!DoneIsTrue
<1>9. QED
  BY <1>3, <1>6, <1>7, <1>8 DEF Inv, Sound

LEMMA StartedTyped ==
  \A n \in Nat : \A t \in Ble!NoTimer .. n : Ble!Started(t, n) \in Ble!NoTimer .. n
  BY DEF Ble!Started, Ble!NoTimer

\* The main loop with nothing to send, SysTick, the state machine of the bike.
LEMMA PacesKeep ==
  ASSUME Ble!SspBleAssumption, Inv, Ble!PumpBlocked \/ Ble!Tick \/ Ble!ChangeState \/ UNCHANGED Ble!vars
  PROVE  Inv'
<1>1. UNCHANGED <<queue, txSeq, scan, sent, toBle, toMain, fate, got, cmd, ran, rebooting>>
  BY DEF Ble!PumpBlocked, Ble!Tick, Ble!ChangeState, Ble!vars, Ble!txq, Ble!wire, Ble!peer, Ble!pace, Ble!ctl
<1>2. /\ QueueTyped /\ PaceTyped /\ rebooting \in BOOLEAN /\ PeerTyped
      /\ FrameLine(toBle) /\ FrameLine(toMain)
  BY TypeParts DEF Inv
<1>3. PaceTyped'
  <2> USE <1>2 DEF PaceTyped, Ble!SspBleAssumption, Ble!NoTimer, Ble!StallLimit
  <2>1. CASE Ble!PumpBlocked
    BY <2>1, <1>1, StartedTyped DEF Ble!PumpBlocked
  <2>2. CASE Ble!Tick
    BY <2>2 DEF Ble!Tick, Ble!ctl
  <2>3. CASE Ble!ChangeState
    BY <2>3 DEF Ble!ChangeState, Ble!pace
  <2>4. CASE UNCHANGED Ble!vars
    BY <2>4 DEF Ble!vars, Ble!pace, Ble!ctl
  <2>5. QED
    BY <2>1, <2>2, <2>3, <2>4
<1>4. Ble!TypeOK'
  <2>1. QueueTyped' /\ PeerTyped' /\ FrameLine(toBle') /\ FrameLine(toMain')
    BY <1>1, <1>2 DEF QueueTyped, PeerTyped, FrameLine
  <2>2. rebooting' \in BOOLEAN
    BY <1>1, <1>2, Zenon
  <2>3. QED
    BY <1>3, <2>1, <2>2, PartsTypedNext
<1>5. Sound'
  BY <1>1, SoundKept DEF Inv
<1>6. QED
  BY <1>4, <1>5 DEF Inv

LEMMA RecoverKeeps ==
  ASSUME Ble!SspBleAssumption, PaceTyped, PeerTyped, rebooting \in BOOLEAN, Ble!Recover
  PROVE  /\ bike' \in BikeStates
         /\ rebooting' \in BOOLEAN
         /\ cmd' \in [Cmds -> {"new", "sending", "done", "lost"}]
         /\ \A c \in Cmds : cmd'[c] = "done" => cmd[c] = "done"
<1>1. bike' \in BikeStates
  BY DEF Ble!Recover, PaceTyped, Ble!SspBleAssumption
<1>2. rebooting' \in {rebooting, TRUE, FALSE}
  BY Zenon DEF Ble!Recover
<1>3. rebooting' \in BOOLEAN
  BY <1>2, Zenon
<1>4. cmd' = cmd
      \/ cmd' = [c \in Cmds |-> IF cmd[c] = "sending" THEN "lost" ELSE cmd[c]]
  BY Zenon DEF Ble!Recover
<1>5. QED
  BY <1>1, <1>3, <1>4 DEF PeerTyped

\* The slot's turn with the timers still running.
LEMMA ServeWaits ==
  ASSUME Ble!SspBleAssumption, Sound, NEW i \in Ble!Slots, NEW h,
         Ble!Serve(i, h), ~Ble!Ready(queue[i], Ble!Started(retry, BleRetry), Ble!Started(packet, PacketTicks)),
         UNCHANGED <<got, ran, toMain>>,
         \A c \in Cmds : cmd'[c] = "done" => cmd[c] = "done"
  PROVE  Sound'
<1>1. UNCHANGED <<queue, fate, sent, toBle>>
  BY DEF Ble!Serve
<1>2. QED
  BY <1>1, SoundKept

\* The message was sent for the last time and is given up.
LEMMA ServeGivesUp ==
  ASSUME Ble!SspBleAssumption, QueueTyped, Sound, NEW i \in Ble!Slots, queue[i].type = 1,
         queue' = [queue EXCEPT ![i].type = @ - 1],
         fate' = [fate EXCEPT ![queue[i].msg] = "dropped"],
         UNCHANGED <<txSeq, sent, toBle, toMain, got, ran>>,
         \A c \in Cmds : cmd'[c] = "done" => cmd[c] = "done"
  PROVE  QueueTyped' /\ Sound'
<1>1. QueueSound /\ WireSound /\ NothingInvented /\ Ble!DoneWasDelivered /\ Ble!DoneIsTrue
  BY DEF Sound
<1>2. /\ queue'[i].type = 0
      /\ \A j \in Ble!Slots \ {i} : queue'[j] = queue[j]
  BY DEF QueueTyped
<1>3. Ble!Live(i) /\ (\A j \in Ble!Slots : Ble!Live(j)' <=> j # i /\ Ble!Live(j))
  BY <1>2 DEF Ble!Live
<1>4. QueueTyped'
  <2>1. queue' \in [Ble!Slots -> [type : 0 .. Fresh, seq : Ble!Seqs, msg : Ble!Msgs \cup {Ble!NoMsg}]]
    BY <1>2 DEF QueueTyped, Ble!SspBleAssumption
  <2>2. fate' \in [Ble!Msgs -> {"new", "refused", "pending", "done", "dropped"}]
    BY DEF QueueTyped
  <2>3. QED
    BY <2>1, <2>2 DEF QueueTyped
<1>5. \A n \in Ble!Msgs : fate'[n] = IF n = queue[i].msg THEN "dropped" ELSE fate[n]
  BY DEF QueueTyped
<1>6. QueueSound'
  <2>1. HeldArePending'
    BY <1>1, <1>2, <1>3, <1>5 DEF QueueSound, HeldArePending, HeldApart
  <2>2. HeldApart'
    BY <1>1, <1>2, <1>3 DEF QueueSound, HeldApart
  <2>3. PendingAreHeld'
    BY <1>1, <1>2, <1>3, <1>5 DEF QueueSound, PendingAreHeld
  <2>4. NewAreUnsent'
    BY <1>1, <1>5 DEF QueueSound, NewAreUnsent
  <2>5. QED
    BY <2>1, <2>2, <2>3, <2>4 DEF QueueSound
<1>7. (\A f : ToBleFrame(f) => ToBleFrame(f)') /\ (\A f : ToMainFrame(f) => ToMainFrame(f)')
  BY <1>2, <1>3, FramesKept
<1>8. WireSound'
  BY <1>1, <1>7 DEF WireSound
<1>9. NothingInvented' /\ Ble!DoneWasDelivered' /\ Ble!DoneIsTrue'
  BY <1>1, <1>5 DEF NothingInvented, Ble!DoneWasDelivered, Ble!DoneIsTrue
<1>10. QED
  BY <1>4, <1>6, <1>8, <1>9 DEF Sound

\* The message is sent, and is counted whether or not its frame fits.
LEMMA ServeSends ==
  ASSUME Ble!SspBleAssumption, QueueTyped, PeerTyped, FrameLine(toBle), Sound, NEW i \in Ble!Slots,
         queue[i].type \notin {0, 1},
         queue' = [queue EXCEPT ![i].type = @ - 1],
         toBle' = Ble!Put(toBle, Ble!Frame("msg", queue[i].seq, queue[i].msg)),
         sent' = [sent EXCEPT ![queue[i].msg] = @ + 1],
         UNCHANGED <<txSeq, fate, toMain, got, ran>>,
         \A c \in Cmds : cmd'[c] = "done" => cmd[c] = "done"
  PROVE  QueueTyped' /\ FrameLine(toBle') /\ Sound'
<1> DEFINE m == queue[i].msg
           f == Ble!Frame("msg", queue[i].seq, m)
<1>1. QueueSound /\ WireSound /\ NothingInvented /\ Ble!DoneWasDelivered /\ Ble!DoneIsTrue
  BY DEF Sound
<1>2. /\ Ble!Live(i) /\ queue[i].type \in 2 .. Fresh
      /\ queue'[i] = [type |-> queue[i].type - 1, seq |-> queue[i].seq, msg |-> m]
      /\ \A j \in Ble!Slots \ {i} : queue'[j] = queue[j]
  <2>1. queue[i].type \in 0 .. Fresh /\ Fresh \in Nat
    BY DEF QueueTyped, Ble!SspBleAssumption
  <2>2. Ble!Live(i) /\ queue[i].type \in 2 .. Fresh
    BY <2>1 DEF Ble!Live
  <2>3. /\ queue'[i] = [type |-> queue[i].type - 1, seq |-> queue[i].seq, msg |-> m]
        /\ \A j \in Ble!Slots \ {i} : queue'[j] = queue[j]
    BY DEF QueueTyped
  <2>4. QED
    BY <2>2, <2>3
<1>3. \A j \in Ble!Slots : (Ble!Live(j)' <=> Ble!Live(j)) /\ queue'[j].seq = queue[j].seq
                                              /\ queue'[j].msg = queue[j].msg
  BY <1>2 DEF Ble!Live
<1>4. m \in Ble!Msgs /\ fate[m] = "pending" /\ queue[i].type = Fresh - sent[m]
  BY <1>1, <1>2 DEF QueueSound, HeldArePending
<1>5. \A n \in Ble!Msgs : sent'[n] = IF n = m THEN sent[n] + 1 ELSE sent[n]
  BY DEF QueueTyped
<1>6. QueueTyped'
  <2>1. queue' \in [Ble!Slots -> [type : 0 .. Fresh, seq : Ble!Seqs, msg : Ble!Msgs \cup {Ble!NoMsg}]]
    BY <1>2 DEF QueueTyped, Ble!SspBleAssumption
  <2>2. sent[m] + 1 \in 0 .. Ble!MaxSends
    BY <1>2, <1>4 DEF QueueTyped, Ble!MaxSends, Ble!SspBleAssumption
  <2>3. sent' \in [Ble!Msgs -> 0 .. Ble!MaxSends]
    BY <2>2 DEF QueueTyped
  <2>4. QED
    BY <2>1, <2>3 DEF QueueTyped
<1>7. f \in Ble!FrameSet
  BY <1>2, <1>4 DEF Ble!FrameSet, Ble!Frame, QueueTyped
<1>8. FrameLine(toBle') /\ On(toBle') \subseteq On(toBle) \cup {f}
  BY <1>7, PutLine
<1>9. QueueSound'
  <2>1. HeldArePending'
    <3> SUFFICES ASSUME NEW j \in Ble!Slots, Ble!Live(j)'
                 PROVE  /\ queue'[j].msg \in Ble!Msgs /\ fate'[queue'[j].msg] = "pending"
                        /\ queue'[j].type = Fresh - sent'[queue'[j].msg]
      BY DEF HeldArePending
    <3>1. CASE j = i
      BY <3>1, <1>2, <1>4, <1>5 DEF QueueTyped, Ble!MaxSends, Ble!SspBleAssumption
    <3>2. CASE j # i
      BY <3>2, <1>1, <1>2, <1>3, <1>4, <1>5 DEF QueueSound, HeldArePending, HeldApart
    <3>3. QED
      BY <3>1, <3>2
  <2>2. HeldApart'
    BY <1>1, <1>3 DEF QueueSound, HeldApart
  <2>3. PendingAreHeld'
    BY <1>1, <1>3 DEF QueueSound, PendingAreHeld
  <2>4. NewAreUnsent'
    BY <1>1, <1>4, <1>5 DEF QueueSound, NewAreUnsent
  <2>5. QED
    BY <2>1, <2>2, <2>3, <2>4 DEF QueueSound
<1>10. (\A g : ToBleFrame(g) => ToBleFrame(g)') /\ (\A g : ToMainFrame(g) => ToMainFrame(g)')
  BY <1>3, FramesKept
<1>11. ToBleFrame(f)'
  <2>1. Names(f)
    BY <1>1, <1>2 DEF Names, Ble!Frame, QueueSound, HeldApart
  <2>2. QED
    BY <1>4, <1>10, <2>1 DEF ToBleFrame, Ble!Frame
<1>12. WireSound'
  <2>1. \A g \in On(toBle') : ToBleFrame(g)'
    BY <1>1, <1>8, <1>10, <1>11 DEF WireSound
  <2>2. \A g \in On(toMain') : ToMainFrame(g)'
    BY <1>1, <1>10 DEF WireSound
  <2>3. QED
    BY <2>1, <2>2 DEF WireSound
<1>13. NothingInvented'
  <2> SUFFICES ASSUME NEW n \in Ble!Msgs
               PROVE  got[n] + Copies(toBle', n) <= sent'[n]
    BY DEF NothingInvented
  <2>1. /\ Copies(toBle', n) <= Copies(toBle, n) + 1
        /\ n # m => Copies(toBle', n) = Copies(toBle, n)
    <3> HIDE DEF f
    <3>1. f.kind = "msg" /\ f.id = m
      BY DEF f, Ble!Frame
    <3>2. QED
      BY <1>7, <3>1, PutCopies DEF f
  <2>2. Copies(toBle, n) \in Nat /\ Copies(toBle', n) \in Nat
    BY <1>8, CopiesTyped
  <2>3. got[n] + Copies(toBle, n) <= sent[n] /\ sent[n] \in Nat /\ got[n] \in Nat
    BY <1>1 DEF NothingInvented, QueueTyped, PeerTyped, Ble!MaxSends, Ble!SspBleAssumption
  <2>4. QED
    BY <1>5, <2>1, <2>2, <2>3
<1>14. Ble!DoneWasDelivered' /\ Ble!DoneIsTrue'
  BY <1>1 DEF Ble!DoneWasDelivered, Ble!DoneIsTrue
<1>15. QED
  BY <1>6, <1>8, <1>9, <1>12, <1>13, <1>14 DEF Sound

\* One pass over the queue, whatever the turn of the slot comes to.
LEMMA PumpKeeps ==
  ASSUME Ble!SspBleAssumption, Inv, Ble!PumpServe
  PROVE  Inv'
<1> DEFINE i == (scan + 1) % BleSlots
           h == IF Ble!Stalled THEN 0 ELSE stalls
           r == Ble!Started(retry, BleRetry)
           p == Ble!Started(packet, PacketTicks)
<1>1. Ble!Recover /\ Ble!Serve(i, h) /\ scan' = i /\ UNCHANGED <<txSeq, toMain, got, ran>>
  BY DEF Ble!PumpServe
<1>2. /\ QueueTyped /\ PaceTyped /\ rebooting \in BOOLEAN /\ PeerTyped
      /\ FrameLine(toBle) /\ FrameLine(toMain) /\ Sound
  BY TypeParts DEF Inv
<1>3. i \in Ble!Slots /\ h \in 0 .. Ble!StallLimit
  <2>1. scan \in Nat
    BY <1>2 DEF PaceTyped, Ble!Slots, Ble!SspBleAssumption
  <2>2. i \in Ble!Slots
    BY <2>1, ModRange DEF Ble!Slots, Ble!SspBleAssumption
  <2>3. h \in 0 .. Ble!StallLimit
    BY <1>2 DEF PaceTyped, Ble!Stalled, Ble!StallLimit
  <2>4. QED
    BY <2>2, <2>3
<1>4. /\ bike' \in BikeStates
      /\ rebooting' \in BOOLEAN
      /\ cmd' \in [Cmds -> {"new", "sending", "done", "lost"}]
      /\ \A c \in Cmds : cmd'[c] = "done" => cmd[c] = "done"
  BY <1>1, <1>2, RecoverKeeps
<1>5. PeerTyped' /\ FrameLine(toMain')
  BY <1>1, <1>2, <1>4 DEF PeerTyped
<1>6. r \in Ble!NoTimer .. BleRetry /\ p \in Ble!NoTimer .. PacketTicks
  BY <1>2, StartedTyped DEF PaceTyped, Ble!SspBleAssumption
<1> HIDE DEF i, h, r, p
<1>7. CASE ~Ble!Ready(queue[i], r, p)
  <2>1. retry' = r /\ packet' = p /\ stalls' = h /\ UNCHANGED <<queue, fate, sent, toBle>>
    BY <1>1, <1>7, Zenon DEF Ble!Serve, r, p
  <2>2. PaceTyped'
    BY <1>1, <1>3, <1>4, <1>6, <2>1 DEF PaceTyped, Ble!StallLimit
  <2>3. QueueTyped' /\ FrameLine(toBle')
    BY <1>1, <1>2, <2>1 DEF QueueTyped
  <2>4. Sound'
    BY <1>1, <1>2, <1>4, <2>1, SoundKept
  <2>5. Ble!TypeOK'
    BY <1>4, <1>5, <2>2, <2>3, PartsTypedNext
  <2>6. QED
    BY <2>4, <2>5 DEF Inv
<1>8. CASE Ble!Ready(queue[i], r, p)
  <2>1. /\ retry' = BleRetry /\ packet' = PacketTicks
        /\ queue' = [queue EXCEPT ![i].type = @ - 1]
        /\ queue[i].type # 0
    BY <1>1, <1>8, Zenon DEF Ble!Serve, r, p, Ble!Ready
  <2>2. CASE queue[i].type = 1
    <3>1. /\ stalls' = h + 1
          /\ fate' = [fate EXCEPT ![queue[i].msg] = "dropped"]
          /\ UNCHANGED <<sent, toBle>>
      BY <1>1, <1>8, <2>2, Zenon DEF Ble!Serve, r, p
    <3>2. PaceTyped'
      BY <1>1, <1>3, <1>4, <2>1, <3>1 DEF PaceTyped, Ble!StallLimit, Ble!NoTimer, Ble!SspBleAssumption
    <3>3. QueueTyped' /\ Sound'
      BY <1>1, <1>2, <1>3, <1>4, <2>1, <2>2, <3>1, ServeGivesUp
    <3>4. FrameLine(toBle')
      BY <1>2, <3>1
    <3>5. Ble!TypeOK'
      BY <1>4, <1>5, <3>2, <3>3, <3>4, PartsTypedNext
    <3>6. QED
      BY <3>3, <3>5 DEF Inv
  <2>3. CASE queue[i].type # 1
    <3>1. /\ stalls' = h
          /\ toBle' = Ble!Put(toBle, Ble!Frame("msg", queue[i].seq, queue[i].msg))
          /\ sent' = [sent EXCEPT ![queue[i].msg] = @ + 1]
          /\ UNCHANGED fate
      BY <1>1, <1>8, <2>3, Zenon DEF Ble!Serve, r, p
    <3>2. PaceTyped'
      BY <1>1, <1>3, <1>4, <2>1, <3>1 DEF PaceTyped, Ble!StallLimit, Ble!NoTimer, Ble!SspBleAssumption
    <3>3. QueueTyped' /\ FrameLine(toBle') /\ Sound'
      BY <1>1, <1>2, <1>3, <1>4, <2>1, <2>3, <3>1, ServeSends
    <3>4. Ble!TypeOK'
      BY <1>4, <1>5, <3>2, <3>3, PartsTypedNext
    <3>5. QED
      BY <3>3, <3>4 DEF Inv
  <2>4. QED
    BY <2>2, <2>3
<1>9. QED
  BY <1>7, <1>8

\* A frame taken from the line to the main controller.
LEMMA HeardTyped ==
  ASSUME Ble!SspBleAssumption, Inv, Ble!Heard
  PROVE  /\ FrameLine(toMain') /\ On(toMain') \subseteq On(toMain)
         /\ Head(toMain) \in Ble!FrameSet /\ ToMainFrame(Head(toMain))
         /\ stalls' = 0 /\ rebooting' \in BOOLEAN
<1>1. toMain # <<>> /\ toMain' = Tail(toMain) /\ stalls' = 0 /\ rebooting' = FALSE
  BY Zenon DEF Ble!Heard
<1>2. FrameLine(toMain) /\ WireSound
  BY TypeParts DEF Inv, Sound
<1>3. /\ FrameLine(toMain') /\ On(toMain') \subseteq On(toMain)
      /\ Head(toMain) \in Ble!FrameSet /\ Head(toMain) \in On(toMain)
  BY <1>1, <1>2, TailLine
<1>4. ToMainFrame(Head(toMain))
  BY <1>2, <1>3 DEF WireSound
<1>5. rebooting' \in BOOLEAN
  BY <1>1, Zenon
<1>6. QED
  BY <1>1, <1>3, <1>4, <1>5

\* The acknowledgement releases the message that arrived, or none.
LEMMA AckKeeps ==
  ASSUME Ble!SspBleAssumption, Inv, Ble!DispatchAck
  PROVE  Inv'
<1> DEFINE f == Head(toMain)
<1>1. Ble!Heard /\ f.kind = "ack"
  BY DEF Ble!DispatchAck
<1>2. UNCHANGED <<txSeq, scan, retry, packet, sent, bike, toBle, got, cmd, ran>>
  BY DEF Ble!DispatchAck, Ble!pace, Ble!peer
<1>3. /\ QueueTyped /\ PaceTyped /\ rebooting \in BOOLEAN /\ PeerTyped
      /\ FrameLine(toBle) /\ FrameLine(toMain)
  BY TypeParts DEF Inv
<1>4. QueueSound /\ WireSound /\ NothingInvented /\ Ble!DoneWasDelivered /\ Ble!DoneIsTrue
  BY DEF Inv, Sound
<1>5. /\ FrameLine(toMain') /\ On(toMain') \subseteq On(toMain)
      /\ ToMainFrame(f) /\ stalls' = 0 /\ rebooting' \in BOOLEAN
  BY <1>1, HeardTyped
<1>6. PaceTyped' /\ PeerTyped' /\ FrameLine(toBle')
  BY <1>2, <1>3, <1>5 DEF PaceTyped, PeerTyped, Ble!StallLimit
<1>7. f.id \in Ble!Msgs /\ got[f.id] > 0 /\ Names(f)
  BY <1>1, <1>5 DEF ToMainFrame
<1>8. CASE UNCHANGED <<queue, fate>>
  <2>1. QueueTyped'
    BY <1>2, <1>3, <1>8 DEF QueueTyped
  <2>2. QueueSound'
    BY <1>2, <1>4, <1>8, QueueKept
  <2>3. WireSound'
    BY <1>2, <1>4, <1>5, <1>8 DEF WireSound, ToBleFrame, ToMainFrame, Names, Ble!Live
  <2>4. NothingInvented' /\ Ble!DoneWasDelivered' /\ Ble!DoneIsTrue'
    BY <1>2, <1>4, <1>8 DEF NothingInvented, Ble!DoneWasDelivered, Ble!DoneIsTrue
  <2>5. Ble!TypeOK'
    BY <1>5, <1>6, <2>1, PartsTypedNext
  <2>6. QED
    BY <2>2, <2>3, <2>4, <2>5 DEF Inv, Sound
<1>9. ASSUME NEW i \in Ble!Acked(f.seq),
             queue' = [queue EXCEPT ![i].type = 0],
             fate' = [fate EXCEPT ![queue[i].msg] = "done"]
      PROVE  Inv'
  <2>1. i \in Ble!Slots /\ Ble!Live(i) /\ queue[i].msg = f.id
    BY <1>7 DEF Ble!Acked, Names
  <2>2. /\ queue'[i].type = 0
        /\ \A j \in Ble!Slots \ {i} : queue'[j] = queue[j]
    BY <1>3, <1>9, <2>1 DEF QueueTyped
  <2>3. \A j \in Ble!Slots : Ble!Live(j)' <=> j # i /\ Ble!Live(j)
    BY <2>2 DEF Ble!Live
  <2>4. QueueTyped'
    <3>1. queue' \in [Ble!Slots -> [type : 0 .. Fresh, seq : Ble!Seqs, msg : Ble!Msgs \cup {Ble!NoMsg}]]
      BY <1>3, <1>9, <2>1 DEF QueueTyped, Ble!SspBleAssumption
    <3>2. fate' \in [Ble!Msgs -> {"new", "refused", "pending", "done", "dropped"}]
      BY <1>3, <1>9 DEF QueueTyped
    <3>3. QED
      BY <1>2, <1>3, <3>1, <3>2 DEF QueueTyped
  <2>5. \A n \in Ble!Msgs : fate'[n] = IF n = f.id THEN "done" ELSE fate[n]
    BY <1>3, <1>9, <2>1 DEF QueueTyped
  <2>6. QueueSound'
    <3>1. HeldArePending'
      BY <1>2, <1>4, <2>1, <2>2, <2>3, <2>5 DEF QueueSound, HeldArePending, HeldApart
    <3>2. HeldApart'
      BY <1>4, <2>2, <2>3 DEF QueueSound, HeldApart
    <3>3. PendingAreHeld'
      BY <1>4, <2>1, <2>2, <2>3, <2>5 DEF QueueSound, PendingAreHeld
    <3>4. NewAreUnsent'
      BY <1>2, <1>4, <2>5 DEF QueueSound, NewAreUnsent
    <3>5. QED
      BY <3>1, <3>2, <3>3, <3>4 DEF QueueSound
  <2>7. (\A g : ToBleFrame(g) => ToBleFrame(g)') /\ (\A g : ToMainFrame(g) => ToMainFrame(g)')
    BY <1>2, <2>2, <2>3, FramesKept
  <2>8. WireSound'
    <3>1. (\A g \in On(toBle') : ToBleFrame(g)') /\ (\A g \in On(toMain') : ToMainFrame(g)')
      BY <1>2, <1>4, <1>5, <2>7 DEF WireSound
    <3>2. QED
      BY <3>1 DEF WireSound
  <2>9. NothingInvented' /\ Ble!DoneWasDelivered' /\ Ble!DoneIsTrue'
    BY <1>2, <1>4, <1>7, <2>5 DEF NothingInvented, Ble!DoneWasDelivered, Ble!DoneIsTrue
  <2>10. Ble!TypeOK'
    BY <1>5, <1>6, <2>4, PartsTypedNext
  <2>11. QED
    BY <2>6, <2>8, <2>9, <2>10 DEF Inv, Sound
<1>10. QED
  BY <1>8, <1>9, Zenon DEF Ble!DispatchAck

\* The lines and what was run or received change; the queue does not.  The
\* parts common to the five steps below.
LEMMA WiresKeep ==
  ASSUME Inv, UNCHANGED <<queue, txSeq, fate, scan, retry, packet, sent, bike>>,
         stalls' \in {0, stalls}, rebooting' \in BOOLEAN,
         FrameLine(toBle'), FrameLine(toMain'), PeerTyped',
         \A m \in Ble!Msgs : got[m] > 0 => got'[m] > 0,
         \A c \in Cmds : ran[c] > 0 => ran'[c] > 0,
         \A g \in On(toBle') : g \in On(toBle) \/ ToBleFrame(g)',
         \A g \in On(toMain') : g \in On(toMain) \/ ToMainFrame(g)',
         NothingInvented', Ble!DoneIsTrue'
  PROVE  Inv'
<1>1. /\ QueueTyped /\ PaceTyped /\ rebooting \in BOOLEAN /\ PeerTyped
      /\ FrameLine(toBle) /\ FrameLine(toMain)
  BY TypeParts DEF Inv
<1>2. QueueSound /\ WireSound /\ NothingInvented /\ Ble!DoneWasDelivered /\ Ble!DoneIsTrue
  BY DEF Inv, Sound
<1>3. QueueTyped' /\ PaceTyped'
  BY <1>1 DEF QueueTyped, PaceTyped, Ble!StallLimit
<1>4. Ble!TypeOK'
  BY <1>3, PartsTypedNext
<1>5. QueueSound'
  BY <1>2, QueueKept
<1>6. (\A g : ToBleFrame(g) => ToBleFrame(g)') /\ (\A g : ToMainFrame(g) => ToMainFrame(g)')
  BY FramesKept DEF Ble!Live
<1>7. WireSound'
  <2>1. (\A g \in On(toBle') : ToBleFrame(g)') /\ (\A g \in On(toMain') : ToMainFrame(g)')
    BY <1>2, <1>6 DEF WireSound
  <2>2. QED
    BY <2>1 DEF WireSound
<1>8. Ble!DoneWasDelivered'
  BY <1>2 DEF Ble!DoneWasDelivered
<1>9. QED
  BY <1>4, <1>5, <1>7, <1>8 DEF Inv, Sound

\* A line that only loses frames or gains one that is not a message holds no
\* more copies than before.
LEMMA FewerCopies ==
  ASSUME Ble!SspBleAssumption, Inv, UNCHANGED <<got, sent>>,
         \A m \in Ble!Msgs : Copies(toBle', m) <= Copies(toBle, m),
         FrameLine(toBle')
  PROVE  NothingInvented'
<1> SUFFICES ASSUME NEW m \in Ble!Msgs
             PROVE  got[m] + Copies(toBle', m) <= sent[m]
  BY DEF NothingInvented
<1>1. QueueTyped /\ PeerTyped /\ FrameLine(toBle) /\ NothingInvented
  BY TypeParts DEF Inv, Sound
<1>2. Copies(toBle, m) \in Nat /\ Copies(toBle', m) \in Nat
  BY <1>1, CopiesTyped
<1>3. got[m] \in Nat /\ sent[m] \in Nat
  BY <1>1 DEF QueueTyped, PeerTyped, Ble!MaxSends, Ble!SspBleAssumption
<1>4. QED
  BY <1>1, <1>2, <1>3 DEF NothingInvented

\* A command is run here before its acknowledgement leaves.
LEMMA CommandKeeps ==
  ASSUME Ble!SspBleAssumption, Inv, Ble!DispatchCmd
  PROVE  Inv'
<1>0. PICK f : f = Head(toMain)
  OBVIOUS
<1> DEFINE g == Ble!Frame("ack", 0, f.id)
<1>1. /\ Ble!Heard /\ f.kind = "cmd"
      /\ ran' = [ran EXCEPT ![f.id] = @ + 1]
      /\ toBle' = Ble!Put(toBle, g)
      /\ UNCHANGED <<queue, txSeq, fate, scan, retry, packet, sent, bike, got, cmd>>
  BY <1>0 DEF Ble!DispatchCmd, Ble!txq, Ble!pace, Ble!peer
<1>2. /\ QueueTyped /\ PeerTyped /\ FrameLine(toBle) /\ FrameLine(toMain)
  BY TypeParts DEF Inv
<1>3. /\ FrameLine(toMain') /\ On(toMain') \subseteq On(toMain)
      /\ ToMainFrame(f) /\ stalls' = 0 /\ rebooting' \in BOOLEAN
  BY <1>0, <1>1, HeardTyped
<1>4. f.id \in Cmds
  BY <1>1, <1>3 DEF ToMainFrame
<1>5. g \in Ble!FrameSet
  BY <1>4 DEF Ble!FrameSet, Ble!Frame, Ble!Seqs, Ble!SspBleAssumption
<1>6. FrameLine(toBle') /\ On(toBle') \subseteq On(toBle) \cup {g}
  BY <1>1, <1>2, <1>5, PutLine
<1>7. /\ PeerTyped'
      /\ ran'[f.id] > 0
      /\ \A c \in Cmds : ran[c] > 0 => ran'[c] > 0
  BY <1>1, <1>2, <1>4 DEF PeerTyped
<1>8. ToBleFrame(g)'
  BY <1>4, <1>7 DEF ToBleFrame, Ble!Frame
<1>9. NothingInvented'
  <2>1. \A m \in Ble!Msgs : Copies(toBle', m) <= Copies(toBle, m)
    <3> SUFFICES ASSUME NEW m \in Ble!Msgs
                 PROVE  Copies(toBle', m) <= Copies(toBle, m)
      OBVIOUS
    <3>1. ~(g.kind = "msg" /\ g.id = m)
      BY DEF Ble!Frame
    <3> HIDE DEF g
    <3>2. Copies(toBle', m) = Copies(toBle, m) /\ Copies(toBle, m) \in Nat
      BY <1>1, <1>2, <1>5, <3>1, PutCopies, CopiesTyped
    <3>3. QED
      BY <3>2
  <2>2. QED
    BY <1>1, <1>6, <2>1, FewerCopies
<1>10. Ble!DoneIsTrue'
  BY <1>1, <1>7 DEF Inv, Sound, Ble!DoneIsTrue
<1>11. \A x \in On(toBle') : x \in On(toBle) \/ ToBleFrame(x)'
  BY <1>6, <1>8
<1>12. \A x \in On(toMain') : x \in On(toMain) \/ ToMainFrame(x)'
  BY <1>3
<1>13. \A m \in Ble!Msgs : got[m] > 0 => got'[m] > 0
  BY <1>1
<1> HIDE DEF g
<1>14. QED
  BY <1>1, <1>3, <1>6, <1>7, <1>9, <1>10, <1>11, <1>12, <1>13, WiresKeep

\* The coprocessor takes a frame: a message is counted and acknowledged, an
\* acknowledgement ends its command.
LEMMA ReceiveKeeps ==
  ASSUME Ble!SspBleAssumption, Inv, Ble!BleReceive
  PROVE  Inv'
<1>0. PICK f : f = Head(toBle)
  OBVIOUS
<1> DEFINE g == Ble!Frame("ack", f.seq, f.id)
<1>1. /\ toBle # <<>> /\ toBle' = Tail(toBle)
      /\ UNCHANGED <<queue, txSeq, fate, scan, retry, packet, sent, stalls, rebooting,
                     bike, ran>>
  BY DEF Ble!BleReceive, Ble!txq, Ble!pace, Ble!ctl
<1>2. /\ QueueTyped /\ PeerTyped /\ rebooting \in BOOLEAN
      /\ FrameLine(toBle) /\ FrameLine(toMain)
  BY TypeParts DEF Inv
<1>3. WireSound /\ NothingInvented /\ Ble!DoneIsTrue
  BY DEF Inv, Sound
<1>4. /\ FrameLine(toBle') /\ On(toBle') \subseteq On(toBle) /\ f \in Ble!FrameSet
      /\ f \in On(toBle)
  BY <1>0, <1>1, <1>2, TailLine
<1>5. ToBleFrame(f)
  BY <1>3, <1>4 DEF WireSound
<1>6. rebooting' \in BOOLEAN /\ stalls' \in {0, stalls}
  BY <1>1, <1>2, Zenon
<1>7. \A x \in On(toBle') : x \in On(toBle) \/ ToBleFrame(x)'
  BY <1>4
<1>8. \A c \in Cmds : ran[c] > 0 => ran'[c] > 0
  BY <1>1
<1>9. CASE f.kind = "msg"
  <2>1. /\ got' = [got EXCEPT ![f.id] = @ + 1]
        /\ toMain' = Ble!Put(toMain, g)
        /\ UNCHANGED cmd
    BY <1>0, <1>9, Zenon DEF Ble!BleReceive
  <2>2. f.id \in Ble!Msgs /\ Names(f)
    BY <1>5, <1>9 DEF ToBleFrame
  <2>3. g \in Ble!FrameSet
    BY <1>4, <1>9, <2>2 DEF Ble!FrameSet, Ble!Frame
  <2>4. FrameLine(toMain') /\ On(toMain') \subseteq On(toMain) \cup {g}
    BY <1>2, <2>1, <2>3, PutLine
  <2>5. \A m \in Ble!Msgs : got'[m] = IF m = f.id THEN got[m] + 1 ELSE got[m]
    BY <1>2, <2>1 DEF PeerTyped
  <2>6. \A m \in Ble!Msgs : got'[m] + Copies(toBle', m) <= sent[m]
    <3> SUFFICES ASSUME NEW m \in Ble!Msgs
                 PROVE  got'[m] + Copies(toBle', m) <= sent[m]
      OBVIOUS
    <3>1. Copies(toBle, m) \in Nat /\ Copies(toBle', m) \in Nat
      BY <1>2, <1>4, CopiesTyped
    <3>2. got[m] \in Nat /\ sent[m] \in Nat /\ got[m] + Copies(toBle, m) <= sent[m]
      BY <1>2, <1>3
      DEF NothingInvented, QueueTyped, PeerTyped, Ble!MaxSends, Ble!SspBleAssumption
    <3>3. /\ Copies(toBle', m) <= Copies(toBle, m)
          /\ m = f.id => Copies(toBle', m) + 1 <= Copies(toBle, m)
      <4>1. /\ Copies(Tail(toBle), m) <= Copies(toBle, m)
            /\ f.kind = "msg" /\ f.id = m => Copies(Tail(toBle), m) + 1 <= Copies(toBle, m)
        BY <1>0, <1>1, <1>2, TailCopies
      <4>2. QED
        BY <1>1, <1>9, <4>1
    <3>4. QED
      BY <2>5, <3>1, <3>2, <3>3
  <2>7. NothingInvented'
    BY <1>1, <2>6 DEF NothingInvented
  <2>8. /\ PeerTyped'
        /\ \A m \in Ble!Msgs : got[m] > 0 => got'[m] > 0
        /\ got'[f.id] > 0
    <3>1. got[f.id] + 1 \in 0 .. Ble!MaxSends
      <4>1. Copies(toBle', f.id) \in Nat
        BY <1>4, CopiesTyped
      <4>2. QED
        BY <1>2, <2>2, <2>5, <2>6, <4>1
        DEF QueueTyped, PeerTyped, Ble!MaxSends, Ble!SspBleAssumption
    <3>2. got' \in [Ble!Msgs -> 0 .. Ble!MaxSends]
      BY <1>2, <2>1, <3>1 DEF PeerTyped
    <3>3. PeerTyped'
      BY <1>1, <1>2, <2>1, <3>2 DEF PeerTyped
    <3>4. QED
      BY <1>2, <2>2, <2>5, <3>3 DEF PeerTyped, Ble!MaxSends, Ble!SspBleAssumption
  <2>9. ToMainFrame(g)'
    BY <1>1, <2>2, <2>8 DEF ToMainFrame, Names, Ble!Frame, Ble!Live
  <2>10. Ble!DoneIsTrue'
    BY <1>1, <1>3, <2>1 DEF Ble!DoneIsTrue
  <2>11. \A x \in On(toMain') : x \in On(toMain) \/ ToMainFrame(x)'
    BY <2>4, <2>9
  <2> HIDE DEF g
  <2>12. QED
    BY <1>1, <1>4, <1>6, <1>7, <1>8, <2>4, <2>7, <2>8, <2>10, <2>11, WiresKeep
<1>10. CASE f.kind # "msg"
  <2>1. /\ cmd' = [cmd EXCEPT ![f.id] = IF @ = "sending" THEN "done" ELSE @]
        /\ UNCHANGED <<got, toMain>>
    BY <1>0, <1>10, Zenon DEF Ble!BleReceive
  <2>2. f.id \in Cmds /\ ran[f.id] > 0
    BY <1>5, <1>10 DEF ToBleFrame
  <2>3. PeerTyped'
    <3>1. cmd' \in [Cmds -> {"new", "sending", "done", "lost"}]
      BY <1>2, <2>1 DEF PeerTyped
    <3>2. QED
      BY <1>1, <1>2, <2>1, <3>1 DEF PeerTyped
  <2>4. Ble!DoneIsTrue'
    BY <1>1, <1>2, <1>3, <2>1, <2>2 DEF Ble!DoneIsTrue, PeerTyped
  <2>5. NothingInvented'
    <3>1. \A m \in Ble!Msgs : Copies(toBle', m) <= Copies(toBle, m)
      BY <1>1, <1>2, TailCopies
    <3>2. QED
      BY <1>1, <1>4, <2>1, <3>1, FewerCopies
  <2>6. /\ FrameLine(toMain')
        /\ \A x \in On(toMain') : x \in On(toMain) \/ ToMainFrame(x)'
        /\ \A m \in Ble!Msgs : got[m] > 0 => got'[m] > 0
    BY <1>2, <2>1
  <2> HIDE DEF g
  <2>7. QED
    BY <1>1, <1>4, <1>6, <1>7, <1>8, <2>3, <2>4, <2>5, <2>6, WiresKeep
<1>11. QED
  BY <1>9, <1>10

LEMMA SendKeeps ==
  ASSUME Ble!SspBleAssumption, Inv, NEW c \in Cmds, Ble!BleSend(c)
  PROVE  Inv'
<1> DEFINE g == Ble!Frame("cmd", 0, c)
<1>1. /\ cmd' = [cmd EXCEPT ![c] = "sending"]
      /\ cmd[c] \in {"new", "sending"}
      /\ toMain' = Ble!Put(toMain, g)
      /\ UNCHANGED <<queue, txSeq, fate, scan, retry, packet, sent, stalls, rebooting,
                     bike, toBle, got, ran>>
  BY DEF Ble!BleSend, Ble!Put, Ble!txq, Ble!pace, Ble!ctl
<1>2. /\ QueueTyped /\ PeerTyped /\ rebooting \in BOOLEAN
      /\ FrameLine(toBle) /\ FrameLine(toMain)
  BY TypeParts DEF Inv
<1>3. g \in Ble!FrameSet
  BY DEF Ble!FrameSet, Ble!Frame
<1>4. FrameLine(toMain') /\ On(toMain') \subseteq On(toMain) \cup {g}
  BY <1>1, <1>2, <1>3, PutLine
<1>5. PeerTyped'
  BY <1>1, <1>2 DEF PeerTyped
<1>6. ToMainFrame(g)'
  BY DEF ToMainFrame, Ble!Frame
<1>7. Ble!DoneIsTrue'
  BY <1>1, <1>2 DEF Inv, Sound, Ble!DoneIsTrue, PeerTyped
<1>8. NothingInvented'
  BY <1>1 DEF Inv, Sound, NothingInvented
<1>9. rebooting' \in BOOLEAN /\ stalls' \in {0, stalls}
  BY <1>1, <1>2, Zenon
<1>10. FrameLine(toBle') /\ (\A x \in On(toBle') : x \in On(toBle) \/ ToBleFrame(x)')
  BY <1>1, <1>2
<1>11. \A x \in On(toMain') : x \in On(toMain) \/ ToMainFrame(x)'
  BY <1>4, <1>6
<1>12. /\ \A m \in Ble!Msgs : got[m] > 0 => got'[m] > 0
       /\ \A d \in Cmds : ran[d] > 0 => ran'[d] > 0
  BY <1>1
<1> HIDE DEF g
<1>13. QED
  BY <1>1, <1>4, <1>5, <1>7, <1>8, <1>9, <1>10, <1>11, <1>12, WiresKeep

LEMMA LoseKeeps ==
  ASSUME Ble!SspBleAssumption, Inv, Ble!Lose
  PROVE  Inv'
<1>1. UNCHANGED <<queue, txSeq, fate, scan, retry, packet, sent, stalls, rebooting, bike,
                  got, cmd, ran>>
  BY DEF Ble!Lose, Ble!txq, Ble!pace, Ble!ctl, Ble!peer
<1>2. /\ QueueTyped /\ PeerTyped /\ rebooting \in BOOLEAN
      /\ FrameLine(toBle) /\ FrameLine(toMain)
  BY TypeParts DEF Inv
<1>3. PeerTyped' /\ Ble!DoneIsTrue'
  BY <1>1, <1>2 DEF Inv, Sound, PeerTyped, Ble!DoneIsTrue
<1>4. rebooting' \in BOOLEAN /\ stalls' \in {0, stalls}
  BY <1>1, <1>2, Zenon
<1>5. /\ \A m \in Ble!Msgs : got[m] > 0 => got'[m] > 0
      /\ \A d \in Cmds : ran[d] > 0 => ran'[d] > 0
  BY <1>1
<1>6. CASE toBle # <<>> /\ toBle' = Tail(toBle) /\ UNCHANGED toMain
  <2>1. FrameLine(toBle') /\ On(toBle') \subseteq On(toBle)
    BY <1>2, <1>6, TailLine
  <2>2. \A m \in Ble!Msgs : Copies(toBle', m) <= Copies(toBle, m)
    BY <1>2, <1>6, TailCopies
  <2>3. NothingInvented'
    BY <1>1, <2>1, <2>2, FewerCopies
  <2>4. /\ FrameLine(toMain')
        /\ \A x \in On(toBle') : x \in On(toBle) \/ ToBleFrame(x)'
        /\ \A x \in On(toMain') : x \in On(toMain) \/ ToMainFrame(x)'
    BY <1>2, <1>6, <2>1
  <2>5. QED
    BY <1>1, <1>3, <1>4, <1>5, <2>1, <2>3, <2>4, WiresKeep
<1>7. CASE toMain # <<>> /\ toMain' = Tail(toMain) /\ UNCHANGED toBle
  <2>1. FrameLine(toMain') /\ On(toMain') \subseteq On(toMain)
    BY <1>2, <1>7, TailLine
  <2>2. NothingInvented'
    BY <1>1, <1>7 DEF Inv, Sound, NothingInvented
  <2>3. /\ FrameLine(toBle')
        /\ \A x \in On(toBle') : x \in On(toBle) \/ ToBleFrame(x)'
        /\ \A x \in On(toMain') : x \in On(toMain) \/ ToMainFrame(x)'
    BY <1>2, <1>7, <2>1
  <2>4. QED
    BY <1>1, <1>3, <1>4, <1>5, <2>1, <2>2, <2>3, WiresKeep
<1>8. QED
  BY <1>6, <1>7, Zenon DEF Ble!Lose

LEMMA NextInv ==
  ASSUME Ble!SspBleAssumption, Inv, [Ble!Next]_Ble!vars
  PROVE  Inv'
<1>1. CASE \E m \in Ble!Msgs : \/ Ble!Enqueue(m) /\ Ble!WireFasterThanWrap
                           \/ \E long \in BOOLEAN : Ble!EnqueueRefused(m, long)
  BY <1>1, EnqueueKeeps, RefusedKeeps, Zenon
<1>2. CASE Ble!PumpBlocked \/ Ble!Tick \/ Ble!ChangeState \/ UNCHANGED Ble!vars
  BY <1>2, PacesKeep
<1>3. CASE Ble!PumpServe
  BY <1>3, PumpKeeps
<1>4. CASE Ble!DispatchAck
  BY <1>4, AckKeeps
<1>5. CASE Ble!DispatchCmd
  BY <1>5, CommandKeeps
<1>6. CASE Ble!BleReceive
  BY <1>6, ReceiveKeeps
<1>7. CASE Ble!Lose
  BY <1>7, LoseKeeps
<1>8. CASE \E c \in Cmds : Ble!BleSend(c)
  BY <1>8, SendKeeps, Zenon
<1>9. QED
  BY <1>1, <1>2, <1>3, <1>4, <1>5, <1>6, <1>7, <1>8, Zenon DEF Ble!Next, Ble!Pump, Ble!Dispatch

LEMMA InvTells == Inv => Ble!UniqueNames /\ Ble!DoneIsTrue
  BY DEF Inv, Sound, QueueSound, HeldApart, Ble!UniqueNames

\* The queue, its timers and the two lines keep their types; no message is
\* transmitted or received more often than it may be (ssp.c:117-212, 542-654).
THEOREM Typed == ASSUME Ble!SspBleAssumption PROVE Ble!Spec => []Ble!TypeOK
<1>1. Ble!Init => Inv
  BY InitInv
<1>2. Inv /\ [Ble!Next]_Ble!vars => Inv'
  BY NextInv
<1>3. Inv => Ble!TypeOK
  BY DEF Inv
<1>4. QED
  BY <1>1, <1>2, <1>3, PTL DEF Ble!Spec

\* An acknowledgement names one message: no two queued messages share a
\* sequence number, however often the byte wraps (ssp.c:177-212).
THEOREM NumbersUnique == ASSUME Ble!SspBleAssumption PROVE Ble!Spec => []Ble!UniqueNames
<1>1. Ble!Init => Inv
  BY InitInv
<1>2. Inv /\ [Ble!Next]_Ble!vars => Inv'
  BY NextInv
<1>3. Inv => Ble!UniqueNames
  BY DEF Inv, Sound, QueueSound, HeldApart, Ble!UniqueNames
<1>4. QED
  BY <1>1, <1>2, <1>3, PTL DEF Ble!Spec

\* A pending message sits in exactly one slot, whose countdown is what it has
\* left; any other message sits in none (ssp.c:177-212, 542-654).
THEOREM HeldOnce == ASSUME Ble!SspBleAssumption PROVE Ble!Spec => []Ble!QueuedOnce
<1>1. Ble!Init => Inv
  BY InitInv
<1>2. Inv /\ [Ble!Next]_Ble!vars => Inv'
  BY NextInv
<1>3. Inv => Ble!QueuedOnce
  BY DEF Inv, Sound, QueueSound, HeldApart, HeldArePending, PendingAreHeld, Ble!QueuedOnce
<1>4. QED
  BY <1>1, <1>2, <1>3, PTL DEF Ble!Spec

\* A command the coprocessor believes done was run here (ssp.c:663-790).
THEOREM CommandsRun == ASSUME Ble!SspBleAssumption PROVE Ble!Spec => []Ble!DoneIsTrue
<1>1. Ble!Init => Inv
  BY InitInv
<1>2. Inv /\ [Ble!Next]_Ble!vars => Inv'
  BY NextInv
<1>3. Inv => Ble!DoneIsTrue
  BY DEF Inv, Sound
<1>4. QED
  BY <1>1, <1>2, <1>3, PTL DEF Ble!Spec

-----------------------------------------------------------------------------
(* The contract of the transport                                            *)

LEMMA AckMaps ==
  ASSUME Ble!SspBleAssumption, Inv, Ble!DispatchAck
  PROVE  [Ble!Contract!Next]_(Ble!Contract!vars)
<1> DEFINE f == Head(toMain)
<1>1. UNCHANGED <<sent, got>>
  BY DEF Ble!DispatchAck, Ble!pace, Ble!peer
<1>2. ToMainFrame(f) /\ f.kind = "ack"
  BY HeardTyped DEF Ble!DispatchAck
<1>3. f.id \in Ble!Msgs /\ got[f.id] > 0 /\ Names(f)
  BY <1>2 DEF ToMainFrame
<1>4. CASE UNCHANGED <<queue, fate>>
  BY <1>1, <1>4 DEF Ble!Contract!vars
<1>5. ASSUME NEW i \in Ble!Acked(f.seq), fate' = [fate EXCEPT ![queue[i].msg] = "done"]
      PROVE  Ble!Contract!Next
  <2>1. queue[i].msg = f.id /\ fate[f.id] = "pending"
    BY <1>3 DEF Ble!Acked, Names, Inv, Sound, QueueSound, HeldArePending
  <2>2. Ble!Contract!Confirm(f.id)
    BY <1>1, <1>3, <1>5, <2>1 DEF Ble!Contract!Confirm, Ble!Contract!Becomes
  <2>3. QED
    BY <1>3, <2>2 DEF Ble!Contract!Next
<1>6. QED
  BY <1>4, <1>5, Zenon DEF Ble!DispatchAck

LEMMA PumpMaps ==
  ASSUME Ble!SspBleAssumption, Inv, Ble!PumpServe
  PROVE  [Ble!Contract!Next]_(Ble!Contract!vars)
<1> DEFINE i == (scan + 1) % BleSlots
           m == queue[i].msg
<1>1. UNCHANGED got
  BY DEF Ble!PumpServe
<1>2. QueueTyped /\ PaceTyped /\ QueueSound
  BY TypeParts DEF Inv, Sound
<1>3. i \in Ble!Slots
  BY <1>2, ModRange DEF PaceTyped, Ble!Slots, Ble!SspBleAssumption
<1> HIDE DEF i
<1>4. \/ UNCHANGED <<fate, sent>>
      \/ queue[i].type = 1 /\ fate' = [fate EXCEPT ![m] = "dropped"] /\ UNCHANGED sent
      \/ queue[i].type \notin {0, 1} /\ sent' = [sent EXCEPT ![m] = @ + 1] /\ UNCHANGED fate
  BY Zenon DEF Ble!PumpServe, Ble!Serve, Ble!Ready, i
<1>5. CASE UNCHANGED <<fate, sent>>
  BY <1>1, <1>5 DEF Ble!Contract!vars
<1>6. CASE queue[i].type # 0
  <2>1. m \in Ble!Msgs /\ fate[m] = "pending" /\ queue[i].type = Fresh - sent[m]
    BY <1>2, <1>3, <1>6 DEF QueueSound, HeldArePending, Ble!Live
  <2>2. sent[m] \in 0 .. Ble!MaxSends /\ queue[i].type \in 0 .. Fresh
    BY <1>2, <1>3, <2>1 DEF QueueTyped
  <2> HIDE DEF m
  <2>3. CASE /\ queue[i].type = 1 /\ fate' = [fate EXCEPT ![m] = "dropped"]
             /\ UNCHANGED sent
    <3>1. sent[m] = Ble!MaxSends
      BY <2>1, <2>2, <2>3 DEF Ble!MaxSends, Ble!SspBleAssumption
    <3>2. Ble!Contract!Drop(m)
      BY <1>1, <2>1, <2>3, <3>1 DEF Ble!Contract!Drop, Ble!Contract!Becomes
    <3>3. QED
      BY <2>1, <3>2 DEF Ble!Contract!Next
  <2>4. CASE /\ queue[i].type \notin {0, 1} /\ sent' = [sent EXCEPT ![m] = @ + 1]
             /\ UNCHANGED fate
    <3>1. sent[m] < Ble!MaxSends
      BY <2>1, <2>2, <2>4 DEF Ble!MaxSends, Ble!SspBleAssumption
    <3>2. Ble!Contract!Transmit(m)
      BY <1>1, <2>1, <2>4, <3>1 DEF Ble!Contract!Transmit
    <3>3. QED
      BY <2>1, <3>2 DEF Ble!Contract!Next
  <2>5. QED
    BY <1>4, <1>5, <2>3, <2>4 DEF m
<1>7. QED
  BY <1>4, <1>5, <1>6

LEMMA ReceiveMaps ==
  ASSUME Ble!SspBleAssumption, Inv, Ble!BleReceive
  PROVE  [Ble!Contract!Next]_(Ble!Contract!vars)
<1> DEFINE f == Head(toBle)
<1>1. toBle # <<>> /\ UNCHANGED <<fate, sent>>
  BY DEF Ble!BleReceive, Ble!txq, Ble!pace
<1>2. QueueTyped /\ PeerTyped /\ FrameLine(toBle) /\ WireSound /\ NothingInvented
  BY TypeParts DEF Inv, Sound
<1>3. f \in On(toBle)
  BY <1>1, <1>2, TailLine
<1>4. CASE f.kind = "msg"
  <2>1. f.id \in Ble!Msgs
    BY <1>2, <1>3, <1>4 DEF WireSound, ToBleFrame
  <2>2. Copies(toBle, f.id) \in Nat /\ Copies(Tail(toBle), f.id) \in Nat
    <3>1. FrameLine(Tail(toBle))
      BY <1>1, <1>2, TailLine
    <3>2. QED
      BY <1>2, <3>1, CopiesTyped
  <2>3. Copies(Tail(toBle), f.id) + 1 <= Copies(toBle, f.id)
    BY <1>1, <1>2, <1>4, TailCopies
  <2>4. got[f.id] + Copies(toBle, f.id) <= sent[f.id] /\ got[f.id] \in Nat /\ sent[f.id] \in Nat
    BY <1>2, <2>1 DEF NothingInvented, QueueTyped, PeerTyped, Ble!MaxSends, Ble!SspBleAssumption
  <2>5. got[f.id] < sent[f.id]
    <3> HIDE DEF f
    <3>1. QED
      BY <2>2, <2>3, <2>4
  <2>6. got' = [got EXCEPT ![f.id] = @ + 1]
    BY <1>4, Zenon DEF Ble!BleReceive
  <2>7. Ble!Contract!Arrive(f.id)
    BY <1>1, <2>5, <2>6 DEF Ble!Contract!Arrive
  <2>8. QED
    BY <2>1, <2>7 DEF Ble!Contract!Next
<1>5. CASE f.kind # "msg"
  <2>1. UNCHANGED got
    BY <1>5, Zenon DEF Ble!BleReceive
  <2>2. QED
    BY <1>1, <2>1 DEF Ble!Contract!vars
<1>6. QED
  BY <1>4, <1>5

LEMMA SubmitMaps ==
  ASSUME NEW m \in Ble!Msgs,
         Ble!Enqueue(m) \/ (\E long \in BOOLEAN : Ble!EnqueueRefused(m, long))
  PROVE  Ble!Contract!Next
<1>1. Ble!Enqueue(m) => Ble!Contract!Submit(m)
  BY DEF Ble!Enqueue, Ble!Submits, Ble!Contract!Submit, Ble!Contract!Becomes, Ble!pace, Ble!peer
<1>2. (\E long \in BOOLEAN : Ble!EnqueueRefused(m, long)) => Ble!Contract!Refuse(m)
  BY DEF Ble!EnqueueRefused, Ble!Submits, Ble!Contract!Refuse, Ble!Contract!Becomes, Ble!pace, Ble!peer
<1>3. QED
  BY <1>1, <1>2 DEF Ble!Contract!Next

LEMMA StepMaps ==
  ASSUME Ble!SspBleAssumption, Inv, [Ble!Next]_Ble!vars
  PROVE  [Ble!Contract!Next]_(Ble!Contract!vars)
<1> SUFFICES ASSUME Inv, [Ble!Next]_Ble!vars
             PROVE  [Ble!Contract!Next]_(Ble!Contract!vars)
  OBVIOUS
<1>1. CASE \E m \in Ble!Msgs : \/ Ble!Enqueue(m) /\ Ble!WireFasterThanWrap
                           \/ \E long \in BOOLEAN : Ble!EnqueueRefused(m, long)
  BY <1>1, SubmitMaps, Zenon
<1>2. CASE Ble!PumpServe
  BY <1>2, PumpMaps
<1>3. CASE Ble!DispatchAck
  BY <1>3, AckMaps
<1>4. CASE Ble!BleReceive
  BY <1>4, ReceiveMaps
<1>5. CASE Ble!PumpBlocked \/ Ble!DispatchCmd \/ Ble!Tick \/ Ble!ChangeState \/ Ble!Lose \/ UNCHANGED Ble!vars
           \/ \E c \in Cmds : Ble!BleSend(c)
  <2>1. UNCHANGED <<fate, sent, got>>
    BY <1>5 DEF Ble!PumpBlocked, Ble!DispatchCmd, Ble!Tick, Ble!ChangeState, Ble!Lose, Ble!BleSend, Ble!vars, Ble!txq,
                Ble!pace, Ble!peer
  <2>2. QED
    BY <2>1 DEF Ble!Contract!vars
<1>6. QED
  BY <1>1, <1>2, <1>3, <1>4, <1>5, Zenon DEF Ble!Next, Ble!Pump, Ble!Dispatch

\* The transport implements its contract: it sends a message at most MaxSends
\* times, confirms only what has arrived, gives up only after the last
\* transmission, and late or duplicate frames do not disturb that
\* (ssp.c:177-212, 542-654).
THEOREM KeepsContract == ASSUME Ble!SspBleAssumption PROVE Ble!Spec => Ble!Implements
<1>1. Ble!Init => Ble!Contract!Init
  BY DEF Ble!Init, Ble!Contract!Init
<1>2. Ble!Init => Inv
  BY InitInv
<1>3. Inv /\ [Ble!Next]_Ble!vars => Inv'
  BY NextInv
<1>4. Inv /\ [Ble!Next]_Ble!vars => [Ble!Contract!Next]_(Ble!Contract!vars)
  BY StepMaps
<1>5. QED
  BY <1>1, <1>2, <1>3, <1>4, PTL DEF Ble!Spec, Ble!Implements, Ble!Contract!Spec
-----------------------------------------------------------------------------
(* The link to the motor controller                                         *)

Sizes == /\ MotorSlots \in Nat /\ MotorSlots > 0 /\ HandleMod \in Nat /\ HandleMod > MotorSlots
         /\ MotorRetry \in Nat /\ BetweenTicks \in Nat /\ BacklogLimit \in Nat /\ MotorMsgs \in Nat

LEMMA SizesHold == Motor!SspmAssumption => Sizes
  BY DEF Motor!SspmAssumption, Sizes

(* The table.  A live slot holds a pending message, no two the same one,    *)
(* and the message between choice and store is still a new one.  This holds *)
(* whatever a callback sends in between.                                    *)

TableTyped ==
    /\ entries \in [Motor!Slots -> [state : 0 .. 2, handle : Motor!Handles,
                                  msg : Motor!Msgs \cup {Motor!NoMsg}]]
    /\ fate \in [Motor!Msgs -> Motor!Fates]
    /\ scan \in Motor!Slots

SlotsPend == \A i \in Motor!Slots : Motor!Live(i) =>
                entries[i].msg \in Motor!Msgs /\ fate[entries[i].msg] = "pending"

SlotsApart == \A i, j \in Motor!Slots :
                Motor!Live(i) /\ Motor!Live(j) /\ i # j => entries[i].msg # entries[j].msg

PickNew == \/ picked = Motor!NoPick
           \/ /\ picked \in [slot : Motor!Slots, handle : Motor!Handles, msg : Motor!Msgs]
              /\ fate[picked.msg] = "new"

TableSound == TableTyped /\ SlotsPend /\ SlotsApart /\ PickNew

LEMMA TableStill ==
  ASSUME TableSound, UNCHANGED <<entries, fate, scan, picked>> PROVE TableSound'
  BY DEF TableSound, TableTyped, SlotsPend, SlotsApart, PickNew, Motor!Live

LEMMA StoredKeeps ==
  ASSUME TableTyped, SlotsPend, SlotsApart, UNCHANGED scan,
         NEW i \in Motor!Slots, NEW h \in Motor!Handles, NEW m \in Motor!Msgs,
         fate[m] = "new", Motor!Stored(i, h, m)
  PROVE  TableTyped' /\ SlotsPend' /\ SlotsApart'
<1> USE DEF Motor!Stored, TableTyped
<1>1. TableTyped'
  BY DEF Motor!Fates
<1>2. \A j \in Motor!Slots : j # i => entries'[j] = entries[j] /\ (Motor!Live(j)' <=> Motor!Live(j))
  BY DEF Motor!Live
<1>3. entries'[i] = [state |-> 2, handle |-> h, msg |-> m] /\ entries'[i].msg = m
  OBVIOUS
<1>4. \A j \in Motor!Slots : Motor!Live(j) => entries[j].msg # m
  BY DEF SlotsPend
<1>5. fate'[m] = "pending" /\ \A n \in Motor!Msgs : n # m => fate'[n] = fate[n]
  OBVIOUS
<1>6. SlotsPend'
  BY <1>2, <1>3, <1>4, <1>5 DEF SlotsPend
<1>7. SlotsApart'
  BY <1>2, <1>3, <1>4 DEF SlotsApart
<1>8. QED
  BY <1>1, <1>6, <1>7

LEMMA FateFailsKeeps ==
  ASSUME TableSound, NEW m \in Motor!Msgs, fate[m] = "new",
         picked = Motor!NoPick \/ m # picked.msg,
         NEW w \in Motor!Fates, fate' = [fate EXCEPT ![m] = w], UNCHANGED <<entries, scan, picked>>
  PROVE  TableSound'
<1> USE DEF TableSound
<1>1. TableTyped'
  BY DEF TableTyped
<1>2. \A j \in Motor!Slots : Motor!Live(j) => entries[j].msg # m
  BY DEF SlotsPend
<1>3. SlotsPend' /\ SlotsApart'
  BY <1>2 DEF SlotsPend, SlotsApart, Motor!Live, TableTyped
<1>4. PickNew'
  BY DEF PickNew, TableTyped
<1>5. QED
  BY <1>1, <1>3, <1>4

\* What a call of maybe_enqueue_tx_message that stores nothing does.
Fails(m) == Motor!Ignored(m) \/ Motor!TooLong(m) \/ Motor!Refused(m)

LEMMA FailsChanges ==
  ASSUME NEW m, Fails(m)
  PROVE  /\ entries' = entries
         /\ \E w \in Motor!Fates \ {"done", "dropped"} : fate' = [fate EXCEPT ![m] = w]
  BY DEF Fails, Motor!Ignored, Motor!TooLong, Motor!Refused, Motor!Fates

LEMMA EnqueueTable ==
  ASSUME Sizes, TableSound, NEW m \in Motor!Msgs,
         Motor!EnqueueFails(m) \/ Motor!EnqueuePick(m) \/ Motor!IsrEnqueue(m)
  PROVE  TableSound'
<1> USE DEF TableSound
<1>1. fate[m] = "new" /\ m # picked.msg /\ UNCHANGED scan
  BY DEF Motor!EnqueueFails, Motor!EnqueuePick, Motor!IsrEnqueue, Motor!Submits, Motor!rest,
     Motor!pace
<1>2. CASE Fails(m) /\ UNCHANGED picked
  <2>1. PICK w \in Motor!Fates : fate' = [fate EXCEPT ![m] = w]
    BY <1>2, FailsChanges
  <2>2. entries' = entries
    BY <1>2, FailsChanges
  <2>3. QED
    BY <1>1, <1>2, <2>1, <2>2, FateFailsKeeps
<1>3. CASE Motor!EnqueuePick(m)
  <2>1. PICK i \in Motor!Slots, h \in Motor!Handles :
          picked' = [slot |-> i, handle |-> h, msg |-> m]
    BY <1>3 DEF Motor!EnqueuePick
  <2>2. UNCHANGED <<entries, fate>>
    BY <1>3 DEF Motor!EnqueuePick
  <2>3. TableTyped' /\ SlotsPend' /\ SlotsApart'
    BY <1>1, <2>2 DEF TableTyped, SlotsPend, SlotsApart, Motor!Live
  <2>4. PickNew'
    BY <1>1, <2>1, <2>2 DEF PickNew
  <2>5. QED
    BY <2>3, <2>4
<1>4. CASE /\ UNCHANGED picked
           /\ \E i \in Motor!Slots, h \in Motor!Handles : Motor!Stored(i, h, m)
  <2>1. TableTyped' /\ SlotsPend' /\ SlotsApart'
    BY <1>1, <1>4, StoredKeeps
  <2>2. fate' = [fate EXCEPT ![m] = "pending"]
    BY <1>4 DEF Motor!Stored
  <2>3. PickNew'
    BY <1>1, <1>4, <2>2 DEF PickNew, TableTyped
  <2>4. QED
    BY <2>1, <2>3
<1>5. QED
  BY <1>2, <1>3, <1>4 DEF Motor!EnqueueFails, Motor!IsrEnqueue, Fails, Motor!rest

LEMMA StoreTable == ASSUME Sizes, TableSound, Motor!EnqueueStore PROVE TableSound'
<1>1. /\ picked # Motor!NoPick /\ picked' = Motor!NoPick /\ UNCHANGED scan
      /\ Motor!Stored(picked.slot, picked.handle, picked.msg)
  BY DEF Motor!EnqueueStore, Motor!AtLoopTop, Motor!rest, Motor!pace
<1>2. picked.slot \in Motor!Slots /\ picked.handle \in Motor!Handles /\ picked.msg \in Motor!Msgs
      /\ fate[picked.msg] = "new"
  BY <1>1 DEF TableSound, PickNew
<1>3. TableTyped' /\ SlotsPend' /\ SlotsApart'
  BY <1>1, <1>2, StoredKeeps DEF TableSound
<1>4. QED
  BY <1>1, <1>3 DEF TableSound, PickNew

\* The pump waits, sends a fresh message or gives all of them up; an
\* acknowledgement frees one slot.
PumpTurn(i) ==
    \/ UNCHANGED <<entries, fate, committed, toMotor, sent>>
    \/ /\ Motor!Live(i) /\ entries[i].state = 1 /\ Motor!Wipe /\ UNCHANGED <<toMotor, sent>>
    \/ /\ Motor!Live(i) /\ entries[i].state # 1 /\ Motor!Send(i) /\ UNCHANGED <<fate, committed>>

LEMMA PumpTurns ==
  ASSUME Sizes, TableSound, Motor!Pump
  PROVE  /\ \E i \in Motor!Slots : PumpTurn(i)
         /\ scan' \in Motor!Slots /\ picked = Motor!NoPick
         /\ UNCHANGED <<picked, toMain, got, raced>>
         /\ recovery' => recovery \/ ~(committed <= BacklogLimit)
<1> DEFINE i == (scan + 1) % MotorSlots
<1>1. i \in Motor!Slots /\ scan' = i
  <2>1. scan + 1 \in Nat
    BY DEF TableSound, TableTyped, Motor!Slots, Sizes
  <2>2. QED
    BY <2>1 DEF Motor!Pump, Motor!Slots, Sizes
<1>2. Motor!Serve(i) /\ picked = Motor!NoPick /\ UNCHANGED <<picked, toMain, got, raced>>
  BY Zenon DEF Motor!Pump, Motor!Served, Motor!AtLoopTop
<1>3. recovery' => recovery \/ ~(committed <= BacklogLimit)
  BY Zenon DEF Motor!Pump, Motor!Backlog
<1> HIDE DEF i
<1>4. PumpTurn(i)
  BY <1>2 DEF PumpTurn, Motor!Serve, Motor!Ready, Motor!Live
<1>5. QED
  BY <1>1, <1>2, <1>3, <1>4

LEMMA WipeTable ==
  ASSUME Sizes, TableTyped, scan' \in Motor!Slots, picked = Motor!NoPick, picked' = picked,
         Motor!Wipe
  PROVE  TableSound' /\ \A i \in Motor!Slots : ~Motor!Live(i)'
<1>1. \A i \in Motor!Slots : entries'[i] = Motor!Empty
  BY DEF Motor!Wipe
<1>2. \A i \in Motor!Slots : ~Motor!Live(i)'
  BY <1>1 DEF Motor!Live, Motor!Empty
<1>3. TableTyped'
  <2>1. Motor!Empty \in [state : 0 .. 2, handle : Motor!Handles,
                         msg : Motor!Msgs \cup {Motor!NoMsg}]
    BY DEF Motor!Empty, Motor!Handles, Sizes
  <2>2. fate' \in [Motor!Msgs -> Motor!Fates]
    BY DEF TableTyped, Motor!Wipe, Motor!Fates
  <2>3. entries' = [i \in Motor!Slots |-> Motor!Empty]
    BY DEF Motor!Wipe
  <2>4. QED
    BY <2>1, <2>2, <2>3 DEF TableTyped
<1>4. QED
  BY <1>2, <1>3 DEF TableSound, SlotsPend, SlotsApart, PickNew

LEMMA SendTable ==
  ASSUME TableSound, scan' \in Motor!Slots, picked' = picked, fate' = fate,
         NEW i \in Motor!Slots, Motor!Live(i), Motor!Send(i)
  PROVE  TableSound'
<1> USE DEF TableSound
<1>1. entries' = [entries EXCEPT ![i].state = 1]
  BY DEF Motor!Send
<1>2. TableTyped'
  BY <1>1 DEF TableTyped
<1>3. \A j \in Motor!Slots : entries'[j].msg = entries[j].msg /\ (Motor!Live(j)' => Motor!Live(j))
  BY <1>1 DEF TableTyped, Motor!Live
<1>4. QED
  BY <1>2, <1>3 DEF SlotsPend, SlotsApart, PickNew

LEMMA PumpTable == ASSUME Sizes, TableSound, Motor!Pump PROVE TableSound'
<1>0. scan' \in Motor!Slots /\ picked = Motor!NoPick /\ picked' = picked
  BY PumpTurns
<1>1. PICK i \in Motor!Slots : PumpTurn(i)
  BY PumpTurns
<1>2. CASE UNCHANGED <<entries, fate>>
  BY <1>0, <1>2 DEF TableSound, TableTyped, SlotsPend, SlotsApart, PickNew, Motor!Live
<1>3. CASE Motor!Wipe
  BY <1>0, <1>3, WipeTable DEF TableSound
<1>4. CASE Motor!Live(i) /\ Motor!Send(i) /\ fate' = fate
  BY <1>0, <1>4, SendTable
<1>5. QED
  BY <1>1, <1>2, <1>3, <1>4 DEF PumpTurn

\* An acknowledgement frees at most one slot, and its message is done.
Freed(i) == /\ Motor!Live(i) /\ entries[i].handle = Head(toMain).handle
            /\ entries' = [entries EXCEPT ![i].state = 0]
            /\ fate' = [fate EXCEPT ![entries[i].msg] = "done"]

LEMMA RxFrees ==
  ASSUME Motor!RxDone
  PROVE  /\ UNCHANGED <<entries, fate>> \/ \E i \in Motor!Slots : Freed(i)
         /\ toMain # <<>> /\ toMain' = Tail(toMain) /\ Head(toMain).kind = "ack"
         /\ picked = Motor!NoPick /\ committed' = 0 /\ recovery' = FALSE
         /\ UNCHANGED <<picked, scan, toMotor, got, raced>>
  BY DEF Motor!RxDone, Motor!Heard, Motor!Served, Motor!AtLoopTop, Motor!Released, Freed,
     Motor!pace

LEMMA RxTable == ASSUME TableSound, Motor!RxDone PROVE TableSound'
<1> USE DEF TableSound
<1>0. UNCHANGED scan /\ picked = Motor!NoPick /\ picked' = picked
  BY RxFrees
<1>1. CASE UNCHANGED <<entries, fate>>
  BY <1>0, <1>1 DEF TableTyped, SlotsPend, SlotsApart, PickNew, Motor!Live
<1>2. CASE \E i \in Motor!Slots : Freed(i)
  <2>1. PICK i \in Motor!Slots : Freed(i)
    BY <1>2
  <2>2. entries[i].msg \in Motor!Msgs /\ Motor!Live(i)
    BY <2>1 DEF Freed, SlotsPend
  <2>3. TableTyped'
    BY <1>0, <2>1, <2>2 DEF Freed, TableTyped, Motor!Fates
  <2>4. \A j \in Motor!Slots : /\ entries'[j].msg = entries[j].msg
                               /\ Motor!Live(j)' => j # i /\ Motor!Live(j)
    BY <2>1 DEF Freed, TableTyped, Motor!Live
  <2>5. \A m \in Motor!Msgs : m # entries[i].msg => fate'[m] = fate[m]
    BY <2>1 DEF Freed, TableTyped
  <2>6. SlotsPend'
    BY <2>2, <2>4, <2>5 DEF SlotsPend, SlotsApart
  <2>7. SlotsApart'
    BY <2>4 DEF SlotsApart
  <2>8. QED
    BY <1>0, <2>3, <2>6, <2>7 DEF PickNew
<1>3. QED
  BY <1>1, <1>2, RxFrees

\* The steps that leave the table and the marks alone.
Aside == \/ Motor!RxRequest \/ Motor!Tick \/ Motor!UpdateStep \/ Motor!MotorReceive \/ Motor!Lose
         \/ (\E c \in MotorCmds : Motor!MotorSend(c)) \/ UNCHANGED Motor!vars

LEMMA AsideChanges ==
  ASSUME Aside
  PROVE  /\ UNCHANGED <<entries, fate, scan, picked, raced>>
         /\ (UNCHANGED <<committed, recovery>>) \/ (committed' = 0 /\ recovery' = FALSE)
<1> USE DEF Motor!queue, Motor!pace, Motor!ctl, Motor!wire, Motor!marks, Motor!vars
<1>1. CASE Motor!RxRequest
  BY <1>1, Zenon DEF Motor!RxRequest, Motor!Heard
<1>2. CASE Motor!Tick \/ Motor!UpdateStep
  BY <1>2, Zenon DEF Motor!Tick, Motor!UpdateStep
<1>3. CASE Motor!MotorReceive \/ Motor!Lose
  BY <1>3, Zenon DEF Motor!MotorReceive, Motor!Lose
<1>4. CASE (\E c \in MotorCmds : Motor!MotorSend(c)) \/ UNCHANGED Motor!vars
  BY <1>4, Zenon DEF Motor!MotorSend
<1>5. QED
  BY <1>1, <1>2, <1>3, <1>4 DEF Aside

LEMMA StepCases ==
  ASSUME [Motor!Next]_Motor!vars
  PROVE  \/ \E m \in Motor!Msgs : Motor!EnqueueFails(m)
         \/ \E m \in Motor!Msgs :
              (Motor!EnqueuePick(m) \/ Motor!IsrEnqueue(m)) /\ Motor!WireFasterThanWrap
         \/ Motor!EnqueueStore \/ Motor!Pump \/ Motor!RxDone \/ Aside
  BY Zenon DEF Motor!Next, Aside

LEMMA TableKept == ASSUME Sizes, TableSound, [Motor!Next]_Motor!vars PROVE TableSound'
  BY StepCases, EnqueueTable, StoreTable, PumpTable, RxTable, AsideChanges, TableStill

(* Messages given up are counted, and none is taken back.                   *)

Dropped == {m \in Motor!Msgs : fate[m] = "dropped"}

Counted == /\ committed \in 0 .. 255 /\ committed <= Cardinality(Dropped)
           /\ recovery => Cardinality(Dropped) > BacklogLimit

LEMMA DroppedFinite ==
  ASSUME Sizes, NEW S, NEW T, S \subseteq T, T \subseteq Motor!Msgs
  PROVE  Cardinality(S) \in Nat /\ Cardinality(T) \in Nat /\ Cardinality(S) <= Cardinality(T)
         /\ \A m \in T \ S : Cardinality(S) + 1 <= Cardinality(T)
<1>1. IsFiniteSet(Motor!Msgs)
  BY FS_Interval DEF Motor!Msgs, Sizes
<1>2. IsFiniteSet(T) /\ IsFiniteSet(S)
  BY <1>1, FS_Subset
<1>3. Cardinality(S) \in Nat /\ Cardinality(T) \in Nat /\ Cardinality(S) <= Cardinality(T)
  BY <1>2, FS_Subset, FS_CardinalityType
<1>4. ASSUME NEW m \in T \ S PROVE Cardinality(S) + 1 <= Cardinality(T)
  <2>1. Cardinality(S \cup {m}) = Cardinality(S) + 1
    BY <1>2, <1>4, FS_AddElement
  <2>2. S \cup {m} \subseteq T
    BY <1>4
  <2>3. Cardinality(S \cup {m}) <= Cardinality(T)
    BY <1>2, <2>2, FS_Subset
  <2>4. QED
    BY <1>3, <2>1, <2>3
<1>5. QED
  BY <1>3, <1>4

\* What the count takes from a step.
LEMMA CountedKept ==
  ASSUME Sizes, Counted, Dropped \subseteq Dropped',
         \/ committed' \in {0, committed}
         \/ /\ committed < 255 /\ committed' = committed + 1
            /\ \E m \in Dropped' : m \notin Dropped,
         recovery' => recovery \/ ~(committed <= BacklogLimit)
  PROVE  Counted'
<1>0. Dropped' \subseteq Motor!Msgs
  BY DEF Dropped, Motor!Msgs
<1>1. Cardinality(Dropped) \in Nat /\ Cardinality(Dropped') \in Nat
      /\ Cardinality(Dropped) <= Cardinality(Dropped')
      /\ \A m \in Dropped' \ Dropped : Cardinality(Dropped) + 1 <= Cardinality(Dropped')
  BY <1>0, DroppedFinite
<1>2. committed' \in 0 .. 255 /\ committed' <= Cardinality(Dropped')
  <2> HIDE DEF Dropped
  <2>0. committed \in 0 .. 255 /\ committed <= Cardinality(Dropped)
    BY DEF Counted
  <2>1. CASE committed' = 0
    BY <1>1, <2>1
  <2>2. CASE committed' = committed
    BY <1>1, <2>0, <2>2
  <2>3. CASE /\ committed < 255 /\ committed' = committed + 1
             /\ \E m \in Dropped' : m \notin Dropped
    BY <1>1, <2>0, <2>3
  <2>4. QED
    BY <2>1, <2>2, <2>3
<1>3. recovery' => Cardinality(Dropped') > BacklogLimit
  <2>1. Cardinality(Dropped) > BacklogLimit => Cardinality(Dropped') > BacklogLimit
    BY <1>1 DEF Sizes
  <2>2. ~(committed <= BacklogLimit) => Cardinality(Dropped) > BacklogLimit
    BY <1>1 DEF Counted, Sizes
  <2>3. recovery => Cardinality(Dropped) > BacklogLimit
    BY Zenon DEF Counted
  <2>4. QED
    BY <2>1, <2>2, <2>3, Zenon
<1>4. QED
  BY <1>2, <1>3, Zenon DEF Counted

LEMMA CountStep ==
  ASSUME Sizes, TableSound, Counted, [Motor!Next]_Motor!vars PROVE Counted'
<1>1. CASE \E m \in Motor!Msgs : \/ Motor!EnqueueFails(m) \/ Motor!EnqueuePick(m)
                                 \/ Motor!IsrEnqueue(m)
  <2>1. PICK m \in Motor!Msgs : Motor!EnqueueFails(m) \/ Motor!EnqueuePick(m) \/ Motor!IsrEnqueue(m)
    BY <1>1
  <2>2. fate[m] = "new" /\ UNCHANGED <<committed, recovery>>
    BY <2>1, Zenon DEF Motor!EnqueueFails, Motor!EnqueuePick, Motor!IsrEnqueue, Motor!Submits,
       Motor!rest, Motor!ctl
  <2>3. fate' = fate \/ \E w \in Motor!Fates : fate' = [fate EXCEPT ![m] = w]
    <3>1. CASE Fails(m)
      BY <3>1, FailsChanges
    <3>2. CASE fate' = [fate EXCEPT ![m] = "pending"]
      BY <3>2 DEF Motor!Fates
    <3>3. QED
      BY <2>1, <3>1, <3>2 DEF Motor!EnqueueFails, Motor!EnqueuePick, Motor!IsrEnqueue,
         Motor!Stored, Fails
  <2>4. Dropped \subseteq Dropped'
    BY <2>2, <2>3 DEF Dropped, TableSound, TableTyped
  <2>5. QED
    BY <2>2, <2>4, CountedKept, Zenon
<1>2. CASE Motor!EnqueueStore
  <2>1. picked.msg \in Motor!Msgs /\ fate[picked.msg] = "new"
        /\ fate' = [fate EXCEPT ![picked.msg] = "pending"]
    BY <1>2 DEF Motor!EnqueueStore, Motor!AtLoopTop, TableSound, PickNew, Motor!Stored
  <2>2. Dropped \subseteq Dropped'
    BY <2>1 DEF Dropped, TableSound, TableTyped
  <2>3. UNCHANGED <<committed, recovery>>
    BY <1>2, Zenon DEF Motor!EnqueueStore, Motor!rest, Motor!ctl
  <2>4. QED
    BY <2>2, <2>3, CountedKept, Zenon
<1>3. CASE Motor!Pump
  <2>1. recovery' => recovery \/ ~(committed <= BacklogLimit)
    BY <1>3, PumpTurns, Zenon
  <2>2. PICK i \in Motor!Slots : PumpTurn(i)
    BY <1>3, PumpTurns
  <2>3. CASE UNCHANGED <<fate, committed>>
    BY <2>1, <2>3, CountedKept DEF Dropped
  <2>4. CASE Motor!Live(i) /\ Motor!Wipe
    <3>1. fate' = [m \in Motor!Msgs |-> IF fate[m] = "pending" THEN "dropped" ELSE fate[m]]
          /\ committed' = (committed + 1) % 256
      BY <2>4 DEF Motor!Wipe
    <3>2. entries[i].msg \in Motor!Msgs /\ fate[entries[i].msg] = "pending"
      BY <2>4 DEF TableSound, SlotsPend
    <3>3. Dropped \subseteq Dropped' /\ entries[i].msg \in Dropped' /\ entries[i].msg \notin Dropped
      BY <3>1, <3>2 DEF Dropped
    <3>4. CASE committed = 255
      <4>1. committed' = 0
        BY <3>1, <3>4
      <4>2. QED
        BY <2>1, <3>3, <4>1, CountedKept
    <3>5. CASE committed < 255
      <4>1. committed' = committed + 1
        BY <3>1, <3>5 DEF Counted
      <4>2. QED
        BY <2>1, <3>3, <3>5, <4>1, CountedKept, Zenon
    <3>6. QED
      BY <3>4, <3>5 DEF Counted
  <2>5. QED
    BY <2>2, <2>3, <2>4 DEF PumpTurn
<1>4. CASE Motor!RxDone
  <2>1. committed' = 0 /\ recovery' = FALSE
    BY <1>4, RxFrees
  <2>2. Dropped \subseteq Dropped'
    <3>1. CASE fate' = fate
      BY <3>1 DEF Dropped
    <3>2. CASE \E i \in Motor!Slots : Freed(i)
      BY <3>2 DEF Dropped, Freed, TableSound, SlotsPend, TableTyped
    <3>3. QED
      BY <1>4, <3>1, <3>2, RxFrees
  <2>3. QED
    BY <2>1, <2>2, CountedKept
<1>5. CASE Aside
  <2>1. /\ fate' = fate
        /\ (UNCHANGED <<committed, recovery>>) \/ (committed' = 0 /\ recovery' = FALSE)
    BY <1>5, AsideChanges
  <2>2. Dropped \subseteq Dropped'
    BY <2>1 DEF Dropped
  <2>3. CASE UNCHANGED <<committed, recovery>>
    BY <2>2, <2>3, CountedKept, Zenon
  <2>4. CASE committed' = 0 /\ recovery' = FALSE
    BY <2>2, <2>4, CountedKept
  <2>5. QED
    BY <2>1, <2>3, <2>4
<1>6. QED
  BY <1>1, <1>2, <1>3, <1>4, <1>5, StepCases, Zenon

LEMMA CountBegins == ASSUME Sizes PROVE Motor!Init => TableSound /\ Counted
<1> SUFFICES ASSUME Motor!Init PROVE TableSound /\ Counted
  OBVIOUS
<1>1. TableSound
  BY DEF Motor!Init, TableSound, TableTyped, SlotsPend, SlotsApart, PickNew, Motor!Live,
     Motor!Empty, Motor!Slots, Motor!Handles, Motor!Fates, Sizes
<1>2. committed = 0 /\ recovery = FALSE
  BY DEF Motor!Init
<1>3. Cardinality(Dropped) \in Nat
  BY DroppedFinite DEF Dropped
<1>4. QED
  BY <1>1, <1>2, <1>3 DEF Counted

LEMMA CountTells == Counted => Motor!RecoveryEarned
  BY Zenon DEF Counted, Motor!RecoveryEarned, Dropped, Cardinality, Motor!Cardinality

\* The motor is put into recovery only after more than BacklogLimit messages
\* were given up, however many one wipe of the table throws away and whatever
\* a callback stores in between (ssp.c:440-446, 515-538).
THEOREM RecoveryIsEarned ==
  ASSUME Motor!SspmAssumption PROVE Motor!Spec => []Motor!RecoveryEarned
<1>0. Sizes
  BY SizesHold
<1>1. Motor!Init => TableSound /\ Counted
  BY <1>0, CountBegins
<1>2. TableSound /\ Counted /\ [Motor!Next]_Motor!vars => TableSound' /\ Counted'
  BY <1>0, TableKept, CountStep
<1>3. Counted => Motor!RecoveryEarned
  BY CountTells
<1>4. QED
  BY <1>1, <1>2, <1>3, PTL DEF Motor!Spec

(* Handles.  Unless a callback sent between a choice and its store, no two  *)
(* live slots share one, and a frame under way names its message to the   *)
(* slot that waits under its handle.                                        *)

Apart == /\ Motor!UniqueHandle
         /\ picked # Motor!NoPick => \A j \in Motor!Slots : entries[j].handle # picked.handle

MeansIt(f) == /\ f.id \in Motor!Msgs
              /\ \A i \in Motor!Slots :
                   Motor!Live(i) /\ entries[i].handle = f.handle => entries[i].msg = f.id
              /\ picked # Motor!NoPick => picked.handle # f.handle

LinesTyped == /\ toMotor \in Seq(Motor!FrameSet) /\ toMain \in Seq(Motor!FrameSet)
              /\ got \in [Motor!Msgs -> Nat]

LinesSound == /\ \A f \in On(toMotor) : f.kind = "msg" => MeansIt(f)
              /\ \A f \in On(toMain) : f.kind = "ack" => MeansIt(f) /\ got[f.id] > 0

DoneArrived == \A m \in Motor!Msgs : fate[m] = "done" => got[m] > 0

HandlesSound == Apart /\ LinesSound /\ DoneArrived

LEMMA PutGrows ==
  ASSUME NEW S, NEW line \in Seq(S), NEW f \in S
  PROVE  /\ Motor!Put(line, f) \in Seq(S)
         /\ On(Motor!Put(line, f)) \subseteq On(line) \cup {f}
<1>1. Append(line, f) \in Seq(S) /\ On(Append(line, f)) \subseteq On(line) \cup {f}
  BY DEF On
<1>2. QED
  BY <1>1 DEF Motor!Put

LEMMA TailShrinks ==
  ASSUME NEW S, NEW line \in Seq(S), line # <<>>
  PROVE  /\ Tail(line) \in Seq(S) /\ On(Tail(line)) \subseteq On(line)
         /\ Head(line) \in S /\ Head(line) \in On(line)
  BY DEF On

\* A step that only frees slots and marks them, between two calls of the
\* program.
Shrinks == /\ picked' = picked
           /\ picked = Motor!NoPick \/ entries' = entries
           /\ \A i \in Motor!Slots : Motor!Live(i)' =>
                Motor!Live(i) /\ entries'[i].handle = entries[i].handle /\ entries'[i].msg = entries[i].msg

LEMMA ShrinkMeans == ASSUME Shrinks, NEW f, MeansIt(f) PROVE MeansIt(f)'
  BY DEF Shrinks, MeansIt

LEMMA ShrinkApart == ASSUME Shrinks, Apart PROVE Apart'
<1>1. Motor!UniqueHandle'
  BY DEF Shrinks, Apart, Motor!UniqueHandle
<1>2. picked' # Motor!NoPick => \A j \in Motor!Slots : entries'[j].handle # picked'.handle
  BY DEF Shrinks, Apart
<1>3. QED
  BY <1>1, <1>2 DEF Apart

\* No frame is under way with the handle.
NotOnLine(h) == /\ \A f \in On(toMotor) : f.kind = "msg" => f.handle # h
                /\ \A f \in On(toMain) : f.kind = "ack" => f.handle # h

LEMMA PickedIsFresh ==
  ASSUME LinesTyped, Motor!WireFasterThanWrap, NEW i \in Motor!Slots, NEW h \in Motor!Handles,
         Motor!Picks(i, h)
  PROVE  NotOnLine(h) /\ \A j \in Motor!Slots : entries[j].handle # h
<1>1. ~Motor!OnWire(h)
  BY DEF Motor!WireFasterThanWrap
<1>2. NotOnLine(h)
  BY <1>1 DEF NotOnLine, On, Motor!OnWire, LinesTyped
<1>3. h = Motor!Tried(i) /\ ~Motor!HandleInUse(h)
  BY Zenon DEF Motor!Picks
<1>4. QED
  BY <1>2, <1>3 DEF Motor!HandleInUse

\* A message stored under a handle nothing else has.
LEMMA StoredSound ==
  ASSUME TableTyped, HandlesSound, picked' = Motor!NoPick, UNCHANGED <<toMotor, toMain, got>>,
         NEW i \in Motor!Slots, NEW h \in Motor!Handles, NEW m \in Motor!Msgs,
         Motor!Stored(i, h, m), NotOnLine(h), \A j \in Motor!Slots : entries[j].handle # h
  PROVE  HandlesSound'
<1>1. /\ entries'[i] = [state |-> 2, handle |-> h, msg |-> m]
      /\ \A j \in Motor!Slots : j # i => entries'[j] = entries[j] /\ (Motor!Live(j)' <=> Motor!Live(j))
  BY DEF Motor!Stored, TableTyped, Motor!Live
<1>2. entries'[i].handle = h /\ entries'[i].msg = m
  BY <1>1
<1>3. Motor!UniqueHandle'
  BY <1>1, <1>2 DEF HandlesSound, Apart, Motor!UniqueHandle
<1>4. ASSUME NEW f, MeansIt(f), f.handle # h PROVE MeansIt(f)'
  BY <1>1, <1>2, <1>4 DEF MeansIt
<1>5. LinesSound'
  BY <1>4 DEF HandlesSound, LinesSound, NotOnLine, On
<1>6. DoneArrived'
  BY DEF HandlesSound, DoneArrived, Motor!Stored, TableTyped
<1>7. QED
  BY <1>3, <1>5, <1>6 DEF HandlesSound, Apart

(* The lines stay typed over every step.                                    *)

LEMMA FrameTyped ==
  ASSUME Sizes, NEW f \in Motor!FrameSet
  PROVE  /\ f.kind = "cmd" => Motor!Frame("ack", 0, f.id) \in Motor!FrameSet
         /\ f.kind = "msg" => Motor!Frame("ack", f.handle, f.id) \in Motor!FrameSet
  BY DEF Motor!FrameSet, Motor!Frame, Motor!Handles, Sizes

LEMMA LinesStill == ASSUME LinesTyped, UNCHANGED <<toMotor, toMain, got>> PROVE LinesTyped'
  BY DEF LinesTyped

LEMMA LinesKept ==
  ASSUME Sizes, TableSound, LinesTyped, [Motor!Next]_Motor!vars PROVE LinesTyped'
<1>1. CASE (\E m \in Motor!Msgs : \/ Motor!EnqueueFails(m) \/ Motor!EnqueuePick(m)
                                  \/ Motor!IsrEnqueue(m))
           \/ Motor!EnqueueStore
  <2>1. UNCHANGED <<toMotor, toMain, got>>
    BY <1>1, Zenon DEF Motor!EnqueueFails, Motor!EnqueuePick, Motor!IsrEnqueue,
       Motor!EnqueueStore, Motor!rest, Motor!wire
  <2>2. QED
    BY <2>1, LinesStill
<1>2. CASE Motor!Pump
  <2>0. UNCHANGED <<toMain, got>>
    BY <1>2, PumpTurns
  <2>1. PICK i \in Motor!Slots : PumpTurn(i)
    BY <1>2, PumpTurns
  <2>2. CASE toMotor' = toMotor
    BY <2>0, <2>2, LinesStill
  <2>3. CASE Motor!Live(i) /\ Motor!Send(i)
    <3>1. PICK f : f = Motor!Frame("msg", entries[i].handle, entries[i].msg)
      OBVIOUS
    <3>2. f \in Motor!FrameSet
      BY <2>3, <3>1 DEF TableSound, SlotsPend, TableTyped, Motor!Frame, Motor!FrameSet
    <3>3. toMotor' = Motor!Put(toMotor, f)
      BY <2>3, <3>1 DEF Motor!Send
    <3>4. toMotor' \in Seq(Motor!FrameSet)
      BY <3>2, <3>3, PutGrows DEF LinesTyped
    <3>5. QED
      BY <2>0, <3>4 DEF LinesTyped
  <2>4. QED
    BY <2>1, <2>2, <2>3 DEF PumpTurn
<1>3. CASE Motor!RxDone
  BY <1>3, RxFrees, TailShrinks DEF LinesTyped
<1>4. CASE Motor!RxRequest
  <2>1. /\ toMain # <<>> /\ toMain' = Tail(toMain) /\ Head(toMain).kind = "cmd" /\ got' = got
        /\ toMotor' = Motor!Put(toMotor, Motor!Frame("ack", 0, Head(toMain).id))
    BY <1>4, Zenon DEF Motor!RxRequest, Motor!Heard, Motor!marks
  <2>2. toMain' \in Seq(Motor!FrameSet) /\ Head(toMain) \in Motor!FrameSet
    BY <2>1, TailShrinks DEF LinesTyped
  <2>3. Motor!Frame("ack", 0, Head(toMain).id) \in Motor!FrameSet
    BY <2>1, <2>2, FrameTyped
  <2>4. QED
    BY <2>1, <2>2, <2>3, PutGrows DEF LinesTyped
<1>5. CASE Motor!MotorReceive
  <2>1. toMotor # <<>> /\ toMotor' = Tail(toMotor)
    BY <1>5, Zenon DEF Motor!MotorReceive
  <2>2. PICK f \in Motor!FrameSet : f = Head(toMotor)
    BY <2>1, TailShrinks DEF LinesTyped
  <2>3. toMotor' \in Seq(Motor!FrameSet)
    BY <2>1, TailShrinks DEF LinesTyped
  <2>4. CASE f.kind = "msg"
    <3>1. /\ got' = [got EXCEPT ![f.id] = @ + 1]
          /\ toMain' = Motor!Put(toMain, Motor!Frame("ack", f.handle, f.id))
      BY <1>5, <2>2, <2>4, Zenon DEF Motor!MotorReceive
    <3>2. Motor!Frame("ack", f.handle, f.id) \in Motor!FrameSet
      BY <2>4, FrameTyped
    <3>3. toMain' \in Seq(Motor!FrameSet)
      BY <3>1, <3>2, PutGrows DEF LinesTyped
    <3>4. got' \in [Motor!Msgs -> Nat]
      <4>1. CASE f.id \in Motor!Msgs
        BY <3>1, <4>1 DEF LinesTyped
      <4>2. CASE f.id \notin Motor!Msgs
        <5>1. got' = got
          BY <3>1, <4>2 DEF LinesTyped
        <5>2. QED
          BY <5>1 DEF LinesTyped
      <4>3. QED
        BY <4>1, <4>2
    <3>5. QED
      BY <2>3, <3>3, <3>4 DEF LinesTyped
  <2>5. CASE f.kind # "msg"
    <3>1. UNCHANGED <<got, toMain>>
      BY <1>5, <2>2, <2>5, Zenon DEF Motor!MotorReceive
    <3>2. QED
      BY <2>3, <3>1 DEF LinesTyped
  <2>6. QED
    BY <2>4, <2>5
<1>6. CASE Motor!Lose
  <2>1. got' = got /\ \/ toMotor # <<>> /\ toMotor' = Tail(toMotor) /\ UNCHANGED toMain
                      \/ toMain # <<>> /\ toMain' = Tail(toMain) /\ UNCHANGED toMotor
    BY <1>6, Zenon DEF Motor!Lose, Motor!marks
  <2>2. QED
    BY <2>1, TailShrinks DEF LinesTyped
<1>7. CASE \E c \in MotorCmds : Motor!MotorSend(c)
  <2>1. PICK c \in MotorCmds : Motor!MotorSend(c)
    BY <1>7
  <2>2. UNCHANGED <<toMotor, got>> /\ toMain' = Motor!Put(toMain, Motor!Frame("cmd", 0, c))
    BY <2>1, Zenon DEF Motor!MotorSend, Motor!marks
  <2>3. Motor!Frame("cmd", 0, c) \in Motor!FrameSet
    BY DEF Motor!Frame, Motor!FrameSet
  <2>4. QED
    BY <2>2, <2>3, PutGrows DEF LinesTyped
<1>8. CASE Motor!Tick \/ Motor!UpdateStep \/ UNCHANGED Motor!vars
  <2>1. UNCHANGED <<toMotor, toMain, got>>
    BY <1>8, Zenon DEF Motor!Tick, Motor!UpdateStep, Motor!vars, Motor!wire, Motor!marks
  <2>2. QED
    BY <2>1, LinesStill
<1>9. QED
  BY <1>1, <1>2, <1>3, <1>4, <1>5, <1>6, <1>7, <1>8, StepCases DEF Aside

(* Handles, frames and marks over the steps.                                *)

\* A step that puts nothing under way that names a message.
LEMMA SilentSound ==
  ASSUME Shrinks, HandlesSound, got' = got,
         \A f \in On(toMotor') : f.kind = "msg" => f \in On(toMotor),
         \A f \in On(toMain') : f.kind = "ack" => f \in On(toMain),
         \A m \in Motor!Msgs : fate'[m] = "done" => fate[m] = "done" \/ got[m] > 0
  PROVE  HandlesSound'
<1> USE DEF HandlesSound
<1>1. Apart'
  BY ShrinkApart
<1>2. \A f : MeansIt(f) => MeansIt(f)'
  BY ShrinkMeans
<1>3. LinesSound'
  BY <1>2 DEF LinesSound, On
<1>4. DoneArrived'
  BY DEF DoneArrived
<1>5. QED
  BY <1>1, <1>3, <1>4

LEMMA SubmitSound ==
  ASSUME Sizes, TableSound, LinesTyped, HandlesSound, NEW m \in Motor!Msgs, ~raced',
         \/ Motor!EnqueueFails(m)
         \/ (Motor!EnqueuePick(m) \/ Motor!IsrEnqueue(m)) /\ Motor!WireFasterThanWrap
  PROVE  HandlesSound'
<1>1. picked = Motor!NoPick /\ fate[m] = "new" /\ UNCHANGED <<toMotor, toMain, got>>
  BY Zenon DEF Motor!EnqueueFails, Motor!EnqueuePick, Motor!IsrEnqueue, Motor!AtLoopTop,
     Motor!Submits, Motor!rest, Motor!wire
<1>2. CASE Fails(m) /\ UNCHANGED picked
  <2>1. PICK w \in Motor!Fates \ {"done", "dropped"} : fate' = [fate EXCEPT ![m] = w]
    BY <1>2, FailsChanges
  <2>2. \A n \in Motor!Msgs : fate'[n] = "done" => fate[n] = "done"
    BY <2>1 DEF TableSound, TableTyped
  <2>3. entries' = entries
    BY <1>2, FailsChanges
  <2>4. Shrinks
    BY <1>1, <1>2, <2>3 DEF Shrinks, Motor!Live
  <2>5. QED
    BY <1>1, <2>2, <2>4, SilentSound
<1>3. CASE Motor!EnqueuePick(m) /\ Motor!WireFasterThanWrap
  <2>1. PICK i \in Motor!Slots, h \in Motor!Handles :
          Motor!Picks(i, h) /\ picked' = [slot |-> i, handle |-> h, msg |-> m]
    BY <1>3 DEF Motor!EnqueuePick
  <2>2. UNCHANGED <<entries, fate>> /\ picked'.handle = h
    BY <1>3, <2>1 DEF Motor!EnqueuePick
  <2>3. NotOnLine(h) /\ \A j \in Motor!Slots : entries[j].handle # h
    BY <1>3, <2>1, PickedIsFresh
  <2>4. Apart'
    BY <2>2, <2>3 DEF HandlesSound, Apart, Motor!UniqueHandle, Motor!Live
  <2>5. ASSUME NEW f, MeansIt(f), f.handle # h PROVE MeansIt(f)'
    BY <2>2, <2>5 DEF MeansIt, Motor!Live
  <2>6. LinesSound'
    BY <1>1, <2>3, <2>5 DEF HandlesSound, LinesSound, NotOnLine, On
  <2>7. DoneArrived'
    BY <1>1, <2>2 DEF HandlesSound, DoneArrived
  <2>8. QED
    BY <2>4, <2>6, <2>7 DEF HandlesSound
<1>4. CASE Motor!WireFasterThanWrap /\ UNCHANGED picked
           /\ \E i \in Motor!Slots, h \in Motor!Handles : Motor!Picks(i, h) /\ Motor!Stored(i, h, m)
  BY <1>1, <1>4, PickedIsFresh, StoredSound DEF TableSound
<1>5. QED
  BY <1>2, <1>3, <1>4 DEF Motor!EnqueueFails, Motor!IsrEnqueue, Fails, Motor!rest

LEMMA StoreSound ==
  ASSUME Sizes, TableSound, HandlesSound, Motor!EnqueueStore PROVE HandlesSound'
<1>1. /\ picked # Motor!NoPick /\ picked' = Motor!NoPick /\ UNCHANGED <<toMotor, toMain, got>>
      /\ Motor!Stored(picked.slot, picked.handle, picked.msg)
  BY DEF Motor!EnqueueStore, Motor!AtLoopTop, Motor!rest, Motor!wire
<1>2. picked.slot \in Motor!Slots /\ picked.handle \in Motor!Handles /\ picked.msg \in Motor!Msgs
  BY <1>1 DEF TableSound, PickNew
<1>3. NotOnLine(picked.handle) /\ \A j \in Motor!Slots : entries[j].handle # picked.handle
  BY <1>1 DEF HandlesSound, Apart, LinesSound, NotOnLine, MeansIt
<1>4. QED
  BY <1>1, <1>2, <1>3, StoredSound DEF TableSound

LEMMA PumpSound ==
  ASSUME Sizes, TableSound, LinesTyped, HandlesSound, Motor!Pump PROVE HandlesSound'
<1>0. picked = Motor!NoPick /\ UNCHANGED <<picked, toMain, got>>
  BY PumpTurns
<1>1. PICK i \in Motor!Slots : PumpTurn(i)
  BY PumpTurns
<1>2. CASE UNCHANGED <<entries, fate, toMotor>>
  <2>1. Shrinks
    BY <1>0, <1>2 DEF Shrinks, Motor!Live
  <2>2. QED
    BY <1>0, <1>2, <2>1, SilentSound
<1>3. CASE Motor!Wipe /\ UNCHANGED toMotor
  <2>1. scan' \in Motor!Slots
    BY PumpTurns
  <2>2. \A j \in Motor!Slots : ~Motor!Live(j)'
    BY <1>0, <1>3, <2>1, WipeTable DEF TableSound
  <2>3. Shrinks
    BY <1>0, <2>2 DEF Shrinks
  <2>4. \A m \in Motor!Msgs : fate'[m] = "done" => fate[m] = "done"
    BY <1>3 DEF Motor!Wipe
  <2>5. QED
    BY <1>0, <1>3, <2>3, <2>4, SilentSound
<1>4. CASE Motor!Live(i) /\ Motor!Send(i) /\ UNCHANGED fate
  <2>1. PICK f : f = Motor!Frame("msg", entries[i].handle, entries[i].msg)
    OBVIOUS
  <2>2. f \in Motor!FrameSet /\ f.kind = "msg" /\ f.handle = entries[i].handle /\ f.id = entries[i].msg
        /\ f.id \in Motor!Msgs
    BY <1>4, <2>1 DEF TableSound, SlotsPend, TableTyped, Motor!Frame, Motor!FrameSet
  <2>3. toMotor' = Motor!Put(toMotor, f) /\ entries' = [entries EXCEPT ![i].state = 1]
    BY <1>4, <2>1 DEF Motor!Send
  <2>4. On(toMotor') \subseteq On(toMotor) \cup {f}
    BY <2>2, <2>3, PutGrows DEF LinesTyped
  <2>5. \A j \in Motor!Slots : /\ entries'[j].handle = entries[j].handle /\ entries'[j].msg = entries[j].msg
                               /\ Motor!Live(j)' => Motor!Live(j)
    BY <1>4, <2>3 DEF TableSound, TableTyped, Motor!Live
  <2>6. Shrinks
    BY <1>0, <2>5 DEF Shrinks
  <2>7. MeansIt(f)
    BY <1>0, <1>4, <2>2 DEF MeansIt, HandlesSound, Apart, Motor!UniqueHandle
  <2>8. \A g : MeansIt(g) => MeansIt(g)'
    BY <2>6, ShrinkMeans
  <2>9. LinesSound'
    BY <1>0, <2>4, <2>7, <2>8 DEF HandlesSound, LinesSound, On
  <2>10. Apart' /\ DoneArrived'
    BY <1>0, <1>4, <2>6, ShrinkApart DEF HandlesSound, DoneArrived
  <2>11. QED
    BY <2>9, <2>10 DEF HandlesSound
<1>5. QED
  BY <1>1, <1>2, <1>3, <1>4 DEF PumpTurn

LEMMA RxSound ==
  ASSUME TableSound, LinesTyped, HandlesSound, Motor!RxDone PROVE HandlesSound'
<1>0. /\ toMain # <<>> /\ toMain' = Tail(toMain) /\ Head(toMain).kind = "ack"
      /\ picked = Motor!NoPick /\ UNCHANGED <<picked, toMotor, got>>
  BY RxFrees
<1>1. On(toMain') \subseteq On(toMain) /\ Head(toMain) \in On(toMain)
  BY <1>0, TailShrinks DEF LinesTyped
<1>2. CASE UNCHANGED <<entries, fate>>
  <2>1. Shrinks
    BY <1>0, <1>2 DEF Shrinks, Motor!Live
  <2>2. QED
    BY <1>0, <1>1, <1>2, <2>1, SilentSound
<1>3. CASE \E i \in Motor!Slots : Freed(i)
  <2>1. PICK i \in Motor!Slots : Freed(i)
    BY <1>3
  <2>2. entries[i].msg = Head(toMain).id /\ got[Head(toMain).id] > 0
    BY <1>0, <1>1, <2>1 DEF Freed, HandlesSound, LinesSound, MeansIt
  <2>3. \A j \in Motor!Slots : /\ entries'[j].handle = entries[j].handle /\ entries'[j].msg = entries[j].msg
                               /\ Motor!Live(j)' => Motor!Live(j)
    BY <2>1 DEF Freed, TableSound, TableTyped, Motor!Live
  <2>4. Shrinks
    BY <1>0, <2>3 DEF Shrinks
  <2>5. \A m \in Motor!Msgs : fate'[m] = "done" => fate[m] = "done" \/ got[m] > 0
    BY <2>1, <2>2 DEF Freed, TableSound, TableTyped
  <2>6. QED
    BY <1>0, <1>1, <2>4, <2>5, SilentSound
<1>4. QED
  BY <1>2, <1>3, RxFrees

LEMMA ReceiveSound ==
  ASSUME TableSound, LinesTyped, HandlesSound, Motor!MotorReceive PROVE HandlesSound'
<1>0. UNCHANGED <<entries, fate, picked>> /\ toMotor # <<>> /\ toMotor' = Tail(toMotor)
  BY Zenon DEF Motor!MotorReceive, Motor!queue
<1>1. PICK f \in Motor!FrameSet : f = Head(toMotor)
  BY <1>0, TailShrinks DEF LinesTyped
<1>2. On(toMotor') \subseteq On(toMotor) /\ f \in On(toMotor)
  BY <1>0, <1>1, TailShrinks DEF LinesTyped
<1>3. Shrinks
  BY <1>0 DEF Shrinks, Motor!Live
<1>4. CASE f.kind = "msg"
  <2>1. PICK a : a = Motor!Frame("ack", f.handle, f.id)
    OBVIOUS
  <2>2. got' = [got EXCEPT ![f.id] = @ + 1] /\ toMain' = Motor!Put(toMain, a)
    BY <1>1, <1>4, <2>1, Zenon DEF Motor!MotorReceive
  <2>3. a \in Motor!FrameSet /\ a.handle = f.handle /\ a.id = f.id
    BY <1>4, <2>1 DEF Motor!FrameSet, Motor!Frame
  <2>4. On(toMain') \subseteq On(toMain) \cup {a}
    BY <2>2, <2>3, PutGrows DEF LinesTyped
  <2>5. MeansIt(f) /\ f.id \in Motor!Msgs
    BY <1>2, <1>4 DEF HandlesSound, LinesSound, MeansIt
  <2>6. MeansIt(a)
    BY <2>3, <2>5 DEF MeansIt
  <2>7. got'[f.id] > 0 /\ \A m \in Motor!Msgs : got[m] > 0 => got'[m] > 0
    BY <2>2, <2>5 DEF LinesTyped
  <2>8. \A g : MeansIt(g) => MeansIt(g)' /\ g.id \in Motor!Msgs
    BY <1>3, ShrinkMeans DEF MeansIt
  <2>9. \A g \in On(toMotor') : g.kind = "msg" => MeansIt(g)'
    BY <1>2, <2>8 DEF HandlesSound, LinesSound
  <2>10. \A g \in On(toMain') : g.kind = "ack" => MeansIt(g)' /\ got'[g.id] > 0
    BY <2>3, <2>4, <2>6, <2>7, <2>8 DEF HandlesSound, LinesSound
  <2>11. LinesSound'
    BY <2>9, <2>10 DEF LinesSound, On
  <2>12. Apart' /\ DoneArrived'
    BY <1>0, <1>3, <2>7, ShrinkApart DEF HandlesSound, DoneArrived
  <2>13. QED
    BY <2>11, <2>12 DEF HandlesSound
<1>5. CASE f.kind # "msg"
  <2>1. UNCHANGED <<got, toMain>>
    BY <1>1, <1>5, Zenon DEF Motor!MotorReceive
  <2>2. QED
    BY <1>0, <1>2, <1>3, <2>1, SilentSound
<1>6. QED
  BY <1>4, <1>5

LEMMA AsideSound ==
  ASSUME Sizes, TableSound, LinesTyped, HandlesSound, Aside PROVE HandlesSound'
<1>0. UNCHANGED <<entries, fate, picked>>
  BY AsideChanges
<1>1. Shrinks
  BY <1>0 DEF Shrinks, Motor!Live
<1>2. CASE Motor!RxRequest
  <2>1. /\ toMain # <<>> /\ toMain' = Tail(toMain) /\ Head(toMain).kind = "cmd" /\ got' = got
        /\ toMotor' = Motor!Put(toMotor, Motor!Frame("ack", 0, Head(toMain).id))
    BY <1>2, Zenon DEF Motor!RxRequest, Motor!Heard, Motor!marks
  <2>2. On(toMain') \subseteq On(toMain) /\ Head(toMain) \in Motor!FrameSet
    BY <2>1, TailShrinks DEF LinesTyped
  <2>3. PICK a : a = Motor!Frame("ack", 0, Head(toMain).id)
    OBVIOUS
  <2>4. a \in Motor!FrameSet
    BY <2>1, <2>2, <2>3, FrameTyped
  <2>5. On(toMotor') \subseteq On(toMotor) \cup {a} /\ a.kind = "ack"
    <3>1. toMotor' = Motor!Put(toMotor, a)
      BY <2>1, <2>3
    <3>2. On(toMotor') \subseteq On(toMotor) \cup {a}
      BY <2>4, <3>1, PutGrows DEF LinesTyped
    <3>3. QED
      BY <2>3, <3>2 DEF Motor!Frame
  <2>6. QED
    BY <1>0, <1>1, <2>1, <2>2, <2>5, SilentSound
<1>3. CASE Motor!MotorReceive
  BY <1>3, ReceiveSound
<1>4. CASE Motor!Lose
  <2>1. got' = got /\ \/ toMotor # <<>> /\ toMotor' = Tail(toMotor) /\ UNCHANGED toMain
                      \/ toMain # <<>> /\ toMain' = Tail(toMain) /\ UNCHANGED toMotor
    BY <1>4, Zenon DEF Motor!Lose, Motor!marks
  <2>2. On(toMotor') \subseteq On(toMotor) /\ On(toMain') \subseteq On(toMain)
    BY <2>1, TailShrinks DEF LinesTyped
  <2>3. QED
    BY <1>0, <1>1, <2>1, <2>2, SilentSound
<1>5. CASE \E c \in MotorCmds : Motor!MotorSend(c)
  <2>1. PICK c \in MotorCmds : Motor!MotorSend(c)
    BY <1>5
  <2>2. PICK a : a = Motor!Frame("cmd", 0, c)
    OBVIOUS
  <2>3. UNCHANGED <<toMotor, got>> /\ toMain' = Motor!Put(toMain, a)
    BY <2>1, <2>2, Zenon DEF Motor!MotorSend, Motor!marks
  <2>4. a \in Motor!FrameSet /\ a.kind = "cmd"
    BY <2>2 DEF Motor!Frame, Motor!FrameSet
  <2>5. On(toMain') \subseteq On(toMain) \cup {a}
    BY <2>3, <2>4, PutGrows DEF LinesTyped
  <2>6. QED
    BY <1>0, <1>1, <2>3, <2>4, <2>5, SilentSound
<1>6. CASE Motor!Tick \/ Motor!UpdateStep \/ UNCHANGED Motor!vars
  <2>1. UNCHANGED <<toMotor, toMain, got>>
    BY <1>6, Zenon DEF Motor!Tick, Motor!UpdateStep, Motor!vars, Motor!wire, Motor!marks
  <2>2. QED
    BY <1>0, <1>1, <2>1, SilentSound
<1>7. QED
  BY <1>2, <1>3, <1>4, <1>5, <1>6 DEF Aside

LEMMA RacedStays == ASSUME [Motor!Next]_Motor!vars PROVE raced => raced'
<1>1. CASE Motor!EnqueueStore \/ Motor!Pump \/ Motor!RxDone \/ Aside
  BY <1>1, RxFrees, AsideChanges, Zenon DEF Motor!EnqueueStore, Motor!Pump
<1>2. CASE \E m \in Motor!Msgs : \/ Motor!EnqueueFails(m) \/ Motor!EnqueuePick(m)
                                 \/ Motor!IsrEnqueue(m)
  BY <1>2, Zenon DEF Motor!EnqueueFails, Motor!EnqueuePick, Motor!IsrEnqueue
<1>3. QED
  BY <1>1, <1>2, StepCases

Unraced == raced \/ HandlesSound

LEMMA HandlesStep ==
  ASSUME Sizes, TableSound, LinesTyped, Unraced, [Motor!Next]_Motor!vars PROVE Unraced'
<1>1. SUFFICES ASSUME ~raced' PROVE HandlesSound'
  BY DEF Unraced
<1>2. HandlesSound
  BY <1>1, RacedStays DEF Unraced
<1>3. QED
  BY <1>1, <1>2, StepCases, SubmitSound, StoreSound, PumpSound, RxSound, AsideSound

\* What the invariants of the link to the motor controller rest on.
LinkSound == TableSound /\ LinesTyped /\ Unraced

LEMMA LinkBegins == ASSUME Sizes, Motor!Init PROVE LinkSound
<1>1. TableSound
  BY DEF Motor!Init, TableSound, TableTyped, SlotsPend, SlotsApart, PickNew, Motor!Live,
     Motor!Empty, Motor!Slots, Motor!Handles, Motor!Fates, Sizes
<1>2. LinesTyped
  BY DEF Motor!Init, LinesTyped
<1>3. Apart /\ DoneArrived
  BY DEF Motor!Init, Apart, DoneArrived, Motor!UniqueHandle, Motor!Live, Motor!Empty
<1>4. LinesSound
  BY DEF Motor!Init, LinesSound, On
<1>5. QED
  BY <1>1, <1>2, <1>3, <1>4 DEF LinkSound, Unraced, HandlesSound

LEMMA LinkKept == ASSUME Motor!SspmAssumption PROVE Motor!Spec => []LinkSound
<1>0. Sizes
  BY SizesHold
<1>1. Motor!Init => LinkSound
  BY <1>0, LinkBegins
<1>2. LinkSound /\ [Motor!Next]_Motor!vars => LinkSound'
  BY <1>0, TableKept, LinesKept, HandlesStep DEF LinkSound
<1>3. QED
  BY <1>1, <1>2, PTL DEF Motor!Spec

LEMMA SoundTells == LinkSound => Motor!UniqueNames /\ Motor!DoneIsTrue
  BY Zenon DEF LinkSound, Unraced, HandlesSound, Apart, DoneArrived, Motor!UniqueNames, Motor!DoneIsTrue

\* "A non-colliding rolling handle": no two queued messages share one, over
\* wraps of the counter and wipes of the table, unless a callback sent inside
\* the call that stores a message (ssp.c:369-406).
THEOREM HandlesUnique ==
  ASSUME Motor!SspmAssumption PROVE Motor!Spec => []Motor!UniqueNames
<1>1. LinkSound => Motor!UniqueNames
  BY Zenon DEF LinkSound, Unraced, HandlesSound, Apart, Motor!UniqueNames
<1>2. QED
  BY <1>1, LinkKept, PTL

\* What the table releases has reached the motor: an acknowledgement that
\* comes after a wipe, or after its slot was taken by another message,
\* releases nothing (ssp.c:889-902, main.c:593).
THEOREM ReleasedArrived ==
  ASSUME Motor!SspmAssumption PROVE Motor!Spec => []Motor!DoneIsTrue
<1>1. LinkSound => Motor!DoneIsTrue
  BY Zenon DEF LinkSound, Unraced, HandlesSound, DoneArrived, Motor!DoneIsTrue
<1>2. QED
  BY <1>1, LinkKept, PTL

-----------------------------------------------------------------------------
(* The rest of the motor link's types.  That a message is transmitted at    *)
(* most once, and arrives at most once, is part of them: a fresh slot holds *)
(* a message that was not sent, and what arrived or is under way was sent.  *)

Modes == {"ready", "starting", "busy"}

PacesTyped ==
    /\ nextHandle \in Motor!Handles
    /\ retry \in Motor!NoTimer .. MotorRetry /\ between \in Motor!NoTimer .. BetweenTicks
    /\ mode \in Modes /\ told \subseteq MotorCmds

FlagsTyped == recovery \in BOOLEAN /\ raced \in BOOLEAN

LinesShort == Len(toMotor) <= WireCap /\ Len(toMain) <= WireCap

OnceSent == /\ sent \in [Motor!Msgs -> 0 .. 1]
            /\ \A m \in Motor!Msgs : fate[m] = "new" => sent[m] = 0
            /\ \A i \in Motor!Slots : entries[i].state = 2 => sent[entries[i].msg] = 0

OnceGot == \A m \in Motor!Msgs : got[m] + Copies(toMotor, m) <= sent[m]

LEMMA MotorModRange ==
  ASSUME Sizes, NEW n \in Nat PROVE n % HandleMod \in Motor!Handles
  BY ModRange DEF Sizes, Motor!Handles

LEMMA NextHandleStays ==
  ASSUME Sizes, NEW h \in Motor!Handles PROVE (h + 1) % HandleMod \in Motor!Handles
<1>1. h + 1 \in Nat
  BY DEF Sizes, Motor!Handles
<1>2. QED
  BY <1>1, MotorModRange

LEMMA RefusedHandle ==
  ASSUME Sizes, nextHandle \in Motor!Handles, NEW m, Motor!Refused(m)
  PROVE  nextHandle' \in Motor!Handles
<1>1. IsFiniteSet(Motor!Slots)
  BY FS_Interval DEF Motor!Slots, Sizes
<1>2. Cardinality(Motor!FreeSlots) \in Nat
  BY <1>1, FS_Subset, FS_CardinalityType DEF Motor!FreeSlots
<1>3. Motor!Cardinality(Motor!FreeSlots) = Cardinality(Motor!FreeSlots)
  BY DEF Motor!Cardinality, Cardinality
<1>4. nextHandle + Cardinality(Motor!FreeSlots) \in Nat
  BY <1>2 DEF Motor!Handles, Sizes
<1>5. nextHandle' = (nextHandle + Cardinality(Motor!FreeSlots)) % HandleMod
  BY <1>3 DEF Motor!Refused
<1>6. QED
  BY <1>4, <1>5, MotorModRange

LEMMA FailsHandle ==
  ASSUME Sizes, nextHandle \in Motor!Handles, NEW m, Fails(m)
  PROVE  nextHandle' \in Motor!Handles
<1>1. CASE Motor!Ignored(m) \/ Motor!TooLong(m)
  BY <1>1 DEF Motor!Ignored, Motor!TooLong
<1>2. CASE Motor!Refused(m)
  BY <1>2, RefusedHandle
<1>3. QED
  BY <1>1, <1>2 DEF Fails

LEMMA SubmitPaces ==
  ASSUME Sizes, PacesTyped, FlagsTyped, NEW m \in Motor!Msgs,
         Motor!EnqueueFails(m) \/ Motor!EnqueuePick(m) \/ Motor!IsrEnqueue(m)
  PROVE  PacesTyped' /\ FlagsTyped'
<1>1. UNCHANGED <<retry, between, mode, told, recovery>>
  BY Zenon DEF Motor!EnqueueFails, Motor!EnqueuePick, Motor!IsrEnqueue, Motor!rest, Motor!pace,
     Motor!ctl
<1>2. raced' \in BOOLEAN
  <2>1. raced' = raced \/ raced' = (raced \/ ~Motor!AtLoopTop)
    BY Zenon DEF Motor!EnqueueFails, Motor!EnqueuePick, Motor!IsrEnqueue
  <2>2. QED
    BY <2>1, Zenon DEF FlagsTyped
<1>3. nextHandle' \in Motor!Handles
  <2>1. CASE Fails(m)
    BY <2>1, FailsHandle DEF PacesTyped
  <2>2. CASE Motor!EnqueuePick(m)
    BY <2>2 DEF Motor!EnqueuePick
  <2>3. CASE \E i \in Motor!Slots, h \in Motor!Handles : Motor!Stored(i, h, m)
    BY <2>3, NextHandleStays DEF Motor!Stored
  <2>4. QED
    BY <2>1, <2>2, <2>3 DEF Motor!EnqueueFails, Motor!IsrEnqueue, Fails
<1>4. FlagsTyped'
  BY <1>1, <1>2, Zenon DEF FlagsTyped
<1>5. PacesTyped'
  BY <1>1, <1>3, Zenon DEF PacesTyped
<1>6. QED
  BY <1>4, <1>5

LEMMA MotorStarted ==
  \A n \in Nat : \A t \in Motor!NoTimer .. n : Motor!Started(t, n) \in Motor!NoTimer .. n
  BY DEF Motor!Started, Motor!NoTimer

LEMMA PumpPaces ==
  ASSUME Sizes, PacesTyped, FlagsTyped, Motor!Pump PROVE PacesTyped' /\ FlagsTyped'
<1> DEFINE r == Motor!Started(retry, MotorRetry)
           b == Motor!Started(between, BetweenTicks)
<1>1. UNCHANGED <<nextHandle, told, raced>> /\ Motor!Backlog
  BY Zenon DEF Motor!Pump
<1>2. \E i : Motor!Serve(i)
  BY Zenon DEF Motor!Pump
<1>3. r \in Motor!NoTimer .. MotorRetry /\ b \in Motor!NoTimer .. BetweenTicks
  BY MotorStarted DEF PacesTyped, Sizes
<1>4. retry' \in {r, MotorRetry} /\ between' \in {b, BetweenTicks}
  BY <1>2, Zenon DEF Motor!Serve
<1>5. retry' \in Motor!NoTimer .. MotorRetry /\ between' \in Motor!NoTimer .. BetweenTicks
  <2> HIDE DEF r, b
  <2>1. QED
    BY <1>3, <1>4 DEF Motor!NoTimer, Sizes
<1>6. mode' \in Modes
  <2>1. mode' \in {mode, IF mode = "ready" THEN "busy" ELSE mode}
    BY <1>1, Zenon DEF Motor!Backlog
  <2>2. QED
    BY <2>1 DEF PacesTyped, Modes
<1>7. recovery' \in BOOLEAN
  <2>1. recovery' = recovery \/ recovery' = TRUE
    BY <1>1, Zenon DEF Motor!Backlog
  <2>2. QED
    BY <2>1, Zenon DEF FlagsTyped
<1>8. FlagsTyped'
  BY <1>1, <1>7, Zenon DEF FlagsTyped
<1>9. PacesTyped'
  BY <1>1, <1>5, <1>6, Zenon DEF PacesTyped
<1>10. QED
  BY <1>8, <1>9

LEMMA StorePaces ==
  ASSUME Sizes, TableSound, PacesTyped, FlagsTyped, Motor!EnqueueStore
  PROVE  PacesTyped' /\ FlagsTyped'
<1>1. UNCHANGED <<retry, between, mode, told, recovery, raced>>
      /\ Motor!Stored(picked.slot, picked.handle, picked.msg)
  BY Zenon DEF Motor!EnqueueStore, Motor!rest, Motor!pace, Motor!ctl
<1>2. picked.handle \in Motor!Handles
  BY DEF TableSound, PickNew, Motor!EnqueueStore, Motor!AtLoopTop
<1>3. nextHandle' \in Motor!Handles
  BY <1>1, <1>2, NextHandleStays DEF Motor!Stored
<1>4. FlagsTyped'
  BY <1>1, Zenon DEF FlagsTyped
<1>5. PacesTyped'
  BY <1>1, <1>3, Zenon DEF PacesTyped
<1>6. QED
  BY <1>4, <1>5

LEMMA AsidePaces ==
  ASSUME Sizes, PacesTyped, FlagsTyped, Aside \/ Motor!RxDone PROVE PacesTyped' /\ FlagsTyped'
<1> USE DEF Motor!queue, Motor!pace, Motor!ctl, Motor!wire, Motor!marks, Motor!vars
<1>1. nextHandle' = nextHandle /\ raced' = raced
  <2>1. CASE Motor!RxDone \/ Motor!RxRequest
    BY <2>1, Zenon DEF Motor!RxDone, Motor!RxRequest
  <2>2. CASE Motor!Tick \/ Motor!UpdateStep
    BY <2>2, Zenon DEF Motor!Tick, Motor!UpdateStep
  <2>3. CASE Motor!MotorReceive \/ Motor!Lose
    BY <2>3, Zenon DEF Motor!MotorReceive, Motor!Lose
  <2>4. CASE (\E c \in MotorCmds : Motor!MotorSend(c)) \/ UNCHANGED Motor!vars
    BY <2>4, Zenon DEF Motor!MotorSend
  <2>5. QED
    BY <2>1, <2>2, <2>3, <2>4 DEF Aside
<1>2. recovery' = recovery \/ recovery' = FALSE
  BY AsideChanges, RxFrees, Zenon
<1>3. FlagsTyped'
  BY <1>1, <1>2, Zenon DEF FlagsTyped
<1>4. told' \subseteq MotorCmds
  <2>1. CASE \E c \in MotorCmds : Motor!MotorSend(c)
    BY <2>1 DEF Motor!MotorSend, PacesTyped
  <2>2. CASE Motor!RxDone \/ Motor!RxRequest
    <3>1. told' = told
      BY <2>2, Zenon DEF Motor!RxDone, Motor!RxRequest
    <3>2. QED
      BY <3>1 DEF PacesTyped
  <2>3. CASE Motor!Tick \/ Motor!UpdateStep \/ Motor!MotorReceive \/ Motor!Lose
             \/ UNCHANGED Motor!vars
    <3>1. told' = told
      BY <2>3, Zenon DEF Motor!Tick, Motor!UpdateStep, Motor!MotorReceive, Motor!Lose
    <3>2. QED
      BY <3>1 DEF PacesTyped
  <2>4. QED
    BY <2>1, <2>2, <2>3 DEF Aside
<1>5. retry' \in Motor!NoTimer .. MotorRetry /\ between' \in Motor!NoTimer .. BetweenTicks
  <2>1. CASE Motor!Tick
    <3>1. /\ retry' = IF retry > 0 THEN retry - 1 ELSE retry
          /\ between' = IF between > 0 THEN between - 1 ELSE between
      BY <2>1, Zenon DEF Motor!Tick
    <3>2. QED
      BY <3>1 DEF PacesTyped, Motor!NoTimer, Sizes
  <2>2. CASE UNCHANGED <<retry, between>>
    BY <2>2, Zenon DEF PacesTyped
  <2>3. CASE Motor!RxDone \/ Motor!RxRequest
    BY <2>2, <2>3, Zenon DEF Motor!RxDone, Motor!RxRequest
  <2>4. CASE Motor!UpdateStep \/ Motor!MotorReceive \/ Motor!Lose \/ UNCHANGED Motor!vars
    BY <2>2, <2>4, Zenon DEF Motor!UpdateStep, Motor!MotorReceive, Motor!Lose
  <2>5. CASE \E c \in MotorCmds : Motor!MotorSend(c)
    BY <2>2, <2>5, Zenon DEF Motor!MotorSend
  <2>6. QED
    BY <2>1, <2>3, <2>4, <2>5 DEF Aside
<1>6. mode' \in Modes
  <2>1. CASE Motor!UpdateStep
    BY <2>1 DEF Motor!UpdateStep, Modes
  <2>2. CASE mode' = mode
    BY <2>2, Zenon DEF PacesTyped
  <2>3. CASE Motor!RxDone \/ Motor!RxRequest
    BY <2>2, <2>3, Zenon DEF Motor!RxDone, Motor!RxRequest
  <2>4. CASE Motor!Tick \/ Motor!MotorReceive \/ Motor!Lose \/ UNCHANGED Motor!vars
    BY <2>2, <2>4, Zenon DEF Motor!Tick, Motor!MotorReceive, Motor!Lose
  <2>5. CASE \E c \in MotorCmds : Motor!MotorSend(c)
    BY <2>2, <2>5, Zenon DEF Motor!MotorSend
  <2>6. QED
    BY <2>1, <2>3, <2>4, <2>5 DEF Aside
<1>7. PacesTyped'
  BY <1>1, <1>4, <1>5, <1>6, Zenon DEF PacesTyped
<1>8. QED
  BY <1>3, <1>7

LEMMA PacesKept ==
  ASSUME Sizes, TableSound, PacesTyped, FlagsTyped, [Motor!Next]_Motor!vars
  PROVE  PacesTyped' /\ FlagsTyped'
  BY StepCases, SubmitPaces, StorePaces, PumpPaces, AsidePaces

(* What a step does to the two lines.                                       *)

Moves(before, after) ==
    \/ after = before
    \/ before # <<>> /\ after = Tail(before)
    \/ \E f : after = Motor!Put(before, f)

LEMMA MovesStayShort ==
  ASSUME WireCap \in Nat, NEW S, NEW before \in Seq(S), NEW after, Moves(before, after),
         Len(before) <= WireCap
  PROVE  Len(after) <= WireCap
<1>1. CASE \E f : after = Motor!Put(before, f)
  <2>1. PICK f : after = Motor!Put(before, f)
    BY <1>1
  <2>2. before \in Seq(S \cup {f}) /\ f \in S \cup {f}
    OBVIOUS
  <2>3. Len(Append(before, f)) = Len(before) + 1 /\ Len(before) \in Nat
    BY <2>2
  <2>4. QED
    BY <2>1, <2>3 DEF Motor!Put
<1>2. CASE before # <<>> /\ after = Tail(before)
  BY <1>2
<1>3. QED
  BY <1>1, <1>2 DEF Moves

LEMMA LinesMove ==
  ASSUME Sizes, TableSound, [Motor!Next]_Motor!vars
  PROVE  Moves(toMotor, toMotor') /\ Moves(toMain, toMain')
<1> USE DEF Moves, Motor!wire
<1>1. CASE (\E m \in Motor!Msgs : \/ Motor!EnqueueFails(m) \/ Motor!EnqueuePick(m)
                                  \/ Motor!IsrEnqueue(m))
           \/ Motor!EnqueueStore
  BY <1>1, Zenon DEF Motor!EnqueueFails, Motor!EnqueuePick, Motor!IsrEnqueue,
     Motor!EnqueueStore, Motor!rest
<1>2. CASE Motor!Pump
  <2>1. toMain' = toMain /\ \E i \in Motor!Slots : PumpTurn(i)
    BY <1>2, PumpTurns
  <2>2. QED
    BY <2>1, Zenon DEF PumpTurn, Motor!Send
<1>3. CASE Motor!RxDone
  BY <1>3, RxFrees, Zenon
<1>4. CASE Motor!RxRequest
  BY <1>4, Zenon DEF Motor!RxRequest, Motor!Heard
<1>5. CASE Motor!MotorReceive
  BY <1>5, Zenon DEF Motor!MotorReceive
<1>6. CASE Motor!Lose \/ \E c \in MotorCmds : Motor!MotorSend(c)
  BY <1>6, Zenon DEF Motor!Lose, Motor!MotorSend
<1>7. CASE Motor!Tick \/ Motor!UpdateStep \/ UNCHANGED Motor!vars
  BY <1>7, Zenon DEF Motor!Tick, Motor!UpdateStep, Motor!vars
<1>8. QED
  BY <1>1, <1>2, <1>3, <1>4, <1>5, <1>6, <1>7, StepCases DEF Aside

LEMMA LinesStayShort ==
  ASSUME Sizes, WireCap \in Nat, TableSound, LinesTyped, LinesShort, [Motor!Next]_Motor!vars
  PROVE  LinesShort'
<1>1. Len(toMotor') <= WireCap
  BY LinesMove, MovesStayShort DEF LinesTyped, LinesShort
<1>2. Len(toMain') <= WireCap
  BY LinesMove, MovesStayShort DEF LinesTyped, LinesShort
<1>3. QED
  BY <1>1, <1>2 DEF LinesShort

(* Once over the wire.                                                      *)

\* A step that sends nothing: no slot becomes fresh, no message new again.
LEMMA OnceStill ==
  ASSUME OnceSent, sent' = sent,
         \A m \in Motor!Msgs : fate'[m] = "new" => fate[m] = "new",
         \A i \in Motor!Slots : entries'[i].state = 2 =>
             sent[entries'[i].msg] = 0
  PROVE  OnceSent'
  BY DEF OnceSent

LEMMA StoredOnce ==
  ASSUME TableTyped, OnceSent, sent' = sent,
         NEW i \in Motor!Slots, NEW h, NEW m \in Motor!Msgs, fate[m] = "new",
         Motor!Stored(i, h, m)
  PROVE  OnceSent'
<1>1. /\ entries'[i] = [state |-> 2, handle |-> h, msg |-> m]
      /\ \A j \in Motor!Slots : j # i => entries'[j] = entries[j]
      /\ fate' = [fate EXCEPT ![m] = "pending"]
  BY DEF Motor!Stored, TableTyped
<1>2. sent[m] = 0 /\ entries'[i].msg = m
  BY <1>1 DEF OnceSent
<1>3. \A n \in Motor!Msgs : fate'[n] = "new" => fate[n] = "new"
  BY <1>1 DEF TableTyped
<1>4. \A j \in Motor!Slots : entries'[j].state = 2 => sent[entries'[j].msg] = 0
  BY <1>1, <1>2 DEF OnceSent
<1>5. QED
  BY <1>3, <1>4, OnceStill

LEMMA SubmitOnce ==
  ASSUME TableSound, OnceSent, NEW m \in Motor!Msgs,
         Motor!EnqueueFails(m) \/ Motor!EnqueuePick(m) \/ Motor!IsrEnqueue(m)
  PROVE  OnceSent'
<1>1. fate[m] = "new" /\ sent' = sent
  BY Zenon DEF Motor!EnqueueFails, Motor!EnqueuePick, Motor!IsrEnqueue, Motor!Submits, Motor!rest
<1>2. CASE Fails(m)
  <2>1. entries' = entries
    BY <1>2, FailsChanges
  <2>2. PICK w : fate' = [fate EXCEPT ![m] = w]
    BY <1>2, FailsChanges
  <2>3. \A n \in Motor!Msgs : fate'[n] = "new" => fate[n] = "new"
    BY <1>1, <2>2 DEF TableSound, TableTyped
  <2>4. QED
    BY <1>1, <2>1, <2>3, OnceStill DEF OnceSent
<1>3. CASE Motor!EnqueuePick(m)
  <2>1. UNCHANGED <<entries, fate>>
    BY <1>3, Zenon DEF Motor!EnqueuePick
  <2>2. QED
    BY <1>1, <2>1 DEF OnceSent
<1>4. CASE \E i \in Motor!Slots, h \in Motor!Handles : Motor!Stored(i, h, m)
  BY <1>1, <1>4, StoredOnce DEF TableSound
<1>5. QED
  BY <1>2, <1>3, <1>4 DEF Motor!EnqueueFails, Motor!IsrEnqueue, Fails

LEMMA StoreOnce == ASSUME TableSound, OnceSent, Motor!EnqueueStore PROVE OnceSent'
<1>1. sent' = sent /\ Motor!Stored(picked.slot, picked.handle, picked.msg)
  BY Zenon DEF Motor!EnqueueStore, Motor!rest
<1>2. picked.slot \in Motor!Slots /\ picked.msg \in Motor!Msgs /\ fate[picked.msg] = "new"
  BY DEF TableSound, PickNew, Motor!EnqueueStore, Motor!AtLoopTop
<1>3. QED
  BY <1>1, <1>2, StoredOnce DEF TableSound

LEMMA PumpOnce == ASSUME Sizes, TableSound, OnceSent, Motor!Pump PROVE OnceSent'
<1>1. PICK i \in Motor!Slots : PumpTurn(i)
  BY PumpTurns
<1>2. CASE UNCHANGED <<entries, fate, sent>>
  BY <1>2 DEF OnceSent
<1>3. CASE Motor!Wipe /\ UNCHANGED sent
  <2>1. \A j \in Motor!Slots : entries'[j].state = 0
    BY <1>3 DEF Motor!Wipe, Motor!Empty
  <2>2. \A m \in Motor!Msgs : fate'[m] = "new" => fate[m] = "new"
    BY <1>3 DEF Motor!Wipe
  <2>3. QED
    BY <1>3, <2>1, <2>2, OnceStill
<1>4. CASE Motor!Live(i) /\ entries[i].state # 1 /\ Motor!Send(i) /\ UNCHANGED fate
  <2>1. /\ entries' = [entries EXCEPT ![i].state = 1]
        /\ sent' = [sent EXCEPT ![entries[i].msg] = @ + 1]
    BY <1>4 DEF Motor!Send
  <2>2. entries[i].state = 2 /\ entries[i].msg \in Motor!Msgs /\ fate[entries[i].msg] = "pending"
    BY <1>4 DEF TableSound, TableTyped, SlotsPend, Motor!Live
  <2>3. sent' = [sent EXCEPT ![entries[i].msg] = 1]
    <3>1. sent[entries[i].msg] = 0
      BY <2>2, Zenon DEF OnceSent
    <3>2. sent[entries[i].msg] + 1 = 1
      BY <3>1
    <3>3. sent' = [sent EXCEPT ![entries[i].msg] = sent[entries[i].msg] + 1]
      BY <2>1, Zenon
    <3>4. QED
      BY <3>2, <3>3, Zenon
  <2>4. sent' \in [Motor!Msgs -> 0 .. 1]
    <3>1. 1 \in 0 .. 1 /\ sent \in [Motor!Msgs -> 0 .. 1]
      BY DEF OnceSent
    <3>2. PICK k : k = entries[i].msg
      OBVIOUS
    <3>3. sent' = [sent EXCEPT ![k] = 1]
      BY <2>3, <3>2, Zenon
    <3> DEFINE bit == 0 .. 1
    <3>4. sent \in [Motor!Msgs -> bit] /\ 1 \in bit
      BY <3>1
    <3> HIDE DEF bit
    <3>5. sent' \in [Motor!Msgs -> bit]
      BY <3>3, <3>4
    <3>6. QED
      BY <3>5 DEF bit
  <2>5. \A m \in Motor!Msgs : fate[m] = "new" => sent'[m] = 0
    BY <2>2, <2>3 DEF OnceSent
  <2>6. ASSUME NEW j \in Motor!Slots, entries'[j].state = 2 PROVE sent'[entries'[j].msg] = 0
    <3>1. j # i
      BY <2>1, <2>6 DEF TableSound, TableTyped
    <3>2. entries'[j] = entries[j] /\ entries[j].state = 2
      BY <2>1, <2>6, <3>1 DEF TableSound, TableTyped
    <3>3. Motor!Live(j) /\ entries[j].msg \in Motor!Msgs
      BY <3>2 DEF TableSound, SlotsPend, Motor!Live
    <3>4. entries[j].msg # entries[i].msg
      BY <1>4, <3>1, <3>3 DEF TableSound, SlotsApart
    <3>5. QED
      BY <2>3, <3>2, <3>3, <3>4 DEF OnceSent
  <2>7. QED
    BY <1>4, <2>4, <2>5, <2>6 DEF OnceSent
<1>5. QED
  BY <1>1, <1>2, <1>3, <1>4 DEF PumpTurn

LEMMA RxOnce == ASSUME TableSound, OnceSent, Motor!RxDone PROVE OnceSent'
<1>1. sent' = sent
  BY Zenon DEF Motor!RxDone
<1>2. CASE UNCHANGED <<entries, fate>>
  BY <1>1, <1>2 DEF OnceSent
<1>3. CASE \E i \in Motor!Slots : Freed(i)
  <2>1. PICK i \in Motor!Slots : Freed(i)
    BY <1>3
  <2>2. \A m \in Motor!Msgs : fate'[m] = "new" => fate[m] = "new"
    BY <2>1 DEF Freed, TableSound, TableTyped
  <2>3. \A j \in Motor!Slots : entries'[j].state = 2 => entries'[j] = entries[j]
    BY <2>1 DEF Freed, TableSound, TableTyped
  <2>4. \A j \in Motor!Slots : entries'[j].state = 2 => sent[entries'[j].msg] = 0
    BY <2>3 DEF OnceSent
  <2>5. QED
    BY <1>1, <2>2, <2>4, OnceStill
<1>4. QED
  BY <1>2, <1>3, RxFrees

LEMMA AsideSent == ASSUME Aside PROVE sent' = sent
<1> USE DEF Motor!marks, Motor!vars
<1>1. CASE Motor!RxRequest \/ Motor!Tick \/ Motor!UpdateStep
  BY <1>1, Zenon DEF Motor!RxRequest, Motor!Tick, Motor!UpdateStep
<1>2. CASE Motor!MotorReceive \/ Motor!Lose
  BY <1>2, Zenon DEF Motor!MotorReceive, Motor!Lose
<1>3. CASE (\E c \in MotorCmds : Motor!MotorSend(c)) \/ UNCHANGED Motor!vars
  BY <1>3, Zenon DEF Motor!MotorSend
<1>4. QED
  BY <1>1, <1>2, <1>3 DEF Aside

LEMMA OnceSentKept ==
  ASSUME Sizes, TableSound, OnceSent, [Motor!Next]_Motor!vars PROVE OnceSent'
<1>1. CASE Aside
  <2>1. UNCHANGED <<entries, fate, sent>>
    BY <1>1, AsideChanges, AsideSent
  <2>2. QED
    BY <2>1 DEF OnceSent
<1>2. QED
  BY <1>1, StepCases, SubmitOnce, StoreOnce, PumpOnce, RxOnce

\* What a step may do to a line as far as its messages go: nothing, a frame
\* less, a frame more that is no message.
LEMMA NoMoreCopies ==
  ASSUME LinesTyped, NEW m,
         \/ toMotor' = toMotor
         \/ toMotor # <<>> /\ toMotor' = Tail(toMotor)
         \/ \E f \in Motor!FrameSet : f.kind # "msg" /\ toMotor' = Motor!Put(toMotor, f)
  PROVE  Copies(toMotor, m) \in Nat /\ Copies(toMotor', m) \in Nat
         /\ Copies(toMotor', m) <= Copies(toMotor, m)
<1>0. toMotor \in Seq(Motor!FrameSet)
  BY DEF LinesTyped
<1>1. Copies(toMotor, m) \in Nat
  <2>1. Len(toMotor) \in Nat
    BY <1>0
  <2>2. QED
    BY <2>1, FinitePlaces
<1>2. CASE toMotor' = toMotor
  BY <1>1, <1>2
<1>3. CASE toMotor # <<>> /\ toMotor' = Tail(toMotor)
  BY <1>0, <1>3, RestCopies
<1>4. CASE \E f \in Motor!FrameSet : f.kind # "msg" /\ toMotor' = Motor!Put(toMotor, f)
  <2>1. PICK f \in Motor!FrameSet : f.kind # "msg" /\ toMotor' = Motor!Put(toMotor, f)
    BY <1>4
  <2>2. Copies(Append(toMotor, f), m) = Copies(toMotor, m)
    BY <1>0, <2>1, AppendCopies
  <2>3. QED
    BY <1>1, <2>1, <2>2 DEF Motor!Put
<1>5. QED
  BY <1>2, <1>3, <1>4

LEMMA OnceQuiet ==
  ASSUME LinesTyped, sent \in [Motor!Msgs -> 0 .. 1], OnceGot, UNCHANGED <<got, sent>>,
         \/ toMotor' = toMotor
         \/ toMotor # <<>> /\ toMotor' = Tail(toMotor)
         \/ \E f \in Motor!FrameSet : f.kind # "msg" /\ toMotor' = Motor!Put(toMotor, f)
  PROVE  OnceGot'
<1> SUFFICES ASSUME NEW m \in Motor!Msgs PROVE got'[m] + Copies(toMotor', m) <= sent'[m]
  BY DEF OnceGot
<1>1. /\ Copies(toMotor, m) \in Nat /\ Copies(toMotor', m) \in Nat
      /\ Copies(toMotor', m) <= Copies(toMotor, m)
  BY NoMoreCopies
<1>2. got[m] \in Nat /\ sent[m] \in 0 .. 1 /\ got[m] + Copies(toMotor, m) <= sent[m]
  BY DEF LinesTyped, OnceGot
<1>3. got'[m] = got[m] /\ sent'[m] = sent[m]
  OBVIOUS
<1>4. QED
  BY <1>1, <1>2, <1>3

LEMMA SendGot ==
  ASSUME TableSound, LinesTyped, OnceSent, OnceGot, got' = got,
         NEW i \in Motor!Slots, Motor!Live(i), Motor!Send(i)
  PROVE  OnceGot'
<1>1. PICK f : f = Motor!Frame("msg", entries[i].handle, entries[i].msg)
  OBVIOUS
<1>2. f \in Motor!FrameSet /\ f.id = entries[i].msg /\ f.id \in Motor!Msgs
  BY <1>1 DEF TableSound, SlotsPend, TableTyped, Motor!Frame, Motor!FrameSet
<1>3. toMotor' = Motor!Put(toMotor, f) /\ sent' = [sent EXCEPT ![f.id] = @ + 1]
  BY <1>1, <1>2 DEF Motor!Send
<1> SUFFICES ASSUME NEW m \in Motor!Msgs PROVE got'[m] + Copies(toMotor', m) <= sent'[m]
  BY DEF OnceGot
<1>4. toMotor \in Seq(Motor!FrameSet) /\ got[m] \in Nat /\ sent[m] \in 0 .. 1
      /\ got[m] + Copies(toMotor, m) <= sent[m]
  BY DEF LinesTyped, OnceSent, OnceGot
<1>5. /\ Copies(toMotor, m) \in Nat /\ Copies(toMotor', m) \in Nat
      /\ Copies(toMotor', m) <= Copies(toMotor, m) + 1
      /\ f.id # m => Copies(toMotor', m) = Copies(toMotor, m)
  <2>1. /\ Copies(toMotor, m) \in Nat /\ Copies(Append(toMotor, f), m) \in Nat
        /\ Copies(Append(toMotor, f), m) <= Copies(toMotor, m) + 1
        /\ f.id # m => Copies(Append(toMotor, f), m) = Copies(toMotor, m)
    BY <1>2, <1>4, AppendCopies
  <2>2. toMotor' = toMotor \/ toMotor' = Append(toMotor, f)
    BY <1>3 DEF Motor!Put
  <2>3. CASE toMotor' = toMotor
    <3>1. Copies(toMotor', m) = Copies(toMotor, m)
      BY <2>3
    <3>2. QED
      BY <2>1, <3>1
  <2>4. CASE toMotor' = Append(toMotor, f)
    <3>1. Copies(toMotor', m) = Copies(Append(toMotor, f), m)
      BY <2>4
    <3>2. QED
      BY <2>1, <3>1
  <2>5. QED
    BY <2>2, <2>3, <2>4
<1>6. CASE f.id = m
  <2>1. sent'[m] = sent[m] + 1 /\ got'[m] = got[m]
    BY <1>2, <1>3, <1>6 DEF OnceSent
  <2>2. QED
    BY <1>4, <1>5, <2>1
<1>7. CASE f.id # m
  <2>1. sent'[m] = sent[m] /\ got'[m] = got[m]
    BY <1>2, <1>3, <1>7 DEF OnceSent
  <2>2. QED
    BY <1>4, <1>5, <1>7, <2>1
<1>8. QED
  BY <1>6, <1>7

LEMMA ReceiveGot ==
  ASSUME LinesTyped, OnceSent, OnceGot, Motor!MotorReceive PROVE OnceGot'
<1>1. toMotor # <<>> /\ toMotor' = Tail(toMotor) /\ sent' = sent
  BY Zenon DEF Motor!MotorReceive
<1>2. PICK f : f = Head(toMotor)
  OBVIOUS
<1>3. CASE f.kind # "msg"
  <2>1. got' = got
    BY <1>2, <1>3, Zenon DEF Motor!MotorReceive
  <2>2. QED
    BY <1>1, <2>1, OnceQuiet DEF OnceSent
<1>4. CASE f.kind = "msg"
  <2>1. got' = [got EXCEPT ![f.id] = @ + 1]
    BY <1>2, <1>4, Zenon DEF Motor!MotorReceive
  <2> SUFFICES ASSUME NEW m \in Motor!Msgs PROVE got'[m] + Copies(toMotor', m) <= sent'[m]
    BY DEF OnceGot
  <2>2. toMotor \in Seq(Motor!FrameSet) /\ got[m] \in Nat /\ sent[m] \in 0 .. 1
        /\ got[m] + Copies(toMotor, m) <= sent[m] /\ sent'[m] = sent[m]
    BY <1>1 DEF LinesTyped, OnceSent, OnceGot
  <2>3. /\ Copies(toMotor, m) \in Nat /\ Copies(toMotor', m) \in Nat
        /\ Copies(toMotor', m) <= Copies(toMotor, m)
        /\ f.id = m => Copies(toMotor', m) + 1 <= Copies(toMotor, m)
    BY <1>1, <1>2, <1>4, <2>2, RestCopies
  <2>4. CASE f.id = m
    <3>1. got'[m] = got[m] + 1
      BY <2>1, <2>4 DEF LinesTyped
    <3>2. QED
      BY <2>2, <2>3, <2>4, <3>1
  <2>5. CASE f.id # m
    <3>1. got'[m] = got[m]
      BY <2>1, <2>5 DEF LinesTyped
    <3>2. QED
      BY <2>2, <2>3, <3>1
  <2>6. QED
    BY <2>4, <2>5
<1>5. QED
  BY <1>3, <1>4

LEMMA OnceGotKept ==
  ASSUME Sizes, TableSound, LinesTyped, OnceSent, OnceGot, [Motor!Next]_Motor!vars
  PROVE  OnceGot'
<1>0. sent \in [Motor!Msgs -> 0 .. 1]
  BY DEF OnceSent
<1>1. CASE UNCHANGED <<got, sent, toMotor>>
  BY <1>0, <1>1, OnceQuiet
<1>2. CASE (\E m \in Motor!Msgs : \/ Motor!EnqueueFails(m) \/ Motor!EnqueuePick(m)
                                  \/ Motor!IsrEnqueue(m))
           \/ Motor!EnqueueStore
  BY <1>1, <1>2, Zenon DEF Motor!EnqueueFails, Motor!EnqueuePick, Motor!IsrEnqueue,
     Motor!EnqueueStore, Motor!rest, Motor!wire
<1>3. CASE Motor!Pump
  <2>1. got' = got /\ \E i \in Motor!Slots : PumpTurn(i)
    BY <1>3, PumpTurns
  <2>2. PICK i \in Motor!Slots : PumpTurn(i)
    BY <2>1
  <2>3. CASE UNCHANGED <<toMotor, sent>>
    BY <1>1, <2>1, <2>3
  <2>4. CASE Motor!Live(i) /\ Motor!Send(i)
    BY <2>1, <2>4, SendGot
  <2>5. QED
    BY <2>2, <2>3, <2>4 DEF PumpTurn
<1>4. CASE Motor!RxDone
  BY <1>1, <1>4, Zenon DEF Motor!RxDone
<1>5. CASE Motor!RxRequest
  <2>1. /\ toMain # <<>> /\ Head(toMain).kind = "cmd" /\ UNCHANGED <<got, sent>>
        /\ toMotor' = Motor!Put(toMotor, Motor!Frame("ack", 0, Head(toMain).id))
    BY <1>5, Zenon DEF Motor!RxRequest, Motor!Heard, Motor!marks
  <2>2. Head(toMain) \in Motor!FrameSet
    BY <2>1, TailShrinks DEF LinesTyped
  <2>3. PICK a : a = Motor!Frame("ack", 0, Head(toMain).id)
    OBVIOUS
  <2>4. a \in Motor!FrameSet /\ a.kind # "msg"
    BY <2>1, <2>2, <2>3, FrameTyped DEF Motor!Frame
  <2>5. \E f \in Motor!FrameSet : f.kind # "msg" /\ toMotor' = Motor!Put(toMotor, f)
    BY <2>1, <2>3, <2>4
  <2>6. QED
    BY <1>0, <2>1, <2>5, OnceQuiet
<1>6. CASE Motor!MotorReceive
  BY <1>6, ReceiveGot
<1>7. CASE Motor!Lose
  <2>1. UNCHANGED <<got, sent>>
        /\ (toMotor' = toMotor \/ (toMotor # <<>> /\ toMotor' = Tail(toMotor)))
    BY <1>7, Zenon DEF Motor!Lose, Motor!marks
  <2>2. QED
    BY <1>0, <2>1, OnceQuiet
<1>8. CASE Motor!Tick \/ Motor!UpdateStep \/ (\E c \in MotorCmds : Motor!MotorSend(c))
           \/ UNCHANGED Motor!vars
  BY <1>1, <1>8, Zenon DEF Motor!Tick, Motor!UpdateStep, Motor!MotorSend, Motor!vars,
     Motor!wire, Motor!marks
<1>9. QED
  BY <1>2, <1>3, <1>4, <1>5, <1>6, <1>7, <1>8, StepCases DEF Aside

\* The rest of the types, and what they rest on.
RestTyped == PacesTyped /\ FlagsTyped /\ LinesShort /\ OnceSent /\ OnceGot

LEMMA RestBegins == ASSUME Motor!SspmAssumption, Motor!Init PROVE RestTyped
<1>0. Sizes /\ WireCap \in Nat
  BY SizesHold DEF Motor!SspmAssumption
<1>1. /\ nextHandle = 0 /\ retry = Motor!NoTimer /\ between = Motor!NoTimer /\ mode = "ready"
      /\ told = {} /\ recovery = FALSE /\ raced = FALSE /\ toMotor = <<>> /\ toMain = <<>>
      /\ sent = [m \in Motor!Msgs |-> 0] /\ got = [m \in Motor!Msgs |-> 0]
      /\ entries = [i \in Motor!Slots |-> Motor!Empty]
  BY Zenon DEF Motor!Init
<1>2. PacesTyped
  BY <1>0, <1>1 DEF PacesTyped, Motor!Handles, Motor!NoTimer, Modes, Sizes
<1>3. FlagsTyped
  BY <1>1, Zenon DEF FlagsTyped
<1>4. LinesShort
  BY <1>0, <1>1 DEF LinesShort
<1>5. OnceSent
  BY <1>1 DEF OnceSent, Motor!Empty
<1>6. OnceGot
  <2> SUFFICES ASSUME NEW m \in Motor!Msgs PROVE got[m] + Copies(toMotor, m) <= sent[m]
    BY DEF OnceGot
  <2>1. {k \in 1 .. Len(toMotor) : toMotor[k].kind = "msg" /\ toMotor[k].id = m} = {}
    BY <1>1
  <2>2. Copies(toMotor, m) = 0
    BY <2>1, FS_EmptySet DEF Copies
  <2>3. QED
    BY <1>1, <2>2
<1>7. QED
  BY <1>2, <1>3, <1>4, <1>5, <1>6 DEF RestTyped

LEMMA RestKept ==
  ASSUME Motor!SspmAssumption, LinkSound, RestTyped, [Motor!Next]_Motor!vars PROVE RestTyped'
<1>0. Sizes /\ WireCap \in Nat /\ TableSound /\ LinesTyped
  BY SizesHold DEF Motor!SspmAssumption, LinkSound
<1>1. PacesTyped' /\ FlagsTyped'
  BY <1>0, PacesKept DEF RestTyped
<1>2. LinesShort'
  BY <1>0, LinesStayShort DEF RestTyped
<1>3. OnceSent' /\ OnceGot'
  BY <1>0, OnceSentKept, OnceGotKept DEF RestTyped
<1>4. QED
  BY <1>1, <1>2, <1>3 DEF RestTyped

LEMMA RestTells ==
  ASSUME Sizes, LinkSound, Counted, RestTyped PROVE Motor!TypeOK
<1>1. got \in [Motor!Msgs -> 0 .. 1]
  <2>1. got \in [Motor!Msgs -> Nat]
    BY DEF LinkSound, LinesTyped
  <2>2. ASSUME NEW m \in Motor!Msgs PROVE got[m] \in 0 .. 1
    <3>1. got[m] \in Nat /\ sent[m] \in 0 .. 1 /\ got[m] + Copies(toMotor, m) <= sent[m]
      BY <2>1 DEF RestTyped, OnceSent, OnceGot
    <3>2. Copies(toMotor, m) \in Nat
      <4>1. toMotor \in Seq(Motor!FrameSet)
        BY DEF LinkSound, LinesTyped
      <4>2. Len(toMotor) \in Nat
        BY <4>1
      <4>3. QED
        BY <4>2, FinitePlaces
    <3>3. QED
      BY <3>1, <3>2
  <2>3. QED
    BY <2>1, <2>2
<1>2. /\ entries \in [Motor!Slots -> [state : 0 .. 2, handle : Motor!Handles,
                                      msg : Motor!Msgs \cup {Motor!NoMsg}]]
      /\ fate \in [Motor!Msgs -> Motor!Fates] /\ scan \in Motor!Slots
      /\ toMotor \in Seq(Motor!FrameSet) /\ toMain \in Seq(Motor!FrameSet)
      /\ sent \in [Motor!Msgs -> 0 .. 1] /\ committed \in 0 .. 255
  BY Zenon DEF LinkSound, TableSound, TableTyped, LinesTyped, RestTyped, OnceSent, Counted
<1>3. picked \in [slot : Motor!Slots, handle : Motor!Handles, msg : Motor!Msgs]
                 \cup {Motor!NoPick}
  BY DEF LinkSound, TableSound, PickNew
<1>4. PacesTyped /\ FlagsTyped /\ LinesShort
  BY Zenon DEF RestTyped
<1>5. QED
  BY <1>1, <1>2, <1>3, <1>4, Zenon DEF Motor!TypeOK, PacesTyped, FlagsTyped, LinesShort, Modes

-----------------------------------------------------------------------------
(* The machines of MCLinks                                                   *)

LEMMA LinksSteps ==
  ASSUME [AnyNext]_all
  PROVE  /\ which' = which
         /\ [Next]_vars
         /\ Linked => [Ble!Next]_Ble!vars
         /\ which = "motor" => [Motor!Next]_Motor!vars
<1>1. CASE UNCHANGED all
  <2>1. UNCHANGED vars
    BY <1>1 DEF all, vars, table, local
  <2>2. UNCHANGED Ble!vars
    BY <1>1 DEF all, Ble!vars, Ble!txq, Ble!pace, Ble!ctl, Ble!wire, Ble!peer
  <2>3. UNCHANGED Motor!vars
    BY <1>1 DEF all, Motor!vars, Motor!queue, Motor!pace, Motor!ctl, Motor!wire, Motor!marks
  <2>4. QED
    BY <1>1, <2>1, <2>2, <2>3 DEF all
<1>2. CASE TimersNext
  BY <1>2 DEF TimersNext, TimersStill, Linked
<1>3. CASE WrapNext
  BY <1>3 DEF WrapNext, WrapStill, Linked, vars, table, local
<1>4. CASE BleNext
  BY <1>4 DEF BleNext, BleStill, Linked, vars, table, local
<1>5. CASE MotorNext
  BY <1>5 DEF MotorNext, MotorStill, Linked, vars, table, local
<1>6. QED
  BY <1>1, <1>2, <1>3, <1>4, <1>5 DEF AnyNext

LinksInv == /\ IInv
            /\ Linked => Inv
            /\ which = "motor" => LinkSound /\ Counted /\ RestTyped

LEMMA LinksBegin == AnyInit => LinksInv
<1>1. AnyInit => IInv
  BY InitIInv DEF AnyInit, TimersInit, WrapInit, BleInit, MotorInit
<1>2. AnyInit => (Linked => Inv)
  BY MCLinksAssumption, InitInv DEF AnyInit, TimersInit, WrapInit, BleInit, MotorInit, Linked
<1>3. AnyInit => (which = "motor" => LinkSound /\ Counted /\ RestTyped)
  BY MCLinksAssumption, SizesHold, LinkBegins, CountBegins, RestBegins
  DEF AnyInit, TimersInit, WrapInit, BleInit, MotorInit
<1>4. QED
  BY <1>1, <1>2, <1>3 DEF LinksInv

LEMMA LinksKept == ASSUME LinksInv, [AnyNext]_all PROVE LinksInv'
<1>1. IInv'
  BY LinksSteps, NextIInv DEF LinksInv
<1>2. Linked => Inv'
  BY MCLinksAssumption, LinksSteps, NextInv DEF LinksInv
<1>3. which = "motor" => LinkSound' /\ Counted' /\ RestTyped'
  <2>1. which = "motor" => LinkSound' /\ Counted'
    BY MCLinksAssumption, SizesHold, LinksSteps, TableKept, LinesKept, HandlesStep, CountStep
    DEF LinksInv, LinkSound
  <2>2. which = "motor" => RestTyped'
    BY MCLinksAssumption, LinksSteps, RestKept DEF LinksInv
  <2>3. QED
    BY <2>1, <2>2
<1>4. QED
  BY <1>1, <1>2, <1>3, LinksSteps DEF LinksInv, Linked

LEMMA LinksHold == AnySpec => []LinksInv
<1>1. LinksInv /\ [AnyNext]_all => LinksInv'
  BY LinksKept
<1>2. QED
  BY <1>1, LinksBegin, PTL DEF AnySpec

\* Timers, queues, tables and lines keep their shape on all three machines.
\* Part of the motor table's is that a message is transmitted at most once and
\* arrives at most once: when the retry timer runs out it is given up, never
\* sent again (ssp.c:484-498, main.c:592-593).
THEOREM LinksTyped == AnySpec => []TypesOK
<1>1. LinksInv => TypesOK
  <2> SUFFICES ASSUME LinksInv PROVE TypesOK
    OBVIOUS
  <2>1. which = "timers" => TypeOK
    BY Zenon DEF LinksInv, IInv
  <2>2. Linked => Ble!TypeOK
    BY Zenon DEF LinksInv, Inv
  <2>3. which = "motor" => Motor!TypeOK
    BY MCLinksAssumption, SizesHold, RestTells DEF LinksInv
  <2>4. QED
    BY <2>1, <2>2, <2>3 DEF TypesOK, Linked
<1>2. QED
  BY <1>1, LinksHold, PTL

\* The sequence numbers and the handles of queued messages stay apart over a
\* wrap of their counters, unless a callback sends inside the call that is
\* storing a message (ssp.c:177-212, 369-406).
THEOREM NamesUnique == AnySpec => []UniqueNames
<1>1. LinksInv => UniqueNames
  <2>1. Inv => Ble!UniqueNames
    BY InvTells
  <2>2. LinkSound => Motor!UniqueNames
    BY SoundTells
  <2>3. QED
    BY <2>1, <2>2 DEF LinksInv, UniqueNames
<1>2. QED
  BY <1>1, LinksHold, PTL

\* What is taken for delivered was: a command the coprocessor believes done
\* was run, a message the motor table released has arrived
\* (ssp.c:663-790, 889-902).
THEOREM DeliveredIsTrue == AnySpec => []DoneIsTrue
<1>1. LinksInv => DoneIsTrue
  <2>1. Inv => Ble!DoneIsTrue
    BY InvTells
  <2>2. LinkSound => Motor!DoneIsTrue
    BY SoundTells
  <2>3. QED
    BY <2>1, <2>2 DEF LinksInv, DoneIsTrue
<1>2. QED
  BY <1>1, LinksHold, PTL

\* The motor is not put into recovery for a single lost message
\* (ssp.c:440-446).
THEOREM EarnedRecovery == AnySpec => []RecoveryEarned
<1>1. LinksInv => RecoveryEarned
  BY CountTells DEF LinksInv, RecoveryEarned
<1>2. QED
  BY <1>1, LinksHold, PTL

\* The queue to the coprocessor keeps the contract of a transport that may lose
\* and repeat: every step of MCLinks is a step of the contract or none
\* (ssp.c:177-212, 542-654).
THEOREM LinksImplement == AnySpec => Implements
<1>1. AnyInit => Transport!Init
  <2>1. CASE Linked
    <3>1. AnyInit => Ble!Init
      BY <2>1 DEF Linked, AnyInit, TimersInit, WrapInit, BleInit, MotorInit
    <3>2. QED
      BY <2>1, <3>1 DEF Ble!Init, Transport!Init
  <2>2. CASE ~Linked
    BY <2>2 DEF Transport!Init
  <2>3. QED
    BY <2>1, <2>2
<1>2. LinksInv /\ [AnyNext]_all => [Transport!Next]_(Transport!vars)
  <2> SUFFICES ASSUME LinksInv, [AnyNext]_all PROVE [Transport!Next]_(Transport!vars)
    OBVIOUS
  <2>1. Linked' = Linked
    BY LinksSteps DEF Linked
  <2>2. CASE ~Linked
    BY <2>1, <2>2 DEF Transport!vars
  <2>3. CASE Linked
    <3>1. [Ble!Contract!Next]_(Ble!Contract!vars)
      BY <2>3, MCLinksAssumption, LinksSteps, StepMaps DEF LinksInv
    <3>2. CASE UNCHANGED Ble!Contract!vars
      BY <2>1, <2>3, <3>2 DEF Ble!Contract!vars, Transport!vars
    <3>3. CASE Ble!Contract!Next
      BY <2>1, <2>3, <3>3 DEF Ble!Contract!Next, Ble!Contract!Submit, Ble!Contract!Refuse,
         Ble!Contract!Transmit, Ble!Contract!Arrive, Ble!Contract!Confirm, Ble!Contract!Drop,
         Ble!Contract!Becomes, Transport!Next, Transport!Submit, Transport!Refuse,
         Transport!Transmit, Transport!Arrive, Transport!Confirm, Transport!Drop,
         Transport!Becomes
    <3>4. QED
      BY <3>1, <3>2, <3>3
  <2>4. QED
    BY <2>2, <2>3
<1>3. QED
  BY <1>1, <1>2, LinksHold, PTL DEF AnySpec, Implements, Transport!Spec
=============================================================================
