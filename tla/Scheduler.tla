----------------------------- MODULE Scheduler -----------------------------
(***************************************************************************)
(* The timer table of the main controller (mainware/src/scheduler.c,       *)
(* "src/time.c" in the vendor's tree): NSlots one-shot timers kept in two  *)
(* bitmaps, `allocated' and `armed', a counter and a callback per slot.    *)
(*                                                                         *)
(* Two contexts run this code.  The main loop calls scheduler_alloc,       *)
(* scheduler_start and scheduler_release; the SysTick interrupt            *)
(* (exceptions.c, SysTick_Handler) calls scheduler_tick, and a callback    *)
(* run there releases the timer it belongs to.  The interrupt may arrive   *)
(* between any two memory accesses of the main loop and runs to its end    *)
(* before the main loop goes on.  A bitmap is updated by a load and a      *)
(* store of the BYTE that holds the bit, so the main loop's operations are *)
(* split at those accesses and `reg' is the loaded byte.                   *)
(*                                                                         *)
(* A client is a variable of the program that holds a slot id: `ref[c]' is *)
(* its value, NoSlot being SCHED_SLOT_NONE.  A client of CbClients starts  *)
(* its timer with a callback that releases it (motor_get_timer_cb,         *)
(* bat_reset_release_cb, shift_rx_flush_timeout_cb, ...); every other      *)
(* client starts its timer without one and polls it.                       *)
(***************************************************************************)
EXTENDS Integers, FiniteSets

CONSTANTS NSlots,     \* SCHED_SLOTS, 48
          ByteWidth,  \* slots per bitmap byte, 8
          Clients,    \* the variables that hold slot ids
          CbClients,  \* those whose callback releases the slot
          NoCb,       \* a null callback pointer
          MaxTicks    \* bound: the longest timer started

ASSUME SchedulerAssumption ==
    /\ NSlots \in Nat \ {0}
    /\ ByteWidth \in Nat \ {0}
    /\ CbClients \subseteq Clients
    /\ NoCb \notin Clients
    /\ MaxTicks \in Nat

Slots  == 0 .. NSlots - 1
NoSlot == -1                              \* 0xFA: outside the table
SameByte(s) == {t \in Slots : t \div ByteWidth = s \div ByteWidth}
Byte(b) == {t \in Slots : t \div ByteWidth = b}

VARIABLES
    allocated,  \* the allocated bitmap, as the set of its bits
    armed,      \* the armed bitmap
    counters,   \* ticks left, per slot
    callbacks,  \* the client whose callback is set, per slot
    ref,        \* the slot id each client holds
    pc,         \* where the main loop is
    me,         \* the client the main loop works for
    byte,       \* alloc's byte_idx
    slot,       \* alloc's, start's or release's slot
    ticks,      \* start's ticks
    reg,        \* the bitmap byte the main loop has loaded
    isr         \* the slot scheduler_tick looks at, NSlots when not in it

table == <<allocated, armed, counters, callbacks, ref>>
local == <<me, byte, slot, ticks, reg>>
vars  == <<table, pc, local, isr>>

Init ==
    /\ allocated = {} /\ armed = {}
    /\ counters = [s \in Slots |-> 0]
    /\ callbacks = [s \in Slots |-> NoCb]
    /\ ref = [c \in Clients |-> NoSlot]
    /\ pc = "main" /\ me \in Clients
    /\ byte = 0 /\ slot = 0 /\ ticks = 0 /\ reg = {}
    /\ isr = NSlots

InIsr == isr < NSlots
At(label) == ~InIsr /\ pc = label
Goto(label) == pc' = label /\ UNCHANGED isr

----------------------------------------------------------------------------
(* scheduler_alloc.  The callers' idiom is `if (slot == 0xFA) slot =       *)
(* scheduler_alloc()'.  The byte scan and the bit scan re-read the bitmap; *)
(* meanwhile the interrupt can only clear bits of it.                      *)

AllocCall(c) ==
    /\ At("main") /\ ref[c] = NoSlot
    /\ Goto("scan") /\ me' = c /\ byte' = 0
    /\ UNCHANGED <<table, slot, ticks, reg>>

AllocScan ==
    /\ At("scan") /\ Byte(byte) # {}
    /\ \/ Byte(byte) \subseteq allocated /\ Goto("scan") /\ byte' = byte + 1
       \/ ~(Byte(byte) \subseteq allocated) /\ Goto("bit") /\ UNCHANGED byte
    /\ UNCHANGED <<table, me, slot, ticks, reg>>

\* muco_assert_fail("src/time.c", 127): the main loop never goes on.
AllocFail ==
    /\ At("scan") /\ Byte(byte) = {}
    /\ Goto("dead")
    /\ UNCHANGED <<table, local>>

\* Mutant: the bit scan does not look at the bitmap.
AllocAnyBit ==
    /\ At("bit")
    /\ slot' \in Byte(byte)
    /\ Goto("clear")
    /\ UNCHANGED <<table, me, byte, ticks, reg>>

AllocBit ==
    /\ At("bit")
    /\ \E s \in Byte(byte) \ allocated :
         /\ \A t \in Byte(byte) \ allocated : s <= t
         /\ slot' = s
    /\ Goto("clear")
    /\ UNCHANGED <<table, me, byte, ticks, reg>>

AllocClear ==
    /\ At("clear")
    /\ counters' = [counters EXCEPT ![slot] = 0]
    /\ callbacks' = [callbacks EXCEPT ![slot] = NoCb]
    /\ Goto("mark")
    /\ UNCHANGED <<allocated, armed, ref, local>>

AllocLoad ==
    /\ At("mark")
    /\ reg' = allocated \cap SameByte(slot)
    /\ Goto("take")
    /\ UNCHANGED <<table, me, byte, slot, ticks>>

AllocStore ==
    /\ At("take")
    /\ allocated' = (allocated \ SameByte(slot)) \cup reg \cup {slot}
    /\ ref' = [ref EXCEPT ![me] = slot]
    /\ Goto("main")
    /\ UNCHANGED <<armed, counters, callbacks, local>>

----------------------------------------------------------------------------
(* scheduler_start                                                         *)

StartCall(c, n) ==
    /\ At("main") /\ ref[c] \in Slots
    /\ me' = c /\ slot' = ref[c] /\ ticks' = n
    /\ Goto("count")
    /\ UNCHANGED <<table, byte, reg>>

StartCounter ==
    /\ At("count")
    /\ counters' = [counters EXCEPT ![slot] = ticks]
    /\ Goto("callback")
    /\ UNCHANGED <<allocated, armed, callbacks, ref, local>>

StartCallback ==
    /\ At("callback")
    /\ callbacks' = [callbacks EXCEPT ![slot] = IF me \in CbClients THEN me ELSE NoCb]
    /\ Goto("arm")
    /\ UNCHANGED <<allocated, armed, counters, ref, local>>

StartLoad ==
    /\ At("arm")
    /\ reg' = armed \cap SameByte(slot)
    /\ Goto("armed")
    /\ UNCHANGED <<table, me, byte, slot, ticks>>

StartStore ==
    /\ At("armed")
    /\ armed' = (armed \ SameByte(slot)) \cup reg \cup {slot}
    /\ Goto("main")
    /\ UNCHANGED <<allocated, counters, callbacks, ref, local>>

----------------------------------------------------------------------------
(* scheduler_release, called by the main loop                              *)

ReleaseCall(c) ==
    /\ At("main") /\ ref[c] \in Slots
    /\ me' = c /\ slot' = ref[c]
    /\ Goto("disarm")
    /\ UNCHANGED <<table, byte, ticks, reg>>

DisarmLoad ==
    /\ At("disarm")
    /\ reg' = armed \cap SameByte(slot)
    /\ Goto("disarmed")
    /\ UNCHANGED <<table, me, byte, slot, ticks>>

DisarmStore ==
    /\ At("disarmed")
    /\ armed' = (armed \ SameByte(slot)) \cup (reg \ {slot})
    /\ Goto("free")
    /\ UNCHANGED <<allocated, counters, callbacks, ref, local>>

FreeLoad ==
    /\ At("free")
    /\ reg' = allocated \cap SameByte(slot)
    /\ Goto("freed")
    /\ UNCHANGED <<table, me, byte, slot, ticks>>

FreeStore ==
    /\ At("freed")
    /\ allocated' = (allocated \ SameByte(slot)) \cup (reg \ {slot})
    /\ Goto("forget")
    /\ UNCHANGED <<armed, counters, callbacks, ref, local>>

Forget ==
    /\ At("forget")
    /\ counters' = [counters EXCEPT ![slot] = 0]
    /\ callbacks' = [callbacks EXCEPT ![slot] = NoCb]
    /\ ref' = [ref EXCEPT ![me] = NoSlot]
    /\ Goto("main")
    /\ UNCHANGED <<allocated, armed, local>>

----------------------------------------------------------------------------
(* scheduler_tick, one slot per step; the main loop does not move until    *)
(* the last slot is done.                                                  *)

TickEnter == ~InIsr /\ isr' = 0 /\ UNCHANGED <<table, pc, local>>

\* Mutant: a counter is taken below zero.
TickedBelow(s) == counters[s] - 1

Ticked(s) == IF counters[s] # 0 THEN counters[s] - 1 ELSE 0

\* The callback of client c releases ref[c]; scheduler_release of 0xFA
\* does nothing.
RunCallback(c) ==
    LET s == ref[c] IN
    IF s \in Slots
    THEN /\ armed' = armed \ {s}
         /\ allocated' = allocated \ {s}
         /\ counters' = [counters EXCEPT ![isr] = Ticked(isr), ![s] = 0]
         /\ callbacks' = [callbacks EXCEPT ![s] = NoCb]
         /\ ref' = [ref EXCEPT ![c] = NoSlot]
    ELSE /\ counters' = [counters EXCEPT ![isr] = Ticked(isr)]
         /\ UNCHANGED <<allocated, armed, callbacks, ref>>

Fires(s) == s \in armed /\ Ticked(s) = 1 /\ callbacks[s] # NoCb

TickFire == InIsr /\ Fires(isr) /\ RunCallback(callbacks[isr])

TickCount ==
    /\ InIsr /\ isr \in armed /\ ~Fires(isr)
    /\ counters' = [counters EXCEPT ![isr] = Ticked(isr)]
    /\ UNCHANGED <<allocated, armed, callbacks, ref>>

TickSkip == InIsr /\ isr \notin armed /\ UNCHANGED table

Tick ==
    /\ TickFire \/ TickCount \/ TickSkip
    /\ isr' = isr + 1
    /\ UNCHANGED <<pc, local>>

----------------------------------------------------------------------------
Call == \E c \in Clients :
            \/ AllocCall(c)
            \/ ReleaseCall(c)
            \/ \E n \in 1 .. MaxTicks : StartCall(c, n)

Main == \/ Call
        \/ AllocScan \/ AllocFail \/ AllocBit \/ AllocClear \/ AllocLoad \/ AllocStore
        \/ StartCounter \/ StartCallback \/ StartLoad \/ StartStore
        \/ DisarmLoad \/ DisarmStore \/ FreeLoad \/ FreeStore \/ Forget

Next == Main \/ TickEnter \/ Tick

Spec == Init /\ [][Next]_vars

----------------------------------------------------------------------------
Labels == {"main", "scan", "bit", "clear", "mark", "take", "count", "callback", "arm",
           "armed", "disarm", "disarmed", "free", "freed", "forget", "dead"}

\* The shape of the table and of the main loop's registers.
TypeOK ==
    /\ allocated \subseteq Slots /\ armed \subseteq Slots
    /\ counters \in [Slots -> 0 .. MaxTicks]
    /\ callbacks \in [Slots -> Clients \cup {NoCb}]
    /\ ref \in [Clients -> Slots \cup {NoSlot}]
    /\ pc \in Labels /\ me \in Clients
    /\ byte \in Nat /\ slot \in Slots /\ ticks \in 0 .. MaxTicks
    /\ reg \subseteq Slots
    /\ isr \in 0 .. NSlots

\* Two variables of the program never hold the same timer, whatever the
\* interrupt releases while the main loop is inside scheduler_alloc.
Exclusive ==
    \A c, d \in Clients : c # d /\ ref[c] \in Slots => ref[c] # ref[d]

\* A timer somebody holds is marked allocated (so it cannot be handed out
\* again), except the one the main loop is just giving back: a stale byte
\* stored over the bitmap never frees a timer in use.
HeldIsAllocated ==
    \A c \in Clients :
        ref[c] \in allocated \cup {NoSlot} \/ (c = me /\ pc = "forget")

\* scheduler_release "clears both the armed and the allocated bit"
\* (scheduler.h): outside the three operations a timer nobody holds is free.
ReleasedIsFree ==
    At("main") => allocated \subseteq {ref[c] : c \in Clients}

\* A running timer loses at most one tick per step, and only its holder's
\* own start or release changes it otherwise: no other client's operation
\* cuts it short.
NoForeignChange ==
    [][\A c \in Clients :
         ref[c] \in Slots /\ ref'[c] = ref[c] /\ counters'[ref[c]] # counters[ref[c]]
           => \/ InIsr /\ counters'[ref[c]] = counters[ref[c]] - 1
              \/ me = c]_vars
=============================================================================
