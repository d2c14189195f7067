------------------------------ MODULE OtaUpdate ------------------------------
(***************************************************************************)
(* The update orchestrator of the main controller                          *)
(* (mainware/src/update.c, subsystem_update_sm): it fetches a pack of      *)
(* firmware files from the BLE coprocessor's flash block by block, writes  *)
(* each file to the flash region of its target, and then commits target by *)
(* target in the order it noted while it fetched.  The order is kept in    *)
(* the state record, which a reset resumes from (mainware/src/states.c).   *)
(*                                                                         *)
(* An answer of the coprocessor sets one flag and one buffer, whatever     *)
(* request it answers: `wire' holds requests whose answer may still come,  *)
(* late or after the answer to a later one.  The targets themselves        *)
(* (MotorUpdate, the battery, the shifter) are seen as the outcome they    *)
(* report.                                                                 *)
(*                                                                         *)
(* Targets and entries of the order are numbered as in the source: 0 none, *)
(* 1 bleware, 2 mainware, 3 motorware, 4 shifterware, 5 batteryware,       *)
(* 6 battery done.                                                         *)
(***************************************************************************)
EXTENDS Integers, Sequences, FiniteSets

CONSTANTS Packs,     \* packs the coprocessor may hold: sequences of 0 .. 5
          Blocks,    \* bound: blocks of a file
          Asks,      \* 12: how often the battery is asked for its number
          Tries,     \* 3: how often the supply may be low
          MaxUpsets  \* bound: losses of power and forced restarts

OtaAssumption ==
    /\ Packs \subseteq UNION {[1 .. n -> 0 .. 5] : n \in 1 .. 6}
    /\ {Blocks, Asks, Tries} \subseteq Nat \ {0} /\ MaxUpsets \in Nat

Slots == {"fw", "main", "ver", "vbat", "adv", "bms", "ble"}
Regions == 2 .. 5

None == <<"none">>
Header == <<"header">>
Desc(i) == <<"desc", i>>
Data(t, b) == <<"data", t, b>>

VARIABLES
    pack,             \* the pack in the coprocessor's flash
    st,               \* g_update_sm[0]
    tm,               \* g_update_slots: none, run or idle
    ans, wire,        \* ctx[0x2DC] with the buffer; requests unanswered
    bins, desc, done, \* the files announced, described, fetched
    cur, blk,         \* the file being fetched and its blocks written
    flash,            \* blocks of each region that are right, -1 once one is not
    order, saved,     \* ctx[0x32C ..] and its copy in the EEPROM
    fi, tries, asks, armed,  \* the commit's index and counters
    bike, restart,    \* the bike state: failed (0x1B), ok (0x1D) or another;
                      \* the restart timer of 0x1B and 0x1D
    onward,           \* history: an update runs although it was reported
                      \* as failed
    upsets

link == <<ans, wire>>
file == <<bins, desc, done, cur, blk>>
rec  == <<order, saved, bike>>
walk == <<fi, tries, asks, armed>>
env  == <<pack, restart, upsets>>
vars == <<st, tm, link, file, flash, rec, walk, env, onward>>

NoOrder == [i \in 0 .. 6 |-> 0]
NoTimers == [s \in Slots |-> "none"]
Idle(s) == tm[s] = "idle"

\* scheduler_start, scheduler_alloc and scheduler_release on a slot
Started(s) == [tm EXCEPT ![s] = IF @ = "none" THEN @ ELSE "run"]
Taken(s)   == [tm EXCEPT ![s] = IF @ = "none" THEN "run" ELSE @]
Freed(s)   == [tm EXCEPT ![s] = "none"]

Cleared == /\ st = 0 /\ tm = NoTimers
           /\ ans = None /\ bins = 0 /\ desc = <<>> /\ done = {}
           /\ cur = 2 /\ blk = 0 /\ armed = FALSE
           /\ fi = 0 /\ tries = 0 /\ asks = 0

Init == /\ Cleared
        /\ pack \in Packs /\ wire = {}
        /\ flash = [t \in Regions |-> 0]
        /\ order = NoOrder /\ saved = NoOrder
        /\ bike = "run" /\ restart = "none" /\ onward = FALSE /\ upsets = 0

\* testmode_command_dispatch: every command but 0 forgets the order.
\* Mutant: the order is left in the record.
FailKeepOrder == UNCHANGED order /\ saved' = order /\ bike' = "failed"

Fail == order' = NoOrder /\ saved' = NoOrder /\ bike' = "failed"
Save(o) == order' = o /\ saved' = o

\* What the next fetch sets before it reads it is forgotten at rest.
AtRest == /\ bins' = 0 /\ desc' = <<>> /\ done' = {} /\ cur' = 2 /\ blk' = 0
          /\ fi' = 0 /\ tries' = 0

Ask(a) == /\ \E w \in {s \in SUBSET wire : Cardinality(s) <= 1} : wire' = w \cup {a}
          /\ ans' = None

----------------------------------------------------------------------------
(* Fetching.  The fetch's steps leave env and, but for ScanFiles, the walk *)
(* alone.                                                                  *)

\* Mutant: the fetch's timer is not allocated.
AskHeaderUntimed == /\ st = 2 /\ st' = 3
                    /\ UNCHANGED tm /\ Ask(Header)
                    /\ order' = NoOrder /\ bins' = 0 /\ desc' = <<>> /\ done' = {}
                    /\ UNCHANGED <<cur, blk, flash, saved, bike, walk, onward>>

AskHeader == /\ st = 2 /\ st' = 3
             /\ tm' = Taken("fw") /\ Ask(Header)
             /\ order' = NoOrder /\ bins' = 0 /\ desc' = <<>> /\ done' = {}
             /\ UNCHANGED <<cur, blk, flash, saved, bike, walk, onward>>

\* A step that gives up: the timer ran out and nothing was received.
FetchTimeout == /\ st \in {3, 6, \hA} /\ Idle("fw") /\ ans = None
                /\ st' = \h15 /\ Fail
                /\ UNCHANGED <<tm, link, file, flash, walk, onward>>

\* The flag is not read again before the next request clears it.
Used == ans' = None /\ UNCHANGED wire

GetHeader ==
    /\ st = 3 /\ ans # None
    /\ \/ /\ ans = Header /\ st' = 4
          /\ bins' = Len(pack)
          /\ Save(IF Idle("fw") THEN NoOrder ELSE order) /\ bike' = "run"
       \/ ans # Header /\ st' = \h15 /\ Fail /\ UNCHANGED bins
    /\ Used /\ UNCHANGED <<tm, desc, done, cur, blk, flash, walk, onward>>

AskBlock == /\ st = 4 /\ st' = 6
            /\ Ask(Desc(Len(desc) + 1)) /\ tm' = Started("fw")
            /\ UNCHANGED <<file, flash, rec, walk, onward>>

\* An answer is used even in the pass in which the timer ran out.
UsedAnyway == /\ onward' = (onward \/ Idle("fw"))
              /\ IF Idle("fw") THEN Fail ELSE UNCHANGED rec

FileOf(a) == IF a[1] = "desc" THEN pack[a[2]] ELSE 0

RecvBlock ==
    /\ st = 6 /\ ans # None
    /\ desc' = Append(desc, FileOf(ans))
    /\ st' = IF Len(desc) + 1 < bins THEN 4 ELSE 5
    /\ UsedAnyway
    /\ Used /\ UNCHANGED <<tm, bins, done, cur, blk, flash, walk>>

\* The first file that is to be fetched; bleware files on the way to it are
\* only noted.
Unfetched == {i \in 1 .. bins : desc[i] \in Regions /\ i \notin done}
NotedUpTo(n) == {i \in 1 .. n : desc[i] = 1 /\ i \notin done}

ScanFiles ==
    /\ st = 5
    /\ IF Unfetched = {}
       THEN /\ st' = \h16
            /\ done' = done \cup NotedUpTo(bins)
            /\ order' = [i \in 0 .. 6 |-> IF i + 1 \in NotedUpTo(bins) THEN 1 ELSE order[i]]
            /\ UNCHANGED <<cur, blk>>
       ELSE LET f == CHOOSE i \in Unfetched : \A j \in Unfetched : i <= j
            IN  /\ st' = 7
                /\ done' = done \cup NotedUpTo(f) \cup {f}
                /\ order' = [i \in 0 .. 6 |-> IF i + 1 = f THEN desc[f]
                                              ELSE IF i + 1 \in NotedUpTo(f) THEN 1 ELSE order[i]]
                /\ cur' = desc[f] /\ blk' = 0
    /\ fi' = 0 /\ tries' = 0
    /\ UNCHANGED <<tm, link, bins, desc, flash, saved, bike, asks, armed, onward>>

Erase == /\ st = 7 /\ flash' = [flash EXCEPT ![cur] = 0]
         /\ \/ st' = 8 /\ UNCHANGED rec
            \/ st' = \h15 /\ Fail
         /\ UNCHANGED <<tm, link, file, walk, onward>>

\* The SSP queue is empty (SspBle!Resolved).
DlWait == st = 8 /\ st' = 9 /\ UNCHANGED <<tm, link, file, flash, rec, walk, onward>>

AskData == /\ st = 9 /\ st' = \hA
           /\ Ask(Data(cur, blk)) /\ tm' = Started("fw")
           /\ UNCHANGED <<file, flash, rec, walk, onward>>

\* One block more than the file has is written.  A block that answers another
\* request spoils the image.
Written == IF blk >= Blocks THEN flash[cur]
           ELSE IF ans = Data(cur, blk) /\ flash[cur] = blk THEN blk + 1 ELSE -1

Write ==
    /\ st = \hA /\ ans # None
    /\ \/ /\ flash' = [flash EXCEPT ![cur] = Written]
          /\ st' = IF blk < Blocks THEN 8 ELSE 5
          /\ blk' = blk + 1 /\ UsedAnyway
       \/ /\ flash' = [flash EXCEPT ![cur] = -1]
          /\ st' = \h15 /\ Fail /\ UNCHANGED <<blk, onward>>
    /\ Used /\ UNCHANGED <<tm, bins, desc, done, cur, walk>>

Fetch == \/ AskHeader \/ FetchTimeout \/ GetHeader \/ AskBlock \/ RecvBlock
         \/ ScanFiles \/ Erase \/ DlWait \/ AskData \/ Write

----------------------------------------------------------------------------
(* Committing, state 0x16: one target after the other, as noted.           *)

\* Mutant: the header is looked at, the checksum is not.
SoundHeader(t) == flash[t] # 0

Sound(t) == flash[t] >= Blocks       \* pack_validate
NextTarget == fi' = fi + 1 /\ UNCHANGED <<tries, asks, armed>>
SameTarget == UNCHANGED <<fi, tries, asks, armed>>
NoFw == [tm EXCEPT !["fw"] = "none"]

\* The end: the command is dispatched without its argument, so that it may be
\* any of them.
CommitEnd ==
    /\ order[fi] = 0 /\ tm' = NoFw
    /\ \/ fi = 0 /\ st' = \h15 /\ Fail /\ SameTarget /\ UNCHANGED file
       \/ /\ fi > 0 /\ st' = 0 /\ AtRest /\ UNCHANGED <<asks, armed>>
          /\ \/ saved' = order /\ UNCHANGED order /\ bike' = "run"
             \/ Save(NoOrder) /\ bike' \in {bike, "ok", "failed"}

CommitBle == order[fi] = 1 /\ tm' = NoFw /\ NextTarget /\ st' = \h11 /\ UNCHANGED rec

CommitMain ==
    /\ order[fi] = 2 /\ SameTarget
    /\ \/ ~Sound(2) /\ tm' = NoFw /\ st' = \h14 /\ UNCHANGED rec
       \/ /\ Sound(2) /\ tm["main"] = "none"
          /\ tm' = [NoFw EXCEPT !["main"] = "run"]
          /\ st' = \h16 /\ Save(order) /\ UNCHANGED bike

\* A target is pushed unless its version is the one it runs.  A region that
\* is not sound is looked at again and again.
Push(t, s) ==
    IF Sound(t) THEN NextTarget /\ (st' = \h16 \/ st' = s)
    ELSE SameTarget /\ st' = \h16

Wait(s) == tm[s] = "none" /\ tm' = [NoFw EXCEPT ![s] = "run"] /\ SameTarget /\ st' = \h16
Free(s) == tm' = [NoFw EXCEPT ![s] = "none"]

CommitMotor ==
    /\ order[fi] = 3 /\ UNCHANGED rec
    /\ Wait("ver") \/ (Free("ver") /\ Push(3, \hB))

\* Commits 4 and 5: the supply is up or not.
LowSupply ==
    /\ Free("vbat") /\ UNCHANGED <<fi, asks, armed>>
    /\ IF tries < Tries THEN tries' = tries + 1 /\ st' = \h16 /\ UNCHANGED rec
       ELSE tries' = 0 /\ st' = \h15 /\ Fail

CommitShifter ==
    /\ order[fi] = 4
    /\ \/ Wait("vbat") /\ UNCHANGED rec
       \/ Idle("vbat") /\ Free("vbat") /\ Push(4, \hE) /\ UNCHANGED rec
       \/ Idle("vbat") /\ LowSupply

CommitBattery ==
    /\ order[fi] = 5
    /\ \/ Wait("vbat") /\ UNCHANGED rec
       \/ Free("vbat") /\ Push(5, \hF) /\ UNCHANGED rec
       \/ Idle("vbat") /\ LowSupply

Commit == /\ st = \h16
          /\ \/ CommitEnd
             \/ /\ CommitBle \/ CommitMain \/ CommitMotor \/ CommitShifter \/ CommitBattery
                /\ UNCHANGED file
          /\ UNCHANGED <<link, flash, onward>>
----------------------------------------------------------------------------
(* The targets                                                             *)

Kept == UNCHANGED <<link, file, flash, onward>>

\* State 0xB waits for a battery that is on.
MotorStart ==
    /\ st = \hB /\ Kept /\ UNCHANGED <<rec, walk>>
    /\ IF Idle("adv") THEN tm' = Freed("adv") /\ st' = \hC ELSE tm' = Taken("adv") /\ UNCHANGED st

\* States 0xC and 0xE wait for the outcome, 0xD for the motor's restart.
Outcome ==
    /\ Kept /\ UNCHANGED rec /\ SameTarget
    /\ \/ st = \hC /\ st' = \hD /\ tm' = [tm EXCEPT !["ver"] = "run"]
       \/ st = \hE /\ st' = \h16 /\ UNCHANGED tm
       \/ st \in {\hC, \hE, \hF} /\ st' = \h16 /\ UNCHANGED tm

MotorVersion == /\ st = \hD /\ Idle("ver") /\ st' = \h16 /\ tm' = Freed("ver")
                /\ Kept /\ UNCHANGED <<rec, walk>>

\* The entry of the battery becomes 6 once it has the image.
Noted == [order EXCEPT ![fi - 1] = 6]

BatteryDone ==
    /\ st = \hF /\ st' = \h10
    /\ tm' = Taken("bms") /\ asks' = Asks /\ armed' = TRUE
    /\ Save(Noted) /\ UNCHANGED <<bike, fi, tries>> /\ Kept

\* Mutant: the battery is asked once more than counted.
BatteryWaitLonger ==
    /\ st = \h10 /\ Kept /\ UNCHANGED <<rec, fi, tries>>
    /\ \/ armed /\ tm' = Started("bms") /\ UNCHANGED <<st, asks, armed>>
       \/ /\ Idle("bms") /\ armed' = FALSE /\ asks' = asks - 1
          /\ IF asks = 0 THEN st' = \h16 /\ UNCHANGED tm
             ELSE tm' = Started("bms") /\ UNCHANGED st

\* State 0x10: a byte of the battery's line cuts the wait short; the battery
\* is asked until it tells its number.
BatteryWait ==
    /\ st = \h10 /\ Kept /\ UNCHANGED <<rec, fi, tries>>
    /\ \/ armed /\ tm' = Started("bms") /\ UNCHANGED <<st, asks, armed>>
       \/ /\ Idle("bms") /\ armed' = FALSE /\ asks' = asks - 1
          /\ IF asks = 1 THEN st' = \h16 /\ UNCHANGED tm
             ELSE tm' = Started("bms") /\ UNCHANGED st

BatteryKnown ==
    /\ st = \h10 /\ Kept
    /\ st' = \h16 /\ tm' = Freed("bms")
    /\ Save(Noted) /\ UNCHANGED <<bike, fi, tries, asks, armed>>

BleStart == /\ st = \h11 /\ st' = \h12 /\ tm' = Taken("ble")
            /\ Kept /\ UNCHANGED <<rec, walk>>

BleTimeout == /\ st \in {\h12, \h13} /\ Idle("ble")
              /\ tm' = Freed("ble") /\ Fail /\ st' = \h15
              /\ Kept /\ UNCHANGED walk

\* The image information is used even in the pass that timed out; state 0x13
\* then has no timer.
BleInfo == /\ st = \h12 /\ st' = \h13
           /\ IF Idle("ble") THEN tm' = Freed("ble") /\ Fail ELSE tm' = Started("ble") /\ UNCHANGED rec
           /\ onward' = (onward \/ Idle("ble"))
           /\ UNCHANGED <<link, file, flash, walk>>

BleVersion == /\ st = \h13 /\ ~Idle("ble") /\ st' = \h16
              /\ Kept /\ UNCHANGED <<tm, rec, walk>>

BadMain == st = \h14 /\ st' = \h15 /\ Fail /\ Kept /\ UNCHANGED <<tm, walk>>

Stop == /\ st = \h15 /\ st' = 0 /\ tm' = NoFw /\ AtRest
        /\ UNCHANGED <<link, flash, rec, asks, armed, onward>>

Targets == MotorVersion \/ BatteryWait \/ BleStart \/ BleTimeout \/ BadMain \/ Stop
Answers == MotorStart \/ Outcome \/ BatteryDone \/ BatteryKnown \/ BleInfo \/ BleVersion

----------------------------------------------------------------------------
(* The rest of the program and the coprocessor                             *)

Orchestrator == UNCHANGED <<st, tm, file, flash, walk>>

\* Answer 0x105, on time, late or after a later one.  One that comes while none is
\* awaited is forgotten at the next request.
Deliver == /\ st \in {3, 6, \hA}
           /\ \E a \in wire : ans' = a /\ wire' = wire \ {a}
           /\ Orchestrator /\ UNCHANGED <<rec, env, onward>>

Expire == /\ \E s \in Slots : tm[s] = "run" /\ tm' = [tm EXCEPT ![s] = "idle"]
          /\ UNCHANGED <<st, link, file, flash, rec, walk, env, onward>>

\* OAD_STATUS 0 or 3, 1 and 4 to 7, the guard of state 0x1A, the factory
\* reset, which ends an update, and any saving of the state record
Upset == upsets < MaxUpsets /\ upsets' = upsets + 1 /\ UNCHANGED <<pack, restart>>

OadStarts == Upset /\ bike' = "run" /\ UNCHANGED <<st, order, saved>>
OadDone   == /\ st = 0 /\ st' = 2 /\ UNCHANGED <<rec, env>>
             /\ onward' = (bike = "failed" \/ restart # "none")
OadFails  == Upset /\ bike' = "failed" /\ UNCHANGED <<st, order, saved>> /\ onward' = (order # NoOrder \/ st # 0)
OadTooLong == Upset /\ bike = "run" /\ Fail /\ UNCHANGED st /\ onward' = (st # 0)
ForceEnd == Upset /\ order[0] # 0 /\ Save(NoOrder) /\ bike' = "run" /\ UNCHANGED st
RecordSaved == saved' = order /\ UNCHANGED <<st, order, bike, env>>

Others == /\ \/ OadDone \/ OadFails \/ OadTooLong
             \/ (OadStarts \/ ForceEnd \/ RecordSaved) /\ UNCHANGED onward
          /\ UNCHANGED <<tm, link, file, flash, walk>>

\* status_process in states 0x1B and 0x1D
Status == /\ restart = "none" /\ bike \in {"failed", "ok"}
          /\ restart' = (IF bike = "failed" THEN "callback" ELSE "plain")
          /\ Orchestrator /\ UNCHANGED <<link, rec, pack, upsets, onward>>

\* The first entry that is 2 or 6 decides where a reset resumes, unless a 6
\* follows a 2: the last 2 before the first 6, or the 6, is taken.
Resumable == {i \in 0 .. 5 : saved[0] # 0 /\ saved[i] \in {2, 6}}
Sixes == {i \in Resumable : saved[i] = 6}
FirstSix == CHOOSE i \in Sixes : \A j \in Sixes : i <= j
LastTwo == CHOOSE i \in Resumable : \A j \in Resumable : i >= j

Boot ==
    /\ tm' = NoTimers /\ ans' = None /\ wire' = {}
    /\ bins' = 0 /\ desc' = <<>> /\ done' = {} /\ cur' = 2 /\ blk' = 0
    /\ tries' = 0 /\ asks' = 0 /\ armed' = FALSE
    /\ order' = saved /\ restart' = "none" /\ UNCHANGED <<saved, pack>> /\ onward' = FALSE
    /\ \/ /\ Sixes # {} /\ st' = \h10 /\ fi' = FirstSix + 1 /\ bike' = "run"
       \/ /\ Sixes = {} /\ Resumable # {}
          /\ st' = \h16 /\ fi' = LastTwo + 1 /\ bike' = "run"
       \/ st' = 0 /\ fi' = 0 /\ bike' = "run"

\* The boot loader may use up the image of the main controller.
NvicReset == /\ st = \h16 /\ order[fi] = 2 /\ Sound(2) /\ Idle("main")
             /\ Boot /\ flash' \in {flash, [flash EXCEPT ![2] = 0]} /\ UNCHANGED upsets

Restart == /\ restart = "callback" \/ (restart = "plain" /\ bike = "ok")
           /\ Boot /\ UNCHANGED <<flash, upsets>>

PowerLoss == /\ upsets < MaxUpsets /\ upsets' = upsets + 1
             /\ Boot
             /\ flash' \in {flash, [flash EXCEPT ![cur] = IF st \in 7 .. \hA THEN -1 ELSE @]}

Step == (Fetch \/ Commit \/ Targets) /\ UNCHANGED env

Next == \/ Step \/ (Answers /\ UNCHANGED env) \/ NvicReset \/ Restart \/ Status
        \/ Deliver \/ Expire \/ Others \/ PowerLoss

Spec == Init /\ [][Next]_vars

\* The main loop and the timers run; no answer and no outcome is promised.
FairSpec == Spec /\ WF_vars(Step) /\ WF_vars(NvicReset) /\ WF_vars(Restart)
                 /\ WF_vars(Status) /\ SF_vars(Expire)

----------------------------------------------------------------------------
Addresses == {None, Header} \cup {Desc(i) : i \in 1 .. 6}
             \cup {Data(t, b) : t \in Regions, b \in 0 .. Blocks}

\* The shape of the control block.
TypeOK ==
    /\ pack \in Packs /\ st \in 0 .. \h16 /\ tm \in [Slots -> {"none", "run", "idle"}]
    /\ ans \in Addresses /\ wire \subseteq Addresses \ {None}
    /\ bins \in 0 .. 6 /\ desc \in Seq(0 .. 5) /\ Len(desc) <= bins /\ done \subseteq 1 .. bins
    /\ cur \in Regions /\ blk \in 0 .. Blocks + 1 /\ flash \in [Regions -> -1 .. Blocks]
    /\ {order, saved} \subseteq [0 .. 6 -> 0 .. 6]
    /\ fi \in 0 .. 6 /\ tries \in 0 .. Tries /\ asks \in 0 .. Asks
    /\ {armed, onward} \subseteq BOOLEAN /\ upsets \in 0 .. MaxUpsets
    /\ bike \in {"run", "failed", "ok"}
    /\ restart \in {"none", "plain", "callback"}

\* The file a target is being pushed from is complete and each of its blocks
\* is the answer to the request for that block, whatever answers came late or
\* in another order and wherever an earlier fetch was cut off.
Pushed == [s \in {\hB, \hC, \hD, \hE, \hF} |-> IF s <= \hD THEN 3 ELSE s - \hA]
PushedIsSound == st \in DOMAIN Pushed => flash[Pushed[st]] >= Blocks

\* An update that was reported as failed is not taken up again by the restart
\* that follows, unless an answer came in the pass that gave it up.
FailureForgotten == Restart /\ restart = "callback" /\ ~onward => st' = 0
FailedNotResumed == [][FailureForgotten]_vars

\* The orchestrator never waits for ever for something that has no timer: it
\* comes to rest, or waits for the battery, the motor or the shifter, or finds
\* an image unsound again and again, or meets the entry of
\* a battery that is done, or has lost its timer to an answer that came as the
\* timer ran out.
WaitsForTarget == st \in {\hB, \hC, \hE, \hF, \h10} \/ (st = \h13 /\ tm["ble"] = "none")
Unsound == st = \h16 /\ (order[fi] = 6 \/ (order[fi] \in 3 .. 5 /\ ~Sound(order[fi])))
UpdateRests == st = 0 \/ WaitsForTarget \/ Unsound
UpdateEnds == []<>UpdateRests
=============================================================================
