--------------------------- MODULE ServicesProofs ---------------------------
(***************************************************************************)
(* Proofs about the services of the main controller, for every value of    *)
(* the constants of MCServices: a resting motor runs its application and   *)
(* one that answered is not reflashed, a pack is told to install only what *)
(* it was sent, a resting modem is off, and the loop of the shifter keeps  *)
(* its watch over the gear motor.  The last part takes the properties of   *)
(* MCServices' run from the machines.                                      *)
(***************************************************************************)
EXTENDS MCServices, Integers, Sequences, FiniteSets, TLAPS

-----------------------------------------------------------------------------
(* The update of the motor controller                                       *)

Places == /\ pc \in {"battery", "motor", "link", "status", "ota", "dead", "reboot"}
          /\ mode \in 0 .. 13
          /\ bike \in {"standby", "ride", "locked", "update", "failed", "finished"}
          /\ ota \in {"idle", "confirm", "ok", "error"}
          /\ phase \in {"start", "run"} /\ left \in 1 .. Chunks
Counts == /\ aux \in Motor!Ticks(AuxTicks) /\ dl \in Motor!Ticks(Motor!LongestDl)
          /\ orphan \in Motor!Ticks(CbTicks) /\ resetIn \in Motor!Ticks(ResetTicks)
Marks == /\ dlCb \in BOOLEAN /\ flash \in BOOLEAN /\ reset \in BOOLEAN /\ boot \in BOOLEAN
         /\ backlog \in BOOLEAN /\ recovery \in BOOLEAN /\ resetCb \in BOOLEAN
         /\ prompt \in BOOLEAN

HoldIsShort == dlCb => dl <= CbTicks

Shape == Places /\ Counts /\ Marks /\ HoldIsShort

Positive == /\ AuxTicks \in Nat /\ AuxTicks > 0 /\ DlTicks \in Nat /\ DlTicks > 0
            /\ CbTicks \in Nat /\ CbTicks > 0 /\ ResetTicks \in Nat /\ ResetTicks > 0
            /\ Chunks \in Nat /\ Chunks > 0

LEMMA TicksPositive == Motor!MotorUpdateAssumption => Positive
  BY DEF Motor!MotorUpdateAssumption, Positive

LEMMA ShapeBegins == ASSUME Positive PROVE Motor!Init => Shape
<1> SUFFICES ASSUME Motor!Init PROVE Shape
  OBVIOUS
<1>1. Places
  BY DEF Positive, Motor!Init, Places
<1>2. Counts /\ HoldIsShort
  BY DEF Positive, Motor!Init, Counts, HoldIsShort, Motor!Ticks, Motor!NoTimer, Motor!LongestDl
<1>3. Marks
  BY DEF Motor!Init, Marks
<1>4. QED
  BY <1>1, <1>2, <1>3, Zenon DEF Shape

LEMMA StepPlaces == ASSUME Positive, Places, Motor!Step PROVE Places'
<1> USE DEF Positive, Places, Motor!Calls, Motor!SetBike, Motor!xfer
<1>1. CASE Motor!AfterReset \/ Motor!AwaitAnswer \/ Motor!Rest \/ Motor!ResetMotor
  BY <1>1 DEF Motor!AfterReset, Motor!AwaitAnswer, Motor!Rest, Motor!ResetMotor, Motor!asked
<1>2. CASE Motor!EnterBoot \/ Motor!Settle \/ Motor!ValidatePack \/ Motor!Succeed \/ Motor!Fail
  <2>1. CASE Motor!EnterBoot \/ Motor!ValidatePack
    BY <2>1 DEF Motor!EnterBoot, Motor!ValidatePack, Motor!asked
  <2>0. CASE Motor!Settle
    <3>1. mode \in {5, 8} /\ mode' \in {mode, mode + 1}
      BY <2>0, Zenon DEF Motor!Settle
    <3>2. Motor!Calls /\ UNCHANGED <<phase, left, bike>>
      BY <2>0, Zenon DEF Motor!Settle
    <3>3. QED
      BY <3>1, <3>2 DEF Motor!asked
  <2>2. CASE Motor!Succeed
    BY <2>2 DEF Motor!Succeed, Motor!asked
  <2>3. CASE Motor!Fail
    BY <2>3 DEF Motor!Fail, Motor!asked
  <2>4. QED
    BY <1>2, <2>0, <2>1, <2>2, <2>3
<1>3. CASE Motor!Transfer
  BY <1>3 DEF Motor!Transfer, Motor!XferStart, Motor!XferRun, Motor!XferEnd, Motor!asked
<1>4. CASE Motor!TransferAssert
  BY <1>4 DEF Motor!TransferAssert, Motor!asked
<1>5. QED
  BY <1>1, <1>2, <1>3, <1>4, Zenon DEF Motor!Step

LEMMA StepCounts ==
  ASSUME Positive, Counts, HoldIsShort, Motor!Step PROVE Counts' /\ HoldIsShort'
<1> USE DEF Positive, Counts, HoldIsShort, Motor!Ticks, Motor!NoTimer, Motor!LongestDl,
            Motor!Calls, Motor!reboot, Motor!timers, Motor!Start
<1>1. CASE Motor!AfterReset \/ Motor!AwaitAnswer \/ Motor!Rest \/ Motor!ResetMotor
  BY <1>1 DEF Motor!AfterReset, Motor!AwaitAnswer, Motor!Rest, Motor!ResetMotor
<1>2. CASE Motor!EnterBoot \/ Motor!Settle \/ Motor!ValidatePack \/ Motor!Succeed \/ Motor!Fail
  <2>1. CASE Motor!EnterBoot
    BY <2>1 DEF Motor!EnterBoot
  <2>2. CASE Motor!ValidatePack
    BY <2>2 DEF Motor!ValidatePack
  <2>0. CASE Motor!Settle
    BY <2>0 DEF Motor!Settle
  <2>3. CASE Motor!Succeed \/ Motor!Fail
    BY <2>3 DEF Motor!Succeed, Motor!Fail, Motor!Release
  <2>4. QED
    BY <1>2, <2>0, <2>1, <2>2, <2>3
<1>3. CASE Motor!Transfer
  BY <1>3 DEF Motor!Transfer, Motor!XferStart, Motor!XferRun, Motor!XferEnd
<1>4. CASE Motor!TransferAssert
  BY <1>4 DEF Motor!TransferAssert
<1>5. QED
  BY <1>1, <1>2, <1>3, <1>4, Zenon DEF Motor!Step

LEMMA StepMarks == ASSUME Marks, Motor!Step PROVE Marks'
<1> USE DEF Marks, Motor!Calls, Motor!link, Motor!reboot, Motor!asked, Motor!timers, Motor!pins
<1>1. CASE Motor!AfterReset \/ Motor!AwaitAnswer \/ Motor!Rest \/ Motor!ResetMotor
  BY <1>1 DEF Motor!AfterReset, Motor!AwaitAnswer, Motor!Rest, Motor!ResetMotor,
              Motor!PinsAfterWait
<1>2. CASE Motor!EnterBoot \/ Motor!Settle \/ Motor!ValidatePack \/ Motor!Succeed \/ Motor!Fail
  BY <1>2 DEF Motor!EnterBoot, Motor!Settle, Motor!ValidatePack, Motor!Succeed, Motor!Fail,
              Motor!Release
<1>3. CASE Motor!Transfer
  BY <1>3 DEF Motor!Transfer, Motor!XferStart, Motor!XferRun, Motor!XferEnd
<1>4. CASE Motor!TransferAssert
  BY <1>4 DEF Motor!TransferAssert
<1>5. QED
  BY <1>1, <1>2, <1>3, <1>4, Zenon DEF Motor!Step

LEMMA PassPlaces ==
  ASSUME Positive, Places,
         Motor!ServeLink \/ Motor!Ota \/ Motor!Console \/ Motor!Status \/ Motor!NoExtraCall
           \/ Motor!BikeChange \/ Motor!Tick
  PROVE  Places'
<1> USE DEF Positive, Places, Motor!xfer, Motor!asked
<1>1. CASE Motor!ServeLink \/ Motor!Ota \/ Motor!Console
  BY <1>1 DEF Motor!ServeLink, Motor!Ota, Motor!Console, Motor!OtaStart, Motor!OtaConfirm,
              Motor!OtaNext, Motor!RequestReflash, Motor!Request
<1>2. CASE Motor!Status \/ Motor!NoExtraCall \/ Motor!BikeChange
  BY <1>2 DEF Motor!Status, Motor!Failed, Motor!Finished, Motor!NoExtraCall, Motor!BikeChange
<1>3. CASE Motor!Tick
  BY <1>3 DEF Motor!Tick
<1>4. QED
  BY <1>1, <1>2, <1>3

LEMMA PassCounts ==
  ASSUME Positive, Counts, HoldIsShort,
         Motor!ServeLink \/ Motor!Ota \/ Motor!Console \/ Motor!Status \/ Motor!NoExtraCall
           \/ Motor!BikeChange \/ Motor!Tick
  PROVE  Counts' /\ HoldIsShort'
<1> USE DEF Positive, Counts, HoldIsShort, Motor!Ticks, Motor!NoTimer, Motor!LongestDl,
            Motor!timers, Motor!reboot
<1>1. CASE Motor!ServeLink \/ Motor!Ota \/ Motor!Console
  BY <1>1 DEF Motor!ServeLink, Motor!Ota, Motor!Console
<1>2. CASE Motor!Status \/ Motor!NoExtraCall \/ Motor!BikeChange
  BY <1>2 DEF Motor!Status, Motor!Failed, Motor!Finished, Motor!NoExtraCall, Motor!BikeChange
<1>3. CASE Motor!Tick
  BY <1>3 DEF Motor!Tick, Motor!Down, Motor!DlFires, Motor!OrphanFires
<1>4. QED
  BY <1>1, <1>2, <1>3, Zenon

LEMMA PassMarks ==
  ASSUME Marks,
         Motor!ServeLink \/ Motor!Ota \/ Motor!Console \/ Motor!Status \/ Motor!NoExtraCall
           \/ Motor!BikeChange \/ Motor!Tick
  PROVE  Marks'
<1> USE DEF Marks, Motor!timers, Motor!reboot, Motor!pins, Motor!link, Motor!asked
<1>1. CASE Motor!ServeLink
  BY <1>1 DEF Motor!ServeLink, Motor!FrameHeard
<1>2. CASE Motor!Ota \/ Motor!Console
  <2>1. prompt' \in BOOLEAN
    BY <1>2 DEF Motor!Ota, Motor!Console, Motor!OtaStart, Motor!OtaConfirm,
                Motor!OtaNext, Motor!RequestReflash
  <2>2. QED
    BY <1>2, <2>1 DEF Motor!Ota, Motor!Console
<1>3. CASE Motor!Status \/ Motor!NoExtraCall \/ Motor!BikeChange
  BY <1>3 DEF Motor!Status, Motor!Failed, Motor!Finished, Motor!NoExtraCall, Motor!BikeChange
<1>4. CASE Motor!Tick
  BY <1>4 DEF Motor!Tick
<1>5. QED
  BY <1>1, <1>2, <1>3, <1>4, Zenon

LEMMA ShapeKept == ASSUME Positive, Shape, [Motor!Next]_Motor!vars PROVE Shape'
<1>1. CASE Motor!Step
  BY <1>1, StepPlaces, StepCounts, StepMarks DEF Shape
<1>2. CASE UNCHANGED Motor!vars
  <2>1. Places' /\ Counts' /\ HoldIsShort' /\ Marks'
    BY <1>2 DEF Motor!vars, Motor!timers, Motor!xfer, Motor!pins, Motor!link, Motor!reboot,
                Motor!asked, Shape, Places, Counts, HoldIsShort, Marks
  <2>2. QED
    BY <2>1 DEF Shape
<1>3. CASE Motor!Next /\ ~Motor!Step
  BY <1>3, PassPlaces, PassCounts, PassMarks, Zenon DEF Shape, Motor!Next, Motor!Pass
<1>4. QED
  BY <1>1, <1>2, <1>3

LEMMA MotorShaped == ASSUME Motor!MotorUpdateAssumption PROVE Motor!Spec => []Shape
<1>1. Motor!Init => Shape
  BY ShapeBegins, TicksPositive
<1>2. Shape /\ [Motor!Next]_Motor!vars => Shape'
  BY ShapeKept, TicksPositive
<1>3. QED
  BY <1>1, <1>2, PTL DEF Motor!Spec

\* The control blocks keep their types: no timer is counted below zero, and
\* one that nobody owns any more ran for a hold at most (motor.c:472-660).
THEOREM MotorTyped == ASSUME Motor!MotorUpdateAssumption PROVE Motor!Spec => []Motor!TypeOK
<1>1. Shape => Motor!TypeOK
  BY Zenon DEF Shape, Places, Counts, Marks, Motor!TypeOK
<1>2. QED
  BY <1>1, MotorShaped, PTL

\* The flag that asks for a recovery is up only while the pump's count is
\* above its limit.
RaisedByBacklog == recovery => backlog

LEMMA BacklogStep ==
  ASSUME RaisedByBacklog, Marks, [Motor!Next]_Motor!vars PROVE RaisedByBacklog'
<1> USE DEF RaisedByBacklog, Motor!link
<1>1. CASE Motor!ServeLink
  BY <1>1 DEF Motor!ServeLink, Motor!FrameHeard, Marks
<1>2. CASE Motor!Step
  <2>1. UNCHANGED Motor!link
    BY <1>2, Zenon DEF Motor!Step, Motor!AfterReset, Motor!AwaitAnswer, Motor!Rest,
       Motor!ResetMotor, Motor!EnterBoot, Motor!Settle, Motor!Transfer, Motor!TransferAssert,
       Motor!ValidatePack, Motor!Succeed, Motor!Fail, Motor!Calls
  <2>2. QED
    BY <2>1
<1>3. CASE Motor!Next /\ ~Motor!Step /\ ~Motor!ServeLink
  <2>1. UNCHANGED Motor!link
    BY <1>3, Zenon DEF Motor!Next, Motor!Pass, Motor!Ota, Motor!Console, Motor!Status,
       Motor!NoExtraCall, Motor!BikeChange, Motor!Tick
  <2>2. QED
    BY <2>1
<1>4. CASE UNCHANGED Motor!vars
  BY <1>4 DEF Motor!vars
<1>5. QED
  BY <1>1, <1>2, <1>3, <1>4

LEMMA OnlyBacklogReflashes ==
  ASSUME RaisedByBacklog, [Motor!Next]_Motor!vars PROVE [Motor!ReflashedUnheard]_Motor!vars
<1> SUFFICES ASSUME mode = 1, mode' = 4, Motor!Next PROVE backlog
  BY DEF Motor!ReflashedUnheard
<1>1. Motor!AwaitAnswer
  <2>1. CASE Motor!Step
    BY <2>1 DEF Motor!Step, Motor!AfterReset, Motor!Rest, Motor!ResetMotor, Motor!EnterBoot,
       Motor!Settle, Motor!Transfer, Motor!TransferAssert, Motor!ValidatePack, Motor!Succeed,
       Motor!Fail
  <2>2. CASE Motor!Next /\ ~Motor!Step
    BY <2>2 DEF Motor!Next, Motor!Pass, Motor!NoExtraCall, Motor!ServeLink, Motor!Status,
       Motor!Ota, Motor!OtaStart, Motor!OtaConfirm, Motor!OtaNext, Motor!Console,
       Motor!RequestReflash, Motor!Request, Motor!BikeChange, Motor!Tick, Motor!asked
  <2>3. QED
    BY <2>1, <2>2
<1>2. recovery
  BY <1>1 DEF Motor!AwaitAnswer
<1>3. QED
  BY <1>2 DEF RaisedByBacklog

\* A motor that sent a frame after its reset is not reflashed: the flag that
\* asks for it went down with the count (motor.c:495-526, ssp.c:433-459).
THEOREM HeardNotReflashed ==
  ASSUME Motor!MotorUpdateAssumption PROVE Motor!Spec => Motor!AnsweredIsNotReflashed
<1>1. Motor!Init => RaisedByBacklog
  BY DEF Motor!Init, RaisedByBacklog
<1>2. RaisedByBacklog /\ Shape /\ [Motor!Next]_Motor!vars => RaisedByBacklog'
  BY BacklogStep DEF Shape
<1>3. RaisedByBacklog /\ [Motor!Next]_Motor!vars => [Motor!ReflashedUnheard]_Motor!vars
  BY OnlyBacklogReflashes
<1>4. QED
  BY <1>1, <1>2, <1>3, MotorShaped, PTL DEF Motor!Spec, Motor!AnsweredIsNotReflashed

\* The hold after a download, 200 ticks, is over before a recovery, which
\* waits for 1000 ticks twice, reflashes the motor.
ShortHold == CbTicks <= 2 * AuxTicks

HoldPasses ==
    /\ mode = 0 /\ dlCb => dl <= aux + AuxTicks
    /\ mode = 1 /\ dlCb => dl <= aux

\* While the link is served the boot pin is low, and a motor that is waited
\* for is not held.
Served ==
    /\ mode \in 0 .. 1 => aux >= 0 /\ ~reset
    /\ mode \in 0 .. 3 => ~boot

\* A download owns its timer, without the callback of the hold before it, and
\* the timer of a hold is lost to nobody.
Orderly ==
    /\ pc # "dead" /\ orphan = Motor!NoTimer
    /\ mode = 4 => ~(dl > 0 /\ dlCb)
    /\ mode \in 5 .. 12 \/ (mode = 13 /\ ~flash) => dl # Motor!NoTimer /\ ~dlCb
    /\ mode = 2 /\ dl = Motor!NoTimer => ~reset

Held == HoldPasses /\ Served /\ (prompt \/ Orderly)

LEMMA HeldBegins == Motor!Init => Held
  BY DEF Motor!Init, Held, HoldPasses, Served, Orderly, Motor!NoTimer

LEMMA HeldInRecovery ==
  ASSUME Positive, ShortHold, Shape, Held,
         Motor!AfterReset \/ Motor!AwaitAnswer \/ Motor!Rest \/ Motor!ResetMotor
  PROVE  Held'
<1> USE DEF Positive, ShortHold, Shape, Places, Counts, HoldIsShort, Held, Motor!Ticks,
            Motor!NoTimer, Motor!LongestDl, Motor!Calls, Motor!asked, Motor!timers, Motor!Idle,
            Motor!PinsAfterWait, Motor!pins, HoldPasses, Served, Orderly
<1>1. CASE Motor!AfterReset
  BY <1>1 DEF Motor!AfterReset
<1>2. CASE Motor!AwaitAnswer
  BY <1>2 DEF Motor!AwaitAnswer
<1>3. CASE Motor!Rest
  BY <1>3 DEF Motor!Rest
<1>4. CASE Motor!ResetMotor
  BY <1>4 DEF Motor!ResetMotor
<1>5. QED
  BY <1>1, <1>2, <1>3, <1>4

LEMMA HeldInDownload ==
  ASSUME Positive, Shape, Held,
         Motor!EnterBoot \/ Motor!Settle \/ Motor!Transfer \/ Motor!TransferAssert
           \/ Motor!ValidatePack \/ Motor!Succeed \/ Motor!Fail
  PROVE  Held'
<1> USE DEF Positive, Shape, Places, Counts, HoldIsShort, Held, Motor!Ticks,
            Motor!NoTimer, Motor!LongestDl, Motor!Calls, Motor!asked, Motor!timers, Motor!Idle,
            Motor!pins, HoldPasses, Served, Orderly, Motor!Start
<1>1. CASE Motor!EnterBoot
  BY <1>1 DEF Motor!EnterBoot
<1>2. CASE Motor!Settle
  <2>1. mode \in {5, 8} /\ mode' \in {mode, mode + 1} /\ Motor!Calls
    BY <1>2, Zenon DEF Motor!Settle
  <2>2. UNCHANGED <<dl, dlCb, orphan>>
    BY <1>2, Zenon DEF Motor!Settle, Motor!timers
  <2>3. mode' \in {5, 6, 8, 9} /\ pc' # "dead"
    BY <2>1
  <2>4. prompt' = prompt
    BY <2>1
  <2>5. QED
    BY <2>1, <2>2, <2>3, <2>4
<1>3. CASE Motor!Transfer
  BY <1>3 DEF Motor!Transfer, Motor!XferStart, Motor!XferRun, Motor!XferEnd
<1>4. CASE Motor!TransferAssert
  BY <1>4 DEF Motor!TransferAssert
<1>5. CASE Motor!ValidatePack
  BY <1>5 DEF Motor!ValidatePack
<1>6. CASE Motor!Succeed
  BY <1>6 DEF Motor!Succeed, Motor!Release
<1>7. CASE Motor!Fail
  BY <1>7 DEF Motor!Fail, Motor!Release
<1>8. QED
  BY <1>1, <1>2, <1>3, <1>4, <1>5, <1>6, <1>7

\* A request that is taken while the motor is held is noted.
LEMMA ReflashNoted ==
  Motor!RequestReflash =>
    /\ Motor!Request(4)
    /\ prompt \/ (mode = 2 /\ (dl # Motor!NoTimer \/ orphan # Motor!NoTimer)) => prompt'
  BY Zenon DEF Motor!RequestReflash

LEMMA HeldInPass ==
  ASSUME Positive, Shape, Held,
         Motor!ServeLink \/ Motor!Ota \/ Motor!Console \/ Motor!Status \/ Motor!NoExtraCall
           \/ Motor!BikeChange \/ Motor!Tick
  PROVE  Held'
<1> USE DEF Positive, Shape, Places, Counts, HoldIsShort, Held, Motor!Ticks,
            Motor!NoTimer, Motor!LongestDl, Motor!asked, Motor!timers,
            Motor!pins, HoldPasses, Served, Orderly
<1>1. CASE Motor!ServeLink
  BY <1>1 DEF Motor!ServeLink, Motor!Request
<1>2. CASE Motor!Ota
  <2>1. CASE Motor!OtaStart
    BY <1>2, <2>1, ReflashNoted DEF Motor!Ota, Motor!OtaStart, Motor!Request
  <2>2. CASE ~Motor!OtaStart
    <3>1. UNCHANGED <<mode, prompt, dl, dlCb, orphan, flash, aux, reset, boot>> /\ pc' = "battery"
      BY <1>2, <2>2 DEF Motor!Ota, Motor!OtaConfirm, Motor!OtaNext
    <3>2. QED
      BY <3>1
  <2>3. QED
    BY <2>1, <2>2
<1>3. CASE Motor!Console
  BY <1>3, ReflashNoted DEF Motor!Console, Motor!Request
<1>4. CASE Motor!Status
  BY <1>4 DEF Motor!Status, Motor!Failed, Motor!Finished
<1>5. CASE Motor!NoExtraCall \/ Motor!BikeChange
  BY <1>5 DEF Motor!NoExtraCall, Motor!BikeChange
<1>6. CASE Motor!Tick
  BY <1>6 DEF Motor!Tick, Motor!Down, Motor!DlFires, Motor!OrphanFires
<1>7. QED
  BY <1>1, <1>2, <1>3, <1>4, <1>5, <1>6

LEMMA HeldKept ==
  ASSUME Positive, ShortHold, Shape, Held, [Motor!Next]_Motor!vars PROVE Held'
<1>1. CASE UNCHANGED Motor!vars
  BY <1>1 DEF Motor!vars, Motor!timers, Motor!pins, Motor!asked, Held, HoldPasses, Served, Orderly
<1>2. CASE Motor!Next
  BY <1>2, HeldInRecovery, HeldInDownload, HeldInPass, Zenon DEF Motor!Next, Motor!Pass, Motor!Step
<1>3. QED
  BY <1>1, <1>2

LEMMA HeldIsSafe == Held /\ Shape => Motor!RestIsSafe /\ Motor!RecoveryHasTimer
  BY DEF Held, Orderly, Served, Shape, Places, Motor!RestIsSafe, Motor!RestingMotorRuns,
       Motor!TimerUnlessPrompt, Motor!DownloadHasTimer, Motor!RecoveryHasTimer, Motor!NoTimer

\* A motor at rest runs its application and a download has its timer, unless
\* a reflash was requested within the hold of the last one, and the two waits
\* of a recovery have theirs (motor.c:472-660).
THEOREM MotorRests ==
  ASSUME Motor!MotorUpdateAssumption, ShortHold
  PROVE  Motor!Spec => [](Motor!RestIsSafe /\ Motor!RecoveryHasTimer)
<1>1. Motor!Init => Held
  BY HeldBegins
<1>2. Held /\ Shape /\ [Motor!Next]_Motor!vars => Held'
  BY HeldKept, TicksPositive
<1>3. Held /\ Shape => Motor!RestIsSafe /\ Motor!RecoveryHasTimer
  BY HeldIsSafe
<1>4. QED
  BY <1>1, <1>2, <1>3, MotorShaped, PTL DEF Motor!Spec

-----------------------------------------------------------------------------
(* The update of the battery pack                                           *)

Capacities ==
    /\ Blocks \in Nat /\ Blocks > 0 /\ PageBlocks \in Nat /\ PageBlocks > 0
    /\ Depth \in Nat /\ Depth > 0 /\ MaxErrors \in Nat /\ Tries \in Nat /\ Tries > 0
    /\ Retries \in Nat /\ MaxEvents \in Nat

LEMMA CapacitiesHold == Battery!BatteryAssumption => Capacities
  BY DEF Battery!BatteryAssumption, Capacities

\* Only these write to the update area of the pack.
Writers == {"block", "again"}
Requests == {r \in Battery!Kinds \X (0 .. Blocks) : r[1] \in Writers => r[2] < Blocks}

(* What a sequence of requests keeps when more are queued and one is taken. *)

NoWriters(s) == \A i \in 1 .. Len(s) : s[i][1] \notin Writers
NoSum(s) == \A i \in 1 .. Len(s) : s[i][1] # "crc"
SumLast(s) == \A i, j \in 1 .. Len(s) : i < j /\ s[i][1] = "crc" => s[j][1] \notin Writers

LEMMA PushParts ==
  ASSUME Capacities, NEW s \in Seq(Requests), Len(s) <= Depth,
         NEW ks \in Seq(Battery!Kinds),
         \A i \in 1 .. Len(ks) : Battery!Item(ks[i]) \in Requests
  PROVE  /\ Battery!Push(ks, s) \in Seq(Requests)
         /\ Len(Battery!Push(ks, s)) <= Depth
         /\ Len(Battery!Push(ks, s)) - Len(s) \in 0 .. Len(ks)
         /\ \A i \in 1 .. Len(s) : Battery!Push(ks, s)[i] = s[i]
         /\ \A i \in 1 .. Len(Battery!Push(ks, s)) - Len(s) :
              Battery!Push(ks, s)[Len(s) + i] = Battery!Item(ks[i])
<1> DEFINE n == Battery!Fitting(ks, s)
           more == [i \in 1 .. n |-> Battery!Item(ks[i])]
<1>1. n \in 0 .. Len(ks) /\ Len(s) + n <= Depth
  BY DEF Capacities, Battery!Fitting
<1>2. more \in Seq(Requests) /\ Len(more) = n
  BY <1>1
<1>3. Battery!Push(ks, s) = s \o more
  BY DEF Battery!Push
<1> HIDE DEF n
<1>4. \A i \in 1 .. n : more[i] = Battery!Item(ks[i])
  BY <1>1
<1> HIDE DEF more
<1>5. Len(s \o more) = Len(s) + n /\ s \o more \in Seq(Requests)
  BY <1>1, <1>2
<1>6. \A i \in 1 .. Len(s) : (s \o more)[i] = s[i]
  BY <1>1, <1>2
<1>7. \A i \in 1 .. n : (s \o more)[Len(s) + i] = more[i]
  BY <1>1, <1>2
<1>8. Len(s \o more) - Len(s) = n
  BY <1>1, <1>5
<1>9. QED
  BY <1>1, <1>3, <1>4, <1>5, <1>6, <1>7, <1>8

\* A reader is queued with block 0.
LEMMA ReaderItem == ASSUME Capacities, NEW k \in Battery!Kinds, k \notin Writers
                    PROVE  Battery!Item(k) \in Requests /\ Battery!Item(k)[1] = k
  BY DEF Capacities, Battery!Item, Requests, Writers

LEMMA PushReaders ==
  ASSUME Capacities, NEW s \in Seq(Requests), Len(s) <= Depth,
         NEW ks \in Seq(Battery!Kinds \ Writers)
  PROVE  /\ Battery!Push(ks, s) \in Seq(Requests)
         /\ Len(Battery!Push(ks, s)) <= Depth
         /\ NoWriters(s) => NoWriters(Battery!Push(ks, s))
         /\ SumLast(s) => SumLast(Battery!Push(ks, s))
         /\ (NoSum(s) /\ \A i \in 1 .. Len(ks) : ks[i] # "crc") => NoSum(Battery!Push(ks, s))
<1> DEFINE p == Battery!Push(ks, s)
<1>1. \A i \in 1 .. Len(ks) : Battery!Item(ks[i]) \in Requests /\ Battery!Item(ks[i])[1] = ks[i]
  BY ReaderItem
<1>2. /\ p \in Seq(Requests) /\ Len(p) <= Depth /\ Len(p) - Len(s) \in 0 .. Len(ks)
      /\ \A i \in 1 .. Len(s) : p[i] = s[i]
      /\ \A i \in 1 .. Len(p) - Len(s) : p[Len(s) + i] = Battery!Item(ks[i])
  <2>1. ks \in Seq(Battery!Kinds)
    OBVIOUS
  <2>2. QED
    BY <1>1, <2>1, PushParts
<1> HIDE DEF p
<1>3. \A i \in 1 .. Len(p) : \/ i \in 1 .. Len(s) /\ p[i] = s[i]
                             \/ i - Len(s) \in 1 .. Len(ks) /\ p[i][1] = ks[i - Len(s)]
  <2> TAKE i \in 1 .. Len(p)
  <2>1. CASE i <= Len(s)
    BY <1>2, <2>1
  <2>2. CASE i > Len(s)
    <3>1. i - Len(s) \in 1 .. Len(p) - Len(s)
      BY <1>2, <2>2
    <3>2. p[Len(s) + (i - Len(s))] = Battery!Item(ks[i - Len(s)])
      BY <1>2, <3>1
    <3>3. Len(s) + (i - Len(s)) = i /\ i - Len(s) \in 1 .. Len(ks)
      BY <1>2, <3>1
    <3>4. QED
      BY <1>1, <3>2, <3>3
  <2>3. QED
    BY <1>2, <2>1, <2>2
<1>4. \A i \in 1 .. Len(ks) : ks[i] \notin Writers
  OBVIOUS
<1>5. NoWriters(s) => NoWriters(p)
  BY <1>3, <1>4 DEF NoWriters
<1>6. SumLast(s) => SumLast(p)
  <2> SUFFICES ASSUME SumLast(s), NEW i \in 1 .. Len(p), NEW j \in 1 .. Len(p), i < j,
                      p[i][1] = "crc", p[j][1] \in Writers
               PROVE  FALSE
    BY DEF SumLast
  <2>1. j \in 1 .. Len(s) /\ p[j] = s[j]
    BY <1>3, <1>4
  <2>2. i \in 1 .. Len(s) /\ p[i] = s[i]
    BY <1>2, <2>1
  <2>3. QED
    BY <2>1, <2>2 DEF SumLast
<1>7. (NoSum(s) /\ \A i \in 1 .. Len(ks) : ks[i] # "crc") => NoSum(p)
  BY <1>3 DEF NoSum
<1>8. QED
  BY <1>2, <1>5, <1>6, <1>7 DEF p

LEMMA TailParts ==
  ASSUME NEW s \in Seq(Requests), s # <<>>
  PROVE  /\ Tail(s) \in Seq(Requests) /\ Len(Tail(s)) = Len(s) - 1 /\ Head(s) \in Requests
         /\ NoWriters(s) => NoWriters(Tail(s)) /\ Head(s)[1] \notin Writers
         /\ NoSum(s) => NoSum(Tail(s)) /\ Head(s)[1] # "crc"
         /\ SumLast(s) => SumLast(Tail(s)) /\ (Head(s)[1] = "crc" => NoWriters(Tail(s)))
<1>1. Len(s) > 0 /\ Head(s) = s[1] /\ Len(Tail(s)) = Len(s) - 1
  OBVIOUS
<1>2. \A i \in 1 .. Len(Tail(s)) : Tail(s)[i] = s[i + 1] /\ i + 1 \in 1 .. Len(s)
  OBVIOUS
<1>3. NoWriters(s) => NoWriters(Tail(s)) /\ Head(s)[1] \notin Writers
  BY <1>1, <1>2 DEF NoWriters
<1>4. NoSum(s) => NoSum(Tail(s)) /\ Head(s)[1] # "crc"
  BY <1>1, <1>2 DEF NoSum
<1>5. SumLast(s) => SumLast(Tail(s)) /\ (Head(s)[1] = "crc" => NoWriters(Tail(s)))
  BY <1>1, <1>2 DEF SumLast, NoWriters
<1>6. QED
  BY <1>1, <1>3, <1>4, <1>5

(* The queue over the steps of the power machine, which asks for readings   *)
(* and switches the pack on and off.                                        *)

Readers == {"id", "on", "flow", "words", "soc", "fault", "off"}

\* What only such requests are added to keeps what it is free of.
KeepsQueue ==
    /\ q' \in Seq(Requests) /\ Len(q') <= Depth
    /\ NoWriters(q) => NoWriters(q')
    /\ NoSum(q) => NoSum(q')
    /\ SumLast(q) => SumLast(q')

LEMMA SameQueueKept ==
  ASSUME q \in Seq(Requests), Len(q) <= Depth, q' = q PROVE KeepsQueue
  BY DEF KeepsQueue

LEMMA ShortQueueKept ==
  ASSUME Capacities, q' = <<>> \/ q' = <<Battery!Item("id")>> PROVE KeepsQueue
<1>1. Battery!Item("id") \in Requests /\ Battery!Item("id")[1] = "id"
  BY ReaderItem DEF Battery!Kinds, Writers
<1>0. PICK x \in Requests : x = Battery!Item("id") /\ x[1] = "id"
  BY <1>1
<1>2. q' \in Seq(Requests) /\ Len(q') \in 0 .. 1 /\ (Len(q') = 1 => q'[1][1] = "id")
  <2>1. CASE q' = <<>>
    BY <2>1
  <2>2. CASE q' = <<x>>
    <3>1. <<x>> \in Seq(Requests) /\ Len(<<x>>) = 1 /\ <<x>>[1] = x
      OBVIOUS
    <3>2. QED
      BY <1>0, <2>2, <3>1
  <2>3. QED
    BY <1>0, <2>1, <2>2
<1>3. NoWriters(q') /\ NoSum(q') /\ SumLast(q')
  BY <1>2 DEF NoWriters, NoSum, SumLast, Writers
<1>4. QED
  <2>0. \A n \in 0 .. 1 : n <= Depth
    BY DEF Capacities
  <2>1. Len(q') <= Depth
    BY <1>2, <2>0, Zenon
  <2>2. QED
    BY <1>2, <1>3, <2>1 DEF KeepsQueue

LEMMA ReadersQueueKept ==
  ASSUME Capacities, q \in Seq(Requests), Len(q) <= Depth, NEW ks \in Seq(Readers),
         q' = Battery!Push(ks, q)
  PROVE  KeepsQueue
<1>1. ks \in Seq(Battery!Kinds \ Writers) /\ \A i \in 1 .. Len(ks) : ks[i] # "crc"
  BY DEF Readers, Battery!Kinds, Writers
<1>2. QED
  BY <1>1, PushReaders DEF KeepsQueue

LEMMA PowerQueue ==
  ASSUME Battery!PowerSteps \/ Battery!CheckVolt \/ Battery!Wait
  PROVE  \/ q' = q \/ q' = <<>> \/ q' = <<Battery!Item("id")>>
         \/ \E ks \in Seq(Readers) : q' = Battery!Push(ks, q)
<1> USE DEF Battery!Do
<1>1. /\ <<>> \in Seq(Readers) /\ <<"off">> \in Seq(Readers) /\ <<"on", "on", "flow">> \in Seq(Readers)
      /\ <<"words", "words">> \in Seq(Readers) /\ <<"fault">> \in Seq(Readers)
      /\ Battery!Polled \in Seq(Readers)
  <2>1. <<>> \in Seq(Readers)
    OBVIOUS
  <2>2. <<"off">> \in Seq(Readers) /\ <<"fault">> \in Seq(Readers) /\ <<"soc">> \in Seq(Readers)
    BY DEF Readers
  <2>3. <<"on", "on", "flow">> \in Seq(Readers)
    BY DEF Readers
  <2>4. <<"words", "words">> \in Seq(Readers)
    BY DEF Readers
  <2>5. QED
    BY <2>1, <2>2, <2>3, <2>4, Zenon DEF Battery!Polled
<1>2. CASE Battery!Ask \/ Battery!Detect \/ Battery!Absent \/ Battery!AwaitId
  BY <1>1, <1>2, Zenon DEF Battery!Ask, Battery!Detect, Battery!Absent, Battery!AwaitId
<1>3. CASE Battery!FallAsleep \/ Battery!SwitchOn \/ Battery!AwaitSwitch \/ Battery!AwaitFlow
  BY <1>1, <1>3, Zenon DEF Battery!FallAsleep, Battery!SwitchOn, Battery!AwaitSwitch,
     Battery!AwaitFlow
<1>4. CASE Battery!ResetPack \/ Battery!Restart \/ Battery!Steady \/ Battery!Retry
             \/ Battery!SwitchOff
  BY <1>1, <1>4, Zenon DEF Battery!ResetPack, Battery!Restart, Battery!Steady, Battery!Retry,
     Battery!SwitchOff
<1>5. CASE Battery!CheckVolt \/ Battery!Wait
  BY <1>1, <1>5, Zenon DEF Battery!CheckVolt, Battery!Wait
<1>6. QED
  BY <1>2, <1>3, <1>4, <1>5, Zenon DEF Battery!PowerSteps

LEMMA PowerKeepsQueue ==
  ASSUME Capacities, q \in Seq(Requests), Len(q) <= Depth, Battery!Power PROVE KeepsQueue
<1>1. Battery!PowerSteps \/ Battery!CheckVolt \/ Battery!Wait
  BY Zenon DEF Battery!Power
<1>2. \/ q' = q \/ q' = <<>> \/ q' = <<Battery!Item("id")>>
      \/ \E ks \in Seq(Readers) : q' = Battery!Push(ks, q)
  BY <1>1, PowerQueue
<1>3. QED
  BY <1>2, SameQueueKept, ShortQueueKept, ReadersQueueKept, Zenon

(* What is known of the pack when it is told to install its update.         *)

Bus == /\ q \in Seq(Requests) /\ Len(q) <= Depth
       /\ req \in Requests \cup ({"none", "junk"} \X (0 .. Blocks))

Transfer == /\ upd \in 0 .. 18 /\ off \in 0 .. Blocks /\ again \in 0 .. Retries
            /\ upd \in {7, 8} => off < Blocks
            /\ upd = 9 => off >= 1

\* While the bike rides nothing is updated, and only then the supply is
\* checked, which clears the answer to the update's check.
Riding == /\ ride = TRUE => upd = 0
          /\ ride = FALSE => sub # 9
          /\ ride \in BOOLEAN

\* A pass that saw an answer has nothing on the bus.
AnswerTaken == pc # "pump" /\ status = 1 => req = Battery!None

\* Nothing that writes is queued behind the question for the sum, and none
\* is left once it was answered.
AskedLast ==
    /\ upd = 10 => NoSum(q) /\ req[1] # "crc"
    /\ upd = 12 => SumLast(q) /\ (req[1] = "crc" => NoWriters(q))
    /\ upd = 12 /\ answer # -1 => NoWriters(q) /\ req[1] # "block"
    /\ upd \in {17, 18} => NoWriters(q) /\ req[1] # "block"

SumIsTrue == upd = 12 /\ answer = 0 => flash = Battery!Image

\* A step of the pump: it takes a request, waits, is answered or fails.
PumpMoves ==
  \/ /\ q # <<>> /\ q' = Tail(q) /\ req' \in Battery!Frame(Head(q)) /\ status' = 0
     /\ UNCHANGED <<answer, flash>>
  \/ status' = 0 /\ UNCHANGED <<q, req, answer, flash>>
  \/ /\ status' = 1 /\ req' = Battery!None /\ q' = q
     /\ answer' = IF req[1] = "crc" THEN Battery!Verify ELSE answer
     /\ req[1] # "block" => flash' = flash
  \/ /\ status' = 2 /\ req' = Battery!None /\ q' \in {q, <<>>} /\ answer' = answer
     /\ req[1] # "block" => flash' = flash

LEMMA PumpSteps ==
  Battery!Pump => UNCHANGED <<upd, off, again, sub, ride, res>> /\ PumpMoves
<1> SUFFICES ASSUME Battery!Pump
             PROVE  UNCHANGED <<upd, off, again, sub, ride, res>> /\ PumpMoves
  OBVIOUS
<1> USE DEF PumpMoves
<1>1. UNCHANGED <<upd, off, again, sub, ride, res>>
  BY Zenon DEF Battery!Pump
<1>2. CASE Battery!PumpIdle \/ Battery!PumpWait
  BY <1>1, <1>2 DEF Battery!PumpIdle, Battery!PumpWait, Battery!Count
<1>3. CASE Battery!PumpPop
  BY <1>1, <1>3 DEF Battery!PumpPop
<1>4. CASE Battery!PumpOk
  <2>1. req[1] # "block" => flash' = flash
    BY <1>4 DEF Battery!PumpOk, Battery!Serve
  <2>2. status' = 1 /\ req' = Battery!None /\ q' = q
    BY <1>4 DEF Battery!PumpOk, Battery!Count
  <2>3. answer' = IF req[1] = "crc" THEN Battery!Verify ELSE answer
    BY <1>4, Zenon DEF Battery!PumpOk, Battery!Unpack
  <2>4. QED
    BY <1>1, <2>1, <2>2, <2>3, Zenon
<1>5. CASE Battery!PumpFail
  <2>1. req[1] # "block" => flash' = flash
    BY <1>5 DEF Battery!PumpFail, Battery!Serve
  <2>2. status' = 2 /\ req' = Battery!None /\ answer' = answer
    BY <1>5, Zenon DEF Battery!PumpFail, Battery!Count
  <2>3. q' \in {q, <<>>}
    BY <1>5 DEF Battery!PumpFail, Battery!Count
  <2>4. QED
    BY <1>1, <2>1, <2>2, <2>3, Zenon
<1>6. QED
  BY <1>2, <1>3, <1>4, <1>5, Zenon DEF Battery!Pump

LEMMA PumpBus == ASSUME Capacities, Bus, Battery!Pump PROVE Bus'
<1> USE DEF Bus
<1>1. CASE q # <<>> /\ req' \in Battery!Frame(Head(q)) /\ q' = Tail(q)
  <2>1. q' \in Seq(Requests) /\ Len(q') <= Depth /\ Head(q) \in Requests
    BY <1>1, TailParts DEF Capacities
  <2>2. PICK h : h = Head(q)
    OBVIOUS
  <2>3. req' \in Battery!Frame(h) /\ h \in Requests
    BY <1>1, <2>1, <2>2
  <2>4. req' \in Requests \cup ({"none", "junk"} \X (0 .. Blocks))
    BY <2>3 DEF Battery!Frame, Requests, Writers, Battery!Kinds
  <2>5. QED
    BY <2>1, <2>4
<1>2. CASE UNCHANGED <<q, req>>
  BY <1>2
<1>3. CASE req' = Battery!None /\ q' \in {q, <<>>}
  <2>1. req' \in {"none", "junk"} \X (0 .. Blocks)
    BY <1>3 DEF Battery!None, Capacities
  <2>2. q' \in Seq(Requests) /\ Len(q') <= Depth
    <3>1. <<>> \in Seq(Requests) /\ Len(<<>>) <= Depth
      BY DEF Capacities
    <3>2. CASE q' = q
      BY <3>2, Zenon
    <3>3. CASE q' = <<>>
      BY <3>1, <3>3, Zenon
    <3>4. QED
      BY <1>3, <3>2, <3>3
  <2>3. QED
    BY <2>1, <2>2
<1>4. QED
  BY <1>1, <1>2, <1>3, PumpSteps DEF PumpMoves

\* A step of the update machine, as far as its requests and the answer go.
Requested(from, to, k) == upd = from /\ upd' = to /\ q' = Battery!Push(<<k>>, q)
Stays == /\ upd \in {0, 4, 5, 16, 18} /\ upd' \in {0, 5, 16, 18}
         /\ (upd = 0 <=> upd' = 0) /\ (upd' = 18 => upd = 18)
         /\ UNCHANGED <<q, off, again, answer>>
EraseAsked   == Requested(5, 7, "erase") /\ off' = 0 /\ UNCHANGED <<again, answer>>
EraseAwaited == upd = 7 /\ upd' \in {7, 8, 16} /\ UNCHANGED <<q, off, again, answer>>
BlockSent    == Requested(8, 9, "block") /\ off' = off + 1 /\ again' = Retries /\ answer' = answer
BlockAwaited == /\ upd = 9 /\ upd' \in {8, 9, 10, 16} /\ UNCHANGED <<off, answer>>
                /\ \/ UNCHANGED <<q, again>>
                   \/ again >= 1 /\ again' = again - 1 /\ q' = Battery!Push(<<"again">>, q)
                /\ upd' = 8 => off < Blocks
                /\ upd' = 10 => status = 1 /\ q = <<>>
SumAsked     == Requested(10, 12, "crc") /\ answer' = -1 /\ UNCHANGED <<off, again>>
SumAwaited   == /\ upd = 12 /\ upd' \in {12, 16, 17} /\ UNCHANGED <<q, off, again, answer>>
                /\ upd' = 17 => answer = 0
ResetAsked   == Requested(17, 18, "reset") /\ UNCHANGED <<off, again, answer>>

UpdateRequests == \/ Stays \/ EraseAsked \/ EraseAwaited \/ BlockSent \/ BlockAwaited
                  \/ SumAsked \/ SumAwaited \/ ResetAsked

LEMMA UpdateSteps ==
  Battery!Update =>
    UNCHANGED <<req, status, sub, ride, flash>> /\ pc' = "pump" /\ UpdateRequests
<1> SUFFICES ASSUME Battery!Update
             PROVE  UNCHANGED <<req, status, sub, ride, flash>> /\ pc' = "pump" /\ UpdateRequests
  OBVIOUS
<1>1. UNCHANGED <<req, status, sub, ride, flash>> /\ pc' = "pump"
  BY Zenon DEF Battery!Update, Battery!power, Battery!pack
<1> USE DEF Battery!Go, Battery!Failed, Battery!Expired
<1>2. (Battery!Validate \/ Battery!Ended \/ Battery!Resting) => Stays
  BY DEF Battery!Validate, Battery!Ended, Battery!Resting, Battery!updv, Stays
<1>3. Battery!Erase => EraseAsked
  BY Zenon DEF Battery!Erase, EraseAsked, Requested
<1>4. Battery!AwaitErase => EraseAwaited
  BY DEF Battery!AwaitErase, EraseAwaited
<1>5. Battery!SendBlock => BlockSent
  BY Zenon DEF Battery!SendBlock, BlockSent, Requested
<1>6. Battery!AwaitBlock => BlockAwaited
  BY DEF Battery!AwaitBlock, Battery!Acked, BlockAwaited
<1>7. Battery!AskSum => SumAsked
  BY Zenon DEF Battery!AskSum, SumAsked, Requested
<1>8. Battery!AwaitSum => SumAwaited
  BY DEF Battery!AwaitSum, SumAwaited
<1>9. Battery!ResetApp => ResetAsked
  BY Zenon DEF Battery!ResetApp, ResetAsked, Requested
<1>10. QED
  BY <1>1, <1>2, <1>3, <1>4, <1>5, <1>6, <1>7, <1>8, <1>9, Zenon
     DEF Battery!Update, UpdateRequests

\* Where a step of the update machine comes from.
LEMMA UpdateMoves ==
  ASSUME UpdateRequests
  PROVE  /\ upd' = 0 <=> upd = 0
         /\ \/ q' = q /\ upd \notin {10, 17}
            \/ upd = 5 /\ q' = Battery!Push(<<"erase">>, q)
            \/ upd = 8 /\ q' = Battery!Push(<<"block">>, q)
            \/ upd = 9 /\ q' = Battery!Push(<<"again">>, q)
            \/ upd = 10 /\ q' = Battery!Push(<<"crc">>, q)
            \/ upd = 17 /\ q' = Battery!Push(<<"reset">>, q)
         /\ upd' = 10 => upd = 9 /\ status = 1 /\ q = <<>>
         /\ upd' = 12 /\ upd = 10 => answer' = -1
         /\ upd' = 12 /\ upd # 10 => upd = 12 /\ UNCHANGED <<q, answer>>
         /\ upd' = 17 => upd = 12 /\ answer = 0 /\ q' = q
         /\ upd' = 18 => upd = 17 \/ (upd = 18 /\ q' = q)
  BY DEF UpdateRequests, Stays, EraseAsked, EraseAwaited, BlockSent, BlockAwaited,
     SumAsked, SumAwaited, ResetAsked, Requested

\* What the update machine asks for is a request of the pack's, and its
\* place in the image stays in range.
LEMMA UpdateTransfer == ASSUME Capacities, Transfer, Battery!Update PROVE Transfer'
<1>0. UpdateRequests
  BY UpdateSteps, Zenon
<1>1. CASE Stays \/ EraseAwaited \/ SumAwaited
  BY <1>1 DEF Transfer, Stays, EraseAwaited, SumAwaited
<1>2. CASE EraseAsked \/ SumAsked \/ ResetAsked
  BY <1>2 DEF Transfer, Capacities, EraseAsked, SumAsked, ResetAsked, Requested
<1>3. CASE BlockSent
  BY <1>3 DEF Transfer, Capacities, BlockSent, Requested
<1>4. CASE BlockAwaited
  BY <1>4 DEF Transfer, Capacities, BlockAwaited
<1>5. QED
  BY <1>0, <1>1, <1>2, <1>3, <1>4, Zenon DEF UpdateRequests

LEMMA OnePushed ==
  ASSUME Capacities, q \in Seq(Requests), Len(q) <= Depth,
         NEW k \in Battery!Kinds, Battery!Item(k) \in Requests, Battery!Item(k)[1] = k,
         q' = Battery!Push(<<k>>, q)
  PROVE  /\ q' \in Seq(Requests) /\ Len(q') <= Depth
         /\ k \notin Writers /\ NoWriters(q) => NoWriters(q')
         /\ k # "crc" /\ NoSum(q) => NoSum(q')
         /\ NoSum(q) => SumLast(q')
<1>1. <<k>> \in Seq(Battery!Kinds) /\ Len(<<k>>) = 1 /\ <<k>>[1] = k
  OBVIOUS
<1>2. PICK ks \in Seq(Battery!Kinds) : ks = <<k>> /\ Len(ks) = 1 /\ ks[1] = k
  BY <1>1
<1>3. /\ q' \in Seq(Requests) /\ Len(q') <= Depth /\ Len(q') - Len(q) \in 0 .. 1
      /\ \A i \in 1 .. Len(q) : q'[i] = q[i]
      /\ \A i \in 1 .. Len(q') - Len(q) : q'[Len(q) + i] = Battery!Item(ks[i])
  <2>1. (\A i \in 1 .. Len(ks) : Battery!Item(ks[i]) \in Requests) /\ q' = Battery!Push(ks, q)
    BY <1>2
  <2>2. LET p == Battery!Push(ks, q) IN
          /\ p \in Seq(Requests) /\ Len(p) <= Depth /\ Len(p) - Len(q) \in 0 .. Len(ks)
          /\ \A i \in 1 .. Len(q) : p[i] = q[i]
          /\ \A i \in 1 .. Len(p) - Len(q) : p[Len(q) + i] = Battery!Item(ks[i])
    BY <2>1, PushParts
  <2>3. QED
    BY <1>2, <2>1, <2>2
<1>4. \A i \in 1 .. Len(q') : \/ i \in 1 .. Len(q) /\ q'[i] = q[i]
                              \/ i = Len(q) + 1 /\ q'[i][1] = k
  <2> TAKE i \in 1 .. Len(q')
  <2>1. CASE i <= Len(q)
    BY <1>3, <2>1
  <2>2. CASE i > Len(q)
    <3>1. i = Len(q) + 1 /\ 1 \in 1 .. Len(q') - Len(q)
      BY <1>3, <2>2
    <3>2. QED
      BY <1>2, <1>3, <3>1
  <2>3. QED
    BY <1>3, <2>1, <2>2
<1>5. k \notin Writers /\ NoWriters(q) => NoWriters(q')
  BY <1>4 DEF NoWriters
<1>6. k # "crc" /\ NoSum(q) => NoSum(q')
  BY <1>4 DEF NoSum
<1>7. NoSum(q) => SumLast(q')
  BY <1>3, <1>4 DEF NoSum, SumLast
<1>8. QED
  BY <1>3, <1>5, <1>6, <1>7

LEMMA UpdateItems ==
  ASSUME Capacities, Transfer
  PROVE  /\ \A k \in {"erase", "crc", "reset"} : Battery!Item(k) \in Requests /\ Battery!Item(k)[1] = k
         /\ upd = 8 => Battery!Item("block") \in Requests /\ Battery!Item("block")[1] = "block"
         /\ upd = 9 => Battery!Item("again") \in Requests /\ Battery!Item("again")[1] = "again"
<1>1. \A k \in {"erase", "crc", "reset"} : k \in Battery!Kinds /\ k \notin Writers
  BY DEF Battery!Kinds, Writers
<1>2. upd = 8 => Battery!Item("block") \in Requests /\ Battery!Item("block")[1] = "block"
  <2> SUFFICES ASSUME upd = 8
               PROVE  Battery!Item("block") \in Requests /\ Battery!Item("block")[1] = "block"
    OBVIOUS
  <2>1. Battery!Item("block") = <<"block", off>> /\ off \in 0 .. Blocks /\ off < Blocks
    BY DEF Transfer, Battery!Item
  <2>2. QED
    BY <2>1 DEF Requests, Battery!Kinds
<1>3. upd = 9 => Battery!Item("again") \in Requests /\ Battery!Item("again")[1] = "again"
  <2> SUFFICES ASSUME upd = 9
               PROVE  Battery!Item("again") \in Requests /\ Battery!Item("again")[1] = "again"
    OBVIOUS
  <2>1. Battery!Item("again") = <<"again", off - 1>>
    BY DEF Battery!Item
  <2>2. off - 1 \in 0 .. Blocks /\ off - 1 < Blocks
    BY DEF Transfer, Capacities
  <2>3. QED
    BY <2>1, <2>2 DEF Requests, Battery!Kinds
<1>4. QED
  BY <1>1, <1>2, <1>3, ReaderItem

LEMMA UpdateQueue ==
  ASSUME Capacities, Bus, Transfer, Battery!Update
  PROVE  /\ Bus'
         /\ upd = 9 /\ NoSum(q) => NoSum(q')
         /\ upd = 10 /\ NoSum(q) => SumLast(q')
         /\ upd = 17 /\ NoWriters(q) => NoWriters(q')
<1>0. UNCHANGED req /\ UpdateRequests
  BY UpdateSteps, Zenon
<1>1. CASE q' = q /\ upd \notin {10, 17}
  BY <1>0, <1>1 DEF Bus, NoSum
<1>2. ASSUME NEW k \in Battery!Kinds, Battery!Item(k) \in Requests, Battery!Item(k)[1] = k,
             q' = Battery!Push(<<k>>, q),
             upd = 9 => k # "crc", upd = 17 => k \notin Writers
      PROVE  /\ Bus'
             /\ upd = 9 /\ NoSum(q) => NoSum(q')
             /\ upd = 10 /\ NoSum(q) => SumLast(q')
             /\ upd = 17 /\ NoWriters(q) => NoWriters(q')
  <2>1. q \in Seq(Requests) /\ Len(q) <= Depth
    BY DEF Bus
  <2>2. /\ q' \in Seq(Requests) /\ Len(q') <= Depth
        /\ k \notin Writers /\ NoWriters(q) => NoWriters(q')
        /\ k # "crc" /\ NoSum(q) => NoSum(q')
        /\ NoSum(q) => SumLast(q')
    BY <1>2, <2>1, OnePushed
  <2>3. QED
    BY <1>0, <1>2, <2>2, Zenon DEF Bus
<1>3. CASE \E k \in {"erase", "crc", "reset"} :
             q' = Battery!Push(<<k>>, q) /\ (upd = 9 => k # "crc")
  <2>1. {"erase", "crc", "reset"} \subseteq Battery!Kinds \ Writers
    BY DEF Battery!Kinds, Writers
  <2>2. QED
    BY <1>2, <1>3, <2>1, UpdateItems
<1>4. CASE upd = 8 /\ q' = Battery!Push(<<"block">>, q)
  <2>1. "block" \in Battery!Kinds /\ "block" # "crc"
    BY DEF Battery!Kinds
  <2>2. QED
    BY <1>2, <1>4, <2>1, UpdateItems
<1>5. CASE upd = 9 /\ q' = Battery!Push(<<"again">>, q)
  <2>1. "again" \in Battery!Kinds /\ "again" # "crc"
    BY DEF Battery!Kinds
  <2>2. QED
    BY <1>2, <1>5, <2>1, UpdateItems
<1>6. QED
  <2>1. \/ q' = q /\ upd \notin {10, 17}
        \/ upd = 5 /\ q' = Battery!Push(<<"erase">>, q)
        \/ upd = 8 /\ q' = Battery!Push(<<"block">>, q)
        \/ upd = 9 /\ q' = Battery!Push(<<"again">>, q)
        \/ upd = 10 /\ q' = Battery!Push(<<"crc">>, q)
        \/ upd = 17 /\ q' = Battery!Push(<<"reset">>, q)
    BY <1>0, UpdateMoves
  <2>2. QED
    BY <1>1, <1>3, <1>4, <1>5, <2>1

(* The parts of the invariant over the steps.                               *)

SumOrder == Riding /\ AnswerTaken /\ AskedLast /\ SumIsTrue /\ Battery!ResultIsTrue

LEMMA UpdateKeepsOrder ==
  ASSUME Capacities, Bus, Transfer, SumOrder, Battery!Update
  PROVE  SumOrder'
<1>0. UNCHANGED <<req, status, sub, ride, flash>> /\ pc' = "pump" /\ UpdateRequests
  BY UpdateSteps, Zenon
<1> USE DEF SumOrder
<1>1. Riding'
  BY <1>0, UpdateMoves DEF Riding
<1>2. AnswerTaken'
  BY <1>0 DEF AnswerTaken
<1>3. /\ upd = 9 /\ NoSum(q) => NoSum(q')
      /\ upd = 10 /\ NoSum(q) => SumLast(q')
      /\ upd = 17 /\ NoWriters(q) => NoWriters(q')
  BY UpdateQueue
<1>4. upd' = 10 => NoSum(q') /\ req'[1] # "crc"
  <2> SUFFICES ASSUME upd' = 10 PROVE NoSum(q') /\ req'[1] # "crc"
    OBVIOUS
  <2>1. upd = 9 /\ status = 1 /\ q = <<>>
    BY <1>0, UpdateMoves
  <2>2. NoSum(q)
    BY <2>1 DEF NoSum
  <2>3. req = Battery!None
    BY <2>1 DEF AnswerTaken, Battery!Update
  <2>4. QED
    BY <1>0, <1>3, <2>1, <2>2, <2>3 DEF Battery!None
<1>5. upd' = 12 /\ upd = 10 => /\ SumLast(q') /\ (req'[1] = "crc" => NoWriters(q')) /\ answer' = -1
  BY <1>0, <1>3, UpdateMoves DEF AskedLast
<1>6. upd' = 12 /\ upd # 10 => upd = 12 /\ UNCHANGED <<q, req, answer, flash>>
  BY <1>0, UpdateMoves
<1>7. upd' = 17 => upd = 12 /\ answer = 0 /\ UNCHANGED <<q, req, flash>>
  BY <1>0, UpdateMoves
<1>8. upd' = 18 => \/ upd = 17 /\ UNCHANGED <<req, flash>>
                   \/ upd = 18 /\ UNCHANGED <<q, req, flash>>
  BY <1>0, UpdateMoves
<1>9. AskedLast'
  <2>1. upd' = 12 => SumLast(q') /\ (req'[1] = "crc" => NoWriters(q'))
    BY <1>5, <1>6 DEF AskedLast
  <2>2. upd' = 12 /\ answer' # -1 => NoWriters(q') /\ req'[1] # "block"
    BY <1>5, <1>6 DEF AskedLast
  <2>3. upd' \in {17, 18} => NoWriters(q') /\ req'[1] # "block"
    BY <1>3, <1>7, <1>8 DEF AskedLast
  <2>4. QED
    BY <1>4, <2>1, <2>2, <2>3 DEF AskedLast
<1>10. SumIsTrue'
  BY <1>5, <1>6 DEF SumIsTrue, Battery!Image, Battery!Pages
<1>11. Battery!ResultIsTrue'
  BY <1>7, <1>8 DEF SumIsTrue, Battery!ResultIsTrue, Battery!Image, Battery!Pages
<1>12. QED
  BY <1>1, <1>2, <1>9, <1>10, <1>11

LEMMA PumpKeepsOrder ==
  ASSUME Capacities, Bus, SumOrder, Battery!Pump
  PROVE  SumOrder'
<1> USE DEF SumOrder
<1>0. UNCHANGED <<upd, sub, ride>>
  BY PumpSteps
<1>1. Riding'
  BY <1>0 DEF Riding
<1>2. AnswerTaken'
  BY PumpSteps DEF PumpMoves, AnswerTaken
<1>3. CASE /\ q # <<>> /\ req' \in Battery!Frame(Head(q)) /\ q' = Tail(q)
           /\ UNCHANGED <<answer, flash>>
  <2>1. /\ NoWriters(q) => NoWriters(q') /\ Head(q)[1] \notin Writers
        /\ NoSum(q) => NoSum(q') /\ Head(q)[1] # "crc"
        /\ SumLast(q) => SumLast(q') /\ (Head(q)[1] = "crc" => NoWriters(q'))
    BY <1>3, TailParts DEF Bus
  <2>2. /\ Head(q)[1] \notin Writers => req'[1] # "block"
        /\ Head(q)[1] # "crc" => req'[1] # "crc"
    <3>1. PICK h : h = Head(q)
      OBVIOUS
    <3>2. req' \in Battery!Frame(h)
      BY <1>3, <3>1
    <3>3. (h[1] \notin Writers => req'[1] # "block") /\ (h[1] # "crc" => req'[1] # "crc")
      BY <3>2 DEF Battery!Frame, Writers
    <3>4. QED
      BY <3>1, <3>3
  <2>3. AskedLast'
    BY <1>0, <1>3, <2>1, <2>2 DEF AskedLast
  <2>4. QED
    BY <1>0, <1>1, <1>2, <1>3, <2>3
       DEF SumIsTrue, Battery!ResultIsTrue, Battery!Image, Battery!Pages
<1>4. CASE UNCHANGED <<q, req, answer, flash>>
  BY <1>0, <1>1, <1>2, <1>4
     DEF AskedLast, SumIsTrue, Battery!ResultIsTrue, Battery!Image, Battery!Pages
<1>5. CASE /\ req' = Battery!None /\ q' \in {q, <<>>}
           /\ req[1] # "block" => flash' = flash
           /\ \/ answer' = answer
              \/ req[1] = "crc" /\ answer' = Battery!Verify /\ q' = q
  <2>1. req'[1] # "crc" /\ req'[1] # "block"
    BY <1>5 DEF Battery!None
  <2>2. /\ NoWriters(q) => NoWriters(q')
        /\ NoSum(q) => NoSum(q')
        /\ SumLast(q) => SumLast(q')
    BY <1>5 DEF NoWriters, NoSum, SumLast
  <2>3. upd = 12 /\ answer' # -1 => NoWriters(q') /\ flash' = flash
    BY <1>5, <2>2 DEF AskedLast
  <2>4. AskedLast'
    BY <1>0, <2>1, <2>2, <2>3 DEF AskedLast
  <2>5. SumIsTrue'
    <3>1. SUFFICES ASSUME upd = 12, answer' = 0 PROVE flash' = Battery!Image
      BY <1>0 DEF SumIsTrue, Battery!Image, Battery!Pages
    <3>2. flash' = flash
      BY <2>3, <3>1
    <3>3. CASE answer' = answer
      BY <3>1, <3>2, <3>3 DEF SumIsTrue
    <3>4. CASE answer' = Battery!Verify
      BY <3>1, <3>2, <3>4 DEF Battery!Verify
    <3>5. QED
      BY <1>5, <3>3, <3>4
  <2>6. upd \in {17, 18} => flash' = flash
    BY <1>5 DEF AskedLast
  <2>7. Battery!ResultIsTrue'
    BY <1>0, <2>6 DEF Battery!ResultIsTrue, Battery!Image, Battery!Pages
  <2>8. QED
    BY <1>1, <1>2, <2>4, <2>5, <2>7
<1>6. QED
  <2>1. \/ /\ q # <<>> /\ req' \in Battery!Frame(Head(q)) /\ q' = Tail(q)
           /\ UNCHANGED <<answer, flash>>
        \/ UNCHANGED <<q, req, answer, flash>>
        \/ /\ req' = Battery!None /\ q' \in {q, <<>>}
           /\ req[1] # "block" => flash' = flash
           /\ answer' = answer \/ (req[1] = "crc" /\ answer' = Battery!Verify /\ q' = q)
    <3>1. answer' = (IF req[1] = "crc" THEN Battery!Verify ELSE answer)
             => answer' = answer \/ (req[1] = "crc" /\ answer' = Battery!Verify)
      <4>1. CASE req[1] = "crc"
        BY <4>1, Zenon
      <4>2. CASE req[1] # "crc"
        BY <4>2, Zenon
      <4>3. QED
        BY <4>1, <4>2
    <3>2. q' = q => q' \in {q, <<>>}
      OBVIOUS
    <3>3. QED
      BY <3>1, <3>2, PumpSteps, Zenon DEF PumpMoves
  <2>2. QED
    BY <1>3, <1>4, <1>5, <2>1

\* Only the check of the supply touches the answer, and no update waits then.
LEMMA PowerSteps ==
  Battery!Power => /\ UNCHANGED <<req, status, upd, off, again, ride, flash>> /\ pc = "power"
                   /\ answer' = answer \/ sub = 9
                   /\ sub' = 9 => sub = 9
<1> SUFFICES ASSUME Battery!Power
             PROVE  /\ UNCHANGED <<req, status, upd, off, again, ride, flash>> /\ pc = "power"
                    /\ answer' = answer \/ sub = 9
                    /\ sub' = 9 => sub = 9
  OBVIOUS
<1>1. UNCHANGED <<req, status, upd, off, again, ride, flash>> /\ pc = "power"
  BY Zenon DEF Battery!Power, Battery!pack
<1>2. answer' = answer \/ sub = 9
  BY Zenon DEF Battery!Power, Battery!CheckVolt
<1>3. sub' = 9 => sub = 9
  <2> USE DEF Battery!Do
  <2>1. CASE Battery!Ask \/ Battery!Detect \/ Battery!Absent \/ Battery!AwaitId \/ Battery!Steady
             \/ Battery!ResetPack \/ Battery!Restart
    BY <2>1 DEF Battery!Ask, Battery!Detect, Battery!Absent, Battery!AwaitId, Battery!Steady,
       Battery!ResetPack, Battery!Restart
  <2>2. CASE Battery!FallAsleep \/ Battery!SwitchOn \/ Battery!AwaitSwitch \/ Battery!AwaitFlow
             \/ Battery!Retry \/ Battery!SwitchOff
    BY <2>2 DEF Battery!FallAsleep, Battery!SwitchOn, Battery!AwaitSwitch, Battery!AwaitFlow,
       Battery!Retry, Battery!SwitchOff
  <2>3. CASE Battery!CheckVolt \/ Battery!Wait
    BY <2>3 DEF Battery!CheckVolt, Battery!Wait, Battery!power
  <2>4. QED
    BY <2>1, <2>2, <2>3, Zenon DEF Battery!Power, Battery!PowerSteps
<1>4. QED
  BY <1>1, <1>2, <1>3

LEMMA PowerKeeps ==
  ASSUME Capacities, Bus, Transfer, SumOrder, Battery!Power
  PROVE  Bus' /\ Transfer' /\ SumOrder'
<1> USE DEF SumOrder
<1>0. /\ UNCHANGED <<req, status, upd, off, again, ride, flash>> /\ pc = "power"
      /\ answer' = answer \/ sub = 9
      /\ sub' = 9 => sub = 9
  BY PowerSteps
<1>1. KeepsQueue
  BY PowerKeepsQueue DEF Bus
<1>2. Bus' /\ Transfer'
  BY <1>0, <1>1 DEF Bus, Transfer, KeepsQueue
<1>3. Riding'
  BY <1>0 DEF Riding
<1>4. AnswerTaken'
  BY <1>0 DEF AnswerTaken
<1>5. upd # 0 => answer' = answer
  BY <1>0 DEF Riding
<1>6. AskedLast'
  BY <1>0, <1>1, <1>5 DEF AskedLast, KeepsQueue
<1>7. SumIsTrue' /\ Battery!ResultIsTrue'
  BY <1>0, <1>5 DEF SumIsTrue, Battery!ResultIsTrue, Battery!Image, Battery!Pages
<1>8. QED
  BY <1>2, <1>3, <1>4, <1>6, <1>7

\* The rest of the bike arms an update or checks the supply, never both.
LEMMA OutsideKeeps ==
  ASSUME Capacities, Bus, Transfer, SumOrder,
         \/ Battery!Arm \/ Battery!Advance \/ Battery!SetPending \/ Battery!OnDetect
         \/ Battery!Hush \/ Battery!Plug \/ \E t \in Battery!Timers : Battery!Expire(t)
         \/ UNCHANGED Battery!vars
  PROVE  Bus' /\ Transfer' /\ SumOrder'
<1>0. /\ UNCHANGED <<pc, q, req, status, off, again, answer, flash, ride>>
      /\ \/ UNCHANGED <<upd, sub>>
         \/ ride # TRUE /\ upd' = 4 /\ sub' = sub
         \/ upd' = upd /\ sub' \in {1, 9, 15} /\ (sub' = 9 => ride = TRUE)
  <2> USE DEF Battery!Outside, Battery!link, Battery!power, Battery!updv, Battery!pack
  <2>1. CASE Battery!Arm
    BY <2>1 DEF Battery!Arm
  <2>2. CASE Battery!Advance \/ Battery!SetPending \/ Battery!OnDetect
    <3>1. UNCHANGED <<pc, q, req, status, off, again, answer, flash, ride, upd>>
      BY <2>2, Zenon DEF Battery!Advance, Battery!SetPending, Battery!OnDetect
    <3>2. sub' \in {1, 9, 15}
      BY <2>2 DEF Battery!Advance, Battery!SetPending, Battery!OnDetect
    <3>3. sub' = 9 => ride = TRUE
      BY <2>2 DEF Battery!Advance, Battery!SetPending, Battery!OnDetect
    <3>4. QED
      BY <3>1, <3>2, <3>3, Zenon
  <2>3. CASE Battery!Hush \/ Battery!Plug
    BY <2>3 DEF Battery!Hush, Battery!Plug
  <2>4. CASE \E t \in Battery!Timers : Battery!Expire(t)
    BY <2>4, Zenon DEF Battery!Expire
  <2>5. CASE UNCHANGED Battery!vars
    BY <2>5, Zenon DEF Battery!vars
  <2>6. QED
    BY <2>1, <2>2, <2>3, <2>4, <2>5
<1>1. Bus'
  BY <1>0 DEF Bus
<1>2. Transfer' /\ Riding' /\ AnswerTaken'
  <2>0. UNCHANGED <<off, again>> /\ (upd' = upd \/ upd' = 4)
    BY <1>0, Zenon
  <2>1. Transfer'
    BY <2>0 DEF Transfer
  <2>2. Riding'
    BY <1>0 DEF SumOrder, Riding
  <2>3. AnswerTaken'
    BY <1>0 DEF SumOrder, AnswerTaken
  <2>4. QED
    BY <2>1, <2>2, <2>3
<1>3. upd' = upd \/ upd' = 4
  BY <1>0
<1>4. AskedLast'
  BY <1>0, <1>3 DEF SumOrder, AskedLast
<1>5. SumIsTrue' /\ Battery!ResultIsTrue'
  BY <1>0, <1>3 DEF SumOrder, SumIsTrue, Battery!ResultIsTrue, Battery!Image, Battery!Pages
<1>6. QED
  BY <1>1, <1>2, <1>4, <1>5 DEF SumOrder

Ordered == Bus /\ Transfer /\ SumOrder

LEMMA OrderedBegins == ASSUME Capacities PROVE Battery!Init => Ordered
<1> USE DEF Ordered
<1> SUFFICES ASSUME Battery!Init PROVE Ordered
  OBVIOUS
<1>1. q = <<>> /\ req = Battery!None /\ status = 0 /\ off = 0 /\ again = 0
      /\ \/ ride = TRUE /\ sub = 1 /\ upd = 0
         \/ ride = FALSE /\ sub = 12 /\ upd = 4
  BY Zenon DEF Battery!Init
<1>2. Bus
  <2>1. <<>> \in Seq(Requests) /\ Len(<<>>) <= Depth
    BY DEF Capacities
  <2>2. req \in {"none", "junk"} \X (0 .. Blocks)
    BY <1>1 DEF Battery!None, Capacities
  <2>3. QED
    BY <1>1, <2>1, <2>2 DEF Bus
<1>3. Transfer /\ Riding /\ AnswerTaken
  <2>1. Transfer
    BY <1>1 DEF Transfer, Capacities
  <2>0. 1 # 9 /\ 12 # 9
    OBVIOUS
  <2>2. Riding
    BY <1>1, <2>0, Zenon DEF Riding
  <2>3. AnswerTaken
    BY <1>1 DEF AnswerTaken
  <2>4. QED
    BY <2>1, <2>2, <2>3
<1>4. AskedLast /\ SumIsTrue /\ Battery!ResultIsTrue
  BY <1>1 DEF AskedLast, SumIsTrue, Battery!ResultIsTrue
<1>5. QED
  BY <1>2, <1>3, <1>4 DEF SumOrder

LEMMA OrderedKept == ASSUME Capacities, Ordered, [Battery!Next]_Battery!vars PROVE Ordered'
<1> USE DEF Ordered
<1> SUFFICES ASSUME Ordered, [Battery!Next]_Battery!vars PROVE Ordered'
  OBVIOUS
<1>1. CASE Battery!Pump
  <2>1. Bus' /\ SumOrder'
    BY <1>1, PumpBus, PumpKeepsOrder
  <2>2. Transfer'
    BY <1>1, PumpSteps DEF Transfer
  <2>3. QED
    BY <2>1, <2>2
<1>2. CASE Battery!Power
  BY <1>2, PowerKeeps
<1>3. CASE Battery!Update
  BY <1>3, UpdateQueue, UpdateTransfer, UpdateKeepsOrder
<1>4. CASE \/ Battery!Arm \/ Battery!Advance \/ Battery!SetPending \/ Battery!OnDetect
           \/ Battery!Hush \/ Battery!Plug \/ \E t \in Battery!Timers : Battery!Expire(t)
           \/ UNCHANGED Battery!vars
  BY <1>4, OutsideKeeps
<1>5. QED
  BY <1>1, <1>2, <1>3, <1>4, Zenon DEF Battery!Next

\* The pack is told to install its update only when what it holds is the
\* image, for any number of blocks, retries and queued requests: whatever was
\* lost, sent twice or taken for an acknowledgement, its sum was asked last.
THEOREM ResultTrue ==
  ASSUME Battery!BatteryAssumption PROVE Battery!Spec => []Battery!ResultIsTrue
<1>1. Capacities
  BY CapacitiesHold
<1>2. Battery!Init => Ordered
  BY <1>1, OrderedBegins
<1>3. Ordered /\ [Battery!Next]_Battery!vars => Ordered'
  BY <1>1, OrderedKept
<1>4. Ordered => Battery!ResultIsTrue
  BY DEF Ordered, SumOrder
<1>5. QED
  BY <1>2, <1>3, <1>4, PTL DEF Battery!Spec

-----------------------------------------------------------------------------
(* The modem at rest                                                        *)

\* Before it is powered, also again after a failed start, the modem is off.
StartsQuiet ==
    sm \in {Gsm!Idle, Gsm!PowerOn} /\ sub = 0 => ~rails /\ held = {} /\ at \in {0, 255}

\* Once its last command is over nothing runs, and the supply is cut last.
OffQuiet ==
    sm = Gsm!PowerOff /\ sub \in {2, 3} => at \in {0, 255} /\ (sub = 3 => held = {})

Quiet == StartsQuiet /\ OffQuiet

LEMMA QuietBegins == Gsm!Init => Quiet
  BY DEF Gsm!Init, Quiet, StartsQuiet, OffQuiet, Gsm!PowerOff

\* A step that ends begins the next one at its start.
LEMMA WalkEnds == ASSUME NEW r \in {0, 1, 3}, Gsm!Walk(r)
                  PROVE  sub' \in {0, 1} /\ (r # 1 => sub' = 0)
  BY DEF Gsm!Walk

LEMMA StepsQuiet ==
  ASSUME Quiet,
         Gsm!InitSms \/ Gsm!ReadSms \/ Gsm!WriteSms \/ Gsm!Activate \/ Gsm!Deactivate
           \/ Gsm!Send(Gsm!Ping, "ping") \/ Gsm!Send(Gsm!Message, "message")
           \/ Gsm!Send(Gsm!Location, "location")
  PROVE  Quiet'
<1> USE DEF Gsm!PowerOn, Gsm!SmsInit, Gsm!SmsRead, Gsm!SmsWrite, Gsm!CtxActivate, Gsm!Idle,
            Gsm!CtxDeactivate, Gsm!Ping, Gsm!Message, Gsm!Location, Gsm!PowerOff
<1>1. PICK r \in {0, 1, 3} : Gsm!Walk(r) /\ (r = 1 => sm' = sm)
        /\ sm \in 2 .. 9 /\ sm' \in 2 .. 10
  BY DEF Gsm!InitSms, Gsm!ReadSms, Gsm!WriteSms, Gsm!Activate, Gsm!Deactivate, Gsm!Send, Gsm!Rest,
         Gsm!Report
<1>2. sub' \in {0, 1} /\ (r # 1 => sub' = 0)
  BY <1>1, WalkEnds
<1>3. QED
  BY <1>1, <1>2 DEF Quiet, StartsQuiet, OffQuiet

LEMMA PowerOnQuiet ==
  ASSUME Quiet, Gsm!NoSim \/ Gsm!Supply \/ Gsm!PowerKey \/ Gsm!Handshake
  PROVE  Quiet'
<1> USE DEF Quiet, StartsQuiet, OffQuiet, Gsm!PowerOn, Gsm!PowerOff, Gsm!Idle
<1>1. CASE Gsm!NoSim
  BY <1>1 DEF Gsm!NoSim, Gsm!step, Gsm!engine
<1>2. CASE Gsm!Supply \/ Gsm!PowerKey
  BY <1>2 DEF Gsm!Supply, Gsm!PowerKey
<1>3. CASE Gsm!Handshake
  <2>1. \/ sm' = sm /\ sub' = 3
        \/ sm' \in {Gsm!PowerOff, Gsm!SmsInit} /\ sub' = 0
    BY <1>3 DEF Gsm!Handshake, Gsm!HandshakeFails, Gsm!Registered
  <2>2. sm = Gsm!PowerOn
    BY <1>3 DEF Gsm!Handshake
  <2>3. QED
    BY <2>1, <2>2 DEF Gsm!SmsInit
<1>4. QED
  BY <1>1, <1>2, <1>3

LEMMA PowerOffQuiet ==
  ASSUME Quiet, Gsm!ShutDown \/ Gsm!Discharge \/ Gsm!Cut
  PROVE  Quiet'
<1> USE DEF Quiet, StartsQuiet, OffQuiet, Gsm!PowerOn, Gsm!PowerOff, Gsm!Idle, Gsm!Off
<1>1. CASE Gsm!ShutDown
  <2>1. CASE sub = 0
    BY <1>1, <2>1 DEF Gsm!ShutDown
  <2>2. CASE sub # 0
    <3>1. PICK got \in {0, 1, 3} : Gsm!Exec(got) /\ sub' = IF got = 1 THEN 1 ELSE 2
      BY <1>1, <2>2 DEF Gsm!ShutDown
    <3>2. got # 1 => at' \in {0, 255}
      BY <3>1 DEF Gsm!Exec, Gsm!GivesUp, Gsm!Answered, Gsm!Overlong
    <3>3. QED
      BY <1>1, <3>1, <3>2 DEF Gsm!ShutDown
  <2>3. QED
    BY <2>1, <2>2
<1>2. CASE Gsm!Discharge
  BY <1>2 DEF Gsm!Discharge, Gsm!engine
<1>3. CASE Gsm!Cut
  BY <1>3 DEF Gsm!Cut, Gsm!engine
<1>4. QED
  BY <1>1, <1>2, <1>3

LEMMA QuietKept == ASSUME Quiet, [Gsm!Next]_Gsm!vars PROVE Quiet'
<1>1. CASE Gsm!Step
  BY <1>1, StepsQuiet, PowerOnQuiet, PowerOffQuiet, Zenon DEF Gsm!Step
<1>2. CASE Gsm!InfoStep \/ Gsm!Request \/ Gsm!SimChange
  <2>1. UNCHANGED <<Gsm!step, Gsm!engine, held, rails>>
    BY <1>2, Zenon DEF Gsm!InfoStep, Gsm!Request, Gsm!SimChange
  <2>2. sm' = sm \/ (sm = Gsm!Idle /\ sm' = Gsm!PowerOn)
    BY <1>2, Zenon DEF Gsm!InfoStep, Gsm!Latch, Gsm!Request, Gsm!SimChange
  <2>3. QED
    BY <2>1, <2>2 DEF Gsm!step, Gsm!engine, Quiet, StartsQuiet, OffQuiet, Gsm!PowerOn,
       Gsm!PowerOff, Gsm!Idle
<1>3. CASE UNCHANGED Gsm!vars
  BY <1>3 DEF Gsm!vars, Gsm!step, Gsm!engine, Quiet, StartsQuiet, OffQuiet
<1>4. QED
  BY <1>1, <1>2, <1>3, Zenon DEF Gsm!Next

LEMMA QuietIsSafe == Quiet => Gsm!RestIsSafe
  BY DEF Quiet, StartsQuiet, Gsm!RestIsSafe

\* A modem that came to rest by itself is without supply and holds no timer,
\* and its engine is ready, whatever the module answered (modem.c:670,
\* modem.c:1595).
THEOREM ModemRests == Gsm!Spec => []Gsm!RestIsSafe
<1>1. Gsm!Init => Quiet
  BY QuietBegins
<1>2. Quiet /\ [Gsm!Next]_Gsm!vars => Quiet'
  BY QuietKept
<1>3. Quiet => Gsm!RestIsSafe
  BY QuietIsSafe
<1>4. QED
  BY <1>1, <1>2, <1>3, PTL DEF Gsm!Spec

(* The types                                                                *)

Command == [kind : {"delay", "list", "reply"}, left : 0 .. Retries]
Engine == at \in {0, 1, 2, 255} /\ cmd \in Command /\ events \in 0 .. MaxEvents

\* Where a step is in its list of commands.
InList ==
    /\ sm \in 0 .. 10 /\ sub \in 0 .. 3 /\ idx \in 0 .. 15 /\ count \in {4, 13, 14}
    /\ sm \in 2 .. 9 => sub \in {0, 1} /\ (sub = 1 => idx < 9)
    /\ sm \in {0, 1} => (sub \in {1, 2} => idx = 0) /\ (sub = 3 => idx < count)
    /\ sm = 10 /\ sub = 1 => idx = 0

\* Nothing is read before the messages were counted.
Read == /\ used \in 0 .. Messages /\ read \in 0 .. used
        /\ sm = Gsm!SmsInit => read = 0

Rails == retried \in BOOLEAN /\ flags \subseteq Gsm!Sends /\ held \subseteq Gsm!Slots
         /\ info \in 0 .. 3

GsmShape == Engine /\ InList /\ Read /\ Rails

LEMMA ExecTyped ==
  ASSUME Gsm!ModemAssumption, MaxEvents \in Nat, Engine, NEW r, Gsm!Exec(r)
  PROVE  Engine'
<1> USE DEF Gsm!ModemAssumption, Engine, Command
<1>1. CASE Gsm!Begin
  BY <1>1 DEF Gsm!Begin, Gsm!Kinds
<1>2. CASE Gsm!Transmit
  BY <1>2 DEF Gsm!Transmit
<1>3. CASE Gsm!Again \/ Gsm!Lost
  BY <1>3 DEF Gsm!Again, Gsm!Lost, Gsm!engine
<1>4. CASE Gsm!GivesUp(r) \/ Gsm!Answered(r) \/ Gsm!Overlong(r)
  BY <1>4 DEF Gsm!GivesUp, Gsm!Answered, Gsm!Overlong
<1>5. QED
  BY <1>1, <1>2, <1>3, <1>4, Zenon DEF Gsm!Exec

LEMMA WalkTyped ==
  ASSUME Gsm!ModemAssumption, MaxEvents \in Nat, Engine, NEW r, Gsm!Walk(r)
  PROVE  Engine'
<1>1. CASE sub = 0
  BY <1>1 DEF Gsm!Walk, Gsm!engine, Engine
<1>2. CASE sub # 0
  BY <1>2, ExecTyped, Zenon DEF Gsm!Walk
<1>3. QED
  BY <1>1, <1>2

LEMMA WalkInList ==
  ASSUME InList, NEW r \in {0, 1, 3}, Gsm!Walk(r), sm \in 2 .. 9
  PROVE  sub' \in {0, 1} /\ (r # 1 => sub' = 0) /\ idx' \in 0 .. 15 /\ (sub' = 1 => idx' < 9)
<1>1. Gsm!Commands(sm) \in 1 .. 9
  BY DEF Gsm!Commands, Gsm!PowerOn, Gsm!SmsInit, Gsm!SmsWrite, Gsm!Location, Gsm!CtxDeactivate
<1>2. CASE sub = 0
  BY <1>2 DEF Gsm!Walk
<1>3. CASE sub # 0
  BY <1>1, <1>3 DEF Gsm!Walk, InList
<1>4. QED
  BY <1>2, <1>3

LEMMA ListStepsShape ==
  ASSUME Gsm!ModemAssumption, MaxEvents \in Nat, GsmShape,
         Gsm!InitSms \/ Gsm!ReadSms \/ Gsm!WriteSms \/ Gsm!Activate \/ Gsm!Deactivate
           \/ Gsm!Send(Gsm!Ping, "ping") \/ Gsm!Send(Gsm!Message, "message")
           \/ Gsm!Send(Gsm!Location, "location")
  PROVE  GsmShape'
<1> USE DEF Gsm!PowerOn, Gsm!SmsInit, Gsm!SmsRead, Gsm!SmsWrite, Gsm!CtxActivate, Gsm!Idle,
            Gsm!CtxDeactivate, Gsm!Ping, Gsm!Message, Gsm!Location, Gsm!PowerOff
<1>1. PICK r \in {0, 1, 3} : Gsm!Walk(r) /\ (r = 1 => sm' = sm)
        /\ sm \in 2 .. 9 /\ sm' \in 2 .. 10
  BY DEF Gsm!InitSms, Gsm!ReadSms, Gsm!WriteSms, Gsm!Activate, Gsm!Deactivate, Gsm!Send, Gsm!Rest,
         Gsm!Report
<1>2. Engine'
  BY <1>1, WalkTyped DEF GsmShape
<1>3. count' = count
  BY DEF Gsm!InitSms, Gsm!ReadSms, Gsm!WriteSms, Gsm!Activate, Gsm!Deactivate, Gsm!Send, Gsm!Rest
<1>4. InList'
  BY <1>1, <1>3, WalkInList DEF GsmShape, InList
<1>5. Read'
  <2>1. CASE Gsm!InitSms
    BY <2>1 DEF Gsm!ModemAssumption, Gsm!InitSms, Gsm!Rest, Gsm!Report, GsmShape, Read
  <2>2. CASE Gsm!ReadSms
    BY <2>2 DEF Gsm!ModemAssumption, Gsm!ReadSms, Gsm!Rest, GsmShape, Read
  <2>3. CASE ~Gsm!InitSms /\ ~Gsm!ReadSms
    BY <2>3 DEF Gsm!WriteSms, Gsm!Activate, Gsm!Deactivate, Gsm!Send, Gsm!Rest, Gsm!Report,
       Gsm!sms, GsmShape, Read
  <2>4. QED
    BY <2>1, <2>2, <2>3
<1>6. Rails'
  <2>1. UNCHANGED <<retried, held, info>>
    BY DEF Gsm!InitSms, Gsm!ReadSms, Gsm!WriteSms, Gsm!Activate, Gsm!Deactivate, Gsm!Send, Gsm!Rest
  <2>2. flags' \in Gsm!Interpreted \cup {flags} \cup {flags \ {f} : f \in Gsm!Sends}
    BY DEF Gsm!InitSms, Gsm!ReadSms, Gsm!WriteSms, Gsm!Activate, Gsm!Deactivate, Gsm!Send,
       Gsm!Sent, Gsm!Sends
  <2>3. flags' \subseteq Gsm!Sends
    BY <2>2 DEF GsmShape, Rails, Gsm!Interpreted, Gsm!Sends
  <2>4. QED
    BY <2>1, <2>3 DEF GsmShape, Rails
<1>7. QED
  BY <1>2, <1>4, <1>5, <1>6 DEF GsmShape

LEMMA PowerOnShape ==
  ASSUME Gsm!ModemAssumption, MaxEvents \in Nat, GsmShape,
         Gsm!NoSim \/ Gsm!Supply \/ Gsm!PowerKey
  PROVE  GsmShape'
<1> USE DEF Gsm!PowerOn, Gsm!SmsInit, Gsm!Idle, GsmShape
<1>1. Engine'
  BY DEF Gsm!NoSim, Gsm!Supply, Gsm!PowerKey, Gsm!engine, Gsm!env, Engine
<1>2. InList'
  BY DEF Gsm!NoSim, Gsm!Supply, Gsm!PowerKey, Gsm!step, InList
<1>3. Read'
  BY DEF Gsm!NoSim, Gsm!Supply, Gsm!PowerKey, Gsm!sms, Read
<1>4. Rails'
  BY DEF Gsm!NoSim, Gsm!Supply, Gsm!PowerKey, Gsm!asked, Gsm!Slots, Rails
<1>5. QED
  BY <1>1, <1>2, <1>3, <1>4

LEMMA HandshakeShape ==
  ASSUME Gsm!ModemAssumption, MaxEvents \in Nat, GsmShape, Gsm!Handshake
  PROVE  GsmShape'
<1> USE DEF Gsm!PowerOn, Gsm!SmsInit, Gsm!Idle, Gsm!PowerOff, GsmShape
<1>1. PICK got \in 0 .. 3 :
           /\ Gsm!Exec(got) /\ count' \in Gsm!Model
           /\ LET next == idx + (IF got = 0 THEN 1 ELSE 2)
                  ends == got = 3 \/ (got # 1 /\ next >= count')
              IN  /\ idx' = IF got \in {0, 2} THEN next ELSE idx
                  /\ sub' = IF ends THEN 0 ELSE 3
                  /\ IF ~ends THEN UNCHANGED <<sm, retried, flags, Gsm!sms, pend>>
                     ELSE IF got = 3 THEN Gsm!HandshakeFails ELSE Gsm!Registered
  BY Zenon DEF Gsm!Handshake
<1>2. Engine'
  BY <1>1, ExecTyped
<1>3. sm = 1 /\ sub = 3 /\ UNCHANGED <<held, info>>
  BY DEF Gsm!Handshake
<1>4. \/ sm' = sm /\ UNCHANGED <<retried, flags, Gsm!sms>>
      \/ Gsm!HandshakeFails /\ sub' = 0
      \/ Gsm!Registered /\ sub' = 0
  BY <1>1
<1>5. InList'
  <2>1. count' \in {4, 13, 14} /\ (count' = count \/ count = 4)
    BY <1>1 DEF Gsm!Model, InList
  <2>2. sm' \in {1, 2, 10} /\ (sm' # 1 => sub' = 0)
    BY <1>3, <1>4 DEF Gsm!HandshakeFails, Gsm!Registered
  <2>3. idx \in 0 .. 13 /\ idx < count
    BY <1>3 DEF InList
  <2>4. idx' \in 0 .. 15 /\ sub' \in {0, 3} /\ (sub' = 3 => idx' < count')
    BY <1>1, <2>1, <2>3
  <2>5. QED
    BY <2>1, <2>2, <2>4 DEF InList
<1>6. Read'
  <2>1. \/ used' = 0 /\ read' = 0
        \/ used' = used /\ read' = read /\ sm' \in {1, 10}
    BY <1>3, <1>4, Zenon DEF Gsm!HandshakeFails, Gsm!Registered, Gsm!sms
  <2>2. QED
    BY <2>1 DEF Read, Gsm!ModemAssumption
<1>7. Rails'
  <2>1. retried' \in {retried, TRUE}
    BY <1>4 DEF Gsm!HandshakeFails, Gsm!Registered
  <2>2. flags' = flags \/ flags' \in Gsm!ToSend
    BY <1>4 DEF Gsm!HandshakeFails, Gsm!Registered
  <2>3. flags' \subseteq Gsm!Sends
    BY <2>2 DEF Gsm!ToSend, Gsm!Sends, Rails
  <2>4. retried' \in BOOLEAN
    BY <2>1, Zenon DEF Rails
  <2>5. QED
    BY <1>3, <2>3, <2>4 DEF Rails
<1>8. QED
  BY <1>2, <1>5, <1>6, <1>7

LEMMA PowerOffShape ==
  ASSUME Gsm!ModemAssumption, MaxEvents \in Nat, GsmShape,
         Gsm!ShutDown \/ Gsm!Discharge \/ Gsm!Cut
  PROVE  GsmShape'
<1> USE DEF Gsm!PowerOn, Gsm!SmsInit, Gsm!Idle, Gsm!PowerOff, GsmShape, Gsm!Off
<1>1. CASE Gsm!ShutDown
  <2>1. Engine'
    <3>1. CASE sub = 0
      BY <1>1, <3>1 DEF Gsm!ShutDown, Gsm!engine, Engine
    <3>2. CASE sub # 0
      BY <1>1, <3>2, ExecTyped, Zenon DEF Gsm!ShutDown
    <3>3. QED
      BY <3>1, <3>2
  <2>2. InList'
    BY <1>1 DEF Gsm!ShutDown, InList
  <2>3. Read' /\ Rails'
    BY <1>1 DEF Gsm!ShutDown, Gsm!sms, Gsm!asked, Read, Rails
  <2>4. QED
    BY <2>1, <2>2, <2>3
<1>2. CASE Gsm!Discharge \/ Gsm!Cut
  <2>1. Engine'
    BY <1>2 DEF Gsm!Discharge, Gsm!Cut, Gsm!engine, Engine
  <2>2. InList'
    BY <1>2 DEF Gsm!Discharge, Gsm!Cut, InList
  <2>3. Read'
    BY <1>2 DEF Gsm!Discharge, Gsm!Cut, Gsm!sms, Read
  <2>4. Rails'
    BY <1>2 DEF Gsm!Discharge, Gsm!Cut, Gsm!asked, Gsm!Slots, Rails
  <2>5. QED
    BY <2>1, <2>2, <2>3, <2>4
<1>3. QED
  BY <1>1, <1>2

LEMMA GsmShapeKept ==
  ASSUME Gsm!ModemAssumption, MaxEvents \in Nat, GsmShape, [Gsm!Next]_Gsm!vars
  PROVE  GsmShape'
<1>1. CASE Gsm!Step
  BY <1>1, ListStepsShape, PowerOnShape, HandshakeShape, PowerOffShape, Zenon DEF Gsm!Step
<1>2. CASE Gsm!InfoStep \/ Gsm!Request \/ Gsm!SimChange
  <2>1. UNCHANGED <<retried, flags, sub, idx, at, cmd, held, count, used, read>>
    BY <1>2, Zenon DEF Gsm!InfoStep, Gsm!Request, Gsm!SimChange, Gsm!step, Gsm!engine, Gsm!sms
  <2>2. info' \in {info, 0, 2, 3} /\ (sm' = sm \/ (sm = 0 /\ sm' = 1))
    BY <1>2, Zenon DEF Gsm!InfoStep, Gsm!Latch, Gsm!Request, Gsm!SimChange, Gsm!asked, Gsm!Idle,
       Gsm!PowerOn
  <2>3. events' = events \/ (events < MaxEvents /\ events' = events + 1)
    BY <1>2, Zenon DEF Gsm!InfoStep, Gsm!Request, Gsm!SimChange, Gsm!env
  <2>4. Engine'
    BY <2>1, <2>3 DEF GsmShape, Engine
  <2>5. InList' /\ Read' /\ Rails'
    BY <2>1, <2>2 DEF GsmShape, InList, Read, Rails, Gsm!SmsInit
  <2>6. QED
    BY <2>4, <2>5 DEF GsmShape
<1>3. CASE UNCHANGED Gsm!vars
  BY <1>3 DEF Gsm!vars, Gsm!step, Gsm!engine, Gsm!sms, Gsm!asked, Gsm!env, GsmShape, Engine,
              InList, Read, Rails
<1>4. QED
  BY <1>1, <1>2, <1>3, Zenon DEF Gsm!Next

LEMMA GsmShapeBegins == ASSUME Gsm!ModemAssumption PROVE Gsm!Init => GsmShape
<1> SUFFICES ASSUME Gsm!Init PROVE GsmShape
  OBVIOUS
<1>1. Engine
  BY DEF Gsm!Init, Gsm!ModemAssumption, Engine, Command
<1>2. InList /\ Read
  BY DEF Gsm!Init, Gsm!ModemAssumption, InList, Read
<1>3. Rails
  <2>1. retried \in BOOLEAN
    BY Zenon DEF Gsm!Init
  <2>2. flags = {} /\ held = {} /\ info \in {0, 1}
    BY Zenon DEF Gsm!Init
  <2>3. QED
    BY <2>1, <2>2 DEF Rails
<1>4. QED
  BY <1>1, <1>2, <1>3 DEF GsmShape

\* The states of the modem, its engine and its steps keep their types, the
\* places in the lists of commands included (modem.c:212-592, modem.c:1594-1850).
THEOREM ModemTyped == ASSUME Gsm!ModemAssumption PROVE Gsm!Spec => []Gsm!TypeOK
<1>1. MaxEvents \in Nat
  BY DEF Gsm!ModemAssumption
<1>2. Gsm!Init => GsmShape
  BY GsmShapeBegins
<1>3. GsmShape /\ [Gsm!Next]_Gsm!vars => GsmShape'
  BY <1>1, GsmShapeKept
<1>4. GsmShape => Gsm!TypeOK
  BY DEF GsmShape, Engine, Command, InList, Read, Rails, Gsm!TypeOK
<1>5. QED
  BY <1>2, <1>3, <1>4, PTL DEF Gsm!Spec

-----------------------------------------------------------------------------
(* The loop that drives the gear motor                                      *)

Fields == {"fc", "saved", "task", "cur", "target", "want", "dir", "way", "servo", "e", "d",
           "reached", "latch", "run", "tries", "seen", "busy", "saving", "since", "fresh"}
Memory(s) == s = [x \in Fields |-> s[x]]

\* What decides whether some branch of the loop drives the motor.
SameBranch(s, t) ==
    /\ t.servo = s.servo /\ t.fc = s.fc /\ t.e = s.e /\ t.d = s.d
    /\ t.want = s.want /\ t.target = s.target

WatchedIn(s) == \/ s.servo # 2 \/ s.fc = 2
                \/ s.fc = 1 /\ (s.e \/ s.d \/ s.want # s.target)
                \/ s.fc \in {4, 5} /\ s.d
Stopped(s) == s.way = "brake"

LEMMA ResetKeeps ==
  ASSUME NEW s, Memory(s)
  PROVE  /\ Memory(Gear!Reset(s)) /\ Gear!Reset(s).way = s.way /\ Gear!Reset(s).servo = s.servo
         /\ Gear!Reset(s).fc = s.fc /\ Gear!Reset(s).fresh = s.fresh /\ Gear!Reset(s).busy = s.busy
         /\ ~Gear!Reset(s).e /\ ~Gear!Reset(s).d
  BY DEF Memory, Fields, Gear!Reset

LEMMA BridgeKeeps ==
  ASSUME NEW s, NEW w, Memory(s)
  PROVE  /\ Memory(Gear!Bridge(s, w)) /\ SameBranch(s, Gear!Bridge(s, w))
         /\ Gear!Bridge(s, w).way = w
         /\ Gear!Bridge(s, w).task = s.task /\ Gear!Bridge(s, w).fresh = s.fresh
<1>1. Memory(Gear!Encode(s)) /\ SameBranch(s, Gear!Encode(s))
        /\ Gear!Encode(s).task = s.task /\ Gear!Encode(s).fresh = s.fresh
  <2> DEFINE c == (s.cur + Gear!Step(s.dir)) % 256
             l == IF s.dir = "none" THEN s.latch ELSE FALSE
             t == [s EXCEPT !.seen = Gear!Line, !.cur = c, !.latch = l]
  <2>1. Gear!Encode(s) = IF Gear!Line = s.seen THEN s ELSE t
    BY DEF Gear!Encode
  <2> HIDE DEF c, l
  <2>2. Memory(t)
    BY DEF Memory, Fields
  <2>3. SameBranch(s, t) /\ t.task = s.task /\ t.fresh = s.fresh
    BY DEF Memory, Fields, SameBranch
  <2>4. SameBranch(s, s)
    BY DEF SameBranch
  <2> HIDE DEF t
  <2>5. QED
    BY <2>1, <2>2, <2>3, <2>4
<1>2. ASSUME NEW t, Memory(t)
      PROVE  /\ Memory(Gear!Stalled(t)) /\ SameBranch(t, Gear!Stalled(t))
             /\ Gear!Stalled(t).way = t.way
             /\ Gear!Stalled(t).task = t.task /\ Gear!Stalled(t).fresh = t.fresh
  BY <1>2 DEF Memory, Fields, SameBranch, Gear!Stalled
<1>3. CASE w = "brake"
  BY <1>3 DEF Memory, Fields, SameBranch, Gear!Bridge
<1>4. CASE w # "brake"
  <2> DEFINE t == [Gear!Encode(s) EXCEPT !.way = w]
  <2>1. Memory(t) /\ SameBranch(Gear!Encode(s), t) /\ t.way = w
          /\ t.task = s.task /\ t.fresh = s.fresh
    BY <1>1 DEF Memory, Fields, SameBranch
  <2>2. Gear!Bridge(s, w) = Gear!Stalled(t)
    BY <1>4 DEF Gear!Bridge
  <2> HIDE DEF t
  <2>3. QED
    BY <1>1, <1>2, <2>1, <2>2 DEF SameBranch
<1>5. QED
  BY <1>3, <1>4

\* motor_drive_step stops the motor or leaves the branches alone.
LEMMA DriveKeeps ==
  ASSUME NEW s, Memory(s)
  PROVE  LET t == Gear!DriveStep(s)
         IN  /\ Memory(t) /\ t.fresh = s.fresh
             /\ \/ SameBranch(s, t)
                \/ t.way = "brake" /\ ~t.e /\ ~t.d /\ t.servo = 2
<1> DEFINE t == CASE s.servo = 0 -> Gear!Bridge(s, "down")
                  [] s.servo = 1 -> Gear!Bridge(s, "up")
                  [] OTHER -> s
<1>1. Memory(t) /\ SameBranch(s, t) /\ t.fresh = s.fresh
  <2>1. CASE s.servo = 0
    BY <2>1, BridgeKeeps
  <2>2. CASE s.servo = 1
    BY <2>2, BridgeKeeps
  <2>3. CASE s.servo \notin {0, 1}
    BY <2>3 DEF SameBranch
  <2>4. QED
    BY <2>1, <2>2, <2>3
<1>2. Gear!DriveStep(s) = IF ~t.reached \/ t.servo = 2 THEN t
        ELSE Gear!Reset([Gear!Bridge(t, "brake") EXCEPT !.servo = 2,
                                                        !.fc = IF t.task = 2 THEN 1 ELSE @])
  BY DEF Gear!DriveStep
<1> HIDE DEF t
<1> DEFINE u == [Gear!Bridge(t, "brake") EXCEPT !.servo = 2, !.fc = IF t.task = 2 THEN 1 ELSE @]
<1>3. Memory(u) /\ u.way = "brake" /\ u.servo = 2 /\ u.fresh = s.fresh
  <2> DEFINE b == Gear!Bridge(t, "brake")
             f == IF t.task = 2 THEN 1 ELSE b.fc
             v == [b EXCEPT !.servo = 2, !.fc = f]
  <2>1. Memory(b) /\ b.way = "brake" /\ b.fresh = s.fresh
    BY <1>1, BridgeKeeps
  <2>2. u = v
    OBVIOUS
  <2> HIDE DEF b, f, u
  <2>3. Memory(v) /\ v.way = "brake" /\ v.servo = 2 /\ v.fresh = s.fresh
    BY <2>1 DEF Memory, Fields
  <2>4. QED
    BY <2>2, <2>3
<1>4. Gear!DriveStep(s) = IF ~t.reached \/ t.servo = 2 THEN t ELSE Gear!Reset(u)
  BY <1>2
<1> HIDE DEF u
<1>5. CASE ~t.reached \/ t.servo = 2
  BY <1>1, <1>4, <1>5
<1>6. CASE ~(~t.reached \/ t.servo = 2)
  <2>1. Gear!DriveStep(s) = Gear!Reset(u)
    BY <1>4, <1>6
  <2>2. QED
    BY <1>3, <2>1, ResetKeeps
<1>7. QED
  BY <1>5, <1>6

\* sched_task_beta, sched_task_alpha and the way a new gear is taken up
\* leave servo alone.
LEMMA BetaKeeps ==
  ASSUME NEW s, Memory(s)
  PROVE  LET t == Gear!Beta(s)
         IN  /\ Memory(t) /\ t.servo = s.servo
             /\ Stopped(t) \/ SameBranch(s, t)
<1>1. CASE Gear!Low
  <2>1. Gear!Beta(s) = Gear!Homed(s)
    BY <1>1 DEF Gear!Beta
  <2> DEFINE b == Gear!Bridge(s, "brake")
  <2>2. Memory(b) /\ b.way = "brake" /\ b.servo = s.servo
    BY BridgeKeeps DEF SameBranch
  <2>3. Gear!Homed(s) = [b EXCEPT !.cur = 1, !.dir = "none", !.task = 0, !.tries = 0,
                                  !.want = 1, !.fc = 2, !.busy = TRUE]
    BY DEF Gear!Homed
  <2> HIDE DEF b
  <2>4. Memory(Gear!Homed(s)) /\ Gear!Homed(s).way = "brake" /\ Gear!Homed(s).servo = b.servo
    BY <2>2, <2>3 DEF Memory, Fields
  <2>5. QED
    BY <2>1, <2>2, <2>4 DEF Stopped
<1>2. CASE ~Gear!Low
  <2> DEFINE d == [s EXCEPT !.dir = "down"]
             t == Gear!Bridge(d, "down")
  <2>1. Memory(d) /\ SameBranch(s, d)
    BY DEF Memory, Fields, SameBranch
  <2>2. Gear!Beta(s) = IF t.reached THEN Gear!GivesUp(t) ELSE t
    BY <1>2 DEF Gear!Beta
  <2> HIDE DEF d
  <2>3. Memory(t) /\ SameBranch(s, t)
    BY <2>1, BridgeKeeps DEF SameBranch
  <2> HIDE DEF t
  <2>4. Memory(Gear!GivesUp(t)) /\ Gear!GivesUp(t).servo = t.servo /\ Stopped(Gear!GivesUp(t))
    <3> DEFINE b == Gear!Bridge(t, "brake")
    <3>1. Memory(b) /\ b.servo = t.servo /\ b.way = "brake"
      BY <2>3, BridgeKeeps DEF SameBranch
    <3>2. PICK k, n, f : Gear!GivesUp(t) = Gear!Reset([b EXCEPT !.task = k, !.tries = n, !.fc = f])
      BY DEF Gear!GivesUp
    <3> HIDE DEF b
    <3> DEFINE c == [b EXCEPT !.task = k, !.tries = n, !.fc = f]
    <3>3. Memory(c) /\ c.servo = b.servo /\ c.way = b.way
      BY <3>1 DEF Memory, Fields
    <3> HIDE DEF c
    <3>4. QED
      BY <3>1, <3>2, <3>3, ResetKeeps DEF Stopped, c
  <2>5. QED
    BY <2>2, <2>3, <2>4 DEF SameBranch
<1>3. QED
  BY <1>1, <1>2

LEMMA AlphaKeeps ==
  ASSUME NEW s, Memory(s)
  PROVE  LET t == Gear!Alpha(s)
         IN  /\ Memory(t) /\ t.servo = s.servo
             /\ Stopped(t) \/ SameBranch(s, t) \/ (t.fc = 1 /\ t.d)
             /\ t.way = s.way \/ s.fc = 2
<1>1. CASE s.fc = 1
  <2> DEFINE t == [s EXCEPT !.want = 1, !.d = TRUE, !.e = FALSE]
  <2>1. Gear!Alpha(s) = t
    BY <1>1 DEF Gear!Alpha
  <2>2. Memory(t) /\ t.servo = s.servo /\ t.fc = 1 /\ t.d /\ t.way = s.way
    BY <1>1 DEF Memory, Fields
  <2> HIDE DEF t
  <2>3. QED
    BY <2>1, <2>2
<1>2. CASE s.fc \notin {1, 2}
  BY <1>2 DEF Gear!Alpha, SameBranch
<1>3. CASE s.fc = 2
  <2> DEFINE b == IF s.dir = "none" THEN s ELSE Gear!Bridge(s, s.dir)
             t == IF s.target = s.cur THEN s ELSE Gear!Missed(b)
  <2>1. Memory(b) /\ SameBranch(s, b)
    BY BridgeKeeps DEF SameBranch
  <2>2. Gear!Alpha(s) = IF t.target = t.cur THEN Gear!Settled(t) ELSE t
    BY <1>3 DEF Gear!Alpha
  <2> HIDE DEF b
  <2>3. Memory(Gear!Missed(b)) /\ Gear!Missed(b).servo = b.servo
          /\ (Stopped(Gear!Missed(b)) \/ Gear!Missed(b) = b)
    <3>1. CASE ~b.reached
      BY <2>1, <3>1 DEF Gear!Missed
    <3>2. CASE b.reached
      <4> DEFINE a == Gear!Bridge(b, "brake")
                 k == IF Gear!Low THEN 6 ELSE 3
                 c == IF Gear!Low THEN 1 ELSE a.cur
                 n == a.tries + 1
                 f == IF b.tries >= 4 THEN 6 ELSE a.fc
      <4>1. Gear!Missed(b) = Gear!Reset([a EXCEPT !.task = k, !.cur = c, !.tries = n, !.fc = f])
        BY <3>2 DEF Gear!Missed
      <4> HIDE DEF k, c, n, f
      <4>2. Memory(a) /\ a.servo = b.servo /\ a.way = "brake"
        BY <2>1, BridgeKeeps DEF SameBranch
      <4> HIDE DEF a
      <4> DEFINE u == [a EXCEPT !.task = k, !.cur = c, !.tries = n, !.fc = f]
      <4>3. Memory(u) /\ u.servo = a.servo /\ u.way = a.way
        BY <4>2 DEF Memory, Fields
      <4> HIDE DEF u
      <4>4. QED
        BY <4>1, <4>2, <4>3, ResetKeeps DEF Stopped, u
    <3>3. QED
      BY <3>1, <3>2
  <2>4. Memory(t) /\ t.servo = s.servo /\ (Stopped(t) \/ SameBranch(s, t))
    BY <2>1, <2>3 DEF SameBranch
  <2> HIDE DEF t
  <2>5. Memory(Gear!Settled(t)) /\ Gear!Settled(t).servo = t.servo /\ Stopped(Gear!Settled(t))
    <3> DEFINE a == Gear!Bridge(t, "brake")
               u == [a EXCEPT !.task = 0, !.tries = 0]
    <3>1. Memory(a) /\ a.servo = t.servo /\ a.way = "brake"
      BY <2>4, BridgeKeeps DEF SameBranch
    <3> HIDE DEF a
    <3>2. Memory(u) /\ u.servo = a.servo /\ u.way = a.way
      BY <3>1 DEF Memory, Fields
    <3> HIDE DEF u
    <3>3. Gear!Settled(t) = Gear!Reset(u)
      BY DEF Gear!Settled, u, a
    <3>4. QED
      BY <3>1, <3>2, <3>3, ResetKeeps DEF Stopped
  <2>6. QED
    BY <1>3, <2>2, <2>4, <2>5
<1>4. QED
  BY <1>1, <1>2, <1>3

LEMMA ExtraKeeps ==
  ASSUME NEW s, Memory(s)
  PROVE  LET t == Gear!Extra(s)
         IN  /\ Memory(t) /\ t.servo = s.servo /\ t.fc = s.fc /\ t.way = s.way /\ t.d = s.d
             /\ t.want = s.want /\ t.target = s.target
<1> DEFINE A == [s EXCEPT !.dir = "up", !.e = TRUE]
           B == [s EXCEPT !.dir = "down", !.e = TRUE]
           C == [s EXCEPT !.dir = "none"]
           Same(t) == /\ Memory(t) /\ t.servo = s.servo /\ t.fc = s.fc /\ t.way = s.way
                      /\ t.d = s.d /\ t.want = s.want /\ t.target = s.target
<1>1. Same(A) /\ Same(B) /\ Same(C)
  BY DEF Memory, Fields
<1>2. Gear!Extra(s) \in {A, B, C}
  BY DEF Gear!Extra
<1> HIDE DEF A, B, C
<1>3. QED
  BY <1>1, <1>2

LEMMA FollowKeeps ==
  ASSUME NEW s, Memory(s)
  PROVE  LET t == Gear!Follow(s)
         IN  /\ Memory(t) /\ t.servo = s.servo /\ t.fc = s.fc /\ t.way = s.way /\ t.d = s.d
             /\ (s.e => t.e)
             /\ s.want # s.target /\ s.task # 0 => t.e
             /\ t = s \/ t.e
<1>1. CASE s.want = s.target \/ s.task = 0
  BY <1>1 DEF Gear!Follow
<1>2. CASE ~(s.want = s.target \/ s.task = 0)
  <2> DEFINE u == [s EXCEPT !.target = s.want]
             x == Gear!Extra(u)
             t == [x EXCEPT !.e = TRUE]
  <2>1. Memory(u) /\ u.servo = s.servo /\ u.fc = s.fc /\ u.way = s.way /\ u.d = s.d
    BY DEF Memory, Fields
  <2>2. Gear!Follow(s) = t
    BY <1>2 DEF Gear!Follow
  <2> HIDE DEF u
  <2>3. Memory(x) /\ x.servo = s.servo /\ x.fc = s.fc /\ x.way = s.way /\ x.d = s.d
    BY <2>1, ExtraKeeps
  <2> HIDE DEF x
  <2>4. Memory(t) /\ t.servo = x.servo /\ t.fc = x.fc /\ t.way = x.way /\ t.d = x.d /\ t.e
    BY <2>3 DEF Memory, Fields
  <2> HIDE DEF t
  <2>5. QED
    BY <2>2, <2>3, <2>4
<1>3. QED
  BY <1>1, <1>2

\* state_flags_reset and the store: the state is fresh, the bridge as it was.
LEMMA CommitKeeps ==
  ASSUME NEW s, Memory(s)
  PROVE  LET t == Gear!Commit(s)
         IN  Memory(t) /\ t.fresh /\ t.way = s.way /\ ~t.e /\ ~t.d
<1> DEFINE u == [s EXCEPT !.saved = s.fc, !.busy = FALSE, !.fresh = TRUE]
<1>1. Memory(u) /\ u.fresh /\ u.way = s.way
  BY DEF Memory, Fields
<1>2. Gear!Commit(s) = Gear!Reset(u)
  BY DEF Gear!Commit
<1> HIDE DEF u
<1>3. QED
  BY <1>1, <1>2, ResetKeeps

\* The task of the state byte leaves a driven motor driven, stopped or its
\* state to be stored, and does not start one that was stopped.
AtHalt(s) == s.way = "brake" /\ ~s.e /\ ~s.d /\ s.servo = 2

LEMMA SearchKeeps ==
  ASSUME NEW s, Memory(s)
  PROVE  LET t == Gear!RunTask(s, 1)
         IN  /\ Memory(t)
             /\ AtHalt(s) => Stopped(t)
             /\ WatchedIn(s) /\ s.fc = 1 => Stopped(t) \/ WatchedIn(t)
<1> DEFINE u == [s EXCEPT !.task = 7]
           t == Gear!RunTask(s, 1)
<1>1. /\ Memory(u) /\ SameBranch(s, u) /\ u.way = s.way /\ u.task = 7
  BY DEF Memory, Fields, SameBranch
<1>2. t = CASE u.e -> Gear!Follow(Gear!Alpha(u))
            [] ~u.e /\ u.d -> Gear!Beta(u)
            [] OTHER -> Gear!Follow(u)
  BY DEF Gear!RunTask
<1> HIDE DEF u, t
<1>3. CASE u.e
  <2>1. t = Gear!Follow(Gear!Alpha(u))
    BY <1>2, <1>3
  <2> DEFINE a == Gear!Alpha(u)
  <2>2. /\ Memory(a) /\ a.servo = u.servo
        /\ Stopped(a) \/ SameBranch(u, a) \/ (a.fc = 1 /\ a.d)
    BY <1>1, AlphaKeeps
  <2> HIDE DEF a
  <2>3. /\ Memory(t) /\ t.servo = a.servo /\ t.fc = a.fc /\ t.way = a.way /\ t.d = a.d
        /\ (a.e => t.e)
    BY <2>1, <2>2, FollowKeeps DEF a
  <2>4. QED
    BY <1>1, <1>3, <2>2, <2>3 DEF AtHalt, Stopped, WatchedIn, SameBranch, t
<1>4. CASE ~u.e /\ u.d
  <2>1. t = Gear!Beta(u)
    BY <1>2, <1>4
  <2>2. Memory(t) /\ (Stopped(t) \/ SameBranch(u, t))
    BY <1>1, <2>1, BetaKeeps
  <2>3. QED
    BY <1>1, <1>4, <2>2 DEF AtHalt, WatchedIn, SameBranch, t
<1>5. CASE ~u.e /\ ~u.d
  <2>1. t = Gear!Follow(u)
    BY <1>2, <1>5
  <2>2. /\ Memory(t) /\ t.servo = u.servo /\ t.fc = u.fc /\ t.way = u.way
        /\ (u.want # u.target /\ u.task # 0 => t.e)
    BY <1>1, <2>1, FollowKeeps
  <2>3. QED
    BY <1>1, <1>5, <2>2 DEF AtHalt, Stopped, WatchedIn, SameBranch, t
<1>6. QED
  BY <1>3, <1>4, <1>5 DEF t

LEMMA TaskKeeps ==
  ASSUME NEW s, NEW k, Memory(s)
  PROVE  LET t == Gear!RunTask(s, k)
         IN  /\ Memory(t)
             /\ AtHalt(s) => Stopped(t) \/ t.fresh
             /\ WatchedIn(s) /\ s.fc = k => Stopped(t) \/ WatchedIn(t) \/ t.fresh
<1> DEFINE t == Gear!RunTask(s, k)
<1>1. CASE k = 0
  <2> DEFINE u == [s EXCEPT !.fc = 1, !.cur = 1]
  <2>1. Memory(u)
    BY DEF Memory, Fields
  <2>2. t = Gear!Commit(u)
    BY <1>1 DEF Gear!RunTask
  <2> HIDE DEF u, t
  <2>3. Memory(t) /\ t.fresh
    BY <2>1, <2>2, CommitKeeps
  <2>4. QED
    BY <2>3 DEF t
<1>2. CASE k = 1
  BY <1>2, SearchKeeps
<1>3. CASE k = 2
  <2> DEFINE u == [s EXCEPT !.task = 2, !.servo = 1]
  <2>1. Memory(u) /\ u.servo = 1 /\ u.way = s.way
    BY DEF Memory, Fields
  <2>2. t = u
    BY <1>3 DEF Gear!RunTask
  <2> HIDE DEF u, t
  <2>3. QED
    BY <2>1, <2>2 DEF AtHalt, Stopped, WatchedIn, t
<1>4. CASE k \in {4, 5}
  <2> DEFINE u == [s EXCEPT !.task = k]
  <2>1. Memory(u) /\ SameBranch(s, u) /\ u.way = s.way
    BY DEF Memory, Fields, SameBranch
  <2>2. t = IF u.d THEN Gear!Beta(u) ELSE u
    BY <1>4 DEF Gear!RunTask
  <2> HIDE DEF u, t
  <2>3. CASE u.d
    <3>1. Memory(t) /\ (Stopped(t) \/ SameBranch(u, t))
      BY <2>1, <2>2, <2>3, BetaKeeps
    <3>2. QED
      BY <2>1, <2>3, <3>1 DEF AtHalt, WatchedIn, SameBranch, t
  <2>4. CASE ~u.d
    BY <1>4, <2>1, <2>2, <2>4 DEF AtHalt, Stopped, WatchedIn, SameBranch, t
  <2>5. QED
    BY <2>3, <2>4
<1>5. CASE k = 6
  <2> DEFINE u == [s EXCEPT !.task = 8]
  <2>1. Memory(u) /\ SameBranch(s, u) /\ u.way = s.way
    BY DEF Memory, Fields, SameBranch
  <2>2. t = u
    BY <1>5 DEF Gear!RunTask
  <2> HIDE DEF u, t
  <2>3. QED
    BY <2>1, <2>2 DEF AtHalt, Stopped, WatchedIn, SameBranch, t
<1>6. CASE k \notin {0, 1, 2, 4, 5, 6}
  <2>1. t = s
    BY <1>6 DEF Gear!RunTask
  <2> HIDE DEF t
  <2>2. QED
    BY <2>1 DEF AtHalt, Stopped, t
<1>7. QED
  BY <1>1, <1>2, <1>3, <1>4, <1>5, <1>6

LEMMA SaveKeeps ==
  ASSUME NEW s, Memory(s)
  PROVE  LET t == Gear!Save(s)
         IN  /\ Memory(t) /\ t.way = s.way /\ (s.fresh => t.fresh)
             /\ t.fresh \/ SameBranch(s, t)
<1> DEFINE A == [s EXCEPT !.saving = TRUE, !.since = 0]
           c == Gear!Commit(s)
           B == [c EXCEPT !.saving = FALSE]
<1>1. Gear!Save(s) \in {s, A, B}
  BY DEF Gear!Save
<1>2. Memory(A) /\ A.way = s.way /\ A.fresh = s.fresh /\ SameBranch(s, A)
  BY DEF Memory, Fields, SameBranch
<1>3. Memory(c) /\ c.fresh /\ c.way = s.way
  BY CommitKeeps
<1> HIDE DEF A, c
<1>4. Memory(B) /\ B.fresh /\ B.way = s.way
  BY <1>3 DEF Memory, Fields
<1> HIDE DEF B
<1>5. QED
  BY <1>1, <1>2, <1>4 DEF SameBranch

LEMMA LaterKeeps ==
  ASSUME NEW s, NEW n, Memory(s)
  PROVE  LET t == Gear!Later(s, n)
         IN  Memory(t) /\ SameBranch(s, t)
<1> DEFINE r == IF s.latch THEN Gear!Capped(s.run + n, StallLimit) ELSE 0
           i == IF s.saving THEN Gear!Capped(s.since + n, SaveAfter) ELSE 0
           t == [s EXCEPT !.run = r, !.since = i, !.fresh = FALSE]
<1>1. Gear!Later(s, n) = t
  BY DEF Gear!Later
<1> HIDE DEF r, i
<1>2. Memory(t) /\ SameBranch(s, t)
  BY DEF Memory, Fields, SameBranch
<1>3. QED
  BY <1>1, <1>2

\* A pass over a driven motor.
LEMMA PassKeeps ==
  ASSUME NEW n, Gear!Pass(m, n), Memory(m)
  PROVE  /\ Memory(m')
         /\ WatchedIn(m) => Stopped(m') \/ WatchedIn(m') \/ m'.fresh
<1> DEFINE l == Gear!Later(m, n)
           t == Gear!DriveStep(l)
           r == IF n = 0 THEN t ELSE Gear!RunTask(t, m.fc)
<1>1. Memory(l) /\ SameBranch(m, l)
  BY LaterKeeps
<1>2. m' = Gear!Save(r)
  BY DEF Gear!Pass
<1> HIDE DEF l
<1>3. /\ Memory(t)
      /\ \/ SameBranch(l, t)
         \/ t.way = "brake" /\ ~t.e /\ ~t.d /\ t.servo = 2
  BY <1>1, DriveKeeps
<1> HIDE DEF t
<1>4. /\ Memory(r)
      /\ WatchedIn(m) => Stopped(r) \/ WatchedIn(r) \/ r.fresh
  <2>1. CASE n = 0
    BY <1>1, <1>3, <2>1 DEF SameBranch, WatchedIn, Stopped
  <2>2. CASE n # 0
    <3>1. r = Gear!RunTask(t, m.fc)
      BY <2>2
    <3> HIDE DEF r
    <3>2. /\ Memory(r)
          /\ AtHalt(t) => Stopped(r) \/ r.fresh
          /\ WatchedIn(t) /\ t.fc = m.fc => Stopped(r) \/ WatchedIn(r) \/ r.fresh
      BY <1>3, <3>1, TaskKeeps
    <3>3. AtHalt(t) \/ SameBranch(m, t)
      BY <1>1, <1>3 DEF SameBranch, AtHalt
    <3>4. QED
      BY <3>2, <3>3 DEF SameBranch, WatchedIn
  <2>3. QED
    BY <2>1, <2>2
<1> HIDE DEF r
<1>5. /\ Memory(m') /\ m'.way = r.way /\ (r.fresh => m'.fresh)
      /\ m'.fresh \/ SameBranch(r, m')
  BY <1>2, <1>4, SaveKeeps
<1>6. QED
  BY <1>4, <1>5 DEF Stopped, WatchedIn, SameBranch

LEMMA DispatchKeeps ==
  ASSUME NEW s, Memory(s)
  PROVE  /\ \A g \in 1 .. Top : Memory(Gear!Gear(s, g))
         /\ Memory(Gear!Home(s))
         /\ \A d \in {0, 1, 2} : Memory(Gear!Drive(s, d))
<1>1. ASSUME NEW g \in 1 .. Top PROVE Memory(Gear!Gear(s, g))
  <2> DEFINE w == [s EXCEPT !.want = g]
             u == [s EXCEPT !.want = g, !.target = g]
             x == Gear!Extra(u)
             v == [x EXCEPT !.e = TRUE]
  <2>1. Memory(w) /\ Memory(u)
    BY DEF Memory, Fields
  <2>2. Gear!Gear(s, g) \in {w, v}
    BY DEF Gear!Gear
  <2> HIDE DEF w, u
  <2>3. Memory(x)
    BY <2>1, ExtraKeeps
  <2> HIDE DEF x
  <2>4. Memory(v)
    BY <2>3 DEF Memory, Fields
  <2>5. QED
    BY <2>1, <2>2, <2>4
<1>2. Memory(Gear!Home(s))
  <2> DEFINE a == [s EXCEPT !.d = FALSE]
             b == [s EXCEPT !.want = 1, !.d = TRUE]
  <2>1. Memory(a) /\ Memory(b)
    BY DEF Memory, Fields
  <2>2. Gear!Home(s) \in {a, b}
    BY DEF Gear!Home
  <2>3. QED
    BY <2>1, <2>2
<1>3. ASSUME NEW d \in {0, 1, 2} PROVE Memory(Gear!Drive(s, d))
  <2> DEFINE a == [s EXCEPT !.servo = d]
  <2>1. Memory(a)
    BY DEF Memory, Fields
  <2>2. Gear!Drive(s, d) \in {s, a}
    BY DEF Gear!Drive
  <2>3. QED
    BY <2>1, <2>2
<1>4. QED
  BY <1>1, <1>2, <1>3

LEMMA ColdShape ==
  ASSUME NEW saved
  PROVE  Memory(Gear!Cold(saved))
<1>1. ASSUME NEW s, Memory(s) PROVE Memory(Gear!Synced(s))
  <2> DEFINE a == [s EXCEPT !.fc = 1]
             t == IF s.fc = 2 /\ ~Gear!Low THEN a ELSE s
             b == [t EXCEPT !.cur = 1, !.fc = 2]
             u == IF t.cur # 1 /\ Gear!Low THEN b ELSE t
             v == [u EXCEPT !.seen = Gear!Line]
  <2>1. Memory(a)
    BY <1>1 DEF Memory, Fields
  <2>2. Gear!Synced(s) = v
    BY DEF Gear!Synced
  <2> HIDE DEF a
  <2>3. Memory(t)
    BY <1>1, <2>1
  <2> HIDE DEF t
  <2>4. Memory(b)
    BY <2>3 DEF Memory, Fields
  <2> HIDE DEF b
  <2>5. Memory(u)
    BY <2>3, <2>4
  <2> HIDE DEF u
  <2>6. Memory(v)
    BY <2>5 DEF Memory, Fields
  <2>7. QED
    BY <2>2, <2>6
<1> DEFINE c == [fc |-> saved, saved |-> saved, task |-> 0, cur |-> 0, target |-> 0, want |-> 0,
                 dir |-> "none", way |-> "brake", servo |-> 2, e |-> FALSE, d |-> FALSE,
                 reached |-> FALSE, latch |-> FALSE, run |-> 0, tries |-> 0, seen |-> 0,
                 busy |-> FALSE, saving |-> FALSE, since |-> 0, fresh |-> FALSE]
<1>2. Memory(c)
  BY DEF Memory, Fields
<1>3. Gear!Cold(saved) = Gear!Synced(c)
  BY DEF Gear!Cold
<1> HIDE DEF c
<1>4. QED
  BY <1>1, <1>2, <1>3

LEMMA MemoryStep ==
  ASSUME Memory(m), [Gear!Next]_Gear!vars
  PROVE  Memory(m')
<1>1. ASSUME NEW s, NEW n, Memory(s), Gear!Pass(s, n) PROVE Memory(m')
  <2> DEFINE t == Gear!DriveStep(Gear!Later(s, n))
             r == IF n = 0 THEN t ELSE Gear!RunTask(t, m.fc)
  <2>1. Memory(t)
    BY <1>1, LaterKeeps, DriveKeeps
  <2>2. m' = Gear!Save(r)
    BY <1>1 DEF Gear!Pass
  <2> HIDE DEF t
  <2>3. Memory(r)
    BY <2>1, TaskKeeps
  <2> HIDE DEF r
  <2>4. QED
    BY <2>2, <2>3, SaveKeeps
<1>2. CASE Gear!Quiet \/ Gear!Early
  BY <1>1, <1>2 DEF Gear!Quiet, Gear!Early
<1>3. CASE Gear!Ordered
  BY <1>1, <1>3, DispatchKeeps, CommitKeeps DEF Gear!Ordered
<1>4. CASE Gear!Turn \/ UNCHANGED Gear!vars
  BY <1>4 DEF Gear!Turn, Gear!vars
<1>5. CASE Gear!Restart
  BY <1>5, ColdShape DEF Gear!Restart
<1>6. QED
  BY <1>2, <1>3, <1>4, <1>5 DEF Gear!Next

LEMMA WatchStep == Memory(m) => [Gear!KeepsWatch]_Gear!vars
<1> SUFFICES ASSUME Memory(m), Gear!Quiet \/ Gear!Early, Gear!Watched,
                    m'.way # "brake", ~m'.fresh
             PROVE  Gear!Watched'
  BY DEF Gear!KeepsWatch
<1>1. \E n \in {0, 1} : Gear!Pass(m, n)
  BY DEF Gear!Quiet, Gear!Early
<1>2. WatchedIn(m) => WatchedIn(m')
  BY <1>1, PassKeeps DEF Stopped
<1>3. QED
  BY <1>2 DEF WatchedIn, Gear!Watched

\* While the gear motor runs some branch of the loop drives it, and enforces
\* its time: a pass without an order and without a store never takes the last
\* one away (shifterware main.c:287-760).
THEOREM LoopKeepsWatch == Gear!Spec => Gear!WatchKept
<1>1. Gear!Init => Memory(m)
  BY ColdShape DEF Gear!Init
<1>2. Memory(m) /\ [Gear!Next]_Gear!vars => Memory(m)'
  BY MemoryStep
<1>3. Memory(m) => [Gear!KeepsWatch]_Gear!vars
  BY WatchStep
<1>4. QED
  BY <1>1, <1>2, <1>3, PTL DEF Gear!Spec, Gear!WatchKept

-----------------------------------------------------------------------------
(* The machines of MCServices                                                *)

LEMMA ServicesSteps ==
  ASSUME [AnyNext]_all
  PROVE  /\ which' = which
         /\ which = "battery" => [Battery!Next]_Battery!vars
         /\ which = "modem" => [Gsm!Next]_Gsm!vars
         /\ which = "motor" => [Motor!Next]_Motor!vars
         /\ which = "gear" => [Gear!Next]_Gear!vars
<1>1. CASE UNCHANGED all
  <2>1. UNCHANGED Battery!vars
    BY <1>1 DEF all, Battery!vars, Battery!link, Battery!power, Battery!updv, Battery!pack
  <2>2. UNCHANGED Gsm!vars
    BY <1>1 DEF all, Gsm!vars, Gsm!step, Gsm!engine, Gsm!sms, Gsm!asked, Gsm!env
  <2>3. UNCHANGED Motor!vars
    BY <1>1 DEF all, Motor!vars, Motor!timers, Motor!xfer, Motor!pins, Motor!link, Motor!reboot,
       Motor!asked
  <2>4. UNCHANGED Gear!vars
    BY <1>1 DEF all, Gear!vars
  <2>5. QED
    BY <1>1, <2>1, <2>2, <2>3, <2>4 DEF all
<1>2. CASE AnyNext
  BY <1>2 DEF AnyNext, BatteryNext, ModemNext, MotorNext, GearNext, BatteryStill, ModemStill,
     MotorStill, GearStill
<1>3. QED
  BY <1>1, <1>2

ServicesInv == /\ which = "battery" => Ordered
               /\ which = "modem" => Quiet /\ GsmShape
               /\ which = "motor" => Shape /\ RaisedByBacklog
               /\ which = "gear" => Memory(m)

LEMMA ServicesAssume ==
  /\ Capacities /\ Positive
  /\ Gsm!ModemAssumption /\ Motor!MotorUpdateAssumption /\ MaxEvents \in Nat
<1>1. Capacities /\ Positive
  BY MCServicesAssumption, CapacitiesHold, TicksPositive
<1>2. QED
  BY <1>1, MCServicesAssumption DEF Gsm!ModemAssumption

LEMMA ServicesBegin == AnyInit => ServicesInv
<1>1. CASE BatteryInit
  BY <1>1, ServicesAssume, OrderedBegins DEF BatteryInit, ServicesInv
<1>2. CASE ModemInit
  BY <1>2, ServicesAssume, QuietBegins, GsmShapeBegins DEF ModemInit, ServicesInv
<1>3. CASE MotorInit
  <2>1. Motor!Init => RaisedByBacklog
    BY DEF Motor!Init, RaisedByBacklog
  <2>2. QED
    BY <1>3, <2>1, ServicesAssume, ShapeBegins DEF MotorInit, ServicesInv
<1>4. CASE GearInit
  <2>1. Gear!Init => Memory(m)
    BY ColdShape DEF Gear!Init
  <2>2. QED
    BY <1>4, <2>1 DEF GearInit, ServicesInv
<1>5. QED
  BY <1>1, <1>2, <1>3, <1>4 DEF AnyInit

LEMMA ServicesKept == ASSUME ServicesInv, [AnyNext]_all PROVE ServicesInv'
<1>1. which = "battery" => Ordered'
  BY ServicesAssume, ServicesSteps, OrderedKept DEF ServicesInv
<1>2. which = "modem" => Quiet' /\ GsmShape'
  BY ServicesAssume, ServicesSteps, QuietKept, GsmShapeKept DEF ServicesInv
<1>3. which = "motor" => Shape' /\ RaisedByBacklog'
  BY ServicesAssume, ServicesSteps, ShapeKept, BacklogStep DEF ServicesInv, Shape
<1>4. which = "gear" => Memory(m')
  BY ServicesSteps, MemoryStep DEF ServicesInv
<1>5. QED
  BY <1>1, <1>2, <1>3, <1>4, ServicesSteps DEF ServicesInv

LEMMA ServicesHold == AnySpec => []ServicesInv
<1>1. ServicesInv /\ [AnyNext]_all => ServicesInv'
  BY ServicesKept
<1>2. QED
  BY <1>1, ServicesBegin, PTL DEF AnySpec

\* A pack is told to install its update only when it holds the image, as
\* MCServices' run has it (battery.c:1437-1500).
THEOREM UpdatesAreWhole == AnySpec => []ResultIsTrue
<1>1. ServicesInv => ResultIsTrue
  BY DEF ServicesInv, Ordered, SumOrder, ResultIsTrue
<1>2. QED
  BY <1>1, ServicesHold, PTL

\* A modem at rest is off, a motor at rest runs its application, and a
\* download of the motor has its timer (modem.c:1595, motor.c:472-660).
THEOREM ServicesRest == ASSUME ShortHold PROVE AnySpec => []RestIsSafe
<1> DEFINE I == which = "motor" => Held
<1>1. AnyInit => I
  BY HeldBegins DEF AnyInit, BatteryInit, ModemInit, MotorInit, GearInit
<1>2. ServicesInv /\ I /\ [AnyNext]_all => I'
  BY ServicesAssume, ServicesSteps, HeldKept DEF ServicesInv
<1>3. ServicesInv /\ I => RestIsSafe
  <2>1. Quiet => Gsm!RestIsSafe
    BY QuietIsSafe
  <2>2. Held /\ Shape => Motor!RestIsSafe
    BY HeldIsSafe
  <2>3. QED
    BY <2>1, <2>2 DEF ServicesInv, RestIsSafe
<1> HIDE DEF I
<1>4. QED
  BY <1>1, <1>2, <1>3, ServicesHold, PTL DEF AnySpec

\* A motor that sent a frame after its reset is not reflashed, and a pass of
\* the shifter's loop does not lose sight of a running gear motor
\* (motor.c:495-526, shifterware main.c:287-760).
THEOREM MotorsAreMinded == AnySpec => MotorsMinded
<1> DEFINE A == /\ which = "motor" => Motor!ReflashedUnheard
                /\ which = "gear" => Gear!KeepsWatch
<1>1. ServicesInv /\ [AnyNext]_all => [A]_all
  <2> SUFFICES ASSUME ServicesInv, [AnyNext]_all PROVE A
    OBVIOUS
  <2>1. which = "motor" => Motor!ReflashedUnheard
    <3>1. UNCHANGED Motor!vars => Motor!ReflashedUnheard
      BY DEF Motor!vars, Motor!ReflashedUnheard
    <3>2. QED
      BY <3>1, ServicesSteps, OnlyBacklogReflashes DEF ServicesInv
  <2>2. which = "gear" => Gear!KeepsWatch
    <3>1. UNCHANGED Gear!vars => Gear!KeepsWatch
      BY DEF Gear!vars, Gear!KeepsWatch, Gear!Watched
    <3>2. QED
      BY <3>1, ServicesSteps, WatchStep DEF ServicesInv
  <2>3. QED
    BY <2>1, <2>2
<1> HIDE DEF A
<1>2. QED
  <2>1. AnySpec => [][A]_all
    BY <1>1, ServicesHold, PTL DEF AnySpec
  <2>2. QED
    BY <2>1, PTL DEF A, MotorsMinded
=============================================================================
