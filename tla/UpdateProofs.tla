---------------------------- MODULE UpdateProofs ----------------------------
(***************************************************************************)
(* Proofs about the over-the-air update, for every value of the constants  *)
(* of MCUpdates: the record survives one fault at a time; what is pushed   *)
(* is sound and what was given up is forgotten; the loaders of the pack    *)
(* and of the power bank keep the contract of BootContract, those of the   *)
(* shifter and of the coprocessor start nothing but a whole image.  The    *)
(* last part takes the properties of MCUpdates' run from the machines.     *)
(***************************************************************************)
EXTENDS MCUpdates, Integers, Sequences, FiniteSets, TLAPS

-----------------------------------------------------------------------------
(* Type correctness                                                         *)

LEMMA InitTyped == Init => TypeOK
  BY DualRecordAssumption DEF Init, TypeOK, Saving

LEMMA NextTyped == TypeOK /\ [Next]_vars => TypeOK'
<1> SUFFICES ASSUME TypeOK, [Next]_vars
             PROVE  TypeOK'
  OBVIOUS
<1> USE DualRecordAssumption DEF TypeOK, Saving
<1>1. CASE LoadA
  BY <1>1 DEF LoadA
<1>2. CASE LoadB
  BY <1>2 DEF LoadB
<1>3. CASE LoadDefault
  BY <1>3 DEF LoadDefault
<1>4. CASE Save
  BY <1>4 DEF Save
<1>5. CASE EraseA \/ WriteA \/ EraseB \/ WriteB
  BY <1>5 DEF EraseA, WriteA, EraseB, WriteB
<1>6. CASE Fails
  BY <1>6 DEF Fails
<1>7. CASE Cut
  BY <1>7 DEF Cut
<1>8. CASE UNCHANGED vars
  BY <1>8 DEF vars
<1>9. QED
  BY <1>1, <1>2, <1>3, <1>4, <1>5, <1>6, <1>7, <1>8 DEF Next

\* The copies, the record and the place in the save keep their types over
\* every cut and every failed write (flash.c:154-262, eeprom.c:71-173).
THEOREM Typed == Spec => []TypeOK
<1>1. Init => TypeOK
  BY InitTyped
<1>2. TypeOK /\ [Next]_vars => TypeOK'
  BY NextTyped
<1>3. QED
  BY <1>1, <1>2, PTL DEF Spec

-----------------------------------------------------------------------------
(* The record survives                                                      *)

LEMMA InitInv == Init => Inv
  BY DualRecordAssumption
  DEF Init, Inv, Survives, Loaded, Settled, OnCourse, OneLeft, Saving

\* Loading: what is taken is what Survives speaks of.
LEMMA LoadKeepsInv ==
  ASSUME TypeOK, Inv, SingleFault, LoadA \/ LoadB \/ LoadDefault
  PROVE  Inv'
<1> USE DualRecordAssumption DEF TypeOK, Inv, Survives, Loaded, Settled, OnCourse,
                                 OneLeft, Saving
<1>1. CASE LoadA
  BY <1>1 DEF LoadA
<1>2. CASE LoadB
  BY <1>2 DEF LoadB
<1>3. CASE LoadDefault
  BY <1>3 DEF LoadDefault
<1>4. QED
  BY <1>1, <1>2, <1>3

\* A save begins on two good copies, or is marked as having only one.
LEMMA SaveKeepsInv ==
  ASSUME TypeOK, Inv, Save
  PROVE  Inv'
  BY DualRecordAssumption
  DEF Save, TypeOK, Inv, Survives, Loaded, Settled, OnCourse, OneLeft, Saving

\* Every step of a save leaves one copy that sums, once it is on course.
LEMMA StepKeepsInv ==
  ASSUME TypeOK, Inv, EraseA \/ WriteA \/ EraseB \/ WriteB
  PROVE  Inv'
<1> USE DualRecordAssumption DEF TypeOK, Inv, Survives, Loaded, Settled, OnCourse,
                                 OneLeft, Saving
<1>1. CASE EraseA
  BY <1>1 DEF EraseA
<1>2. CASE WriteA
  BY <1>2 DEF WriteA
<1>3. CASE EraseB
  BY <1>3 DEF EraseB
<1>4. CASE WriteB
  BY <1>4 DEF WriteB
<1>5. QED
  BY <1>1, <1>2, <1>3, <1>4

\* One fault: a failure or a cut, in a save that has not met one before.
LEMMA FaultKeepsInv ==
  ASSUME TypeOK, Inv, SingleFault, Fails \/ Cut
  PROVE  Inv'
<1> USE DualRecordAssumption DEF TypeOK, Inv, Survives, Loaded, Settled, OnCourse,
                                 OneLeft, Saving
<1>1. CASE Fails
  BY <1>1 DEF Fails
<1>2. CASE Cut
  BY <1>2 DEF Cut
<1>3. QED
  BY <1>1, <1>2

\* With one fault at a time, what a boot loads is the record before or after
\* the save that was broken, never the defaults (flash.c:188-189).
THEOREM RecordSurvives ==
  ASSUME SingleFault
  PROVE  Spec => []Survives
<1>1. Init => TypeOK /\ Inv
  BY InitTyped, InitInv
<1>2. TypeOK /\ Inv /\ [Next]_vars => TypeOK' /\ Inv'
  <2> SUFFICES ASSUME TypeOK, Inv, [Next]_vars
               PROVE  TypeOK' /\ Inv'
    OBVIOUS
  <2>1. TypeOK'
    BY NextTyped
  <2>2. CASE UNCHANGED vars
    BY <2>1, <2>2 DEF vars, Inv, Survives, Loaded, Settled, OnCourse, OneLeft
  <2>3. CASE Next
    BY <2>1, <2>3, SingleFault, LoadKeepsInv, SaveKeepsInv, StepKeepsInv,
       FaultKeepsInv DEF Next
  <2>4. QED
    BY <2>2, <2>3
<1>3. Inv => Survives
  BY DEF Inv
<1>4. QED
  BY <1>1, <1>2, <1>3, PTL DEF Spec

-----------------------------------------------------------------------------
(* The orchestrator: what it pushes to a target                             *)

\* The steps that write a region, and those that change the state.
LEMMA PushedBegin == Order!Init => Order!PushedIsSound
  BY DEF Order!Init, Order!Cleared, Order!PushedIsSound, Order!Pushed

LEMMA FetchNeverPushes == Order!Fetch => st' \notin {11, 12, 13, 14, 15}
  BY DEF Order!Fetch, Order!AskHeader, Order!FetchTimeout, Order!GetHeader, Order!AskBlock,
         Order!RecvBlock, Order!ScanFiles, Order!Erase, Order!DlWait, Order!AskData, Order!Write

LEMMA CommitPushesSound == Order!Commit => Order!PushedIsSound'
  BY DEF Order!Commit, Order!CommitEnd, Order!CommitBle, Order!CommitMain, Order!CommitMotor,
         Order!CommitShifter, Order!CommitBattery, Order!Push, Order!Wait, Order!LowSupply,
         Order!Sound, Order!PushedIsSound, Order!Pushed

\* A reset begins in state 0, 0x10 or 0x16.
LEMMA BootNeverPushes == Order!Boot => st' \in {0, \h10, \h16}
  BY DEF Order!Boot

LEMMA PushedStep ==
  ASSUME Order!PushedIsSound, [Order!Next]_Order!vars
  PROVE  Order!PushedIsSound'
<1> USE DEF Order!PushedIsSound, Order!Pushed
<1>1. CASE Order!Fetch
  BY <1>1, FetchNeverPushes
<1>2. CASE Order!Commit
  BY <1>2, CommitPushesSound
<1>3. CASE Order!Targets
  BY <1>3 DEF Order!Targets, Order!MotorVersion, Order!BatteryWait, Order!BleStart,
              Order!BleTimeout, Order!BadMain, Order!Stop
<1>4. CASE Order!Answers
  BY <1>4 DEF Order!Answers, Order!Kept, Order!MotorStart, Order!Outcome, Order!BatteryDone,
              Order!BatteryKnown, Order!BleInfo, Order!BleVersion
<1>5. CASE Order!NvicReset \/ Order!Restart \/ Order!PowerLoss
  BY <1>5, BootNeverPushes DEF Order!NvicReset, Order!Restart, Order!PowerLoss
<1>6. CASE Order!Status \/ Order!Deliver \/ Order!Expire \/ Order!Others
  <2>1. UNCHANGED flash /\ st' \in {st, 2}
    BY <1>6, Zenon DEF Order!Status, Order!Deliver, Order!Expire, Order!Others, Order!Orchestrator,
        Order!OadDone, Order!OadFails, Order!OadTooLong, Order!OadStarts, Order!ForceEnd,
        Order!RecordSaved
  <2>2. QED
    BY <2>1
<1>7. CASE UNCHANGED Order!vars
  BY <1>7 DEF Order!vars, Order!file
<1>8. QED
  BY <1>1, <1>2, <1>3, <1>4, <1>5, <1>6, <1>7, Zenon DEF Order!Next, Order!Step

\* A target is pushed only a file whose every block is the answer to the
\* request for it, whatever came late and wherever a fetch was cut off
\* (update.c:274-379).
THEOREM OnlySoundPushed == Order!Spec => []Order!PushedIsSound
  BY PushedBegin, PushedStep, PTL DEF Order!Spec

-----------------------------------------------------------------------------
\* At rest, at the start of a fetch and at its failure the order is saved.
OrderIsSaved == st \in {0, 2, \h15} => order = saved

\* An update reported as failed is forgotten.
GivenUp ==
    (bike = "failed" \/ restart = "callback") /\ ~onward =>
      order = Order!NoOrder /\ saved = Order!NoOrder /\ st \in {0, \h15}

Forgotten == OrderIsSaved /\ GivenUp

LEMMA ForgottenBegins == Order!Init => Forgotten
  BY DEF Order!Init, Order!Cleared, Forgotten, OrderIsSaved, GivenUp

\* An answer used in the pass that gave up leaves its trace.
LEMMA UsedAnywayTells == Order!UsedAnyway /\ ~onward' => ~onward /\ UNCHANGED Order!rec
  BY Zenon DEF Order!UsedAnyway

LEMMA BleInfoTells == Order!BleInfo /\ ~onward' => ~onward /\ UNCHANGED Order!rec
  BY Zenon DEF Order!BleInfo

LEMMA FetchForgets == ASSUME Forgotten, Order!Fetch, UNCHANGED restart PROVE Forgotten'
<1> USE DEF Forgotten, OrderIsSaved, GivenUp, Order!NoOrder
<1>1. CASE Order!AskHeader \/ Order!AskBlock \/ Order!ScanFiles \/ Order!DlWait \/ Order!AskData
  BY <1>1 DEF Order!AskHeader, Order!AskBlock, Order!ScanFiles, Order!DlWait, Order!AskData, Order!rec
<1>2. CASE Order!FetchTimeout \/ Order!Erase
  BY <1>2 DEF Order!FetchTimeout, Order!Erase, Order!Fail, Order!rec
<1>3. CASE Order!GetHeader
  BY <1>3 DEF Order!GetHeader, Order!Fail, Order!Save
<1>4. CASE Order!RecvBlock
  BY <1>4, UsedAnywayTells DEF Order!RecvBlock, Order!rec
<1>5. CASE Order!Write
  BY <1>5, UsedAnywayTells DEF Order!Write, Order!Fail, Order!rec
<1>6. QED
  BY <1>1, <1>2, <1>3, <1>4, <1>5, Zenon DEF Order!Fetch

LEMMA CommitForgets == ASSUME Forgotten, Order!Commit, UNCHANGED restart PROVE Forgotten'
<1> USE DEF Forgotten, OrderIsSaved, GivenUp, Order!NoOrder
<1> QED
  BY DEF Order!Commit, Order!CommitEnd, Order!CommitBle, Order!CommitMain, Order!CommitMotor,
         Order!CommitShifter, Order!CommitBattery, Order!Push, Order!Wait, Order!LowSupply,
         Order!Save, Order!Fail, Order!rec

LEMMA TargetsForget ==
  ASSUME Forgotten, Order!Targets \/ Order!Answers, UNCHANGED restart PROVE Forgotten'
<1> USE DEF Forgotten, OrderIsSaved, GivenUp, Order!NoOrder, Order!Kept, Order!rec, Order!Fail, Order!Save
<1>1. CASE Order!Targets
  BY <1>1 DEF Order!Targets, Order!MotorVersion, Order!BatteryWait, Order!BleStart,
              Order!BleTimeout, Order!BadMain, Order!Stop
<1>2. CASE Order!MotorStart \/ Order!Outcome \/ Order!BatteryDone \/ Order!BatteryKnown
  BY <1>2 DEF Order!MotorStart, Order!Outcome, Order!BatteryDone, Order!BatteryKnown
<1>3. CASE Order!BleInfo
  <2>1. st = \h12 /\ st' = \h13
    BY <1>3, Zenon DEF Order!BleInfo
  <2>2. QED
    BY <1>3, <2>1, BleInfoTells
<1>4. CASE Order!BleVersion
  BY <1>4 DEF Order!BleVersion
<1>5. QED
  BY <1>1, <1>2, <1>3, <1>4, Zenon DEF Order!Answers

\* A reset forgets what was reported; a state without an entry is not resumed.
LEMMA BootForgets == ASSUME Forgotten, Order!Boot PROVE Forgotten'
  BY DEF Forgotten, OrderIsSaved, GivenUp, Order!Boot

LEMMA OthersForget == ASSUME Forgotten, Order!Others PROVE Forgotten'
<1> USE DEF Forgotten, OrderIsSaved, GivenUp, Order!NoOrder, Order!rec, Order!env, Order!Fail,
            Order!Save, Order!Upset
<1>1. CASE Order!OadDone
  BY <1>1 DEF Order!Others, Order!OadDone
<1>2. CASE Order!OadFails
  BY <1>2 DEF Order!Others, Order!OadFails
<1>3. CASE Order!OadTooLong
  BY <1>3 DEF Order!Others, Order!OadTooLong
<1>4. CASE (Order!OadStarts \/ Order!ForceEnd \/ Order!RecordSaved) /\ UNCHANGED onward
  BY <1>4 DEF Order!OadStarts, Order!ForceEnd, Order!RecordSaved
<1>5. QED
  BY <1>1, <1>2, <1>3, <1>4, Zenon DEF Order!Others

LEMMA ForgottenStep == ASSUME Forgotten, [Order!Next]_Order!vars PROVE Forgotten'
<1>1. CASE Order!Fetch /\ UNCHANGED Order!env
  BY <1>1, FetchForgets DEF Order!env
<1>2. CASE Order!Commit /\ UNCHANGED Order!env
  BY <1>2, CommitForgets DEF Order!env
<1>3. CASE (Order!Targets \/ Order!Answers) /\ UNCHANGED Order!env
  BY <1>3, TargetsForget DEF Order!env
<1>4. CASE Order!NvicReset \/ Order!Restart \/ Order!PowerLoss
  BY <1>4, BootForgets, Zenon DEF Order!NvicReset, Order!Restart, Order!PowerLoss
<1>5. CASE Order!Status
  BY <1>5 DEF Order!Status, Order!Orchestrator, Order!rec, Forgotten, OrderIsSaved, GivenUp
<1>6. CASE Order!Deliver \/ Order!Expire
  BY <1>6 DEF Order!Deliver, Order!Expire, Order!Orchestrator, Order!rec, Order!env, Forgotten,
      OrderIsSaved, GivenUp
<1>7. CASE Order!Others
  BY <1>7, OthersForget
<1>8. CASE UNCHANGED Order!vars
  BY <1>8 DEF Order!vars, Order!rec, Order!env, Forgotten, OrderIsSaved, GivenUp
<1>9. QED
  BY <1>1, <1>2, <1>3, <1>4, <1>5, <1>6, <1>7, <1>8, Zenon DEF Order!Next, Order!Step

LEMMA NothingResumed == Forgotten => Order!FailureForgotten
<1> SUFFICES ASSUME Forgotten, Order!Restart, restart = "callback", ~onward PROVE st' = 0
  BY DEF Order!FailureForgotten
<1>1. saved[0] = 0
  BY DEF Forgotten, GivenUp, Order!NoOrder
<1>2. Order!Resumable = {} /\ Order!Sixes = {}
  BY <1>1 DEF Order!Resumable, Order!Sixes
<1>3. QED
  BY <1>2, Zenon DEF Order!Restart, Order!Boot

\* The restart after an update that was reported as failed starts at rest
\* (states.c:3044-3115, update.c:596-608).
THEOREM NotTakenUpAgain == Order!Spec => Order!FailedNotResumed
<1>1. Order!Init => Forgotten
  BY ForgottenBegins
<1>2. Forgotten /\ [Order!Next]_Order!vars => Forgotten'
  BY ForgottenStep
<1>3. Forgotten => [Order!FailureForgotten]_Order!vars
  BY NothingResumed
<1>4. QED
  BY <1>1, <1>2, <1>3, PTL DEF Order!Spec, Order!FailedNotResumed

-----------------------------------------------------------------------------
(* The battery pack: type correctness, the switches apart from the rest     *)

Switches == waiting \in BOOLEAN /\ told \in BOOLEAN
Shapes ==
    /\ app \in [Pack!Pages -> Pack!Contents] /\ shadow \in [Pack!Pages -> Pack!Contents]
    /\ flag \in Pack!Flags
    /\ pc \in {"boot", "wipe", "wipeShadow", "copy", "loop", "app"}
    /\ page \in Pack!Pages
    /\ loop \subseteq {"busy", "done", "stay"}
    /\ target \in {Pack!Idle} \cup ({"app", "shadow"} \X Pack!Pages)
    /\ held \in Pack!Contents
    /\ running \in Images \cup {Pack!None} /\ (running # Pack!None <=> pc = "app")
    /\ cuts \in 0..MaxCuts /\ orders \in 0..PackOrders

LEMMA TypeParts == Pack!TypeOK <=> Switches /\ Shapes
  BY DEF Pack!TypeOK, Switches, Shapes

LEMMA PackInitTyped ==
  ASSUME Pack!PackBootAssumption, Pack!Init
  PROVE  Pack!TypeOK
<1>1. Switches
  BY DEF Pack!Init, Switches
<1>2. Shapes
  BY DEF Pack!PackBootAssumption, Pack!Init, Shapes, Pack!Pages, Pack!Contents, Pack!Flags, Pack!None
<1>3. QED
  BY <1>1, <1>2, TypeParts

LEMMA NextSwitches ==
  ASSUME Switches, [Pack!Next]_Pack!vars
  PROVE  Switches'
  BY Zenon DEF Switches, Pack!Next, Pack!vars, Pack!Boot, Pack!Wipe, Pack!WipeShadow, Pack!CopyPage, Pack!Decide, Pack!Finish,
     Pack!CountDown, Pack!Watchdog, Pack!Address, Pack!Block, Pack!Refuse, Pack!Verify, Pack!Stage, Pack!Leave, Pack!Cut, Pack!Launch

\* A whole bank starts with the page of an image.
LEMMA WholeStarts ==
  ASSUME Pack!PackBootAssumption, NEW bank \in [Pack!Pages -> Pack!Contents], Pack!Whole(bank)
  PROVE  bank[0] \in Images
  BY DEF Pack!PackBootAssumption, Pack!Whole, Pack!Pages

LEMMA NextShapes ==
  ASSUME Pack!PackBootAssumption, Shapes, [Pack!Next]_Pack!vars
  PROVE  Shapes'
<1> USE DEF Pack!PackBootAssumption, Shapes, Pack!Pages, Pack!Contents, Pack!Flags, Pack!None
<1>1. CASE Pack!Boot
  BY <1>1 DEF Pack!Boot, Pack!StartCopy
<1>2. CASE Pack!Wipe \/ Pack!WipeShadow
  BY <1>2 DEF Pack!Wipe, Pack!WipeShadow
<1>3. CASE Pack!CopyPage
  <2>1. app' \in [Pack!Pages -> Pack!Contents] /\ page' \in Pack!Pages
    BY <1>3 DEF Pack!CopyPage
  <2>2. Pack!Whole(app') => app'[0] \in Images
    BY <2>1, WholeStarts
  <2>3. QED
    BY <1>3, <2>1, <2>2 DEF Pack!CopyPage
<1>4. CASE Pack!Decide
  <2>1. Pack!Whole(app) => app[0] \in Images
    BY WholeStarts
  <2>2. CASE loop = {} /\ Pack!Whole(app)
    BY <1>4, <2>1, <2>2 DEF Pack!Decide, Pack!Launch, Pack!ImageOf
  <2>3. CASE loop = {} /\ ~Pack!Whole(app) /\ Pack!Whole(shadow)
    BY <1>4, <2>3 DEF Pack!Decide, Pack!StartCopy
  <2>4. CASE loop = {} /\ ~Pack!Whole(app) /\ ~Pack!Whole(shadow)
    BY <1>4, <2>4 DEF Pack!Decide
  <2>5. CASE loop # {}
    BY <1>4, <2>5 DEF Pack!Decide
  <2>6. QED
    BY <2>2, <2>3, <2>4, <2>5
<1>5. CASE Pack!Finish
  <2>1. Pack!Whole(app) => app[0] \in Images
    BY WholeStarts
  <2>2. QED
    BY <1>5, <2>1 DEF Pack!Finish, Pack!Launch, Pack!ImageOf
<1>6. CASE Pack!CountDown \/ Pack!Watchdog \/ Pack!Refuse
  BY <1>6 DEF Pack!CountDown, Pack!Watchdog, Pack!Refuse
<1>7. CASE Pack!Address
  BY <1>7 DEF Pack!Address, Pack!Ordered
<1>8. CASE Pack!Block
  BY <1>8 DEF Pack!Block
<1>9. CASE Pack!Verify
  BY <1>9 DEF Pack!Verify, Pack!Ordered
<1>10. CASE Pack!Stage
  BY <1>10 DEF Pack!Stage, Pack!Ordered
<1>11. CASE Pack!Leave
  BY <1>11 DEF Pack!Leave, Pack!Ordered
<1>12. CASE Pack!Cut
  BY <1>12 DEF Pack!Cut
<1>13. CASE UNCHANGED Pack!vars
  BY <1>13 DEF Pack!vars
<1>14. QED
  BY <1>1, <1>2, <1>3, <1>4, <1>5, <1>6, <1>7, <1>8, <1>9, <1>10, <1>11, <1>12,
     <1>13 DEF Pack!Next

\* The banks, the flag, the loop and the download keep their types (main.c,
\* ota.c and image.c of bmsboot).
THEOREM PackTyped ==
  ASSUME Pack!PackBootAssumption
  PROVE  Pack!Spec => []Pack!TypeOK
<1>1. Pack!Init => Pack!TypeOK
  BY PackInitTyped
<1>2. Pack!TypeOK /\ [Pack!Next]_Pack!vars => Pack!TypeOK'
  BY TypeParts, NextSwitches, NextShapes DEF Pack!TypeOK, Switches, Shapes
<1>3. QED
  BY <1>1, <1>2, PTL DEF Pack!Spec

-----------------------------------------------------------------------------
(* The battery pack keeps the contract                                      *)

\* What holds in the middle of a copy, a wipe and a download: a copy has a
\* whole shadow behind it, the image that runs stays whole, and the banks are
\* given up only after an order.
Course ==
    /\ pc = "copy" => Pack!Whole(shadow) /\ \A p \in Pack!Pages : p < page => app[p] = shadow[p]
    /\ pc = "app" => Pack!Whole(app)
    /\ flag = "wipe" \/ pc \in {"wipe", "wipeShadow"} => told
    /\ pc = "loop" /\ target # Pack!Idle => told

LEMMA PackInitCourse ==
  ASSUME Pack!Init
  PROVE  Course
  BY DEF Pack!Init, Course

\* The page after the last is the first.
LEMMA PageTurn ==
  ASSUME NPages \in Nat \ {0}, NEW p \in 0 .. NPages - 1
  PROVE  (p + 1) % NPages = IF p = NPages - 1 THEN 0 ELSE p + 1
<1>1. CASE p = NPages - 1
  BY <1>1
<1>2. CASE p # NPages - 1
  BY <1>2
<1>3. QED
  BY <1>1, <1>2

\* A bank that takes its last page from a whole one it equals so far is whole.
LEMMA LastPage ==
  ASSUME Pack!PackBootAssumption, Pack!TypeOK, pc = "copy", Course, Pack!CopyPage
  PROVE  /\ \A p \in Pack!Pages : p < page' => app'[p] = shadow'[p]
         /\ page = NPages - 1 => app' = shadow
<1> USE DEF Pack!PackBootAssumption, Pack!TypeOK, Pack!CopyPage, Pack!Pages
<1>1. page \in Pack!Pages /\ page' = IF page = NPages - 1 THEN 0 ELSE page + 1
  BY PageTurn
<1>2. app' = [app EXCEPT ![page] = shadow[page]] /\ UNCHANGED shadow
  OBVIOUS
<1>3. \A p \in Pack!Pages : p < page => app[p] = shadow[p]
  BY DEF Course
<1>4. \A p \in Pack!Pages : p <= page => app'[p] = shadow'[p]
  BY <1>1, <1>2, <1>3
<1>5. page = NPages - 1 => app' = shadow
  BY <1>1, <1>2, <1>4
<1>6. QED
  BY <1>1, <1>4, <1>5

LEMMA PackNextCourse ==
  ASSUME Pack!PackBootAssumption, Pack!TypeOK, Course, [Pack!Next]_Pack!vars
  PROVE  Course'
<1> USE DEF Course
<1>1. CASE Pack!Boot
  BY <1>1 DEF Pack!Boot, Pack!StartCopy, Pack!Whole, Pack!TypeOK, Pack!Pages, Pack!PackBootAssumption
<1>2. CASE Pack!Wipe \/ Pack!WipeShadow
  BY <1>2 DEF Pack!Wipe, Pack!WipeShadow
<1>3. CASE Pack!CopyPage
  <2>1. \A p \in Pack!Pages : p < page' => app'[p] = shadow'[p]
    BY <1>3, LastPage DEF Pack!CopyPage
  <2>2. Pack!Whole(shadow)'
    BY <1>3 DEF Pack!CopyPage, Pack!Whole
  <2>3. pc' = "app" => Pack!Whole(app)'
    BY <1>3 DEF Pack!CopyPage, Pack!Whole
  <2>4. QED
    BY <1>3, <2>1, <2>2, <2>3 DEF Pack!CopyPage
<1>4. CASE Pack!Decide
  BY <1>4 DEF Pack!Decide, Pack!Launch, Pack!StartCopy, Pack!Whole, Pack!TypeOK, Pack!Pages, Pack!PackBootAssumption
<1>5. CASE Pack!Finish
  BY <1>5 DEF Pack!Finish, Pack!Launch, Pack!Whole
<1>6. CASE Pack!CountDown \/ Pack!Watchdog \/ Pack!Refuse
  BY <1>6 DEF Pack!CountDown, Pack!Watchdog, Pack!Refuse
<1>7. CASE Pack!Address \/ Pack!Block \/ Pack!Verify
  BY <1>7 DEF Pack!Address, Pack!Block, Pack!Verify
<1>8. CASE Pack!Stage
  BY <1>8 DEF Pack!Stage, Pack!Whole
<1>9. CASE Pack!Leave \/ Pack!Cut
  BY <1>9 DEF Pack!Leave, Pack!Cut
<1>10. CASE UNCHANGED Pack!vars
  BY <1>10 DEF Pack!vars, Pack!Whole
<1>11. QED
  BY <1>1, <1>2, <1>3, <1>4, <1>5, <1>6, <1>7, <1>8, <1>9, <1>10 DEF Pack!Next

LEMMA PackInitContract ==
  ASSUME Pack!Init
  PROVE  Pack!Contract!Init
  BY DEF Pack!Init, Pack!Contract!Init, Pack!Contract!None, Pack!None, Pack!Kept

\* While the banks stay as they are, so do the images kept.
LEMMA SameKept ==
  ASSUME UNCHANGED <<app, shadow>>
  PROVE  Pack!Kept' = Pack!Kept
  BY DEF Pack!Kept

\* A whole bank keeps its image.
LEMMA WholeKept ==
  Pack!Whole(app) \/ Pack!Whole(shadow) <=> Pack!Kept # {}
  BY DEF Pack!Whole, Pack!Kept

LEMMA LaunchKept ==
  ASSUME Pack!PackBootAssumption, Pack!Whole(app)
  PROVE  app[0] \in Pack!Kept
  BY DEF Pack!PackBootAssumption, Pack!Whole, Pack!Kept, Pack!Pages

\* The last page of a copy starts the image of the shadow; the pages before
\* keep the shadow as it is.
LEMMA CopyContract ==
  ASSUME Pack!PackBootAssumption, Pack!TypeOK, Course, Pack!CopyPage
  PROVE  [Pack!Contract!Next]_<<running, Pack!Kept, told>>
<1>1. Pack!Kept' \in SUBSET Images /\ shadow' = shadow /\ pc = "copy" /\ running = Pack!None
  BY DEF Pack!Kept, Pack!CopyPage, Pack!TypeOK
<1>2. Pack!Kept' # {}
  BY <1>1 DEF Course, Pack!Kept, Pack!Whole
<1>3. CASE page = NPages - 1 /\ Pack!Whole(app')
  <2>1. app' = shadow
    BY <1>1, <1>3, LastPage
  <2>2. app[0] = shadow[0]
    BY <1>1, <1>3 DEF Course, Pack!PackBootAssumption, Pack!Pages
  <2>3. \A i \in Images : (\A p \in Pack!Pages : app[p] = i) => \A p \in Pack!Pages : shadow[p] = i
    BY <1>1, <2>2 DEF Course, Pack!Whole, Pack!PackBootAssumption, Pack!Pages
  <2>4. Pack!Kept' = Pack!Kept
    BY <1>1, <2>1, <2>3 DEF Pack!Kept
  <2>5. app'[0] \in Pack!Kept
    BY <1>1, <2>1 DEF Course, Pack!Whole, Pack!Kept, Pack!PackBootAssumption, Pack!Pages
  <2>6. running' = app'[0] /\ told' = FALSE
    BY <1>3 DEF Pack!CopyPage
  <2>7. Pack!Contract!Start
    BY <1>1, <2>4, <2>5, <2>6 DEF Pack!Contract!Start, Pack!Contract!None, Pack!None
  <2>8. QED
    BY <2>7 DEF Pack!Contract!Next
<1>4. CASE ~(page = NPages - 1 /\ Pack!Whole(app'))
  <2>1. UNCHANGED <<running, told>>
    BY <1>4 DEF Pack!CopyPage
  <2>2. Pack!Contract!Write
    BY <1>1, <1>2, <2>1 DEF Pack!Contract!Write
  <2>3. QED
    BY <2>2 DEF Pack!Contract!Next
<1>5. QED
  BY <1>3, <1>4

\* Writing a bank under an order keeps the contract, whatever is written.
LEMMA ToldWrite ==
  ASSUME running' = running, told'
  PROVE  [Pack!Contract!Next]_<<running, Pack!Kept, told>>
<1>1. Pack!Kept' \in SUBSET Images
  BY DEF Pack!Kept
<1>2. Pack!Contract!Write
  BY <1>1 DEF Pack!Contract!Write
<1>3. QED
  BY <1>2 DEF Pack!Contract!Next

\* A start of the image of the first bank keeps it, once the bank is whole.
LEMMA LaunchContract ==
  ASSUME Pack!PackBootAssumption, Pack!TypeOK, pc = "loop", Pack!Whole(app), Pack!Launch,
         UNCHANGED <<app, shadow>>
  PROVE  [Pack!Contract!Next]_<<running, Pack!Kept, told>>
<1>1. running = Pack!None
  BY DEF Pack!TypeOK
<1>2. app[0] \in Pack!Kept /\ Pack!Kept' = Pack!Kept
  BY LaunchKept, SameKept
<1>3. Pack!Contract!Start
  BY <1>1, <1>2 DEF Pack!Contract!Start, Pack!Contract!None, Pack!None, Pack!Launch, Pack!ImageOf
<1>4. QED
  BY <1>3 DEF Pack!Contract!Next

\* The erase of a bank that is not whole costs no image.
LEMMA EraseContract ==
  ASSUME ~Pack!Whole(app), UNCHANGED <<shadow, running, told>>
  PROVE  [Pack!Contract!Next]_<<running, Pack!Kept, told>>
<1>1. Pack!Kept' \in SUBSET Images
  BY DEF Pack!Kept
<1>2. Pack!Kept # {} => Pack!Kept' # {}
  BY DEF Pack!Whole, Pack!Kept
<1>3. Pack!Contract!Write
  BY <1>1, <1>2 DEF Pack!Contract!Write
<1>4. QED
  BY <1>3 DEF Pack!Contract!Next

\* A step that leaves the banks, the image that runs and the order alone.
LEMMA QuietContract ==
  ASSUME UNCHANGED <<app, shadow, running, told>>
  PROVE  [Pack!Contract!Next]_<<running, Pack!Kept, told>>
  BY SameKept

\* A reset, by the image itself or by a loss of power.
LEMMA ResetContract ==
  ASSUME UNCHANGED <<app, shadow>>, running' = Pack!None, told' => told \/ running # Pack!None
  PROVE  [Pack!Contract!Next]_<<running, Pack!Kept, told>>
<1>1. Pack!Contract!Restart
  BY SameKept DEF Pack!Contract!Restart, Pack!Contract!None, Pack!None
<1>2. QED
  BY <1>1 DEF Pack!Contract!Next

LEMMA PackStepContract ==
  ASSUME Pack!PackBootAssumption, Pack!TypeOK, Course, [Pack!Next]_Pack!vars
  PROVE  [Pack!Contract!Next]_<<running, Pack!Kept, told>>
<1>1. CASE Pack!Boot \/ Pack!CountDown \/ Pack!Watchdog \/ Pack!Refuse
  <2>1. UNCHANGED <<app, shadow, running, told>>
    BY <1>1 DEF Pack!Boot, Pack!CountDown, Pack!Watchdog, Pack!Refuse
  <2>2. QED
    BY <2>1, QuietContract
<1>2. CASE Pack!Wipe \/ Pack!WipeShadow \/ Pack!Address \/ Pack!Block \/ Pack!Verify
  <2>1. running' = running /\ told'
    BY <1>2 DEF Course, Pack!Wipe, Pack!WipeShadow, Pack!Address, Pack!Block, Pack!Verify
  <2>2. QED
    BY <2>1, ToldWrite
<1>3. CASE Pack!CopyPage
  BY <1>3, CopyContract
<1>4. CASE Pack!Decide
  <2>1. CASE loop = {} /\ Pack!Whole(app)
    <3>1. pc = "loop" /\ Pack!Launch /\ UNCHANGED <<app, shadow>>
      BY <1>4, <2>1 DEF Pack!Decide
    <3>2. QED
      BY <2>1, <3>1, LaunchContract
  <2>2. CASE loop = {} /\ ~Pack!Whole(app)
    <3>1. UNCHANGED <<shadow, running, told>>
      BY <1>4, <2>2 DEF Pack!Decide
    <3>2. QED
      BY <2>2, <3>1, EraseContract
  <2>3. CASE loop # {}
    <3>1. UNCHANGED <<app, shadow, running, told>>
      BY <1>4, <2>3 DEF Pack!Decide
    <3>2. QED
      BY <3>1, QuietContract
  <2>4. QED
    BY <2>1, <2>2, <2>3
<1>5. CASE Pack!Finish
  <2>1. CASE Pack!Whole(app)
    <3>1. pc = "loop" /\ Pack!Launch /\ UNCHANGED <<app, shadow>>
      BY <1>5, <2>1 DEF Pack!Finish
    <3>2. QED
      BY <2>1, <3>1, LaunchContract
  <2>2. CASE ~Pack!Whole(app)
    <3>1. UNCHANGED <<shadow, running, told>>
      BY <1>5, <2>2 DEF Pack!Finish
    <3>2. QED
      BY <2>2, <3>1, EraseContract
  <2>3. QED
    BY <2>1, <2>2
<1>6. CASE Pack!Stage
  <2>1. Pack!Whole(app) /\ UNCHANGED <<app, running, told>>
    BY <1>6 DEF Pack!Stage, Course
  <2>2. Pack!Kept' # {} /\ Pack!Kept' \in SUBSET Images
    BY <2>1 DEF Pack!Kept, Pack!Whole
  <2>3. Pack!Contract!Write
    BY <2>1, <2>2 DEF Pack!Contract!Write
  <2>4. QED
    BY <2>3 DEF Pack!Contract!Next
<1>7. CASE Pack!Leave \/ Pack!Cut
  <2>1. UNCHANGED <<app, shadow>> /\ running' = Pack!None /\ (told' => told \/ running # Pack!None)
    BY <1>7 DEF Pack!Leave, Pack!Cut, Pack!TypeOK
  <2>2. QED
    BY <2>1, ResetContract
<1>8. CASE UNCHANGED Pack!vars
  <2>1. UNCHANGED <<app, shadow, running, told>>
    BY <1>8 DEF Pack!vars
  <2>2. QED
    BY <2>1, QuietContract
<1>9. QED
  BY <1>1, <1>2, <1>3, <1>4, <1>5, <1>6, <1>7, <1>8 DEF Pack!Next

LEMMA PackKept ==
  ASSUME Pack!PackBootAssumption, Pack!TypeOK, Course, [Pack!Next]_Pack!vars
  PROVE  (Pack!TypeOK /\ Course)'
  BY TypeParts, NextSwitches, NextShapes, PackNextCourse DEF Pack!TypeOK, Switches, Shapes

\* bmsboot keeps the contract of a loader with two banks (main.c:35-105,
\* image.c:22-71): across every loss of power it starts only an image that is
\* whole, and gives the last one up only under an order.
THEOREM PackImplements ==
  ASSUME Pack!PackBootAssumption
  PROVE  Pack!Spec => Pack!Implements
<1>1. Pack!Init => Pack!TypeOK /\ Course /\ Pack!Contract!Init
  BY PackInitTyped, PackInitCourse, PackInitContract
<1>2. Pack!TypeOK /\ Course /\ [Pack!Next]_Pack!vars => (Pack!TypeOK /\ Course)'
  BY PackKept
<1>3. Pack!TypeOK /\ Course /\ [Pack!Next]_Pack!vars => [Pack!Contract!Next]_<<running, Pack!Kept, told>>
  BY PackStepContract
<1>4. QED
  BY <1>1, <1>2, <1>3, PTL DEF Pack!Spec, Pack!Implements, Pack!Contract!Spec

-----------------------------------------------------------------------------
(* The power bank: type correctness                                         *)

BankSwitches == busy \in BOOLEAN /\ told \in BOOLEAN
BankShapes ==
    /\ app \in [Bank!Pages -> Bank!Contents] /\ shadow \in [Bank!Pages -> Bank!Contents]
    /\ finished \in {"yes", "no", "torn"}
    /\ pc \in {"boot", "toApp", "toShadow", "loop", "app"}
    /\ page \in Bank!Pages /\ target \in Bank!Pages \cup {Bank!NoPage}
    /\ target # Bank!NoPage => busy
    /\ running \in Images \cup {Bank!None} /\ (running # Bank!None <=> pc = "app")
    /\ cuts \in 0..MaxCuts /\ orders \in 0..MaxOrders

LEMMA BankTypeParts == Bank!TypeOK <=> BankSwitches /\ BankShapes
  BY DEF Bank!TypeOK, BankSwitches, BankShapes

LEMMA BankInitTyped ==
  ASSUME Bank!BankBootAssumption, Bank!Init
  PROVE  Bank!TypeOK
<1>1. BankSwitches
  BY DEF Bank!Init, BankSwitches
<1>2. BankShapes
  BY DEF Bank!BankBootAssumption, Bank!Init, BankShapes, Bank!Pages, Bank!Contents,
     Bank!NoPage, Bank!None
<1>3. QED
  BY <1>1, <1>2, BankTypeParts

LEMMA BankNextSwitches ==
  ASSUME BankSwitches, [Bank!Next]_Bank!vars
  PROVE  BankSwitches'
  BY Zenon DEF BankSwitches, Bank!Next, Bank!vars, Bank!Boot, Bank!CopyToApp,
     Bank!CopyToShadow, Bank!Watchdog, Bank!Erase, Bank!Block, Bank!Stage, Bank!Leave,
     Bank!Cut, Bank!GotoApplication

LEMMA BankWholeStarts ==
  ASSUME Bank!BankBootAssumption, NEW bank, Bank!Whole(bank)
  PROVE  bank[0] \in Images /\ \A p \in Bank!Pages : bank[p] = bank[0]
  BY DEF Bank!BankBootAssumption, Bank!Whole, Bank!Pages

\* The image at AP stays whole while the backup is renewed from it.
BankCourse ==
    /\ pc = "toApp" =>
         Bank!Whole(shadow) /\ \A p \in Bank!Pages : p < page => app[p] = shadow[p]
    /\ pc = "toShadow" =>
         Bank!Whole(app) /\ \A p \in Bank!Pages : p < page => shadow[p] = app[p]
    /\ pc = "app" => Bank!Whole(app)
    /\ pc = "loop" /\ target # Bank!NoPage => told

LEMMA BankNextShapes ==
  ASSUME Bank!BankBootAssumption, BankShapes, BankCourse, [Bank!Next]_Bank!vars
  PROVE  BankShapes'
<1> USE DEF Bank!BankBootAssumption, BankShapes, Bank!Pages, Bank!Contents, Bank!NoPage,
    Bank!None
<1>1. CASE Bank!Boot
  <2>1. Bank!Whole(app) => app[0] \in Images
    BY BankWholeStarts
  <2>2. /\ finished' \in {"yes", "no", "torn"} /\ page' \in Bank!Pages
        /\ target' = Bank!NoPage /\ UNCHANGED <<app, shadow, cuts, orders>>
    BY <1>1 DEF Bank!Boot, Bank!GotoApplication
  <2>3. /\ running' \in Images \cup {Bank!None}
        /\ running' # Bank!None <=> pc' = "app"
        /\ pc' \in {"toApp", "toShadow", "loop", "app"}
    BY <1>1, <2>1 DEF Bank!Boot, Bank!GotoApplication
  <2>4. QED
    BY <2>2, <2>3
<1>2. CASE Bank!CopyToApp
  <2>1. app' \in [Bank!Pages -> Bank!Contents] /\ page' \in Bank!Pages
    BY <1>2 DEF Bank!CopyToApp
  <2>2. Bank!Whole(app') => app'[0] \in Images
    BY BankWholeStarts
  <2>3. QED
    BY <1>2, <2>1, <2>2 DEF Bank!CopyToApp, Bank!GotoApplication
<1>3. CASE Bank!CopyToShadow
  <2>1. shadow' \in [Bank!Pages -> Bank!Contents] /\ page' \in Bank!Pages
    BY <1>3 DEF Bank!CopyToShadow
  <2>2. app[0] \in Images
    BY <1>3, BankWholeStarts DEF BankCourse, Bank!CopyToShadow
  <2>3. QED
    BY <1>3, <2>1, <2>2 DEF Bank!CopyToShadow, Bank!GotoApplication
<1>4. CASE Bank!Watchdog
  BY <1>4 DEF Bank!Watchdog
<1>5. CASE Bank!Erase
  BY <1>5 DEF Bank!Erase, Bank!Ordered
<1>6. CASE Bank!Block
  BY <1>6 DEF Bank!Block, Bank!Ordered
<1>7. CASE Bank!Stage
  BY <1>7 DEF Bank!Stage, Bank!Ordered
<1>8. CASE Bank!Leave
  BY <1>8 DEF Bank!Leave, Bank!Ordered
<1>9. CASE Bank!Cut
  BY <1>9 DEF Bank!Cut
<1>10. CASE UNCHANGED Bank!vars
  BY <1>10 DEF Bank!vars
<1>11. QED
  BY <1>1, <1>2, <1>3, <1>4, <1>5, <1>6, <1>7, <1>8, <1>9, <1>10 DEF Bank!Next

\* The power bank's half of the same argument: a bank that equals a whole one
\* up to its last page becomes it with that page, and was whole only with the
\* same image.
LEMMA LastCopied ==
  ASSUME Bank!BankBootAssumption, NEW from \in [Bank!Pages -> Bank!Contents],
         NEW to \in [Bank!Pages -> Bank!Contents], Bank!Whole(from),
         \A p \in Bank!Pages : p < NPages - 1 => to[p] = from[p]
  PROVE  /\ [to EXCEPT ![NPages - 1] = from[NPages - 1]] = from
         /\ \A i \in Images : (\A p \in Bank!Pages : to[p] = i) => \A p \in Bank!Pages : from[p] = i
<1>1. [to EXCEPT ![NPages - 1] = from[NPages - 1]] = from
  BY DEF Bank!BankBootAssumption, Bank!Pages
<1>2. to[0] = from[0]
  BY DEF Bank!BankBootAssumption, Bank!Pages
<1>3. ASSUME NEW i \in Images, \A p \in Bank!Pages : to[p] = i
      PROVE  \A p \in Bank!Pages : from[p] = i
  BY <1>2, <1>3 DEF Bank!BankBootAssumption, Bank!Pages, Bank!Whole
<1>4. QED
  BY <1>1, <1>3

LEMMA BankInitCourse ==
  ASSUME Bank!Init
  PROVE  BankCourse
  BY DEF Bank!Init, BankCourse

LEMMA BankNextCourse ==
  ASSUME Bank!BankBootAssumption, Bank!TypeOK, BankCourse, [Bank!Next]_Bank!vars
  PROVE  BankCourse'
<1> USE DEF BankCourse
<1>1. CASE Bank!Boot
  BY <1>1 DEF Bank!Boot, Bank!GotoApplication, Bank!Whole, Bank!BankBootAssumption,
     Bank!Pages
<1>2. CASE Bank!CopyToApp
  <2>1. \A p \in Bank!Pages : p < page' => app'[p] = shadow'[p]
    <3>1. page \in Bank!Pages /\ page' = IF page = NPages - 1 THEN 0 ELSE page + 1
      BY <1>2, PageTurn DEF Bank!CopyToApp, Bank!TypeOK, Bank!BankBootAssumption, Bank!Pages
    <3>2. app' = [app EXCEPT ![page] = shadow[page]] /\ UNCHANGED shadow /\ pc = "toApp"
      BY <1>2 DEF Bank!CopyToApp
    <3>3. app \in [Bank!Pages -> Bank!Contents]
      BY DEF Bank!TypeOK
    <3>4. QED
      BY <3>1, <3>2, <3>3 DEF Bank!BankBootAssumption, Bank!Pages
  <2>2. Bank!Whole(shadow)' /\ (pc' = "app" => Bank!Whole(app)')
    BY <1>2 DEF Bank!CopyToApp, Bank!Whole
  <2>3. QED
    BY <1>2, <2>1, <2>2 DEF Bank!CopyToApp, Bank!GotoApplication
<1>3. CASE Bank!CopyToShadow
  <2>1. \A p \in Bank!Pages : p < page' => shadow'[p] = app'[p]
    BY <1>3 DEF Bank!CopyToShadow, Bank!TypeOK, Bank!BankBootAssumption, Bank!Pages
  <2>2. Bank!Whole(app)'
    BY <1>3 DEF Bank!CopyToShadow, Bank!Whole
  <2>3. QED
    BY <1>3, <2>1, <2>2 DEF Bank!CopyToShadow, Bank!GotoApplication
<1>4. CASE Bank!Watchdog \/ Bank!Leave \/ Bank!Cut
  BY <1>4 DEF Bank!Watchdog, Bank!Leave, Bank!Cut
<1>5. CASE Bank!Erase \/ Bank!Block
  BY <1>5 DEF Bank!Erase, Bank!Block
<1>6. CASE Bank!Stage
  BY <1>6 DEF Bank!Stage, Bank!Whole
<1>7. CASE UNCHANGED Bank!vars
  BY <1>7 DEF Bank!vars, Bank!Whole
<1>8. QED
  BY <1>1, <1>2, <1>3, <1>4, <1>5, <1>6, <1>7 DEF Bank!Next

LEMMA BankKept ==
  ASSUME Bank!BankBootAssumption, Bank!TypeOK, BankCourse, [Bank!Next]_Bank!vars
  PROVE  (Bank!TypeOK /\ BankCourse)'
<1> SUFFICES ASSUME Bank!TypeOK, BankCourse, [Bank!Next]_Bank!vars
             PROVE  Bank!TypeOK' /\ BankCourse'
  OBVIOUS
<1>1. BankSwitches' /\ BankShapes'
  BY BankTypeParts, BankNextSwitches, BankNextShapes
<1>2. Bank!TypeOK'
  BY <1>1 DEF Bank!TypeOK, BankSwitches, BankShapes
<1>3. QED
  BY <1>2, BankNextCourse

\* The banks, the registers, the copies and the download keep their types
\* (boot.c, ota.c and image.c of powerbankboot); that a copy starts an image
\* needs the course of the copy.
THEOREM BankTyped ==
  ASSUME Bank!BankBootAssumption
  PROVE  Bank!Spec => [](Bank!TypeOK /\ BankCourse)
<1>1. Bank!Init => Bank!TypeOK /\ BankCourse
  BY BankInitTyped, BankInitCourse
<1>2. Bank!TypeOK /\ BankCourse /\ [Bank!Next]_Bank!vars => (Bank!TypeOK /\ BankCourse)'
  BY BankKept
<1>3. QED
  BY <1>1, <1>2, PTL DEF Bank!Spec

-----------------------------------------------------------------------------
(* The power bank keeps the contract                                        *)

LEMMA BankSameKept ==
  ASSUME UNCHANGED <<app, shadow>>
  PROVE  Bank!Kept' = Bank!Kept
  BY DEF Bank!Kept

LEMMA BankWholeKept ==
  ASSUME Bank!BankBootAssumption
  PROVE  /\ Bank!Whole(app) => app[0] \in Bank!Kept
         /\ Bank!Whole(shadow) => shadow[0] \in Bank!Kept
         /\ Bank!Kept # {} => Bank!Whole(app) \/ Bank!Whole(shadow)
  BY DEF Bank!BankBootAssumption, Bank!Whole, Bank!Kept, Bank!Pages

\* A start of a kept image out of the loader.
LEMMA BankStarts ==
  ASSUME Bank!BankBootAssumption, Bank!TypeOK, pc # "app", NEW bank,
         bank[0] \in Bank!Kept, Bank!GotoApplication(bank), Bank!Kept' = Bank!Kept
  PROVE  Bank!Contract!Next
<1>1. running = Bank!None
  BY DEF Bank!TypeOK
<1>2. Bank!Contract!Start
  BY <1>1 DEF Bank!Contract!Start, Bank!Contract!None, Bank!None, Bank!GotoApplication
<1>3. QED
  BY <1>2 DEF Bank!Contract!Next

\* A page of a copy leaves the bank it is copied from whole.
LEMMA BankCopies ==
  ASSUME UNCHANGED <<running, told>>, Bank!Whole(app)' \/ Bank!Whole(shadow)'
  PROVE  Bank!Contract!Next
<1>1. Bank!Kept' # {} /\ Bank!Kept' \in SUBSET Images
  BY DEF Bank!Kept, Bank!Whole
<1>2. Bank!Contract!Write
  BY <1>1 DEF Bank!Contract!Write
<1>3. QED
  BY <1>2 DEF Bank!Contract!Next

\* Installing the upgrade: the start that follows the last page.
LEMMA ToAppContract ==
  ASSUME Bank!BankBootAssumption, Bank!TypeOK, BankCourse, Bank!CopyToApp
  PROVE  Bank!Contract!Next
<1>1. /\ pc = "toApp" /\ Bank!Whole(shadow) /\ shadow' = shadow
      /\ \A p \in Bank!Pages : p < page => app[p] = shadow[p]
  BY DEF Bank!CopyToApp, BankCourse
<1>2. CASE page = NPages - 1 /\ Bank!Whole(app')
  <2>1. /\ app' = shadow
        /\ \A i \in Images :
             (\A p \in Bank!Pages : app[p] = i) => \A p \in Bank!Pages : shadow[p] = i
    BY <1>1, <1>2, LastCopied DEF Bank!CopyToApp, Bank!TypeOK
  <2>2. Bank!Kept' = Bank!Kept /\ app'[0] \in Bank!Kept
    BY <1>1, <2>1, BankWholeKept DEF Bank!Kept
  <2>3. Bank!GotoApplication(app')
    BY <1>2 DEF Bank!CopyToApp
  <2>4. QED
    BY <1>1, <2>2, <2>3, BankStarts
<1>3. CASE ~(page = NPages - 1 /\ Bank!Whole(app'))
  <2>1. UNCHANGED <<running, told>>
    BY <1>3 DEF Bank!CopyToApp
  <2>2. Bank!Whole(shadow)'
    BY <1>1 DEF Bank!Whole
  <2>3. QED
    BY <2>1, <2>2, BankCopies
<1>4. QED
  BY <1>2, <1>3

\* Renewing the backup from the image that is about to run.
LEMMA ToShadowContract ==
  ASSUME Bank!BankBootAssumption, Bank!TypeOK, BankCourse, Bank!CopyToShadow
  PROVE  Bank!Contract!Next
<1>1. /\ pc = "toShadow" /\ Bank!Whole(app) /\ app' = app
      /\ \A p \in Bank!Pages : p < page => shadow[p] = app[p]
  BY DEF Bank!CopyToShadow, BankCourse
<1>2. CASE page = NPages - 1 /\ Bank!Whole(shadow')
  <2>1. /\ shadow' = app
        /\ \A i \in Images :
             (\A p \in Bank!Pages : shadow[p] = i) => \A p \in Bank!Pages : app[p] = i
    BY <1>1, <1>2, LastCopied DEF Bank!CopyToShadow, Bank!TypeOK
  <2>2. Bank!Kept' = Bank!Kept /\ app[0] \in Bank!Kept
    BY <1>1, <2>1, BankWholeKept DEF Bank!Kept
  <2>3. Bank!GotoApplication(app)
    BY <1>2 DEF Bank!CopyToShadow
  <2>4. QED
    BY <1>1, <2>2, <2>3, BankStarts
<1>3. CASE ~(page = NPages - 1 /\ Bank!Whole(shadow'))
  <2>1. UNCHANGED <<running, told>>
    BY <1>3 DEF Bank!CopyToShadow
  <2>2. Bank!Whole(app)'
    BY <1>1 DEF Bank!Whole
  <2>3. QED
    BY <2>1, <2>2, BankCopies
<1>4. QED
  BY <1>2, <1>3

LEMMA BankStepContract ==
  ASSUME Bank!BankBootAssumption, Bank!TypeOK, BankCourse, [Bank!Next]_Bank!vars
  PROVE  [Bank!Contract!Next]_<<running, Bank!Kept, told>>
<1>1. CASE Bank!Boot
  <2>1. UNCHANGED <<app, shadow>> /\ Bank!Kept' = Bank!Kept /\ pc # "app"
    BY <1>1, BankSameKept DEF Bank!Boot
  <2>2. CASE UNCHANGED <<running, told>>
    BY <2>1, <2>2
  <2>3. CASE Bank!Whole(app) /\ Bank!GotoApplication(app)
    BY <2>1, <2>3, BankWholeKept, BankStarts
  <2>4. QED
    BY <1>1, <2>2, <2>3 DEF Bank!Boot
<1>2. CASE Bank!CopyToApp
  BY <1>2, ToAppContract
<1>3. CASE Bank!CopyToShadow
  BY <1>3, ToShadowContract
<1>4. CASE Bank!Erase \/ Bank!Block
  <2>1. running' = running /\ told' /\ Bank!Kept' \in SUBSET Images
    BY <1>4 DEF Bank!Erase, Bank!Block, BankCourse, Bank!Kept
  <2>2. Bank!Contract!Write
    BY <2>1 DEF Bank!Contract!Write
  <2>3. QED
    BY <2>2 DEF Bank!Contract!Next
<1>5. CASE Bank!Stage
  <2>1. UNCHANGED <<running, told>> /\ Bank!Whole(app)'
    BY <1>5 DEF Bank!Stage, BankCourse, Bank!Whole
  <2>2. QED
    BY <2>1, BankCopies
<1>6. CASE Bank!Leave \/ Bank!Cut
  <2>1. running' = Bank!None /\ told' = told /\ Bank!Kept' = Bank!Kept
    BY <1>6, BankSameKept DEF Bank!Leave, Bank!Cut
  <2>2. Bank!Contract!Restart
    BY <2>1 DEF Bank!Contract!Restart, Bank!Contract!None, Bank!None
  <2>3. QED
    BY <2>2 DEF Bank!Contract!Next
<1>7. CASE Bank!Watchdog \/ UNCHANGED Bank!vars
  <2>1. UNCHANGED <<app, shadow, running, told>>
    BY <1>7 DEF Bank!Watchdog, Bank!vars
  <2>2. QED
    BY <2>1, BankSameKept
<1>8. QED
  BY <1>1, <1>2, <1>3, <1>4, <1>5, <1>6, <1>7 DEF Bank!Next

LEMMA BankInitContract == Bank!Init => Bank!Contract!Init
  BY DEF Bank!Init, Bank!Contract!Init, Bank!Contract!None, Bank!None, Bank!Kept

\* powerbankboot keeps the same contract (boot.c:45-116, image.c:23-77): it
\* starts only a whole image, and neither an install nor the renewal of the
\* backup, cut anywhere, costs the last one.
THEOREM BankImplements ==
  ASSUME Bank!BankBootAssumption
  PROVE  Bank!Spec => Bank!Implements
<1>1. Bank!Init => Bank!Contract!Init
  BY BankInitContract
<1>2. Bank!TypeOK /\ BankCourse /\ [Bank!Next]_Bank!vars
        => [Bank!Contract!Next]_<<running, Bank!Kept, told>>
  BY BankStepContract
<1>3. Bank!Spec => [](Bank!TypeOK /\ BankCourse)
  BY BankTyped
<1>4. QED
  BY <1>1, <1>2, <1>3, PTL DEF Bank!Spec, Bank!Implements, Bank!Contract!Spec

-----------------------------------------------------------------------------
(* The shifter's loader, which never sums the slot it starts                *)

SlotShapes ==
    /\ slot1 \in [Shifter!Pages -> Shifter!Contents]
    /\ slot2 \in [Shifter!Pages -> Shifter!Contents]
    /\ page \in Shifter!Pages
    /\ pc \in {"check", "erase1", "erase2", "copy", "wipe2", "wait", "decide",
               "loop", "drop1", "app"}

\* A header stands before a whole image.
Sound(bank) == Shifter!Header(bank) => Shifter!Whole(bank)

\* Outside the replacement of slot 2.
Untouched == pc \notin {"erase2", "copy", "wipe2"} => Sound(slot2) \/ torn

\* What is copied was summed; the header goes first, to pages that are blank.
Replacement ==
    /\ pc \in {"erase2", "copy"} => slot1[0] \in Images /\ Shifter!Whole(slot1)
    /\ pc = "erase2" => (IF page = 0 THEN Sound(slot2) \/ torn ELSE slot2[0] = "blank")
    /\ pc = "copy" /\ page = 0 => slot2[0] = "blank"
    /\ pc = "copy" => \A p \in Shifter!Pages : p < page => slot2[p] = slot1[p]
    /\ pc = "wipe2" /\ page # 0 => slot2[0] = "blank"
    /\ pc = "wait" => page = 0

\* valid2 was read before the slot was replaced, and holds for it still.
Verdict ==
    /\ pc \in {"erase1", "wait", "decide"} /\ valid2 => Shifter!Whole(slot2) \/ torn
    /\ Shifter!RightImageRuns

Mirror == SlotShapes /\ Untouched /\ Replacement /\ Verdict

LEMMA MirrorInit ==
  ASSUME Shifter!ShifterBootAssumption, Shifter!Init
  PROVE  Mirror
<1> USE DEF Shifter!ShifterBootAssumption, Shifter!Init, Shifter!Pages, Shifter!Contents,
        Shifter!Blank, Shifter!Header, Shifter!Whole
<1>1. SlotShapes
  BY DEF SlotShapes
<1>2. Untouched
  BY DEF Untouched, Sound
<1>3. Replacement /\ Verdict
  BY DEF Replacement, Verdict, Shifter!RightImageRuns
<1>4. QED
  BY <1>1, <1>2, <1>3 DEF Mirror

LEMMA MirrorStep ==
  ASSUME Shifter!ShifterBootAssumption, Mirror, [Shifter!Next]_Shifter!vars
  PROVE  Mirror'
<1> USE DEF Shifter!ShifterBootAssumption, Mirror, SlotShapes, Shifter!Pages
<1>0. /\ NPages \in Nat \ {0, 1} /\ page \in 0 .. NPages - 1 /\ 0 \in Shifter!Pages
      /\ (page + 1) % NPages = IF page = NPages - 1 THEN 0 ELSE page + 1
  BY PageTurn
<1>1. CASE Shifter!Check
  BY <1>0, <1>1 DEF Shifter!Check, Untouched, Replacement, Verdict, Shifter!RightImageRuns,
     Sound, Shifter!Header
<1>2. CASE Shifter!Erase1 \/ Shifter!Drop1
  BY <1>0, <1>2 DEF Shifter!Erase1, Shifter!Drop1, Untouched, Replacement,
     Verdict, Shifter!RightImageRuns, Sound, Shifter!Header, Shifter!Contents, Shifter!Whole
<1>3. CASE Shifter!Erase2
  BY <1>0, <1>3 DEF Shifter!Erase2, Untouched, Replacement, Verdict, Shifter!RightImageRuns,
     Sound, Shifter!Header, Shifter!Contents, Shifter!Whole
<1>4. CASE Shifter!Copy
  BY <1>0, <1>4 DEF Shifter!Copy, Untouched, Replacement, Verdict, Shifter!RightImageRuns,
     Sound, Shifter!Header, Shifter!Contents, Shifter!Whole
<1>5. CASE Shifter!Wait
  BY <1>0, <1>5 DEF Shifter!Wait, Untouched, Replacement, Verdict, Shifter!RightImageRuns,
     Sound, Shifter!Header, Shifter!Whole
<1>6. CASE Shifter!Wipe2
  <2>1. SlotShapes'
    BY <1>0, <1>6 DEF Shifter!Wipe2, Shifter!Contents
  <2>2. slot2'[0] = "blank"
    BY <1>0, <1>6 DEF Shifter!Wipe2, Replacement
  <2>3. ~Shifter!Header(slot2)'
    BY <2>2 DEF Shifter!Header
  <2>4. page = NPages - 1 => page' = 0 /\ pc' = "decide" /\ ~valid2'
    <3>1. page = NPages - 1 => page' = 0 /\ pc' = "decide"
      BY <1>0, <1>6 DEF Shifter!Wipe2
    <3>2. page = NPages - 1 => valid2' = Shifter!Header(slot2)'
      BY <1>6 DEF Shifter!Wipe2, Shifter!Header
    <3>3. QED
      BY <2>3, <3>1, <3>2
  <2>5. page # NPages - 1 => pc' = "wipe2"
    BY <1>6 DEF Shifter!Wipe2
  <2>6. Untouched' /\ Replacement' /\ Verdict'
    BY <1>6, <2>2, <2>3, <2>4, <2>5 DEF Shifter!Wipe2, Untouched, Replacement, Verdict,
       Shifter!RightImageRuns, Sound
  <2>7. QED
    BY <2>1, <2>6
<1>7. CASE Shifter!Decide
  BY <1>0, <1>7 DEF Shifter!Decide, Untouched, Replacement, Verdict, Shifter!RightImageRuns,
     Sound, Shifter!Header, Shifter!Whole
<1>8. CASE Shifter!Apply \/ Shifter!EraseOrder
  BY <1>0, <1>8 DEF Shifter!Apply, Shifter!EraseOrder, Shifter!Ordered, Untouched, Replacement,
     Verdict, Shifter!RightImageRuns, Sound, Shifter!Header
<1>9. CASE Shifter!Chunk
  <2>1. PICK at \in Shifter!Pages, new \in Images \cup {Alien, "junk"} :
          slot1' = [slot1 EXCEPT ![at] = Shifter!Programmed(@, new)]
    BY <1>9 DEF Shifter!Chunk
  <2>2. slot1' \in [Shifter!Pages -> Shifter!Contents]
    BY <2>1 DEF Shifter!Programmed, Shifter!Contents
  <2>3. pc = "loop" /\ UNCHANGED <<slot2, pc, page, valid2, torn>>
    BY <1>9 DEF Shifter!Chunk
  <2>4. QED
    BY <2>2, <2>3 DEF Untouched, Replacement, Verdict, Shifter!RightImageRuns, Sound,
       Shifter!Header, Shifter!Whole
<1>10. CASE Shifter!Staged
  BY <1>0, <1>10 DEF Shifter!Staged, Untouched, Replacement, Verdict, Shifter!RightImageRuns,
     Sound, Shifter!Header, Shifter!Contents, Shifter!Whole
<1>11. CASE Shifter!Cut
  <2>1. /\ pc' = "check" /\ page' = 0 /\ UNCHANGED <<slot1, slot2>>
        /\ torn \/ (pc = "copy" /\ page > 0) \/ pc = "wipe2" => torn'
    BY <1>11 DEF Shifter!Cut
  <2>2. Sound(slot2) \/ torn \/ (pc = "copy" /\ page > 0) \/ pc = "wipe2"
    BY <1>0 DEF Untouched, Replacement, Sound, Shifter!Header
  <2>3. Untouched'
    BY <2>1, <2>2 DEF Untouched, Sound, Shifter!Header, Shifter!Whole
  <2>4. QED
    BY <1>0, <2>1, <2>3 DEF Replacement, Verdict, Shifter!RightImageRuns
<1>12. CASE UNCHANGED Shifter!vars
  BY <1>12 DEF Shifter!vars, Untouched, Replacement, Verdict, Shifter!RightImageRuns,
     Sound, Shifter!Header, Shifter!Whole
<1>13. QED
  BY <1>1, <1>2, <1>3, <1>4, <1>5, <1>6, <1>7, <1>8, <1>9, <1>10, <1>11, <1>12
     DEF Shifter!Next

\* The shifter's loader starts a whole image, although it goes by the header
\* alone: only a loss of power inside the copy leaves a header before a part
\* (main.c:171-236, flash.c:249-259).
THEOREM ShifterStartsWhole ==
  ASSUME Shifter!ShifterBootAssumption
  PROVE  Shifter!Spec => []Shifter!RightImageRuns
<1>1. Shifter!Init => Mirror
  BY MirrorInit
<1>2. Mirror /\ [Shifter!Next]_Shifter!vars => Mirror'
  BY MirrorStep
<1>3. Mirror => Shifter!RightImageRuns
  BY DEF Mirror, Verdict
<1>4. QED
  BY <1>1, <1>2, <1>3, PTL DEF Shifter!Spec

-----------------------------------------------------------------------------
(* The coprocessor's loader, which may start an image it has not summed     *)

Kinds == [magic : BOOLEAN, at16 : Ble!Marks, at17 : Ble!Marks, crc : Images \cup {"none"},
          body : Ble!Bodies]

Pictures ==
    /\ ext \in [Ble!Slots -> Kinds]
    /\ int \in [image : Ble!Bodies, mark : Ble!Marks]
    /\ slot \in 0 .. NSlots

\* A copy is cut short only when some slot has the magic; then the full scan
\* finds a slot, again after every refusal, and the quick scan is not reached.
ScanFinds ==
    /\ int.image = "part" => \E s \in Ble!Slots : ext[s].magic
    /\ pc = "quick" => \A s \in Ble!Slots : ~ext[s].magic
    /\ pc = "iterate" => slot = 0 \/ (slot \in Ble!Slots /\ ext[slot].magic)
    /\ pc \in {"header", "copy", "sum"} => slot \in Ble!Slots /\ ext[slot].magic

Scan == Pictures /\ ScanFinds /\ Ble!OnlyWholeImages

LEMMA ScanInit ==
  ASSUME Ble!BleBootAssumption, Ble!Init
  PROVE  Scan
  BY DEF Ble!BleBootAssumption, Ble!Init, Scan, Pictures, ScanFinds, Kinds, Ble!Slots,
     Ble!Marks, Ble!Bodies, Ble!Empty, Ble!OnlyWholeImages

LEMMA ScanStep ==
  ASSUME Ble!BleBootAssumption, Scan, [Ble!Next]_Ble!vars
  PROVE  Scan'
<1> USE DEF Ble!BleBootAssumption, Scan, Pictures, ScanFinds, Ble!OnlyWholeImages, Ble!Goto
<1>0. 0 \in Ble!Slots /\ Ble!Slots \subseteq 0 .. NSlots
  BY DEF Ble!Slots
<1>1. CASE Ble!Prepare
  BY <1>1 DEF Ble!Prepare
<1>2. CASE Ble!Iterate
  BY <1>0, <1>2 DEF Ble!Iterate, Ble!Slots
<1>3. CASE Ble!Header
  BY <1>3 DEF Ble!Header
<1>4. CASE Ble!Copy
  BY <1>0, <1>4 DEF Ble!Copy, Kinds, Ble!Marks, Ble!Bodies
<1>5. CASE Ble!Sum
  BY <1>0, <1>5 DEF Ble!Sum, Kinds, Ble!Marks, Ble!Bodies, Ble!Marked, Ble!LaunchInternal
<1>6. CASE Ble!Quick
  BY <1>6 DEF Ble!Quick, Ble!LaunchInternal
<1>7. CASE Ble!Last
  BY <1>0, <1>7 DEF Ble!Last, Kinds, Ble!Marks, Ble!Bodies
<1>8. CASE Ble!Send
  BY <1>0, <1>8 DEF Ble!Send, Kinds, Ble!Marks, Ble!Bodies
<1>9. CASE Ble!Cut
  BY <1>9 DEF Ble!Cut, Ble!Marks, Ble!Bodies
<1>10. CASE UNCHANGED Ble!vars
  BY <1>10 DEF Ble!vars
<1>11. QED
  BY <1>1, <1>2, <1>3, <1>4, <1>5, <1>6, <1>7, <1>8, <1>9, <1>10 DEF Ble!Next

\* The coprocessor's loader starts no part of an image, although the quick
\* scan goes by the marker alone (bleboot oad.c:345-384, 424-539).
THEOREM BleStartsWhole ==
  ASSUME Ble!BleBootAssumption
  PROVE  Ble!Spec => []Ble!OnlyWholeImages
<1>1. Ble!Init => Scan
  BY ScanInit
<1>2. Scan /\ [Ble!Next]_Ble!vars => Scan'
  BY ScanStep
<1>3. Scan => Ble!OnlyWholeImages
  BY DEF Scan
<1>4. QED
  BY <1>1, <1>2, <1>3, PTL DEF Ble!Spec

-----------------------------------------------------------------------------
(* The machines of MCUpdates                                                 *)

LEMMA UpdatesSteps ==
  ASSUME [AnyNext]_all
  PROVE  /\ which' = which
         /\ which = "order" => [Order!Next]_Order!vars
         /\ which = "pack" => [Pack!Next]_Pack!vars
         /\ which = "bank" => [Bank!Next]_Bank!vars
         /\ which = "shifter" => [Shifter!Next]_Shifter!vars
         /\ which = "ble" => [Ble!Next]_Ble!vars
<1>1. CASE UNCHANGED all
  <2>1. UNCHANGED Order!vars
    BY <1>1 DEF all, Order!vars, Order!link, Order!file, Order!rec, Order!walk, Order!env
  <2>2. UNCHANGED Pack!vars /\ UNCHANGED Bank!vars
    BY <1>1 DEF all, Pack!vars, Bank!vars
  <2>3. UNCHANGED Shifter!vars /\ UNCHANGED Ble!vars
    BY <1>1 DEF all, Shifter!vars, Ble!vars
  <2>4. QED
    BY <1>1, <2>1, <2>2, <2>3 DEF all
<1>2. CASE AnyNext
  BY <1>2 DEF AnyNext, OrderNext, RecordNext, PackNext, BankNext, ShifterNext, BleNext,
     OrderStill, RecordStill, PackStill, BankStill, ShifterStill, BleStill
<1>3. QED
  BY <1>1, <1>2

UpdatesInv == /\ which = "order" => Order!PushedIsSound /\ Forgotten
              /\ which = "pack" => Pack!TypeOK /\ Course
              /\ which = "bank" => Bank!TypeOK /\ BankCourse
              /\ which = "shifter" => Mirror
              /\ which = "ble" => Scan

LEMMA UpdatesBegin == AnyInit => UpdatesInv
<1>1. CASE OrderInit
  BY <1>1, PushedBegin, ForgottenBegins DEF OrderInit, UpdatesInv
<1>2. CASE RecordInit
  BY <1>2 DEF RecordInit, UpdatesInv
<1>3. CASE PackInit
  BY <1>3, MCUpdatesAssumption, PackInitTyped, PackInitCourse DEF PackInit, UpdatesInv
<1>4. CASE BankInit
  BY <1>4, MCUpdatesAssumption, BankInitTyped, BankInitCourse DEF BankInit, UpdatesInv
<1>5. CASE ShifterInit
  BY <1>5, MCUpdatesAssumption, MirrorInit DEF ShifterInit, UpdatesInv
<1>6. CASE BleInit
  BY <1>6, MCUpdatesAssumption, ScanInit DEF BleInit, UpdatesInv
<1>7. QED
  BY <1>1, <1>2, <1>3, <1>4, <1>5, <1>6 DEF AnyInit

LEMMA UpdatesKept == ASSUME UpdatesInv, [AnyNext]_all PROVE UpdatesInv'
<1>1. which = "order" => Order!PushedIsSound' /\ Forgotten'
  BY UpdatesSteps, PushedStep, ForgottenStep DEF UpdatesInv
<1>2. which = "pack" => Pack!TypeOK' /\ Course'
  BY MCUpdatesAssumption, UpdatesSteps, PackKept DEF UpdatesInv
<1>3. which = "bank" => Bank!TypeOK' /\ BankCourse'
  BY MCUpdatesAssumption, UpdatesSteps, BankKept DEF UpdatesInv
<1>4. which = "shifter" => Mirror'
  BY MCUpdatesAssumption, UpdatesSteps, MirrorStep DEF UpdatesInv
<1>5. which = "ble" => Scan'
  BY MCUpdatesAssumption, UpdatesSteps, ScanStep DEF UpdatesInv
<1>6. QED
  BY <1>1, <1>2, <1>3, <1>4, <1>5, UpdatesSteps DEF UpdatesInv

LEMMA UpdatesHold == AnySpec => []UpdatesInv
<1>1. UpdatesInv /\ [AnyNext]_all => UpdatesInv'
  BY UpdatesKept
<1>2. QED
  BY <1>1, UpdatesBegin, PTL DEF AnySpec

\* A target is pushed a file whose every block is the answer to the request
\* for that block, as MCUpdates' run has it (update.c:274-379).
THEOREM OnlySound == AnySpec => []PushedIsSound
<1>1. UpdatesInv => PushedIsSound
  BY DEF UpdatesInv, PushedIsSound
<1>2. QED
  BY <1>1, UpdatesHold, PTL

\* The loaders of the shifter and of the coprocessor start a whole image
\* although they do not sum it (shifterboot main.c:171-236, bleboot oad.c).
THEOREM WholeStarted == AnySpec => []RightImageRuns
<1>1. UpdatesInv => RightImageRuns
  BY DEF UpdatesInv, RightImageRuns, Mirror, Verdict, Scan
<1>2. QED
  BY <1>1, UpdatesHold, PTL

\* An update reported as failed is not resumed by the restart that follows
\* (states.c:3044-3115, update.c:596-608).
THEOREM NotResumed == AnySpec => FailedNotResumed
<1>1. UpdatesInv => [which = "order" => Order!FailureForgotten]_all
  BY NothingResumed DEF UpdatesInv
<1>2. QED
  BY <1>1, UpdatesHold, PTL DEF AnySpec, FailedNotResumed

-----------------------------------------------------------------------------
(* One contract for the loaders with two banks                               *)

LEMMA BanksBegin == ASSUME AnyInit PROVE Banks!Init
<1>1. CASE PackInit
  BY <1>1, PackInitContract DEF PackInit, Pack!Contract!Init, Banks!Init, Pack!Contract!None,
     Banks!None
<1>2. CASE BankInit
  BY <1>2, BankInitContract DEF BankInit, Bank!Contract!Init, Banks!Init, Bank!Contract!None,
     Banks!None
<1>3. CASE which \notin {"pack", "bank"}
  BY <1>3 DEF Banks!Init, Banks!None
<1>4. QED
  BY <1>1, <1>2, <1>3 DEF AnyInit, OrderInit, RecordInit, ShifterInit, BleInit

LEMMA PackKeepsContract ==
  ASSUME which = "pack", which' = which, told \in BOOLEAN, told' \in BOOLEAN,
         [Pack!Contract!Next]_<<running, Pack!Kept, told>>
  PROVE  Banks!Next \/ UNCHANGED <<running, Pack!Kept, told>>
<1>1. CASE Pack!Contract!Start
  BY <1>1 DEF Pack!Contract!Start, Pack!Contract!None, Banks!Next, Banks!Start, Banks!None
<1>2. CASE Pack!Contract!Restart
  BY <1>2 DEF Pack!Contract!Restart, Pack!Contract!None, Banks!Next, Banks!Restart, Banks!None
<1>3. CASE Pack!Contract!Write
  BY <1>3 DEF Pack!Contract!Write, Banks!Next, Banks!Write
<1>4. QED
  BY <1>1, <1>2, <1>3 DEF Pack!Contract!Next

LEMMA BankKeepsContract ==
  ASSUME which = "bank", which' = which, told \in BOOLEAN, told' \in BOOLEAN,
         [Bank!Contract!Next]_<<running, Bank!Kept, told>>
  PROVE  Banks!Next \/ UNCHANGED <<running, Bank!Kept, told>>
<1>1. CASE Bank!Contract!Start
  BY <1>1 DEF Bank!Contract!Start, Bank!Contract!None, Banks!Next, Banks!Start, Banks!None
<1>2. CASE Bank!Contract!Restart
  BY <1>2 DEF Bank!Contract!Restart, Bank!Contract!None, Banks!Next, Banks!Restart, Banks!None
<1>3. CASE Bank!Contract!Write
  BY <1>3 DEF Bank!Contract!Write, Banks!Next, Banks!Write
<1>4. QED
  BY <1>1, <1>2, <1>3 DEF Bank!Contract!Next

\* The loaders of the pack and of the power bank keep one contract: only a
\* whole image runs, and the last one goes only under an order (main.c and
\* image.c of bmsboot, boot.c and image.c of powerbankboot).
THEOREM LoadersImplement == AnySpec => Implements
<1> DEFINE seen == << IF which \in {"pack", "bank"} THEN running ELSE "none",
                      IF which = "pack" THEN Pack!Kept
                        ELSE IF which = "bank" THEN Bank!Kept ELSE {},
                      which \in {"pack", "bank"} /\ told >>
<1>1. UpdatesInv /\ UpdatesInv' /\ [AnyNext]_all => [Banks!Next]_seen
  <2> SUFFICES ASSUME UpdatesInv, UpdatesInv', [AnyNext]_all PROVE [Banks!Next]_seen
    OBVIOUS
  <2>1. which' = which
    BY UpdatesSteps
  <2>2. CASE which = "pack"
    <3>1. told \in BOOLEAN /\ told' \in BOOLEAN
      BY <2>1, <2>2 DEF UpdatesInv, Pack!TypeOK
    <3>2. [Pack!Contract!Next]_<<running, Pack!Kept, told>>
      BY <2>2, MCUpdatesAssumption, UpdatesSteps, PackStepContract DEF UpdatesInv
    <3>3. Banks!Next \/ UNCHANGED <<running, Pack!Kept, told>>
      BY <2>1, <2>2, <3>1, <3>2, PackKeepsContract
    <3>4. QED
      BY <2>1, <2>2, <3>3
  <2>3. CASE which = "bank"
    <3>1. told \in BOOLEAN /\ told' \in BOOLEAN
      BY <2>1, <2>3 DEF UpdatesInv, Bank!TypeOK
    <3>2. [Bank!Contract!Next]_<<running, Bank!Kept, told>>
      BY <2>3, MCUpdatesAssumption, UpdatesSteps, BankStepContract DEF UpdatesInv
    <3>3. Banks!Next \/ UNCHANGED <<running, Bank!Kept, told>>
      BY <2>1, <2>3, <3>1, <3>2, BankKeepsContract
    <3>4. QED
      BY <2>1, <2>3, <3>3
  <2>4. CASE which \notin {"pack", "bank"}
    BY <2>1, <2>4
  <2>5. QED
    BY <2>2, <2>3, <2>4
<1>2. AnyInit => Banks!Init
  BY BanksBegin
<1>3. QED
  BY <1>1, <1>2, UpdatesHold, PTL DEF AnySpec, Implements, Banks!Spec
=============================================================================
