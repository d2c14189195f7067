---------------------------- MODULE PowerProofs ----------------------------
(***************************************************************************)
(* Proofs about the two battery firmwares, for every set of protections    *)
(* and cell faults the environment may raise and every bound on its        *)
(* events: in PackStates and PowerBank the transistors follow the state,   *)
(* and no measurement and no bus command ends a failure.  Then the data:   *)
(* the pack's gauge (what a stored magic number vouches for, a low cell is *)
(* shown), the pack's end of the bus (nothing runs that was not sent) and  *)
(* the power bank's service port (a whole frame runs once, downloads do    *)
(* not mix).  The last part takes the properties of MCPower's run from the *)
(* five machines.                                                          *)
(***************************************************************************)
EXTENDS MCPower, Integers, Sequences, SequenceTheorems, TLAPS

-----------------------------------------------------------------------------
(* The battery pack                                                         *)

\* Every way into a state commands transistors that fit the state.
LEMMA EntryFits ==
  ASSUME NEW s, NEW p, NEW w, Pack!EnterWith(s, p, w)
  PROVE  Pack!FetsFollowState'
  BY DEF Pack!EnterWith, Pack!FetsOf, Pack!FetsFollowState

LEMMA GoFits ==
  ASSUME NEW s, Pack!Go(s)
  PROVE  Pack!FetsFollowState'
  BY EntryFits DEF Pack!Go, Pack!Enter, Pack!Fail

LEMMA PackStepFits ==
  ASSUME Pack!FetsFollowState, [Pack!Next]_Pack!vars
  PROVE  Pack!FetsFollowState'
<1>1. CASE Pack!Shorted
  BY <1>1, EntryFits DEF Pack!Shorted, Pack!Enter
<1>2. CASE Pack!Dispatch
  BY <1>2, GoFits DEF Pack!Dispatch, Pack!FetsFollowState
<1>3. CASE Pack!Check
  BY <1>3, EntryFits, ZenonT(60) DEF Pack!Check, Pack!Fail, Pack!Enter, Pack!FetsFollowState
<1>4. CASE Pack!Move
  BY <1>4, EntryFits DEF Pack!Move
<1>5. CASE Pack!Run
  BY <1>5 DEF Pack!Run, Pack!FetsFollowState
<1>6. CASE Pack!Boot
  BY <1>6 DEF Pack!Boot, Pack!FetsOf, Pack!FetsFollowState
<1>7. CASE Pack!Shipping
  BY <1>7, EntryFits DEF Pack!Shipping, Pack!Ship, Pack!FetsFollowState
<1>8. CASE Pack!Command
  BY <1>8 DEF Pack!Command, Pack!Discharge, Pack!AllowCharge, Pack!OpenAll, Pack!FetsFollowState
<1>9. CASE Pack!Protect \/ Pack!Weather \/ Pack!Measure \/ UNCHANGED Pack!vars
  BY <1>9 DEF Pack!Protect, Pack!Weather, Pack!Measure, Pack!machine, Pack!vars, Pack!FetsFollowState
<1>10. CASE Pack!Crash
  BY <1>10 DEF Pack!Crash, Pack!FetsFollowState
<1>11. QED
  BY <1>1, <1>2, <1>3, <1>4, <1>5, <1>6, <1>7, <1>8, <1>9, <1>10 DEF Pack!Next

\* A closed FET of the pack lets its current flow only where the state allows
\* it, whatever protections, commands and resets led there (state_handlers.c,
\* modem.c of batteryware).
THEOREM PackFetsFollow == Pack!Spec => []Pack!FetsFollowState
<1>1. Pack!Init => Pack!FetsFollowState
  BY DEF Pack!Init, Pack!FetsFollowState
<1>2. QED
  BY <1>1, PackStepFits, PTL DEF Pack!Spec

LEMMA PackStepKept ==
  ASSUME [Pack!Next]_Pack!vars
  PROVE  Pack!FailureKept
<1> USE DEF Pack!FailureKept
<1>1. CASE Pack!Shorted \/ Pack!Dispatch \/ Pack!Check \/ Pack!Move \/ Pack!Run
  <2>1. state \in Pack!Handled
    BY Zenon, <1>1 DEF Pack!Shorted, Pack!Dispatch, Pack!Check, Pack!Move, Pack!Run, Pack!Quiet
  <2>2. QED
    BY <2>1 DEF Pack!Handled, Pack!FailureStates
<1>2. CASE Pack!Boot \/ Pack!Crash
  <2>1. state = 0 \/ state' = 0
    BY Zenon, <1>2 DEF Pack!Boot, Pack!Crash
  <2>2. QED
    BY <2>1 DEF Pack!FailureStates
<1>3. CASE Pack!Shipping
  BY <1>3 DEF Pack!Shipping
<1>4. CASE Pack!Command
  BY <1>4 DEF Pack!Command, Pack!Discharge, Pack!AllowCharge, Pack!OpenAll
<1>5. CASE Pack!Protect \/ Pack!Weather \/ Pack!Measure \/ UNCHANGED Pack!vars
  BY <1>5 DEF Pack!Protect, Pack!Weather, Pack!Measure, Pack!machine, Pack!vars
<1>6. QED
  BY <1>1, <1>2, <1>3, <1>4, <1>5 DEF Pack!Next

\* A failure of the pack is left by a power-down only: no handler, protection
\* or other command makes a pack with a broken FET run again.
THEOREM PackFailureHolds == Pack!Spec => Pack!FailureHolds
  BY PackStepKept, PTL DEF Pack!Spec, Pack!FailureHolds

-----------------------------------------------------------------------------
(* The power bank                                                           *)

\* Every rule of every handler leads through one of the four entries.
Entries == {"enter", "boot", "operate", "second"}

LEMMA BankEntryFits ==
  ASSUME NEW p, NEW s, Bank!EnterFrom(p, s)
  PROVE  Bank!FetsFollowState'
  BY DEF Bank!EnterFrom, Bank!FetsOf, Bank!FetsFollowState

LEMMA BankSecondFits ==
  ASSUME NEW p, NEW a, Bank!SecondLevel(p, a)
  PROVE  Bank!FetsFollowState'
  BY DEF Bank!SecondLevel, Bank!FetsFollowState

LEMMA BankGoFits ==
  ASSUME NEW way, way.how \in Entries, Bank!Go(way)
  PROVE  Bank!FetsFollowState'
<1>1. CASE way.how = "enter"
  BY <1>1, BankEntryFits DEF Bank!Go, Bank!Enter
<1>2. CASE way.how = "boot"
  BY <1>2, BankEntryFits DEF Bank!Go, Bank!Indicate
<1>3. CASE way.how = "operate"
  BY <1>3 DEF Bank!Go, Bank!Operate, Bank!FetsFollowState
<1>4. CASE way.how = "second"
  BY <1>4, BankSecondFits DEF Bank!Go
<1>5. QED
  BY <1>1, <1>2, <1>3, <1>4 DEF Entries

\* Where the handlers' rules lead, and lists of such rules.
BankWays ==
    {w \in [how : Entries, arg : Nat] :
        /\ w.how = "boot" => w.arg \in 1..3
        /\ w.how = "enter" => w.arg \in Bank!States \ {0}}
RuleList == Seq(BOOLEAN \X BankWays)

LEMMA BankWaysAre ==
  /\ \A n \in Bank!States \ {0} : Bank!To(n) \in BankWays
  /\ \A n \in 1..3 : Bank!Boot(n) \in BankWays
  /\ Bank!Charge \in BankWays /\ Bank!Loaded \in BankWays /\ Bank!Second \in BankWays
  BY DEF Bank!To, Bank!Boot, Bank!Charge, Bank!Loaded, Bank!Second, BankWays, Entries,
     Bank!States, Bank!Protections, Bank!Failures

LEMMA Conditions ==
  /\ \A f : Bank!Has(f) \in BOOLEAN /\ (~Bank!Has(f)) \in BOOLEAN
  /\ \A f, g : (~Bank!Has(f) /\ Bank!Has(g)) \in BOOLEAN
<1>1. ASSUME NEW f PROVE Bank!Has(f) \in BOOLEAN
  BY SMT DEF Bank!Has
<1>2. ASSUME NEW f PROVE (~Bank!Has(f)) \in BOOLEAN
  BY Zenon
<1>3. ASSUME NEW f, NEW g PROVE (~Bank!Has(f) /\ Bank!Has(g)) \in BOOLEAN
  BY Zenon
<1>4. QED
  BY <1>1, <1>2, <1>3, Zenon

LEMMA OneRule ==
  ASSUME NEW b \in BOOLEAN, NEW w \in BankWays
  PROVE  <<<<b, w>>>> \in RuleList
  BY DEF RuleList

LEMMA TwoRules ==
  ASSUME NEW b \in BOOLEAN, NEW w \in BankWays, NEW c \in BOOLEAN, NEW v \in BankWays
  PROVE  <<<<b, w>>, <<c, v>>>> \in RuleList
  BY DEF RuleList

LEMMA Joined ==
  ASSUME NEW s \in RuleList, NEW t \in RuleList
  PROVE  s \o t \in RuleList
  BY DEF RuleList

LEMMA SharedRules ==
  Bank!Over \in RuleList /\ Bank!Under \in RuleList /\ Bank!Imbalance \in RuleList
<1>1. /\ Bank!To(7) \in BankWays /\ Bank!To(8) \in BankWays /\ Bank!To(9) \in BankWays
      /\ Bank!To(10) \in BankWays /\ Bank!Second \in BankWays
  BY BankWaysAre DEF Bank!States, Bank!Protections
<1>2. Bank!Over \in RuleList
  <2>1. Bank!Has("ovp2") \in BOOLEAN /\ Bank!Has("ovp1") \in BOOLEAN
    BY Conditions
  <2>2. QED
    BY Zenon, <1>1, <2>1, TwoRules DEF Bank!Over
<1>3. Bank!Under \in RuleList
  <2>1. Bank!Has("uvp2") \in BOOLEAN /\ Bank!Has("uvp1") \in BOOLEAN
    BY Conditions
  <2>2. QED
    BY Zenon, <1>1, <2>1, TwoRules DEF Bank!Under
<1>4. Bank!Imbalance \in RuleList
  BY Zenon, <1>1, Conditions, OneRule DEF Bank!Imbalance
<1>5. QED
  BY <1>2, <1>3, <1>4

\* The lists of the handlers of the working states.
LEMMA WorkingRules ==
  Bank!IdleRules \in RuleList /\ Bank!ChargeRules \in RuleList /\ Bank!DischargeRules \in RuleList
<1>1. /\ Bank!To(11) \in BankWays /\ Bank!To(12) \in BankWays
      /\ Bank!To(13) \in BankWays /\ Bank!To(14) \in BankWays
  BY BankWaysAre DEF Bank!States, Bank!Protections
<1>2. /\ Bank!Has("coc1") \in BOOLEAN /\ Bank!Has("coc2") \in BOOLEAN
      /\ Bank!Has("doc1") \in BOOLEAN /\ Bank!Has("doc2") \in BOOLEAN
  BY Conditions
<1>3. <<<<Bank!Has("coc1"), Bank!To(11)>>, <<Bank!Has("coc2"), Bank!To(12)>>>> \in RuleList
  BY Zenon, <1>1, <1>2, TwoRules
<1>4. <<<<Bank!Has("doc1"), Bank!To(13)>>, <<Bank!Has("doc2"), Bank!To(14)>>>> \in RuleList
  BY Zenon, <1>1, <1>2, TwoRules
<1>5. QED
  BY Zenon, <1>3, <1>4, SharedRules, Joined DEF Bank!IdleRules, Bank!ChargeRules, Bank!DischargeRules

\* The lists of the voltage protections.
LEMMA VoltageRules ==
  /\ Bank!Over1Rules \in RuleList /\ Bank!Over2Rules \in RuleList
  /\ Bank!Under1Rules \in RuleList /\ Bank!Under2Rules \in RuleList
<1>1. /\ Bank!To(7) \in BankWays /\ Bank!To(8) \in BankWays /\ Bank!To(9) \in BankWays
      /\ Bank!To(10) \in BankWays /\ Bank!Boot(1) \in BankWays /\ Bank!Boot(2) \in BankWays
  BY BankWaysAre DEF Bank!States, Bank!Protections
<1>2. /\ Bank!Has("ovp2") \in BOOLEAN /\ (~Bank!Has("ovp2")) \in BOOLEAN
      /\ (~Bank!Has("ovp1")) \in BOOLEAN /\ (~Bank!Has("ovp2") /\ Bank!Has("ovp1")) \in BOOLEAN
      /\ Bank!Has("uvp2") \in BOOLEAN /\ (~Bank!Has("uvp2")) \in BOOLEAN
      /\ (~Bank!Has("uvp1")) \in BOOLEAN /\ (~Bank!Has("uvp2") /\ Bank!Has("uvp1")) \in BOOLEAN
  BY Zenon, Conditions
<1>3. Bank!Over1Rules \in RuleList
  <2>1. <<<<Bank!Has("ovp2"), Bank!To(8)>>, <<~Bank!Has("ovp1"), Bank!Boot(1)>>>> \in RuleList
    BY Zenon, <1>1, <1>2, TwoRules
  <2>2. QED
    BY Zenon, <2>1, SharedRules, Joined DEF Bank!Over1Rules
<1>4. Bank!Over2Rules \in RuleList
  <2>1. <<<<~Bank!Has("ovp2") /\ Bank!Has("ovp1"), Bank!To(7)>>,
          <<~Bank!Has("ovp2"), Bank!Boot(1)>>>> \in RuleList
    BY Zenon, <1>1, <1>2, TwoRules
  <2>2. QED
    BY Zenon, <2>1, SharedRules, Joined DEF Bank!Over2Rules
<1>5. Bank!Under1Rules \in RuleList
  <2>1. <<<<Bank!Has("uvp2"), Bank!To(10)>>, <<~Bank!Has("uvp1"), Bank!Boot(2)>>>> \in RuleList
    BY Zenon, <1>1, <1>2, TwoRules
  <2>2. QED
    BY Zenon, <2>1, SharedRules, Joined DEF Bank!Under1Rules
<1>6. Bank!Under2Rules \in RuleList
  <2>1. <<<<~Bank!Has("uvp2") /\ Bank!Has("uvp1"), Bank!To(9)>>,
          <<~Bank!Has("uvp2"), Bank!Boot(2)>>>> \in RuleList
    BY Zenon, <1>1, <1>2, TwoRules
  <2>2. QED
    BY Zenon, <2>1, SharedRules, Joined DEF Bank!Under2Rules
<1>7. QED
  BY <1>3, <1>4, <1>5, <1>6

\* The lists of the current and temperature protections.
LEMMA OtherRules ==
  /\ Bank!ChargeOc1Rules \in RuleList /\ Bank!ChargeOc2Rules \in RuleList
  /\ Bank!DischargeOc1Rules \in RuleList /\ Bank!DischargeOc2Rules \in RuleList
  /\ \A c \in 1..3 : Bank!FrontEndRules(c) \in RuleList
  /\ Bank!ChargeTempRules \in RuleList /\ Bank!DischargeTempRules \in RuleList
  /\ Bank!MosTempRules \in RuleList
<1>1. /\ Bank!Discharging \in BankWays /\ Bank!To(1) \in BankWays
      /\ \A c \in 1..3 : Bank!Boot(c) \in BankWays
  BY BankWaysAre DEF Bank!Discharging, Bank!States, Bank!Protections
<1>2. /\ <<<<~Bank!Has("coc1"), Bank!Discharging>>>> \in RuleList
      /\ <<<<~Bank!Has("coc2"), Bank!Discharging>>>> \in RuleList
      /\ <<<<~Bank!Has("doc1"), Bank!To(1)>>>> \in RuleList
      /\ <<<<~Bank!Has("doc2"), Bank!To(1)>>>> \in RuleList
      /\ \A c \in 1..3 : <<<<~Bank!Has("ts"), Bank!Boot(c)>>>> \in RuleList
  BY Zenon, <1>1, Conditions, OneRule
<1>3. Bank!ChargeOc1Rules \in RuleList /\ Bank!ChargeOc2Rules \in RuleList
  BY Zenon, <1>2, SharedRules, Joined DEF Bank!ChargeOc1Rules, Bank!ChargeOc2Rules
<1>4. Bank!DischargeOc1Rules \in RuleList /\ Bank!DischargeOc2Rules \in RuleList
  BY Zenon, <1>2, SharedRules, Joined DEF Bank!DischargeOc1Rules, Bank!DischargeOc2Rules
<1>5. \A c \in 1..3 : Bank!FrontEndRules(c) \in RuleList
  BY Zenon, <1>2, SharedRules, Joined DEF Bank!FrontEndRules
<1>6. /\ Bank!ChargeTempRules \in RuleList /\ Bank!DischargeTempRules \in RuleList
      /\ Bank!MosTempRules \in RuleList
  BY Zenon, SharedRules, Joined DEF Bank!ChargeTempRules, Bank!DischargeTempRules,
     Bank!MosTempRules
<1>7. QED
  BY <1>3, <1>4, <1>5, <1>6

LEMMA AllRules ==
  ASSUME NEW s, NEW c \in 1..3
  PROVE  Bank!Rules(s, c) \in RuleList
<1>1. <<>> \in RuleList
  BY DEF RuleList
<1>2. QED
  BY <1>1, WorkingRules, VoltageRules, OtherRules DEF Bank!Rules

\* A way that is always open.
LEMMA Sure ==
  ASSUME NEW w \in BankWays
  PROVE  \A way \in {<<TRUE, w>>} : way[2] \in BankWays
<1>1. \A b : <<b, w>>[2] = w
  OBVIOUS
<1>2. QED
  BY Zenon, <1>1

LEMMA AllWays ==
  ASSUME NEW s, class \in 1..3
  PROVE  \A way \in Bank!Ways(s) : way[2] \in BankWays
<1>1. /\ Bank!To(1) \in BankWays /\ Bank!To(3) \in BankWays /\ Bank!To(6) \in BankWays
      /\ Bank!Boot(1) \in BankWays
  BY BankWaysAre DEF Bank!States, Bank!Protections
<1>2. \A way \in Bank!FromSequence : way[2] \in BankWays
  BY <1>1, BankWaysAre DEF Bank!FromSequence
<1>3. \A way \in Bank!FromIdle \cup Bank!FromCharge : way[2] \in BankWays
  BY <1>1, BankWaysAre DEF Bank!FromIdle, Bank!FromCharge
<1>4. \A way \in Bank!FromDischarge : way[2] \in BankWays
  <2>1. \A way \in {<<charger, Bank!Boot(IF load THEN 3 ELSE 2)>>, Bank!NoOutput} :
           way[2] \in BankWays
    BY <1>1, BankWaysAre DEF Bank!NoOutput
  <2>2. Bank!FromDischarge = {<<TRUE, Bank!Boot(1)>>} \cup
           {<<charger, Bank!Boot(IF load THEN 3 ELSE 2)>>, Bank!NoOutput}
    BY Zenon DEF Bank!FromDischarge
  <2>3. QED
    BY Zenon, <1>1, <2>1, <2>2, Sure
<1>5. \A way \in Bank!FromShipping : way[2] \in BankWays
  <2>1. \A way \in {<<charger, Bank!Boot(3)>>} : way[2] \in BankWays
    BY BankWaysAre
  <2>2. Bank!FromShipping = {<<TRUE, Bank!Boot(1)>>} \cup {<<charger, Bank!Boot(3)>>}
    BY Zenon DEF Bank!FromShipping
  <2>3. QED
    BY Zenon, <1>1, <2>1, <2>2, Sure
<1>6. \A way \in Bank!FromFrontEnd : way[2] \in BankWays
  <2>1. \A way \in {<<Bank!charging, Bank!Charge>>} : way[2] \in BankWays
    BY BankWaysAre
  <2>2. Bank!FromFrontEnd = {<<TRUE, Bank!To(1)>>} \cup {<<Bank!charging, Bank!Charge>>}
    BY Zenon DEF Bank!FromFrontEnd
  <2>3. QED
    BY Zenon, <1>1, <2>1, <2>2, Sure
<1>7. \A way \in Bank!FromOver \cup Bank!FromUnder \cup Bank!FromChargeOc
         \cup Bank!FromDischargeOc : way[2] \in BankWays
  BY <1>1, BankWaysAre DEF Bank!FromOver, Bank!FromUnder, Bank!FromChargeOc,
     Bank!FromDischargeOc
<1>8. \A way \in Bank!FromChargeHot \cup Bank!FromChargeCold \cup Bank!FromDischargeHot
         \cup Bank!FromDischargeCold \cup Bank!FromMosHot : way[2] \in BankWays
  BY <1>1, BankWaysAre DEF Bank!FromChargeHot, Bank!FromChargeCold,
     Bank!FromDischargeHot, Bank!FromDischargeCold, Bank!FromMosHot
<1>9. \A way \in Bank!FromSilent : way[2] \in BankWays
  BY <1>1, Sure DEF Bank!FromSilent
<1>10. QED
  BY <1>2, <1>3, <1>4, <1>5, <1>6, <1>7, <1>8, <1>9 DEF Bank!Ways

\* The type invariant of the power bank in three parts: what the entries
\* write, the flags they write, and what the rest of the firmware measures.
BankCore ==
    /\ state \in Bank!States
    /\ saved \in (Bank!States \ {0}) \X Bank!States \/ saved = <<0, 0>>
    /\ fet \subseteq {"dsg", "chg"} /\ class \in 1..3
BankFlags == empty \in BOOLEAN /\ held \in BOOLEAN /\ pf \in BOOLEAN /\ record \in BOOLEAN
BankRest ==
    /\ fault \subseteq Bank!AllFaults /\ broken \subseteq {"dsg", "chg"}
    /\ temp \in {"dCold", "cCold", "ok", "cHot", "dHot"}
    /\ cur \in {"none", "chg", "dsg"} /\ events \in 0..BankEvents
BankInputs ==
    /\ recovered \in BOOLEAN /\ update \in BOOLEAN /\ mosHot \in BOOLEAN
    /\ charger \in BOOLEAN /\ full \in BOOLEAN /\ load \in BOOLEAN /\ ov2pin \in BOOLEAN

LEMMA BankTypeParts == Bank!TypeOK <=> BankCore /\ BankFlags /\ BankRest /\ BankInputs
<1>1. (\A b \in {empty, held, recovered, pf, record, update, mosHot, charger, full, load, ov2pin} :
         b \in BOOLEAN) <=> BankFlags /\ BankInputs
  BY ZenonT(60) DEF BankFlags, BankInputs
<1>2. QED
  BY <1>1, ZenonT(60) DEF Bank!TypeOK, BankCore, BankRest

LEMMA BankEntryTyped ==
  ASSUME BankCore, NEW p \in Bank!States, NEW s \in Bank!States \ {0}, Bank!EnterFrom(p, s),
         class' \in 1..3
  PROVE  BankCore'
  BY DEF Bank!EnterFrom, Bank!FetsOf, BankCore

LEMMA BankEntryFlags ==
  ASSUME BankFlags, NEW p, NEW s, Bank!EnterFrom(p, s), record' \in BOOLEAN
  PROVE  BankFlags'
  BY Zenon DEF Bank!EnterFrom, BankFlags

LEMMA BankSecondTyped ==
  ASSUME BankCore, BankFlags, NEW p \in Bank!States, NEW a, Bank!SecondLevel(p, a)
  PROVE  BankCore' /\ BankFlags'
<1>1. BankCore'
  BY DEF Bank!SecondLevel, BankCore, Bank!States, Bank!Failures
<1>2. BankFlags'
  BY Zenon DEF Bank!SecondLevel, BankFlags
<1>3. QED
  BY <1>1, <1>2

LEMMA BankGoTyped ==
  ASSUME BankCore, BankFlags, NEW way \in BankWays, Bank!Go(way)
  PROVE  BankCore' /\ BankFlags'
<1>1. state \in Bank!States /\ {2, 4} \subseteq Bank!States \ {0}
  BY DEF BankCore, Bank!States
<1>2. CASE way.how = "enter"
  <2>1. Bank!EnterFrom(state, way.arg) /\ UNCHANGED <<class, record>>
    BY <1>2 DEF Bank!Go, Bank!Enter
  <2>2. way.arg \in Bank!States \ {0} /\ class' \in 1..3 /\ record' \in BOOLEAN
    BY <1>2, <2>1 DEF BankWays, BankCore, BankFlags
  <2>3. QED
    BY <1>1, <2>1, <2>2, BankEntryTyped, BankEntryFlags
<1>3. CASE way.how = "boot"
  <2>1. Bank!EnterFrom(state, 4) /\ class' = way.arg /\ record' = record
    BY <1>3 DEF Bank!Go, Bank!Indicate
  <2>2. class' \in 1..3 /\ record' \in BOOLEAN
    BY <1>3, <2>1 DEF BankWays, BankFlags
  <2>3. QED
    BY <1>1, <2>1, <2>2, BankEntryTyped, BankEntryFlags
<1>4. CASE way.how = "operate"
  <2>1. Bank!Operate(way.arg = 1)
    BY <1>4 DEF Bank!Go
  <2>2. BankCore'
    BY <1>1, <2>1 DEF Bank!Operate, BankCore
  <2>3. BankFlags'
    BY Zenon, <2>1 DEF Bank!Operate, BankFlags
  <2>4. QED
    BY <2>2, <2>3
<1>5. CASE way.how = "second"
  <2>1. Bank!SecondLevel(state, {})
    BY <1>5 DEF Bank!Go
  <2>2. QED
    BY <1>1, <2>1, BankSecondTyped
<1>6. QED
  BY <1>2, <1>3, <1>4, <1>5 DEF BankWays, Entries

\* What every step of the machine keeps.
BankSafe == BankCore /\ BankFlags /\ Bank!FetsFollowState

LEMMA BankGoSafe ==
  ASSUME BankSafe, NEW way \in BankWays, Bank!Go(way)
  PROVE  BankSafe'
<1>1. way.how \in Entries
  BY DEF BankWays
<1>2. Bank!FetsFollowState'
  BY <1>1, BankGoFits
<1>3. BankCore' /\ BankFlags'
  BY BankGoTyped DEF BankSafe
<1>4. QED
  BY <1>2, <1>3 DEF BankSafe

LEMMA BankEntrySafe ==
  ASSUME BankSafe, NEW p \in Bank!States, NEW s \in Bank!States \ {0}, Bank!EnterFrom(p, s),
         class' \in 1..3, record' \in BOOLEAN
  PROVE  BankSafe'
<1>1. Bank!FetsFollowState'
  BY BankEntryFits
<1>2. BankCore'
  BY BankEntryTyped DEF BankSafe
<1>3. BankFlags'
  BY BankEntryFlags DEF BankSafe
<1>4. QED
  BY <1>1, <1>2, <1>3 DEF BankSafe

LEMMA BankSecondSafe ==
  ASSUME BankSafe, NEW p \in Bank!States, NEW a, Bank!SecondLevel(p, a)
  PROVE  BankSafe'
<1>1. Bank!FetsFollowState'
  BY BankSecondFits
<1>2. BankCore' /\ BankFlags'
  BY BankSecondTyped DEF BankSafe
<1>3. QED
  BY <1>1, <1>2 DEF BankSafe

LEMMA FastTickSafe ==
  ASSUME BankSafe, Bank!FastTick
  PROVE  BankSafe'
<1>1. PICK c \in {1, 3} : \E i \in DOMAIN Bank!Rules(state, c) : Bank!Go(Bank!Rules(state, c)[i][2])
  BY DEF Bank!FastTick
<1>2. Bank!Rules(state, c) \in RuleList
  BY AllRules
<1>3. PICK i \in DOMAIN Bank!Rules(state, c) : Bank!Go(Bank!Rules(state, c)[i][2])
  BY <1>1
<1>4. Bank!Rules(state, c)[i][2] \in BankWays
  BY <1>2 DEF RuleList
<1>5. QED
  BY <1>3, <1>4, BankGoSafe

LEMMA SlowTickSafe ==
  ASSUME BankSafe, Bank!SlowTick
  PROVE  BankSafe'
<1>1. PICK way \in Bank!Ways(state) : Bank!Go(way[2])
  BY DEF Bank!SlowTick
<1>2. way[2] \in BankWays
  BY AllWays DEF BankSafe, BankCore
<1>3. QED
  BY <1>1, <1>2, BankGoSafe

LEMMA AlarmSafe ==
  ASSUME BankSafe, Bank!Alarm
  PROVE  BankSafe'
<1>1. state \in Bank!States /\ record \in BOOLEAN /\ class \in 1..3
  BY DEF BankSafe, BankCore, BankFlags
<1>2. PICK a : Bank!Alarmed(a)
  BY DEF Bank!Alarm
<1>3. CASE Bank!SecondLevel(state, a)
  BY <1>1, <1>3, BankSecondSafe
<1>4. CASE ~Bank!SecondLevel(state, a)
  <2>1. record' = (record \/ a \cap Bank!Recorded # {}) /\ class' = class
    BY <1>2, <1>4 DEF Bank!Alarmed
  <2>2. record' \in BOOLEAN
    BY Zenon, <2>1
  <2>3. \E i \in 1..5 : Bank!EnterFrom(state, <<18, 19, 20, 21, 22>>[i])
    BY <1>2, <1>4 DEF Bank!Alarmed
  <2>4. PICK i \in 1..5 : Bank!EnterFrom(state, <<18, 19, 20, 21, 22>>[i])
    BY <2>3
  <2>5. <<18, 19, 20, 21, 22>>[i] \in Bank!States \ {0}
    BY DEF Bank!States, Bank!Protections
  <2>6. class' \in 1..3
    BY <1>1, <2>1
  <2>7. QED
    BY <1>1, <2>2, <2>4, <2>5, <2>6, BankEntrySafe
<1>5. QED
  BY <1>3, <1>4

\* An entry from the live state that leaves the class and the record alone.
LEMMA EnterSafe ==
  ASSUME BankSafe, NEW s \in Bank!States \ {0}, Bank!Enter(s)
  PROVE  BankSafe'
<1>1. Bank!EnterFrom(state, s) /\ class' = class /\ record' = record
  BY DEF Bank!Enter
<1>2. state \in Bank!States /\ class' \in 1..3 /\ record' \in BOOLEAN
  BY <1>1 DEF BankSafe, BankCore, BankFlags
<1>3. QED
  BY <1>1, <1>2, BankEntrySafe

\* A step that writes none of the machine's variables but perhaps the record.
LEMMA StillSafe ==
  ASSUME BankSafe, UNCHANGED <<state, saved, empty, fet, class, held, pf>>, record' \in BOOLEAN
  PROVE  BankSafe'
<1>1. BankCore' /\ Bank!FetsFollowState'
  BY DEF BankSafe, BankCore, Bank!FetsFollowState
<1>2. BankFlags'
  BY DEF BankSafe, BankFlags
<1>3. QED
  BY <1>1, <1>2 DEF BankSafe

\* The reset that ends a power-down or an update.
LEMMA DownSafe ==
  ASSUME BankSafe, NEW s \in {saved, <<0, 0>>}, Bank!Down(s), empty' \in BOOLEAN
  PROVE  BankSafe'
<1>1. BankCore' /\ Bank!FetsFollowState'
  BY DEF BankSafe, BankCore, Bank!Down, Bank!FetsFollowState, Bank!States
<1>2. BankFlags'
  BY Zenon DEF BankSafe, BankFlags, Bank!Down
<1>3. QED
  BY <1>1, <1>2 DEF BankSafe

LEMMA StartSafe ==
  ASSUME BankSafe, Bank!Start
  PROVE  BankSafe'
<1>1. Bank!Resume /\ class \in 1..3 /\ record \in BOOLEAN
  BY DEF Bank!Start, BankSafe, BankCore, BankFlags
<1>2. saved[1] \in Bank!States /\ saved[2] \in Bank!States
  BY DEF BankSafe, BankCore, Bank!States
<1>3. CASE saved[1] = 6 /\ saved[2] \in {23, 24}
  <2>1. Bank!SecondLevel(saved[1], {})
    BY <1>1, <1>3 DEF Bank!Resume
  <2>2. QED
    BY <1>2, <2>1, BankSecondSafe
<1>4. CASE ~(saved[1] = 6 /\ saved[2] \in {23, 24})
  <2>1. \/ saved[2] \in 18..21 /\ Bank!EnterFrom(saved[1], saved[2]) /\ UNCHANGED <<class, record>>
        \/ /\ state' = 2 /\ saved' = <<2, saved[1]>> /\ fet' = {"chg"}
           /\ held' = FALSE /\ empty' = FALSE /\ UNCHANGED <<class, pf, record>>
        \/ \E c \in {1, 3} : Bank!EnterFrom(saved[1], 4) /\ class' = c /\ UNCHANGED record
    BY <1>1, <1>4 DEF Bank!Resume
  <2>2. CASE saved[2] \in 18..21 /\ Bank!EnterFrom(saved[1], saved[2]) /\ UNCHANGED <<class, record>>
    <3>1. saved[2] \in Bank!States \ {0} /\ class' \in 1..3 /\ record' \in BOOLEAN
      BY <1>1, <1>2, <2>2
    <3>2. QED
      BY <1>2, <2>2, <3>1, BankEntrySafe
  <2>3. CASE /\ state' = 2 /\ saved' = <<2, saved[1]>> /\ fet' = {"chg"}
             /\ held' = FALSE /\ empty' = FALSE /\ UNCHANGED <<class, pf, record>>
    <3>1. BankCore' /\ Bank!FetsFollowState'
      BY <1>2, <2>3 DEF BankSafe, BankCore, Bank!FetsFollowState, Bank!States
    <3>2. BankFlags'
      BY Zenon, <2>3 DEF BankSafe, BankFlags
    <3>3. QED
      BY <3>1, <3>2 DEF BankSafe
  <2>4. CASE \E c \in {1, 3} : Bank!EnterFrom(saved[1], 4) /\ class' = c /\ UNCHANGED record
    <3>1. class' \in 1..3 /\ record' \in BOOLEAN /\ 4 \in Bank!States \ {0}
      BY <1>1, <2>4 DEF Bank!States
    <3>2. QED
      BY <1>2, <2>4, <3>1, BankEntrySafe
  <2>5. QED
    BY <2>1, <2>2, <2>3, <2>4
<1>5. QED
  BY <1>3, <1>4

\* The console's release: the indicator sequence, the failure forgotten.
LEMMA ReleaseSafe ==
  ASSUME BankSafe, Bank!Release
  PROVE  BankSafe'
<1>1. BankCore' /\ Bank!FetsFollowState'
  BY DEF Bank!Release, BankSafe, BankCore, Bank!FetsFollowState, Bank!States
<1>2. BankFlags'
  BY Zenon DEF Bank!Release, BankSafe, BankFlags
<1>3. QED
  BY <1>1, <1>2 DEF BankSafe

LEMMA NextSafe ==
  ASSUME BankSafe, [Bank!Next]_Bank!vars
  PROVE  BankSafe'
<1>1. /\ record \in BOOLEAN /\ 17 \in Bank!States \ {0} /\ 6 \in Bank!States \ {0}
      /\ 27 \in Bank!States \ {0}
  BY DEF BankSafe, BankFlags, Bank!States, Bank!Protections
<1>2. CASE Bank!FastTick
  BY <1>2, FastTickSafe
<1>3. CASE Bank!SlowTick
  BY <1>3, SlowTickSafe
<1>4. CASE Bank!Alarm
  BY <1>4, AlarmSafe
<1>5. CASE Bank!FrontEndFault
  <2>1. \/ Bank!Enter(17)
        \/ UNCHANGED <<state, saved, empty, fet, class, held, pf, record>>
    BY <1>5 DEF Bank!FrontEndFault
  <2>2. QED
    BY <1>1, <2>1, EnterSafe, StillSafe
<1>6. CASE Bank!Note
  <2>1. UNCHANGED <<state, saved, empty, fet, class, held, pf>> /\ record' \in BOOLEAN
    BY <1>6 DEF Bank!Note
  <2>2. QED
    BY <2>1, StillSafe
<1>7. CASE Bank!ShippingCheck \/ Bank!ShipCommand
  BY <1>1, <1>7, EnterSafe DEF Bank!ShippingCheck, Bank!ShipCommand
<1>8. CASE Bank!Refresh
  BY <1>1, <1>8, EnterSafe DEF Bank!Refresh
<1>9. CASE Bank!Exhausted
  <2>1. BankCore' /\ Bank!FetsFollowState'
    BY <1>9 DEF Bank!Exhausted, BankSafe, BankCore, Bank!FetsFollowState, Bank!States
  <2>2. BankFlags'
    BY Zenon, <1>9 DEF Bank!Exhausted, BankSafe, BankFlags
  <2>3. QED
    BY <2>1, <2>2 DEF BankSafe
<1>10. CASE Bank!Precharge
  <2>1. BankCore' /\ Bank!FetsFollowState'
    BY <1>10 DEF Bank!Precharge, BankSafe, BankCore, Bank!FetsFollowState
  <2>2. BankFlags'
    BY Zenon, <1>10 DEF Bank!Precharge, BankSafe, BankFlags
  <2>3. QED
    BY <2>1, <2>2 DEF BankSafe
<1>11. CASE Bank!PowerDown \/ Bank!UpdateStarves
  <2>1. Bank!Down(saved) /\ empty' \in BOOLEAN
    BY <1>11 DEF Bank!PowerDown, Bank!UpdateStarves, BankSafe, BankFlags
  <2>2. QED
    BY <2>1, DownSafe
<1>12. CASE Bank!UpdateApply
  <2>1. Bank!Down(<<0, 0>>) /\ empty' \in BOOLEAN
    BY <1>12 DEF Bank!UpdateApply
  <2>2. QED
    BY <2>1, DownSafe
<1>13. CASE Bank!Crash
  <2>1. BankCore' /\ Bank!FetsFollowState'
    BY <1>13 DEF Bank!Crash, BankSafe, BankCore, Bank!FetsFollowState, Bank!States
  <2>2. BankFlags'
    BY Zenon, <1>13 DEF Bank!Crash, BankSafe, BankFlags
  <2>3. QED
    BY <2>1, <2>2 DEF BankSafe
<1>14. CASE Bank!Start
  BY <1>14, StartSafe
<1>15. CASE Bank!Release
  BY <1>15, ReleaseSafe
<1>16. CASE \/ Bank!UpdateBegins \/ Bank!Cells \/ Bank!Measure \/ Bank!OverCurrent
            \/ Bank!Clear \/ Bank!Weather \/ UNCHANGED Bank!vars
  <2>1. UNCHANGED <<state, saved, empty, fet, class, held, pf, record>>
    BY Zenon, <1>16 DEF Bank!UpdateBegins, Bank!Cells, Bank!Measure, Bank!OverCurrent,
       Bank!Clear, Bank!Weather, Bank!machine, Bank!vars
  <2>2. QED
    BY <1>1, <2>1, StillSafe
<1>17. QED
  BY <1>2, <1>3, <1>4, <1>5, <1>6, <1>7, <1>8, <1>9, <1>10, <1>11, <1>12, <1>13, <1>14,
     <1>15, <1>16 DEF Bank!Next

\* The steps that write the measurements, and those that leave them alone.
LEMMA NextRest ==
  ASSUME Bank!BankAssumption, BankRest, [Bank!Next]_Bank!vars
  PROVE  BankRest'
<1> DEFINE same == UNCHANGED <<fault, broken, temp, cur, events>>
<1>1. CASE Bank!FastTick \/ Bank!SlowTick \/ Bank!Alarm \/ Bank!Note \/ Bank!Exhausted
  <2>1. same
    BY Zenon, <1>1 DEF Bank!FastTick, Bank!SlowTick, Bank!Alarm, Bank!Note, Bank!Exhausted,
       Bank!measured
  <2>2. QED
    BY <2>1 DEF BankRest
<1>2. CASE Bank!Precharge \/ Bank!ShippingCheck \/ Bank!Start \/ Bank!Release
           \/ UNCHANGED Bank!vars
  <2>1. same
    BY Zenon, <1>2 DEF Bank!Precharge, Bank!ShippingCheck, Bank!Start, Bank!Release,
       Bank!measured, Bank!vars
  <2>2. QED
    BY <2>1 DEF BankRest
<1>3. CASE Bank!FrontEndFault \/ Bank!Refresh \/ Bank!ShipCommand \/ Bank!UpdateBegins
  <2>1. /\ UNCHANGED <<broken, temp, cur>> /\ events < BankEvents /\ events' = events + 1
        /\ fault' = fault \/ fault' = fault \cup {"ts"}
    BY Zenon, <1>3 DEF Bank!FrontEndFault, Bank!Refresh, Bank!ShipCommand, Bank!UpdateBegins
  <2>2. QED
    BY <2>1 DEF BankRest, Bank!AllFaults, Bank!BankAssumption
<1>4. CASE Bank!PowerDown \/ Bank!UpdateApply \/ Bank!UpdateStarves
  <2>1. UNCHANGED <<broken, temp, events>> /\ fault' = {} /\ cur' = "none"
    BY Zenon, <1>4 DEF Bank!PowerDown, Bank!UpdateApply, Bank!UpdateStarves, Bank!Down
  <2>2. QED
    BY <2>1 DEF BankRest
<1>5. CASE Bank!Crash
  BY <1>5 DEF Bank!Crash, BankRest, Bank!BankAssumption
<1>6. CASE Bank!Cells \/ Bank!OverCurrent
  <2>1. /\ events < BankEvents /\ events' = events + 1 /\ UNCHANGED <<broken, temp, cur>>
        /\ \E f \in CellFaults \cup Bank!CurrentFaults : fault' \in {fault \cup {f}, fault \ {f}}
    BY <1>6 DEF Bank!Cells, Bank!OverCurrent
  <2>2. CellFaults \cup Bank!CurrentFaults \subseteq Bank!AllFaults
    BY DEF Bank!BankAssumption, Bank!AllFaults
  <2>3. QED
    BY <2>1, <2>2 DEF BankRest, Bank!BankAssumption
<1>7. CASE Bank!Measure \/ Bank!Clear
  BY <1>7 DEF Bank!Measure, Bank!Clear, Bank!measured, BankRest
<1>8. CASE Bank!Weather
  <2>1. /\ events < BankEvents /\ events' = events + 1 /\ UNCHANGED <<fault, cur>>
        /\ temp' = temp \/ temp' \in {"dCold", "cCold", "ok", "cHot", "dHot"}
        /\ broken' = broken \/ \E b \in {"dsg", "chg"} : broken' = broken \cup {b}
    BY Zenon, <1>8 DEF Bank!Weather
  <2>2. temp' \in {"dCold", "cCold", "ok", "cHot", "dHot"} /\ broken' \subseteq {"dsg", "chg"}
    BY <2>1 DEF BankRest
  <2>3. QED
    BY <2>1, <2>2 DEF BankRest, Bank!BankAssumption
<1>9. QED
  BY <1>1, <1>2, <1>3, <1>4, <1>5, <1>6, <1>7, <1>8 DEF Bank!Next

LEMMA NextInputs ==
  ASSUME BankInputs, [Bank!Next]_Bank!vars
  PROVE  BankInputs'
<1> USE DEF BankInputs
<1>1. CASE \/ Bank!FastTick \/ Bank!SlowTick \/ Bank!Alarm \/ Bank!Note \/ Bank!Exhausted
           \/ Bank!Precharge \/ Bank!ShippingCheck \/ Bank!Release \/ UNCHANGED Bank!vars
  BY Zenon, <1>1 DEF Bank!FastTick, Bank!SlowTick, Bank!Alarm, Bank!Note, Bank!Exhausted,
     Bank!Precharge, Bank!ShippingCheck, Bank!Release, Bank!measured, Bank!kept, Bank!vars
<1>2. CASE \/ Bank!FrontEndFault \/ Bank!Refresh \/ Bank!ShipCommand \/ Bank!UpdateBegins
  BY Zenon, <1>2 DEF Bank!FrontEndFault, Bank!Refresh, Bank!ShipCommand, Bank!UpdateBegins,
     Bank!kept
<1>3. CASE Bank!PowerDown \/ Bank!UpdateApply \/ Bank!UpdateStarves \/ Bank!Crash
  BY Zenon, <1>3 DEF Bank!PowerDown, Bank!UpdateApply, Bank!UpdateStarves, Bank!Crash, Bank!Down
<1>4. CASE Bank!Start
  <2>1. recovered' = recovered \/ recovered' = TRUE
    BY <1>4 DEF Bank!Start, Bank!Resume
  <2>2. QED
    BY Zenon, <1>4, <2>1 DEF Bank!Start, Bank!measured
<1>5. CASE Bank!Cells \/ Bank!Measure \/ Bank!OverCurrent \/ Bank!Clear \/ Bank!Weather
  BY Zenon, <1>5 DEF Bank!Cells, Bank!Measure, Bank!OverCurrent, Bank!Clear, Bank!Weather,
     Bank!machine, Bank!measured, Bank!kept
<1>6. QED
  BY <1>1, <1>2, <1>3, <1>4, <1>5 DEF Bank!Next

LEMMA BankBegins ==
  ASSUME Bank!BankAssumption, Bank!Init
  PROVE  BankSafe /\ BankRest /\ BankInputs
<1>1. BankCore /\ BankRest /\ Bank!FetsFollowState
  BY DEF Bank!Init, BankCore, BankRest, Bank!FetsFollowState, Bank!States, Bank!BankAssumption
<1>2. BankFlags /\ BankInputs
  BY DEF Bank!Init, BankFlags, BankInputs
<1>3. QED
  BY <1>1, <1>2 DEF BankSafe

\* The power bank's state, backup registers, transistors and flags keep their
\* types, whatever its handlers, commands and resets do (states.c,
\* transitions.c, main.c of powerbankware).
THEOREM BankTyped ==
  ASSUME Bank!BankAssumption
  PROVE  Bank!Spec => []Bank!TypeOK
<1>1. Bank!Init => BankSafe /\ BankRest /\ BankInputs
  BY BankBegins
<1>2. BankSafe /\ BankRest /\ BankInputs /\ [Bank!Next]_Bank!vars
        => (BankSafe /\ BankRest /\ BankInputs)'
  BY NextSafe, NextRest, NextInputs
<1>3. BankSafe /\ BankRest /\ BankInputs => Bank!TypeOK
  BY BankTypeParts DEF BankSafe
<1>4. QED
  BY <1>1, <1>2, <1>3, PTL DEF Bank!Spec

\* A transistor of the power bank is closed only in a state that lets its
\* current flow (transitions.c), through every rule, alarm, order and reset.
THEOREM BankFetsFollow ==
  ASSUME Bank!BankAssumption
  PROVE  Bank!Spec => []Bank!FetsFollowState
<1>1. Bank!Init => BankSafe
  BY BankBegins
<1>2. BankSafe /\ [Bank!Next]_Bank!vars => BankSafe'
  BY NextSafe
<1>3. BankSafe => Bank!FetsFollowState
  BY DEF BankSafe
<1>4. QED
  BY <1>1, <1>2, <1>3, PTL DEF Bank!Spec

\* The handlers of a second-level failure have no rule, no alarm and no way on.
LEMMA FailureIdle ==
  ASSUME state \in Bank!Failures
  PROVE  /\ Bank!Ways(state) = {} /\ Bank!Scanned(state) = {}
         /\ \A c : Bank!Rules(state, c) = <<>>
<1>1. state \in {23, 24, 25}
  BY DEF Bank!Failures
<1>2. Bank!Ways(state) = {}
  BY <1>1 DEF Bank!Ways
<1>3. Bank!Scanned(state) = {}
  BY <1>1, SMTT(30) DEF Bank!Scanned
<1>4. ASSUME NEW c PROVE Bank!Rules(state, c) = <<>>
  BY <1>1 DEF Bank!Rules
<1>5. QED
  BY <1>2, <1>3, <1>4

LEMMA BankStepKept ==
  ASSUME [Bank!Next]_Bank!vars
  PROVE  Bank!FailureKept
<1> SUFFICES ASSUME state \in Bank!Failures, state' \notin {state, 0, 6, 27}
             PROVE  Bank!Release
  BY DEF Bank!FailureKept
<1>1. state \notin {0, 1, 2, 3, 6} \cup Bank!Protections
  BY DEF Bank!Failures, Bank!Protections
<1>2. CASE Bank!FastTick
  BY <1>2, FailureIdle DEF Bank!FastTick
<1>3. CASE Bank!SlowTick
  BY <1>3, FailureIdle DEF Bank!SlowTick
<1>4. CASE Bank!Alarm
  BY <1>4, FailureIdle DEF Bank!Alarm
<1>5. CASE Bank!FrontEndFault
  <2>1. state' = state \/ state \in {1, 2, 3} \cup Bank!Protections
    BY <1>5 DEF Bank!FrontEndFault
  <2>2. QED
    BY <1>1, <2>1
<1>6. CASE Bank!Note \/ Bank!Exhausted \/ Bank!Precharge \/ Bank!Start
  <2>1. state \in {0, 2, 3, 6}
    BY Zenon, <1>6 DEF Bank!Note, Bank!Exhausted, Bank!Precharge, Bank!Start
  <2>2. QED
    BY <1>1, <2>1
<1>7. CASE Bank!ShippingCheck \/ Bank!ShipCommand \/ Bank!Refresh
  <2>1. state' \in {6, 27}
    BY Zenon, <1>7 DEF Bank!ShippingCheck, Bank!ShipCommand, Bank!Refresh, Bank!Enter,
       Bank!EnterFrom
  <2>2. QED
    BY <2>1
<1>8. CASE Bank!PowerDown \/ Bank!UpdateApply \/ Bank!UpdateStarves \/ Bank!Crash
  <2>1. state' = 0
    BY Zenon, <1>8 DEF Bank!PowerDown, Bank!UpdateApply, Bank!UpdateStarves, Bank!Crash, Bank!Down
  <2>2. QED
    BY <2>1
<1>9. CASE \/ Bank!UpdateBegins \/ Bank!Cells \/ Bank!Measure \/ Bank!OverCurrent
           \/ Bank!Clear \/ Bank!Weather \/ UNCHANGED Bank!vars
  <2>1. state' = state
    BY Zenon, <1>9 DEF Bank!UpdateBegins, Bank!Cells, Bank!Measure, Bank!OverCurrent,
       Bank!Clear, Bank!Weather, Bank!machine, Bank!vars
  <2>2. QED
    BY <2>1
<1>10. QED
  BY <1>2, <1>3, <1>4, <1>5, <1>6, <1>7, <1>8, <1>9 DEF Bank!Next

\* A second-level failure of the power bank is left by a power-down, a reset,
\* a front end that does not answer or the console's release; by nothing that
\* is measured (states.c, main.c of powerbankware).
THEOREM BankFailureHolds == Bank!Spec => Bank!FailureHolds
  BY BankStepKept, PTL DEF Bank!Spec, Bank!FailureHolds

-----------------------------------------------------------------------------
(* The pack's gauge                                                         *)

Stored == [magic : {"none", "old", "ours"}, field : [1..GaugeFields -> {"zero", "old", "own", "default"}],
           charge : Nat, soc : Nat, full : Nat, mark : Nat]
Loaded == [charge : 0..20, soc : Nat, full : {0, 20}, mark : Nat]
GaugeShape == /\ pc \in 0..(GaugeFields + 5) /\ ee \in Stored /\ cfg \in Loaded
              /\ est \in 0..20 /\ sum \in Int /\ low \in Nat /\ lows \in Nat /\ beyond \in Nat
Set(i) == ee.field[i] \notin {"zero", "old"}

\* A start has read the magic number, and the fields it went past are set.
FieldsChecked == pc \in 1..(GaugeFields + 2) =>
                   magic = ee.magic /\ \A i \in 1..GaugeFields : i < pc => Set(i)
\* A pack that runs has a record; before that nothing was seen low.
RecordReady == /\ pc \in 1..(GaugeFields + 3) => cfg.full = 0 /\ lows = 0
               /\ pc = 0 => lows = 0
               /\ pc \in (GaugeFields + 4)..(GaugeFields + 5) => cfg.full = 20
\* Once a low cell was seen the charge is a twentieth at most, or the debounce
\* has counted every call since.
LowCounted == lows > 0 => \/ cfg.charge <= 1 /\ cfg.soc <= 6
                          \/ cfg.soc > 5 /\ lows <= low /\ low < LowRuns
GaugeInv == GaugeShape /\ G!Configured /\ FieldsChecked /\ RecordReady /\ LowCounted

LEMMA Recounted ==
  ASSUME NEW c \in Loaded, NEW x \in 0..20, NEW p \in Nat
  PROVE  [c EXCEPT !.soc = p, !.charge = x] \in Loaded
  BY DEF Loaded

LEMMA TailShows ==
  ASSUME NEW c \in Loaded
  PROVE  /\ G!Tail(c) \in Loaded /\ G!Tail(c).charge = c.charge /\ G!Tail(c).full = c.full
         /\ c.charge <= 1 => G!Tail(c).soc <= 6
         /\ c.charge > 1 => G!Tail(c).soc > 5
<1>1. DEFINE p == (c.charge * 100) \div 20 + (IF c.charge # 0 THEN 1 ELSE 0)
<1>2. /\ c.charge \in 0..20 /\ p \in Nat
      /\ c.charge <= 1 => p <= 6
      /\ c.charge > 1 => p > 5
  BY DEF Loaded
<1>3. G!Least(c.charge, 20) = c.charge
  BY <1>2 DEF G!Least
<1>4. G!Tail(c) = [c EXCEPT !.charge = c.charge, !.soc = G!Least(p, 100)]
  BY <1>3 DEF G!Tail, G!Percent
<1>5. G!Least(p, 100) \in Nat /\ (p <= 6 => G!Least(p, 100) <= 6) /\ (p > 5 => G!Least(p, 100) > 5)
  BY <1>2 DEF G!Least
<1>6. /\ G!Tail(c) \in Loaded /\ G!Tail(c).charge = c.charge /\ G!Tail(c).full = c.full
      /\ G!Tail(c).soc = G!Least(p, 100)
  <2> HIDE DEF p
  <2>1. QED
    BY <1>4, <1>5 DEF Loaded
<1>7. QED
  BY <1>2, <1>5, <1>6

LEMMA GaugeBegins ==
  ASSUME G!GaugeAssumption
  PROVE  G!Init => GaugeInv
<1> SUFFICES ASSUME G!Init PROVE GaugeInv
  OBVIOUS
<1>1. PICK g \in {"none", "old", "ours"} :
        \E f \in [1..GaugeFields -> IF g = "ours" THEN {"own", "default"} ELSE {"zero", "old"}] :
          ee = [magic |-> g, field |-> f, charge |-> 0, soc |-> 0, full |-> 0, mark |-> 0]
  BY DEF G!Init
<1>2. PICK f \in [1..GaugeFields -> IF g = "ours" THEN {"own", "default"} ELSE {"zero", "old"}] :
        ee = [magic |-> g, field |-> f, charge |-> 0, soc |-> 0, full |-> 0, mark |-> 0]
  BY <1>1
<1>3. f \in [1..GaugeFields -> {"zero", "old", "own", "default"}]
  OBVIOUS
<1>4. ee \in Stored /\ ee.magic = g /\ ee.field = f
  BY <1>2, <1>3 DEF Stored
<1>5. G!Configured
  BY <1>4 DEF G!Configured
<1>6. QED
  BY <1>4, <1>5 DEF G!Init, G!Blank, G!GaugeAssumption, GaugeInv, GaugeShape, Loaded,
     FieldsChecked, RecordReady, LowCounted

LEMMA GaugeStarts ==
  ASSUME G!GaugeAssumption, GaugeInv,
         G!Load \/ G!Field \/ G!Marks \/ G!Magic \/ G!Setup \/ G!Cut
  PROVE  GaugeInv'
<1> USE DEF GaugeInv, GaugeShape, FieldsChecked, RecordReady, LowCounted, Set, G!Configured,
        G!GaugeAssumption
<1>1. CASE G!Load
  BY <1>1 DEF G!Load, G!Blank, Loaded
<1>2. CASE G!Field
  <2>1. pc \in 1..GaugeFields /\ pc' = pc + 1 /\ magic = ee.magic /\ UNCHANGED <<magic, cfg, est, sum, low, beyond, lows>>
    BY <1>2 DEF G!Field
  <2>2. CASE ee' = ee
    <3>1. ee.magic = "ours" \/ Set(pc)
      BY <2>1, <2>2, <1>2 DEF G!Field, Stored
    <3>2. QED
      BY <2>1, <2>2, <3>1
  <2>3. CASE ee' = [ee EXCEPT !.field[pc] = "default"]
    <3>1. ee' \in Stored /\ ee'.magic = ee.magic /\ ee'.field = [ee.field EXCEPT ![pc] = "default"]
      BY <2>1, <2>3 DEF Stored
    <3>2. ee'.field[pc] = "default" /\ \A i \in 1..GaugeFields : i # pc => ee'.field[i] = ee.field[i]
      BY <2>1, <3>1 DEF Stored
    <3>3. QED
      BY <2>1, <3>1, <3>2
  <2>4. QED
    BY <1>2, <2>2, <2>3 DEF G!Field
<1>3. CASE G!Marks
  <2>1. ee' \in Stored /\ ee'.magic = ee.magic /\ ee'.field = ee.field
    BY <1>3 DEF G!Marks, G!Default, Stored
  <2>2. QED
    BY <1>3, <2>1 DEF G!Marks
<1>4. CASE G!Magic
  <2>1. ee' \in Stored /\ ee'.magic = "ours" /\ ee'.field = ee.field
    BY <1>4 DEF G!Magic, Stored
  <2>2. QED
    BY <1>4, <2>1 DEF G!Magic
<1>5. CASE G!Setup
  <2>1. ee' \in Stored /\ ee'.magic = ee.magic /\ ee'.field = ee.field
    <3>1. est \in Nat
      OBVIOUS
    <3>2. CASE ee' = ee
      BY <3>2
    <3>3. CASE ee' = [ee EXCEPT !.charge = est, !.soc = 0, !.full = 20, !.mark = 0]
      BY <3>1, <3>3 DEF Stored
    <3>4. QED
      BY <1>5, <3>2, <3>3 DEF G!Setup
  <2>2. cfg' \in Loaded /\ cfg'.full = 20
    BY <1>5 DEF G!Setup, G!Factory, Loaded
  <2>3. QED
    BY <1>5, <2>1, <2>2 DEF G!Setup, G!Running
<1>6. CASE G!Cut
  BY <1>6 DEF G!Cut, G!Blank, Loaded
<1>7. QED
  BY <1>1, <1>2, <1>3, <1>4, <1>5, <1>6

LEMMA DischargeKept ==
  ASSUME G!GaugeAssumption, GaugeInv, G!Discharge
  PROVE  GaugeInv'
<1> USE DEF G!GaugeAssumption
<1>1. PICK b \in G!SeenBands, val \in 1..2 :
        LET left0 == G!Less(sum, val)
        IN  /\ sum' = left0
            /\ cfg' = G!Tail(IF G!IsLow(b) THEN G!LowBand(cfg) ELSE G!HighBand(cfg, val, left0, b))
            /\ low' = IF G!IsLow(b) /\ cfg.soc > 5 /\ ~G!Due THEN low + 1 ELSE 0
            /\ lows' = IF ~G!IsLow(b) THEN 0
                       ELSE IF cfg.soc > 5 THEN G!Least(lows + 1, LowRuns) ELSE lows
  BY DEF G!Discharge
<1>2. pc = GaugeFields + 4 /\ UNCHANGED <<pc, ee, magic, est, beyond, cuts>>
  BY DEF G!Discharge, G!Running
<1>3. cfg \in Loaded /\ cfg.full = 20 /\ low \in Nat /\ lows \in Nat /\ sum \in Int
  BY <1>2 DEF GaugeInv, GaugeShape, RecordReady
<1>4. CASE ~G!IsLow(b)
  <2> DEFINE left0 == G!Less(sum, val)
             c == G!HighBand(cfg, val, left0, b)
  <2>1. c \in Loaded /\ c.full = 20
    BY <1>3 DEF G!HighBand, G!Less, Loaded
  <2>2. cfg' = G!Tail(c) /\ low' = 0 /\ lows' = 0
    BY <1>1, <1>4
  <2>3. cfg' \in Loaded /\ cfg'.full = 20
    BY <2>1, <2>2, TailShows
  <2>4. sum' \in Int
    BY <1>1, <1>3 DEF G!Less
  <2>5. QED
    BY <1>2, <2>2, <2>3, <2>4 DEF GaugeInv, GaugeShape, FieldsChecked, RecordReady, LowCounted,
       Set, G!Configured
<1>5. CASE G!IsLow(b)
  <2> DEFINE c == G!LowBand(cfg)
  <2>1. /\ c \in Loaded /\ c.full = 20
        /\ cfg.soc > 5 /\ low + 1 >= LowRuns => c.charge <= 1
        /\ ~(cfg.soc > 5 /\ low + 1 >= LowRuns) => c = cfg
    <3>1. (20 * 5) \div 100 = 1
      OBVIOUS
    <3>2. G!RsocSet(cfg, 5) = [cfg EXCEPT !.soc = 5, !.charge = 1]
      BY <1>3, <3>1 DEF G!RsocSet
    <3>3. G!RsocSet(cfg, 5) \in Loaded /\ G!RsocSet(cfg, 5).full = 20 /\ G!RsocSet(cfg, 5).charge = 1
      <4>1. [cfg EXCEPT !.soc = 5, !.charge = 1] \in Loaded
        <5>1. 1 \in 0..20 /\ 5 \in Nat
          OBVIOUS
        <5>2. QED
          BY <1>3, <5>1, Recounted, Zenon
      <4>2. /\ [cfg EXCEPT !.soc = 5, !.charge = 1].full = cfg.full
            /\ [cfg EXCEPT !.soc = 5, !.charge = 1].charge = 1
        BY <1>3 DEF Loaded
      <4>3. QED
        BY <1>3, <3>2, <4>1, <4>2
    <3>4. c = IF cfg.soc > 5 /\ low + 1 >= LowRuns THEN G!RsocSet(cfg, 5) ELSE cfg
      BY DEF G!LowBand, G!Due
    <3>5. QED
      BY <1>3, <3>3, <3>4
  <2>2. /\ cfg' = G!Tail(c)
        /\ low' = IF cfg.soc > 5 /\ ~(low + 1 >= LowRuns) THEN low + 1 ELSE 0
        /\ lows' = IF cfg.soc > 5 THEN IF lows + 1 < LowRuns THEN lows + 1 ELSE LowRuns ELSE lows
    BY <1>1, <1>5 DEF G!Due, G!Least
  <2>3. cfg' \in Loaded /\ cfg'.full = 20 /\ cfg.soc \in Nat /\ c.charge \in 0..20 /\ cfg'.soc \in Nat
    BY <1>3, <2>1, <2>2, TailShows DEF Loaded
  <2>4. cfg'.charge = c.charge /\ (c.charge <= 1 => cfg'.soc <= 6) /\ (c.charge > 1 => cfg'.soc > 5)
    BY <2>1, <2>2, TailShows
  <2>5. LowCounted'
    <3> USE DEF LowCounted
    <3>1. CASE cfg.soc > 5 /\ low + 1 >= LowRuns
      BY <3>1, <2>1, <2>3, <2>4
    <3>2. CASE cfg.soc > 5 /\ ~(low + 1 >= LowRuns)
      <4>1. c = cfg /\ low' = low + 1 /\ low' < LowRuns
        BY <3>2, <2>1, <2>2, <1>3
      <4>2. CASE cfg.charge <= 1
        BY <4>1, <4>2, <2>4
      <4>3. CASE cfg.charge > 1
        <5>1. lows <= low
          BY <4>3, <1>3, <2>3, <4>1 DEF GaugeInv
        <5>2. lows' <= low'
          BY <5>1, <4>1, <2>2, <1>3, <3>2
        <5>3. QED
          BY <5>2, <4>1, <4>3, <2>4
      <4>4. QED
        BY <4>2, <4>3, <2>3, <4>1
    <3>3. CASE ~(cfg.soc > 5)
      <4>1. c = cfg /\ lows' = lows
        BY <3>3, <2>1, <2>2
      <4>2. QED
        BY <4>1, <3>3, <2>3, <2>4 DEF GaugeInv
    <3>4. QED
      BY <3>1, <3>2, <3>3
  <2>6. sum' \in Int /\ low' \in Nat /\ lows' \in Nat
    BY <1>1, <1>3, <2>2 DEF G!Less
  <2>7. QED
    BY <1>2, <2>3, <2>5, <2>6 DEF GaugeInv, GaugeShape, FieldsChecked, RecordReady, Set,
       G!Configured
<1>6. QED
  BY <1>4, <1>5

LEMMA GaugeRuns ==
  ASSUME G!GaugeAssumption, GaugeInv,
         G!Charge \/ G!Rest \/ G!Balance \/ G!Resend \/ G!Resent
  PROVE  GaugeInv'
<1> USE DEF G!GaugeAssumption, GaugeInv, GaugeShape, FieldsChecked, RecordReady, LowCounted, Set,
        G!Configured
<1>1. CASE G!Charge \/ G!Rest
  <2>1. cfg' = G!Tail(cfg) /\ pc = GaugeFields + 4 /\ UNCHANGED <<pc, ee, magic, est, low, lows, beyond>>
    BY <1>1 DEF G!Charge, G!Rest, G!Running
  <2>2. cfg' \in Loaded /\ cfg'.full = cfg.full /\ cfg'.charge = cfg.charge
    BY <2>1, TailShows
  <2>3. cfg.charge \in 0..20 /\ cfg'.soc \in Nat
    BY <2>2 DEF Loaded
  <2>4. (cfg.charge <= 1 => cfg'.soc <= 6) /\ (cfg.charge > 1 => cfg'.soc > 5)
    BY <2>1, TailShows
  <2>5. sum' \in Int
    BY <1>1 DEF G!Charge, G!Rest, G!Least
  <2>6. LowCounted'
    BY <2>1, <2>2, <2>3, <2>4
  <2>7. QED
    BY <2>1, <2>2, <2>5, <2>6
<1>2. CASE G!Balance
  <2>1. PICK r \in 1..WarmTemps, mean \in 1..WarmTemps :
          LET t == G!Near(r, mean)
          IN  /\ beyond' = IF cfg.mark < t THEN G!Least(beyond + 1, FullReads) ELSE 0
              /\ IF G!Raised(t)
                 THEN cfg' = [cfg EXCEPT !.mark = t] /\ ee' = [ee EXCEPT !.mark = t]
                 ELSE UNCHANGED <<cfg, ee>>
    BY <1>2 DEF G!Balance
  <2>2. G!Near(r, mean) \in Nat
    BY DEF G!Near
  <2>3. /\ cfg' \in Loaded /\ cfg'.full = cfg.full /\ cfg'.charge = cfg.charge /\ cfg'.soc = cfg.soc
        /\ ee' \in Stored /\ ee'.magic = ee.magic /\ ee'.field = ee.field
    BY <2>1, <2>2 DEF Loaded, Stored
  <2>4. beyond' \in Nat
    BY <2>1 DEF G!Least
  <2>5. UNCHANGED <<pc, magic, est, sum, low, lows, cuts>>
    BY <1>2 DEF G!Balance
  <2>6. QED
    BY <2>3, <2>4, <2>5
<1>3. CASE G!Resend \/ G!Resent
  <2>1. ee' \in Stored /\ ee'.magic = ee.magic /\ ee'.field = ee.field
    <3>1. cfg.charge \in Nat /\ cfg.soc \in Nat
      BY DEF Loaded
    <3>2. ee' = [ee EXCEPT !.charge = cfg.charge] \/ ee' = [ee EXCEPT !.soc = cfg.soc]
      BY <1>3 DEF G!Resend, G!Resent
    <3>3. QED
      BY <3>1, <3>2 DEF Stored
  <2>2. /\ pc \in {GaugeFields + 4, GaugeFields + 5} /\ pc' \in {GaugeFields + 4, GaugeFields + 5}
        /\ UNCHANGED <<magic, cfg, est, sum, low, beyond, lows, cuts>>
    BY <1>3 DEF G!Resend, G!Resent, G!Running, G!Resending
  <2>3. QED
    BY <2>1, <2>2
<1>4. QED
  BY <1>1, <1>2, <1>3

LEMMA GaugeKept ==
  ASSUME G!GaugeAssumption, GaugeInv, [G!Next]_G!vars
  PROVE  GaugeInv'
<1>1. CASE UNCHANGED G!vars
  BY <1>1 DEF G!vars, GaugeInv, GaugeShape, FieldsChecked, RecordReady, LowCounted, Set, G!Configured
<1>2. CASE G!Next
  BY <1>2, GaugeStarts, DischargeKept, GaugeRuns DEF G!Next
<1>3. QED
  BY <1>1, <1>2

\* The magic number of the pack's record stands for checked fields wherever
\* power went away, and a pack whose lowest cell stays low shows that it is
\* nearly empty (bms_setup.c, fuel_gauge.c of batteryware).
LEMMA GaugeSound ==
  ASSUME G!GaugeAssumption, GaugeInv
  PROVE  G!Configured /\ G!LowCellsShown
  BY DEF GaugeInv, GaugeShape, LowCounted, G!LowCellsShown, G!GaugeAssumption, Loaded

-----------------------------------------------------------------------------
(* The pack's end of the bus                                                *)

TokenKinds == {"sync", "func", "value", "size", "data", "crc", "noise"}
BusToken == [k : TokenKinds, f : U!Commands \cup {""}, i : Nat]
\* The sum of a frame is on the wire or in the receiver only if it was sent.
SumsSent(tokens) == \A n \in 1..Len(tokens) : tokens[n].k = "crc" => tokens[n].f \in sent
Receiver == [at : 0..2, fn : {0, 3, 6, 16}, got : Seq(BusToken)]
BusInv == /\ rx \in Receiver /\ left \in Seq(BusToken)
          /\ \A n \in 1..Len(left) : left[n].k = "func" => left[n].i \in {3, 6, 16}
          /\ SumsSent(left) /\ SumsSent(rx.got) /\ U!OnlySent

LEMMA BusTokens ==
  ASSUME NEW k0 \in TokenKinds, NEW f0 \in U!Commands \cup {""}, NEW i0 \in Nat
  PROVE  /\ U!Token(k0, f0, i0) \in BusToken
         /\ U!Token(k0, f0, i0).k = k0 /\ U!Token(k0, f0, i0).f = f0 /\ U!Token(k0, f0, i0).i = i0
  BY DEF U!Token, BusToken

LEMMA BusFrames ==
  ASSUME U!BusAssumption, NEW u \in U!Frames
  PROVE  /\ u.f \in U!Commands /\ u.i \in Nat /\ U!Function[u.f] \in {3, 6, 16}
         /\ \/ U!Body(u) = <<U!Token("size", u.f, 0), U!Token("data", u.f, u.i), U!Token("crc", u.f, u.i)>>
            \/ U!Body(u) = <<U!Token("value", u.f, 0), U!Token("crc", u.f, 0)>>
<1>1. u.f \in U!Commands /\ u.i \in Nat
  <2>1. CASE u \in [f : U!Commands \ {"block"}, i : {0}]
    BY <2>1
  <2>2. CASE u \in [f : {"block"}, i : U!Blocks]
    BY <2>2 DEF U!Blocks, U!Commands, U!BusAssumption
  <2>3. QED
    BY <2>1, <2>2 DEF U!Frames
<1>2. U!Function[u.f] \in {3, 6, 16}
  BY <1>1 DEF U!Function
<1>3. QED
  BY <1>1, <1>2 DEF U!Body

SoundToken(t, x) == /\ t \in BusToken
                    /\ t.k = "crc" => t.f = x
                    /\ t.k = "func" => t.i \in {3, 6, 16}

LEMMA SoundTokens ==
  ASSUME NEW k0 \in TokenKinds, NEW f0 \in U!Commands \cup {""}, NEW i0 \in Nat, NEW x,
         k0 = "crc" => f0 = x, k0 = "func" => i0 \in {3, 6, 16}
  PROVE  SoundToken(U!Token(k0, f0, i0), x)
<1>1. /\ U!Token(k0, f0, i0) \in BusToken
      /\ U!Token(k0, f0, i0).k = k0 /\ U!Token(k0, f0, i0).f = f0 /\ U!Token(k0, f0, i0).i = i0
  BY DEF U!Token, BusToken
<1>2. QED
  BY <1>1, Zenon DEF SoundToken

LEMMA BusFields ==
  ASSUME U!BusAssumption, NEW u \in U!Frames
  PROVE  /\ U!Fields(u) \in Seq(BusToken)
         /\ \A n \in 1..Len(U!Fields(u)) : SoundToken(U!Fields(u)[n], u.f)
<1> DEFINE T(t) == SoundToken(t, u.f)
<1>1. /\ U!Function[u.f] \in {3, 6, 16} /\ u.f \in U!Commands \cup {""} /\ u.i \in Nat
      /\ "" \in U!Commands \cup {""} /\ 0 \in Nat
  BY BusFrames, Zenon
<1>2. {"sync", "func", "value", "size", "data", "crc"} \subseteq TokenKinds
  BY DEF TokenKinds
<1>3. T(U!Token("sync", "", 0))
  <2>1. "sync" \in TokenKinds /\ "sync" # "crc" /\ "sync" # "func"
    BY <1>2
  <2>2. QED
    BY <1>1, <2>1, SoundTokens
<1>4. T(U!Token("func", "", U!Function[u.f]))
  <2>1. "func" \in TokenKinds /\ "func" # "crc"
    BY <1>2
  <2>3. U!Function[u.f] \in Nat
    <3>1. \A n \in {3, 6, 16} : n \in Nat
      OBVIOUS
    <3>2. QED
      BY <1>1, <3>1, Zenon
  <2>2. QED
    BY <1>1, <2>1, <2>3, SoundTokens, Zenon
<1>5. T(U!Token("size", u.f, 0)) /\ T(U!Token("data", u.f, u.i)) /\ T(U!Token("value", u.f, 0))
  <2>1. /\ {"size", "data", "value"} \subseteq TokenKinds
        /\ "size" # "func" /\ "data" # "func" /\ "value" # "func"
    BY <1>2
  <2>2. QED
    BY <1>1, <2>1, SoundTokens, Zenon
<1>6. T(U!Token("crc", u.f, u.i)) /\ T(U!Token("crc", u.f, 0))
  <2>1. "crc" \in TokenKinds /\ "crc" # "func"
    BY <1>2
  <2>2. QED
    BY <1>1, <2>1, SoundTokens, Zenon
<1>7. ASSUME NEW a, NEW b, NEW c, NEW d, NEW e, T(a), T(b), T(c), T(d), T(e)
      PROVE  /\ <<a, b>> \o <<c, d, e>> \in Seq(BusToken)
             /\ \A n \in 1..Len(<<a, b>> \o <<c, d, e>>) : T((<<a, b>> \o <<c, d, e>>)[n])
  BY <1>7 DEF SoundToken
<1>8. ASSUME NEW a, NEW b, NEW c, NEW d, T(a), T(b), T(c), T(d)
      PROVE  /\ <<a, b>> \o <<c, d>> \in Seq(BusToken)
             /\ \A n \in 1..Len(<<a, b>> \o <<c, d>>) : T((<<a, b>> \o <<c, d>>)[n])
  BY <1>8 DEF SoundToken
<1>9. CASE U!Body(u) = <<U!Token("size", u.f, 0), U!Token("data", u.f, u.i), U!Token("crc", u.f, u.i)>>
  BY <1>3, <1>4, <1>5, <1>6, <1>7, <1>9, Zenon DEF U!Fields
<1>10. CASE U!Body(u) = <<U!Token("value", u.f, 0), U!Token("crc", u.f, 0)>>
  BY <1>3, <1>4, <1>5, <1>6, <1>8, <1>10, Zenon DEF U!Fields
<1>11. QED
  BY <1>9, <1>10, BusFrames

LEMMA MeantWasSent ==
  ASSUME U!BusAssumption, NEW r \in Receiver, SumsSent(r.got), NEW u \in U!Meant(r)
  PROVE  u.f \in sent
<1>1. u \in U!Frames /\ U!Body(u) = r.got
  BY DEF U!Meant
<1>2. CASE r.got = <<U!Token("size", u.f, 0), U!Token("data", u.f, u.i), U!Token("crc", u.f, u.i)>>
  <2>1. Len(r.got) = 3 /\ r.got[3].k = "crc" /\ r.got[3].f = u.f
    BY <1>2 DEF U!Token
  <2>2. QED
    BY <2>1 DEF SumsSent
<1>3. CASE r.got = <<U!Token("value", u.f, 0), U!Token("crc", u.f, 0)>>
  <2>1. Len(r.got) = 2 /\ r.got[2].k = "crc" /\ r.got[2].f = u.f
    BY <1>3 DEF U!Token
  <2>2. QED
    BY <2>1 DEF SumsSent
<1>4. QED
  BY <1>1, <1>2, <1>3, BusFrames

LEMMA BusReceives ==
  ASSUME U!BusAssumption, BusInv, NEW t \in BusToken,
         t.k = "func" => t.i \in {3, 6, 16}, t.k = "crc" => t.f \in sent,
         U!Receive(t), sent' = sent
  PROVE  rx' \in Receiver /\ SumsSent(rx.got)' /\ U!OnlySent'
<1> DEFINE r == U!Collect(t)
<1>1. rx \in Receiver /\ SumsSent(rx.got)
  BY DEF BusInv
<1>2. r \in Receiver /\ SumsSent(r.got)
  <2>1. U!Start \in Receiver /\ U!Start.got = <<>>
    BY DEF U!Start, Receiver
  <2>2. SumsSent(<<>>)
    BY DEF SumsSent
  <2>3. CASE r = U!Start \/ r = rx
    BY <2>1, <2>2, <2>3, <1>1
  <2>4. CASE r = [U!Start EXCEPT !.at = 1]
    BY <2>1, <2>2, <2>4 DEF Receiver
  <2>5. CASE t.k = "func" /\ r = [U!Start EXCEPT !.at = 2, !.fn = t.i]
    <3>1. t.i \in {0, 3, 6, 16} /\ 2 \in 0..2
      BY <2>5
    <3>2. r \in Receiver /\ r.got = <<>>
      BY <2>1, <2>5, <3>1 DEF Receiver
    <3>3. QED
      BY <2>2, <3>2
  <2>6. CASE r = [rx EXCEPT !.got = Append(@, t)]
    <3>0. rx.got \in Seq(BusToken) /\ Append(rx.got, t) \in Seq(BusToken)
      BY <1>1 DEF Receiver
    <3>1. r \in Receiver /\ r.got = Append(rx.got, t)
      <4> HIDE DEF r
      <4>1. QED
        BY <1>1, <2>6, <3>0 DEF Receiver
    <3>2. QED
      BY <1>1, <3>0, <3>1 DEF SumsSent
  <2>7. QED
    BY <1>1, <2>3, <2>4, <2>5, <2>6 DEF U!Collect, Receiver
<1>3. CASE ~U!Complete(r)
  BY <1>2, <1>3 DEF U!Receive, SumsSent, U!OnlySent, BusInv
<1>4. CASE U!Complete(r) /\ U!Meant(r) = {}
  <2>1. rx' = U!Rejected(r) /\ UNCHANGED ran
    BY <1>4 DEF U!Receive
  <2>2. rx' = U!Start \/ rx' = r
    BY <2>1 DEF U!Rejected
  <2>3. QED
    <3>1. U!Start \in Receiver /\ SumsSent(U!Start.got)
      BY DEF U!Start, Receiver, SumsSent
    <3> HIDE DEF r
    <3>2. rx' \in Receiver /\ SumsSent(rx'.got)
      BY <1>2, <2>2, <3>1
    <3>3. QED
      BY <2>1, <3>2 DEF SumsSent, U!OnlySent, BusInv
<1>5. CASE U!Complete(r) /\ U!Meant(r) # {}
  <2>0. U!Start \in Receiver /\ SumsSent(U!Start.got)
    BY DEF U!Start, Receiver, SumsSent
  <2> DEFINE u == CHOOSE w \in U!Meant(r) : TRUE
  <2>1. rx' = U!Left(r, u) /\ ran' = ran \cup {u.f}
    BY <1>5 DEF U!Receive
  <2>2. u \in U!Meant(r)
    BY <1>5
  <2>3. u.f \in sent
    BY <1>2, <2>2, MeantWasSent
  <2>4. rx' = U!Start \/ rx' = r
    BY <2>1 DEF U!Left
  <2>5. QED
    <3> HIDE DEF r, u
    <3>1. rx' \in Receiver /\ SumsSent(rx'.got)
      BY <1>2, <2>0, <2>4
    <3>2. U!OnlySent'
      BY <2>1, <2>3 DEF U!OnlySent, BusInv
    <3>3. QED
      BY <3>1, <3>2 DEF SumsSent
<1>6. QED
  BY <1>3, <1>4, <1>5

LEMMA BusBegins ==
  ASSUME U!BusAssumption
  PROVE  U!Init => BusInv
  BY DEF U!Init, U!Start, BusInv, Receiver, SumsSent, U!OnlySent

LEMMA BusKept ==
  ASSUME U!BusAssumption, BusInv, [U!Next]_U!vars
  PROVE  BusInv'
<1>1. CASE U!Send
  <2>1. PICK u \in U!Frames : left' = U!Fields(u) /\ sent' = sent \cup {u.f}
    BY <1>1 DEF U!Send
  <2>2. UNCHANGED <<rx, ran>>
    BY <1>1 DEF U!Send, U!pack
  <2>3. SumsSent(left)'
    BY <2>1, BusFields DEF SumsSent, SoundToken
  <2>4. SumsSent(rx.got)' /\ U!OnlySent'
    BY <2>1, <2>2 DEF BusInv, SumsSent, U!OnlySent
  <2>5. QED
    BY <2>1, <2>2, <2>3, <2>4, BusFields DEF BusInv, SoundToken
<1>2. CASE U!Byte \/ U!Damaged
  <2>1. /\ left # <<>> /\ left' = Tail(left) /\ UNCHANGED sent
        /\ left \in Seq(BusToken)
    BY <1>2 DEF U!Byte, U!Damaged, BusInv
  <2>2. PICK t \in {Head(left), U!Noise} : U!Receive(t)
    BY <1>2 DEF U!Byte, U!Damaged
  <2>3. Len(left) \in Nat /\ Len(left) >= 1 /\ Head(left) = left[1]
    BY <2>1
  <2>4. t \in BusToken /\ (t.k = "func" => t.i \in {3, 6, 16}) /\ (t.k = "crc" => t.f \in sent)
    <3>1. CASE t = Head(left)
      BY <2>1, <2>3, <3>1 DEF BusInv, SumsSent
    <3>2. CASE t = U!Noise
      <4>1. "noise" \in TokenKinds /\ "" \in U!Commands \cup {""} /\ 0 \in Nat
        BY DEF TokenKinds
      <4>2. QED
        BY <3>2, <4>1, BusTokens DEF U!Noise
    <3>3. QED
      BY <3>1, <3>2
  <2>5. rx' \in Receiver /\ SumsSent(rx.got)' /\ U!OnlySent'
    BY <2>1, <2>2, <2>4, BusReceives
  <2>6. left' \in Seq(BusToken) /\ Len(left') = Len(left) - 1 /\ \A n \in 1..Len(left') : left'[n] = left[n + 1]
    BY <2>1, <2>3
  <2>7. \A n \in 1..Len(left') : n + 1 \in 1..Len(left)
    BY <2>3, <2>6
  <2>8. QED
    BY <2>1, <2>5, <2>6, <2>7 DEF BusInv, SumsSent
<1>3. CASE U!Lost
  <2>1. /\ left # <<>> /\ left' = Tail(left) /\ UNCHANGED <<rx, ran, sent>>
        /\ left \in Seq(BusToken)
    BY <1>3 DEF U!Lost, U!pack, BusInv
  <2>3. Len(left) \in Nat /\ Len(left) >= 1
    BY <2>1
  <2>6. left' \in Seq(BusToken) /\ Len(left') = Len(left) - 1 /\ \A n \in 1..Len(left') : left'[n] = left[n + 1]
    BY <2>1, <2>3
  <2>7. \A n \in 1..Len(left') : n + 1 \in 1..Len(left)
    BY <2>3, <2>6
  <2>8. QED
    BY <2>1, <2>6, <2>7 DEF BusInv, SumsSent, U!OnlySent
<1>4. CASE U!Restart
  BY <1>4 DEF U!Restart, U!host, U!Start, Receiver, BusInv, SumsSent, U!OnlySent
<1>5. CASE UNCHANGED U!vars
  BY <1>5 DEF U!vars, U!pack, U!host, BusInv, SumsSent, U!OnlySent
<1>6. QED
  BY <1>1, <1>2, <1>3, <1>4, <1>5 DEF U!Next

-----------------------------------------------------------------------------
(* The power bank's service port                                            *)

PortKinds == {"sync", "func", "size", "data", "value", "crc", "text", "cr", "put", "go", "addr", "code", "noise"}
PortNames == S!AllCommands \cup S!Images \cup DOMAIN S!Function \cup {""}
PortToken == [k : PortKinds, c : PortNames, i : Nat]
PortRx == [at : 0..2, fn : Nat, got : Seq(PortToken)]
Kept == {"mode", "rx", "line", "order", "page", "staged", "loader", "esn", "hw", "cal", "flag"}
\* The firmware's memory: one download at a time, a whole boot loader.
PortSound(s) == /\ DOMAIN s = Kept /\ s.rx \in PortRx
                /\ s.mode \in {{}, {"boot"}, {"app"}, {"ota"}}
                /\ S!Whole("old", s.loader) \/ S!Whole("boot", s.loader)

NoSync(t) == t \in PortToken /\ t.k # "sync"
\* Only the first token of a unit starts a frame, and a frame that ran left
\* the receiver at rest.
Units1 == /\ left \in Seq(PortToken)
          /\ \A n \in 2..Len(left) : left[n].k # "sync"
          /\ done \in {0, 1}
          /\ done = 1 => port.rx.at = 0 /\ \A n \in 1..Len(left) : left[n].k # "sync"

\* The progress of a frame that found the receiver at rest.
Progress(u) ==
  \/ left = S!Fields(u) /\ port.rx = S!Rest
  \/ left = Tail(S!Fields(u)) /\ port.rx = [S!Rest EXCEPT !.at = 1]
  \/ left = S!Body(u) /\ port.rx = [at |-> 2, fn |-> S!Function[u.f], got |-> <<>>]
  \/ left = Tail(S!Body(u)) /\ port.rx = [at |-> 2, fn |-> S!Function[u.f], got |-> <<S!Body(u)[1]>>]
  \/ /\ left = Tail(Tail(S!Body(u))) /\ Len(S!Body(u)) = 3
     /\ port.rx = [at |-> 2, fn |-> S!Function[u.f], got |-> <<S!Body(u)[1], S!Body(u)[2]>>]
Tracked == clean => \/ left = <<>> /\ done = 1
                    \/ done = 0 /\ S!Framed(port) /\ \E u \in S!Frames : Progress(u)
PortInv == PortSound(port) /\ Units1 /\ Tracked

LEMMA PortTokens ==
  ASSUME NEW k0 \in PortKinds, NEW c0 \in PortNames, NEW i0 \in Nat
  PROVE  /\ S!Token(k0, c0, i0) \in PortToken /\ S!Token(k0, c0, i0).k = k0
         /\ S!Token(k0, c0, i0).i = i0
  BY DEF S!Token, PortToken

LEMMA PortPlain ==
  ASSUME NEW k0 \in PortKinds \ {"sync"}, NEW c0 \in PortNames, NEW i0 \in Nat
  PROVE  NoSync(S!Token(k0, c0, i0))
<1>1. S!Token(k0, c0, i0) \in PortToken /\ S!Token(k0, c0, i0).k = k0
  BY DEF S!Token, PortToken
<1>2. QED
  BY <1>1 DEF NoSync

LEMMA PortFrame ==
  ASSUME S!PortAssumption, NEW u \in S!Frames
  PROVE  /\ u.k = "frame" /\ u.f \in DOMAIN S!Function /\ u.f \in PortNames /\ u.c \in PortNames
         /\ u.i \in Nat /\ S!Function[u.f] \in {3, 6, 16}
<1>0. \A f \in DOMAIN S!Function : S!Function[f] \in {3, 6, 16}
  BY DEF S!Function
<1>1. CASE u \in [k : {"frame"}, f : DOMAIN S!Function \ {"block"}, c : {""}, i : {0}]
  <2>2. u.k = "frame" /\ u.f \in DOMAIN S!Function /\ u.c = "" /\ u.i = 0
    BY <1>1
  <2>3. 0 \in Nat
    OBVIOUS
  <2>4. QED
    BY <1>0, <2>2, <2>3, Zenon DEF PortNames
<1>2. CASE u \in [k : {"frame"}, f : {"block"}, c : S!Images, i : S!Blocks]
  <2>1. u.k = "frame" /\ u.f = "block" /\ u.c \in S!Images /\ u.i \in S!Blocks
    BY <1>2
  <2>2. u.f \in DOMAIN S!Function /\ S!Function[u.f] = 16
    BY <2>1 DEF S!Function
  <2>3. u.i \in Nat
    BY <2>1 DEF S!Blocks, S!PortAssumption
  <2>4. QED
    BY <2>1, <2>2, <2>3 DEF PortNames
<1>3. QED
  BY <1>1, <1>2 DEF S!Frames

\* What a frame is made of: two bytes of head and a body of two or three
\* fields.
Short(u, a, b) == S!Function[u.f] \in {3, 6} /\ S!Body(u) = <<a, b>>
Long(u, a, b, c) == S!Function[u.f] = 16 /\ S!Body(u) = <<a, b, c>> /\ a.k = "size"
LEMMA PortBody ==
  ASSUME S!PortAssumption, NEW u \in S!Frames
  PROVE  \/ \E a, b \in PortToken : NoSync(a) /\ NoSync(b) /\ a.k # "cr" /\ b.k # "cr" /\ Short(u, a, b)
         \/ \E a, b, c \in PortToken :
              /\ NoSync(a) /\ NoSync(b) /\ NoSync(c) /\ a.k # "cr" /\ b.k # "cr" /\ c.k # "cr"
              /\ Long(u, a, b, c)
<1>1. /\ u.f \in PortNames /\ u.c \in PortNames /\ u.i \in Nat /\ S!Function[u.f] \in {3, 6, 16}
  BY PortFrame
<1>2. {"size", "data", "crc", "value"} \subseteq PortKinds \ {"sync"}
  BY DEF PortKinds
<1>3. 0 \in Nat
  OBVIOUS
<1>4. CASE S!Function[u.f] = 16
  <2> DEFINE a == S!Token("size", u.f, 0)
             b == S!Token("data", u.c, u.i)
             c == S!Token("crc", u.f, u.i)
  <2>1. NoSync(a) /\ NoSync(b) /\ NoSync(c)
    BY <1>1, <1>2, <1>3, PortPlain, Zenon
  <2>2. a.k = "size" /\ b.k = "data" /\ c.k = "crc"
    BY DEF S!Token
  <2>3. S!Body(u) = <<a, b, c>>
    BY <1>4 DEF S!Body
  <2> HIDE DEF a, b, c
  <2>4. a.k # "cr" /\ b.k # "cr" /\ c.k # "cr"
    BY <2>2
  <2>5. QED
    BY <1>4, <2>1, <2>2, <2>3, <2>4, Zenon DEF Long, NoSync
<1>5. CASE S!Function[u.f] # 16
  <2> DEFINE a == S!Token("value", u.f, 0)
             b == S!Token("crc", u.f, 0)
  <2>1. NoSync(a) /\ NoSync(b)
    BY <1>1, <1>2, <1>3, PortPlain, Zenon
  <2>2. a.k = "value" /\ b.k = "crc"
    BY DEF S!Token
  <2>3. S!Body(u) = <<a, b>>
    BY <1>5 DEF S!Body
  <2> HIDE DEF a, b
  <2>4. a.k # "cr" /\ b.k # "cr" /\ S!Function[u.f] \in {3, 6}
    BY <1>1, <1>5, <2>2
  <2>5. QED
    BY <2>1, <2>3, <2>4, Zenon DEF Short, NoSync
<1>6. QED
  BY <1>4, <1>5

LEMMA PortFields ==
  ASSUME S!PortAssumption, NEW u \in S!Units
  PROVE  /\ S!Fields(u) \in Seq(PortToken)
         /\ \A n \in 2..Len(S!Fields(u)) : S!Fields(u)[n].k # "sync"
<1> DEFINE Good(s) == s \in Seq(PortToken) /\ \A n \in 2..Len(s) : s[n].k # "sync"
<1>1. ASSUME NEW a \in PortToken, NEW b, NEW c, NEW d, NEW e, NoSync(b), NoSync(c), NoSync(d), NoSync(e)
      PROVE  Good(<<a, b>> \o <<c, d, e>>)
  BY <1>1 DEF NoSync
<1>2. ASSUME NEW a \in PortToken, NEW b, NEW c, NEW d, NoSync(b), NoSync(c), NoSync(d)
      PROVE  Good(<<a, b>> \o <<c, d>>)
  BY <1>2 DEF NoSync
<1>3. ASSUME NEW a \in PortToken, NEW b, NoSync(b)
      PROVE  Good(<<a, b>>)
  BY <1>3 DEF NoSync
<1>4. ASSUME NEW a \in PortToken, NEW b, NEW c, NoSync(b), NoSync(c)
      PROVE  Good(<<a, b, c>>)
  BY <1>4 DEF NoSync
<1>5. {"func", "cr", "text", "put", "go", "addr", "code"} \subseteq PortKinds \ {"sync"} /\ "sync" \in PortKinds
  BY DEF PortKinds
<1>6. "" \in PortNames /\ S!Images \subseteq PortNames /\ TextCommands \subseteq PortNames /\ 0 \in Nat /\ 1 \in Nat
  BY DEF PortNames, S!PortAssumption
<1>7. CASE u \in S!Frames
  <2> DEFINE a == S!Token("sync", "", 0)
             b == S!Token("func", "", S!Function[u.f])
  <2>1. a \in PortToken
    BY <1>5, <1>6, PortTokens, Zenon
  <2>2. S!Function[u.f] \in Nat
    BY <1>7, PortFrame
  <2>3. NoSync(b)
    BY <1>5, <1>6, <2>2, PortPlain, Zenon
  <2>4. S!Fields(u) = <<a, b>> \o S!Body(u)
    BY <1>7, PortFrame DEF S!Fields
  <2> HIDE DEF a, b, Good
  <2>5. Good(S!Fields(u))
    <3>1. CASE \E x, y \in PortToken : NoSync(x) /\ NoSync(y) /\ x.k # "cr" /\ y.k # "cr" /\ Short(u, x, y)
      <4>1. PICK x, y \in PortToken : NoSync(x) /\ NoSync(y) /\ S!Body(u) = <<x, y>>
        BY <3>1 DEF Short
      <4>2. QED
        BY <1>2, <2>1, <2>3, <2>4, <4>1, Zenon
    <3>2. CASE \E x, y, z \in PortToken :
                 /\ NoSync(x) /\ NoSync(y) /\ NoSync(z) /\ x.k # "cr" /\ y.k # "cr" /\ z.k # "cr"
                 /\ Long(u, x, y, z)
      <4>1. PICK x, y, z \in PortToken : NoSync(x) /\ NoSync(y) /\ NoSync(z) /\ S!Body(u) = <<x, y, z>>
        BY <3>2 DEF Long
      <4>2. QED
        BY <1>1, <2>1, <2>3, <2>4, <4>1, Zenon
    <3>3. QED
      BY <1>7, <3>1, <3>2, PortBody, Zenon
  <2>6. QED
    BY <2>5 DEF Good
<1>8. CASE u \in [k : {"line"}, f : TextCommands, c : {""}, i : {0}]
  <2>1. u.k = "line" /\ u.f \in TextCommands
    BY <1>8
  <2>2. S!Fields(u) = <<S!Token("text", u.f, 0), S!Token("cr", "", 0)>>
    BY <2>1 DEF S!Fields
  <2>3. S!Token("text", u.f, 0) \in PortToken /\ NoSync(S!Token("cr", "", 0))
    BY <1>5, <1>6, <2>1, PortTokens, PortPlain, Zenon
  <2> HIDE DEF Good
  <2>4. Good(S!Fields(u))
    BY <1>3, <2>2, <2>3, Zenon
  <2>5. QED
    BY <2>4 DEF Good
<1>9. CASE u \in [k : {"go"}, f : {""}, c : {""}, i : {1}]
  <2>1. S!Fields(u) = <<S!Token("go", "", 0), S!Token("addr", "", 1)>>
    BY <1>9 DEF S!Fields
  <2>2. S!Token("go", "", 0) \in PortToken /\ NoSync(S!Token("addr", "", 1))
    BY <1>5, <1>6, PortTokens, PortPlain, Zenon
  <2> HIDE DEF Good
  <2>3. Good(S!Fields(u))
    BY <1>3, <2>1, <2>2, Zenon
  <2>4. QED
    BY <2>3 DEF Good
<1>10. CASE u \in [k : {"put"}, f : {""}, c : S!Images, i : S!Blocks]
  <2>1. u.k = "put" /\ u.c \in S!Images /\ u.i \in S!Blocks
    BY <1>10
  <2>2. u.i \in Nat
    BY <2>1 DEF S!Blocks, S!PortAssumption
  <2>3. S!Fields(u) = <<S!Token("put", "", 0), S!Token("addr", "", u.i), S!Token("code", u.c, u.i)>>
    BY <2>1 DEF S!Fields
  <2>4. S!Token("put", "", 0) \in PortToken /\ NoSync(S!Token("addr", "", u.i)) /\ NoSync(S!Token("code", u.c, u.i))
    BY <1>5, <1>6, <2>1, <2>2, PortTokens, PortPlain, Zenon
  <2> HIDE DEF Good
  <2>5. Good(S!Fields(u))
    BY <1>4, <2>3, <2>4, Zenon
  <2>6. QED
    BY <2>5 DEF Good
<1>11. QED
  BY <1>7, <1>8, <1>9, <1>10 DEF S!Units, S!Orders

LEMMA StartSound ==
  ASSUME NEW s, PortSound(s)
  PROVE  PortSound(S!Start(s)) /\ S!Start(s).mode = {} /\ S!Start(s).rx = S!Rest
<1>1. DOMAIN S!Fresh = {"mode", "rx", "line", "order", "page"} /\ S!Fresh.mode = {} /\ S!Fresh.rx = S!Rest
  BY DEF S!Fresh
<1>2. DOMAIN s = Kept /\ {"mode", "rx", "loader"} \subseteq Kept
  BY DEF PortSound, Kept
<1>3. /\ DOMAIN S!Start(s) = Kept
      /\ \A f \in Kept : S!Start(s)[f] = IF f \in DOMAIN S!Fresh THEN S!Fresh[f] ELSE s[f]
  BY <1>2 DEF S!Start
<1>4. S!Start(s).mode = {} /\ S!Start(s).rx = S!Rest /\ S!Start(s).loader = s.loader
  BY <1>1, <1>2, <1>3
<1>5. S!Rest \in PortRx
  BY DEF S!Rest, PortRx
<1>6. QED
  BY <1>3, <1>4, <1>5 DEF PortSound

\* A change of the fields nothing is claimed of.
LEMMA PortOther ==
  ASSUME NEW s, PortSound(s), NEW v
  PROVE  /\ \A f \in Kept \ {"mode", "rx", "loader"} :
              /\ PortSound([s EXCEPT ![f] = v])
              /\ [s EXCEPT ![f] = v].mode = s.mode /\ [s EXCEPT ![f] = v].rx = s.rx
<1> SUFFICES ASSUME NEW f \in Kept \ {"mode", "rx", "loader"}
             PROVE  /\ PortSound([s EXCEPT ![f] = v])
                    /\ [s EXCEPT ![f] = v].mode = s.mode /\ [s EXCEPT ![f] = v].rx = s.rx
  OBVIOUS
<1>1. DOMAIN s = Kept /\ {"mode", "rx", "loader"} \subseteq DOMAIN s
  BY DEF PortSound, Kept
<1> DEFINE r == [s EXCEPT ![f] = v]
<1>2. DOMAIN r = Kept /\ r.mode = s.mode /\ r.rx = s.rx /\ r.loader = s.loader
  BY <1>1
<1> HIDE DEF r
<1>3. PortSound(r)
  BY <1>2 DEF PortSound
<1>4. QED
  BY <1>2, <1>3 DEF r

LEMMA PortReceiver ==
  ASSUME NEW s, PortSound(s), NEW r \in PortRx
  PROVE  PortSound([s EXCEPT !.rx = r]) /\ [s EXCEPT !.rx = r].rx = r /\ [s EXCEPT !.rx = r].mode = s.mode
<1>1. DOMAIN s = Kept /\ {"mode", "rx", "loader"} \subseteq DOMAIN s
  BY DEF PortSound, Kept
<1> DEFINE q == [s EXCEPT !.rx = r]
<1>2. DOMAIN q = Kept /\ q.mode = s.mode /\ q.rx = r /\ q.loader = s.loader
  BY <1>1
<1> HIDE DEF q
<1>3. PortSound(q)
  BY <1>2 DEF PortSound
<1>4. QED
  BY <1>2, <1>3 DEF q

LEMMA ModeSound ==
  ASSUME NEW s, PortSound(s), NEW m \in {"boot", "app", "ota"}, s.mode \subseteq {m}
  PROVE  LET r == [s EXCEPT !.mode = @ \cup {m}] IN PortSound(r) /\ r.rx = s.rx
<1>1. DOMAIN s = Kept /\ {"mode", "rx", "loader"} \subseteq DOMAIN s
  BY DEF PortSound, Kept
<1> DEFINE r == [s EXCEPT !.mode = @ \cup {m}]
<1>2. DOMAIN r = Kept /\ r.mode = {m} /\ r.rx = s.rx /\ r.loader = s.loader
  BY <1>1
<1> HIDE DEF r
<1>3. PortSound(r)
  BY <1>2 DEF PortSound
<1>4. QED
  BY <1>2, <1>3 DEF r

\* A frame is executed with the receiver at rest, which it stays, and starts
\* no second download.
LEMMA ExecuteSound ==
  ASSUME NEW s, PortSound(s), s.rx = S!Rest, s.mode \subseteq {"ota"}, NEW u
  PROVE  LET r == S!Execute(s, u) IN PortSound(r) /\ r.rx = S!Rest /\ r.mode \subseteq {"ota"}
<1>1. ASSUME NEW v
      PROVE  /\ PortSound([S!Start(s) EXCEPT !.flag = v]) /\ [S!Start(s) EXCEPT !.flag = v].rx = S!Rest
             /\ [S!Start(s) EXCEPT !.flag = v].mode = {}
             /\ PortSound([s EXCEPT !.esn = v]) /\ [s EXCEPT !.esn = v].rx = S!Rest
             /\ [s EXCEPT !.esn = v].mode = s.mode
  <2>1. "flag" \in Kept \ {"mode", "rx", "loader"} /\ "esn" \in Kept \ {"mode", "rx", "loader"}
    BY DEF Kept
  <2>2. QED
    BY <2>1, StartSound, PortOther
<1>2. ASSUME NEW c, NEW i
      PROVE  PortSound(S!WriteBlock(s, c, i)) /\ S!WriteBlock(s, c, i).rx = S!Rest /\
             S!WriteBlock(s, c, i).mode = {"ota"}
  <2> DEFINE r == S!WriteBlock(s, c, i)
  <2>1. DOMAIN s = Kept /\ {"mode", "rx", "loader"} \subseteq DOMAIN s
    BY DEF PortSound, Kept
  <2>2. DOMAIN r = Kept /\ r.mode = {"ota"} /\ r.rx = S!Rest /\ r.loader = s.loader
    BY <2>1 DEF S!WriteBlock
  <2> HIDE DEF r
  <2>3. PortSound(r)
    BY <2>2 DEF PortSound
  <2>4. QED
    BY <2>2, <2>3 DEF r
<1>3. PortSound(S!Start(s)) /\ S!Start(s).rx = S!Rest /\ S!Start(s).mode = {}
  BY StartSound
<1> DEFINE r == S!Execute(s, u)
<1>4. \/ r = s \/ r = S!Start(s) \/ r = [S!Start(s) EXCEPT !.flag = "app"]
      \/ r = [s EXCEPT !.esn = TRUE] \/ r = S!WriteBlock(s, u.c, u.i)
  BY DEF S!Execute, S!Telemetry, S!WriteSingle, S!WriteApply, S!WriteShip, S!WriteTrim, S!WriteMulti,
     S!WriteSerial
<1> HIDE DEF r
<1>5. PortSound(r) /\ r.rx = S!Rest /\ (r.mode = s.mode \/ r.mode = {} \/ r.mode = {"ota"})
  <2>1. CASE r = s
    BY <2>1
  <2>2. CASE r = S!Start(s)
    BY <2>2, <1>3
  <2>3. CASE r = [S!Start(s) EXCEPT !.flag = "app"]
    BY <2>3, <1>1
  <2>4. CASE r = [s EXCEPT !.esn = TRUE]
    BY <2>4, <1>1
  <2>5. CASE r = S!WriteBlock(s, u.c, u.i)
    BY <2>5, <1>2
  <2>6. QED
    BY <1>4, <2>1, <2>2, <2>3, <2>4, <2>5
<1>6. QED
  BY <1>5 DEF r

LEMMA RxWith ==
  ASSUME NEW r \in PortRx, NEW n \in Nat
  PROVE  [r EXCEPT !.at = 2, !.fn = n] \in PortRx
<1>1. 2 \in 0..2
  OBVIOUS
<1>2. QED
  BY <1>1, Zenon DEF PortRx

LEMMA CollectTyped ==
  ASSUME NEW r \in PortRx, NEW t \in PortToken
  PROVE  /\ S!Collect(r, t) \in PortRx
         /\ r.at = 0 /\ t.k # "sync" => S!Collect(r, t) = S!Rest
<1>1. S!Rest \in PortRx /\ S!Rest.at = 0
  BY DEF S!Rest, PortRx
<1>2. [S!Rest EXCEPT !.at = 1] \in PortRx
  BY <1>1 DEF PortRx
<1>3. [S!Rest EXCEPT !.at = 2, !.fn = t.i] \in PortRx
  <2>1. t.i \in Nat
    BY DEF PortToken
  <2>2. QED
    BY <1>1, <2>1, RxWith
<1>4. [r EXCEPT !.got = Append(@, t)] \in PortRx
  <2>1. Append(r.got, t) \in Seq(PortToken)
    BY DEF PortRx
  <2>2. QED
    BY <2>1 DEF PortRx
<1>5. QED
  BY <1>1, <1>2, <1>3, <1>4 DEF S!Collect

\* A byte in the frame processor: the frame that runs leaves the receiver at
\* rest, and the mode changes only when one runs.
LEMMA ProcessSound ==
  ASSUME NEW s, PortSound(s), s.mode \subseteq {"ota"}, NEW t \in PortToken
  PROVE  LET r == S!Process(s, t)
         IN  /\ PortSound(r) /\ r.mode \subseteq {"ota"}
             /\ S!Runs(s, t) => r.rx = S!Rest
             /\ ~S!Completed(S!Collect(s.rx, t)) => r.rx = S!Collect(s.rx, t) /\ r.mode = s.mode
             /\ s.rx.at = 0 /\ t.k # "sync" => r.rx = S!Rest /\ ~S!Runs(s, t)
<1> DEFINE x == S!Collect(s.rx, t)
<1>0. s.rx \in PortRx /\ S!Rest \in PortRx
  BY DEF PortSound, S!Rest, PortRx
<1>1. x \in PortRx /\ (s.rx.at = 0 /\ t.k # "sync" => x = S!Rest)
  BY <1>0, CollectTyped
<1>2. ~S!Completed(S!Rest)
  BY DEF S!Completed, S!Rest
<1> HIDE DEF x
<1>3. CASE ~S!Completed(x)
  <2>1. S!Process(s, t) = [s EXCEPT !.rx = x] /\ ~S!Runs(s, t)
    BY <1>3 DEF S!Process, S!Runs, x
  <2>2. QED
    BY <1>1, <1>3, <2>1, PortReceiver DEF x
<1>4. CASE S!Completed(x) /\ S!Sums(x.got) = {}
  <2>1. S!Process(s, t) = [s EXCEPT !.rx = S!Rest] /\ ~S!Runs(s, t)
    BY <1>4 DEF S!Process, S!Runs, x
  <2>2. QED
    BY <1>0, <1>1, <1>2, <1>4, <2>1, PortReceiver DEF x
<1>5. CASE S!Completed(x) /\ S!Sums(x.got) # {}
  <2> DEFINE q == [s EXCEPT !.rx = S!Rest]
             u == CHOOSE w \in S!Sums(x.got) : TRUE
  <2>1. S!Process(s, t) = S!Execute(q, u)
    BY <1>5 DEF S!Process, S!Rested, x
  <2>2. PortSound(q) /\ q.rx = S!Rest /\ q.mode = s.mode
    BY <1>0, PortReceiver
  <2> HIDE DEF q, u
  <2>3. QED
    BY <1>1, <1>2, <1>5, <2>1, <2>2, ExecuteSound DEF x
<1>6. QED
  BY <1>3, <1>4, <1>5

\* The line buffer leaves the receiver alone and starts a download only when
\* none is under way.
LEMMA LineSound ==
  ASSUME NEW s, PortSound(s), s.mode \subseteq {"ota"}, NEW t
  PROVE  LET r == S!Line(s, t)
         IN  PortSound(r) /\ r.rx = s.rx /\ (t.k # "cr" => r.mode = s.mode)
<1>1. {"line", "esn", "cal", "hw"} \subseteq Kept \ {"mode", "rx", "loader"}
  BY DEF Kept
<1>2. ASSUME NEW q, PortSound(q), NEW v
      PROVE  /\ PortSound([q EXCEPT !.line = v])
             /\ [q EXCEPT !.line = v].rx = q.rx /\ [q EXCEPT !.line = v].mode = q.mode
  BY <1>1, <1>2, PortOther
<1>3. ASSUME s.mode = {}
      PROVE  PortSound(S!Dispatch(s)) /\ S!Dispatch(s).rx = s.rx
  <2>1. PortSound([s EXCEPT !.hw = TRUE]) /\ [s EXCEPT !.hw = TRUE].rx = s.rx
    BY <1>1, PortOther
  <2>2. PortSound([s EXCEPT !.hw = TRUE, !.cal = "none"]) /\ [s EXCEPT !.hw = TRUE, !.cal = "none"].rx = s.rx
    BY <1>1, <2>1, PortOther
  <2>3. PortSound([s EXCEPT !.cal = "chg"]) /\ [s EXCEPT !.cal = "chg"].rx = s.rx
    BY <1>1, PortOther
  <2>4. PortSound([s EXCEPT !.cal = "dsg"]) /\ [s EXCEPT !.cal = "dsg"].rx = s.rx
    BY <1>1, PortOther
  <2>5. PortSound([s EXCEPT !.esn = FALSE]) /\ [s EXCEPT !.esn = FALSE].rx = s.rx
    BY <1>1, PortOther
  <2>6. PortSound([s EXCEPT !.mode = @ \cup {"app"}]) /\ [s EXCEPT !.mode = @ \cup {"app"}].rx = s.rx
    BY <1>3, ModeSound
  <2>7. PortSound([s EXCEPT !.mode = @ \cup {"boot"}]) /\ [s EXCEPT !.mode = @ \cup {"boot"}].rx = s.rx
    BY <1>3, ModeSound
  <2>8. \/ S!Dispatch(s) = s \/ S!Dispatch(s) = [s EXCEPT !.hw = TRUE]
        \/ S!Dispatch(s) = [s EXCEPT !.hw = TRUE, !.cal = "none"]
        \/ S!Dispatch(s) = [s EXCEPT !.cal = "chg"] \/ S!Dispatch(s) = [s EXCEPT !.cal = "dsg"]
        \/ S!Dispatch(s) = [s EXCEPT !.esn = FALSE]
        \/ S!Dispatch(s) = [s EXCEPT !.mode = @ \cup {"app"}]
        \/ S!Dispatch(s) = [s EXCEPT !.mode = @ \cup {"boot"}]
    BY DEF S!Dispatch, S!CmdWho, S!CmdResetBms, S!CmdUpgradeAp, S!CmdUpgradeBl, S!CmdChgCal, S!CmdDsgCal,
       S!CmdResetEsn, S!CmdSetRtc, S!CmdHwVersion, S!CmdOffset, S!CmdSetRsoc, S!CmdTsOffset
  <2> DEFINE d == S!Dispatch(s)
  <2> HIDE DEF d
  <2>9. QED
    BY <2>1, <2>2, <2>3, <2>4, <2>5, <2>6, <2>7, <2>8 DEF d
<1>4. CASE "ota" \in s.mode
  BY <1>2, <1>4 DEF S!Line
<1>5. CASE "ota" \notin s.mode
  <2>1. s.mode = {}
    BY <1>5
  <2> DEFINE r == S!Line(s, t)
  <2>2. \/ t.k = "cr" /\ r = [S!Dispatch(s) EXCEPT !.line = "none"]
        \/ r = [s EXCEPT !.line = "none"]
        \/ r = [s EXCEPT !.line = S!Text(s, t)]
    BY <1>5 DEF S!Line, S!LineKept
  <2> HIDE DEF r
  <2>3. CASE t.k = "cr" /\ r = [S!Dispatch(s) EXCEPT !.line = "none"]
    <3>1. PortSound(S!Dispatch(s)) /\ S!Dispatch(s).rx = s.rx
      BY <1>3, <2>1
    <3>2. PortSound(r) /\ r.rx = S!Dispatch(s).rx
      BY <1>2, <2>3, <3>1
    <3>3. QED
      BY <2>3, <3>1, <3>2 DEF r
  <2>4. CASE r = [s EXCEPT !.line = "none"] \/ r = [s EXCEPT !.line = S!Text(s, t)]
    <3>1. PortSound(r) /\ r.rx = s.rx /\ r.mode = s.mode
      <4>1. CASE r = [s EXCEPT !.line = "none"]
        BY <1>2, <4>1
      <4>2. CASE r = [s EXCEPT !.line = S!Text(s, t)]
        BY <1>2, <4>2
      <4>3. QED
        BY <2>4, <4>1, <4>2
    <3>2. QED
      BY <3>1 DEF r
  <2>5. QED
    BY <2>2, <2>3, <2>4
<1>6. QED
  BY <1>4, <1>5

\* An order of a download leaves the receiver of frames alone or starts over,
\* and installs a boot loader that was looked at.
LEMMA ModemSound ==
  ASSUME NEW s, PortSound(s), NEW t
  PROVE  LET r == S!Modem(s, t) IN PortSound(r) /\ (r.rx = s.rx \/ r.rx = S!Rest)
<1>1. {"order", "staged", "flag"} \subseteq Kept \ {"mode", "rx", "loader"}
  BY DEF Kept
<1>2. ASSUME NEW v
      PROVE  PortSound([s EXCEPT !.order = v]) /\ [s EXCEPT !.order = v].rx = s.rx
  BY <1>1, PortOther
<1>3. PortSound(S!Respond(s)) /\ S!Respond(s).rx = s.rx
  BY <1>2 DEF S!Respond
<1>4. ASSUME NEW v
      PROVE  PortSound([S!Respond(s) EXCEPT !.staged = v]) /\ [S!Respond(s) EXCEPT !.staged = v].rx = s.rx
  BY <1>1, <1>3, PortOther
<1>5. PortSound(S!Go(s)) /\ (S!Go(s).rx = s.rx \/ S!Go(s).rx = S!Rest)
  <2>1. PortSound(S!Start(s)) /\ S!Start(s).rx = S!Rest /\ S!Start(s).mode = {}
    BY StartSound
  <2>2. PortSound([S!Start(s) EXCEPT !.flag = "app"]) /\ [S!Start(s) EXCEPT !.flag = "app"].rx = S!Rest
    BY <1>1, <2>1, PortOther
  <2>3. ASSUME S!Verified(s), NEW a, NEW b
        PROVE  LET r == [S!Start(s) EXCEPT !.loader = s.staged, !.staged = a, !.flag = b]
               IN  PortSound(r) /\ r.rx = S!Rest
    <3> DEFINE r == [S!Start(s) EXCEPT !.loader = s.staged, !.staged = a, !.flag = b]
    <3>1. DOMAIN S!Start(s) = Kept /\ {"mode", "rx", "loader", "staged", "flag"} \subseteq Kept
      BY <2>1 DEF PortSound, Kept
    <3>2. DOMAIN r = Kept /\ r.mode = {} /\ r.rx = S!Rest /\ r.loader = s.staged
      BY <2>1, <3>1
    <3>3. S!Whole("boot", r.loader) /\ S!Rest \in PortRx
      BY <2>3, <3>2 DEF S!Verified, S!Rest, PortRx
    <3> HIDE DEF r
    <3>4. PortSound(r)
      BY <3>2, <3>3 DEF PortSound
    <3>5. QED
      BY <3>2, <3>4 DEF r
  <2> DEFINE g == S!Go(s)
  <2>4. \/ g = [S!Start(s) EXCEPT !.flag = "app"]
        \/ S!Verified(s) /\ g = [S!Start(s) EXCEPT !.loader = s.staged,
                               !.staged = [j \in S!Blocks |-> "app"], !.flag = "none"]
        \/ g = [S!Respond(s) EXCEPT !.staged = [j \in S!Blocks |-> "app"]]
    BY DEF S!Go
  <2> HIDE DEF g
  <2>5. PortSound(g) /\ (g.rx = s.rx \/ g.rx = S!Rest)
    <3>1. CASE g = [S!Start(s) EXCEPT !.flag = "app"]
      BY <2>2, <3>1
    <3>2. CASE S!Verified(s) /\ g = [S!Start(s) EXCEPT !.loader = s.staged,
                               !.staged = [j \in S!Blocks |-> "app"], !.flag = "none"]
      BY <2>3, <3>2, Zenon
    <3>3. CASE g = [S!Respond(s) EXCEPT !.staged = [j \in S!Blocks |-> "app"]]
      <4>1. PortSound(g) /\ g.rx = s.rx
        BY <1>4, <3>3, Zenon
      <4>2. QED
        BY <4>1
    <3>4. QED
      BY <2>4, <3>1, <3>2, <3>3
  <2>6. QED
    BY <2>5 DEF g
<1>6. PortSound(S!Order(s, t)) /\ S!Order(s, t).rx = s.rx
  BY <1>2, <1>3 DEF S!Order
<1>7. PortSound(S!Address(s, t)) /\ (S!Address(s, t).rx = s.rx \/ S!Address(s, t).rx = S!Rest)
  <2>1. \/ S!Address(s, t) = S!Respond(s) \/ S!Address(s, t) = S!Go(s)
        \/ \E v : S!Address(s, t) = [s EXCEPT !.order = v]
    BY DEF S!Address
  <2> DEFINE g == S!Address(s, t)
  <2> HIDE DEF g
  <2>2. QED
    BY <1>2, <1>3, <1>5, <2>1 DEF g
<1>8. PortSound(S!Block(s, t)) /\ S!Block(s, t).rx = s.rx
  BY <1>3, <1>4 DEF S!Block
<1>9. QED
  BY <1>6, <1>7, <1>8 DEF S!Modem

LEMMA ArriveUnits ==
  ASSUME S!PortAssumption, PortSound(port), Units1, NEW t \in PortToken, left # <<>>, S!Arrive(t),
         t = Head(left) \/ t.k # "sync"
  PROVE  PortSound(port') /\ Units1'
<1>1. /\ left \in Seq(PortToken) /\ Len(left) \in Nat /\ Len(left) >= 1 /\ Head(left) = left[1]
      /\ left' = Tail(left) /\ port' = S!Receive(port, t)
      /\ done' = done + (IF S!Framed(port) /\ S!Runs(port, t) THEN 1 ELSE 0)
  BY DEF Units1, S!Arrive
<1>2. left' \in Seq(PortToken) /\ Len(left') = Len(left) - 1 /\ \A n \in 1..Len(left') : left'[n] = left[n + 1]
  BY <1>1
<1>3. \A n \in 1..Len(left') : left'[n].k # "sync"
  <2>1. \A n \in 1..Len(left') : n + 1 \in 2..Len(left)
    BY <1>1, <1>2
  <2>2. QED
    BY <1>2, <2>1 DEF Units1
<1>4. done = 1 => t.k # "sync"
  BY <1>1 DEF Units1
<1>5. CASE S!Framed(port)
  <2> DEFINE q == S!Process(port, t)
  <2>1. port.mode \subseteq {"ota"}
    BY <1>5 DEF S!Framed, PortSound
  <2>2. /\ PortSound(q) /\ q.mode \subseteq {"ota"}
        /\ S!Runs(port, t) => q.rx = S!Rest
        /\ port.rx.at = 0 /\ t.k # "sync" => q.rx = S!Rest /\ ~S!Runs(port, t)
    BY <2>1, ProcessSound
  <2>3. port' = S!Line(q, t)
    BY <1>1, <1>5 DEF S!Receive
  <2> HIDE DEF q
  <2>4. PortSound(port') /\ port'.rx = q.rx
    BY <2>2, <2>3, LineSound
  <2>5. S!Rest.at = 0
    BY DEF S!Rest
  <2>6. CASE S!Runs(port, t)
    <3>1. done # 1
      BY <1>4, <2>2, <2>6 DEF Units1
    <3>2. done = 0 /\ done' = 1
      BY <1>1, <1>5, <2>6, <3>1 DEF Units1
    <3>3. QED
      <4>1. port'.rx.at = 0
        BY <2>2, <2>4, <2>5, <2>6
      <4>2. QED
        BY <1>2, <1>3, <2>4, <3>2, <4>1 DEF Units1
  <2>7. CASE ~S!Runs(port, t)
    <3>1. done' = done /\ done \in {0, 1}
      BY <1>1, <2>7 DEF Units1
    <3>2. done = 1 => port'.rx.at = 0
      BY <1>4, <2>2, <2>4, <2>5 DEF Units1
    <3>3. QED
      BY <1>2, <1>3, <2>4, <3>1, <3>2 DEF Units1
  <2>8. QED
    BY <2>6, <2>7
<1>6. CASE ~S!Framed(port)
  <2>1. port' = S!Modem(port, t) /\ done' = done /\ done \in {0, 1}
    BY <1>1, <1>6 DEF S!Receive, Units1
  <2>2. PortSound(port') /\ (port'.rx = port.rx \/ port'.rx = S!Rest)
    BY <2>1, ModemSound
  <2>3. done = 1 => port'.rx.at = 0
    BY <2>2 DEF Units1, S!Rest
  <2>4. QED
    BY <1>2, <1>3, <2>1, <2>2, <2>3 DEF Units1
<1>7. QED
  BY <1>5, <1>6

\* A byte of a frame that does not complete it.
LEMMA FrameGoesOn ==
  ASSUME PortSound(port), S!Framed(port), NEW t \in PortToken, t.k # "cr",
         S!Arrive(t), ~S!Completed(S!Collect(port.rx, t))
  PROVE  port'.rx = S!Collect(port.rx, t) /\ S!Framed(port)' /\ done' = done + 0
<1> DEFINE q == S!Process(port, t)
<1>1. port.mode \subseteq {"ota"}
  BY DEF S!Framed, PortSound
<1>2. PortSound(q) /\ q.mode \subseteq {"ota"} /\ q.rx = S!Collect(port.rx, t) /\ q.mode = port.mode
  BY <1>1, ProcessSound
<1>3. port' = S!Line(q, t)
  BY DEF S!Receive, S!Arrive
<1> HIDE DEF q
<1>4. port'.rx = q.rx /\ port'.mode = q.mode
  BY <1>2, <1>3, LineSound
<1>5. ~S!Runs(port, t)
  BY DEF S!Runs
<1>6. QED
  BY <1>2, <1>4, <1>5 DEF S!Framed, S!Arrive

LEMMA TailOf ==
  ASSUME NEW b \in Seq(PortToken), Len(b) >= 1
  PROVE  /\ Tail(b) \in Seq(PortToken) /\ Len(Tail(b)) = Len(b) - 1 /\ Head(b) = b[1]
         /\ \A n \in 1..(Len(b) - 1) : Tail(b)[n] = b[n + 1]
<1>1. b # <<>> /\ Len(b) \in Nat
  BY EmptySeq, LenProperties
<1>2. QED
  BY <1>1, HeadTailProperties

LEMMA NoneOf ==
  ASSUME NEW b \in Seq(PortToken), Len(b) = 0
  PROVE  b = <<>>
  BY EmptySeq

LEMMA TwoOf ==
  ASSUME NEW b \in Seq(PortToken), Len(b) = 2
  PROVE  b = <<b[1], b[2]>> /\ Tail(Tail(b)) = <<>>
<1>1. b = <<b[1], b[2]>>
  OBVIOUS
<1> DEFINE c == Tail(b)
<1>2. c \in Seq(PortToken) /\ Len(c) = 1
  BY TailOf
<1> HIDE DEF c
<1> DEFINE d == Tail(c)
<1>3. d \in Seq(PortToken) /\ Len(d) = 0
  <2>1. Len(c) >= 1 /\ Len(c) - 1 = 0
    BY <1>2
  <2>2. QED
    BY <1>2, <2>1, TailOf, Zenon
<1>4. d = <<>>
  <2> HIDE DEF d
  <2>1. QED
    BY <1>3, NoneOf
<1>5. QED
  BY <1>1, <1>4 DEF c

LEMMA ThreeOf ==
  ASSUME NEW b \in Seq(PortToken), Len(b) = 3
  PROVE  /\ b = <<b[1], b[2], b[3]>> /\ Head(Tail(Tail(b))) = b[3]
         /\ Tail(Tail(Tail(b))) = <<>>
<1>1. b = <<b[1], b[2], b[3]>>
  OBVIOUS
<1> DEFINE c == Tail(b)
<1>2. c \in Seq(PortToken) /\ Len(c) = 2 /\ \A n \in 1..2 : c[n] = b[n + 1]
  <2>1. Len(b) >= 1 /\ Len(b) - 1 = 2
    OBVIOUS
  <2>2. QED
    BY <2>1, TailOf, Zenon
<1> HIDE DEF c
<1> DEFINE d == Tail(c)
<1>3. d \in Seq(PortToken) /\ Len(d) = 1 /\ \A n \in 1..1 : d[n] = c[n + 1]
  <2>1. Len(c) >= 1 /\ Len(c) - 1 = 1
    BY <1>2
  <2>2. QED
    BY <1>2, <2>1, TailOf, Zenon
<1> HIDE DEF d
<1>4. d[1] = b[3]
  <2>1. d[1] = c[1 + 1] /\ 1 + 1 = 2
    BY <1>3
  <2>2. c[2] = b[2 + 1] /\ 2 + 1 = 3
    BY <1>2
  <2>3. QED
    BY <2>1, <2>2
<1>5. Head(d) = d[1] /\ Tail(d) \in Seq(PortToken) /\ Len(Tail(d)) = 0
  <2>1. Len(d) >= 1 /\ Len(d) - 1 = 0
    BY <1>3
  <2>2. QED
    BY <1>3, <2>1, TailOf, Zenon
<1>6. Tail(d) = <<>>
  BY <1>5, NoneOf, Zenon
<1>7. QED
  BY <1>1, <1>4, <1>5, <1>6 DEF c, d

LEMMA AppendOf ==
  ASSUME NEW b \in Seq(PortToken), NEW t \in PortToken
  PROVE  /\ Append(b, t) \in Seq(PortToken) /\ Len(Append(b, t)) = Len(b) + 1
         /\ \A i \in 1..Len(b) : Append(b, t)[i] = b[i]
         /\ Append(b, t)[Len(b) + 1] = t
  BY AppendProperties

LEMMA Appended ==
  ASSUME NEW x \in PortToken, NEW y \in PortToken, NEW t \in PortToken
  PROVE  Append(<<x>>, t) = <<x, t>> /\ Append(<<x, y>>, t) = <<x, y, t>>
<1> DEFINE b == <<x>>
           c == <<x, y>>
<1>1. b \in Seq(PortToken) /\ Len(b) = 1 /\ b[1] = x
  OBVIOUS
<1>2. c \in Seq(PortToken) /\ Len(c) = 2 /\ c[1] = x /\ c[2] = y
  OBVIOUS
<1> HIDE DEF b, c
<1>3. Append(b, t) = <<x, t>>
  <2> DEFINE a == Append(b, t)
  <2>1. a \in Seq(PortToken) /\ Len(a) = 2 /\ a[1] = x /\ a[2] = t
    BY <1>1, AppendProperties
  <2> HIDE DEF a
  <2>2. a = <<x, t>>
    BY <2>1, TwoOf
  <2>3. QED
    BY <2>2 DEF a
<1>4. Append(c, t) = <<x, y, t>>
  <2> DEFINE a == Append(c, t)
  <2>0. /\ a \in Seq(PortToken) /\ Len(a) = Len(c) + 1 /\ \A i \in 1..Len(c) : a[i] = c[i]
        /\ a[Len(c) + 1] = t
    BY <1>2, AppendOf, Zenon
  <2> HIDE DEF a
  <2>1. a \in Seq(PortToken) /\ Len(a) = 3 /\ a[1] = x /\ a[2] = y /\ a[3] = t
    BY <1>2, <2>0
  <2>2. a = <<x, y, t>>
    BY <2>1, ThreeOf
  <2>3. QED
    BY <2>2 DEF a
<1>5. QED
  BY <1>3, <1>4 DEF b, c

LEMMA HeadAndBody ==
  ASSUME NEW a, NEW c, NEW b \in Seq(PortToken)
  PROVE  /\ Head(<<a, c>> \o b) = a /\ Tail(<<a, c>> \o b) = <<c>> \o b
         /\ Head(<<c>> \o b) = c /\ Tail(<<c>> \o b) = b
  OBVIOUS

LEMMA BodyOf ==
  ASSUME S!PortAssumption, NEW u \in S!Frames
  PROVE  LET fn == S!Function[u.f]
             body == S!Body(u)
         IN  /\ body \in Seq(PortToken) /\ \A n \in 1..Len(body) : body[n].k # "cr" /\ body[n].k # "sync"
             /\ \/ fn = 16 /\ Len(body) = 3 /\ body[1].k = "size"
                \/ fn \in {3, 6} /\ Len(body) = 2
<1> DEFINE fn == S!Function[u.f]
           body == S!Body(u)
<1> SUFFICES /\ body \in Seq(PortToken) /\ \A n \in 1..Len(body) : body[n].k # "cr" /\ body[n].k # "sync"
             /\ \/ fn = 16 /\ Len(body) = 3 /\ body[1].k = "size"
                \/ fn \in {3, 6} /\ Len(body) = 2
  OBVIOUS
<1>1. CASE \E a, b \in PortToken : NoSync(a) /\ NoSync(b) /\ a.k # "cr" /\ b.k # "cr" /\ Short(u, a, b)
  <2>1. PICK a, b \in PortToken : /\ NoSync(a) /\ NoSync(b) /\ a.k # "cr" /\ b.k # "cr"
                                  /\ body = <<a, b>> /\ fn \in {3, 6}
    BY <1>1 DEF Short
  <2> HIDE DEF body, fn
  <2>2. Len(body) = 2 /\ body[1] = a /\ body[2] = b /\ body \in Seq(PortToken)
    BY <2>1
  <2>3. QED
    BY <2>1, <2>2 DEF NoSync
<1>2. CASE \E a, b, c \in PortToken :
             /\ NoSync(a) /\ NoSync(b) /\ NoSync(c) /\ a.k # "cr" /\ b.k # "cr" /\ c.k # "cr"
             /\ Long(u, a, b, c)
  <2>1. PICK a, b, c \in PortToken :
          /\ NoSync(a) /\ NoSync(b) /\ NoSync(c) /\ a.k # "cr" /\ b.k # "cr" /\ c.k # "cr"
          /\ body = <<a, b, c>> /\ fn = 16 /\ a.k = "size"
    BY <1>2 DEF Long
  <2> HIDE DEF body, fn
  <2>2. Len(body) = 3 /\ body[1] = a /\ body[2] = b /\ body[3] = c /\ body \in Seq(PortToken)
    BY <2>1
  <2>3. \A n \in 1..Len(body) : n = 1 \/ n = 2 \/ n = 3
    BY <2>2
  <2>4. a.k # "sync" /\ b.k # "sync" /\ c.k # "sync"
    BY <2>1 DEF NoSync
  <2>5. \A n \in 1..Len(body) : body[n].k # "cr" /\ body[n].k # "sync"
    <3>1. TAKE n \in 1..Len(body)
    <3>2. body[n] = a \/ body[n] = b \/ body[n] = c
      BY <2>2, <2>3, Zenon
    <3>3. QED
      BY <2>1, <2>4, <3>2
  <2>6. fn = 16 /\ Len(body) = 3 /\ body[1].k = "size"
    BY <2>1, <2>2
  <2>7. QED
    BY <2>2, <2>5, <2>6
<1>3. QED
  BY <1>1, <1>2, PortBody

\* Something of a frame in progress has still to arrive.
LEMMA ProgressLeft ==
  ASSUME S!PortAssumption, NEW u \in S!Frames, Progress(u)
  PROVE  left # <<>>
<1> DEFINE body == S!Body(u)
<1>1. body \in Seq(PortToken) /\ Len(body) \in {2, 3}
  BY BodyOf
<1>2. ASSUME NEW a, NEW c, NEW b \in Seq(PortToken)
      PROVE  <<a, c>> \o b # <<>> /\ <<c>> \o b # <<>>
  OBVIOUS
<1> HIDE DEF body
<1>3. body # <<>> /\ Tail(body) # <<>> /\ (Len(body) = 3 => Tail(Tail(body)) # <<>>)
  <2> DEFINE c == Tail(body)
  <2>0. Len(body) >= 1
    BY <1>1
  <2>1. c \in Seq(PortToken) /\ Len(c) = Len(body) - 1
    BY <1>1, <2>0, TailOf, Zenon
  <2> HIDE DEF c
  <2>2. Len(c) >= 1
    BY <1>1, <2>1
  <2>3. Len(Tail(c)) = Len(c) - 1
    BY <2>1, <2>2, TailOf, Zenon
  <2>4. body # <<>> /\ c # <<>>
    BY <2>0, <2>2
  <2>5. Len(body) = 3 => Tail(c) # <<>>
    <3> DEFINE d == Tail(c)
    <3>1. Len(body) = 3 => Len(d) = 1
      BY <2>1, <2>3
    <3> HIDE DEF d
    <3>2. Len(body) = 3 => d # <<>>
      BY <3>1
    <3>3. QED
      BY <3>2 DEF d
  <2>6. QED
    BY <2>4, <2>5 DEF c
<1>4. S!Fields(u) # <<>> /\ Tail(S!Fields(u)) # <<>>
  <2> DEFINE a == S!Token("sync", "", 0)
             c == S!Token("func", "", S!Function[u.f])
  <2>1. S!Fields(u) = <<a, c>> \o body
    BY PortFrame DEF S!Fields, body
  <2> HIDE DEF a, c
  <2>2. Tail(S!Fields(u)) = <<c>> \o body
    BY <1>1, <2>1, HeadAndBody
  <2>3. QED
    BY <1>1, <1>2, <2>1, <2>2
<1>5. QED
  BY <1>3, <1>4 DEF Progress, body

LEMMA ByteTracked ==
  ASSUME S!PortAssumption, PortInv, left # <<>>, S!Arrive(Head(left)), UNCHANGED clean
  PROVE  Tracked'
<1> SUFFICES ASSUME clean
             PROVE  \/ left' = <<>> /\ done' = 1
                    \/ done' = 0 /\ S!Framed(port)' /\ \E u \in S!Frames : Progress(u)'
  BY DEF Tracked
<1>1. done = 0 /\ S!Framed(port) /\ PortSound(port)
  BY DEF PortInv, Tracked
<1>2. PICK u \in S!Frames : Progress(u)
  BY DEF PortInv, Tracked
<1> DEFINE fn == S!Function[u.f]
           body == S!Body(u)
           t == Head(left)
<1>3. left' = Tail(left) /\ left \in Seq(PortToken)
  BY DEF S!Arrive, PortInv, Units1
<1>4. t \in PortToken
  BY <1>3
<1>5. S!Fields(u) = <<S!Token("sync", "", 0), S!Token("func", "", fn)>> \o body
  BY PortFrame DEF S!Fields
<1>6. /\ body \in Seq(PortToken) /\ \A n \in 1..Len(body) : body[n].k # "cr" /\ body[n].k # "sync"
      /\ \/ fn = 16 /\ Len(body) = 3 /\ body[1].k = "size"
         \/ fn \in {3, 6} /\ Len(body) = 2
  BY BodyOf
<1>7. u \in S!Sums(body)
  BY DEF S!Sums
<1>8. CASE left = S!Fields(u) /\ port.rx = S!Rest
  <2>1. t = S!Token("sync", "", 0) /\ left' = Tail(S!Fields(u))
    <3> DEFINE a == S!Token("sync", "", 0)
               c == S!Token("func", "", fn)
    <3>1. body \in Seq(PortToken) /\ S!Fields(u) = <<a, c>> \o body
      BY <1>5, <1>6
    <3> HIDE DEF body, fn, a, c
    <3>2. Head(S!Fields(u)) = a
      BY <3>1, HeadAndBody
    <3>3. QED
      BY <1>3, <1>8, <3>2 DEF a
  <2> HIDE DEF t
  <2>2. t.k = "sync" /\ t.k # "cr"
    BY <2>1 DEF S!Token
  <2>3. S!Collect(port.rx, t) = [S!Rest EXCEPT !.at = 1]
    BY <1>8, <2>2 DEF S!Collect, S!Rest
  <2>4. ~S!Completed(S!Collect(port.rx, t))
    BY <2>3 DEF S!Completed, S!Rest
  <2>5. port'.rx = [S!Rest EXCEPT !.at = 1] /\ S!Framed(port)' /\ done' = 0
    BY <1>1, <1>4, <2>2, <2>3, <2>4, FrameGoesOn DEF t
  <2>6. QED
    BY <2>1, <2>5 DEF Progress
<1>9. CASE left = Tail(S!Fields(u)) /\ port.rx = [S!Rest EXCEPT !.at = 1]
  <2>0. Tail(S!Fields(u)) = <<S!Token("func", "", fn)>> \o body
    <3> DEFINE a == S!Token("sync", "", 0)
               c == S!Token("func", "", fn)
    <3>1. body \in Seq(PortToken) /\ S!Fields(u) = <<a, c>> \o body
      BY <1>5, <1>6
    <3> HIDE DEF body, fn, a, c
    <3>2. Tail(S!Fields(u)) = <<c>> \o body
      BY <3>1, HeadAndBody
    <3>3. QED
      BY <3>2 DEF c
  <2>1. t = S!Token("func", "", fn) /\ left' = body
    <3> DEFINE c == S!Token("func", "", fn)
    <3>1. body \in Seq(PortToken) /\ left = <<c>> \o body
      BY <1>6, <1>9, <2>0
    <3> HIDE DEF body, fn, c
    <3>2. Head(left) = c /\ Tail(left) = body
      BY <3>1, HeadAndBody
    <3>3. QED
      BY <1>3, <3>2 DEF c
  <2> HIDE DEF t
  <2>2. t.k = "func" /\ t.i = fn /\ t.k # "cr"
    BY <2>1 DEF S!Token
  <2>3. S!Collect(port.rx, t) = [at |-> 2, fn |-> fn, got |-> <<>>]
    <3>1. port.rx.at = 1
      BY <1>9 DEF S!Rest
    <3>2. S!Collect(port.rx, t) = [S!Rest EXCEPT !.at = 2, !.fn = fn]
      BY <2>2, <3>1 DEF S!Collect
    <3>3. QED
      BY <3>2 DEF S!Rest
  <2>4. ~S!Completed(S!Collect(port.rx, t))
    BY <1>6, <2>3 DEF S!Completed, S!Need
  <2>5. port'.rx = [at |-> 2, fn |-> fn, got |-> <<>>] /\ S!Framed(port)' /\ done' = 0
    BY <1>1, <1>4, <2>2, <2>3, <2>4, FrameGoesOn DEF t
  <2>6. QED
    BY <2>1, <2>5 DEF Progress
<1>10. CASE left = body /\ port.rx = [at |-> 2, fn |-> fn, got |-> <<>>]
  <2>1. t = body[1] /\ left' = Tail(body) /\ t.k # "cr"
    <3> HIDE DEF body
    <3>1. QED
      BY <1>3, <1>6, <1>10
  <2> HIDE DEF t
  <2>3. S!Collect(port.rx, t) = [at |-> 2, fn |-> fn, got |-> <<t>>]
    BY <1>6, <1>10 DEF S!Collect, S!Need
  <2>4. ~S!Completed(S!Collect(port.rx, t))
    BY <1>6, <2>3 DEF S!Completed, S!Need
  <2>5. port'.rx = [at |-> 2, fn |-> fn, got |-> <<t>>] /\ S!Framed(port)' /\ done' = 0
    BY <1>1, <1>4, <2>1, <2>3, <2>4, FrameGoesOn DEF t
  <2>6. QED
    BY <2>1, <2>5 DEF Progress
<1>11. ASSUME S!Collect(port.rx, t) = [at |-> 2, fn |-> fn, got |-> body], left' = <<>>
       PROVE  left' = <<>> /\ done' = 1
  <2>1. S!Completed(S!Collect(port.rx, t))
    <3> HIDE DEF body, t, fn
    <3>1. QED
      <4>1. S!Collect(port.rx, t).at = 2 /\ S!Collect(port.rx, t).fn = fn /\ S!Collect(port.rx, t).got = body
        BY <1>11
      <4>2. CASE fn = 16 /\ Len(body) = 3 /\ body[1].k = "size"
        BY <4>1, <4>2 DEF S!Completed, S!Need, S!Disagrees
      <4>3. CASE fn \in {3, 6} /\ Len(body) = 2
        BY <4>1, <4>3 DEF S!Completed, S!Need, S!Disagrees
      <4>4. QED
        BY <1>6, <4>2, <4>3
  <2>2. S!Collect(port.rx, t).got = body
    <3> HIDE DEF body, t, fn
    <3>1. QED
      BY <1>11
  <2>3. S!Runs(port, t)
    BY <1>7, <2>1, <2>2 DEF S!Runs
  <2>4. QED
    BY <1>1, <1>11, <2>3 DEF S!Arrive
<1>12. CASE left = Tail(body) /\ port.rx = [at |-> 2, fn |-> fn, got |-> <<body[1]>>]
  <2>1. t = body[2] /\ left' = Tail(Tail(body)) /\ t.k # "cr"
    <3> HIDE DEF body
    <3>1. QED
      BY <1>3, <1>6, <1>12
  <2>3. S!Collect(port.rx, t) = [at |-> 2, fn |-> fn, got |-> <<body[1], t>>]
    <3> HIDE DEF t, body, fn
    <3>1. port.rx.at = 2 /\ port.rx.fn = fn /\ port.rx.got = <<body[1]>>
      BY <1>12
    <3>2. Len(port.rx.got) # S!Need(port.rx.fn)
      BY <3>1 DEF S!Need
    <3>3. S!Collect(port.rx, t) = [port.rx EXCEPT !.got = Append(@, t)]
      BY <3>1, <3>2 DEF S!Collect
    <3>4. Append(<<body[1]>>, t) = <<body[1], t>>
      <4>1. t \in PortToken /\ body[1] \in PortToken /\ body[2] \in PortToken
        BY <1>4, <1>6 DEF t
      <4>2. QED
        BY <4>1, Appended, Zenon
    <3>5. QED
      BY <1>12, <3>1, <3>3, <3>4
  <2>4. CASE Len(body) = 2
    <3>1. body = <<body[1], body[2]>> /\ Tail(Tail(body)) = <<>>
      <4> HIDE DEF body
      <4>1. QED
        BY <1>6, <2>4, TwoOf, Zenon
    <3>2. QED
      BY <1>11, <2>1, <2>3, <3>1
  <2>5. CASE Len(body) = 3
    <3>1. ~S!Completed(S!Collect(port.rx, t))
      <4> HIDE DEF body, t, fn
      <4>1. QED
        <5>1. /\ S!Collect(port.rx, t).at = 2 /\ S!Collect(port.rx, t).fn = 16
              /\ S!Collect(port.rx, t).got = <<body[1], t>>
          BY <1>6, <2>3, <2>5
        <5>2. QED
          BY <5>1 DEF S!Completed, S!Need
    <3>2. port'.rx = [at |-> 2, fn |-> fn, got |-> <<body[1], body[2]>>] /\ S!Framed(port)' /\ done' = 0
      BY <1>1, <1>4, <2>1, <2>3, <3>1, FrameGoesOn
    <3>3. QED
      BY <2>1, <2>5, <3>2 DEF Progress
  <2>6. QED
    BY <1>6, <2>4, <2>5
<1>13. CASE /\ left = Tail(Tail(body)) /\ Len(body) = 3
            /\ port.rx = [at |-> 2, fn |-> fn, got |-> <<body[1], body[2]>>]
  <2>1. t = body[3] /\ left' = <<>> /\ body = <<body[1], body[2], body[3]>>
    <3> HIDE DEF body
    <3>1. QED
      BY <1>3, <1>6, <1>13, ThreeOf, Zenon
  <2>2. fn = 16
    BY <1>6, <1>13
  <2>3. S!Collect(port.rx, t) = [at |-> 2, fn |-> fn, got |-> <<body[1], body[2], t>>]
    <3> HIDE DEF t, body, fn
    <3>1. port.rx.at = 2 /\ port.rx.fn = fn /\ port.rx.got = <<body[1], body[2]>>
      BY <1>13
    <3>2. Len(port.rx.got) # S!Need(port.rx.fn)
      BY <2>2, <3>1 DEF S!Need
    <3>3. S!Collect(port.rx, t) = [port.rx EXCEPT !.got = Append(@, t)]
      BY <3>1, <3>2 DEF S!Collect
    <3>4. Append(<<body[1], body[2]>>, t) = <<body[1], body[2], t>>
      <4>1. t \in PortToken /\ body[1] \in PortToken /\ body[2] \in PortToken
        BY <1>4, <1>6 DEF t
      <4>2. QED
        BY <4>1, Appended, Zenon
    <3>5. QED
      BY <1>13, <3>1, <3>3, <3>4
  <2>4. QED
    BY <1>11, <2>1, <2>3
<1>14. QED
  BY <1>2, <1>8, <1>9, <1>10, <1>12, <1>13 DEF Progress

LEMMA PortBegins ==
  ASSUME S!Init
  PROVE  PortInv
<1>1. S!Rest \in PortRx /\ S!Rest.at = 0
  <2>1. <<>> \in Seq(PortToken) /\ 0 \in 0..2 /\ 0 \in Nat
    OBVIOUS
  <2>2. QED
    BY <2>1 DEF S!Rest, PortRx
<1>2. DOMAIN port = Kept /\ port.rx = S!Rest /\ port.mode = {} /\ port.loader = [j \in S!Blocks |-> "old"]
  BY DEF S!Init, Kept
<1>3. S!Whole("old", port.loader)
  BY <1>2 DEF S!Whole
<1>4. PortSound(port)
  BY <1>1, <1>2, <1>3, Zenon DEF PortSound
<1>5. left = <<>> /\ done = 0 /\ clean = FALSE
  BY DEF S!Init
<1>6. Units1
  BY <1>5 DEF Units1
<1>7. QED
  BY <1>4, <1>5, <1>6 DEF PortInv, Tracked

LEMMA SendTracked ==
  ASSUME S!PortAssumption, PortInv, S!Send
  PROVE  PortInv'
<1>1. PICK u \in S!Units : /\ left' = S!Fields(u)
                           /\ clean' = (u.k = "frame" /\ port.rx = S!Rest /\ S!Framed(port))
  BY DEF S!Send
<1>2. done' = 0 /\ port' = port
  BY DEF S!Send
<1>3. PortSound(port') /\ Units1'
  <2>1. left' \in Seq(PortToken) /\ \A n \in 2..Len(left') : left'[n].k # "sync"
    BY <1>1, PortFields
  <2>2. PortSound(port')
    BY <1>2 DEF PortInv
  <2>3. QED
    BY <1>2, <2>1, <2>2 DEF Units1
<1>4. u.k = "frame" => u \in S!Frames
  <2>1. u \in S!Frames \/ u \in S!Orders \/ u.k = "line"
    BY DEF S!Units
  <2>2. u \in S!Orders => u.k \in {"go", "put"}
    BY DEF S!Orders
  <2>3. QED
    BY <2>1, <2>2
<1>5. Tracked'
  <2> SUFFICES ASSUME clean'
               PROVE  done' = 0 /\ S!Framed(port)' /\ \E v \in S!Frames : Progress(v)'
    BY DEF Tracked
  <2>1. u \in S!Frames /\ port'.rx = S!Rest /\ S!Framed(port)'
    BY <1>1, <1>2, <1>4 DEF S!Framed
  <2>2. Progress(u)'
    BY <1>1, <2>1 DEF Progress
  <2>3. QED
    BY <1>2, <2>1, <2>2
<1>6. QED
  BY <1>3, <1>5 DEF PortInv

LEMMA PortKept ==
  ASSUME S!PortAssumption, PortInv, [S!Next]_S!vars
  PROVE  PortInv'
<1>1. CASE S!Send
  BY <1>1, SendTracked
<1>2. CASE S!Byte
  <2>1. left # <<>> /\ S!Arrive(Head(left)) /\ UNCHANGED clean
    BY <1>2 DEF S!Byte
  <2>2. Head(left) \in PortToken
    BY <2>1 DEF PortInv, Units1
  <2>3. PortSound(port') /\ Units1'
    BY <2>1, <2>2, ArriveUnits DEF PortInv
  <2>4. Tracked'
    BY <2>1, ByteTracked
  <2>5. QED
    BY <2>3, <2>4 DEF PortInv
<1>3. CASE S!Damaged
  <2>1. left # <<>> /\ S!Arrive(S!Noise) /\ clean' = FALSE
    BY <1>3 DEF S!Damaged
  <2>2. S!Noise \in PortToken /\ S!Noise.k # "sync"
    <3>1. "noise" \in PortKinds \ {"sync"} /\ "" \in PortNames /\ 0 \in Nat
      BY DEF PortKinds, PortNames
    <3>2. S!Noise = S!Token("noise", "", 0)
      BY DEF S!Noise
    <3>3. QED
      BY <3>1, <3>2, PortPlain DEF NoSync
  <2>3. PortSound(port') /\ Units1'
    BY <2>1, <2>2, ArriveUnits DEF PortInv
  <2>4. QED
    BY <2>1, <2>3 DEF PortInv, Tracked
<1>4. CASE S!Lost
  <2>1. left # <<>> /\ left' = Tail(left) /\ port' = port /\ done' = done /\ clean' = FALSE
    BY <1>4 DEF S!Lost
  <2>2. left \in Seq(PortToken) /\ Len(left) \in Nat /\ Len(left) >= 1
    BY <2>1 DEF PortInv, Units1
  <2>3. /\ left' \in Seq(PortToken) /\ Len(left') = Len(left) - 1
        /\ \A n \in 1..Len(left') : left'[n] = left[n + 1]
    BY <2>1, <2>2
  <2>4. \A n \in 1..Len(left') : n + 1 \in 2..Len(left)
    BY <2>2, <2>3
  <2>5. Units1'
    BY <2>1, <2>3, <2>4 DEF PortInv, Units1
  <2>6. QED
    BY <2>1, <2>5 DEF PortInv, Tracked
<1>5. CASE S!Restart
  <2>1. port' = S!Start(port) /\ clean' = FALSE /\ left' = left /\ done' = done
    BY <1>5 DEF S!Restart
  <2>2. PortSound(port') /\ port'.rx = S!Rest
    BY <2>1, StartSound DEF PortInv
  <2>3. port'.rx.at = 0
    BY <2>2 DEF S!Rest
  <2>4. QED
    BY <2>1, <2>2, <2>3 DEF PortInv, Units1, Tracked
<1>6. CASE UNCHANGED S!vars
  <2>1. port' = port /\ left' = left /\ clean' = clean /\ done' = done
    BY <1>6 DEF S!vars
  <2>2. QED
    BY <2>1 DEF PortInv, Units1, Tracked, Progress, S!Framed
<1>7. QED
  BY <1>1, <1>2, <1>3, <1>4, <1>5, <1>6 DEF S!Next

LEMMA PortIsSound ==
  ASSUME S!PortAssumption, PortInv
  PROVE  S!ExecutedOnce /\ S!OneDownload /\ S!LoaderIsWhole
<1>1. S!OneDownload /\ S!LoaderIsWhole
  BY DEF PortInv, PortSound, S!OneDownload, S!LoaderIsWhole
<1>2. done <= 1
  BY DEF PortInv, Units1
<1>3. ASSUME clean, left = <<>>, done # 1
      PROVE  FALSE
  <2>1. PICK u \in S!Frames : Progress(u)
    BY <1>3 DEF PortInv, Tracked
  <2>2. QED
    BY <1>3, <2>1, ProgressLeft
<1>4. QED
  BY <1>1, <1>2, <1>3 DEF S!ExecutedOnce

-----------------------------------------------------------------------------
(* The machines of MCPower                                                 *)

LEMMA PowerSteps ==
  ASSUME [AnyNext]_all
  PROVE  /\ which' = which
         /\ which = "pack" => [Pack!Next]_Pack!vars
         /\ which = "bank" => [Bank!Next]_Bank!vars
         /\ which = "gauge" => [G!Next]_G!vars
         /\ which = "port" => [S!Next]_S!vars
         /\ which = "bus" => [U!Next]_U!vars
<1>1. CASE UNCHANGED all
  BY <1>1 DEF all, Pack!vars, Pack!machine, Bank!vars, Bank!machine, G!vars, S!vars,
     U!vars, U!pack, U!host
<1>2. CASE AnyNext
  BY <1>2 DEF AnyNext, PackNext, BankNext, GaugeNext, PortNext, BusNext, PackStill, BankStill,
     GaugeStill, PortStill, BusStill
<1>3. QED
  BY <1>1, <1>2

PowerInv == /\ which = "pack" => Pack!FetsFollowState
            /\ which = "bank" => BankSafe /\ BankRest /\ BankInputs
            /\ which = "gauge" => GaugeInv
            /\ which = "port" => PortInv
            /\ which = "bus" => BusInv
PowerAssumption == Bank!BankAssumption /\ G!GaugeAssumption /\ S!PortAssumption /\ U!BusAssumption

LEMMA PowerBegins ==
  ASSUME PowerAssumption
  PROVE  AnyInit => PowerInv
<1>1. CASE PackInit
  BY <1>1 DEF PackInit, PowerInv, Pack!Init, Pack!FetsFollowState
<1>2. CASE BankInit
  BY <1>2, BankBegins DEF BankInit, PowerInv, PowerAssumption
<1>3. CASE GaugeInit
  BY <1>3, GaugeBegins DEF GaugeInit, PowerInv, PowerAssumption
<1>4. CASE PortInit
  BY <1>4, PortBegins DEF PortInit, PowerInv
<1>5. CASE BusInit
  BY <1>5, BusBegins DEF BusInit, PowerInv, PowerAssumption
<1>6. QED
  BY <1>1, <1>2, <1>3, <1>4, <1>5 DEF AnyInit

LEMMA PowerKept ==
  ASSUME PowerAssumption, PowerInv, [AnyNext]_all
  PROVE  PowerInv'
<1>1. which = "pack" => Pack!FetsFollowState'
  BY PowerSteps, PackStepFits DEF PowerInv
<1>2. which = "bank" => (BankSafe /\ BankRest /\ BankInputs)'
  BY PowerSteps, NextSafe, NextRest, NextInputs DEF PowerInv, PowerAssumption
<1>3. which = "gauge" => GaugeInv'
  BY PowerSteps, GaugeKept DEF PowerInv, PowerAssumption
<1>4. which = "port" => PortInv'
  BY PowerSteps, PortKept DEF PowerInv, PowerAssumption
<1>5. which = "bus" => BusInv'
  BY PowerSteps, BusKept DEF PowerInv, PowerAssumption
<1>6. QED
  BY <1>1, <1>2, <1>3, <1>4, <1>5, PowerSteps DEF PowerInv

LEMMA PowerHolds == AnySpec => []PowerInv
<1>1. PowerAssumption
  BY MCPowerAssumption DEF PowerAssumption
<1>2. AnyInit => PowerInv
  BY <1>1, PowerBegins
<1>3. PowerInv /\ [AnyNext]_all => PowerInv'
  BY <1>1, PowerKept
<1>4. QED
  BY <1>2, <1>3, PTL DEF AnySpec

\* Every transistor of pack and power bank fits the state of its machine, as
\* MCPower's run has it (state_handlers.c of both firmwares).
THEOREM FetsFollow == AnySpec => []FetsFollowState
<1>1. PowerInv => FetsFollowState
  BY DEF PowerInv, BankSafe, FetsFollowState
<1>2. QED
  BY <1>1, PowerHolds, PTL

\* The magic number of the pack's record vouches for fields that were checked,
\* and a low cell that stays is shown (batteryware); a frame that reaches the
\* port of the power bank whole is executed exactly once, one download at a
\* time fills its update area and its boot loader is old or new, never a mix
\* (powerbankware); the pack executes only what was sent to it.
THEOREM DataStaysSound == AnySpec => []DataIsSound
<1>1. PowerInv => DataIsSound
  <2>1. G!GaugeAssumption /\ S!PortAssumption
    BY MCPowerAssumption
  <2>2. GaugeInv => G!Configured /\ G!LowCellsShown
    BY <2>1, GaugeSound
  <2>3. PortInv => S!ExecutedOnce /\ S!OneDownload /\ S!LoaderIsWhole
    BY <2>1, PortIsSound
  <2>4. BusInv => U!OnlySent
    BY DEF BusInv
  <2>5. QED
    BY <2>2, <2>3, <2>4 DEF PowerInv, DataIsSound
<1>2. QED
  BY <1>1, PowerHolds, PTL

\* No measurement and no bus command ends a failure of the pack or of the
\* power bank (state_handlers.c of both, main.c of powerbankware).
THEOREM FailuresHold == AnySpec => FailureHolds
<1>1. [AnyNext]_all =>
        (which = "pack" => Pack!FailureKept) /\ (which = "bank" => Bank!FailureKept)
  BY PowerSteps, PackStepKept, BankStepKept
<1>2. QED
  BY <1>1, PTL DEF AnySpec, FailureHolds
=============================================================================
