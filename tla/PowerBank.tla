------------------------------ MODULE PowerBank ------------------------------
(***************************************************************************)
(* The mode machine of the power bank, src/powerbankware/src: the entries  *)
(* of transitions.c, the per-state handlers of states.c, the fault bits of *)
(* state_handlers.c and the alarms of alarms.c, the choice of main.c at a  *)
(* reset, and the commands of modbus.c and cmd.c that move it.  States     *)
(* carry the firmware's numbers: 1 idle, 2 charging, 3 discharging, 4 the  *)
(* indicator sequence, 6 shipping, 7..22 protections, 23..25 second-level  *)
(* failures, 27 a front end that does not answer; 0 is a processor in      *)
(* reset.  States 15, 16 and 26 are entered by nothing.                    *)
(*                                                                         *)
(* Measurements are classes and a debounced comparison may trip in any     *)
(* pass in which its condition holds, as in PackStates.                    *)
(***************************************************************************)
EXTENDS Integers, Sequences

CONSTANTS
    CellFaults,   \* voltage and balance faults the cells may raise
    MaxEvents     \* bound: changes of the environment

AllCellFaults == {"ovp1", "ovp2", "uvp1", "uvp2", "imb"}
CurrentFaults == {"coc1", "coc2", "doc1", "doc2"}
AllFaults == AllCellFaults \cup CurrentFaults \cup {"ts"}

BankAssumption == CellFaults \subseteq AllCellFaults /\ MaxEvents \in Nat

VARIABLES
    state,     \* the live state byte
    saved,     \* state and previous state in the backup registers
    empty,     \* bit 24 of the backup word: discharged to nothing
    fet,       \* FETs commanded at the front end: "dsg" (bit 0), "chg" (bit 1)
    fault,     \* fault bits
    class,     \* where the indicator sequence leads
    held,      \* mode bit 12: a load was detected while charging
    recovered, \* mode bit 13: came back from a second-level failure
    pf,        \* PB7, the output to the fuse
    record,    \* the permanent failure recorded with the measurements
    update,    \* mode bits 0 to 2: an update is being received
    temp, mosHot, charger, full, load, cur, broken, ov2pin,   \* what is measured
    events

vars == <<state, saved, empty, fet, fault, class, held, recovered, pf, record, update,
          temp, mosHot, charger, full, load, cur, broken, ov2pin, events>>
measured == <<temp, mosHot, charger, full, load, cur, broken, ov2pin, events>>
kept == <<recovered, update>>

Protections == (7..14) \cup (17..22)
Failures == 23..25
States == {0, 1, 2, 3, 4, 6, 27} \cup Protections \cup Failures

TypeOK ==
    /\ state \in States
    /\ saved \in (States \ {0}) \X States \/ saved = <<0, 0>>
    /\ fet \subseteq {"dsg", "chg"} /\ broken \subseteq {"dsg", "chg"}
    /\ fault \subseteq AllFaults
    /\ class \in 1..3
    /\ \A b \in {empty, held, recovered, pf, record, update, mosHot, charger, full, load, ov2pin} :
          b \in BOOLEAN
    /\ temp \in {"dCold", "cCold", "ok", "cHot", "dHot"}
    /\ cur \in {"none", "chg", "dsg"}
    /\ events \in 0..MaxEvents

Init ==
    /\ state = 0 /\ saved = <<0, 0>> /\ empty = FALSE /\ fet = {} /\ fault = {}
    /\ class = 1 /\ held = FALSE /\ recovered = FALSE /\ pf = FALSE
    /\ record = FALSE /\ update = FALSE
    /\ temp = "ok" /\ mosHot = FALSE /\ charger = FALSE /\ full = TRUE
    /\ load = FALSE /\ cur = "none" /\ broken = {} /\ ov2pin = FALSE /\ events = 0

-----------------------------------------------------------------------------
(* Entering a state (transitions.c; bms_state_enter in dispatch.c).        *)

\* The FETs each entry commands; the entry of state 27 commands none.
FetsOf(s) ==
    CASE s \in {3, 7, 8, 11, 12, 18, 19} -> {"dsg"}
      [] s \in {2, 9, 10, 13, 14, 17} -> {"chg"}
      [] s = 27 -> fet
      [] OTHER -> {}

\* bms_state_enter: the state and the one left go to the backup registers.
EnterFrom(p, s) ==
    /\ state' = s /\ saved' = <<s, p>>
    /\ fet' = FetsOf(s)
    /\ held' = FALSE
    /\ empty' = (empty /\ s # 2)
    /\ pf' = (pf /\ s # 27)

Enter(s) == EnterFrom(state, s) /\ UNCHANGED <<class, record>>

\* boot_mode_enter: the indicator sequence, which leads on by its class.
Indicate(c) == EnterFrom(state, 4) /\ class' = c /\ UNCHANGED record

\* boot_enter_operating: charging, or a load detected with the FETs open.
Operate(loaded) ==
    /\ state' = 2 /\ saved' = <<2, state>>
    /\ fet' = IF loaded THEN {} ELSE {"chg"}
    /\ held' = loaded /\ empty' = FALSE
    /\ UNCHANGED <<class, pf, record>>

\* bms_enter_ov2_record for alarms a: a current through an open FET drives
\* PB7, unless the failure was already known at the reset.
SecondLevel(p, a) ==
    LET leak == a \cap {"chgLeak", "dsgLeak"} # {}
        s == IF "imb" \in fault THEN 25 ELSE IF leak THEN 23 ELSE 24
    IN  /\ state' = s /\ saved' = <<s, p>> /\ fet' = {} /\ held' = FALSE
        /\ pf' = (pf \/ (leak /\ ~recovered))
        /\ record' = (record \/ a # {})
        /\ UNCHANGED <<class, empty>>

\* Where a rule leads: to a state or through one of the entries above.
To(s) == [how |-> "enter", arg |-> s]
Boot(c) == [how |-> "boot", arg |-> c]
Charge == [how |-> "operate", arg |-> 0]
Loaded == [how |-> "operate", arg |-> 1]
Second == [how |-> "second", arg |-> 0]

Go(way) ==
    CASE way.how = "enter" -> Enter(way.arg)
      [] way.how = "boot" -> Indicate(way.arg)
      [] way.how = "operate" -> Operate(way.arg = 1)
      [] way.how = "second" -> SecondLevel(state, {})

-----------------------------------------------------------------------------
(* A pass of the state's handler: the fault bits, first rule first.        *)

Has(f) == f \in fault
Over == <<<<Has("ovp2"), To(8)>>, <<Has("ovp1"), To(7)>>>>
Under == <<<<Has("uvp2"), To(10)>>, <<Has("uvp1"), To(9)>>>>
Imbalance == <<<<Has("imb"), Second>>>>
Discharging == IF cur = "dsg" THEN To(3) ELSE Boot(3)

IdleRules == Over \o Under \o Imbalance
ChargeRules == Over \o <<<<Has("coc1"), To(11)>>, <<Has("coc2"), To(12)>>>> \o Imbalance
DischargeRules == Under \o <<<<Has("doc1"), To(13)>>, <<Has("doc2"), To(14)>>>> \o Imbalance
Over1Rules == <<<<Has("ovp2"), To(8)>>, <<~Has("ovp1"), Boot(1)>>>> \o Imbalance
Over2Rules == <<<<~Has("ovp2") /\ Has("ovp1"), To(7)>>, <<~Has("ovp2"), Boot(1)>>>> \o Imbalance
Under1Rules == <<<<Has("uvp2"), To(10)>>, <<~Has("uvp1"), Boot(2)>>>> \o Imbalance
Under2Rules == <<<<~Has("uvp2") /\ Has("uvp1"), To(9)>>, <<~Has("uvp2"), Boot(2)>>>> \o Imbalance
ChargeOc1Rules == Over \o Under \o <<<<~Has("coc1"), Discharging>>>> \o Imbalance
ChargeOc2Rules == Over \o Under \o <<<<~Has("coc2"), Discharging>>>> \o Imbalance
DischargeOc1Rules == Under \o <<<<~Has("doc1"), To(1)>>>> \o Imbalance
DischargeOc2Rules == Under \o <<<<~Has("doc2"), To(1)>>>> \o Imbalance
FrontEndRules(c) == Under \o <<<<~Has("ts"), Boot(c)>>>> \o Imbalance
ChargeTempRules == Over \o Under \o Imbalance
DischargeTempRules == Under \o Imbalance
MosTempRules == Over \o Under \o Imbalance

Rules(s, c) ==
    CASE s = 1 -> IdleRules           [] s = 2 -> ChargeRules
      [] s = 3 -> DischargeRules      [] s = 7 -> Over1Rules
      [] s = 8 -> Over2Rules          [] s = 9 -> Under1Rules
      [] s = 10 -> Under2Rules        [] s = 11 -> ChargeOc1Rules
      [] s = 12 -> ChargeOc2Rules     [] s = 13 -> DischargeOc1Rules
      [] s = 14 -> DischargeOc2Rules  [] s = 17 -> FrontEndRules(c)
      [] s \in {18, 19} -> ChargeTempRules
      [] s \in {20, 21} -> DischargeTempRules
      [] s = 22 -> MosTempRules
      [] OTHER -> <<>>

\* The i-th rule of a list is the first whose condition holds.
Fires(rules, i) == rules[i][1] /\ \A j \in 1..(i - 1) : ~rules[j][1]

Serves == state # 0 /\ ~update     \* main: the handlers stop for an update

FastTick ==
    /\ Serves
    /\ \E c \in {1, 3} :      \* state 17: by the button
          \E i \in DOMAIN Rules(state, c) :
             Fires(Rules(state, c), i) /\ Go(Rules(state, c)[i][2])
    /\ UNCHANGED <<fault, kept, measured>>

\* The front end reports its own fault: state 17, except where the handler
\* does not ask.
FrontEndFault ==
    /\ state # 0 /\ events < MaxEvents /\ events' = events + 1
    /\ fault' = fault \cup {"ts"}
    /\ IF ~update /\ state \in {1, 2, 3} \cup (Protections \ {17})
       THEN Enter(17)
       ELSE UNCHANGED <<state, saved, fet, held, empty, pf, class, record>>
    /\ UNCHANGED <<kept, temp, mosHot, charger, full, load, cur, broken, ov2pin>>

-----------------------------------------------------------------------------
(* The slow tick: the alarms each handler scans, then its own way on.      *)

Hot == temp \in {"cHot", "dHot"}
Cold == temp \in {"cCold", "dCold"}

\* A leak is counted over three seconds: the current is no stale reading.
Trips(a) ==
    CASE a = "cotp" -> Hot           [] a = "cutp" -> Cold
      [] a = "dotp" -> temp = "dHot" [] a = "dutp" -> temp = "dCold"
      [] a = "mos" -> mosHot         [] a = "ov2" -> ov2pin
      [] a = "chgLeak" -> "chg" \in broken \ fet /\ cur = "chg"
      [] a = "dsgLeak" -> "dsg" \in broken \ fet /\ cur = "dsg"

Scanned(s) ==
    CASE s = 1 -> {"dotp", "dutp", "mos", "ov2", "chgLeak", "dsgLeak"}
      [] s = 2 -> {"cotp", "cutp", "mos", "ov2"}
      [] s = 3 -> {"dotp", "dutp", "mos", "ov2"}
      [] s \in {7, 8, 11, 12, 18, 19} -> {"ov2", "chgLeak"}
      [] s \in {9, 10, 13, 14, 17} -> {"ov2", "dsgLeak"}
      [] s \in {20, 21, 22} -> {"ov2", "chgLeak", "dsgLeak"}
      [] OTHER -> {}

\* The requests in the order the handlers look at them; the second-level
\* ones are recorded by the scan itself.
Recorded == {"ov2", "chgLeak", "dsgLeak"}

Alarmed(a) ==
    LET rules == <<<<"cotp" \in a, 18>>, <<"cutp" \in a, 19>>, <<"dotp" \in a, 20>>,
                   <<"dutp" \in a, 21>>, <<"mos" \in a, 22>>>>
    IN  \/ /\ \A i \in DOMAIN rules : ~rules[i][1]
           /\ SecondLevel(state, a)
        \/ /\ \E i \in DOMAIN rules : Fires(rules, i) /\ EnterFrom(state, rules[i][2])
           /\ record' = (record \/ a \cap Recorded # {})
           /\ UNCHANGED class

Alarm ==
    /\ Serves
    /\ \E a \in SUBSET {x \in Scanned(state) : Trips(x)} : a # {} /\ Alarmed(a)
    /\ UNCHANGED <<fault, kept, measured>>

\* State 6 scans the second-level pin and records it, no more.
Note ==
    /\ Serves /\ state = 6 /\ ov2pin /\ ~record
    /\ record' = TRUE
    /\ UNCHANGED <<state, saved, empty, fet, fault, class, held, kept, pf, measured>>

charging == cur = "chg" /\ charger

FromIdle == {<<charger, Charge>>}
FromCharge ==
    {<<full /\ cur # "chg" /\ ~charger, Boot(1)>>,
     <<full /\ cur # "chg" /\ charger /\ held /\ ~load, Boot(2)>>,
     <<full, Boot(3)>>}                      \* the button
NoOutput == <<~charger, To(6)>>    \* the regulator finds no voltage to follow
FromDischarge ==
    {<<charger, Boot(IF load THEN 3 ELSE 2)>>,
     <<TRUE, Boot(1)>>,                      \* the button, or three minutes
     NoOutput}
FromSequence ==
    {<<TRUE, CASE ~full -> Charge
               [] full /\ class = 3 -> Loaded
               [] full /\ class = 2 -> Charge
               [] full /\ class = 1 /\ empty -> To(1)
               [] full /\ class = 1 /\ ~empty -> To(3)>>}
FromShipping == {<<TRUE, Boot(1)>>, <<charger, Boot(3)>>}
FromOver == {<<cur = "dsg" /\ "dsg" \in fet, To(3)>>}
FromUnder == {<<charger, Charge>>}
FromChargeOc == {<<cur = "dsg", To(3)>>}
FromDischargeOc == {<<charging, Charge>>}
FromFrontEnd == {<<charging, Charge>>, <<TRUE, To(1)>>}     \* or the button
FromChargeHot == {<<cur = "dsg", To(3)>>, <<~Hot, Boot(3)>>}
FromChargeCold == {<<cur = "dsg", To(3)>>, <<~Cold, Boot(3)>>}
FromDischargeHot == {<<temp # "dHot", To(1)>>}
FromDischargeCold == {<<temp # "dCold", To(1)>>}
\* Mutant: the over-temperature of the FETs is held while a charger is there.
FromMosHotUnplugged == {<<~mosHot /\ ~charger, To(1)>>}

FromMosHot == {<<~mosHot, To(1)>>}
FromSilent == {<<TRUE, To(6)>>}

Ways(s) ==
    CASE s = 1 -> FromIdle            [] s = 2 -> FromCharge
      [] s = 3 -> FromDischarge       [] s = 4 -> FromSequence
      [] s = 6 -> FromShipping        [] s \in {7, 8} -> FromOver
      [] s \in {9, 10} -> FromUnder   [] s \in {11, 12} -> FromChargeOc
      [] s \in {13, 14} -> FromDischargeOc
      [] s = 17 -> FromFrontEnd       [] s = 18 -> FromChargeHot
      [] s = 19 -> FromChargeCold     [] s = 20 -> FromDischargeHot
      [] s = 21 -> FromDischargeCold  [] s = 22 -> FromMosHot
      [] s = 27 -> FromSilent      [] OTHER -> {}

SlowTick ==
    /\ Serves
    /\ \E way \in Ways(state) : way[1] /\ Go(way[2])
    /\ UNCHANGED <<fault, kept, measured>>

\* The discharging state finds the charge estimate at zero: remembered over
\* the power-down, so that the next start does not discharge again.
Exhausted ==
    /\ Serves /\ state = 3
    /\ state' = 6 /\ saved' = <<6, 3>> /\ fet' = {} /\ empty' = TRUE
    /\ UNCHANGED <<held, pf, class, record, fault, kept, measured>>

\* The charging state with low cells closes the charge FET again.
Precharge ==
    /\ Serves /\ state = 2 /\ ~full /\ fet # {"chg"}
    /\ fet' = {"chg"}
    /\ UNCHANGED <<state, saved, held, empty, pf, class, record, fault, kept, measured>>

\* charger_shipping_check: 100 slow ticks without a charger, or asked for.
ShippingCheck ==
    /\ Serves /\ state \in {1, 2, 3} \cup Protections \cup Failures
    /\ ~charger /\ Enter(6)
    /\ UNCHANGED <<fault, kept, measured>>

\* charger_afe_refresh gives up: the front end does not take its FET word.
\* Bounded as an event.
Refresh ==
    /\ Serves /\ state \in {1, 2, 3, 6} \cup Protections \cup Failures
    /\ events < MaxEvents /\ events' = events + 1
    /\ Enter(27)
    /\ UNCHANGED <<fault, kept, temp, mosHot, charger, full, load, cur, broken, ov2pin>>

-----------------------------------------------------------------------------
(* Reset, power-down, updates and commands.                                *)

Down(s) ==
    /\ state' = 0 /\ saved' = s /\ fet' = {} /\ fault' = {} /\ held' = FALSE
    /\ recovered' = FALSE /\ pf' = FALSE /\ update' = FALSE /\ cur' = "none"
    /\ UNCHANGED <<class, record, temp, mosHot, charger, full, load, broken, ov2pin, events>>

\* State 6 powers the front end down; whatever comes of it (no supply, the
\* watchdog, or the button after three tries), the processor starts again.
PowerDown == Serves /\ state = 6 /\ Down(saved) /\ UNCHANGED empty

\* A supply dip or the watchdog.
Crash ==
    /\ state # 0 /\ events < MaxEvents
    /\ state' = 0 /\ fet' = {} /\ fault' = {} /\ held' = FALSE
    /\ recovered' = FALSE /\ pf' = FALSE /\ update' = FALSE /\ cur' = "none"
    /\ events' = events + 1
    /\ UNCHANGED <<saved, empty, class, record, temp, mosHot, charger, full, load, broken, ov2pin>>

\* main: a second-level failure left by powering down is entered again; a
\* temperature protection only if the temperature is still out of range.
Resume ==
    LET p == saved[1]
        again == CASE saved[2] = 18 -> Hot  [] saved[2] = 19 -> Cold
                   [] saved[2] = 20 -> temp = "dHot"
                   [] saved[2] = 21 -> temp = "dCold" [] OTHER -> FALSE
    IN  /\ IF p = 6 /\ saved[2] \in {23, 24}
           THEN SecondLevel(p, {}) /\ recovered' = TRUE
           ELSE /\ IF again THEN EnterFrom(p, saved[2]) /\ UNCHANGED <<class, record>>
                   ELSE IF ~full
                   THEN /\ state' = 2 /\ saved' = <<2, p>> /\ fet' = {"chg"}
                        /\ held' = FALSE /\ empty' = FALSE /\ UNCHANGED <<class, pf, record>>
                   ELSE \E c \in {1, 3} : EnterFrom(p, 4) /\ class' = c /\ UNCHANGED record
                /\ UNCHANGED recovered

Start ==
    /\ state = 0
    /\ Resume
    /\ UNCHANGED <<fault, update, measured>>

\* The first block of an update, or the console: main stops the handlers.
UpdateBegins ==
    /\ state # 0 /\ ~update /\ events < MaxEvents /\ events' = events + 1
    /\ update' = TRUE
    /\ UNCHANGED <<state, saved, empty, fet, fault, class, held, recovered, pf, record,
                   temp, mosHot, charger, full, load, cur, broken, ov2pin>>

\* Register 0x80: the backup word is written to call the boot loader.
UpdateApply == update /\ Down(<<0, 0>>) /\ empty' = FALSE

\* Nothing but the writes of blocks feeds the watchdog during an update.
UpdateStarves == update /\ Down(saved) /\ UNCHANGED empty

\* Register 1 or the console: shipping, from any state and in an update too.
ShipCommand ==
    /\ state # 0 /\ events < MaxEvents /\ events' = events + 1
    /\ Enter(6)
    /\ UNCHANGED <<fault, kept, temp, mosHot, charger, full, load, cur, broken, ov2pin>>

\* The console's "pf=0" releases a recorded permanent failure.
Release ==
    /\ state # 0 /\ record
    /\ state' = 4 /\ saved' = <<4, state>> /\ fet' = {} /\ held' = FALSE
    /\ class' = (IF charger THEN 3 ELSE 1)
    /\ pf' = FALSE /\ record' = FALSE
    /\ UNCHANGED empty
    /\ UNCHANGED <<fault, kept, measured>>

-----------------------------------------------------------------------------
(* The environment. *)

machine == <<state, saved, empty, fet, class, held, kept, pf, record>>

\* bms_periodic_update: a cell fault is latched or, with its hysteresis, gone;
\* the imbalance is never cleared.
Cells ==
    /\ state # 0 /\ events < MaxEvents /\ events' = events + 1
    /\ \E f \in CellFaults :
          \/ f \notin fault /\ fault' = fault \cup {f}
          \/ f \in fault \ {"imb"} /\ fault' = fault \ {f}
    /\ UNCHANGED <<machine, temp, mosHot, charger, full, load, cur, broken, ov2pin>>

\* What each direction of the current makes cell_voltage_scan forget.
Forgotten(c) ==
    CASE c = "dsg" -> {"ovp1", "ovp2", "coc1", "coc2"}
      [] c = "chg" -> {"uvp1", "uvp2", "doc1", "doc2", "ts"}
      [] OTHER -> {}

Measure ==
    /\ state # 0
    /\ \E c \in {"none", "chg", "dsg"} \ {cur} :
          /\ c = "chg" => charger
          /\ c # "none" => c \in fet \cup broken
          /\ cur' = c
          /\ fault' = fault \ Forgotten(c)
    /\ UNCHANGED <<machine, temp, mosHot, charger, full, load, broken, ov2pin, events>>

OverCurrent ==
    /\ state # 0 /\ events < MaxEvents /\ events' = events + 1
    /\ \E f \in CurrentFaults \ fault :
          /\ f \in {"coc1", "coc2"} => cur = "chg"
          /\ f \in {"doc1", "doc2"} => cur = "dsg"
          /\ fault' = fault \cup {f}
    /\ UNCHANGED <<machine, temp, mosHot, charger, full, load, cur, broken, ov2pin>>

\* 90 scans without the current clear its fault bits.
Clear ==
    /\ state # 0
    /\ \E gone \in {{"coc1"}, {"coc2"}, {"doc1"}, {"doc2"}, {"ts"}} :
          /\ gone \subseteq fault
          /\ cur # (IF gone \subseteq {"coc1", "coc2"} THEN "chg" ELSE "dsg")
          /\ fault' = fault \ gone
    /\ UNCHANGED <<machine, measured>>

Weather ==
    /\ state # 0 /\ events < MaxEvents /\ events' = events + 1
    /\ \/ /\ \E t \in {"dCold", "cCold", "ok", "cHot", "dHot"} \ {temp} : temp' = t
          /\ UNCHANGED <<mosHot, charger, full, load, broken, ov2pin>>
       \/ /\ mosHot' = ~mosHot
          /\ UNCHANGED <<temp, charger, full, load, broken, ov2pin>>
       \/ /\ charger' = ~charger
          /\ UNCHANGED <<temp, mosHot, full, load, broken, ov2pin>>
       \/ /\ full' = ~full
          /\ UNCHANGED <<temp, mosHot, charger, load, broken, ov2pin>>
       \/ /\ load' = ~load
          /\ UNCHANGED <<temp, mosHot, charger, full, broken, ov2pin>>
       \/ /\ \E b \in {"dsg", "chg"} \ broken : broken' = broken \cup {b}
          /\ UNCHANGED <<temp, mosHot, charger, full, load, ov2pin>>
       \/ /\ ov2pin' = ~ov2pin
          /\ UNCHANGED <<temp, mosHot, charger, full, load, broken>>
    /\ UNCHANGED <<machine, fault, cur>>

Next ==
    \/ FastTick \/ FrontEndFault \/ Alarm \/ Note \/ SlowTick \/ Exhausted
    \/ Precharge \/ ShippingCheck \/ Refresh
    \/ PowerDown \/ Crash \/ Start \/ UpdateBegins \/ UpdateApply
    \/ UpdateStarves \/ ShipCommand \/ Release
    \/ Cells \/ Measure \/ OverCurrent \/ Clear \/ Weather

\* The super loop runs on, the scans count, the watchdog never waits.
Fairness ==
    /\ WF_vars(FastTick) /\ WF_vars(SlowTick)
    /\ WF_vars(Clear) /\ WF_vars(Start) /\ WF_vars(UpdateStarves)

Spec == Init /\ [][Next]_vars /\ Fairness

-----------------------------------------------------------------------------
(* Correctness. *)

\* A FET is closed only in a state that lets its current flow, whatever
\* commands, updates and resets led there; state 27 has lost the front end.
FetsFollowState ==
    state # 27 =>
    /\ "dsg" \in fet => state \in {3, 7, 8, 11, 12, 18, 19}
    /\ "chg" \in fet => state \in {2, 9, 10, 13, 14, 17}

\* A second-level failure is left by the console's release, a power-down, a
\* reset or a front end that does not answer; by nothing that is measured.
FailureKept == state \in Failures /\ state' \notin {state, 0, 6, 27} => Release
FailureHolds == [][FailureKept]_vars

\* A protection lasts no longer than its cause: again and again the bank
\* works, or is held by a failure or by a protection whose cause is there.
Caused ==
    CASE state = 7 -> Has("ovp1")  [] state = 8 -> Has("ovp2")
      [] state = 9 -> Has("uvp1")  [] state = 10 -> Has("uvp2")
      [] state = 11 -> Has("coc1") [] state = 12 -> Has("coc2")
      [] state = 13 -> Has("doc1") [] state = 14 -> Has("doc2")
      [] state = 17 -> Has("ts")   [] state = 18 -> Hot
      [] state = 19 -> Cold        [] state = 20 -> temp = "dHot"
      [] state = 21 -> temp = "dCold" [] state = 22 -> mosHot
      [] OTHER -> FALSE

AtRest == ~update /\ (state \in {1, 2, 3} \cup Failures \/ Caused)
=============================================================================
