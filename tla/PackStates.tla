----------------------------- MODULE PackStates -----------------------------
(***************************************************************************)
(* The protection state machine of the battery pack: the state entries and *)
(* the per-state handlers of src/batteryware/src/state_handlers.c, run by  *)
(* the super loop of main.c, the comparators of fuel_gauge.c that latch    *)
(* the fault bits, and the bus commands of modem.c that move the machine   *)
(* or its FETs.  States carry the firmware's numbers: 1 idle, 2 charger    *)
(* recovery, 3 running, 6 powering down, 7..22 the protections, 23..25 the *)
(* failure states; 0 is a pack without power.                              *)
(*                                                                         *)
(* Measurements are classes: a temperature zone, the direction of the      *)
(* current last measured, a charger or none.  A debounced comparison may   *)
(* trip in any pass in which its condition holds.  The routines in RAM     *)
(* that write the protection word are not part of the repository: a bit    *)
(* appears or goes, and bit 5 of the control word tells the handlers.      *)
(***************************************************************************)
EXTENDS Integers, Sequences

CONSTANTS
    ProtBits,   \* the protection bits the environment may raise
    MaxEvents   \* bound: changes of the environment

AllProt == {"over1", "over2", "under1", "under2", "chgOc1", "chgOc2",
            "dsgOc1", "dsgOc2", "pre1", "pre2", "mos"}
Failures == {"alert", "chgLeak", "dsgLeak"}
AllFaults == {"hot", "cold", "dHot", "dCold", "mosHot", "oc1", "oc2"} \cup Failures

PackAssumption == ProtBits \subseteq AllProt /\ MaxEvents \in Nat

VARIABLES
    state,    \* the live state byte
    saved,    \* the state byte in EEPROM, read at the next power-on
    fet,      \* FET bits of the front end: "dsg" (bit 0), "chg" (bit 1)
    prot,     \* protection word
    changed,  \* bit 5 of the control word: the protection word changed
    fault,    \* fault flags
    allow,    \* bit 12: the bike lets the pack charge
    enable,   \* bit 11: discharging enabled
    vm,       \* bit 3: VanMoof mode, powers down when empty
    cool,     \* bit 7: charging held off after an over-current
    monitor,  \* bit 8: temperatures watched while charging
    pre,      \* sub-state of the running state's FET logic
    fuse,     \* PB7 was driven: the fuse has blown
    short,    \* short-circuit status of the front end
    temp, mosHot, charger,   \* what is measured
    cur,      \* current last measured: "none", "chg" or "dsg"
    broken,   \* FETs that no longer open
    events

vars == <<state, saved, fet, prot, changed, fault, allow, enable, vm, cool,
          monitor, pre, fuse, short, temp, mosHot, charger, cur, broken, events>>
measured == <<short, temp, mosHot, charger, cur, broken, events>>
running == <<cool, monitor, pre>>

\* Mutant: the dispatcher runs a handler for the failure states too.
HandledAll == {1, 2, 3} \cup 7..25

Handled == {1, 2, 3} \cup 7..22       \* states whose handler can move
FailureStates == 23..25

TypeOK ==
    /\ state \in {0} \cup Handled \cup FailureStates
    /\ saved \in {0, 1, 2, 3} \cup 7..25
    /\ fet \subseteq {"dsg", "chg"}
    /\ prot \subseteq AllProt
    /\ fault \subseteq AllFaults
    /\ \A b \in {changed, allow, enable, vm, cool, monitor, fuse, short, mosHot, charger} :
          b \in BOOLEAN
    /\ pre \in -1..4
    /\ temp \in {"dCold", "cCold", "ok", "cHot", "dHot"}
    /\ cur \in {"none", "chg", "dsg"}
    /\ broken \subseteq {"dsg", "chg"}
    /\ events \in 0..MaxEvents

Init ==
    /\ state = 0 /\ saved = 0 /\ fet = {} /\ prot = {} /\ fault = {}
    /\ changed = FALSE /\ allow = TRUE /\ enable = FALSE /\ vm = FALSE
    /\ cool = FALSE /\ monitor = FALSE /\ pre = -1 /\ fuse = FALSE
    /\ short = FALSE /\ temp = "ok" /\ mosHot = FALSE /\ charger = FALSE
    /\ cur = "none" /\ broken = {} /\ events = 0

-----------------------------------------------------------------------------
(* Entering a state (state_handler_NN and bms_set_state). *)

\* The FETs a state is entered with.
FetsOf(s, en, al) ==
    LET charge == IF al THEN {"chg"} ELSE {}
    IN  CASE s = 1 -> (IF en THEN {"dsg"} ELSE {}) \cup charge
          [] s = 3 -> {"dsg"} \cup (IF fault \cap {"hot", "cold"} = {} THEN charge ELSE {})
          [] s \in {7, 8} -> {"dsg"}
          [] s \in {2, 9, 10} -> {"chg"}
          [] s \in {13, 14} -> IF charger THEN {} ELSE {"chg"}
          [] OTHER -> {}

\* bms_set_state: the fault flags and the debounce counters are cleared, and
\* the state byte is written to EEPROM unless an update is going on.
Record(s, write) ==
    /\ fault' = {}
    /\ saved' = IF write THEN s ELSE saved

\* What only the running state reads; entering it starts afresh.
Idle == cool' = FALSE /\ monitor' = FALSE /\ pre' = -1

EnterWith(s, p, write) ==
    LET en == \/ s \in {3, 7, 8}
              \/ s = 1 /\ (~vm \/ enable)
    IN  /\ state' = s
        /\ enable' = en
        /\ fet' = FetsOf(s, en, allow)
        /\ prot' = IF s \in {1, 15, 16} THEN p \ {"pre1", "pre2"} ELSE p
        /\ Record(s, write)
        /\ Idle

Enter(s) == EnterWith(s, prot, TRUE) /\ UNCHANGED fuse

\* state_handler_17_19 with fault flags f: the fuse is fired when a current
\* flows through an open FET and the protection word does not say otherwise.
Fail(f) ==
    LET leak == f \cap {"chgLeak", "dsgLeak"} # {}
        s == IF "mos" \in prot THEN 25 ELSE IF leak THEN 23 ELSE 24
    IN  /\ fuse' = (fuse \/ s = 23)
        /\ EnterWith(s, prot, TRUE)

Go(s) == IF s = 23 THEN Fail(fault) ELSE Enter(s)

-----------------------------------------------------------------------------
(* A pass of the state's handler. *)

\* What the handlers do about the protection word, first rule first; 23
\* stands for state_handler_17_19.
Has(b) == b \in prot
FailRule == <<<<Has("mos"), 23>>>>
OverRules == <<<<Has("over2"), 8>>, <<Has("over1"), 7>>>>
UnderRules == <<<<Has("under2"), 10>>, <<Has("under1"), 9>>>>
DischargeOcRules == <<<<Has("dsgOc2"), 14>>, <<Has("dsgOc1"), 13>>>>
IdleRules == OverRules \o UnderRules \o FailRule \o <<<<Has("pre1"), 15>>, <<Has("pre2"), 16>>>>
RecoveryRules == OverRules \o <<<<Has("chgOc2"), 12>>, <<Has("chgOc1"), 11>>>> \o FailRule
RunningRules == OverRules \o UnderRules \o DischargeOcRules \o FailRule
Over1Rules == <<<<Has("over2"), 8>>, <<~Has("over1"), 1>>>> \o DischargeOcRules \o FailRule
Over2Rules ==
    <<<<~Has("over2") /\ Has("over1"), 7>>, <<~Has("over2"), 1>>>> \o DischargeOcRules \o FailRule
Under1Rules == <<<<Has("under2"), 10>>, <<~Has("under1"), 1>>>> \o FailRule
Under2Rules == <<<<~Has("under2") /\ Has("under1"), 9>>, <<~Has("under2"), 1>>>> \o FailRule
ChargeOc1Rules == OverRules \o <<<<~Has("chgOc1"), 1>>>> \o FailRule
ChargeOc2Rules == OverRules \o <<<<~Has("chgOc2"), 1>>>> \o FailRule
DischargeOc1Rules == OverRules \o UnderRules \o <<<<~Has("dsgOc1"), 1>>>> \o FailRule
DischargeOc2Rules == OverRules \o UnderRules \o <<<<~Has("dsgOc2"), 1>>>> \o FailRule
HoldRules == OverRules \o UnderRules \o FailRule    \* states 15 to 22

Rules(s) ==
    CASE s = 1 -> IdleRules           [] s = 2 -> RecoveryRules
      [] s = 3 -> RunningRules        [] s = 7 -> Over1Rules
      [] s = 8 -> Over2Rules          [] s = 9 -> Under1Rules
      [] s = 10 -> Under2Rules        [] s = 11 -> ChargeOc1Rules
      [] s = 12 -> ChargeOc2Rules     [] s = 13 -> DischargeOc1Rules
      [] s = 14 -> DischargeOc2Rules  [] OTHER -> HoldRules

Shorted ==   \* every handler but state 17's own looks at the short first
    /\ state \in Handled \ {17} /\ short
    /\ Enter(17)
    /\ UNCHANGED <<changed, allow, vm, measured>>

Dispatch ==
    /\ state \in Handled /\ changed
    /\ short => state = 17
    /\ changed' = FALSE
    /\ LET hit == SelectSeq(Rules(state), LAMBDA rule : rule[1])
       IN  IF hit = <<>>
           THEN UNCHANGED <<state, saved, fet, prot, fault, enable, running, fuse>>
           ELSE Go(Head(hit)[2])
    /\ UNCHANGED <<allow, vm, measured>>

Hot == temp \in {"cHot", "dHot"}
Cold == temp \in {"cCold", "dCold"}

\* The temperature comparators whose condition holds (fg_uvp1_check and its
\* siblings, fg_threshold_check) among those the state's handler calls.
Trips ==
    {f \in AllFaults :
        \/ f = "hot" /\ Hot /\ state \in {1, 2}
        \/ f = "cold" /\ Cold /\ state \in {1, 2}
        \/ f = "dHot" /\ temp = "dHot" /\ state \in {1, 2, 3}
        \/ f = "dCold" /\ temp = "dCold" /\ state \in {1, 2, 3}
        \/ f = "mosHot" /\ mosHot /\ state \in {1, 2, 3}}

\* fg_discharge_oc_check and fg_charge_oc_check: the counter they keep is the
\* measurement itself, so the first reading over the threshold latches.
Leaks ==
    {f \in {"chgLeak", "dsgLeak"} :
        \/ /\ f = "chgLeak" /\ cur = "chg" /\ "chg" \notin fet
           /\ state \in {3, 7, 8} \cup 11..14 \cup 17..22
        \/ /\ f = "dsgLeak" /\ cur = "dsg" /\ "dsg" \notin fet
           /\ state \in {9, 10} \cup 13..17 \cup 20..22}

\* What the handler of the state does about fault flags f, first rule first.
Verdict(f) ==
    LET charging == cur = "chg" /\ charger
        minor == state = 2 \/ (state = 1 /\ charging)
        rules == <<<<minor /\ "hot" \in f, 18>>, <<minor /\ "cold" \in f, 19>>,
                   <<state \in {1, 2, 3} /\ "dHot" \in f, 20>>,
                   <<state \in {1, 2, 3} /\ "dCold" \in f, 21>>,
                   <<state \in {1, 2, 3} /\ "mosHot" \in f, 22>>,
                   <<f \cap Failures # {}, 23>>>>
        hit == SelectSeq(rules, LAMBDA rule : rule[1])
    IN  IF hit = <<>> THEN 0 ELSE Head(hit)[2]

\* The 100 ms part: some of the comparators trip, the worst fault decides.
Quiet == state \in Handled /\ ~changed /\ (short => state = 17)

Check ==
    /\ Quiet
    /\ \E t \in SUBSET Trips, a \in SUBSET {"alert"} :
          LET f == fault \cup t \cup a \cup Leaks
              v == Verdict(f)
          IN  /\ f # fault
              /\ CASE v = 0 ->
                        /\ fault' = IF state = 1 /\ ~(cur = "chg" /\ charger)
                                    THEN f \ {"hot", "cold"} ELSE f
                        /\ UNCHANGED <<state, saved, fet, prot, enable, running, fuse>>
                   [] v = 23 -> Fail(f)
                   [] OTHER -> Enter(v)
    /\ UNCHANGED <<changed, allow, vm, measured>>

\* The state's own way on, once its counter has run: a pair of the condition
\* and the state it leads to.
FromIdle == {<<TRUE, 3>>, <<TRUE, 16>>}
FromRecovery ==
    {<<~charger, IF "under2" \in prot THEN 10 ELSE IF "under1" \in prot THEN 9 ELSE 1>>}
ToRecovery == {<<charger, 2>>}
FromHot == {<<~charger \/ ~Hot, 1>>}
FromCold == {<<~charger \/ ~Cold, 1>>}
FromDischargeHot == {<<temp # "dHot", 1>>}
FromDischargeCold == {<<temp # "dCold", 1>>}
FromMosHot == {<<~mosHot, 1>>}

\* Mutant: state 18 waits for the charger to be unplugged as well.
OnwardUnplugged ==
    {s \in {1, 3} :
        \/ state = 1 /\ s = 3
        \/ s = 1 /\ state = 18 /\ ~charger /\ ~Hot}

Onward ==
    LET ways == CASE state = 1 -> FromIdle
                  [] state = 2 -> FromRecovery
                  [] state \in {9, 10, 13, 14} -> ToRecovery
                  [] state = 18 -> FromHot
                  [] state = 19 -> FromCold
                  [] state = 20 -> FromDischargeHot
                  [] state = 21 -> FromDischargeCold
                  [] state = 22 -> FromMosHot
                  [] OTHER -> {}
    IN  {way[2] : way \in {w \in ways : w[1]}}

Move ==
    /\ Quiet /\ Verdict(fault \cup Leaks) = 0
    /\ \E s \in Onward :
          EnterWith(s, IF state = 1 /\ s = 16 THEN prot \cup {"pre2"} ELSE prot, TRUE)
    /\ UNCHANGED <<changed, allow, vm, fuse, measured>>

-----------------------------------------------------------------------------
(* The running state's own work (bms_state_machine): its part of a pass is *)
(* three functions of a record r of what they may change.                  *)

Charge(r, on) == [r EXCEPT !.fet = IF on THEN @ \cup {"chg"} ELSE @ \ {"chg"}]
Warm(r) == r.fault \cap {"hot", "cold"} # {}

\* Temperatures while charging.  A trip is logged as state 18 or 19 (which
\* clears the fault flags and writes the EEPROM) and stays in state 3.
Temperature(r) ==
    IF charger /\ r.monitor
    THEN {r} \cup
         {Charge([r EXCEPT !.fault = {x[1]}, !.saved = x[2]], FALSE) :
             x \in {y \in {<<"hot", 18, Hot>>, <<"cold", 19, Cold>>} :
                       y[3] /\ y[1] \notin r.fault}} \cup
         {Charge([r EXCEPT !.fault = @ \ {x[1]}], allow) :
             x \in {y \in {<<"hot", Hot>>, <<"cold", Cold>>} : ~y[2] /\ y[1] \in r.fault}}
    ELSE IF "chg" \notin r.fet
         THEN {Charge([r EXCEPT !.fault = @ \ {"hot", "cold"}], allow)}
         ELSE {r}

\* Over-currents: logged as state 11 or 12, charging held off until a
\* counter has run.
OverCurrent(r) ==
    LET log(bit, flag, s) ==
            Charge([r EXCEPT !.prot = @ \ {bit}, !.fault = {flag}, !.saved = s,
                             !.cool = TRUE], FALSE)
    IN  IF "chgOc2" \in r.prot THEN {log("chgOc2", "oc2", 12)}
        ELSE IF "chgOc1" \in r.prot THEN {log("chgOc1", "oc1", 11)}
        ELSE {r} \cup (IF r.cool
                       THEN {[r EXCEPT !.cool = FALSE, !.fault = @ \ {"oc1", "oc2"}]}
                       ELSE {})

\* The charge FET by the current that flows; pre remembers which case the
\* last pass was in.
Fets(r) ==
    LET off == Charge(r, FALSE)
        hold == ~allow \/ r.cool
        case == IF cur = "dsg" THEN (IF charger THEN 4 ELSE 3)
                ELSE IF ~charger THEN 0
                ELSE IF cur = "chg" THEN 2 ELSE 1
    IN  IF Warm(r) THEN {[off EXCEPT !.pre = IF case = 0 THEN 0 ELSE -1,
                                     !.monitor = IF case = 0 THEN FALSE ELSE @]}
        ELSE IF hold THEN {IF case = 0 THEN [off EXCEPT !.pre = 0, !.monitor = FALSE]
                           ELSE off}
        ELSE CASE case = 0 -> {Charge([r EXCEPT !.pre = 0, !.monitor = FALSE], TRUE)}
               [] case = 1 -> IF r.pre = 1
                              THEN {r, [r EXCEPT !.monitor = TRUE]}
                              ELSE {Charge([r EXCEPT !.pre = 1], TRUE)}
               [] case = 2 -> {Charge([r EXCEPT !.pre = 2,
                                         !.monitor = (@ \/ r.pre # 2)], TRUE)}
               [] case = 3 -> IF r.pre = 3 THEN {r}
                              ELSE {Charge([r EXCEPT !.pre = 3, !.monitor = FALSE], TRUE)}
               [] case = 4 -> IF r.pre = 4
                              THEN {r, [r EXCEPT !.monitor = TRUE]}
                              ELSE {Charge([r EXCEPT !.pre = p], TRUE) : p \in {-1, 4}}

Run ==
    /\ Quiet /\ state = 3 /\ Verdict(fault \cup Leaks) = 0
    /\ LET r0 == [fault |-> fault, fet |-> fet, saved |-> saved, prot |-> prot,
                  cool |-> cool, monitor |-> monitor, pre |-> pre]
       IN  \E r1 \in Temperature(r0) : \E r2 \in OverCurrent(r1) : \E r3 \in Fets(r2) :
              /\ fault' = r3.fault /\ fet' = r3.fet /\ saved' = r3.saved
              /\ prot' = r3.prot /\ cool' = r3.cool /\ monitor' = r3.monitor
              /\ pre' = r3.pre
    /\ UNCHANGED <<state, changed, allow, enable, vm, fuse, measured>>

-----------------------------------------------------------------------------
(* Power-on, power-down and the commands of the bike. *)

\* main: a failure state is entered again without firing or saving; the
\* voltage v (1 empty .. 7 over-full) and the saved state choose another.
Boot ==
    /\ state = 0
    /\ changed' = FALSE /\ allow' = TRUE
    /\ \E v \in 1..7, m \in BOOLEAN :
        LET s == CASE saved \in {23, 24} -> saved
                   [] saved = 10 /\ v <= 3 -> 10
                   [] saved = 9 /\ v <= 3 -> 9
                   [] saved = 8 /\ v >= 5 -> 8
                   [] saved = 7 /\ v >= 5 -> 7
                   [] v = 1 -> 10 [] v = 2 -> 9 [] v = 7 -> 8 [] v = 6 -> 7
                   [] OTHER -> 1
        IN  /\ vm' = (m /\ s \notin {23, 24})
            /\ LET en == s \in {7, 8} \/ (s = 1 /\ ~m)
               IN  enable' = en /\ fet' = FetsOf(s, en, TRUE)
            /\ state' = s
            /\ prot' = CASE s = 10 -> {"under2"} [] s = 9 -> {"under1"}
                         [] s = 8 -> {"over2"} [] s = 7 -> {"over1"} [] OTHER -> {}
            /\ Record(s, s \notin {23, 24})
    /\ Idle
    /\ UNCHANGED <<fuse, measured>>

\* Mutant: a failed power-down stays in state 6.
ShipStays ==
    /\ EnterWith(6, prot, TRUE)
    /\ UNCHANGED <<changed, allow, vm, fuse, measured>>

\* bootloader_entry: everything off, the front end told to power down; when
\* that fails the pack starts over in state 1.
Ship ==
    /\ \/ /\ state' = 0 /\ fet' = {} /\ fault' = {} /\ Idle
          /\ prot' = {} /\ changed' = FALSE /\ allow' = TRUE /\ enable' = FALSE
          /\ vm' = FALSE /\ UNCHANGED saved
       \/ EnterWith(1, prot, TRUE) /\ UNCHANGED <<changed, allow, vm>>
    /\ UNCHANGED <<fuse, measured>>

Shipping ==   \* asked for by the bike, or empty in VanMoof mode
    \/ state # 0 /\ Ship
    \/ Quiet /\ state \in {9, 10} /\ vm /\ ~charger /\ Verdict(fault \cup Leaks) = 0 /\ Ship

\* Mutant: the command is obeyed in every state.
DischargeAnywhere(on) ==
    /\ state # 0
    /\ enable' = on
    /\ fet' = IF on THEN fet \cup {"dsg"} ELSE fet \ {"dsg"}
    /\ UNCHANGED <<state, saved, prot, changed, fault, allow, vm, running, fuse, measured>>

\* Command 8: discharging off or on, in the states that discharge.
Discharge(on) ==
    /\ state \in {1, 3, 7, 8, 11, 12, 18, 19}
    /\ enable' = on
    /\ fet' = IF on THEN fet \cup {"dsg"} ELSE fet \ {"dsg"}
    /\ UNCHANGED <<state, saved, prot, changed, fault, allow, vm, running, fuse, measured>>

\* Command 0x1A: charging off or on.
AllowCharge(on) ==
    /\ state \in {1, 2, 3} \cup 13..17
    /\ allow' = on
    /\ fet' = IF on THEN fet \cup {"chg"} ELSE fet \ {"chg"}
    /\ UNCHANGED <<state, saved, prot, changed, fault, enable, vm, running, fuse, measured>>

\* Commands 0x95 and 0x80 (an update): the FETs open, the state stays.
OpenAll ==
    /\ state # 0 /\ (fet # {} \/ enable)
    /\ fet' = {} /\ enable' = FALSE
    /\ UNCHANGED <<state, saved, prot, changed, fault, allow, vm, running, fuse, measured>>

-----------------------------------------------------------------------------
(* The environment. *)

machine == <<state, saved, fet, fault, allow, enable, vm, running, fuse>>

Protect ==   \* the routines in RAM report a protection that came or went
    /\ state # 0 /\ events < MaxEvents /\ events' = events + 1
    /\ \E b \in ProtBits : prot' = IF b \in prot THEN prot \ {b} ELSE prot \cup {b}
    /\ changed' = TRUE
    /\ UNCHANGED <<machine, short, temp, mosHot, charger, cur, broken>>

Weather ==   \* anything else measured changes
    /\ state # 0 /\ events < MaxEvents /\ events' = events + 1
    /\ \/ /\ short' = ~short /\ UNCHANGED <<temp, mosHot, charger, broken>>
       \/ /\ \E t \in {"dCold", "cCold", "ok", "cHot", "dHot"} \ {temp} : temp' = t
          /\ UNCHANGED <<short, mosHot, charger, broken>>
       \/ /\ mosHot' = ~mosHot /\ UNCHANGED <<short, temp, charger, broken>>
       \/ /\ charger' = ~charger /\ UNCHANGED <<short, temp, mosHot, broken>>
       \/ /\ \E b \in {"dsg", "chg"} \ broken : broken' = broken \cup {b}
          /\ UNCHANGED <<short, temp, mosHot, charger>>
    /\ UNCHANGED <<machine, prot, changed, cur>>

\* The scan comes round to the current: it can only flow through a FET that
\* is closed or broken, and charges only from a charger.
Measure ==
    /\ state # 0
    /\ \E c \in {"none", "chg", "dsg"} \ {cur} :
          /\ c = "chg" => charger
          /\ c # "none" => c \in fet \cup broken
          /\ cur' = c
    /\ UNCHANGED <<machine, prot, changed, short, temp, mosHot, charger, broken, events>>

Crash ==     \* the supply of the processor fails; memory is lost
    /\ state # 0 /\ events < MaxEvents /\ events' = events + 1
    /\ state' = 0 /\ fet' = {} /\ fault' = {} /\ cur' = "none" /\ Idle
    /\ prot' = {} /\ changed' = FALSE /\ allow' = TRUE /\ enable' = FALSE /\ vm' = FALSE
    /\ UNCHANGED <<saved, fuse, short, temp, mosHot, charger, broken>>

Command ==
    \/ \E on \in BOOLEAN : Discharge(on) \/ AllowCharge(on)
    \/ OpenAll

Next ==
    \/ Shorted \/ Dispatch \/ Check \/ Move \/ Run
    \/ Boot \/ Shipping \/ Command
    \/ Protect \/ Weather \/ Measure \/ Crash

\* The super loop never stops; only the steps it is sure to take are fair.
Fairness ==
    /\ WF_vars(Shorted \/ Dispatch)
    /\ WF_vars(Move \/ (Leaks # {} /\ Check))

Spec == Init /\ [][Next]_vars /\ Fairness

-----------------------------------------------------------------------------
(* Correctness. *)

\* Whatever moved the machine, and whatever the bike asked for since, a FET
\* is closed only in a state that lets its current flow: never the discharge
\* FET in an under-voltage, discharge over-current, short-circuit or failure
\* state, never the charge FET in an over-voltage, charge over-current,
\* over-temperature or failure state.
FetsFollowState ==
    /\ "dsg" \in fet => state \in {1, 3, 7, 8, 11, 12, 18, 19}
    /\ "chg" \in fet => state \in {1, 2, 3, 9, 10} \cup 13..17

\* A failure state is left only by the power: no protection that comes or
\* goes and no command but the request to power down makes the pack of a
\* broken FET run again.
FailureKept == state \in FailureStates /\ state' \notin {state, 0} => Ship
FailureHolds == [][FailureKept]_vars

\* A temperature protection is left once the temperature is back (or the
\* charger gone): the pack is never held in one without a cause.
Held ==
    \/ state = 18 /\ ~Hot
    \/ state = 19 /\ ~Cold
    \/ state = 20 /\ temp # "dHot"
    \/ state = 21 /\ temp # "dCold"
    \/ state = 22 /\ ~mosHot

\* state_handlers.c:289-294 says of the fuse: "A working FET would have
\* already cleared the OC, so a latched OC here == a shorted FET".
FuseIsEarned == fuse => broken # {}
=============================================================================
