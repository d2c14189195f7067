----------------------------- MODULE PackGauge -----------------------------
(***************************************************************************)
(* What the battery pack keeps about its charge: the record in its EEPROM, *)
(* the start that reads, checks and repairs it (bms_setup.c and            *)
(* config_init), and the gauge that counts the charge while the pack runs  *)
(* (fuel_gauge.c: cell_voltage_scan, coulomb_counter, cell_balance_update  *)
(* and config_resend_all).  Power may go away between any two writes.      *)
(*                                                                         *)
(* Charge is in units of a twentieth of the full capacity, a cell voltage  *)
(* is the band it falls in, and a temperature one of a few steps.          *)
(***************************************************************************)
EXTENDS Integers, FiniteSets

CONSTANTS Fields,       \* the checked fields 0x06, 0x32, 0x34 and 0x36
          Full,         \* the full capacity in units of charge
          Runs,         \* 12 discharging calls with a low cell
          Reads,        \* 6 readings past a mark
          Warm,         \* the hottest step of a temperature
          Rests,        \* charges the cells may stand for at a start
          MaxSum, MaxCuts

GaugeAssumption == /\ Fields \in Nat \ {0} /\ Full = 20 /\ Runs \in Nat \ {0}
                   /\ Reads \in Nat \ {0} /\ Warm \in Nat /\ Rests \subseteq 0..Full
                   /\ MaxCuts \in Nat /\ MaxSum \in 0..Full

VARIABLES pc,     \* the step of the start, Running or Resending
          ee,     \* the EEPROM
          magic,  \* the magic number as the start has read it
          cfg,    \* the record in RAM
          est,    \* the charge the lowest cell's rest voltage stands for
          sum,    \* the second count of the charge, real_soc
          low,    \* the debounce of the low band
          beyond, \* readings past the mark in a row
          lows,   \* discharging calls in a row that saw a low cell and more than 5 %
          cuts

vars == <<pc, ee, magic, cfg, est, sum, low, beyond, lows, cuts>>

Running == Fields + 4
Resending == Fields + 5

Bands == {"dead", "low", "mid", "high"}
Rank(b) == CASE b = "dead" -> 0 [] b = "low" -> 1 [] b = "mid" -> 2 [] b = "high" -> 3
Percent(charge) == (charge * 100) \div Full
Least(a, b) == IF a < b THEN a ELSE b
Less(a, b) == IF a > b THEN a - b ELSE 0

Blank == [charge |-> 0, soc |-> 0, full |-> 0, mark |-> 0]
Default == 1            \* 0x41, the mark of a pack without one

(* bms_setup loads the record, and config_init clears the very block it    *)
(* was loaded to before it looks at the fields                             *)
Load == /\ pc = 0 /\ pc' = 1
        /\ cfg' = Blank /\ magic' = ee.magic
        /\ sum' = 0 /\ low' = 0 /\ beyond' = 0 /\ lows' = 0
        /\ UNCHANGED <<ee, est, cuts>>

Field == /\ pc \in 1..Fields /\ pc' = pc + 1
         /\ ee' = IF ee.field[pc] = "zero" \/ magic # "ours"
                  THEN [ee EXCEPT !.field[pc] = "default"] ELSE ee
         /\ UNCHANGED <<magic, cfg, est, sum, low, beyond, lows, cuts>>

Marks == /\ pc = Fields + 1 /\ pc' = pc + 1
         /\ ee' = IF ee.mark = 0 THEN [ee EXCEPT !.mark = Default] ELSE ee
         /\ UNCHANGED <<magic, cfg, est, sum, low, beyond, lows, cuts>>

Magic == /\ pc = Fields + 2 /\ pc' = pc + 1
         /\ ee' = [ee EXCEPT !.magic = "ours"]
         /\ UNCHANGED <<magic, cfg, est, sum, low, beyond, lows, cuts>>

(* rsoc_set                                                                *)
RsocSet(c, p) == [c EXCEPT !.soc = p, !.charge = (c.full * p) \div 100]

(* bms_setup from rsoc_lookup on; correcting a kept record is an empty stub*)
Factory == [charge |-> est, soc |-> 0, full |-> Full, mark |-> 0]
Setup == /\ pc = Fields + 3 /\ pc' = Running
         /\ sum' = est
         /\ IF cfg.full = 0
            THEN /\ cfg' = Factory
                 /\ ee' = [ee EXCEPT !.charge = est, !.soc = 0, !.full = Full, !.mark = 0]
            ELSE UNCHANGED <<cfg, ee>>
         /\ UNCHANGED <<magic, est, low, beyond, lows, cuts>>

(* cell_voltage_scan: a wide spread whose lowest cell is at an end of the  *)
(* pack and not dead is taken for a wire, and the neighbour's voltage used *)
Lowest(c) == CHOOSE i \in 1..3 : /\ \A j \in 1..3 : Rank(c[i]) <= Rank(c[j])
                                 /\ \A j \in 1..(i - 1) : c[j] # c[i]
Wide(c) == Cardinality({c[i] : i \in 1..3}) > 1
Patched(c) == LET i == Lowest(c)
              IN  IF Wide(c) /\ i # 2 /\ c[i] # "dead" THEN [c EXCEPT ![i] = c[2]] ELSE c
Seen(c) == LET p == Patched(c) IN p[Lowest(p)]
SeenBands == {Seen(c) : c \in [1..3 -> Bands]}

(* the tail of coulomb_counter                                             *)
Tail(c) == LET charge == Least(c.charge, Full)
               p == Percent(charge) + (IF charge # 0 THEN 1 ELSE 0)
           IN  [c EXCEPT !.charge = charge, !.soc = Least(p, 100)]

(* coulomb_counter with a discharging current                              *)
IsLow(b) == b \in {"dead", "low"}
FloorOf(b) == IF b = "mid" THEN 6 ELSE 7
DueLate == low >= Runs
Due == low + 1 >= Runs
LowBand(c) == IF c.soc > 5 /\ Due THEN RsocSet(c, 5) ELSE c
HighBand(c, val, left, b) ==
  IF c.soc > FloorOf(b) /\ c.charge > left THEN [c EXCEPT !.charge = Less(@, val)] ELSE c
Discharge ==
  /\ pc = Running
  /\ \E b \in SeenBands, val \in 1..2 :
       LET left == Less(sum, val)
       IN  /\ sum' = left
           /\ cfg' = Tail(IF IsLow(b) THEN LowBand(cfg) ELSE HighBand(cfg, val, left, b))
           /\ low' = IF IsLow(b) /\ cfg.soc > 5 /\ ~Due THEN low + 1 ELSE 0
           /\ lows' = IF ~IsLow(b) THEN 0 ELSE IF cfg.soc > 5 THEN Least(lows + 1, Runs) ELSE lows
  /\ UNCHANGED <<pc, ee, magic, est, beyond, cuts>>

(* and with a charging one: only the second count goes up                  *)
Charge == /\ pc = Running /\ sum < MaxSum
          /\ \E val \in 1..2 : sum' = Least(sum + val, MaxSum)
          /\ cfg' = Tail(cfg)
          /\ UNCHANGED <<pc, ee, magic, est, low, beyond, lows, cuts>>

(* a current below the threshold reaches the tail alone                    *)
Rest == /\ pc = Running /\ cfg' = Tail(cfg)
        /\ UNCHANGED <<pc, ee, magic, est, sum, low, beyond, lows, cuts>>

(* cell_balance_update: a reading far from the mean is replaced by it      *)
Near(r, mean) == IF r > mean + 1 \/ r < mean - 1 THEN mean ELSE r
Raised(t) == cfg.mark < t /\ beyond + 1 >= Reads
Balance ==
  /\ pc = Running
  /\ \E r, mean \in 1..Warm :
       LET t == Near(r, mean)
       IN  /\ beyond' = IF cfg.mark < t THEN Least(beyond + 1, Reads) ELSE 0
           /\ IF Raised(t)
              THEN cfg' = [cfg EXCEPT !.mark = t] /\ ee' = [ee EXCEPT !.mark = t]
              ELSE UNCHANGED <<cfg, ee>>
  /\ UNCHANGED <<pc, magic, est, sum, low, lows, cuts>>

(* config_resend_all after 40 half seconds: two writes that matter here    *)
Resend == /\ pc = Running /\ pc' = Resending
          /\ ee' = [ee EXCEPT !.charge = cfg.charge]
          /\ UNCHANGED <<magic, cfg, est, sum, low, beyond, lows, cuts>>
Resent == /\ pc = Resending /\ pc' = Running
          /\ ee' = [ee EXCEPT !.soc = cfg.soc]
          /\ UNCHANGED <<magic, cfg, est, sum, low, beyond, lows, cuts>>

(* power goes away; the cells tell their charge anew at the next start     *)
Cut == /\ cuts < MaxCuts /\ cuts' = cuts + 1
       /\ pc' = 0 /\ magic' = "none" /\ cfg' = Blank
       /\ est' \in Rests
       /\ sum' = 0 /\ low' = 0 /\ beyond' = 0 /\ lows' = 0
       /\ UNCHANGED ee

Init == /\ pc = 0 /\ magic = "none" /\ cfg = Blank
        /\ \E g \in {"none", "old", "ours"} :
             \E f \in [1..Fields -> IF g = "ours" THEN {"own", "default"} ELSE {"zero", "old"}] :
               ee = [magic |-> g, field |-> f, charge |-> 0, soc |-> 0, full |-> 0, mark |-> 0]
        /\ est \in Rests
        /\ sum = 0 /\ low = 0 /\ beyond = 0 /\ lows = 0 /\ cuts = 0

Next == \/ Load \/ Field \/ Marks \/ Magic \/ Setup
        \/ Discharge \/ Charge \/ Rest \/ Balance \/ Resend \/ Resent \/ Cut
Spec == Init /\ [][Next]_vars

TypeOK == /\ pc \in 0..Resending
          /\ ee.magic \in {"none", "old", "ours"} /\ cfg.soc \in 0..100
          /\ ee.field \in [1..Fields -> {"zero", "old", "own", "default"}]
          /\ cfg.charge \in 0..Full /\ cfg.mark \in 0..Warm /\ ee.mark \in 0..Warm
          /\ sum \in 0..Full /\ low \in 0..Runs /\ beyond \in 0..Reads /\ lows \in 0..Runs

(* The magic number stands for checked fields wherever power went away: it *)
(* is written after the last of them (config_init).                        *)
Configured == ee.magic = "ours" => \A i \in 1..Fields : ee.field[i] \notin {"zero", "old"}

(* A pack whose lowest cell has been seen low in a dozen discharging calls *)
(* in a row shows no more than 6 per cent, whatever it had counted.        *)
LowCellsShown == lows = Runs => cfg.soc <= 6

(* "Loaded verbatim into RAM at boot" (docs/eeprom.md): a start keeps the  *)
(* charge of a record that was provisioned and agrees with the cells.      *)
Agrees == LET e == Percent(est) IN e <= ee.soc + 9 /\ ee.soc <= e + 9
=============================================================================
