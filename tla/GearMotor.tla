----------------------------- MODULE GearMotor -----------------------------
(***************************************************************************)
(* The e-shifter's motor (shifterware/src/main.c): a wheel with gears 1 to *)
(* Top, a bridge that turns it up or down, a position line that changes    *)
(* with every gear (PA0), a line that is low in gear 1 (PA1), and a super  *)
(* loop in which every pass polls the bus, drives (motor_drive_step), runs *)
(* the task of the state byte (sched_run_task) when a tick has passed, and *)
(* saves the state a while after a homing.                                 *)
(*                                                                         *)
(* m is the program's memory; its operators are the functions of the code, *)
(* each from the memory it is called with to the one it leaves.  Ticks are *)
(* counted only as far as the limits they are compared with.               *)
(***************************************************************************)
EXTENDS Integers

CONSTANTS Top,            \* 4 in the code
          DriveLimit,     \* 199 ticks, the limit of task 2
          StallLimit,     \* 1999 ticks
          SaveAfter,      \* 50 ticks
          MaxActs         \* orders and resets

MotorAssumption == /\ Top \in 2..4 /\ MaxActs \in Nat
                   /\ 0 < DriveLimit /\ DriveLimit <= StallLimit /\ SaveAfter > 0

VARIABLES m, at, \* where the wheel is
          moved, \* it moved since the last pass
          asked, \* the gear of the last order that was taken, 0 for a homing
          acts

vars == <<m, at, moved, asked, acts>>

Low == at = 1          \* PA1
Line == at % 2         \* PA0

(* state_flags_reset                                                       *)
Reset(s) == [s EXCEPT !.dir = "none", !.reached = FALSE, !.d = FALSE, !.e = FALSE,
                      !.saving = FALSE, !.latch = FALSE]

(* flash_settings_commit                                                   *)
Commit(s) == Reset([s EXCEPT !.saved = s.fc, !.busy = FALSE, !.fresh = TRUE])

(* pos_encoder_tick                                                        *)
Step(n) == CASE n = "up" -> 1 [] n = "down" -> 255 [] OTHER -> 0
Encode(s) == IF Line = s.seen THEN s
             ELSE [s EXCEPT !.seen = Line, !.cur = (@ + Step(s.dir)) % 256,
                            !.latch = IF s.dir = "none" THEN @ ELSE FALSE]

(* motor_h_bridge_set                                                      *)
Limit(s) == IF s.task = 2 THEN DriveLimit ELSE StallLimit
Stalled(s) == LET t == IF s.latch THEN s.run ELSE 0
              IN  [s EXCEPT !.latch = TRUE, !.run = t, !.reached = @ \/ t > Limit(s)]
Bridge(s, way) == IF way = "brake" THEN [s EXCEPT !.way = "brake"]
                  ELSE Stalled([Encode(s) EXCEPT !.way = way])

(* motor_drive_step                                                        *)
DriveStep(s) ==
  LET t == CASE s.servo = 0 -> Bridge(s, "down") [] s.servo = 1 -> Bridge(s, "up") [] OTHER -> s
  IN  IF ~t.reached \/ t.servo = 2 THEN t
      ELSE Reset([Bridge(t, "brake") EXCEPT !.servo = 2, !.fc = IF t.task = 2 THEN 1 ELSE @])

(* sched_task_extra                                                        *)
Extra(s) == CASE s.cur < s.target -> [s EXCEPT !.dir = "up", !.e = TRUE]
              [] s.cur > s.target -> [s EXCEPT !.dir = "down", !.e = TRUE]
              [] OTHER -> [s EXCEPT !.dir = "none"]

(* sched_alpha_match_3538, its settling time left out                      *)
Settled(s) == Reset([Bridge(s, "brake") EXCEPT !.task = 0, !.tries = 0])

(* sched_task_alpha: the first half is to home, the second to shift        *)
Missed(s) == IF ~s.reached THEN s
             ELSE Reset([Bridge(s, "brake") EXCEPT
                           !.task = IF Low THEN 6 ELSE 3, !.cur = IF Low THEN 1 ELSE @,
                           !.tries = @ + 1, !.fc = IF s.tries >= 4 THEN 6 ELSE @])
Alpha(s) ==
  IF s.fc = 1 THEN [s EXCEPT !.want = 1, !.d = TRUE, !.e = FALSE]
  ELSE IF s.fc # 2 THEN s
  ELSE LET t == IF s.target = s.cur THEN s
                ELSE Missed(IF s.dir = "none" THEN s ELSE Bridge(s, s.dir))
       IN  IF t.target = t.cur THEN Settled(t) ELSE t

(* sched_task_beta: drive down until PA1 is low                            *)
Homed(s) == [Bridge(s, "brake") EXCEPT !.cur = 1, !.dir = "none", !.task = 0, !.tries = 0,
                                       !.want = 1, !.fc = 2, !.busy = TRUE]
GivesUp(s) == Reset([Bridge(s, "brake") EXCEPT
                       !.task = CASE s.cur = 4 -> 4 [] s.cur \in {2, 3} -> 5 [] s.cur = 1 -> 2 [] OTHER -> @,
                       !.tries = @ + 1,
                       !.fc = CASE s.tries >= 2 -> 6 [] s.cur = 4 -> 4 [] s.cur \in {2, 3} -> 5
                                [] s.cur = 1 -> 3 [] OTHER -> @])
Beta(s) == IF Low THEN Homed(s)
           ELSE LET t == Bridge([s EXCEPT !.dir = "down"], "down")
                IN  IF t.reached THEN GivesUp(t) ELSE t

(* sched_run_task                                                          *)
Follow(s) == IF s.want = s.target \/ s.task = 0 THEN s
             ELSE [Extra([s EXCEPT !.target = s.want]) EXCEPT !.e = TRUE]
RunTask(s, task) ==
  CASE task = 0 -> Commit([s EXCEPT !.fc = 1, !.cur = 1])
    [] task = 1 -> LET t == [s EXCEPT !.task = 7]
                   IN  CASE t.e -> Follow(Alpha(t)) [] ~t.e /\ t.d -> Beta(t) [] OTHER -> Follow(t)
    [] task = 2 -> [s EXCEPT !.task = 2, !.servo = 1]
    [] task \in {4, 5} -> LET t == [s EXCEPT !.task = task] IN IF t.d THEN Beta(t) ELSE t
    [] task = 6 -> [s EXCEPT !.task = 8]
    [] OTHER -> s

(* modbus_dispatch_pdu's registers 2, 0x14, 0x5A and 0x5C                  *)
Running(s) == s.way # "brake"
Gear(s, g) == IF Running(s) THEN [s EXCEPT !.want = g]
              ELSE [Extra([s EXCEPT !.want = g, !.target = g]) EXCEPT !.e = TRUE]
Home(s) == IF Running(s) THEN [s EXCEPT !.d = FALSE] ELSE [s EXCEPT !.want = 1, !.d = TRUE]
Drive(s, d) == IF Running(s) THEN s ELSE [s EXCEPT !.servo = d]

(* main: the tail of a pass                                                *)
Save(s) == IF ~s.busy THEN s
           ELSE IF ~s.saving THEN [s EXCEPT !.saving = TRUE, !.since = 0]
           ELSE IF s.since = SaveAfter THEN [Commit(s) EXCEPT !.saving = FALSE] ELSE s

Capped(k, limit) == IF k > limit THEN limit + 1 ELSE k
Later(s, n) == [s EXCEPT !.run = IF s.latch THEN Capped(@ + n, StallLimit) ELSE 0,
                         !.since = IF s.saving THEN Capped(@ + n, SaveAfter) ELSE 0,
                         !.fresh = FALSE]

(* a pass in which n ticks go by, after what the bus brought               *)
Pass(s, n) == /\ m' = LET t == DriveStep(Later(s, n))
                      IN  Save(IF n = 0 THEN t ELSE RunTask(t, m.fc))
              /\ moved' = FALSE /\ UNCHANGED at

Quiet == Pass(m, 1) /\ UNCHANGED <<asked, acts>>
Early == Pass(m, 0) /\ UNCHANGED <<asked, acts>>
Act == acts < MaxActs /\ acts' = acts + 1
(* a written register is answered byte by byte, which takes ticks          *)
Ordered == /\ Act
           /\ \/ \E g \in 1..Top : Pass(Gear(m, g), 2) /\ asked' = g
              \/ /\ Pass(Home(m), 2) \/ Pass(Commit(m), 2) \/ \E d \in {0, 1, 2} : Pass(Drive(m, d), 2)
                 /\ asked' = 0

Turn == /\ Running(m) /\ ~moved /\ moved' = TRUE
        /\ at' = IF m.way = "up" THEN at + 1 ELSE at - 1
        /\ at' \in 1..Top
        /\ UNCHANGED <<m, asked, acts>>

(* settings_load and main's start; an erased page is state 0               *)
Synced(s) == LET t == IF s.fc = 2 /\ ~Low THEN [s EXCEPT !.fc = 1] ELSE s
                 u == IF t.cur # 1 /\ Low THEN [t EXCEPT !.cur = 1, !.fc = 2] ELSE t
             IN  [u EXCEPT !.seen = Line]
Cold(saved) == Synced([fc |-> saved, saved |-> saved, task |-> 0, cur |-> 0, target |-> 0, want |-> 0,
                       dir |-> "none", way |-> "brake", servo |-> 2, e |-> FALSE, d |-> FALSE,
                       reached |-> FALSE, latch |-> FALSE, run |-> 0, tries |-> 0, seen |-> 0,
                       busy |-> FALSE, saving |-> FALSE, since |-> 0, fresh |-> FALSE])

(* a loss of power, perhaps in the commit of the last pass, which erases   *)
(* the page once for every half-word                                       *)
Restart == /\ Act /\ \E saved \in {m.saved} \cup (IF m.fresh THEN {0} ELSE {}) : m' = Cold(saved)
           /\ asked' = 0 /\ moved' = FALSE /\ UNCHANGED at

Init == /\ at \in 1..Top /\ m = Cold(0) /\ moved = FALSE /\ asked = 0 /\ acts = 0
Next == Quiet \/ Early \/ Ordered \/ Turn \/ Restart
Spec == Init /\ [][Next]_vars /\ WF_vars(Quiet) /\ WF_vars(Turn)

TypeOK == /\ at \in 1..Top /\ asked \in 0..Top /\ acts \in 0..MaxActs
          /\ m.fc \in 0..6 /\ m.saved \in 0..6 /\ m.task \in 0..8
          /\ m.cur \in 0..255 /\ m.want \in 0..Top /\ m.target \in 0..Top
          /\ m.servo \in 0..2 /\ m.tries \in 0..5 /\ m.way \in {"up", "down", "brake"}

(* "Once the motor is running, every call enforces a stall timeout"        *)
(* (main.c): while it runs, some branch of the loop drives it.             *)
Watched == \/ m.servo # 2 \/ m.fc = 2
           \/ m.fc = 1 /\ (m.e \/ m.d \/ m.want # m.target)
           \/ m.fc \in {4, 5} /\ m.d

(* The loop does not lose sight of a motor by itself: only an order or the *)
(* deferred save takes its last driving branch away while it runs.         *)
KeepsWatch == (Quiet \/ Early) /\ Running(m) /\ Watched /\ m'.way # "brake" /\ ~m'.fresh
                => Watched'
WatchKept == [][KeepsWatch]_vars

=============================================================================
