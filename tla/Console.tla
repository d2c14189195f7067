------------------------------ MODULE Console ------------------------------
(***************************************************************************)
(* The debug console of mainware (console.c): its two serial ports, the    *)
(* printf that waits for a full ring, the keys that select a port or reset *)
(* the controller, the login, and the commands as far as they leave        *)
(* something behind: a timer, a line held, a request to another part.      *)
(*                                                                         *)
(* A port's transmit ring is the number of bytes in it.  Text is a number  *)
(* of bytes.  Interrupts: a received byte and a transmitted byte are one   *)
(* run of the port's handler each.  The handler prints too (the tenth TAB) *)
(* and while it does neither the main loop nor a handler runs.  A timer    *)
(* slot is "none", "held" (allocated, not started), "run" or "out".        *)
(***************************************************************************)
EXTENDS Naturals, FiniteSets

CONSTANTS Cap,       \* bytes a ring takes (0x400)
          Text,      \* length of what the main loop prints
          Note,      \* length of what the handler prints, far below Cap
          Repeats,   \* ten keys in a row
          Limit,     \* LOGIN_FAIL_LIMIT
          MaxLines   \* bound on the lines entered and bytes received

ConsoleAssumption == Cap \in Nat \ {0} /\ Text \in Nat \ {0} /\ Note \in 1..Cap /\ Repeats \in Nat \ {0}
                     /\ Limit \in Nat \ {0} /\ MaxLines \in Nat

VARIABLES port,      \* the port g_log_func prints on
          ring, txe, \* bytes in each ring, its transmit interrupt enabled
          tabs, escs, \* keys in a row on each port
          at,        \* the port the main loop's text goes to
          todo,      \* bytes of it still to print
          waits,     \* it waits for the ring to drain
          isr,       \* bytes the handler has still to print
          logged, fails,
          wrong,     \* wrong passwords since the last login or end of a lockout
          slot,      \* the timer slots the console owns
          reset,     \* PB5, the reset line of the battery pack
          wish,      \* the last request to another part, not yet seen by it
          lines

Ports == {"uart7", "usart1"}
Slots == {"lock", "idle", "telemetry", "motor", "shifter", "batreset", "debug", "reboot"}
text == <<ring, txe, at, todo, waits, isr>>
keys == <<port, tabs, escs>>
session == <<logged, fails, wrong>>
vars == <<keys, text, session, slot, reset, wish, lines>>

Zero == [p \in Ports |-> 0]
Init == /\ port = "uart7" /\ ring = Zero /\ txe = [p \in Ports |-> FALSE]
        /\ tabs = Zero /\ escs = Zero /\ at = "uart7" /\ todo = 0 /\ waits = FALSE /\ isr = 0
        /\ logged = FALSE /\ fails = 0 /\ wrong = 0
        /\ slot = [s \in Slots |-> "none"] /\ reset = FALSE /\ wish = "none" /\ lines = 0

Running(s) == slot[s] = "run"
Started(s) == slot' = [slot EXCEPT ![s] = "run"]
Asks(w) == wish' = w

(***************************************************************************)
(* g_log_func[0]: the main loop.  A full ring makes it wait until the ring *)
(* is empty.                                                               *)
(***************************************************************************)
PrintOut == /\ todo > 0 /\ ~waits /\ isr = 0
            /\ IF ring[at] < Cap
               THEN /\ ring' = [ring EXCEPT ![at] = @ + 1] /\ todo' = todo - 1
                    /\ txe' = [txe EXCEPT ![at] = todo = 1]
                    /\ UNCHANGED waits
               ELSE /\ waits' = TRUE /\ txe' = [txe EXCEPT ![at] = TRUE]
                    /\ UNCHANGED <<ring, todo>>
         /\ UNCHANGED <<keys, at, isr, session, slot, reset, wish, lines>>

Drained == /\ waits /\ isr = 0 /\ ring[at] = 0 /\ waits' = FALSE
           /\ UNCHANGED <<keys, at, ring, txe, todo, isr, session, slot, reset, wish, lines>>

(* the same function called by the handler of the port                     *)
IsrPrint == /\ isr > 0 /\ ring[port] < Cap
            /\ ring' = [ring EXCEPT ![port] = @ + 1] /\ isr' = isr - 1
            /\ txe' = [txe EXCEPT ![port] = TRUE]
            /\ UNCHANGED <<keys, at, todo, waits, session, slot, reset, wish, lines>>

(* uart7_irq_handler and usart1_irq_handler: transmit                      *)
Transmit(p) == /\ isr = 0 /\ txe[p]
               /\ IF ring[p] = 0 THEN txe' = [txe EXCEPT ![p] = FALSE] /\ UNCHANGED ring
                                 ELSE ring' = [ring EXCEPT ![p] = @ - 1] /\ UNCHANGED txe
               /\ UNCHANGED <<keys, at, todo, waits, isr, session, slot, reset, wish, lines>>

(* ... and receive: ten ESC reset the controller, ten TAB take the console *)
(* to this port                                                            *)
Escape(p) == /\ tabs' = [tabs EXCEPT ![p] = 0]
             /\ IF escs[p] + 1 < Repeats
                THEN /\ escs' = [escs EXCEPT ![p] = @ + 1]
                     /\ UNCHANGED <<port, text, session, slot, reset, wish>>
                ELSE /\ escs' = Zero /\ port' = "uart7" /\ ring' = Zero
                     /\ txe' = [q \in Ports |-> FALSE] /\ todo' = 0 /\ waits' = FALSE /\ isr' = 0
                     /\ at' = "uart7" /\ logged' = FALSE /\ fails' = 0 /\ wrong' = 0
                     /\ slot' = [s \in Slots |-> "none"] /\ reset' = FALSE /\ wish' = "none"

Tabulator(p) == /\ escs' = [escs EXCEPT ![p] = 0]
                /\ IF tabs[p] + 1 < Repeats
                   THEN tabs' = [tabs EXCEPT ![p] = @ + 1] /\ UNCHANGED <<port, isr, waits>>
                   ELSE tabs' = [tabs EXCEPT ![p] = 0] /\ port' = p /\ isr' = Note /\ UNCHANGED waits
                /\ UNCHANGED <<ring, txe, at, todo, session, slot, reset, wish>>

Other(p) == /\ escs' = [escs EXCEPT ![p] = 0] /\ tabs' = [tabs EXCEPT ![p] = 0]
            /\ UNCHANGED <<port, text, session, slot, reset, wish>>

Receive(p) == /\ isr = 0 /\ lines < MaxLines /\ lines' = lines + 1
              /\ (Escape(p) \/ Tabulator(p) \/ Other(p))

(***************************************************************************)
(* login_handler                                                           *)
(***************************************************************************)
LimitLate == Limit + 1
LimitOf == Limit
Unlocked == slot["lock"] \in {"none", "out"}
FailsNow == IF slot["lock"] = "out" THEN 0 ELSE fails

Password(right) ==
    IF ~Unlocked
    THEN Started("lock") /\ UNCHANGED session
    ELSE IF right
    THEN /\ logged' = TRUE /\ fails' = 0 /\ wrong' = 0
         /\ slot' = [slot EXCEPT !["lock"] = "none"]
    ELSE /\ fails' = FailsNow + 1 /\ wrong' = (IF slot["lock"] = "out" THEN 1 ELSE wrong + 1)
         /\ slot' = [slot EXCEPT !["lock"] = IF FailsNow = LimitOf - 1 THEN "run" ELSE "none"]
         /\ UNCHANGED logged

Login == ~logged /\ (\E right \in BOOLEAN : Password(right)) /\ UNCHANGED <<reset, wish>>

(***************************************************************************)
(* Commands.  Each rearms the activity timer (Command).                    *)
(***************************************************************************)
Also(s) == slot' = [slot EXCEPT !["idle"] = "run", ![s] = "run"]
Only == slot' = [slot EXCEPT !["idle"] = "run"]

\* volume, region, wheelsize: the configuration is saved (DualRecord)
SetVolume == Only /\ Asks("save") /\ UNCHANGED <<logged, reset>>
SetRegion == Only /\ (Asks("save") \/ UNCHANGED wish) /\ UNCHANGED <<logged, reset>>
SetWheel == Only /\ (Asks("save") \/ UNCHANGED wish) /\ UNCHANGED <<logged, reset>>
\* bwritereg, breadreg, swritedata, sreadreg, then bwritedata and swritereg
BusRead == Only /\ (Asks("bus") \/ UNCHANGED wish) /\ UNCHANGED <<logged, reset>>
BusWrite == Only /\ (Asks("bus") \/ UNCHANGED wish) /\ UNCHANGED <<logged, reset>>
SetGear == Only /\ (Asks("bus") \/ UNCHANGED wish) /\ UNCHANGED <<logged, reset>>
\* shipping, batware and setoad ask the state machine, motorupdate and shiftware the update
Shipping == Only /\ Asks("state") /\ UNCHANGED <<logged, reset>>
Update == Only /\ Asks("update") /\ UNCHANGED <<logged, reset>>
\* factory-shipping sends its two messages and switches the power off
FactoryShipping == Only /\ Asks("off") /\ UNCHANGED <<logged, reset>>
\* battery: one second later the telemetry is printed
Battery == /\ IF slot["telemetry"] = "none" THEN Also("telemetry") ELSE Only
           /\ Asks("bus") /\ UNCHANGED <<logged, reset>>
\* shifterstatus: for an unknown shifter the slot is held and never started
ShifterStatus == /\ \/ Also("shifter")
                    \/ slot' = [slot EXCEPT !["idle"] = "run", !["shifter"] = "held"]
                 /\ Asks("bus") /\ UNCHANGED <<logged, reset>>
MotorStatus == Also("motor") /\ Asks("motor") /\ UNCHANGED <<logged, reset>>
Reboot == Also("reboot") /\ UNCHANGED <<logged, reset, wish>>
BatReset == reset' = TRUE /\ Also("batreset") /\ UNCHANGED <<logged, wish>>
\* shiftdebug: its timer keeps restarting itself
ShiftDebug == Also("debug") /\ UNCHANGED <<logged, reset, wish>>
Logout == logged' = FALSE /\ Only /\ UNCHANGED <<reset, wish>>
\* ver, show, help, the log, the counters: text only
Version == Only /\ UNCHANGED <<logged, reset, wish>>
Show == Only /\ UNCHANGED <<logged, reset, wish>>

Command == /\ logged
           /\ \/ SetVolume \/ SetRegion \/ SetWheel \/ BusRead \/ BusWrite \/ SetGear
              \/ Shipping \/ Update \/ FactoryShipping \/ Battery \/ ShifterStatus
              \/ MotorStatus \/ Reboot \/ BatReset \/ ShiftDebug \/ Logout \/ Version \/ Show
           /\ UNCHANGED <<fails, wrong>>

Line == /\ todo = 0 /\ isr = 0 /\ lines < MaxLines /\ lines' = lines + 1
        /\ (Login \/ Command)
        /\ todo' = Text /\ at' = port /\ UNCHANGED <<keys, ring, txe, waits, isr>>

(***************************************************************************)
(* Timers                                                                  *)
(***************************************************************************)
(* console_battery_dump and motor_get_timer_cb: the slot is released (the   *)
(* text they print is left out)                                            *)
Dump(s) == /\ Running(s) /\ slot' = [slot EXCEPT ![s] = "none"]
           /\ UNCHANGED <<keys, text, session, reset, wish, lines>>
(* bat_reset_release_cb                                                    *)
Release == /\ Running("batreset") /\ slot' = [slot EXCEPT !["batreset"] = "none"]
           /\ reset' = FALSE
           /\ UNCHANGED <<keys, text, session, wish, lines>>
Expire(s) == /\ Running(s) /\ slot' = [slot EXCEPT ![s] = "out"]
             /\ UNCHANGED <<keys, text, session, reset, wish, lines>>
Restart == /\ Running("reboot")
           /\ slot' = [s \in Slots |-> "none"] /\ port' = "uart7" /\ ring' = Zero
           /\ txe' = [p \in Ports |-> FALSE] /\ tabs' = Zero /\ escs' = Zero /\ at' = "uart7" /\ todo' = 0
           /\ waits' = FALSE /\ isr' = 0 /\ logged' = FALSE /\ fails' = 0 /\ wrong' = 0
           /\ reset' = FALSE /\ wish' = "none" /\ UNCHANGED lines
(* the other part has seen the request                                     *)
Seen == /\ wish # "none" /\ wish' = "none"
        /\ UNCHANGED <<keys, text, session, slot, reset, lines>>

Timer == isr = 0 /\ ((\E s \in {"telemetry", "motor", "shifter"} : Dump(s)) \/ Release \/ Restart)
Quiet == isr = 0 /\ (Expire("lock") \/ Expire("idle"))

Next == \/ PrintOut \/ Drained \/ IsrPrint
        \/ \E p \in Ports : Transmit(p) \/ Receive(p)
        \/ Line \/ Timer \/ Quiet \/ Seen

(* The main loop runs, an enabled interrupt is taken, a timer runs out.    *)
Spec == /\ Init /\ [][Next]_vars
        /\ WF_vars(PrintOut) /\ WF_vars(Drained) /\ WF_vars(IsrPrint) /\ WF_vars(Timer)
        /\ \A p \in Ports : WF_vars(Transmit(p))

----------------------------------------------------------------------------
TypeOK == /\ port \in Ports /\ at \in Ports /\ ring \in [Ports -> 0..Cap] /\ txe \in [Ports -> BOOLEAN]
          /\ tabs \in [Ports -> 0..Repeats - 1] /\ escs \in [Ports -> 0..Repeats - 1]
          /\ todo \in 0..Text /\ waits \in BOOLEAN /\ isr \in 0..Note
          /\ logged \in BOOLEAN /\ fails \in 0..Limit /\ wrong \in 0..Limit
          /\ slot \in [Slots -> {"none", "held", "run", "out"}] /\ reset \in BOOLEAN
          /\ wish \in {"none", "save", "bus", "state", "update", "off", "motor"}
          /\ lines \in 0..MaxLines

(* After LOGIN_FAIL_LIMIT wrong passwords no line opens the console until  *)
(* the lockout's timer has run out (login_handler), however many lines,    *)
(* logouts and other timers come between.                                  *)
OpensInTime == ~logged /\ logged' => wrong < Limit \/ slot["lock"] = "out"
LockoutHolds == [][OpensInTime]_vars

(* Printing comes to an end, and the reset line of the pack is let go, but *)
(* for text the handler prints into a full ring.                           *)
Jammed == isr > 0 /\ ring[port] = Cap
AtRest == Jammed \/ (todo = 0 /\ isr = 0 /\ ~reset)
ComesToRest == []<>AtRest

(* "busy-waits ... until the ISR has fully drained the FIFO before         *)
(* resuming" (console_printf): whoever prints, the text gets out.          *)
PrintEnds == []<>(todo = 0 /\ isr = 0)
=============================================================================
