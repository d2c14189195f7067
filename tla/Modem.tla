-------------------------------- MODULE Modem --------------------------------
(***************************************************************************)
(* The GSM modem (mainware/src/modem.c): the AT command engine, the steps  *)
(* that walk a list of commands, the outer machine that powers the module  *)
(* on, reads the text messages, reports and powers it off again, and the   *)
(* scheduler of the reports which starts it.                               *)
(*                                                                         *)
(* The command lists are in flash and not in the source: of a command only *)
(* its kind is kept (how many lines the answer has) and what its callback  *)
(* can return.  Texts are left out.  A slot is held or free: a wait lasts  *)
(* as long as it likes.  The slots the power-off step releases are those   *)
(* of the engine; the slot of its guard, declared twice, is one.           *)
(***************************************************************************)
EXTENDS Integers

CONSTANTS Retries,    \* tries of a command, at least one
          Messages,   \* bound: text messages the SIM card may hold
          MaxEvents   \* bound: requests, SIM changes, overlong answers

ModemAssumption == /\ Retries \in Nat \ {0} /\ Messages \in Nat
                          /\ MaxEvents \in Nat

VARIABLES sm,      \* the outer state, also the latch of the reports
          retried, \* sm[2]: the SIM card was read, or tried twice
          flags,   \* sm[8]: what is to be sent
          sub,     \* the substate of the step that runs
          idx,     \* its command
          at,      \* the engine: 0 idle, 1 send, 2 wait
          cmd,     \* the command's kind and the tries it has left
          held,    \* the slots: engine's interval, its timeout, the guard
          count,   \* commands of the handshake, 4 until the model is known
          used,    \* text messages found
          read,    \* text messages read
          info,    \* the reports' state, 0x200000E5
          pend,    \* ctx+0x3C8: the alarm wants a message sent
          rails,   \* the module's supply is on
          sim,     \* PE10: a SIM card is in its holder
          events

engine == <<at, cmd>>
step   == <<sub, idx>>
sms    == <<used, read>>
asked  == <<info, pend>>
env    == <<sim, events>>
vars   == <<sm, retried, flags, step, engine, held, count, sms, asked, rails, env>>

Idle == 0  PowerOn == 1  SmsInit == 2  SmsRead == 3  SmsWrite == 4
CtxActivate == 5  CtxDeactivate == 6  Ping == 7  Message == 8
Location == 9  PowerOff == 10

Sends == {"ping", "message", "location"}
Slots == {"interval", "timeout", "guard"}

Init == /\ sm = 0 /\ retried = FALSE /\ flags = {} /\ sub = 0 /\ idx = 0
        /\ at = 0 /\ cmd = [kind |-> "reply", left |-> 0]
        /\ held = {}
        /\ count = 4 /\ used = 0 /\ read = 0 /\ info \in {0, 1} /\ pend = FALSE
        /\ rails = FALSE /\ sim = TRUE /\ events = 0

\* Commands of each step's list: the handshake's length depends on the model.
Commands(s) == CASE s = PowerOn -> count
                 [] s = SmsInit -> 3        [] s = SmsWrite -> 2
                 [] s = Location -> 9       [] s = CtxDeactivate -> 1
                 [] OTHER -> 4

(***************************************************************************)
(* The engine.  r is what the call returns: 1 busy, 0 done, 2 done and the *)
(* next command is to be skipped, 3 failed.                                *)
(***************************************************************************)
\* Which callbacks make the engine skip: those that find the PIN, the text
\* mode, the context or the servers already as they are to be.
Skips == \/ sm = PowerOn /\ idx = 5
         \/ sm = SmsInit /\ idx = 0
         \/ sm \in {CtxActivate, Location}

Done == IF Skips THEN {0, 2} ELSE {0}

\* A delay sends nothing; a list has as many lines as come in time.
Kinds == IF sm = SmsRead THEN {"list", "reply"} ELSE {"delay", "list", "reply"}

Begin == /\ at = 0 /\ at' = 1 /\ UNCHANGED events
         /\ \E k \in Kinds :
                cmd' = [kind |-> k,
                        left |-> CASE k = "delay" -> 0 [] k = "list" -> 1
                                   [] k = "reply" -> Retries]

\* Nothing is left to try: a delay is over, a command has failed.
GivesUp(r) == /\ at = 1 /\ "interval" \in held /\ cmd.left = 0
              /\ at' = 0 /\ r = (IF cmd.kind = "delay" THEN 0 ELSE 3)
              /\ UNCHANGED <<cmd, events>>

Transmit == /\ at = 1 /\ "interval" \in held /\ cmd.left > 0 /\ at' = 2
            /\ cmd' = [cmd EXCEPT !.left = @ - 1] /\ UNCHANGED events

\* The expected lines came and the callback was content.
Answered(r) == /\ at = 2 /\ at' = 0 /\ r \in Done
               /\ UNCHANGED <<cmd, events>>

\* Mutant: a command that was not answered has all its tries again.
AgainForever == /\ at = 2 /\ at' = 1 /\ UNCHANGED events
                /\ cmd' = [cmd EXCEPT !.left = Retries]

\* Another text, a callback that was not content, too many characters, or
\* no answer in time: the command is sent again.
Again == at = 2 /\ at' = 1 /\ UNCHANGED <<cmd, events>>

\* More characters than the buffer holds after the answer, in one turn: the
\* state is counted down twice, as a byte.
Overlong(r) == /\ at = 2 /\ events < MaxEvents /\ events' = events + 1
               /\ \/ at' = 255 /\ r \in Done
                  \/ at' = 0 /\ r = 1
               /\ UNCHANGED cmd

Lost == at = 255 /\ UNCHANGED <<engine, events>>

Exec(r) == \/ r = 1 /\ (Begin \/ Transmit \/ Again \/ Lost)
           \/ GivesUp(r) \/ Answered(r) \/ Overlong(r)

(***************************************************************************)
(* A step walks its list; r is its result, which is never 2.               *)
(***************************************************************************)
Walk(r) ==
    \/ /\ sub = 0 /\ sub' = 1 /\ idx' = 0 /\ r = 1
       /\ UNCHANGED <<engine, events>>
    \/ /\ sub = 1
       /\ \E got \in 0 .. 3 :
              /\ Exec(got)
              /\ IF got \in {0, 2}
                 THEN LET next == idx + (IF got = 0 THEN 1 ELSE 2)
                      IN  idx' = next /\ r = (IF next < Commands(sm) THEN 1 ELSE 0)
                 ELSE idx' = idx /\ r = got
       /\ sub' = IF r = 1 THEN 1 ELSE 0

(***************************************************************************)
(* POWERON: the supply, the pulse on the power key, the handshake.         *)
(***************************************************************************)
NoSim == /\ sm = PowerOn /\ ~sim /\ sm' = Idle
         /\ UNCHANGED <<retried, flags, step, engine, held, count, sms, asked, rails, env>>

Supply == /\ sm = PowerOn /\ sim /\ sub = 0
          /\ rails' = TRUE /\ idx' = 0 /\ sub' = 1
          /\ held' = held \cup {"interval", "timeout"}
          /\ UNCHANGED <<sm, retried, flags, engine, count, sms, asked, env>>

PowerKey == /\ sm = PowerOn /\ sim /\ sub \in {1, 2} /\ "timeout" \in held
            /\ sub' = sub + 1
            /\ UNCHANGED <<sm, retried, flags, idx, engine, held, count, sms, asked, rails, env>>

\* LARA has 14 commands, SARA 13; another model ends the handshake early.
Model == IF count = 4 /\ idx >= 2 THEN {4, 13, 14} ELSE {count}

\* What the alarm asked for and, once registered, where the bike is.
ToSend == {(IF pend THEN {"message"} ELSE {}) \cup f : f \in {{}, {"location"}}}

Registered ==
    /\ sm' = SmsInit /\ retried' = TRUE /\ used' = 0 /\ read' = 0
    /\ flags' \in ToSend /\ pend' = FALSE

\* The results of the handshake: the SIM card is tried twice, once per boot.
HandshakeFails ==
    /\ sm' = PowerOff /\ UNCHANGED <<flags, sms, pend>>
    /\ retried' = IF idx \in {9, 10} THEN TRUE ELSE retried

Handshake ==
    /\ sm = PowerOn /\ sim /\ sub = 3 /\ UNCHANGED <<held, info, rails, sim>>
    /\ \E got \in 0 .. 3 :
           /\ Exec(got) /\ count' \in Model
           /\ LET next == idx + (IF got = 0 THEN 1 ELSE 2)
                  ends == got = 3 \/ (got # 1 /\ next >= count')
              IN  /\ idx' = IF got \in {0, 2} THEN next ELSE idx
                  /\ sub' = IF ends THEN 0 ELSE 3
                  /\ IF ~ends THEN UNCHANGED <<sm, retried, flags, sms, pend>>
                     ELSE IF got = 3 THEN HandshakeFails ELSE Registered

(***************************************************************************)
(* The text messages.                                                      *)
(***************************************************************************)
Rest(s) == sm = s /\ UNCHANGED <<retried, held, count, info, rails, sim>>

Report == IF flags = {} THEN PowerOff ELSE CtxActivate

\* The last command of SMS_INIT asks for the number of messages.
InitSms == /\ Rest(SmsInit) /\ UNCHANGED <<flags, read, pend>>
           /\ \E r \in {0, 1, 3} :
                  /\ Walk(r)
                  /\ used' \in IF idx = 2 /\ idx' > 2 THEN 0 .. Messages ELSE {used}
                  /\ sm' = CASE r = 1 -> sm [] r = 3 -> PowerOff
                             [] OTHER -> IF used' = 0 THEN Report ELSE SmsRead

\* The second command of SMS_READ reads one message and acts on it: the
\* reading is counted when the command is sent, up to the number found.
Interpreted == {flags, flags \cup {"ping"}, flags \cup {"location"},
                flags \ {"location"}}

ReadSms == /\ Rest(SmsRead) /\ UNCHANGED <<used, pend>>
           /\ \E r \in {0, 1, 3} :
                  /\ Walk(r)
                  /\ read' = IF idx = 1 /\ at = 1 /\ at' = 2 /\ read < used
                             THEN read + 1 ELSE read
                  /\ flags' \in IF idx = 1 /\ idx' > 1 THEN Interpreted ELSE {flags}
                  /\ sm' = CASE r = 1 -> sm [] r = 0 -> SmsWrite
                             [] OTHER -> PowerOff

WriteSms == /\ Rest(SmsWrite) /\ UNCHANGED <<flags, sms, pend>>
            /\ \E r \in {0, 1, 3} :
                   /\ Walk(r)
                   /\ sm' = CASE r = 1 -> sm [] r = 3 -> PowerOff
                              [] OTHER -> IF read < used THEN SmsRead ELSE Report

(***************************************************************************)
(* The reports.                                                            *)
(***************************************************************************)
Sent(f, r) == IF r = 1 THEN flags ELSE flags \ {f}

Activate == /\ Rest(CtxActivate) /\ UNCHANGED <<flags, sms, pend>>
            /\ \E r \in {0, 1, 3} :
                   /\ Walk(r)
                   /\ sm' = CASE r = 1 -> sm [] r = 3 -> PowerOff
                              [] OTHER -> IF "ping" \in flags THEN Ping
                                          ELSE IF "message" \in flags THEN Message
                                          ELSE IF "location" \in flags THEN Location
                                          ELSE CtxDeactivate

Send(s, f) == /\ Rest(s) /\ UNCHANGED <<sms, pend>>
              /\ \E r \in {0, 1, 3} :
                     /\ Walk(r) /\ flags' = Sent(f, r)
                     /\ sm' = CASE r = 1 -> sm [] r = 0 -> CtxActivate
                                [] OTHER -> CtxDeactivate

Deactivate == /\ Rest(CtxDeactivate) /\ UNCHANGED <<flags, sms, pend>>
              /\ \E r \in {0, 1, 3} :
                     Walk(r) /\ sm' = IF r = 1 THEN sm ELSE PowerOff

(***************************************************************************)
(* POWEROFF: one command, then the supply once it has fallen or after 2 s. *)
(***************************************************************************)
Off == sm = PowerOff /\ UNCHANGED <<flags, count, sms, asked, sim>>

ShutDown == /\ Off /\ sub \in {0, 1} /\ UNCHANGED <<sm, retried, rails>>
            /\ UNCHANGED held
            /\ IF sub = 0 THEN sub' = 1 /\ idx' = 0 /\ UNCHANGED <<engine, events>>
               ELSE \E got \in {0, 1, 3} :
                        /\ Exec(got) /\ sub' = IF got = 1 THEN 1 ELSE 2
                        /\ idx' = IF got = 0 THEN 1 ELSE 0

\* Mutant: the step waits for the guard only.
DischargeGuard == /\ Off /\ sub = 2 /\ UNCHANGED <<sm, retried, rails, idx, engine, events>>
                  /\ held' = {"guard"} /\ sub' = IF "guard" \in held THEN 3 ELSE 2

\* The supply has fallen or the guard, taken in the first turn, has run out.
Discharge == /\ Off /\ sub = 2 /\ UNCHANGED <<sm, retried, rails, idx, engine, events>>
             /\ \/ held' = {} /\ sub' = 3
                \/ held' = {"guard"} /\ sub' = 2

Cut == /\ Off /\ sub = 3 /\ rails' = FALSE /\ sub' = 0
       /\ sm' = IF retried THEN Idle ELSE PowerOn
       /\ retried' = TRUE /\ UNCHANGED <<idx, engine, held, events>>

(***************************************************************************)
(* The scheduler of the reports, and what comes from outside.              *)
(***************************************************************************)
\* The latch starts a modem that is idle; one that is busy goes on.
Latch == sm' = IF sm = Idle THEN PowerOn ELSE sm

InfoStep == /\ UNCHANGED <<retried, flags, step, engine, held, count, sms, pend, rails, env>>
            /\ \/ info \in {0, 1} /\ Latch /\ info' = 2
               \/ info = 1 /\ info' = 3 /\ UNCHANGED sm   \* not due yet
               \/ info = 2 /\ sm = Idle /\ info' = 3 /\ UNCHANGED sm

\* clear_flag_00e5 from the alarm, the app or the console.
Request == /\ events < MaxEvents /\ events' = events + 1 /\ info' = 0
           /\ pend' \in {pend, TRUE}
           /\ UNCHANGED <<sm, retried, flags, step, engine, held, count, sms, rails, sim>>

SimChange == /\ events < MaxEvents /\ events' = events + 1 /\ sim' = ~sim
             /\ UNCHANGED <<sm, retried, flags, step, engine, held, count, sms, asked, rails>>

Step == \/ NoSim \/ Supply \/ PowerKey \/ Handshake
        \/ InitSms \/ ReadSms \/ WriteSms
        \/ Activate \/ Send(Ping, "ping") \/ Send(Message, "message")
        \/ Send(Location, "location") \/ Deactivate
        \/ ShutDown \/ Discharge \/ Cut

Next == Step \/ InfoStep \/ Request \/ SimChange

\* The main loop calls both machines in every turn and timers run out.
Fairness == WF_vars(Step) /\ WF_vars(InfoStep)
Spec == Init /\ [][Next]_vars /\ Fairness

(***************************************************************************)
(* Properties.                                                             *)
(***************************************************************************)
\* Every variable has its type.
TypeOK == /\ sm \in 0 .. 10 /\ retried \in BOOLEAN /\ flags \subseteq Sends
          /\ sub \in 0 .. 3 /\ idx \in 0 .. 15 /\ at \in {0, 1, 2, 255}
          /\ cmd.left \in 0 .. Retries
          /\ held \subseteq Slots
          /\ count \in {4, 13, 14} /\ used \in 0 .. Messages /\ read \in 0 .. used
          /\ info \in 0 .. 3 /\ events \in 0 .. MaxEvents

\* A modem that came to rest by itself draws no current and holds no timer,
\* and its engine is ready: only a SIM card taken out during the handshake
\* leaves it powered, and then the next start goes on where it stopped
\* (modem.c:1595, modem.c:670).
RestIsSafe == sm = Idle /\ sub = 0 => ~rails /\ held = {} /\ at \in {0, 255}

\* Whatever the module answers, reads or fails to answer, the modem comes
\* to rest again (modem.c:1680, modem.c:1751).  Not covered is the engine's
\* state that was counted down twice.
AtRest == sm = Idle \/ at = 255
ComesToRest == []<>AtRest
=============================================================================
