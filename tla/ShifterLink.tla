----------------------------- MODULE ShifterLink -----------------------------
(***************************************************************************)
(* The shifter service of mainware/src/shifter.c and the shifter's answers *)
(* to it (shifterware/src/modbus_dispatch.c and image.c).  A pass of the   *)
(* main loop is three actions in order: the link monitor with the          *)
(* transaction pump, the control machine and the update machine; the       *)
(* timers and the rest of the bike come between two passes.                *)
(*                                                                         *)
(* A request is its kind and block.  Gears, positions and the words that   *)
(* are only displayed are left out; a read whose answer decides nothing is *)
(* "poll", a write "set".  The shifter has no answer but the right one.    *)
(***************************************************************************)
EXTENDS Integers, Sequences

CONSTANTS Blocks,     \* blocks of the update, 0x20 bytes each, the last partial or not
          Depth,      \* capacity of the queue, 14 in the code
          MaxErrors,  \* failed transactions before the queue is dropped, 5
          Asks,       \* identifications asked for by each machine, 6, 3 and 5
          Retries,    \* of the update, 15 in the code
          Polls,      \* reads of the start-up sequence, 9 in the code
          MaxEvents   \* bound: faults and outside events

ASSUME ShifterAssumption ==
  /\ {Blocks, Depth, MaxErrors, Asks, Polls} \subseteq Nat \ {0}
  /\ Blocks > 1 /\ {Retries, MaxEvents} \subseteq Nat

VARIABLES pc,        \* the part of the pass that runs next
          q, req,    \* the bus queue and the request on the bus
          unread,    \* an answer received and not yet unpacked
          result,    \* of the pump in this pass: 0, 1 answered, 2 failed
          errors, lost,              \* failures in a row, flag 0x1000
          active, supply,            \* the link may be served
          ctl, stay, seq, asked,     \* the control machine
          tm,                        \* timers
          upd, armed, outcome, off, again, asks, reads,  \* the update machine
          id, ver, ans,              \* what the shifter told
          power, mode, first, rem, wp, part, slot, run, exact,  \* the shifter
          events

link   == <<q, req, unread, result, errors>>
contv  == <<ctl, stay, seq, asked>>
updv   == <<upd, armed, outcome, off, again, asks, reads>>
told   == <<id, ver, ans>>
ota    == <<mode, first, rem, wp, part>>
device == <<power, ota, slot, run>>
vars   == <<pc, link, lost, active, supply, contv, tm, updv, told,
            device, exact, events>>

Timers == {"on", "off", "poll", "gear", "zero", "seq", "upd"}
Kinds  == {"id", "poll", "set", "erase", "block", "sum", "reset", "ver"}
Index  == 0..Blocks - 1
Image  == [i \in Index |-> i]
Erased == [i \in Index |-> -1]
None   == <<"none", 0>>

Init ==
  /\ pc = "pump" /\ q = <<>> /\ req = None /\ unread = None /\ result = 0
  /\ errors = 0 /\ lost = FALSE /\ active = FALSE /\ supply = TRUE
  /\ stay = FALSE /\ seq = 0 /\ asked = 0
  /\ tm = [t \in Timers |-> "none"]
  /\ armed = FALSE /\ outcome = 0 /\ off = 0 /\ again = 0 /\ asks = 0 /\ reads = 0
  /\ id = FALSE /\ ver = FALSE /\ ans = "none"
  /\ power = FALSE /\ mode = 0 /\ first = TRUE /\ rem = 0 /\ wp = 0 /\ part = FALSE
  /\ slot = Erased /\ run = "old" /\ exact \in BOOLEAN /\ events = 0
  /\ ctl \in {3, 5} /\ upd = IF ctl = 3 THEN 0 ELSE 2  \* it is switched on, or updated

\* modbus_shift_submit: a full queue refuses, which is logged.
Push(kinds, queue) ==
  LET all == queue \o [i \in DOMAIN kinds |-> <<kinds[i], off>>]
  IN IF Len(all) > Depth THEN SubSeq(all, 1, Depth) ELSE all

Start(t)   == [tm EXCEPT ![t] = "run"]
Release(t) == [tm EXCEPT ![t] = "none"]
Idle(t)    == tm[t] = "idle"
Fault == events < MaxEvents /\ events' = events + 1
-----------------------------------------------------------------------------
(* The shifter. *)

Forget == mode' = 0 /\ first' = TRUE /\ wp' = 0 /\ part' = FALSE /\ rem' = 0

\* It starts: the boot loader installs a complete image.
Boots == /\ Forget
         /\ IF slot = Image THEN run' = "new" /\ slot' = Erased
                            ELSE UNCHANGED <<run, slot>>

\* rx_reset_ota_state
Give == Forget /\ UNCHANGED <<slot, run>>
Keep == UNCHANGED <<ota, slot, run>>

\* cmd_82_fw_page: the block goes where the pointer is, whatever its offset;
\* the packet that finds less than a block left ends the long frames.
Page(n) ==
  LET last == ~first /\ rem <= (IF exact THEN 0 ELSE 1)
  IN /\ slot' = IF wp \in Index
                THEN [slot EXCEPT ![wp] = IF @ = -1 THEN n ELSE -2] ELSE slot
     /\ rem' = IF first THEN Blocks - 1 ELSE IF last THEN rem ELSE rem - 1
     /\ first' = last /\ mode' = (IF last THEN 0 ELSE 1)
     /\ wp' = (IF last \/ wp = Blocks THEN wp ELSE wp + 1)
     /\ part' = FALSE /\ UNCHANGED run

\* modbus_rx_poll and modbus_dispatch_pdu: a request that is answered.
Serve(r, n) ==
  \/ /\ mode = 1 /\ ~part /\ r = "block" /\ Page(n)
  \/ /\ mode = 0 /\ r = "erase" /\ slot' = Erased /\ mode' = 1
     /\ UNCHANGED <<first, rem, wp, part, run>>
  \/ /\ mode = 0 /\ r = "sum"         \* image_apply
     /\ IF slot = Image THEN Boots ELSE Forget /\ slot' = Erased /\ UNCHANGED run
  \/ /\ mode = 0 /\ r \in {"id", "poll", "set", "reset", "ver"} /\ Keep

\* A request that reaches it and is not answered: a short frame among long
\* ones is the beginning of one and swallows what follows, a long one among
\* short ones is not for it.
Swallow(r) ==
  \/ mode = 1 /\ (r # "block") /\ part' = TRUE /\ UNCHANGED <<mode, first, rem, wp, slot, run>>
  \/ mode = 1 /\ part /\ Give
  \/ mode = 0 /\ r = "block" /\ Keep

GiveUp ==      \* the time for the rest of a long frame is over
  /\ power /\ mode = 1 /\ part /\ Give
  /\ UNCHANGED <<pc, link, lost, active, supply, contv, tm, updv, told,
                 power, exact, events>>
-----------------------------------------------------------------------------
(* modbus_shifter_link_monitor and shifter_modbus_pump. *)

CountOn(r) ==  \* mutant: the error counter does not stop at its limit
  /\ result' = r /\ errors' = IF r = 2 THEN errors + 1 ELSE 0
  /\ lost' = (errors >= MaxErrors) /\ UNCHANGED q
Count(r) ==
  /\ result' = r
  /\ \/ r = 0 /\ UNCHANGED <<errors, lost, q>>
     \/ r = 1 /\ errors' = 0 /\ lost' = FALSE /\ UNCHANGED q
     \/ /\ r = 2 /\ errors' = IF errors > MaxErrors THEN errors ELSE errors + 1
        /\ IF errors >= MaxErrors THEN q' = <<>> /\ lost' = TRUE
                                  ELSE UNCHANGED <<q, lost>>

\* shifter_response_unpack, a pass after the answer was received.  The check
\* is answered before the shifter restarts, so a right image is running.
Unpack ==
  /\ unread # None /\ unread' = None /\ Count(0)
  /\ id' = (id \/ unread[1] = "id") /\ ver' = (ver \/ unread[1] = "ver")
  /\ ans' = IF unread[1] = "sum" THEN (IF unread[2] = 1 THEN "ok" ELSE "bad") ELSE ans
  /\ UNCHANGED <<req, device, events>>

Pop == /\ unread = None /\ req = None
       /\ IF q = <<>> THEN Count(0) /\ UNCHANGED req
          ELSE /\ req' = Head(q) /\ q' = Tail(q) /\ result' = 0
               /\ UNCHANGED <<errors, lost>>
       /\ UNCHANGED <<unread, told, device, events>>

Answered ==
  /\ req # None /\ power /\ Serve(req[1], req[2]) /\ Count(1)
  /\ unread' = (IF req[1] \in {"id", "poll", "sum", "ver"}
                THEN <<req[1], IF slot = Image THEN 1 ELSE 0>> ELSE None)
  /\ req' = None /\ UNCHANGED <<told, power, events>>

\* No answer in 1.5 s: lost on the way there or back, not for this shifter,
\* or no shifter at all.
Silent ==
  /\ req # None /\ req' = None /\ Count(2)
  /\ \/ power /\ Swallow(req[1]) /\ UNCHANGED events
     \/ power /\ Fault /\ (Serve(req[1], req[2]) \/ Keep)
     \/ ~power /\ Keep /\ UNCHANGED events
  /\ UNCHANGED <<unread, told, power>>

Waiting == req # None /\ Count(0) /\ UNCHANGED <<req, unread, told, device, events>>

Monitor ==
  /\ pc = "pump" /\ pc' = "control"
  /\ IF supply /\ active THEN Unpack \/ Pop \/ Answered \/ Silent \/ Waiting
     ELSE /\ result' = 0
          /\ UNCHANGED <<q, req, unread, errors, lost, told, device, events>>
  /\ UNCHANGED <<active, supply, contv, tm, updv, exact>>
-----------------------------------------------------------------------------
(* shifter_control_step.  Do(s, sent, t): next step, requests and timers.  *)

Do(s, sent, t) == ctl' = s /\ q' = Push(sent, q) /\ tm' = t
Same == UNCHANGED <<stay, seq, asked, lost, active, power, ota, slot, run>>

AskId == ctl = 0 /\ Do(4, <<"id">>, Start("on")) /\ Same

PowerOn ==
  /\ ctl = 3 /\ stay' = TRUE
  /\ \/ /\ tm["on"] = "none" /\ Do(3, <<>>, Start("on")) /\ power' = TRUE
        /\ IF power THEN Keep ELSE Boots
        /\ UNCHANGED <<seq, asked, lost, active>>
     \/ /\ Idle("on") /\ Do(0, <<>>, tm) /\ active' = TRUE
        /\ UNCHANGED <<seq, asked, lost, device>>

AwaitIdForever ==  \* mutant: the questions are not counted
  /\ ctl = 4
  /\ \/ /\ id /\ lost' = FALSE /\ (Do(7, <<>>, Start("on")) \/ Do(8, <<>>, Start("on")))
     \/ ~id /\ Idle("on") /\ Do(0, <<>>, tm) /\ UNCHANGED lost
  /\ UNCHANGED <<asked, stay, seq, active, device>>
AwaitId ==
  /\ ctl = 4
  /\ \/ /\ id /\ lost' = FALSE /\ (Do(7, <<>>, Start("on")) \/ Do(8, <<>>, Start("on")))
        /\ UNCHANGED asked
     \/ /\ ~id /\ Idle("on") /\ asked < Asks
        /\ asked' = asked + 1 /\ Do(0, <<>>, tm) /\ UNCHANGED lost
     \/ /\ ~id /\ Idle("on") /\ asked >= Asks
        /\ lost' = TRUE /\ Do(17, <<>>, tm) /\ UNCHANGED asked
  /\ UNCHANGED <<stay, seq, active, device>>

\* 9 while the gears are changed by speed, 11 while they are by hand.
Known == /\ ctl = 6 /\ Idle("on") /\ Same
         /\ \E by \in {9, 11} : Do(by, <<>>, Release("on"))

\* shifter_seq_status_poll_step: one read per expiry of its timer.
ReadAll ==
  /\ ctl = 7 /\ UNCHANGED <<stay, asked, lost, active, device>>
  /\ \/ tm["seq"] = "none" /\ Do(7, <<>>, Start("seq")) /\ seq' = 0
     \/ Idle("seq") /\ seq < Polls /\ Do(7, <<"poll">>, Start("seq")) /\ seq' = seq + 1
     \/ /\ Idle("seq") /\ seq = Polls
        /\ Do(6, <<>>, [tm EXCEPT !["seq"] = "none", !["on"] = "run"]) /\ seq' = 0

ReadMt == ctl = 8 /\ Do(6, <<"poll", "poll">>, Start("on")) /\ Same

\* The gear is read back every minute; a gear that is not the one asked for
\* is taken over (9) or sent again (11).
Drive ==
  /\ ctl \in {9, 11} /\ Same
  /\ LET sent == IF Idle("poll") THEN <<"poll">> ELSE <<>>
         t    == IF tm["poll"] = "run" THEN tm ELSE Start("poll")
     IN \/ Do(ctl, sent, t) /\ UNCHANGED events
        \/ Fault /\ Do(20 - ctl, sent, t)                 \* by speed, by hand
        \/ ctl = 9 /\ Fault /\ Do(10, sent, t)            \* the speed asks for a gear
        \/ ctl = 11 /\ Fault /\ Do(11, sent \o <<"set">>, [t EXCEPT !["poll"] = "none"])

Change ==
  /\ ctl = 10 /\ stay' \in {stay, FALSE} /\ Do(12, <<"set">>, Release("poll"))
  /\ UNCHANGED <<seq, asked, lost, active, device>>

Changed ==
  /\ ctl = 12 /\ Same
  /\ \/ tm["gear"] = "none" /\ Do(12, <<>>, Start("gear"))
     \/ Idle("gear") /\ Do(IF stay THEN 9 ELSE 17, <<>>, Release("gear"))

Calibration ==
  /\ Same
  /\ \/ ctl = 13 /\ Do(14, <<"set">>, Start("zero"))
     \/ ctl = 14 /\ Idle("zero") /\ Do(15, <<"set", "set">>, Start("zero"))
     \/ ctl = 15 /\ Idle("zero") /\ Do(16, <<"poll">>, Start("zero"))
     \/ ctl = 16 /\ Idle("zero")
        /\ (Do(17, <<"set", "set">>, Release("zero"))
              \/ Do(17, <<"set", "set", "set">>, Release("zero")))

PowerOff ==
  /\ ctl = 17
  /\ \/ tm["off"] = "none" /\ Do(17, <<>>, Start("off")) /\ UNCHANGED <<active, device>>
     \/ /\ Idle("off") /\ Do(5, <<>>, [tm EXCEPT !["off"] = "none", !["on"] = "none"])
        /\ active' = FALSE /\ power' = FALSE /\ Forget /\ UNCHANGED <<slot, run>>
  /\ UNCHANGED <<stay, seq, asked, lost>>

Await ==
  /\ \/ ctl = 5
     \/ ctl = 3 /\ tm["on"] = "run"
     \/ ctl = 4 /\ ~id /\ ~Idle("on")
     \/ ctl = 6 /\ ~Idle("on")
     \/ ctl = 7 /\ tm["seq"] = "run"
     \/ ctl = 12 /\ tm["gear"] = "run"
     \/ ctl \in 14..16 /\ ~Idle("zero")
     \/ ctl = 17 /\ tm["off"] = "run"
  /\ Do(ctl, <<>>, tm) /\ (IF ctl = 3 THEN stay' = TRUE ELSE UNCHANGED stay)
  /\ UNCHANGED <<seq, asked, lost, active, device>>

Control ==
  /\ pc = "control" /\ pc' = "update"
  /\ \/ (AskId \/ PowerOn \/ AwaitId \/ Known \/ ReadAll \/ ReadMt) /\ UNCHANGED events
     \/ Drive
     \/ (Change \/ Changed \/ Calibration \/ PowerOff \/ Await) /\ UNCHANGED events
  /\ UNCHANGED <<req, unread, result, errors, supply, updv, told, exact>>
-----------------------------------------------------------------------------
(* shifter_update_sm_step.  Go(u, sent, t): next state, requests, timers.  *)

Go(u, sent, t) == upd' = u /\ q' = Push(sent, q) /\ tm' = t
Rest == UNCHANGED <<req, unread, armed, outcome, off, again, asks, told, active, device>>
U == Idle("upd")

Arm == /\ upd = 1 /\ Go(2, <<>>, tm) /\ armed' = TRUE
       /\ UNCHANGED <<req, unread, outcome, off, again, asks, reads, told, active, device>>

\* Both ifs of the state: the timer just started is not idle, the one that
\* is not there neither.
SwitchOn ==
  /\ upd = 2 /\ outcome' = 0
  /\ \/ /\ tm["upd"] = "none" /\ ~power /\ Go(2, <<>>, Start("upd"))
        /\ power' = TRUE /\ Boots /\ UNCHANGED asks
     \/ tm["upd"] = "none" /\ power /\ Go(3, <<>>, tm) /\ UNCHANGED <<asks, device>>
     \/ U /\ Go(3, <<>>, Release("upd")) /\ asks' = 0 /\ UNCHANGED device
  /\ UNCHANGED <<req, unread, armed, off, again, reads, told, active>>

Identify ==
  /\ upd = 3
  /\ \/ /\ tm["upd"] = "none" /\ active' = TRUE /\ tm' = Start("upd")
        /\ q' = Push(<<"id">>, q) /\ UNCHANGED asks
     \/ U /\ asks' = asks + 1 /\ tm' = Release("upd") /\ UNCHANGED <<q, active>>
     \/ tm["upd"] = "run" /\ UNCHANGED <<q, tm, asks, active>>
  /\ upd' = IF id \/ asks' = Asks THEN 4 ELSE 3
  /\ UNCHANGED <<req, unread, armed, off, again, reads, told, device, outcome>>

Validate ==
  /\ upd = 4 /\ outcome' = 0 /\ UNCHANGED <<q, tm>>
  /\ upd' \in IF id THEN {5, 6, 16} ELSE {16}
  /\ UNCHANGED <<req, unread, armed, off, again, asks, reads, told, active, device>>

\* scheduler_start does nothing without a slot.
Restarted == IF tm["upd"] = "none" THEN tm ELSE Start("upd")

EraseSlot == /\ upd = 5 /\ Go(7, <<"erase">>, Restarted) /\ off' = 0
             /\ UNCHANGED <<req, unread, armed, outcome, again, asks, reads, told, active, device>>

\* shifter_bus_reset empties the queue and not the bus.  Bound: once spent,
\* the counter of retries stays; in the code its byte comes round.
Once == again' = again + 1 /\ tm' = Start("upd") /\ q' = <<>> /\ upd' = 19
Failed == upd' = 16 /\ again' = Retries + 1 /\ UNCHANGED <<q, tm>>

AwaitErase ==
  /\ upd = 7
  /\ \/ U /\ again < Retries /\ Once
     \/ U /\ again >= Retries /\ Failed
     \/ ~U /\ upd' = (IF result = 1 THEN 8 ELSE 7) /\ UNCHANGED <<q, tm, again>>
  /\ UNCHANGED <<req, unread, armed, outcome, off, asks, reads, told, active, device>>

\* A refused push is an error that is overwritten.
SendBlock == /\ upd = 8 /\ Go(9, <<"block">>, Restarted) /\ off' = off + 1
             /\ UNCHANGED <<req, unread, armed, outcome, again, asks, reads, told, active, device>>

AwaitBlock ==
  /\ upd = 9
  /\ \/ U /\ again < Retries /\ Once /\ power' = TRUE /\ Boots
     \/ U /\ again >= Retries /\ Failed /\ UNCHANGED device
     \/ ~U /\ UNCHANGED <<q, tm, again, device>>
        /\ upd' = IF result # 1 \/ q # <<>> THEN 9 ELSE IF off < Blocks THEN 8 ELSE 10
  /\ UNCHANGED <<req, unread, armed, outcome, off, asks, reads, told, active>>

AskSum == /\ upd = 10 /\ Go(12, <<"sum">>, Restarted) /\ ans' = "none"
          /\ UNCHANGED <<req, unread, armed, outcome, off, again, asks, reads, id, ver,
                         active, device>>

\* State 19 asks for the identity and 11 awaits it, before all is sent again.
AskAgain == /\ upd = 19 /\ U /\ Go(11, <<"id">>, Start("upd"))
            /\ again' = again + 1 /\ id' = FALSE
            /\ UNCHANGED <<req, unread, armed, outcome, off, asks, reads, ver, ans, active, device>>
AwaitAgain == /\ upd = 11 /\ Rest /\ UNCHANGED <<q, reads>>
              /\ upd' = (IF again > Retries THEN 16 ELSE IF U THEN 19
                         ELSE IF id THEN 5 ELSE 11)
              /\ tm' = IF U THEN Start("upd") ELSE tm

\* A good answer restarts the timer, which is then not idle.
Passed == upd' = 13 /\ tm' = Restarted /\ reads' = 0
AwaitSumAny ==  \* mutant: any answer to the check is taken for a good one
  /\ upd = 12 /\ Rest /\ UNCHANGED q
  /\ IF ans # "none" THEN Passed
     ELSE upd' = (IF U THEN 16 ELSE 12) /\ UNCHANGED <<tm, reads>>
AwaitSum ==
  /\ upd = 12 /\ Rest /\ UNCHANGED q
  /\ IF ans = "ok" THEN Passed
     ELSE upd' = (IF U \/ ans = "bad" THEN 16 ELSE 12) /\ UNCHANGED <<tm, reads>>

\* States 13 to 15 reset the shifter and read its version, a few times.
AskVersion ==
  /\ UNCHANGED <<req, unread, armed, outcome, off, again, asks, id, ans, active, device>>
  /\ \/ upd = 13 /\ U /\ (Go(14, <<"reset">>, Start("upd"))
                            \/ Go(14, <<"reset", "ver">>, Start("upd")))
        /\ UNCHANGED <<reads, ver>>
     \/ upd = 14 /\ U /\ Go(15, <<"ver">>, Start("upd")) /\ reads' = reads + 1 /\ ver' = FALSE
     \/ upd = 15 /\ UNCHANGED <<reads, ver, q, tm>>
        /\ upd' = IF reads > Asks THEN 16 ELSE IF ver THEN 18 ELSE IF U THEN 14 ELSE 15

End == /\ upd \in {6, 16, 18} /\ Go(0, <<>>, Release("upd"))
       /\ outcome' = (CASE upd = 6 -> 3 [] upd = 16 -> 2 [] OTHER -> 1)
       /\ UNCHANGED <<req, unread, armed, off, again, asks, reads, told, active, device>>

Resting == /\ \/ upd = 0
              \/ upd \in {13, 14, 19} /\ ~U
              \/ upd = 2 /\ tm["upd"] = "run"
           /\ outcome' = (IF upd = 2 THEN 0 ELSE outcome)
           /\ UNCHANGED <<q, req, unread, tm, told, active, device,
                          upd, armed, off, again, asks, reads>>

Update ==
  /\ pc = "update" /\ pc' = "pump"
  /\ \/ Arm \/ SwitchOn \/ Identify \/ Validate \/ EraseSlot \/ AwaitErase
     \/ SendBlock \/ AwaitBlock \/ AskSum \/ AskAgain \/ AwaitAgain \/ AwaitSum
     \/ AskVersion \/ End \/ Resting
  /\ UNCHANGED <<result, errors, lost, supply, contv, exact, events>>
-----------------------------------------------------------------------------
(* Between two passes: the states of the bike, the console and BLE.        *)

Outside(A) == /\ pc = "pump" /\ Fault /\ A
              /\ UNCHANGED <<pc, link, lost, stay, seq, asked, armed, outcome, off,
                             again, asks, reads, told, device, exact>>
SetStep    == Outside(/\ \/ ctl \in {5, 17} /\ ctl' = 3
                         \/ ctl \in {9, 11} /\ ctl' = 10
                         \/ active /\ upd = 0 /\ ctl' = 13
                      /\ UNCHANGED <<active, supply, tm, upd>>)
Request    == Outside(/\ upd = 0 /\ upd' \in {1, 2}
                      /\ ctl = 5          \* bound: it comes to a shifter at rest
                      /\ UNCHANGED <<active, supply, ctl, tm>>)
Supply     == Outside(supply' = ~supply /\ UNCHANGED <<active, ctl, tm, upd>>)

Expire(t) == /\ tm[t] = "run" /\ tm' = [tm EXCEPT ![t] = "idle"]
             /\ UNCHANGED <<pc, link, lost, active, supply, contv, updv, told,
                            device, exact, events>>

Next == \/ Monitor \/ Control \/ Update \/ GiveUp \/ \E t \in Timers : Expire(t)
        \/ SetStep \/ Request \/ Supply

\* The main loop goes round, a transaction ends, the timers expire.
Pass   == Monitor \/ Control \/ Update
Served == Monitor /\ req # None /\ supply /\ active /\ req' = None
Fairness == /\ WF_vars(Pass) /\ SF_vars(Served) /\ WF_vars(GiveUp)
            /\ \A t \in Timers \ {"poll"} : WF_vars(Expire(t))

Spec == Init /\ [][Next]_vars /\ Fairness
-----------------------------------------------------------------------------
TypeOK == /\ pc \in {"pump", "control", "update"} /\ q \in Seq(Kinds \X (0..Blocks))
          /\ Len(q) <= Depth /\ result \in 0..2 /\ errors \in 0..MaxErrors + 1
          /\ ctl \in {0} \union 3..17 /\ seq \in 0..Polls /\ asked \in 0..Asks
          /\ tm \in [Timers -> {"none", "run", "idle"}]
          /\ upd \in 0..19 /\ outcome \in 0..3 /\ off \in 0..Blocks
          /\ again \in 0..Retries + 1 /\ asks \in 0..Asks /\ reads \in 0..Asks + 1
          /\ mode \in 0..1 /\ rem \in 0..Blocks /\ wp \in 0..Blocks
          /\ {id, ver, lost, active, supply, power, first, part, armed} \subseteq BOOLEAN

\* The update is reported done only when the shifter runs the new image,
\* whatever was lost, sent twice or taken for an acknowledgement.
ResultIsTrue == outcome = 1 => run = "new"

\* The control machine ends in gear or off and the update ends, unless the
\* identity came in the pass its timer expired: the update has no timer then
\* and waits for an answer only.
NoTimer == upd \in {7, 8, 9, 10, 12, 13} /\ tm["upd"] = "none"
AtRest  == ctl \in {5, 9, 10, 11, 13} /\ (upd = 0 \/ NoTimer)
ComesToRest == []<>AtRest
=============================================================================
