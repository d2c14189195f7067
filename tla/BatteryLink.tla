----------------------------- MODULE BatteryLink -----------------------------
(***************************************************************************)
(* The battery service of mainware/src/battery.c and the pack's answers to *)
(* it (batteryware/src/uart.c, modem.c and flash.c).  A pass of the main   *)
(* loop is three actions in order: the transaction pump of the Modbus      *)
(* master, the power machine and the update machine.  Whatever the rest of *)
(* the bike does happens between two passes.                               *)
(*                                                                         *)
(* A request is its kind; a telemetry word is known or not.  The pack      *)
(* answers within the master's 1.5 s or not at all.  A register value of   *)
(* the pack that only travels to the app is left out.  The image is a      *)
(* sequence of blocks, a flash page holds PageBlocks of them.              *)
(***************************************************************************)
EXTENDS Integers, Sequences

CONSTANTS Blocks,      \* blocks of the update, 0x20 bytes each
          PageBlocks,  \* blocks of a page of the pack, 4 in the code
          Depth,       \* capacity of the queue, 14 in the code
          MaxErrors,   \* errors in a row before the link is reset, 5
          Tries,       \* identifications asked for, 10
          Retries,     \* of a block, 3
          MaxEvents    \* bound: faults and outside events

BatteryAssumption == /\ {Blocks, PageBlocks, Depth, MaxErrors, Tries}
                                  \subseteq Nat \ {0}
                            /\ {MaxEvents, Retries} \subseteq Nat

VARIABLES pc,      \* the part of the pass that runs next
          q,       \* the bus queue
          req,     \* the request on the bus: its kind and block
          status,  \* what the pump told this pass
          errors,  \* failed transactions in a row
          lost,    \* flag 0x80000: the pack does not answer
          sub,     \* the power machine's substate
          tries,   \* its countdown
          tm,      \* its timers 0, 5 and 7 and the update's, 4
          known,   \* words of the pack that are good: id, switched, soc
          pb5,     \* the pack's reset line
          upd, off, again, answer, res,         \* the update machine
          flash, buf, packOn, silent, plugged,  \* the pack
          ride,    \* the bike starts and rides; else it is on and updates
          events

link  == <<q, req, status, errors>>
power == <<sub, tries, known, pb5>>
updv  == <<upd, off, again, answer, res>>
pack  == <<flash, buf, packOn, silent, plugged>>
vars  == <<pc, link, lost, power, tm, updv, pack, ride, events>>

Timers  == {0, 4, 5, 7}
Kinds   == {"id", "on", "flow", "words", "soc", "fault", "off",
            "erase", "block", "again", "crc", "reset"}
Reads   == {"id", "flow", "words", "soc", "fault", "crc"}
Pages   == 0..((Blocks - 1) \div PageBlocks)
Image   == [p \in Pages |-> [i \in 1..PageBlocks |->
             IF p * PageBlocks + i <= Blocks THEN p * PageBlocks + i - 1 ELSE -1]]
None    == <<"none", 0>>
Erased  == [i \in 1..PageBlocks |-> -1]

Init == /\ pc = "pump" /\ q = <<>> /\ req = None /\ status = 0
        /\ errors = 0 /\ lost = FALSE /\ tries = Tries /\ pb5 = FALSE
        /\ tm = [t \in Timers |-> "none"]
        /\ off = 0 /\ again = 0 /\ answer = -1 /\ res = 0
        /\ flash = [p \in Pages |-> Erased] /\ buf = <<>> 
        /\ silent = FALSE
        /\ \/ ride = TRUE /\ sub = 1 /\ known = {} /\ upd = 0 /\ plugged \in BOOLEAN /\ packOn = FALSE
           \/ /\ ride = FALSE /\ sub = 12 /\ known = {"id", "switched", "soc"}
              /\ upd = 4 /\ plugged = TRUE /\ packOn = TRUE
        /\ events = 0

\* modbus_bat_submit: a full queue refuses, which only the update looks at.
Item(k) == <<k, CASE k = "block" -> off [] k = "again" -> off - 1 [] OTHER -> 0>>
Fitting(kinds, queue) ==
  IF Len(queue) + Len(kinds) <= Depth THEN Len(kinds) ELSE Depth - Len(queue)
Push(kinds, queue) == queue \o [i \in 1..Fitting(kinds, queue) |-> Item(kinds[i])]

Start(t)   == [tm EXCEPT ![t] = "run"]
Release(t) == [tm EXCEPT ![t] = "none"]
Idle(t)    == tm[t] = "idle"
-----------------------------------------------------------------------------
\* The pack.

\* flash_stream_handler: the first block of a page erases it; a full buffer
\* is written; the blocks of the image's last, partial page go in directly.
Partial(p) == (p + 1) * PageBlocks > Blocks
Receive(n) ==
  LET p     == n \div PageBlocks
      first == n % PageBlocks = 0
      fresh == IF first THEN [flash EXCEPT ![p] = Erased] ELSE flash
      got   == Append(IF first THEN <<>> ELSE buf, n)
  IN CASE Partial(p) -> /\ flash' = [fresh EXCEPT ![p][(n % PageBlocks) + 1] = n]
                        /\ buf' = IF first THEN <<>> ELSE buf
       [] ~Partial(p) /\ Len(got) = PageBlocks ->
                           flash' = [fresh EXCEPT ![p] = got] /\ buf' = <<>>
       [] OTHER -> flash' = fresh /\ buf' = got

\* flash_verify_header, the word 0x81: 0 if the image has its sum.
Verify == IF flash = Image THEN 0 ELSE 1

\* What a request does in the pack.  8 switches the outputs in some of the
\* pack's states; 1 and the erase command switch them off.
Serve(r, n) ==
  \/ /\ r = "on" /\ packOn' \in {packOn, TRUE}
     /\ UNCHANGED <<flash, buf>>
  \/ /\ r \in {"off", "erase", "reset"} /\ packOn' = FALSE
     /\ UNCHANGED <<flash, buf>>
  \/ /\ r = "block" /\ Receive(n) /\ UNCHANGED packOn
  \/ /\ r \notin {"on", "off", "erase", "reset", "block"}
     /\ UNCHANGED <<flash, buf, packOn>>

\* bms_telemetry_unpack of the answer.
Unpack(r) ==
  /\ known' = CASE r = "id" -> known \union {"id"}
                [] r = "flow" -> (known \ {"switched"})
                                   \union (IF packOn THEN {"switched"} ELSE {})
                [] r = "words" -> {"id", "soc"}
                                   \union (IF packOn THEN {"switched"} ELSE {})
                [] r = "soc" -> known \union {"soc"}
                [] OTHER -> known
  /\ answer' = IF r = "crc" THEN Verify ELSE answer

\* The request may be served and its answer lost.
Fault == events < MaxEvents /\ events' = events + 1
-----------------------------------------------------------------------------

\* bat_modbus_txn_pump with the master, and the count of errors after it.

Count(s) ==
  /\ status' = s
  /\ CASE s = 1 -> errors' = 0 /\ lost' = FALSE /\ UNCHANGED q
       [] s = 2 -> /\ errors' = (errors + 1) % (MaxErrors + 3)
                   /\ IF errors >= MaxErrors THEN q' = <<>> /\ lost' = TRUE
                                             ELSE UNCHANGED <<q, lost>>
       [] OTHER -> UNCHANGED <<errors, lost, q>>

PumpIdle == /\ req = None /\ q = <<>> /\ Count(0)
            /\ UNCHANGED <<req, known, answer, flash, buf, packOn, events>>

\* The retried frame was never initialised: it is whatever the stack holds.
Frame(r) == IF r[1] = "again" THEN {"block", "soc", "junk"} \X {r[2]} ELSE {r}

PumpPop == /\ req = None /\ q # <<>>
           /\ req' \in Frame(Head(q)) /\ q' = Tail(q) /\ status' = 0
           /\ UNCHANGED <<errors, lost, known, answer, flash, buf, packOn, events>>

\* An unknown function is never sent: its timer is restarted in every pass.
PumpWait == /\ req # None /\ Count(0)
            /\ UNCHANGED <<req, known, answer, flash, buf, packOn, events>>

PumpOk == /\ req[1] \notin {"none", "junk"} /\ ~silent /\ plugged
          /\ Serve(req[1], req[2]) /\ Unpack(req[1]) /\ Count(1) /\ req' = None
          /\ UNCHANGED events

PumpFail == /\ req[1] \notin {"none", "junk"}
            /\ \/ (silent \/ ~plugged) /\ UNCHANGED <<flash, buf, packOn, events>>
               \/ Fault /\ ~silent /\ plugged
                    /\ (Serve(req[1], req[2]) \/ UNCHANGED <<flash, buf, packOn>>)
            /\ Count(2) /\ req' = None /\ UNCHANGED <<known, answer>>

Pump == /\ pc = "pump" /\ pc' = "power"
        /\ (PumpIdle \/ PumpPop \/ PumpWait \/ PumpOk \/ PumpFail)
        /\ UNCHANGED <<sub, tries, pb5, tm, upd, off, again, res,
                       silent, plugged, ride>>
-----------------------------------------------------------------------------
\* battery_telemetry_step.  Do(s, asked, t): the next substate, the requests
\* queued and the timers.

Do(s, asked, t) == /\ sub' = s /\ q' = Push(asked, q) /\ tm' = t
                   /\ UNCHANGED <<tries, known, pb5, lost>>

Ask == /\ sub = 0 /\ Idle(5)
       /\ sub' = 3 /\ q' = <<Item("id")>> /\ tm' = Start(5)
       /\ UNCHANGED <<tries, known, pb5, lost>>

Detect == /\ sub = 1
          /\ \/ ~plugged /\ tm[5] = "none" /\ Do(2, <<>>, Start(5))
             \/ ~plugged /\ tm[5] # "none" /\ Do(1, <<>>, tm)
             \/ plugged /\ tm[5] # "none" /\ Do(0, <<>>, tm)
             \/ /\ plugged /\ tm[5] = "none"
                /\ sub' = 0 /\ q' = <<>> /\ tm' = Start(5) /\ pb5' = FALSE
                /\ UNCHANGED <<tries, known, lost>>

Absent == /\ sub = 2 /\ plugged /\ Do(1, <<>>, Release(5))

\* The byte wraps: 256 tries then, Tries of them here.
CountDown == tries' = IF tries = 0 THEN Tries ELSE tries - 1

AwaitId ==
  /\ sub = 3
  /\ \/ /\ "id" \in known
        /\ sub' = 6 /\ tm' = Start(5) /\ lost' = FALSE /\ UNCHANGED tries
     \/ /\ "id" \notin known /\ Idle(5) /\ CountDown /\ UNCHANGED lost
        /\ IF tries' = 0 THEN sub' = 1 /\ tm' = Release(5)
                         ELSE sub' = 0 /\ tm' = Start(5)
  /\ UNCHANGED <<q, known, pb5>>

\* PD1 tells that the pack sleeps: it may, once its outputs are off.
FallAsleep ==
  /\ sub = 4
  /\ \/ tm[7] = "none" /\ Do(4, <<>>, Start(7))
     \/ ~packOn /\ Do(5, <<>>, Release(7))
     \/ /\ Idle(7) /\ tries = 0 /\ sub' = 5 /\ tm' = Release(7) /\ lost' = TRUE
        /\ UNCHANGED <<q, tries, known, pb5>>
     \/ /\ Idle(7) /\ tries # 0 /\ sub' = 15 /\ tm' = Release(7)
        /\ tries' = tries - 1 /\ UNCHANGED <<q, known, pb5, lost>>

SwitchOn == /\ sub = 6 /\ Idle(5) /\ Do(7, <<"on", "on", "flow">>, Start(5))

AwaitSwitch == /\ sub = 7 /\ (Idle(5) \/ "switched" \in known)
               /\ Do(8, <<"words", "words">>, Start(5))

AwaitFlow ==
  /\ sub = 8
  /\ \/ "switched" \in known /\ Do(12, <<>>, Start(5))
     \/ "switched" \notin known /\ Idle(5) /\ Do(14, <<"fault">>, Start(5))

\* The words are cleared: 300 bytes, the answer of the update's check too.
CheckVolt ==
  /\ sub = 9
  /\ \/ /\ tm[7] = "none" /\ sub' = 9 /\ known' = {} /\ answer' = 0
        /\ q' = Push(<<"words", "words">>, q)
        /\ tm' = [Start(7) EXCEPT ![0] = IF @ = "none" THEN "run" ELSE @]
     \/ /\ Idle(7) /\ sub' \in {10, 12} /\ tm' = Release(7)
        /\ UNCHANGED <<q, known, answer>>
  /\ UNCHANGED <<tries, pb5, lost>>

ResetPack ==
  /\ sub = 10
  /\ \/ tm[7] = "none" /\ sub' = 10 /\ pb5' = TRUE /\ tm' = Start(7)
     \/ Idle(7) /\ sub' = 11 /\ pb5' = FALSE /\ tm' = Start(7)
  /\ UNCHANGED <<q, tries, known, lost>>

Restart == /\ sub = 11 /\ Idle(7) /\ sub' = 1 /\ tries' = Tries
           /\ tm' = [tm EXCEPT ![7] = "none", ![5] = "none"]
           /\ UNCHANGED <<q, known, pb5, lost>>

Polled == IF tm[0] = "run" THEN <<>> ELSE <<"soc">>

Steady ==
  /\ sub = 12 /\ q' = Push(Polled, q) /\ tries' = Tries
  /\ LET t == [tm EXCEPT ![0] = "run"]
     IN \/ Idle(5) /\ "soc" \notin known /\ sub' = 13 /\ tm' = [t EXCEPT ![5] = "run"]
        \/ Idle(5) /\ "soc" \in known /\ sub' = 12 /\ tm' = [t EXCEPT ![5] = "none"]
        \/ ~Idle(5) /\ sub' = 12 /\ tm' = t
  /\ UNCHANGED <<known, pb5, lost>>

Retry == /\ sub \in {13, 14} /\ Idle(5) /\ Do(1, <<>>, Start(5))

SwitchOff == sub = 15 /\ Do(IF plugged THEN 4 ELSE 5, <<"off">>, tm)

PowerSteps == \/ Ask \/ Detect \/ Absent \/ AwaitId \/ FallAsleep \/ SwitchOn
              \/ AwaitSwitch \/ AwaitFlow \/ ResetPack \/ Restart \/ Steady
              \/ Retry \/ SwitchOff

\* A substate whose timer runs, or whose pin has not changed, waits.
Wait == /\ \/ sub = 5
           \/ sub \in {0, 6, 7, 13, 14} /\ ~Idle(5)
           \/ sub = 2 /\ ~plugged
           \/ sub = 3 /\ "id" \notin known /\ ~Idle(5)
           \/ sub \in {4, 9, 10, 11} /\ tm[7] = "run"
           \/ sub = 8 /\ "switched" \notin known /\ ~Idle(5)
        /\ UNCHANGED <<power, q, tm, lost>>

Power == /\ pc = "power" /\ pc' = "update"
         /\ \/ PowerSteps /\ UNCHANGED answer
            \/ CheckVolt
            \/ Wait /\ UNCHANGED answer
         /\ UNCHANGED <<req, status, errors, upd, off, again, res,
                        pack, ride, events>>
-----------------------------------------------------------------------------
\* battery_state_process.  Go(u): the next state, nothing queued.

Failed == 16
Go(u)  == upd' = u /\ UNCHANGED <<q, off, again, answer>>
Expired(u) == IF Idle(4) THEN Failed ELSE u

Validate == /\ upd = 4 /\ (Go(5) \/ Go(Failed)) /\ res' = 0 /\ UNCHANGED tm

Erase == /\ upd = 5 /\ upd' = 7 /\ q' = Push(<<"erase">>, q) /\ off' = 0
         /\ tm' = Start(4) /\ UNCHANGED <<again, answer, res>>

AwaitErase == /\ upd = 7 /\ Go(Expired(IF status = 1 THEN 8 ELSE 7))
              /\ UNCHANGED <<tm, res>>

\* A full queue is an error whose state is overwritten at once.
SendBlock == /\ upd = 8 /\ upd' = 9 /\ q' = Push(<<"block">>, q)
             /\ off' = off + 1 /\ again' = Retries /\ tm' = Start(4)
             /\ UNCHANGED <<answer, res>>

\* Any answer counts, once nothing is queued behind it.
Acked == IF status = 1 /\ q = <<>> THEN (IF off < Blocks THEN 8 ELSE 10) ELSE 9

AwaitBlock ==
  /\ upd = 9 /\ UNCHANGED <<off, answer, res>>
  /\ \/ ~Idle(4) /\ upd' = Acked /\ UNCHANGED <<q, again, tm>>
     \/ Idle(4) /\ again < 1 /\ upd' = Failed /\ UNCHANGED <<q, again, tm>>
     \/ /\ Idle(4) /\ again >= 1 /\ again' = again - 1 /\ tm' = Start(4)
        /\ q' = Push(<<"again">>, q)
        /\ upd' = IF Len(q) < Depth THEN Acked ELSE Failed

AskSum == /\ upd = 10 /\ upd' = 12 /\ q' = Push(<<"crc">>, q) /\ answer' = -1
          /\ tm' = Start(4) /\ UNCHANGED <<off, again, res>>

AwaitSumSwapped ==  \* mutant: 1 is good, as the message beside it says
  /\ upd = 12 /\ UNCHANGED <<tm, res>>
  /\ Go(Expired(IF answer = -1 THEN 12 ELSE IF answer = 1 THEN 17 ELSE Failed))
\* The answer is armed with a value no pack gives, here -1.
AwaitSum == /\ upd = 12
            /\ Go(Expired(IF answer = -1 THEN 12 ELSE IF answer = 0 THEN 17 ELSE Failed))
            /\ UNCHANGED <<tm, res>>

ResetApp == /\ upd = 17 /\ upd' = 18 /\ q' = Push(<<"reset">>, q)
            /\ UNCHANGED <<off, again, answer, tm, res>>

Ended == /\ upd \in {Failed, 18} /\ Go(upd) /\ tm' = Release(4)
         /\ res' = IF upd = 18 THEN 1 ELSE 2

Resting == upd = 0 /\ UNCHANGED <<updv, q, tm>>

Update == /\ pc = "update" /\ pc' = "pump"
          /\ \/ Validate \/ Erase \/ AwaitErase \/ SendBlock \/ AwaitBlock
             \/ AskSum \/ AwaitSum \/ ResetApp \/ Ended \/ Resting
          /\ UNCHANGED <<req, status, errors, lost, power, pack, ride, events>>
-----------------------------------------------------------------------------
\* The rest of the bike: the orchestrator arms an update while the bike does
\* not ride; riding checks the supply; sleep switches the pack off.
Outside(A) == pc = "pump" /\ Fault /\ A /\ UNCHANGED <<pc, link, lost, tries, known, pb5, off,
                                        again, answer, res, flash, buf, packOn>>
Arm     == Outside(/\ ~ride /\ upd \in {0, Failed, 18} /\ upd' = 4
                   /\ UNCHANGED <<sub, tm, silent, plugged, ride>>)
Advance == Outside(/\ ride = TRUE /\ sub = 12 /\ sub' = 9
                   /\ UNCHANGED <<upd, tm, silent, plugged, ride>>)
SetPending == Outside(/\ upd \in {0, Failed, 18} /\ sub' = 15
                      /\ UNCHANGED <<upd, tm, silent, plugged, ride>>)
OnDetect == Outside(/\ plugged /\ sub' = 1 /\ sub = 5
                    /\ UNCHANGED <<upd, tm, silent, plugged, ride>>)
Hush == Outside(/\ silent' = ~silent /\ UNCHANGED <<sub, upd, tm, plugged, ride>>)
Plug == Outside(/\ plugged' = ~plugged /\ UNCHANGED <<sub, upd, tm, silent, ride>>)

Expire(t) == /\ tm[t] = "run" /\ tm' = [tm EXCEPT ![t] = "idle"]
             /\ UNCHANGED <<pc, link, lost, power, updv, pack, ride, events>>

Next == \/ Pump \/ Power \/ Update \/ \E t \in Timers : Expire(t)
        \/ Arm \/ Advance \/ SetPending \/ OnDetect \/ Hush \/ Plug

\* The main loop goes round, a transaction ends, the timers the pack's
\* silence and the update depend on expire.
Pass   == Pump \/ Power \/ Update
Served == /\ pc = "pump" /\ req[1] \notin {"none", "junk"}
          /\ Pump /\ req' = None
Fairness == /\ WF_vars(Pass) /\ SF_vars(Served)
            /\ WF_vars(Expire(0)) /\ WF_vars(Expire(4))

Spec == Init /\ [][Next]_vars /\ Fairness
-----------------------------------------------------------------------------
TypeOK == /\ pc \in {"pump", "power", "update"} /\ q \in Seq(Kinds \X (0..Blocks))
          /\ Len(q) <= Depth /\ req \in (Kinds \union {"none", "junk"}) \X (0..Blocks)
          /\ status \in 0..2 /\ errors \in Nat /\ lost \in BOOLEAN
          /\ sub \in 0..15 /\ tries \in 0..Tries
          /\ tm \in [Timers -> {"none", "run", "idle"}]
          /\ known \subseteq {"id", "switched", "soc"} /\ pb5 \in BOOLEAN
          /\ upd \in 0..18 /\ off \in 0..Blocks /\ again \in 0..Retries
          /\ answer \in {-1, 0, 1} /\ res \in 0..2
          /\ buf \in Seq(0..Blocks - 1) /\ Len(buf) < PageBlocks
          /\ {packOn, silent, plugged, ride} \subseteq BOOLEAN

\* The pack is told to install its update only when what it holds is the
\* image, whatever was lost, repeated or taken for an acknowledgement.
ResultIsTrue == upd \in {17, 18} => flash = Image

\* Every update ends, with a result.
UpdateRests == upd \in {0, Failed, 18}
UpdateEnds  == []<>UpdateRests

\* A pack that falls silent while the bike is on is reported.
Unreported == sub = 12 /\ silent /\ ~lost /\ req[1] # "junk"

Settled == UpdateRests /\ ~Unreported
=============================================================================
