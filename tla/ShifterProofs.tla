---------------------------- MODULE ShifterProofs ----------------------------
(***************************************************************************)
(* TypeOK and ResultIsTrue of ShifterLink for every value of the           *)
(* constants.  The inductive invariant keeps the types by the part that    *)
(* owns them, with the counters bounded by the state they are counted in,  *)
(* and follows a good answer from the shifter to the outcome.              *)
(***************************************************************************)
EXTENDS ShifterLink, TLAPS

Requests == (Kinds \union {"none"}) \X (0..Blocks)
BusTyped == /\ q \in Seq(Kinds \X (0..Blocks)) /\ Len(q) <= Depth
            /\ req \in Requests /\ unread \in Requests
            /\ result \in 0..2 /\ errors \in 0..MaxErrors + 1 /\ lost \in BOOLEAN
ControlTyped == /\ ctl \in {0} \union 3..17 /\ seq \in 0..Polls /\ asked \in 0..Asks
                /\ active \in BOOLEAN /\ supply \in BOOLEAN
TimersTyped  == tm \in [Timers -> {"none", "run", "idle"}]
UpdateTyped  == /\ upd \in 0..19 /\ outcome \in 0..3 /\ off \in 0..Blocks
                /\ again \in 0..Retries + 1 /\ asks \in 0..Asks /\ reads \in 0..Asks + 1
                /\ armed \in BOOLEAN /\ id \in BOOLEAN /\ ver \in BOOLEAN
ShifterTyped == /\ mode \in 0..1 /\ rem \in 0..Blocks /\ wp \in 0..Blocks
                /\ power \in BOOLEAN /\ first \in BOOLEAN /\ part \in BOOLEAN

\* What the states of the update leave of its counters.
Counted == /\ upd = 3 /\ tm["upd"] # "none" => asks < Asks
           /\ upd = 7 => off = 0
           /\ upd = 8 => off < Blocks
           /\ upd = 13 => reads = 0
           /\ upd = 14 => reads <= Asks
           /\ upd = 19 => again <= Retries

\* From the answer to the check up to the outcome, the new image runs.
Honest == \/ run = "new"
          \/ /\ ~(unread[1] = "sum" /\ unread[2] = 1) /\ ans # "ok"
             /\ upd \notin {13, 14, 15, 18} /\ outcome # 1

IInv == /\ pc \in {"pump", "control", "update"}
        /\ BusTyped /\ ControlTyped /\ TimersTyped /\ UpdateTyped /\ ShifterTyped
        /\ Counted /\ Honest

LEMMA Sizes ==
  /\ Blocks \in Nat /\ Blocks > 1 /\ Depth \in Nat /\ Depth > 0
  /\ MaxErrors \in Nat /\ Asks \in Nat /\ Asks > 0
  /\ Polls \in Nat /\ Retries \in Nat /\ MaxEvents \in Nat
BY ShifterAssumption

\* The queue takes what there is room for and stays a queue of requests
\* (shifter.c:192, bus_queue_push).
LEMMA PushTyped ==
  ASSUME NEW kinds, kinds \in Seq(Kinds), BusTyped, off \in 0..Blocks
  PROVE  Push(kinds, q) \in Seq(Kinds \X (0..Blocks)) /\ Len(Push(kinds, q)) <= Depth
<1> DEFINE R    == Kinds \X (0..Blocks)
           more == [i \in DOMAIN kinds |-> <<kinds[i], off>>]
           all  == q \o more
<1>1. more \in [1..Len(kinds) -> R]
  OBVIOUS
<1>2. more \in Seq(R)
  <2>1. Len(kinds) \in Nat
    OBVIOUS
  <2> HIDE DEF more
  <2>2. QED
    BY <1>1, <2>1
<1>3. q \in Seq(R)
  BY DEF BusTyped
<1> HIDE DEF more
<1>4. all \in Seq(R)
  BY <1>2, <1>3
<1> HIDE DEF all
<1>5. Depth \in Nat
  BY Sizes
<1>6. CASE Len(all) > Depth
  <2>1. SubSeq(all, 1, Depth) \in Seq(R) /\ Len(SubSeq(all, 1, Depth)) = Depth
    BY <1>4, <1>5, <1>6
  <2>2. Push(kinds, q) = SubSeq(all, 1, Depth)
    BY <1>6 DEF Push, all, more
  <2>3. QED
    BY <2>1, <2>2, <1>5
<1>7. CASE ~(Len(all) > Depth)
  <2>1. Push(kinds, q) = all
    BY <1>7 DEF Push, all, more
  <2>2. QED
    BY <2>1, <1>4, <1>5, <1>7
<1>8. QED
  BY <1>6, <1>7

LEMMA ForgetTyped ==
  ASSUME Forget, power' \in BOOLEAN
  PROVE  ShifterTyped'
<1>1. mode' \in 0..1 /\ rem' \in 0..Blocks /\ wp' \in 0..Blocks
  BY Sizes DEF Forget
<1>2. first' \in BOOLEAN /\ part' \in BOOLEAN
  BY DEF Forget
<1>3. QED
  BY <1>1, <1>2 DEF ShifterTyped

\* Whatever reaches the shifter, its registers stay in their ranges, the new
\* image is never taken back, and a check of a right image starts it
\* (modbus_dispatch.c:187, image.c:52).
LEMMA ShifterSteps ==
  ASSUME ShifterTyped, NEW r, NEW n, UNCHANGED power,
         Serve(r, n) \/ Swallow(r) \/ Keep \/ Give
  PROVE  ShifterTyped' /\ run' \in {run, "new"}
<1> USE Sizes DEF ShifterTyped
<1>1. CASE Serve(r, n)
  <2>1. CASE Page(n) /\ mode = 1
    <3> DEFINE last == ~first /\ rem <= (IF exact THEN 0 ELSE 1)
    <3>1. ~last => first \/ rem >= 1
      OBVIOUS
    <3>2. first' = last /\ run' = run /\ part' = FALSE
      BY <2>1 DEF Page
    <3>3. mode' \in 0..1
      BY <2>1 DEF Page
    <3>4. wp' \in 0..Blocks
      BY <2>1 DEF Page
    <3>5. rem' \in 0..Blocks
      BY <2>1, <3>1 DEF Page
    <3>6. QED
      BY <3>2, <3>3, <3>4, <3>5
  <2>2. CASE r = "erase" /\ mode' = 1 /\ UNCHANGED <<first, rem, wp, part, run>>
    BY <2>2
  <2>3. CASE Boots
    BY <2>3, ForgetTyped DEF Boots
  <2>4. CASE Forget /\ UNCHANGED run
    BY <2>4, ForgetTyped
  <2>5. CASE Keep
    BY <2>5 DEF Keep, ota
  <2>6. QED
    BY <1>1, <2>1, <2>2, <2>3, <2>4, <2>5 DEF Serve
<1>2. CASE Swallow(r)
  <2>1. CASE Give
    BY <2>1, ForgetTyped DEF Give
  <2>2. CASE Keep
    BY <2>2 DEF Keep, ota
  <2>3. CASE part' = TRUE /\ UNCHANGED <<mode, first, rem, wp, run>>
    BY <2>3
  <2>4. QED
    BY <1>2, <2>1, <2>2, <2>3 DEF Swallow
<1>3. CASE Keep
  BY <1>3 DEF Keep, ota
<1>4. CASE Give
  BY <1>4, ForgetTyped DEF Give
<1>5. QED
  BY <1>1, <1>2, <1>3, <1>4

LEMMA SumStarts ==
  ASSUME NEW n, Serve("sum", n), slot = Image
  PROVE  run' = "new"
BY DEF Serve, Boots

LEMMA BootsStep ==
  ASSUME ShifterTyped, Boots, power' = TRUE
  PROVE  ShifterTyped' /\ run' \in {run, "new"}
BY ForgetTyped DEF Boots

\* An outcome is as true after a step that changes no part of the way to it.
LEMMA HonestKept ==
  ASSUME Honest, run' \in {run, "new"}, UNCHANGED <<unread, ans, upd, outcome>>
  PROVE  Honest'
BY DEF Honest

(* The pump. *)

LEMMA CountTyped ==
  ASSUME BusTyped, NEW r \in 0..2, Count(r)
  PROVE  /\ q' \in Seq(Kinds \X (0..Blocks)) /\ Len(q') <= Depth
         /\ result' \in 0..2 /\ errors' \in 0..MaxErrors + 1 /\ lost' \in BOOLEAN
<1> USE Sizes DEF BusTyped
<1>1. result' \in 0..2
  BY DEF Count
<1>2. CASE r = 1
  <2>1. errors' = 0 /\ lost' = FALSE /\ q' = q
    BY <1>2 DEF Count
  <2>2. lost' \in BOOLEAN
    BY <2>1
  <2>3. errors' \in 0..MaxErrors + 1
    BY <2>1
  <2>4. QED
    BY <2>1, <2>2, <2>3, <1>1
<1>3. CASE r = 2
  <2>1. result' = 2 /\ errors' = (IF errors > MaxErrors THEN errors ELSE errors + 1)
        /\ (IF errors >= MaxErrors THEN q' = <<>> /\ lost' = TRUE ELSE UNCHANGED <<q, lost>>)
    BY <1>3 DEF Count
  <2>2. errors' \in 0..MaxErrors + 1
    BY <2>1
  <2>3. CASE errors >= MaxErrors
    <3>1. q' = <<>> /\ lost' = TRUE
      BY <2>1, <2>3
    <3>2. QED
      BY <3>1, <2>2, <1>1
  <2>4. CASE ~(errors >= MaxErrors)
    <3>1. q' = q /\ lost' = lost
      BY <2>1, <2>4
    <3>2. QED
      BY <3>1, <2>2, <1>1
  <2>5. QED
    BY <2>3, <2>4
<1>4. CASE r = 0
  <2>1. errors' = errors /\ lost' = lost /\ q' = q
    BY <1>4 DEF Count
  <2>2. QED
    BY <2>1, <1>1
<1>5. QED
  BY <1>2, <1>3, <1>4

LEMMA NoneTyped == None \in Requests /\ None[1] = "none"
BY Sizes DEF None, Requests

\* What the update machine keeps in its own hands while the pump works.
PumpKeeps == /\ UNCHANGED <<active, supply, contv, tm, updv, exact>>

LEMMA PumpSteps ==
  ASSUME IInv, PumpKeeps, Unpack \/ Pop \/ Answered \/ Silent \/ Waiting
  PROVE  /\ BusTyped' /\ ShifterTyped' /\ Honest'
         /\ id' \in BOOLEAN /\ ver' \in BOOLEAN
<1> USE DEF IInv, PumpKeeps, updv
<1>0. upd' = upd /\ outcome' = outcome /\ id \in BOOLEAN /\ ver \in BOOLEAN
  BY DEF UpdateTyped
<1>1. CASE Unpack
  <2>1. BusTyped'
    <3>1. req' = req /\ unread' = None
      BY <1>1 DEF Unpack
    <3>2. Count(0)
      BY <1>1 DEF Unpack
    <3>3. QED
      BY <3>1, <3>2, CountTyped, NoneTyped DEF BusTyped
  <2>2. ShifterTyped' /\ run' = run
    BY <1>1 DEF Unpack, device, ota, ShifterTyped
  <2>3. id' \in BOOLEAN /\ ver' \in BOOLEAN
    BY <1>1, Zenon DEF Unpack
  <2>4. Honest'
    <3>1. CASE run = "new"
      BY <3>1, <2>2 DEF Honest
    <3>2. CASE run # "new"
      <4>1. ~(unread[1] = "sum" /\ unread[2] = 1) /\ ans # "ok"
        BY <3>2 DEF Honest
      <4>2. ans' # "ok"
        BY <4>1, <1>1 DEF Unpack
      <4>3. unread'[1] # "sum"
        BY <1>1, NoneTyped DEF Unpack
      <4>4. QED
        BY <4>2, <4>3, <3>2, <1>0 DEF Honest
    <3>3. QED
      BY <3>1, <3>2
  <2>5. QED
    BY <2>1, <2>2, <2>3, <2>4
<1>2. CASE Pop
  <2>1. UNCHANGED <<unread, told, device>>
    BY <1>2 DEF Pop
  <2>2. BusTyped'
    <3>1. CASE q = <<>>
      BY <3>1, <2>1, <1>2, CountTyped DEF Pop, BusTyped
    <3>2. CASE q # <<>>
      <4>1. Head(q) \in Kinds \X (0..Blocks) /\ Tail(q) \in Seq(Kinds \X (0..Blocks))
            /\ Len(Tail(q)) <= Depth
        BY <3>2, Sizes DEF BusTyped
      <4>2. Head(q) \in Requests
        BY <4>1 DEF Requests
      <4>3. req' = Head(q) /\ q' = Tail(q) /\ result' = 0 /\ errors' = errors /\ lost' = lost
        BY <3>2, <1>2 DEF Pop
      <4>4. QED
        BY <4>1, <4>2, <4>3, <2>1 DEF BusTyped
    <3>3. QED
      BY <3>1, <3>2
  <2>3. ShifterTyped' /\ run' = run /\ ans' = ans /\ id' = id /\ ver' = ver
    BY <2>1 DEF device, ota, told, ShifterTyped
  <2>4. QED
    BY <2>1, <2>2, <2>3, <1>0, HonestKept
<1>3. CASE Answered
  <2>1. ShifterTyped' /\ run' \in {run, "new"}
    BY <1>3, ShifterSteps DEF Answered
  <2>2. told' = told /\ req' = None
    BY <1>3 DEF Answered
  <2>3. unread' \in Requests
    <3>1. req \in Requests
      BY DEF BusTyped
    <3>2. CASE unread' = None
      BY <3>2, NoneTyped
    <3>3. CASE req[1] \in {"id", "poll", "sum", "ver"}
               /\ unread' = <<req[1], IF slot = Image THEN 1 ELSE 0>>
      BY <3>1, <3>3, Sizes DEF Requests
    <3>4. QED
      BY <3>2, <3>3, <1>3 DEF Answered
  <2>4. BusTyped'
    BY <1>3, <2>2, <2>3, CountTyped, NoneTyped DEF Answered, BusTyped
  <2>5. Honest'
    <3>1. CASE run' = "new"
      BY <3>1 DEF Honest
    <3>2. CASE run' # "new"
      <4>1. run # "new"
        BY <2>1, <3>2
      <4>2. ans' # "ok"
        BY <4>1, <2>2 DEF Honest, told
      <4>3. ~(unread'[1] = "sum" /\ unread'[2] = 1)
        <5> SUFFICES ASSUME unread'[1] = "sum", unread'[2] = 1
                     PROVE  FALSE
          OBVIOUS
        <5>1. unread' # None
          BY NoneTyped
        <5>2. unread' = <<req[1], IF slot = Image THEN 1 ELSE 0>>
          BY <5>1, <1>3 DEF Answered
        <5>3. req[1] = "sum" /\ slot = Image
          BY <5>2
        <5>4. Serve("sum", req[2])
          BY <5>3, <1>3 DEF Answered
        <5>5. QED
          BY <5>3, <5>4, SumStarts, <3>2
      <4>4. QED
        BY <4>1, <4>2, <4>3, <1>0 DEF Honest
    <3>3. QED
      BY <3>1, <3>2
  <2>6. QED
    BY <2>1, <2>2, <2>4, <2>5, <1>0 DEF told
<1>4. CASE Silent
  <2>1. power' = power /\ told' = told /\ unread' = unread /\ req' = None
    BY <1>4 DEF Silent
  <2>2. Serve(req[1], req[2]) \/ Swallow(req[1]) \/ Keep
    BY <1>4 DEF Silent
  <2>3. ShifterTyped' /\ run' \in {run, "new"}
    BY <2>1, <2>2, ShifterSteps
  <2>4. BusTyped'
    BY <1>4, <2>1, CountTyped, NoneTyped DEF Silent, BusTyped
  <2>5. QED
    BY <2>1, <2>3, <2>4, <1>0, HonestKept DEF told
<1>5. CASE Waiting
  <2>1. UNCHANGED <<req, unread, told, device>> /\ Count(0)
    BY <1>5 DEF Waiting
  <2>2. BusTyped'
    BY <2>1, CountTyped DEF BusTyped
  <2>3. ShifterTyped' /\ run' = run /\ ans' = ans /\ id' = id /\ ver' = ver
    BY <2>1 DEF device, ota, told, ShifterTyped
  <2>4. QED
    BY <2>1, <2>2, <2>3, <1>0, HonestKept
<1>6. QED
  BY <1>1, <1>2, <1>3, <1>4, <1>5

\* A pass of the pump keeps the invariant (shifter.c:1120).
LEMMA MonitorKeeps == IInv /\ Monitor => IInv'
<1> SUFFICES ASSUME IInv, Monitor
             PROVE  IInv'
  OBVIOUS
<1>1. pc' = "control" /\ PumpKeeps
  BY DEF Monitor, PumpKeeps
<1>2. BusTyped' /\ ShifterTyped' /\ Honest' /\ id' \in BOOLEAN /\ ver' \in BOOLEAN
  <2>1. CASE supply /\ active
    BY <2>1, <1>1, PumpSteps DEF Monitor
  <2>2. CASE ~(supply /\ active)
    <3>1. result' = 0 /\ UNCHANGED <<q, req, unread, errors, lost, told, device>>
      BY <2>2 DEF Monitor
    <3>2. BusTyped'
      BY <3>1 DEF IInv, BusTyped
    <3>3. ShifterTyped' /\ run' = run
      BY <3>1 DEF IInv, ShifterTyped, device, ota
    <3>4. Honest' /\ id' \in BOOLEAN /\ ver' \in BOOLEAN
      BY <3>1, <3>3, <1>1, HonestKept DEF IInv, UpdateTyped, told, PumpKeeps, updv
    <3>5. QED
      BY <3>2, <3>3, <3>4
  <2>3. QED
    BY <2>1, <2>2
<1>3. ControlTyped' /\ TimersTyped'
  BY <1>1 DEF IInv, PumpKeeps, ControlTyped, TimersTyped, contv
<1>4. UpdateTyped'
  BY <1>1, <1>2 DEF IInv, PumpKeeps, UpdateTyped, updv
<1>5. Counted'
  BY <1>1 DEF IInv, PumpKeeps, Counted, updv
<1>6. QED
  BY <1>1, <1>2, <1>3, <1>4, <1>5 DEF IInv

(* The control machine. *)

LEMMA Sendable ==
  /\ <<>> \in Seq(Kinds) /\ <<"id">> \in Seq(Kinds) /\ <<"poll">> \in Seq(Kinds)
  /\ <<"set">> \in Seq(Kinds) /\ <<"poll", "poll">> \in Seq(Kinds)
  /\ <<"set", "set">> \in Seq(Kinds) /\ <<"set", "set", "set">> \in Seq(Kinds)
  /\ <<"erase">> \in Seq(Kinds) /\ <<"block">> \in Seq(Kinds) /\ <<"sum">> \in Seq(Kinds)
  /\ <<"reset">> \in Seq(Kinds) /\ <<"ver">> \in Seq(Kinds)
  /\ <<"reset", "ver">> \in Seq(Kinds)
BY DEF Kinds

\* Timers after a step of the control machine: that of the update is as it was.
Beside(t) == t \in [Timers -> {"none", "run", "idle"}] /\ t["upd"] = tm["upd"]

LEMMA TimerSet ==
  ASSUME TimersTyped, NEW t \in Timers
  PROVE  /\ Start(t) \in [Timers -> {"none", "run", "idle"}]
         /\ Release(t) \in [Timers -> {"none", "run", "idle"}]
         /\ Start(t)[t] = "run" /\ Release(t)[t] = "none"
         /\ t # "upd" => Beside(Start(t)) /\ Beside(Release(t))
BY DEF TimersTyped, Start, Release, Beside, Timers

ControlStates == {0} \union 3..17
Moved == /\ q' \in Seq(Kinds \X (0..Blocks)) /\ Len(q') <= Depth
         /\ ctl' \in ControlStates /\ Beside(tm')

LEMMA DoTyped ==
  ASSUME BusTyped, off \in 0..Blocks, NEW s \in ControlStates, NEW sent \in Seq(Kinds),
         NEW t, Beside(t), Do(s, sent, t)
  PROVE  Moved
BY PushTyped DEF Do, Moved

Controlled == /\ Moved /\ ShifterTyped' /\ run' \in {run, "new"}
              /\ seq' \in 0..Polls /\ asked' \in 0..Asks
              /\ active' \in BOOLEAN /\ lost' \in BOOLEAN

LEMMA ControlSteps ==
  ASSUME IInv,
         \/ AskId \/ PowerOn \/ AwaitId \/ Known \/ ReadAll \/ ReadMt \/ Drive
         \/ Change \/ Changed \/ Calibration \/ PowerOff \/ Await
  PROVE  Controlled
<1>1. BusTyped /\ off \in 0..Blocks /\ TimersTyped /\ ShifterTyped
  BY DEF IInv, UpdateTyped
<1>2. /\ seq \in 0..Polls /\ asked \in 0..Asks /\ active \in BOOLEAN /\ lost \in BOOLEAN
      /\ ctl \in ControlStates
  BY DEF IInv, ControlTyped, BusTyped, ControlStates
<1>3. Beside(tm)
  BY <1>1 DEF TimersTyped, Beside
<1>4. {"on", "off", "poll", "gear", "zero", "seq"} \subseteq Timers \ {"upd"}
  BY DEF Timers
<1>5. \A t \in Timers \ {"upd"} : Beside(Start(t)) /\ Beside(Release(t))
  BY <1>1, TimerSet
<1>6. ASSUME UNCHANGED <<power, ota, slot, run>>
      PROVE  ShifterTyped' /\ run' \in {run, "new"}
  BY <1>6, <1>1 DEF ota, ShifterTyped
<1>7. ASSUME Same, Moved
      PROVE  Controlled
  BY <1>7, <1>6, <1>2 DEF Same, Controlled
<1>8. ASSUME NEW s \in ControlStates, NEW sent \in Seq(Kinds), NEW t, Beside(t), Do(s, sent, t)
      PROVE  Moved
  BY <1>1, <1>8, DoTyped
<1> USE Sendable
<1>11. CASE AskId
  <2>1. Do(4, <<"id">>, Start("on")) /\ 4 \in ControlStates
    BY <1>11 DEF AskId, ControlStates
  <2>2. Moved
    BY <2>1, <1>4, <1>5, <1>8
  <2>3. QED
    BY <2>2, <1>7, <1>11 DEF AskId
<1>12. CASE PowerOn
  <2>1. CASE /\ Do(3, <<>>, Start("on")) /\ power' = TRUE /\ (IF power THEN Keep ELSE Boots)
             /\ UNCHANGED <<seq, asked, lost, active>>
    <3>0. 3 \in ControlStates
      BY DEF ControlStates
    <3>1. Moved
      BY <2>1, <3>0, <1>4, <1>5, <1>8
    <3>2. ShifterTyped' /\ run' \in {run, "new"}
      <4>1. CASE power
        BY <4>1, <2>1, <1>1 DEF Keep, ota, ShifterTyped
      <4>2. CASE ~power
        BY <4>2, <2>1, <1>1, BootsStep
      <4>3. QED
        BY <4>1, <4>2
    <3>3. QED
      BY <3>1, <3>2, <2>1, <1>2 DEF Controlled
  <2>2. CASE Do(0, <<>>, tm) /\ active' = TRUE /\ UNCHANGED <<seq, asked, lost, device>>
    <3>1. Moved
      BY <2>2, <1>3, <1>8 DEF ControlStates
    <3>2. QED
      BY <3>1, <2>2, <1>2, <1>6 DEF Controlled, device
  <2>3. QED
    BY <1>12, <2>1, <2>2 DEF PowerOn
<1>13. CASE AwaitId
  <2>1. Moved
    <3>1. \/ Do(7, <<>>, Start("on")) \/ Do(8, <<>>, Start("on"))
          \/ Do(0, <<>>, tm) \/ Do(17, <<>>, tm)
      BY <1>13 DEF AwaitId
    <3>2. {0, 7, 8, 17} \subseteq ControlStates
      BY DEF ControlStates
    <3>3. Beside(Start("on"))
      BY <1>4, <1>5
    <3>4. QED
      BY <3>1, <3>2, <3>3, <1>3, <1>8
  <2>2. asked' \in 0..Asks
    <3>1. asked' = asked \/ (asked < Asks /\ asked' = asked + 1)
      BY <1>13 DEF AwaitId
    <3>2. QED
      BY <3>1, <1>2, Sizes
  <2>3. lost' \in BOOLEAN
    BY <1>13, <1>2 DEF AwaitId
  <2>4. seq' = seq /\ active' = active /\ UNCHANGED device
    BY <1>13 DEF AwaitId
  <2>5. QED
    BY <2>1, <2>2, <2>3, <2>4, <1>2, <1>6 DEF Controlled, device
<1>14. CASE Known
  <2>1. Do(9, <<>>, Release("on")) \/ Do(11, <<>>, Release("on"))
    BY <1>14 DEF Known
  <2>2. {9, 11} \subseteq ControlStates
    BY DEF ControlStates
  <2>3. Moved
    BY <2>1, <2>2, <1>4, <1>5, <1>8
  <2>4. QED
    BY <2>3, <1>7, <1>14 DEF Known
<1>15. CASE ReadAll
  <2>1. seq' \in 0..Polls
    <3>1. seq' = 0 \/ (seq < Polls /\ seq' = seq + 1)
      BY <1>15 DEF ReadAll
    <3>2. QED
      BY <3>1, <1>2, Sizes
  <2>2. Moved
    <3> DEFINE both == [tm EXCEPT !["seq"] = "none", !["on"] = "run"]
    <3>1. \/ Do(7, <<>>, Start("seq")) \/ Do(7, <<"poll">>, Start("seq"))
          \/ Do(6, <<>>, both)
      BY <1>15 DEF ReadAll
    <3>2. Beside(both)
      BY <1>1 DEF TimersTyped, Beside, Timers
    <3>3. {6, 7} \subseteq ControlStates
      BY DEF ControlStates
    <3> HIDE DEF both
    <3>4. QED
      BY <3>1, <3>2, <3>3, <1>4, <1>5, <1>8
  <2>3. UNCHANGED <<asked, lost, active, device>>
    BY <1>15 DEF ReadAll
  <2>4. QED
    BY <2>1, <2>2, <2>3, <1>2, <1>6 DEF Controlled, device
<1>16. CASE ReadMt
  <2>1. Do(6, <<"poll", "poll">>, Start("on")) /\ 6 \in ControlStates
    BY <1>16 DEF ReadMt, ControlStates
  <2>2. Moved
    BY <2>1, <1>4, <1>5, <1>8
  <2>3. QED
    BY <2>2, <1>7, <1>16 DEF ReadMt
<1>17. CASE Drive
  <2> DEFINE sent == IF Idle("poll") THEN <<"poll">> ELSE <<>>
             t    == IF tm["poll"] = "run" THEN tm ELSE Start("poll")
  <2>1. sent \in Seq(Kinds) /\ sent \o <<"set">> \in Seq(Kinds)
    <3>1. sent \in Seq(Kinds)
      OBVIOUS
    <3> HIDE DEF sent
    <3>2. QED
      BY <3>1
  <2>2. Beside(t)
    BY <1>3, <1>4, <1>5
  <2>3. Beside([t EXCEPT !["poll"] = "none"])
    <3> HIDE DEF t
    <3>1. QED
      BY <2>2 DEF Beside, Timers
  <2>4. {ctl, 20 - ctl, 10, 11} \subseteq ControlStates
    BY <1>17 DEF Drive, ControlStates
  <2>5. \/ Do(ctl, sent, t) \/ Do(20 - ctl, sent, t) \/ Do(10, sent, t)
        \/ Do(11, sent \o <<"set">>, [t EXCEPT !["poll"] = "none"])
    BY <1>17 DEF Drive
  <2> HIDE DEF sent, t
  <2>6. Moved
    <3>1. CASE Do(ctl, sent, t)
      BY <3>1, <2>1, <2>2, <2>4, <1>8
    <3>2. CASE Do(20 - ctl, sent, t)
      BY <3>2, <2>1, <2>2, <2>4, <1>8
    <3>3. CASE Do(10, sent, t)
      BY <3>3, <2>1, <2>2, <2>4, <1>8
    <3>4. CASE Do(11, sent \o <<"set">>, [t EXCEPT !["poll"] = "none"])
      BY <3>4, <2>1, <2>3, <2>4, <1>8
    <3>5. QED
      BY <2>5, <3>1, <3>2, <3>3, <3>4
  <2>7. QED
    BY <2>6, <1>7, <1>17 DEF Drive
<1>18. CASE Change
  <2>1. Do(12, <<"set">>, Release("poll")) /\ 12 \in ControlStates
    BY <1>18 DEF Change, ControlStates
  <2>2. Moved
    BY <2>1, <1>4, <1>5, <1>8
  <2>3. UNCHANGED <<seq, asked, lost, active, device>>
    BY <1>18 DEF Change
  <2>4. QED
    BY <2>2, <2>3, <1>2, <1>6 DEF Controlled, device
<1>19. CASE Changed
  <2>1. \/ Do(12, <<>>, Start("gear"))
        \/ Do(9, <<>>, Release("gear")) \/ Do(17, <<>>, Release("gear"))
    BY <1>19 DEF Changed
  <2>2. {9, 12, 17} \subseteq ControlStates
    BY DEF ControlStates
  <2>3. Beside(Start("gear")) /\ Beside(Release("gear"))
    BY <1>4, <1>5
  <2>4. Moved
    BY <2>1, <2>2, <2>3, <1>8
  <2>5. QED
    BY <2>4, <1>7, <1>19 DEF Changed
<1>20. CASE Calibration
  <2>1. \/ Do(14, <<"set">>, Start("zero")) \/ Do(15, <<"set", "set">>, Start("zero"))
        \/ Do(16, <<"poll">>, Start("zero")) \/ Do(17, <<"set", "set">>, Release("zero"))
        \/ Do(17, <<"set", "set", "set">>, Release("zero"))
    BY <1>20 DEF Calibration
  <2>2. {14, 15, 16, 17} \subseteq ControlStates
    BY DEF ControlStates
  <2>3. Beside(Start("zero")) /\ Beside(Release("zero"))
    BY <1>4, <1>5
  <2>4. Moved
    BY <2>1, <2>2, <2>3, <1>8
  <2>5. QED
    BY <2>4, <1>7, <1>20 DEF Calibration
<1>21. CASE PowerOff
  <2>0. {5, 17} \subseteq ControlStates /\ UNCHANGED <<seq, asked, lost>>
    BY <1>21 DEF PowerOff, ControlStates
  <2>1. CASE Do(17, <<>>, Start("off")) /\ UNCHANGED <<active, device>>
    <3>1. Moved
      BY <2>0, <2>1, <1>4, <1>5, <1>8
    <3>2. QED
      BY <3>1, <2>0, <2>1, <1>2, <1>6 DEF Controlled, device
  <2>2. CASE /\ Do(5, <<>>, [tm EXCEPT !["off"] = "none", !["on"] = "none"])
             /\ active' = FALSE /\ power' = FALSE /\ Forget /\ UNCHANGED <<slot, run>>
    <3>1. Beside([tm EXCEPT !["off"] = "none", !["on"] = "none"])
      BY <1>1 DEF TimersTyped, Beside, Timers
    <3>2. Moved
      BY <2>0, <2>2, <3>1, <1>8
    <3>3. ShifterTyped'
      BY <2>2, ForgetTyped
    <3>4. QED
      BY <2>0, <2>2, <3>2, <3>3, <1>2 DEF Controlled
  <2>3. QED
    BY <1>21, <2>1, <2>2 DEF PowerOff
<1>22. CASE Await
  <2>1. Do(ctl, <<>>, tm) /\ UNCHANGED <<seq, asked, lost, active, device>>
    BY <1>22 DEF Await
  <2>2. Moved
    BY <2>1, <1>2, <1>3, <1>8
  <2>3. QED
    BY <2>1, <2>2, <1>2, <1>6 DEF Controlled, device
<1>23. QED
  BY <1>11, <1>12, <1>13, <1>14, <1>15, <1>16, <1>17, <1>18, <1>19, <1>20, <1>21, <1>22

\* A pass of the control machine keeps the invariant (shifter.c:1182).
LEMMA ControlKeeps == IInv /\ Control => IInv'
<1> SUFFICES ASSUME IInv, Control
             PROVE  IInv'
  OBVIOUS
<1>1. Controlled
  BY ControlSteps DEF Control
<1>2. /\ pc' = "update" /\ UNCHANGED <<req, unread, result, errors, supply, told>>
      /\ UNCHANGED <<upd, armed, outcome, off, again, asks, reads>>
  BY DEF Control, updv
<1>3. BusTyped'
  BY <1>1, <1>2 DEF IInv, BusTyped, Controlled, Moved
<1>4. ControlTyped'
  BY <1>1, <1>2 DEF IInv, ControlTyped, Controlled, Moved, ControlStates
<1>5. TimersTyped' /\ ShifterTyped' /\ tm'["upd"] = tm["upd"]
  BY <1>1 DEF Controlled, Moved, Beside, TimersTyped
<1>6. UpdateTyped'
  BY <1>2 DEF IInv, UpdateTyped, told
<1>7. Counted'
  BY <1>2, <1>5 DEF IInv, Counted
<1>8. Honest'
  BY <1>1, <1>2, HonestKept DEF IInv, Controlled, told
<1>9. QED
  BY <1>2, <1>3, <1>4, <1>5, <1>6, <1>7, <1>8 DEF IInv

(* The update machine. *)

\* Timers after a step of the update machine.
TimersAre(t) == t \in [Timers -> {"none", "run", "idle"}]

\* The bus, the shifter and the new image after a step of the update machine.
Carried == /\ q' \in Seq(Kinds \X (0..Blocks)) /\ Len(q') <= Depth
           /\ TimersTyped' /\ ShifterTyped' /\ run' \in {run, "new"}
           /\ active' \in BOOLEAN /\ UNCHANGED <<req, unread>>

LEMMA GoTyped ==
  ASSUME BusTyped, off \in 0..Blocks, NEW u, NEW sent \in Seq(Kinds),
         NEW t, TimersAre(t), Go(u, sent, t)
  PROVE  q' \in Seq(Kinds \X (0..Blocks)) /\ Len(q') <= Depth /\ TimersTyped'
BY PushTyped DEF Go, TimersAre, TimersTyped

\* A state of the update that is reached otherwise than by a good answer.
Early == {0, 1, 2, 3, 4, 5, 6, 7, 8, 9, 10, 11, 12, 16, 19}

LEMMA EarlyHonest ==
  ASSUME Honest, run' \in {run, "new"}, unread' = unread, upd' \in Early,
         ans' \in {ans, "none"}, outcome' \in {outcome, 0, 2, 3}
  PROVE  Honest'
BY DEF Honest, Early

\* Once the answer was good, the new image runs, and nothing takes it back.
LEMMA LateHonest ==
  ASSUME Honest, run' \in {run, "new"},
         upd \in {13, 14, 15, 18} \/ ans = "ok"
  PROVE  Honest'
BY DEF Honest

LEMMA UpdateSteps ==
  ASSUME IInv,
         \/ Arm \/ SwitchOn \/ Identify \/ Validate \/ EraseSlot \/ AwaitErase
         \/ SendBlock \/ AwaitBlock \/ AskSum \/ AskAgain \/ AwaitAgain \/ AwaitSum
         \/ AskVersion \/ End \/ Resting
  PROVE  Carried /\ UpdateTyped' /\ Counted' /\ Honest'
<1>1. BusTyped /\ TimersTyped /\ ShifterTyped /\ UpdateTyped /\ Counted /\ Honest
  BY DEF IInv
<1>2. off \in 0..Blocks /\ active \in BOOLEAN /\ TimersAre(tm)
  BY <1>1 DEF IInv, UpdateTyped, ControlTyped, TimersTyped, TimersAre
<1>3. /\ TimersAre(Start("upd")) /\ Start("upd")["upd"] = "run"
      /\ TimersAre(Release("upd")) /\ Release("upd")["upd"] = "none"
  BY <1>1, TimerSet DEF Timers, TimersAre
<1>4. TimersAre(Restarted)
  BY <1>2, <1>3 DEF Restarted
<1>5. ASSUME UNCHANGED device
      PROVE  ShifterTyped' /\ run' \in {run, "new"}
  BY <1>1, <1>5 DEF device, ota, ShifterTyped
<1>6. ASSUME NEW u, NEW sent \in Seq(Kinds), NEW t, TimersAre(t), Go(u, sent, t),
             UNCHANGED <<device, req, unread>>, active' = active
      PROVE  Carried /\ upd' = u /\ tm' = t
  <2>1. q' \in Seq(Kinds \X (0..Blocks)) /\ Len(q') <= Depth /\ TimersTyped'
    BY <1>1, <1>2, <1>6, GoTyped
  <2>2. QED
    BY <2>1, <1>2, <1>5, <1>6 DEF Carried, Go
<1>7. ASSUME q' \in {q, <<>>}, TimersAre(tm'), UNCHANGED <<device, req, unread>>, active' = active
      PROVE  Carried
  <2>1. q' \in Seq(Kinds \X (0..Blocks)) /\ Len(q') <= Depth
    <3>1. CASE q' = q
      BY <3>1, <1>1 DEF BusTyped
    <3>2. CASE q' = <<>>
      BY <3>2, Sizes
    <3>3. QED
      BY <3>1, <3>2, <1>7
  <2>2. QED
    BY <2>1, <1>2, <1>5, <1>7 DEF Carried, TimersAre, TimersTyped
<1> USE Sendable
<1>11. CASE Arm
  <2>1. Go(2, <<>>, tm) /\ armed' = TRUE
        /\ UNCHANGED <<req, unread, outcome, off, again, asks, reads, told, active, device>>
    BY <1>11 DEF Arm
  <2>2. Carried /\ upd' = 2 /\ tm' = tm
    BY <2>1, <1>2, <1>6
  <2>3. UpdateTyped'
    BY <2>1, <2>2, <1>1 DEF UpdateTyped, told
  <2>4. Counted'
    BY <2>2 DEF Counted
  <2>5. Honest'
    BY <2>1, <2>2, <1>1, EarlyHonest DEF Carried, Early, told
  <2>6. QED
    BY <2>2, <2>3, <2>4, <2>5
<1>12. CASE SwitchOn
  <2>1. /\ UNCHANGED <<req, unread, armed, off, again, reads, told, active>>
        /\ upd = 2 /\ outcome' = 0
    BY <1>12 DEF SwitchOn
  <2>2. CASE /\ Go(2, <<>>, Start("upd")) /\ power' = TRUE /\ Boots /\ UNCHANGED asks
    <3>1. q' \in Seq(Kinds \X (0..Blocks)) /\ Len(q') <= Depth /\ TimersTyped'
      BY <2>2, <1>1, <1>2, <1>3, GoTyped
    <3>2. ShifterTyped' /\ run' \in {run, "new"} /\ upd' = 2 /\ asks' = asks
      BY <2>2, <1>1, BootsStep DEF Go
    <3>3. Carried
      BY <3>1, <3>2, <2>1, <1>2 DEF Carried
    <3>4. UpdateTyped'
      BY <3>2, <2>1, <1>1 DEF UpdateTyped, told
    <3>5. Counted'
      BY <3>2 DEF Counted
    <3>6. Honest'
      BY <3>2, <2>1, <1>1, EarlyHonest DEF Early, told
    <3>7. QED
      BY <3>3, <3>4, <3>5, <3>6
  <2>3. CASE tm["upd"] = "none" /\ Go(3, <<>>, tm) /\ UNCHANGED <<asks, device>>
    <3>1. Carried /\ upd' = 3 /\ tm' = tm
      BY <2>1, <2>3, <1>2, <1>6
    <3>2. UpdateTyped'
      BY <3>1, <2>1, <2>3, <1>1 DEF UpdateTyped, told
    <3>3. Counted'
      BY <3>1, <2>3 DEF Counted
    <3>4. Honest'
      BY <3>1, <2>1, <1>1, EarlyHonest DEF Carried, Early, told
    <3>5. QED
      BY <3>1, <3>2, <3>3, <3>4
  <2>4. CASE Go(3, <<>>, Release("upd")) /\ asks' = 0 /\ UNCHANGED device
    <3>1. Carried /\ upd' = 3 /\ tm' = Release("upd")
      BY <2>1, <2>4, <1>3, <1>6
    <3>2. UpdateTyped'
      BY <3>1, <2>1, <2>4, <1>1, Sizes DEF UpdateTyped, told
    <3>3. Counted'
      BY <3>1, <1>3 DEF Counted
    <3>4. Honest'
      BY <3>1, <2>1, <1>1, EarlyHonest DEF Carried, Early, told
    <3>5. QED
      BY <3>1, <3>2, <3>3, <3>4
  <2>5. QED
    BY <1>12, <2>2, <2>3, <2>4 DEF SwitchOn
<1>13. CASE Identify
  <2>1. /\ UNCHANGED <<req, unread, armed, off, again, reads, told, device, outcome>>
        /\ upd = 3 /\ upd' = IF id \/ asks' = Asks THEN 4 ELSE 3
    BY <1>13 DEF Identify
  <2>2. upd' \in {3, 4} /\ (upd' = 3 => asks' # Asks)
    BY <2>1
  <2>3. CASE tm["upd"] = "none" /\ active' = TRUE /\ tm' = Start("upd")
             /\ q' = Push(<<"id">>, q) /\ UNCHANGED asks
    <3>1. Carried
      BY <2>3, <2>1, <1>1, <1>2, <1>3, <1>5, PushTyped DEF Carried, TimersAre, TimersTyped
    <3>2. asks' \in 0..Asks
      BY <2>3, <1>1 DEF UpdateTyped
    <3>3. UpdateTyped'
      BY <2>1, <2>2, <3>2, <1>1 DEF UpdateTyped, told
    <3>4. Counted'
      BY <2>2, <3>2, Sizes DEF Counted
    <3>5. QED
      BY <3>1, <3>3, <3>4, <2>1, <2>2, <1>1, EarlyHonest DEF Carried, Early, told
  <2>4. CASE U /\ asks' = asks + 1 /\ tm' = Release("upd") /\ UNCHANGED <<q, active>>
    <3>1. Carried
      BY <2>4, <2>1, <1>3, <1>7 DEF TimersAre
    <3>2. asks < Asks
      BY <2>4, <2>1, <1>1 DEF Counted, U, Idle
    <3>3. asks' \in 0..Asks
      BY <2>4, <3>2, <1>1, Sizes DEF UpdateTyped
    <3>4. UpdateTyped'
      BY <2>1, <2>2, <3>3, <1>1 DEF UpdateTyped, told
    <3>5. Counted'
      BY <2>2, <2>4, <1>3 DEF Counted
    <3>6. QED
      BY <3>1, <3>4, <3>5, <2>1, <2>2, <1>1, EarlyHonest DEF Carried, Early, told
  <2>5. CASE tm["upd"] = "run" /\ UNCHANGED <<q, tm, asks, active>>
    <3>1. Carried
      BY <2>5, <2>1, <1>2, <1>7
    <3>2. asks < Asks
      BY <2>5, <2>1, <1>1 DEF Counted
    <3>3. UpdateTyped'
      BY <2>1, <2>2, <2>5, <1>1 DEF UpdateTyped, told
    <3>4. Counted'
      BY <2>2, <2>5, <3>2 DEF Counted
    <3>5. QED
      BY <3>1, <3>3, <3>4, <2>1, <2>2, <1>1, EarlyHonest DEF Carried, Early, told
  <2>6. QED
    BY <1>13, <2>3, <2>4, <2>5 DEF Identify
<1>14. CASE Validate
  <2>1. /\ UNCHANGED <<q, tm, req, unread, armed, off, again, asks, reads, told, active, device>>
        /\ outcome' = 0 /\ upd' \in {5, 6, 16}
    BY <1>14 DEF Validate
  <2>2. Carried
    BY <2>1, <1>2, <1>7
  <2>3. UpdateTyped'
    BY <2>1, <1>1 DEF UpdateTyped, told
  <2>4. Counted'
    BY <2>1 DEF Counted
  <2>5. QED
    BY <2>1, <2>2, <2>3, <2>4, <1>1, EarlyHonest DEF Carried, Early, told
<1>15. CASE EraseSlot
  <2>1. /\ UNCHANGED <<req, unread, armed, outcome, again, asks, reads, told, active, device>>
        /\ Go(7, <<"erase">>, Restarted) /\ off' = 0
    BY <1>15 DEF EraseSlot
  <2>2. Carried /\ upd' = 7
    BY <2>1, <1>4, <1>6
  <2>3. UpdateTyped'
    BY <2>1, <2>2, <1>1, Sizes DEF UpdateTyped, told
  <2>4. Counted'
    BY <2>1, <2>2 DEF Counted
  <2>5. QED
    BY <2>1, <2>2, <2>3, <2>4, <1>1, EarlyHonest DEF Carried, Early, told
<1>16. CASE AwaitErase
  <2>1. /\ UNCHANGED <<req, unread, armed, outcome, off, asks, reads, told, active, device>>
        /\ upd = 7
    BY <1>16 DEF AwaitErase
  <2>2. /\ q' \in {q, <<>>} /\ tm' \in {tm, Start("upd")} /\ upd' \in {7, 8, 16, 19}
    BY <1>16 DEF AwaitErase, Once, Failed
  <2>3. again' \in 0..Retries + 1 /\ (upd' = 19 => again' <= Retries)
    <3>1. \/ again < Retries /\ again' = again + 1
          \/ again' = Retries + 1 /\ upd' # 19
          \/ again' = again /\ upd' # 19
      BY <1>16 DEF AwaitErase, Once, Failed
    <3>2. QED
      BY <3>1, <1>1, Sizes DEF UpdateTyped
  <2>4. Carried
    BY <2>1, <2>2, <1>2, <1>3, <1>7
  <2>5. UpdateTyped'
    BY <2>1, <2>2, <2>3, <1>1 DEF UpdateTyped, told
  <2>6. off' = 0
    BY <2>1, <1>1 DEF Counted
  <2>7. Counted'
    BY <2>2, <2>3, <2>6, Sizes DEF Counted
  <2>8. QED
    BY <2>1, <2>2, <2>4, <2>5, <2>7, <1>1, EarlyHonest DEF Carried, Early, told
<1>17. CASE SendBlock
  <2>1. /\ UNCHANGED <<req, unread, armed, outcome, again, asks, reads, told, active, device>>
        /\ Go(9, <<"block">>, Restarted) /\ off' = off + 1 /\ upd = 8
    BY <1>17 DEF SendBlock
  <2>2. Carried /\ upd' = 9
    BY <2>1, <1>4, <1>6
  <2>3. off' \in 0..Blocks
    BY <2>1, <1>1, <1>2, Sizes DEF Counted
  <2>4. UpdateTyped'
    BY <2>1, <2>2, <2>3, <1>1 DEF UpdateTyped, told
  <2>5. Counted'
    BY <2>2 DEF Counted
  <2>6. QED
    BY <2>1, <2>2, <2>4, <2>5, <1>1, EarlyHonest DEF Carried, Early, told
<1>18. CASE AwaitBlock
  <2>1. UNCHANGED <<req, unread, armed, outcome, off, asks, reads, told, active>>
    BY <1>18 DEF AwaitBlock
  <2>2. /\ q' \in {q, <<>>} /\ tm' \in {tm, Start("upd")} /\ upd' \in {8, 9, 10, 16, 19}
        /\ (upd' = 8 => off < Blocks)
    BY <1>18 DEF AwaitBlock, Once, Failed
  <2>3. again' \in 0..Retries + 1 /\ (upd' = 19 => again' <= Retries)
    <3>1. \/ again < Retries /\ again' = again + 1
          \/ again' = Retries + 1 /\ upd' # 19
          \/ again' = again /\ upd' # 19
      BY <1>18 DEF AwaitBlock, Once, Failed
    <3>2. QED
      BY <3>1, <1>1, Sizes DEF UpdateTyped
  <2>4. ShifterTyped' /\ run' \in {run, "new"}
    <3>1. (power' = TRUE /\ Boots) \/ UNCHANGED device
      BY <1>18 DEF AwaitBlock
    <3>2. QED
      BY <3>1, <1>1, <1>5, BootsStep
  <2>5. Carried
    <3>1. q' \in Seq(Kinds \X (0..Blocks)) /\ Len(q') <= Depth
      <4>1. CASE q' = q
        BY <4>1, <1>1 DEF BusTyped
      <4>2. CASE q' = <<>>
        BY <4>2, Sizes
      <4>3. QED
        BY <4>1, <4>2, <2>2
    <3>2. TimersTyped'
      BY <2>2, <1>2, <1>3 DEF TimersAre, TimersTyped
    <3>3. QED
      BY <3>1, <3>2, <2>1, <2>4, <1>2 DEF Carried
  <2>6. UpdateTyped'
    BY <2>1, <2>2, <2>3, <1>1 DEF UpdateTyped, told
  <2>7. Counted'
    BY <2>1, <2>2, <2>3 DEF Counted
  <2>8. QED
    BY <2>1, <2>2, <2>4, <2>5, <2>6, <2>7, <1>1, EarlyHonest DEF Early, told
<1>19. CASE AskSum
  <2>1. /\ UNCHANGED <<req, unread, armed, outcome, off, again, asks, reads, id, ver, active, device>>
        /\ Go(12, <<"sum">>, Restarted) /\ ans' = "none"
    BY <1>19 DEF AskSum
  <2>2. Carried /\ upd' = 12
    BY <2>1, <1>4, <1>6
  <2>3. UpdateTyped'
    BY <2>1, <2>2, <1>1 DEF UpdateTyped
  <2>4. Counted'
    BY <2>2 DEF Counted
  <2>5. QED
    BY <2>1, <2>2, <2>3, <2>4, <1>1, EarlyHonest DEF Carried, Early
<1>20. CASE AskAgain
  <2>1. /\ UNCHANGED <<req, unread, armed, outcome, off, asks, reads, ver, ans, active, device>>
        /\ Go(11, <<"id">>, Start("upd")) /\ again' = again + 1 /\ id' = FALSE /\ upd = 19
    BY <1>20 DEF AskAgain
  <2>2. Carried /\ upd' = 11
    BY <2>1, <1>3, <1>6
  <2>3. again' \in 0..Retries + 1
    <3>1. again \in 0..Retries + 1
      BY <1>1 DEF UpdateTyped
    <3>2. again <= Retries
      BY <2>1, <1>1 DEF Counted
    <3>3. QED
      BY <3>1, <3>2, <2>1, Sizes
  <2>4. UpdateTyped'
    <3>1. id' \in BOOLEAN
      BY <2>1
    <3>2. QED
      BY <3>1, <2>1, <2>2, <2>3, <1>1 DEF UpdateTyped
  <2>5. Counted'
    BY <2>2 DEF Counted
  <2>6. QED
    BY <2>1, <2>2, <2>4, <2>5, <1>1, EarlyHonest DEF Carried, Early
<1>21. CASE AwaitAgain
  <2>1. /\ UNCHANGED <<q, reads, req, unread, armed, outcome, off, again, asks, told, active, device>>
        /\ tm' \in {tm, Start("upd")} /\ upd' \in {5, 11, 16, 19}
        /\ (upd' = 19 => ~(again > Retries))
    BY <1>21 DEF AwaitAgain, Rest
  <2>2. Carried
    BY <2>1, <1>2, <1>3, <1>7
  <2>3. UpdateTyped'
    BY <2>1, <1>1 DEF UpdateTyped, told
  <2>4. Counted'
    <3>1. again \in 0..Retries + 1
      BY <1>1 DEF UpdateTyped
    <3>2. upd' = 19 => again' <= Retries
      BY <2>1, <3>1, Sizes
    <3>3. QED
      BY <2>1, <3>2 DEF Counted
  <2>5. QED
    BY <2>1, <2>2, <2>3, <2>4, <1>1, EarlyHonest DEF Carried, Early, told
<1>22. CASE AwaitSum
  <2>1. /\ UNCHANGED <<q, req, unread, armed, outcome, off, again, asks, told, active, device>>
    BY <1>22 DEF AwaitSum, Rest
  <2>2. CASE ans = "ok"
    <3>1. upd' = 13 /\ tm' = Restarted /\ reads' = 0
      BY <2>2, <1>22 DEF AwaitSum, Passed
    <3>2. Carried
      BY <3>1, <2>1, <1>4, <1>7
    <3>3. UpdateTyped'
      BY <3>1, <2>1, <1>1, Sizes DEF UpdateTyped, told
    <3>4. Counted'
      BY <3>1 DEF Counted
    <3>5. QED
      BY <2>2, <3>2, <3>3, <3>4, <1>1, LateHonest DEF Carried
  <2>3. CASE ans # "ok"
    <3>1. upd' \in {12, 16} /\ tm' = tm /\ reads' = reads
      BY <2>3, <1>22 DEF AwaitSum
    <3>2. Carried
      BY <3>1, <2>1, <1>2, <1>7
    <3>3. UpdateTyped'
      BY <3>1, <2>1, <1>1 DEF UpdateTyped, told
    <3>4. Counted'
      BY <3>1 DEF Counted
    <3>5. QED
      BY <2>1, <3>1, <3>2, <3>3, <3>4, <1>1, EarlyHonest DEF Carried, Early, told
  <2>4. QED
    BY <2>2, <2>3
<1>23. CASE AskVersion
  <2>1. UNCHANGED <<req, unread, armed, outcome, off, again, asks, id, ans, active, device>>
    BY <1>23 DEF AskVersion
  <2>2. reads \in 0..Asks + 1 /\ ver \in BOOLEAN
    BY <1>1 DEF UpdateTyped
  <2>3. CASE /\ upd = 13 /\ UNCHANGED <<reads, ver>>
             /\ \/ Go(14, <<"reset">>, Start("upd"))
                \/ Go(14, <<"reset", "ver">>, Start("upd"))
    <3>1. Carried /\ upd' = 14
      BY <2>1, <2>3, <1>3, <1>6
    <3>2. UpdateTyped'
      BY <3>1, <2>1, <2>3, <1>1 DEF UpdateTyped
    <3>3. reads' = 0
      BY <2>3, <1>1 DEF Counted
    <3>4. Counted'
      BY <3>1, <3>3, Sizes DEF Counted
    <3>5. QED
      BY <3>1, <3>2, <3>4, <2>3, <1>1, LateHonest DEF Carried
  <2>4. CASE upd = 14 /\ Go(15, <<"ver">>, Start("upd")) /\ reads' = reads + 1 /\ ver' = FALSE
    <3>1. Carried /\ upd' = 15
      BY <2>1, <2>4, <1>3, <1>6
    <3>2. reads <= Asks
      BY <2>4, <1>1 DEF Counted
    <3>3. reads' \in 0..Asks + 1
      BY <3>2, <2>2, <2>4, Sizes
    <3>4. UpdateTyped'
      <4>1. ver' \in BOOLEAN
        BY <2>4
      <4>2. QED
        BY <4>1, <3>1, <3>3, <2>1, <1>1 DEF UpdateTyped
    <3>5. Counted'
      BY <3>1 DEF Counted
    <3>6. QED
      BY <3>1, <3>4, <3>5, <2>4, <1>1, LateHonest DEF Carried
  <2>5. CASE /\ upd = 15 /\ UNCHANGED <<reads, ver, q, tm>>
             /\ upd' = IF reads > Asks THEN 16 ELSE IF ver THEN 18 ELSE IF U THEN 14 ELSE 15
    <3>1. upd' \in {14, 15, 16, 18} /\ (upd' = 14 => ~(reads > Asks))
      BY <2>5
    <3>2. Carried
      BY <2>1, <2>5, <1>2, <1>7
    <3>3. UpdateTyped'
      BY <3>1, <2>1, <2>5, <1>1 DEF UpdateTyped
    <3>4. upd' = 14 => reads' <= Asks
      BY <3>1, <2>2, <2>5, Sizes
    <3>5. Counted'
      BY <3>1, <3>4 DEF Counted
    <3>6. QED
      BY <3>2, <3>3, <3>5, <2>5, <1>1, LateHonest DEF Carried
  <2>6. QED
    BY <1>23, <2>3, <2>4, <2>5 DEF AskVersion
<1>24. CASE End
  <2>1. /\ UNCHANGED <<req, unread, armed, off, again, asks, reads, told, active, device>>
        /\ upd \in {6, 16, 18} /\ Go(0, <<>>, Release("upd"))
    BY <1>24 DEF End
  <2>2. Carried /\ upd' = 0
    BY <2>1, <1>3, <1>6
  <2>3. outcome' \in 1..3 /\ (upd # 18 => outcome' \in {2, 3})
    BY <1>24 DEF End
  <2>4. UpdateTyped'
    BY <2>1, <2>2, <2>3, <1>1 DEF UpdateTyped, told
  <2>5. Counted'
    BY <2>2 DEF Counted
  <2>6. Honest'
    <3>1. CASE upd = 18
      BY <3>1, <2>2, <1>1, LateHonest DEF Carried
    <3>2. CASE upd # 18
      BY <3>2, <2>1, <2>2, <2>3, <1>1, EarlyHonest DEF Carried, Early, told
    <3>3. QED
      BY <3>1, <3>2
  <2>7. QED
    BY <2>2, <2>4, <2>5, <2>6
<1>25. CASE Resting
  <2>1. /\ UNCHANGED <<q, req, unread, tm, told, active, device>>
        /\ UNCHANGED <<upd, armed, off, again, asks, reads>>
    BY <1>25 DEF Resting
  <2>2. outcome' \in {outcome, 0}
    BY <1>25 DEF Resting
  <2>3. Carried
    BY <2>1, <1>2, <1>7
  <2>4. UpdateTyped'
    BY <2>1, <2>2, <1>1 DEF UpdateTyped, told
  <2>5. Counted'
    BY <2>1, <1>1 DEF Counted
  <2>6. Honest'
    BY <2>1, <2>2, <2>3, <1>1 DEF Honest, Carried, told
  <2>7. QED
    BY <2>3, <2>4, <2>5, <2>6
<1>26. QED
  BY <1>11, <1>12, <1>13, <1>14, <1>15, <1>16, <1>17, <1>18, <1>19, <1>20, <1>21,
     <1>22, <1>23, <1>24, <1>25

\* A pass of the update machine keeps the invariant (shifter.c:1672).
LEMMA UpdateKeeps == IInv /\ Update => IInv'
<1> SUFFICES ASSUME IInv, Update
             PROVE  IInv'
  OBVIOUS
<1>1. Carried /\ UpdateTyped' /\ Counted' /\ Honest'
  BY UpdateSteps DEF Update
<1>2. pc' = "pump" /\ UNCHANGED <<result, errors, lost, supply, contv>>
  BY DEF Update
<1>3. BusTyped'
  BY <1>1, <1>2 DEF IInv, BusTyped, Carried
<1>4. ControlTyped'
  BY <1>1, <1>2 DEF IInv, ControlTyped, Carried, contv
<1>5. QED
  BY <1>1, <1>2, <1>3, <1>4 DEF IInv, Carried

(* What comes between two passes. *)

LEMMA BetweenKeeps ==
  IInv /\ (GiveUp \/ (\E t \in Timers : Expire(t)) \/ SetStep \/ Request \/ Supply) => IInv'
<1> SUFFICES ASSUME IInv, GiveUp \/ (\E t \in Timers : Expire(t)) \/ SetStep \/ Request \/ Supply
             PROVE  IInv'
  OBVIOUS
<1>1. CASE GiveUp
  <2>1. /\ UNCHANGED <<pc, link, lost, active, supply, contv, tm, updv, told, power>>
        /\ Give
    BY <1>1 DEF GiveUp
  <2>2. ShifterTyped' /\ run' = run
    BY <2>1, ForgetTyped DEF Give, IInv, ShifterTyped
  <2>3. BusTyped' /\ ControlTyped' /\ TimersTyped'
    BY <2>1 DEF IInv, BusTyped, ControlTyped, TimersTyped, link, contv
  <2>4. UpdateTyped' /\ Counted'
    BY <2>1 DEF IInv, UpdateTyped, Counted, updv, told
  <2>5. Honest'
    BY <2>1, <2>2, HonestKept DEF IInv, link, updv, told
  <2>6. QED
    BY <2>1, <2>2, <2>3, <2>4, <2>5 DEF IInv
<1>2. ASSUME NEW t \in Timers, Expire(t)
      PROVE  IInv'
  <2>1. /\ UNCHANGED <<pc, link, lost, active, supply, contv, updv, told, device>>
        /\ tm[t] = "run" /\ tm' = [tm EXCEPT ![t] = "idle"]
    BY <1>2 DEF Expire
  <2>2. TimersTyped' /\ (tm'["upd"] # "none" => tm["upd"] # "none")
    BY <2>1 DEF IInv, TimersTyped, Timers
  <2>3. BusTyped' /\ ControlTyped'
    BY <2>1 DEF IInv, BusTyped, ControlTyped, link, contv
  <2>4. ShifterTyped' /\ run' = run
    BY <2>1 DEF IInv, ShifterTyped, device, ota
  <2>5. UpdateTyped'
    BY <2>1 DEF IInv, UpdateTyped, updv, told
  <2>6. Counted'
    BY <2>1, <2>2 DEF IInv, Counted, updv
  <2>7. Honest'
    BY <2>1, <2>4, HonestKept DEF IInv, link, updv, told
  <2>8. QED
    BY <2>1, <2>2, <2>3, <2>4, <2>5, <2>6, <2>7 DEF IInv
<1>3. CASE SetStep \/ Request \/ Supply
  <2>1. /\ UNCHANGED <<pc, link, lost, seq, asked, tm, armed, outcome, off, again,
                       asks, reads, told, device>>
        /\ active' = active /\ supply' \in {supply, ~supply}
    BY <1>3 DEF SetStep, Request, Supply, Outside
  <2>2. /\ ctl' \in {ctl, 3, 10, 13}
        /\ upd' = upd \/ upd' \in {1, 2}
    BY <1>3 DEF SetStep, Request, Supply, Outside
  <2>3. BusTyped' /\ TimersTyped'
    BY <2>1 DEF IInv, BusTyped, TimersTyped, link
  <2>4. ControlTyped'
    <3>1. supply' \in BOOLEAN
      BY <2>1 DEF IInv, ControlTyped
    <3>2. ctl' \in {0} \union 3..17
      BY <2>2 DEF IInv, ControlTyped
    <3>3. QED
      BY <3>1, <3>2, <2>1 DEF IInv, ControlTyped
  <2>5. ShifterTyped' /\ run' = run
    BY <2>1 DEF IInv, ShifterTyped, device, ota
  <2>6. UpdateTyped'
    BY <2>1, <2>2 DEF IInv, UpdateTyped, told
  <2>7. Counted'
    BY <2>1, <2>2 DEF IInv, Counted
  <2>8. Honest'
    BY <2>1, <2>2, <2>5 DEF IInv, Honest, link, told
  <2>9. QED
    BY <2>1, <2>3, <2>4, <2>5, <2>6, <2>7, <2>8 DEF IInv
<1>4. QED
  BY <1>1, <1>2, <1>3

LEMMA InitHolds == Init => IInv
<1> SUFFICES ASSUME Init
             PROVE  IInv
  OBVIOUS
<1>1. BusTyped
  <2>1. req \in Requests /\ unread \in Requests /\ lost \in BOOLEAN
    BY NoneTyped DEF Init
  <2>2. q = <<>> /\ result = 0 /\ errors = 0
    BY DEF Init
  <2>3. QED
    BY <2>1, <2>2, Sizes DEF BusTyped
<1>2. ControlTyped
  <2>1. active \in BOOLEAN /\ supply \in BOOLEAN
    BY DEF Init
  <2>2. ctl \in {3, 5} /\ seq = 0 /\ asked = 0
    BY DEF Init
  <2>3. QED
    BY <2>1, <2>2, Sizes DEF ControlTyped
<1>3. TimersTyped /\ ShifterTyped
  <2>1. power \in BOOLEAN /\ first \in BOOLEAN /\ part \in BOOLEAN
    BY DEF Init
  <2>2. mode = 0 /\ rem = 0 /\ wp = 0
    BY DEF Init
  <2>3. TimersTyped
    BY DEF Init, TimersTyped
  <2>4. QED
    BY <2>1, <2>2, <2>3, Sizes DEF ShifterTyped
<1>4. upd \in {0, 2}
  BY DEF Init
<1>5. UpdateTyped
  <2>1. armed \in BOOLEAN /\ id \in BOOLEAN /\ ver \in BOOLEAN
    BY DEF Init
  <2>2. outcome = 0 /\ off = 0 /\ again = 0 /\ asks = 0 /\ reads = 0
    BY DEF Init
  <2>3. QED
    BY <1>4, <2>1, <2>2, Sizes DEF UpdateTyped
<1>6. Counted
  BY <1>4 DEF Counted
<1>7. Honest
  <2>1. unread[1] = "none" /\ ans = "none" /\ outcome = 0
    BY NoneTyped DEF Init
  <2>2. QED
    BY <2>1, <1>4 DEF Honest
<1>8. QED
  BY <1>1, <1>2, <1>3, <1>5, <1>6, <1>7 DEF IInv, Init

LEMMA StepKeeps == IInv /\ [Next]_vars => IInv'
<1> SUFFICES ASSUME IInv, [Next]_vars
             PROVE  IInv'
  OBVIOUS
<1>1. CASE Next
  BY <1>1, MonitorKeeps, ControlKeeps, UpdateKeeps, BetweenKeeps DEF Next
<1>2. CASE UNCHANGED vars
  <2>1. /\ UNCHANGED <<pc, link, lost, active, supply, contv, tm, updv, told, device>>
    BY <1>2 DEF vars
  <2>2. BusTyped' /\ ControlTyped' /\ TimersTyped'
    BY <2>1 DEF IInv, BusTyped, ControlTyped, TimersTyped, link, contv
  <2>3. ShifterTyped' /\ run' = run
    BY <2>1 DEF IInv, ShifterTyped, device, ota
  <2>4. UpdateTyped' /\ Counted'
    BY <2>1 DEF IInv, UpdateTyped, Counted, updv, told
  <2>5. Honest'
    BY <2>1, <2>3, HonestKept DEF IInv, link, updv, told
  <2>6. QED
    BY <2>1, <2>2, <2>3, <2>4, <2>5 DEF IInv
<1>3. QED
  BY <1>1, <1>2

\* Queue, counters, steps and registers stay in their ranges: the queue never
\* overflows, no counter of retries passes its limit (shifter.c:1182, 1672).
THEOREM ShifterTypeCorrect == Spec => []TypeOK
<1>1. IInv => TypeOK
  <2> SUFFICES ASSUME IInv
               PROVE  TypeOK
    OBVIOUS
  <2>1. /\ pc \in {"pump", "control", "update"} /\ q \in Seq(Kinds \X (0..Blocks))
        /\ Len(q) <= Depth /\ result \in 0..2 /\ errors \in 0..MaxErrors + 1
    BY DEF IInv, BusTyped
  <2>2. /\ ctl \in {0} \union 3..17 /\ seq \in 0..Polls /\ asked \in 0..Asks
        /\ tm \in [Timers -> {"none", "run", "idle"}]
    BY DEF IInv, ControlTyped, TimersTyped
  <2>3. /\ upd \in 0..19 /\ outcome \in 0..3 /\ off \in 0..Blocks
        /\ again \in 0..Retries + 1 /\ asks \in 0..Asks /\ reads \in 0..Asks + 1
    BY DEF IInv, UpdateTyped
  <2>4. mode \in 0..1 /\ rem \in 0..Blocks /\ wp \in 0..Blocks
    BY DEF IInv, ShifterTyped
  <2>5. {id, ver, lost, active, supply, power, first, part, armed} \subseteq BOOLEAN
    BY DEF IInv, BusTyped, ControlTyped, UpdateTyped, ShifterTyped
  <2>6. QED
    BY <2>1, <2>2, <2>3, <2>4, <2>5 DEF TypeOK
<1>2. QED
  BY InitHolds, StepKeeps, <1>1, PTL DEF Spec

\* An update reported as done leaves the new image running, whatever was lost,
\* repeated or answered by the old one (shifter.c:1879, modbus_dispatch.c:292).
THEOREM ShifterResult == Spec => []ResultIsTrue
<1>1. IInv => ResultIsTrue
  BY DEF IInv, Honest, ResultIsTrue
<1>2. QED
  BY InitHolds, StepKeeps, <1>1, PTL DEF Spec
=============================================================================
