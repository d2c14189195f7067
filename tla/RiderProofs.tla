---------------------------- MODULE RiderProofs ----------------------------
(***************************************************************************)
(* Proofs about what the rider and the technician see, for every value of  *)
(* the constants of MCRider: the lockout of the console holds; the panel   *)
(* comes to show the last frame, the phone shows what was told it last, a  *)
(* serial line loses and doubles no byte, and the history is in reach.     *)
(***************************************************************************)
EXTENDS MCRider, Integers, Sequences, FiniteSets, FiniteSetTheorems, WellFoundedInduction, TLAPS

-----------------------------------------------------------------------------
(* The login of the console                                                 *)

\* With the lockout's timer free the two counts agree and are below the limit.
CountsAgree ==
    /\ slot \in [Debug!Slots -> {"none", "held", "run", "out"}]
    /\ fails \in Nat /\ wrong \in Nat
    /\ slot["lock"] \in {"none", "run", "out"}
    /\ slot["lock"] = "none" => fails = wrong /\ wrong < Limit

LEMMA CountsBegin == ASSUME Debug!ConsoleAssumption PROVE Debug!Init => CountsAgree
  BY DEF Debug!ConsoleAssumption, Debug!Init, CountsAgree, Debug!Slots

LEMMA LoginCounts ==
  ASSUME Debug!ConsoleAssumption, CountsAgree, Debug!Login
  PROVE  CountsAgree' /\ Debug!OpensInTime
<1>1. PICK right \in BOOLEAN : Debug!Password(right)
  BY Zenon DEF Debug!Login
<1> USE DEF Debug!ConsoleAssumption, CountsAgree, Debug!Slots
<1>2. CASE ~Debug!Unlocked
  <2>1. slot' = [slot EXCEPT !["lock"] = "run"] /\ UNCHANGED <<logged, fails, wrong>>
    BY <1>1, <1>2, Zenon DEF Debug!Password, Debug!Started, Debug!session
  <2>2. CountsAgree'
    BY <2>1
  <2>3. Debug!OpensInTime
    BY <2>1, Zenon DEF Debug!OpensInTime
  <2>4. QED
    BY <2>2, <2>3
<1>3. CASE Debug!Unlocked /\ right
  <2>1. /\ fails' = 0 /\ wrong' = 0
        /\ slot' = [slot EXCEPT !["lock"] = "none"]
    BY <1>1, <1>3, Zenon DEF Debug!Password
  <2>2. CountsAgree'
    BY <2>1
  <2>3. slot["lock"] = "out" \/ wrong < Limit
    BY <1>3 DEF Debug!Unlocked
  <2>4. QED
    BY <2>2, <2>3 DEF Debug!OpensInTime
<1>4. CASE Debug!Unlocked /\ ~right
  <2>1. /\ fails' = Debug!FailsNow + 1
        /\ wrong' = IF slot["lock"] = "out" THEN 1 ELSE wrong + 1
        /\ slot' = [slot EXCEPT !["lock"] =
                         IF Debug!FailsNow = Limit - 1 THEN "run" ELSE "none"]
    BY <1>1, <1>4, Zenon DEF Debug!Password, Debug!LimitOf
  <2>2. UNCHANGED logged
    BY <1>1, <1>4, Zenon DEF Debug!Password
  <2>3. CountsAgree'
    BY <1>4, <2>1 DEF Debug!Unlocked, Debug!FailsNow
  <2>4. Debug!OpensInTime
    BY <2>2, Zenon DEF Debug!OpensInTime
  <2>5. QED
    BY <2>3, <2>4
<1>5. QED
  BY <1>2, <1>3, <1>4, Zenon

\* No other step opens the console, and none but a restart touches the
\* lockout's timer or the counts.
LEMMA CommandCounts ==
  ASSUME CountsAgree, Debug!Command
  PROVE  CountsAgree' /\ logged
<1>1. logged /\ UNCHANGED <<fails, wrong>>
  BY Zenon DEF Debug!Command
<1>2. \/ slot' = [slot EXCEPT !["idle"] = "run"]
      \/ \E s \in Debug!Slots \ {"lock"}, v \in {"run", "held"} :
             slot' = [slot EXCEPT !["idle"] = "run", ![s] = v]
  BY DEF Debug!Command, Debug!SetVolume, Debug!SetRegion, Debug!SetWheel, Debug!BusRead,
         Debug!BusWrite, Debug!SetGear, Debug!Shipping, Debug!Update,
         Debug!FactoryShipping, Debug!Battery, Debug!ShifterStatus, Debug!MotorStatus,
         Debug!Reboot, Debug!BatReset, Debug!ShiftDebug, Debug!Logout, Debug!Version,
         Debug!Show, Debug!Also, Debug!Only, Debug!Slots
<1>3. QED
  BY <1>1, <1>2 DEF CountsAgree, Debug!Slots

LEMMA OtherCounts ==
  ASSUME Debug!ConsoleAssumption, CountsAgree,
         \/ Debug!PrintOut \/ Debug!Drained \/ Debug!IsrPrint \/ Debug!Timer
         \/ Debug!Quiet \/ Debug!Seen
         \/ \E p \in Debug!Ports : Debug!Transmit(p) \/ Debug!Receive(p)
  PROVE  CountsAgree' /\ (logged' = logged \/ logged' = FALSE)
<1> USE DEF CountsAgree, Debug!Slots, Debug!ConsoleAssumption
<1>1. CASE Debug!PrintOut \/ Debug!Drained \/ Debug!IsrPrint \/ Debug!Seen
           \/ \E p \in Debug!Ports : Debug!Transmit(p)
  BY <1>1 DEF Debug!PrintOut, Debug!Drained, Debug!IsrPrint, Debug!Seen, Debug!Transmit,
              Debug!session
<1>2. CASE \E p \in Debug!Ports : Debug!Receive(p)
  BY <1>2 DEF Debug!Receive, Debug!Escape, Debug!Tabulator, Debug!Other, Debug!session
<1>3. CASE Debug!Timer
  BY <1>3 DEF Debug!Timer, Debug!Dump, Debug!Release, Debug!Restart, Debug!session
<1>4. CASE Debug!Quiet
  BY <1>4 DEF Debug!Quiet, Debug!Expire, Debug!session
<1>5. QED
  BY <1>1, <1>2, <1>3, <1>4, Zenon

LEMMA CountsGo ==
  ASSUME Debug!ConsoleAssumption, CountsAgree, [Debug!Next]_(Debug!vars)
  PROVE  CountsAgree' /\ (Debug!OpensInTime \/ UNCHANGED Debug!vars)
<1>1. CASE Debug!Line
  <2>1. CASE Debug!Login
    BY <2>1, LoginCounts
  <2>2. CASE Debug!Command
    BY <2>2, CommandCounts DEF Debug!OpensInTime
  <2>3. QED
    BY <1>1, <2>1, <2>2, Zenon DEF Debug!Line
<1>2. CASE \/ Debug!PrintOut \/ Debug!Drained \/ Debug!IsrPrint \/ Debug!Timer
           \/ Debug!Quiet \/ Debug!Seen
           \/ \E p \in Debug!Ports : Debug!Transmit(p) \/ Debug!Receive(p)
  <2>1. CountsAgree' /\ (logged' = logged \/ logged' = FALSE)
    BY <1>2, OtherCounts
  <2>2. Debug!OpensInTime
    BY <2>1, Zenon DEF Debug!OpensInTime
  <2>3. QED
    BY <2>1, <2>2
<1>3. CASE UNCHANGED Debug!vars
  BY <1>3 DEF Debug!vars, Debug!session, CountsAgree
<1>4. QED
  BY <1>1, <1>2, <1>3, Zenon DEF Debug!Next

\* After Limit wrong passwords no line opens the console before the lockout's
\* timer has run out, whatever logouts, slot and resets come between
\* (console.c:119-127, login_handler).
THEOREM LockoutKept ==
  ASSUME Debug!ConsoleAssumption PROVE Debug!Spec => Debug!LockoutHolds
<1>1. Debug!Init => CountsAgree
  BY CountsBegin
<1>2. CountsAgree /\ [Debug!Next]_(Debug!vars) => CountsAgree'
  BY CountsGo
<1>3. CountsAgree /\ [Debug!Next]_(Debug!vars) => [Debug!OpensInTime]_(Debug!vars)
  BY CountsGo
<1>4. QED
  BY <1>1, <1>2, <1>3, PTL DEF Debug!Spec, Debug!LockoutHolds

-----------------------------------------------------------------------------
(* The display                                                              *)

PanelShape ==
    /\ layer \in [D!Layers -> 0..3] /\ current \subseteq D!Halves
    /\ tx \in 0..4 /\ dma \in D!Halves \cup {"none"}
    /\ dma = "left" => tx = 2
    /\ dma = "right" => tx = 4
    /\ dma # "none" => ~done /\ ~freeze
    /\ freeze => tx \in {2, 4}
\* The buffer is marked, or a layer is about to draw and to mark it.
Pending == dirty \/ layer["main"] \in {1, 2} \/ layer["over"] \in {1, 2}
\* A half that is under way holds what the buffer holds; once it arrived the
\* panel shows it.
Shows(h) == \/ dma = h /\ fresh
            \/ dma = "none" /\ (done => h \in current)
\* How far the last frame marked has come.
Sending == /\ tx = 0 => lost \/ current = D!Halves
           /\ tx = 2 => freeze \/ Shows("left")
           /\ tx = 3 => "left" \in current
           /\ tx = 4 => "left" \in current /\ (freeze \/ Shows("right"))
PanelInv == PanelShape /\ (Pending \/ Sending)

LEMMA PanelBegins == D!Init => PanelInv
  BY DEF D!Init, PanelInv, PanelShape, Pending, D!Layers, D!Halves

\* A step that leaves the transmitter alone and draws only what is marked.
LEMMA LayersMove ==
  ASSUME PanelInv, layer' \in [D!Layers -> 0..3],
         UNCHANGED <<tx, done, freeze, dma, lost>>,
         \/ D!Drawn /\ Pending'
         \/ D!NotDrawn /\ (Pending => Pending')
  PROVE  PanelInv'
<1>1. CASE D!Drawn /\ Pending'
  BY <1>1 DEF D!Drawn, PanelInv, PanelShape, D!Halves
<1>2. CASE D!NotDrawn /\ (Pending => Pending')
  BY <1>2 DEF D!NotDrawn, PanelInv, PanelShape, Sending, Shows
<1>3. QED
  BY <1>1, <1>2

LEMMA RenderKept ==
  ASSUME PanelInv, NEW l \in D!Layers, D!Render(l)
  PROVE  PanelInv'
<1> USE DEF D!Render
<1>0. layer \in [D!Layers -> 0..3] /\ "main" \in D!Layers /\ "over" \in D!Layers
  BY DEF PanelInv, PanelShape, D!Layers
<1>1. CASE D!LayerIdle(l)
  BY <1>0, <1>1, LayersMove DEF D!LayerIdle, Pending
<1>2. CASE D!LayerStart(l)
  BY <1>0, <1>2, LayersMove DEF D!LayerStart, Pending, D!Layers
<1>3. CASE D!LayerDraw(l)
  BY <1>0, <1>3, LayersMove DEF D!LayerDraw, Pending
<1>4. CASE D!LayerWait(l)
  <2>1. layer[l] = 3 /\ D!NotDrawn /\ UNCHANGED dirty
    BY <1>4 DEF D!LayerWait
  <2>2. layer' = layer \/ layer' = [layer EXCEPT ![l] = IF frame[l] + 1 < PanelFrames THEN 2 ELSE 0]
    BY <1>4 DEF D!LayerWait, D!Advance
  <2>3. layer' \in [D!Layers -> 0..3] /\ (Pending => Pending')
    BY <1>0, <2>1, <2>2 DEF Pending, D!Layers
  <2>4. QED
    BY <1>0, <2>1, <2>3, LayersMove
<1>5. QED
  BY <1>1, <1>2, <1>3, <1>4

LEMMA TransmitKept ==
  ASSUME PanelInv, D!Transmit
  PROVE  PanelInv'
<1>0. layer' = layer
  BY DEF D!Transmit
<1>1. CASE D!Recover
  <2>1. /\ D!Frozen /\ freeze' = FALSE /\ dma' = "none" /\ UNCHANGED <<done, fresh, current>>
        /\ \/ tx' = 1 /\ dirty
           \/ ~dirty /\ ~dirty' /\ tx' = 0 /\ (lost' <=> lost \/ tx # 0)
    BY <1>1, Zenon DEF D!Recover
  <2>2. QED
    BY <1>0, <2>1 DEF PanelInv, PanelShape, Pending, Sending, D!Halves
<1>2. CASE D!Begin
  BY <1>0, <1>2 DEF D!Begin, D!Mark, D!Frozen, PanelInv, PanelShape, Pending, Sending, D!Halves
<1>3. CASE D!StartHalf("left", 1)
  BY <1>0, <1>3 DEF D!StartHalf, D!Frozen, PanelInv, PanelShape, Pending, Sending, Shows, D!Halves
<1>4. CASE D!SeeDone
  BY <1>0, <1>4 DEF D!SeeDone, D!Frozen, PanelInv, PanelShape, Pending, Sending, Shows, D!Halves
<1>5. CASE D!StartHalf("right", 3)
  BY <1>0, <1>5 DEF D!StartHalf, D!Frozen, PanelInv, PanelShape, Pending, Sending, Shows, D!Halves
<1>6. CASE D!Sent
  <2>1. /\ ~freeze /\ tx = 4 /\ done /\ tx' = 0
        /\ UNCHANGED <<layer, dirty, done, freeze, dma, fresh, current, lost>>
    BY <1>0, <1>6 DEF D!Sent, D!Frozen
  <2>2. Pending \/ {"left", "right"} \subseteq current
    BY <2>1 DEF PanelInv, PanelShape, Sending, Shows
  <2>3. Pending \/ current = D!Halves
    BY <2>2, Zenon DEF PanelInv, PanelShape, D!Halves
  <2>4. PanelShape'
    BY <2>1 DEF PanelInv, PanelShape
  <2>5. QED
    BY <2>1, <2>3, <2>4 DEF PanelInv, Pending, Sending
<1>7. QED
  BY <1>1, <1>2, <1>3, <1>4, <1>5, <1>6 DEF D!Transmit

LEMMA CallsKept ==
  ASSUME PanelInv, D!Calls
  PROVE  PanelInv'
<1> USE DEF D!Call
<1>0. layer \in [D!Layers -> 0..3] /\ "main" \in D!Layers /\ "over" \in D!Layers
  BY DEF PanelInv, PanelShape, D!Layers
<1>1. ASSUME NEW l \in D!Layers, D!Request(l) PROVE PanelInv'
  BY <1>0, <1>1, LayersMove DEF D!Request, Pending, D!Layers
<1>2. CASE D!Reset
  BY <1>0, <1>2, LayersMove DEF D!Reset, Pending
<1>3. CASE D!Replace
  BY <1>0, <1>3, LayersMove DEF D!Replace, Pending
<1>4. CASE D!Number \/ D!Icon \/ D!CornerLed \/ D!TurnArrow
  BY <1>0, <1>4, LayersMove DEF D!Number, D!Icon, D!CornerLed, D!TurnArrow, D!Marked, Pending
<1>5. CASE D!SlowSpeed
  BY <1>0, <1>5, LayersMove DEF D!SlowSpeed, D!LevelBar, Pending
<1>6. CASE D!FastSpeed
  BY <1>0, <1>6, LayersMove DEF D!FastSpeed, D!LevelBar, D!BlinkBar, Pending
<1>7. QED
  BY <1>1, <1>2, <1>3, <1>4, <1>5, <1>6 DEF D!Calls

LEMMA PanelKept ==
  ASSUME PanelInv, [D!Next]_D!vars
  PROVE  PanelInv'
<1>1. CASE D!Complete
  BY <1>1 DEF D!Complete, PanelInv, PanelShape, Pending, Sending, Shows, D!Halves
<1>2. CASE D!BusError
  BY <1>2 DEF D!BusError, PanelInv, PanelShape, Pending, Sending, Shows, D!Halves
<1>3. CASE \E s \in DOMAIN slot : D!Expire(s)
  BY <1>3 DEF D!Expire, PanelInv, PanelShape, Pending, Sending, Shows
<1>4. CASE UNCHANGED D!vars
  BY <1>4 DEF D!vars, PanelInv, PanelShape, Pending, Sending, Shows
<1>5. QED
  BY <1>1, <1>2, <1>3, <1>4, RenderKept, TransmitKept, CallsKept DEF D!Next

LEMMA PanelSound ==
  ASSUME PanelInv
  PROVE  D!PanelIsCurrent
  BY DEF PanelInv, Pending, Sending, D!PanelIsCurrent

-----------------------------------------------------------------------------
(* The line editor                                                          *)

\* Older lines have no gap, and none of them is empty.
NoGap == \A a \in E!Ages : a > 0 /\ hist[a] # 0 => hist[a - 1] # 0
EditorInv == /\ hist \in [E!Ages -> Nat] /\ nav \in 0..(ByteWrap - 1) /\ len \in Nat
             /\ match \in {0} \cup NameLens /\ NoGap /\ E!HistoryInReach

LEMMA ByteSmall ==
  ASSUME E!LineEditorAssumption, NEW k \in 0..(ByteWrap - 1)
  PROVE  E!Byte(k) = k
<1>1. ByteWrap \in Nat \ {0}
  BY DEF E!LineEditorAssumption
<1>2. QED
  BY <1>1 DEF E!Byte

LEMMA ByteRange ==
  ASSUME E!LineEditorAssumption, NEW k \in Int, k >= -1
  PROVE  E!Byte(k) \in 0..(ByteWrap - 1)
<1>1. ByteWrap \in Nat \ {0}
  BY DEF E!LineEditorAssumption
<1>2. QED
  BY <1>1 DEF E!Byte

LEMMA EditorBegins ==
  ASSUME E!LineEditorAssumption
  PROVE  E!Init => EditorInv
<1>1. ByteWrap \in Nat \ {0} /\ OlderLines \in Nat \ {0}
  BY DEF E!LineEditorAssumption
<1>2. QED
  BY <1>1 DEF E!Init, E!Ages, EditorInv, NoGap, E!HistoryInReach

LEMMA AppliedSize ==
  ASSUME E!LineEditorAssumption, EditorInv
  PROVE  E!Applied \in Nat /\ (len # 0 => E!Applied >= 1)
<1>1. \A k \in NameLens : k \in Nat /\ k >= 1
  BY DEF E!LineEditorAssumption
<1>2. QED
  BY <1>1 DEF EditorInv, E!Applied

\* The line is edited; the older lines and the place among them stay.
LEMMA LineKept ==
  ASSUME EditorInv, UNCHANGED <<hist, nav>>, len' \in Nat, match' \in {0} \cup NameLens
  PROVE  EditorInv'
  BY DEF EditorInv, NoGap, E!HistoryInReach

LEMMA PlainKept ==
  ASSUME E!LineEditorAssumption, EditorInv, E!Plain
  PROVE  EditorInv'
<1>0. len \in Nat /\ match \in {0} \cup NameLens /\ E!Applied \in Nat /\ (len # 0 => E!Applied >= 1)
  BY AppliedSize DEF EditorInv
<1>1. CASE E!Type
  <2>1. E!Byte(E!Applied + 1) \in Nat
    BY <1>0, ByteRange
  <2>2. QED
    BY <1>1, <2>1, LineKept DEF E!Type
<1>2. CASE E!Backspace \/ E!Delete
  BY <1>0, <1>2, LineKept DEF E!Backspace, E!Delete
<1>3. CASE E!Tab
  BY <1>0, <1>3, LineKept DEF E!Tab
<1>4. CASE E!Login
  BY <1>0, <1>4, LineKept DEF E!Login
<1>5. CASE E!Command
  <2>1. CASE len = 0
    BY <1>0, <1>5, <2>1, LineKept DEF E!Command
  <2>2. CASE len # 0
    <3>1. /\ hist' = [a \in E!Ages |-> IF a = 0 THEN E!Applied ELSE hist[a - 1]]
          /\ nav' = 0 /\ len' = 0 /\ match' = 0
      BY <1>5, <2>2 DEF E!Command, E!Rotate
    <3>2. \A a \in E!Ages : a # 0 => a - 1 \in E!Ages
      BY DEF E!Ages, E!LineEditorAssumption
    <3>3. hist' \in [E!Ages -> Nat]
      BY <1>0, <3>1, <3>2 DEF EditorInv
    <3>4. NoGap'
      BY <1>0, <2>2, <3>1, <3>2 DEF EditorInv, NoGap, E!Ages
    <3>5. 0 \in 0..(ByteWrap - 1) /\ 0 \in E!Ages
      BY DEF E!LineEditorAssumption, E!Ages
    <3>6. QED
      BY <3>1, <3>3, <3>4, <3>5 DEF EditorInv, E!HistoryInReach
  <2>3. QED
    BY <2>1, <2>2
<1>6. QED
  BY <1>1, <1>2, <1>3, <1>4, <1>5 DEF E!Plain, E!Enter

\* The place among the older lines moves; the lines stay.
LEMMA PlaceMoved ==
  ASSUME E!LineEditorAssumption, EditorInv, UNCHANGED <<hist, match>>, len' \in Nat,
         nav' \in 0..(ByteWrap - 1),
         hist[0] # 0 => nav' \in E!Ages /\ (nav' = 0 \/ hist[nav' - 1] # 0)
  PROVE  EditorInv'
  BY DEF EditorInv, NoGap, E!HistoryInReach

LEMMA RecalledSize ==
  ASSUME EditorInv, NEW a, NEW k \in Nat
  PROVE  E!Recalled(a, k) \in Nat
  BY DEF EditorInv, E!Recalled

LEMMA UpKept ==
  ASSUME E!LineEditorAssumption, EditorInv, E!Up
  PROVE  EditorInv'
<1> DEFINE f == E!Recalled(nav, len)
           prior == IF f = 0 THEN E!Byte(nav - 1) ELSE nav
<1>1. /\ len' = IF f = 0 THEN E!Recalled(prior, f) ELSE f
      /\ nav' = IF prior < OlderLines - 1 THEN prior + 1 ELSE prior
      /\ UNCHANGED <<hist, match>>
  BY DEF E!Up
<1>2. nav \in 0..(ByteWrap - 1) /\ len \in Nat /\ f \in Nat
  BY RecalledSize DEF EditorInv
<1>3. E!Byte(nav - 1) \in 0..(ByteWrap - 1) /\ (nav # 0 => E!Byte(nav - 1) = nav - 1)
  <2>1. nav - 1 \in Int /\ nav - 1 >= -1 /\ (nav # 0 => nav - 1 \in 0..(ByteWrap - 1))
    BY <1>2 DEF E!LineEditorAssumption
  <2>2. QED
    BY <2>1, ByteSmall, ByteRange
<1>4. prior \in 0..(ByteWrap - 1)
  BY <1>2, <1>3
<1>5. len' \in Nat
  <2> HIDE DEF f, prior
  <2>1. QED
    BY <1>1, <1>2, RecalledSize
<1>6. nav' \in 0..(ByteWrap - 1)
  <2> HIDE DEF f, prior
  <2>1. QED
    BY <1>1, <1>4 DEF E!LineEditorAssumption
<1>7. ASSUME hist[0] # 0
      PROVE  nav' \in E!Ages /\ (nav' = 0 \/ hist[nav' - 1] # 0)
  <2>1. nav \in E!Ages /\ (nav = 0 \/ hist[nav - 1] # 0) /\ f = hist[nav]
    BY <1>7 DEF EditorInv, E!HistoryInReach, E!Recalled
  <2>2. CASE f = 0
    <3>1. nav # 0 /\ prior = nav - 1
      BY <1>3, <1>7, <2>1, <2>2
    <3> HIDE DEF f, prior
    <3>2. nav' = nav
      BY <1>1, <2>1, <3>1 DEF E!Ages, E!LineEditorAssumption
    <3>3. QED
      BY <2>1, <3>2
  <2>3. CASE f # 0
    <3>1. prior = nav /\ hist[nav] # 0
      BY <2>1, <2>3
    <3> HIDE DEF f, prior
    <3>2. CASE nav < OlderLines - 1
      <4>1. nav' = nav + 1 /\ nav + 1 \in E!Ages /\ (nav + 1) - 1 = nav
        BY <1>1, <2>1, <3>1, <3>2 DEF E!Ages, E!LineEditorAssumption
      <4>2. QED
        BY <3>1, <4>1
    <3>3. CASE ~(nav < OlderLines - 1)
      BY <1>1, <2>1, <3>1, <3>3
    <3>4. QED
      BY <3>2, <3>3
  <2>4. QED
    BY <2>2, <2>3
<1>8. QED
  BY <1>1, <1>5, <1>6, <1>7, PlaceMoved

LEMMA DownKept ==
  ASSUME E!LineEditorAssumption, EditorInv, E!Down
  PROVE  EditorInv'
<1>0. nav \in 0..(ByteWrap - 1) /\ len \in Nat /\ UNCHANGED <<hist, match>>
  BY DEF EditorInv, E!Down
<1>1. CASE len = 0
  BY <1>0, <1>1, LineKept DEF E!Down, EditorInv
<1>2. CASE len # 0
  <2> DEFINE to == IF nav # 0 THEN nav - 1 ELSE nav
             f == E!Recalled(to, len)
  <2>1. \/ f = 0 /\ nav' = E!Byte(to + 1) /\ len' = E!Recalled(E!Byte(to + 1), f)
        \/ f # 0 /\ nav' = to /\ len' = f
    BY <1>2 DEF E!Down
  <2>2. to \in 0..(ByteWrap - 1)
    BY <1>0 DEF E!LineEditorAssumption
  <2>3. E!Byte(to + 1) \in 0..(ByteWrap - 1)
    BY <2>2, ByteRange
  <2>4. f \in Nat
    BY <1>0, RecalledSize
  <2>5. len' \in Nat /\ nav' \in 0..(ByteWrap - 1)
    <3> HIDE DEF f, to
    <3>1. QED
      BY <2>1, <2>2, <2>3, <2>4, RecalledSize
  <2>6. ASSUME hist[0] # 0
        PROVE  nav' \in E!Ages /\ (nav' = 0 \/ hist[nav' - 1] # 0)
    <3>1. nav \in E!Ages /\ (nav = 0 \/ hist[nav - 1] # 0)
      BY <2>6 DEF EditorInv, E!HistoryInReach
    <3>2. to \in E!Ages /\ hist[to] # 0
      BY <2>6, <3>1 DEF E!Ages, E!LineEditorAssumption
    <3>3. f = hist[to]
      BY <3>2 DEF E!Recalled
    <3> HIDE DEF f, to
    <3>4. nav' = to
      BY <2>1, <3>2, <3>3
    <3>5. to = 0 \/ hist[to - 1] # 0
      BY <3>2 DEF EditorInv, NoGap, E!Ages
    <3>6. QED
      BY <3>2, <3>4, <3>5
  <2>7. QED
    BY <1>0, <2>5, <2>6, PlaceMoved
<1>3. QED
  BY <1>1, <1>2

LEMMA EditorKept ==
  ASSUME E!LineEditorAssumption, EditorInv, [E!Next]_E!vars
  PROVE  EditorInv'
<1>0. len \in Nat /\ match \in {0} \cup NameLens
  BY DEF EditorInv
<1>1. ASSUME UNCHANGED <<logged, len, cursor, hist, nav, match>> PROVE EditorInv'
  BY <1>0, <1>1, LineKept
<1>2. CASE E!Byte0
  BY <1>1, <1>2, PlainKept DEF E!Byte0, E!Quiet
<1>3. CASE E!Byte1 \/ E!Byte2 \/ E!Tick
  BY <1>1, <1>3 DEF E!Byte1, E!Byte2, E!Tick, E!Quiet, E!Unbound
<1>4. CASE E!Byte3
  BY <1>0, <1>1, <1>4, UpKept, DownKept, LineKept DEF E!Byte3, E!Quiet, E!Right, E!Left
<1>5. CASE E!ByteN
  BY <1>0, <1>1, <1>5, LineKept DEF E!ByteN, E!Quiet, E!Unbound, E!Home, E!End
<1>6. CASE E!Idle
  BY <1>0, <1>6, LineKept DEF E!Idle, E!Escape
<1>7. CASE UNCHANGED E!vars
  BY <1>1, <1>7 DEF E!vars
<1>8. QED
  BY <1>2, <1>3, <1>4, <1>5, <1>6, <1>7 DEF E!Next

-----------------------------------------------------------------------------
(* Least members                                                             *)

\* A set of naturals that is not empty has a least member: the ranges below
\* its members are finite, and one of them has no other inside it.
LEMMA LeastNatural ==
  ASSUME NEW A, A \subseteq Nat, A # {} PROVE \E k \in A : \A j \in A : k <= j
<1> DEFINE Ranges == {1..k : k \in A}
<1>1. Ranges \subseteq FiniteSubsetsOf(Nat)
  <2>1. ASSUME NEW k \in A PROVE 1..k \in FiniteSubsetsOf(Nat)
    <3>1. IsFiniteSet(1..k)
      BY FS_Interval
    <3>2. QED
      BY <3>1 DEF FiniteSubsetsOf
  <2>2. QED
    BY <2>1
<1>2. Ranges # {}
  OBVIOUS
<1> HIDE DEF Ranges
<1>3. PICK R \in Ranges : \A T \in Ranges : <<T, R>> \notin StrictSubsetOrdering(Nat)
  BY <1>1, <1>2, FS_StrictSubsetOrderingWellFounded, WFMin, Zenon
<1>4. PICK k \in A : R = 1..k
  BY DEF Ranges
<1>5. ASSUME NEW j \in A PROVE k <= j
  <2>1. 1..j \in Ranges
    BY DEF Ranges
  <2>2. SUFFICES ASSUME j < k PROVE FALSE
    OBVIOUS
  <2>3. 1..j \subseteq 1..k /\ k \in 1..k /\ k \notin 1..j
    BY <2>2
  <2>4. <<1..j, 1..k>> \in StrictSubsetOrdering(Nat)
    BY <2>3 DEF StrictSubsetOrdering
  <2>5. QED
    BY <1>3, <1>4, <2>1, <2>4
<1>6. QED
  BY <1>5

-----------------------------------------------------------------------------
(* What the phone is told                                                    *)

Queues == [P!Slots -> P!Messages]

\* The messages about a are the same in two queues; a queue has at most one
\* message about a, with value v.
SameAbout(q, r, a) == \A k \in P!Slots : q[k].attr = a \/ r[k].attr = a => r[k] = q[k]
Lone(q, a, v) ==
    \A k \in P!Slots : q[k].attr = a =>
        q[k].val = v /\ \A l \in P!Slots : q[l].attr = a => l = k

\* What the phone shows, or the one message on its way to it, is the value
\* broadcast last.
Faithful(a) == /\ Lone(queue, a, cache[a])
               /\ ~P!About(a, queue) => phone[a] \in {P!Unknown, cache[a]}
PhoneShapes == /\ queue \in Queues
               /\ phone \in [P!All -> P!Values \cup {P!Unknown}]
               /\ ram \in [P!All -> P!Values] /\ kept \in [P!All -> P!Values]
               /\ cache \in [P!All -> P!Values]
PhoneTrue == \A a \in P!Told \ spoiled : (first /\ a \in P!Preset) \/ Faithful(a)
PhoneInv == PhoneShapes /\ PhoneTrue /\ P!SettingsSurvive

\* A message goes into one free slot or, with none free, nowhere.
LEMMA PutSomewhere ==
  ASSUME P!MirrorAssumption, NEW q \in Queues, NEW a \in P!All, NEW v \in P!Values
  PROVE  /\ P!Put(q, a, v) \in Queues
         /\ \/ P!Put(q, a, v) = q /\ \A k \in P!Slots : q[k] # P!Free
            \/ \E k \in P!Slots : q[k] = P!Free
                  /\ P!Put(q, a, v) = [q EXCEPT ![k] = [attr |-> a, val |-> v]]
<1>0. [attr |-> a, val |-> v] \in P!Messages
  BY DEF P!Messages
<1>1. CASE \A k \in P!Slots : q[k] # P!Free
  BY <1>1, Zenon DEF P!Put
<1>2. CASE \E k \in P!Slots : q[k] = P!Free
  <2> DEFINE Frees == {k \in P!Slots : q[k] = P!Free}
             IsFirst(k) == q[k] = P!Free /\ \A j \in 1..(k - 1) : q[j] # P!Free
             lowest == CHOOSE k \in P!Slots : IsFirst(k)
  <2>1. P!Slots \subseteq Nat
    BY DEF P!Slots
  <2>2. PICK k \in Frees : \A j \in Frees : k <= j
    BY <1>2, <2>1, LeastNatural
  <2>3. IsFirst(k)
    <3>1. k \in P!Slots /\ q[k] = P!Free
      OBVIOUS
    <3>2. ASSUME NEW j \in 1..(k - 1) PROVE q[j] # P!Free
      BY <2>2, <3>1 DEF P!Slots, P!MirrorAssumption
    <3>3. QED
      BY <3>1, <3>2
  <2>4. lowest \in P!Slots /\ q[lowest] = P!Free
    BY <2>3, Zenon
  <2>5. P!Put(q, a, v) = [q EXCEPT ![lowest] = [attr |-> a, val |-> v]]
    BY <1>2, Zenon DEF P!Put
  <2> HIDE DEF lowest
  <2>6. QED
    BY <1>0, <2>4, <2>5 DEF Queues
<1>3. QED
  BY <1>1, <1>2, Zenon

LEMMA PutKeeps ==
  ASSUME P!MirrorAssumption, NEW q \in Queues, NEW a \in P!All, NEW v \in P!Values
  PROVE  /\ P!Put(q, a, v) \in Queues
         /\ \A b \in P!All \ {a} : SameAbout(q, P!Put(q, a, v), b)
         /\ ~P!About(a, q) => Lone(P!Put(q, a, v), a, v)
         /\ (\E k \in P!Slots : q[k] = P!Free) => P!About(a, P!Put(q, a, v))
<1> DEFINE r == P!Put(q, a, v)
<1>1. /\ r \in Queues
      /\ \/ r = q /\ \A k \in P!Slots : q[k] # P!Free
         \/ \E k \in P!Slots : q[k] = P!Free /\ r = [q EXCEPT ![k] = [attr |-> a, val |-> v]]
  BY PutSomewhere, Zenon
<1> HIDE DEF r
<1>2. "none" \notin P!All
  BY DEF P!All, P!Config, P!Record, P!Volatile
<1>3. CASE r = q /\ \A k \in P!Slots : q[k] # P!Free
  <2>1. ~P!About(a, q) => Lone(r, a, v)
    BY <1>3 DEF P!About, Lone
  <2>2. \A b \in P!All \ {a} : SameAbout(q, r, b)
    BY <1>3 DEF SameAbout
  <2>3. QED
    BY <1>1, <1>3, <2>1, <2>2 DEF r
<1>4. ASSUME NEW k \in P!Slots, q[k] = P!Free, r = [q EXCEPT ![k] = [attr |-> a, val |-> v]]
      PROVE  /\ \A b \in P!All \ {a} : SameAbout(q, r, b)
             /\ ~P!About(a, q) => Lone(r, a, v)
             /\ P!About(a, r)
  <2>1. /\ r[k].attr = a /\ r[k].val = v /\ q[k].attr = "none"
        /\ \A l \in P!Slots : l # k => r[l] = q[l]
    BY <1>4 DEF Queues, P!Free
  <2>2. \A b \in P!All \ {a} : SameAbout(q, r, b)
    BY <1>2, <2>1 DEF SameAbout
  <2>3. ~P!About(a, q) => Lone(r, a, v)
    BY <2>1 DEF Lone, P!About
  <2>4. P!About(a, r)
    BY <2>1 DEF P!About
  <2>5. QED
    BY <2>2, <2>3, <2>4
<1>5. QED
  BY <1>1, <1>3, <1>4 DEF r

LEMMA PhoneBegins == P!Init => PhoneInv
<1> SUFFICES ASSUME P!Init PROVE PhoneInv
  OBVIOUS
<1>1. PhoneShapes
  <2>1. P!Free \in P!Messages
    BY DEF P!Free, P!Messages, P!Values
  <2>2. queue \in Queues
    BY <2>1, Zenon DEF P!Init, Queues
  <2>3. QED
    BY <2>2 DEF P!Init, PhoneShapes, P!Start, P!Values
<1>2. PhoneTrue
  <2>1. "none" \notin P!Told /\ P!Told \subseteq P!All
    BY DEF P!Told, P!All, P!Config, P!Record, P!Volatile
  <2>2. ASSUME NEW a \in P!Told PROVE Faithful(a)
    BY <2>1 DEF P!Init, Faithful, Lone, P!Free
  <2>3. QED
    BY <2>2 DEF PhoneTrue
<1>3. P!SettingsSurvive
  BY DEF P!Init, P!SettingsSurvive, P!Start, P!Config, P!Volatile, P!All
<1>4. QED
  BY <1>1, <1>2, <1>3 DEF PhoneInv

\* A message said goes wrong only where it is marked spoiled.
LEMMA SayFaithful ==
  ASSUME P!MirrorAssumption, PhoneShapes, PhoneTrue, NEW a \in P!All, NEW v \in P!Values,
         P!Say(a, v), UNCHANGED <<cache, first, phone>>
  PROVE  queue' \in Queues /\ PhoneTrue'
<1>1. queue' = P!Put(queue, a, v)
  BY DEF P!Say
<1>2. /\ queue' \in Queues
      /\ \A b \in P!All \ {a} : SameAbout(queue, queue', b)
      /\ ~P!About(a, queue) => Lone(queue', a, v)
      /\ (\E k \in P!Slots : queue[k] = P!Free) => P!About(a, queue')
  BY <1>1, PutKeeps DEF PhoneShapes
<1>3. SUFFICES ASSUME NEW b \in P!Told \ spoiled', ~(first /\ b \in P!Preset)
               PROVE  Faithful(b)'
  BY <1>2 DEF PhoneTrue
<1>4. b \in P!All
  BY DEF P!Told, P!All, P!Config, P!Record, P!Volatile
<1>5. CASE b = a
  <2>1. ~P!About(a, queue) /\ (\E k \in P!Slots : queue[k] = P!Free) /\ v = cache[a]
    BY <1>5, <1>3 DEF P!Say, P!Spoils
  <2>2. Lone(queue', a, cache'[a]) /\ P!About(a, queue')
    BY <1>2, <2>1
  <2>3. QED
    BY <1>5, <2>2 DEF Faithful
<1>6. CASE b # a
  <2>1. b \notin spoiled
    BY <1>3, <1>6 DEF P!Say
  <2>2. Faithful(b) /\ SameAbout(queue, queue', b)
    BY <1>2, <1>3, <1>4, <1>6, <2>1 DEF PhoneTrue
  <2>3. Lone(queue', b, cache[b]) /\ (P!About(b, queue') <=> P!About(b, queue))
    BY <2>2 DEF Faithful, Lone, SameAbout, P!About
  <2>4. QED
    BY <2>2, <2>3 DEF Faithful
<1>7. QED
  BY <1>5, <1>6

LEMMA SilentFaithful ==
  ASSUME PhoneShapes, PhoneTrue, P!Silent, UNCHANGED <<cache, first, phone>>
  PROVE  queue' \in Queues /\ PhoneTrue'
BY DEF PhoneShapes, PhoneTrue, P!Silent, Faithful, Lone, P!About

\* What a write leaves of the memory, and what it tells.
Saves == /\ ram' \in [P!All -> P!Values] /\ kept' \in [P!All -> P!Values]
         /\ P!SettingsSurvive'
Tells == P!Silent \/ \E a \in P!All, v \in P!Values : P!Say(a, v)

LEMMA SetSaves ==
  ASSUME PhoneShapes, P!SettingsSurvive, NEW a \in P!All, NEW v \in P!Values, NEW part,
         P!Set(a, v, part), a \in P!Config => part = P!Config, a = "horn" => part = P!Record
  PROVE  Saves
<1>1. /\ ram' = [ram EXCEPT ![a] = v] /\ ram' \in [P!All -> P!Values]
      /\ kept' = [s \in P!All |-> IF s \in part THEN ram'[s] ELSE kept[s]]
  BY DEF P!Set, P!Saved, PhoneShapes
<1>2. kept' \in [P!All -> P!Values]
  BY <1>1 DEF PhoneShapes
<1>3. \A s \in P!Config \cup {"horn"} : kept'[s] = ram'[s]
  <2>1. P!Config \cup {"horn"} \subseteq P!All
    BY DEF P!All, P!Record
  <2>2. ASSUME NEW s \in P!Config \cup {"horn"}, s # a PROVE kept'[s] = ram'[s]
    BY <1>1, <2>1, <2>2 DEF P!SettingsSurvive, PhoneShapes
  <2>3. a \in P!Config \cup {"horn"} => kept'[a] = ram'[a]
    BY <1>1, <2>1 DEF P!Record
  <2>4. QED
    BY <2>2, <2>3
<1>4. QED
  BY <1>1, <1>2, <1>3 DEF P!SettingsSurvive, Saves

LEMMA WriteSaves ==
  ASSUME PhoneShapes, P!SettingsSurvive, P!Write
  PROVE  Saves /\ Tells
<1>0. /\ P!Config \subseteq P!All /\ P!Record \subseteq P!All /\ P!Volatile \subseteq P!All
      /\ "horn" \notin P!Config /\ "horn" \in P!Record
  BY DEF P!All, P!Config, P!Record
<1>1. ASSUME NEW a \in P!Config, P!Setting(a) PROVE Saves /\ Tells
  <2>1. PICK v \in P!Values : P!Set(a, v, P!Config) /\ P!Say(a, v)
    BY <1>1, Zenon DEF P!Setting
  <2>2. Saves
    BY <1>0, <2>1, SetSaves
  <2>3. QED
    BY <1>0, <2>1, <2>2 DEF Tells
<1>2. CASE P!WriteUnits \/ P!WriteRatio \/ P!WriteMode \/ P!WriteWheel \/ P!WriteVolume
           \/ P!WriteLight
  BY <1>1, <1>2 DEF P!WriteUnits, P!WriteRatio, P!WriteMode, P!WriteWheel, P!WriteVolume,
     P!WriteLight, P!Config
<1>3. CASE P!WriteSensor
  <2>1. PICK v \in P!Values : P!Set("sensor", v, P!Config) /\ P!Silent
    BY <1>3, Zenon DEF P!WriteSensor
  <2>2. "sensor" \in P!Config
    BY DEF P!Config
  <2>3. Saves
    BY <1>0, <2>1, <2>2, SetSaves
  <2>4. QED
    BY <2>1, <2>3 DEF Tells
<1>4. CASE P!WriteAlarm \/ P!WriteHorn
  <2>1. PICK a \in {"alarm", "horn"}, v \in P!Values : P!Set(a, v, P!Record) /\ P!Say(a, v)
    BY <1>4, Zenon DEF P!WriteAlarm, P!WriteHorn
  <2>2. a \in P!Record /\ a \notin P!Config
    BY DEF P!Record, P!Config
  <2>3. Saves
    BY <1>0, <2>1, <2>2, SetSaves
  <2>4. QED
    BY <1>0, <2>1, <2>2, <2>3 DEF Tells
<1>5. CASE P!WriteDistance \/ P!WriteAssist \/ P!WriteGear
  <2>1. PICK a \in {"distance", "assist", "gear"}, v \in P!Values :
               P!Set(a, v, {}) /\ (P!Silent \/ P!Say(a, v))
    BY <1>5, Zenon DEF P!WriteDistance, P!WriteAssist, P!WriteGear
  <2>2. a \in P!All /\ a \notin P!Config /\ a # "horn"
    BY DEF P!All, P!Record, P!Volatile, P!Config
  <2>3. Saves
    BY <2>1, <2>2, SetSaves
  <2>4. QED
    BY <2>1, <2>2, <2>3 DEF Tells
<1>6. CASE P!WriteRegion
  <2>1. PICK v \in P!Values : P!Set("region", v, P!Config) /\ P!Say("region", v)
    BY <1>6, Zenon DEF P!WriteRegion
  <2>2. "region" \in P!Config
    BY DEF P!Config
  <2>3. Saves
    BY <1>0, <2>1, <2>2, SetSaves
  <2>4. QED
    BY <1>0, <2>1, <2>2, <2>3 DEF Tells
<1>7. CASE P!WriteCode \/ P!WriteLock
  <2>1. PICK a \in {"code", "region"}, b \in {"alarm", "lock"}, v \in P!Values, w \in P!Values :
               /\ ram' = [ram EXCEPT ![a] = v, ![b] = w]
               /\ kept' = P!Saved(P!Config, ram') /\ P!Say(a, v)
    BY <1>7, Zenon DEF P!WriteCode, P!WriteLock
  <2>2. a \in P!All /\ b \in P!All /\ a # "horn" /\ b # "horn"
    BY DEF P!All, P!Record, P!Config
  <2>3. ram' \in [P!All -> P!Values]
    BY <2>1, <2>2 DEF PhoneShapes
  <2>4. kept' = [s \in P!All |-> IF s \in P!Config THEN ram'[s] ELSE kept[s]]
    BY <2>1, Zenon DEF P!Saved
  <2>5. \A s \in P!Config \cup {"horn"} : kept'[s] = ram'[s]
    BY <1>0, <2>1, <2>2, <2>4 DEF PhoneShapes, P!SettingsSurvive
  <2>6. kept' \in [P!All -> P!Values]
    BY <2>3, <2>4 DEF PhoneShapes
  <2>7. QED
    BY <2>1, <2>2, <2>3, <2>5, <2>6 DEF Tells, Saves, P!SettingsSurvive
<1>8. QED
  BY <1>2, <1>3, <1>4, <1>5, <1>6, <1>7, Zenon DEF P!Write

LEMMA ActKept ==
  ASSUME P!MirrorAssumption, PhoneInv, P!Write \/ P!Read \/ P!Change
  PROVE  PhoneInv'
<1> USE DEF PhoneInv
<1>1. UNCHANGED <<cache, first, phone>>
  BY DEF P!Write, P!Read, P!Change, P!Act
<1>2. Saves /\ Tells
  <2>1. CASE P!Write
    BY <2>1, WriteSaves
  <2>2. CASE P!Read
    <3>1. UNCHANGED <<ram, kept>>
      BY <2>2 DEF P!Read, P!ReadRide, P!ReadPower, P!ReadVersions, P!ReadStatus, P!Answer
    <3>2. PICK a \in P!All : P!Say(a, ram[a])
      BY <2>2 DEF P!Read, P!ReadRide, P!ReadPower, P!ReadVersions, P!ReadStatus, P!Answer,
         P!All, P!Config, P!Record, P!Volatile
    <3>3. ram[a] \in P!Values
      BY DEF PhoneShapes
    <3>4. QED
      BY <3>1, <3>2, <3>3 DEF Saves, Tells, PhoneShapes, P!SettingsSurvive
  <2>3. CASE P!Change
    <3>1. PICK a \in P!Volatile \cup {"distance"} : P!Set(a, 1 - ram[a], {}) /\ P!Silent
      BY <2>3, Zenon DEF P!Change
    <3>2. a \in P!All /\ a \notin P!Config /\ a # "horn"
      BY DEF P!All, P!Record, P!Volatile, P!Config
    <3>3. 1 - ram[a] \in P!Values
      BY <3>2 DEF PhoneShapes, P!Values
    <3>4. QED
      BY <3>1, <3>2, <3>3, SetSaves DEF Tells
  <2>4. QED
    BY <2>1, <2>2, <2>3
<1>3. queue' \in Queues /\ PhoneTrue'
  BY <1>1, <1>2, SayFaithful, SilentFaithful DEF Tells
<1>4. PhoneShapes'
  BY <1>1, <1>2, <1>3 DEF PhoneShapes, Saves
<1>5. QED
  BY <1>2, <1>3, <1>4 DEF Saves

\* The queue of a broadcast that has dealt with the attributes of s.
Dealt(q, s) ==
    /\ q \in Queues
    /\ \A a \in P!Told :
           IF a \in s /\ P!Differs(a)
           THEN ~P!About(a, queue) => Lone(q, a, ram[a])
           ELSE SameAbout(queue, q, a)

LEMMA TellDeals ==
  ASSUME P!MirrorAssumption, PhoneShapes, NEW q, NEW s, NEW b \in P!Told \ s, Dealt(q, s),
         NEW t, t = s \cup {b}
  PROVE  Dealt(P!Tell(q, b), t)
<1>0. P!Told \subseteq P!All /\ ram[b] \in P!Values /\ q \in Queues
  BY DEF P!Told, P!All, P!Config, P!Record, P!Volatile, PhoneShapes, Dealt
<1>1. CASE ~P!Differs(b)
  BY <1>1 DEF P!Tell, Dealt
<1>2. CASE P!Differs(b)
  <2> DEFINE r == P!Put(q, b, ram[b])
  <2>1. /\ r \in Queues
        /\ \A a \in P!All \ {b} : SameAbout(q, r, a)
        /\ ~P!About(b, q) => Lone(r, b, ram[b])
    BY <1>0, PutKeeps
  <2>2. P!Tell(q, b) = r
    BY <1>2, Zenon DEF P!Tell
  <2> HIDE DEF r
  <2>3. ASSUME NEW a \in P!Told, a # b
        PROVE  IF a \in s /\ P!Differs(a)
               THEN ~P!About(a, queue) => Lone(r, a, ram[a])
               ELSE SameAbout(queue, r, a)
    <3>1. SameAbout(q, r, a)
      BY <1>0, <2>1, <2>3
    <3>2. CASE a \in s /\ P!Differs(a)
      <4>1. ~P!About(a, queue) => Lone(q, a, ram[a])
        BY <3>2, Zenon DEF Dealt
      <4>2. Lone(q, a, ram[a]) => Lone(r, a, ram[a])
        BY <3>1 DEF SameAbout, Lone
      <4>3. QED
        BY <3>2, <4>1, <4>2
    <3>3. CASE ~(a \in s /\ P!Differs(a))
      <4>1. SameAbout(queue, q, a)
        BY <3>3, Zenon DEF Dealt
      <4>2. SameAbout(queue, r, a)
        BY <3>1, <4>1 DEF SameAbout
      <4>3. QED
        BY <3>3, <4>2
    <3>4. QED
      BY <3>2, <3>3
  <2>4. ~P!About(b, queue) => Lone(r, b, ram[b])
    <3>1. SameAbout(queue, q, b)
      BY Zenon DEF Dealt
    <3>2. ~P!About(b, queue) => ~P!About(b, q)
      BY <3>1 DEF SameAbout, P!About
    <3>3. QED
      BY <2>1, <3>2
  <2>5. Dealt(r, t)
    BY <1>2, <2>1, <2>3, <2>4 DEF Dealt
  <2>6. QED
    BY <2>2, <2>5
<1>3. QED
  BY <1>1, <1>2

\* A broadcast leaves every attribute it does not tell as it was, and of one
\* it tells and that was not on its way one message.
LEMMA BroadcastDeals ==
  ASSUME P!MirrorAssumption, PhoneShapes
  PROVE  LET q == P!TellSlow(P!TellLater(P!TellEarly(queue))) IN
           /\ q \in Queues
           /\ \A a \in P!Told : IF a \in P!Now
                                THEN ~P!About(a, queue) => Lone(q, a, ram[a])
                                ELSE SameAbout(queue, q, a)
<1> DEFINE early == P!TellEarly(queue)
           later == P!TellLater(early)
           late  == P!TellSlow(later)
           Early == {"mode", "guard", "assist", "gear", "battery"}
           Later == Early \cup {"distance", "versions", "error"}
<1>0. P!Told = Later \cup {"range"}
  BY DEF P!Told
<1>1. Dealt(queue, {})
  BY DEF Dealt, PhoneShapes, SameAbout
<1> DEFINE q1 == P!Tell(queue, "mode")
           q2 == P!Tell(q1, "guard")
           q3 == P!Tell(q2, "assist")
           q4 == P!Tell(q3, "gear")
           q6 == P!Tell(early, "distance")
           q7 == P!Tell(q6, "versions")
           s3 == {"mode", "guard", "assist"}
           s4 == {"mode", "guard", "assist", "gear"}
           s6 == Early \cup {"distance"}
           s7 == Early \cup {"distance", "versions"}
<1>2. Dealt(early, Early)
  <2>1. Dealt(q1, {"mode"})
    BY <1>1, TellDeals DEF P!Told
  <2> HIDE DEF q1
  <2>2. Dealt(q2, {"mode", "guard"})
    BY <2>1, TellDeals DEF P!Told
  <2> HIDE DEF q2
  <2>3. Dealt(q3, s3)
    BY <2>2, TellDeals DEF P!Told
  <2> HIDE DEF q3
  <2>4. Dealt(q4, s4)
    BY <2>3, TellDeals DEF P!Told
  <2> HIDE DEF q4
  <2>5. Dealt(P!Tell(q4, "battery"), Early)
    BY <2>4, TellDeals DEF P!Told
  <2>6. QED
    BY <2>5, Zenon DEF P!TellEarly, q4, q3, q2, q1
<1> HIDE DEF early
<1>3. Dealt(later, Later)
  <2>1. Dealt(q6, s6)
    BY <1>2, TellDeals DEF P!Told
  <2> HIDE DEF q6
  <2>2. Dealt(q7, s7)
    BY <2>1, TellDeals DEF P!Told
  <2> HIDE DEF q7
  <2>3. Dealt(P!Tell(q7, "error"), Later)
    BY <2>2, TellDeals DEF P!Told
  <2>4. QED
    BY <2>3, Zenon DEF P!TellLater, q7, q6
<1>4. CASE due
  <2>1. "range" \in P!Told \ Later
    BY DEF P!Told
  <2>2. Dealt(P!Tell(later, "range"), P!Told)
    BY <1>0, <1>3, <2>1, TellDeals, Zenon
  <2>3. \A a \in P!Told : a \in P!Now <=> P!Differs(a)
    BY <1>4, Zenon DEF P!Now
  <2>4. Dealt(late, P!Told)
    BY <1>4, <2>2, Zenon DEF P!TellSlow
  <2> HIDE DEF late
  <2>5. QED
    BY <2>3, <2>4 DEF Dealt, late, early, later
<1>5. CASE ~due
  <2>1. Dealt(late, Later)
    BY <1>3, <1>5, Zenon DEF P!TellSlow
  <2>2. \A a \in P!Told : a \in P!Now <=> P!Differs(a) /\ a # "range"
    BY <1>5, Zenon DEF P!Now
  <2>3. \A a \in P!Told : a \in Later <=> a # "range"
    BY <1>0
  <2> HIDE DEF late, Later
  <2>4. QED
    BY <2>1, <2>2, <2>3 DEF Dealt, late, early, later
<1>6. QED
  BY <1>4, <1>5

LEMMA BroadcastKept ==
  ASSUME P!MirrorAssumption, PhoneInv, P!Broadcast
  PROVE  PhoneInv'
<1> USE DEF PhoneInv
<1>0. P!Told \subseteq P!All /\ P!Preset \subseteq P!All
  BY DEF P!Told, P!Preset, P!All, P!Config, P!Record, P!Volatile
<1>1. UNCHANGED <<ram, kept, phone>> /\ first' = FALSE
  BY DEF P!Broadcast
<1>2. /\ P!Known \in [P!All -> P!Values]
      /\ \A a \in P!All : P!Known[a] = IF first /\ a \in P!Preset THEN ram[a] ELSE cache[a]
  BY DEF P!Known, PhoneShapes
<1>3. P!SettingsSurvive'
  BY <1>1 DEF P!SettingsSurvive
\* An attribute that is neither told now nor stale stays as it was.
<1>4. ASSUME NEW a \in P!Told, a \notin spoiled, a \notin P!Stale,
             SameAbout(queue, queue', a), cache'[a] = P!Known[a]
      PROVE  Faithful(a)'
  <2>1. CASE first /\ a \in P!Preset
    <3>1. ~P!About(a, queue) /\ phone[a] = P!Unknown
      BY <1>4, <2>1 DEF P!Stale
    <3>2. \A k \in P!Slots : queue'[k].attr # a
      BY <1>4, <3>1 DEF SameAbout, P!About
    <3>3. QED
      BY <1>1, <3>1, <3>2 DEF Faithful, Lone
  <2>2. CASE ~(first /\ a \in P!Preset)
    <3>1. Faithful(a) /\ cache'[a] = cache[a]
      BY <1>0, <1>2, <1>4, <2>2 DEF PhoneTrue
    <3>2. P!About(a, queue') <=> P!About(a, queue)
      BY <1>4 DEF SameAbout, P!About
    <3>3. Lone(queue', a, cache[a])
      BY <1>4, <3>1 DEF SameAbout, Lone, Faithful
    <3>4. QED
      BY <1>1, <3>1, <3>2, <3>3 DEF Faithful
  <2>3. QED
    BY <2>1, <2>2
<1>5. CASE quiet
  <2>1. cache' = P!Known /\ spoiled' = spoiled \cup P!Stale /\ UNCHANGED queue
    BY <1>5 DEF P!Broadcast
  <2>2. PhoneShapes'
    BY <1>1, <1>2, <2>1 DEF PhoneShapes
  <2>3. ASSUME NEW a \in P!Told \ spoiled' PROVE Faithful(a)'
    <3>1. SameAbout(queue, queue', a)
      BY <2>1 DEF SameAbout
    <3>2. QED
      BY <1>4, <2>1, <2>3, <3>1
  <2>4. QED
    BY <1>3, <2>2, <2>3 DEF PhoneTrue
<1>6. CASE ~quiet
  <2>1. /\ queue' = P!TellSlow(P!TellLater(P!TellEarly(queue)))
        /\ cache' = [a \in P!All |-> IF a \in P!Now THEN ram[a] ELSE P!Known[a]]
        /\ spoiled' = (spoiled \ P!Now) \cup P!Doubtful(queue') \cup P!Stale
    BY <1>6, Zenon DEF P!Broadcast
  <2>2. /\ queue' \in Queues
        /\ \A a \in P!Told : IF a \in P!Now
                             THEN ~P!About(a, queue) => Lone(queue', a, ram[a])
                             ELSE SameAbout(queue, queue', a)
    BY <2>1, BroadcastDeals, Zenon
  <2>3. cache' \in [P!All -> P!Values]
    BY <1>2, <2>1 DEF PhoneShapes
  <2>4. PhoneShapes'
    BY <1>1, <2>2, <2>3 DEF PhoneShapes
  <2>5. ASSUME NEW a \in P!Told \ spoiled' PROVE Faithful(a)'
    <3>1. CASE a \in P!Now
      <4>1. ~P!About(a, queue) /\ P!About(a, queue')
        BY <2>1, <2>5, <3>1 DEF P!Doubtful
      <4>2. cache'[a] = ram[a]
        BY <1>0, <2>1, <3>1
      <4>3. Lone(queue', a, cache'[a])
        BY <2>2, <3>1, <4>1, <4>2
      <4>4. QED
        BY <4>1, <4>3 DEF Faithful
    <3>2. CASE a \notin P!Now
      <4>1. cache'[a] = P!Known[a] /\ SameAbout(queue, queue', a)
        BY <1>0, <2>1, <2>2, <3>2
      <4>2. a \notin spoiled /\ a \notin P!Stale
        BY <2>1, <2>5, <3>2
      <4>3. QED
        BY <1>4, <4>1, <4>2
    <3>3. QED
      BY <3>1, <3>2
  <2>6. QED
    BY <1>3, <2>4, <2>5 DEF PhoneTrue
<1>7. QED
  BY <1>5, <1>6

\* A message that leaves the queue.
LEMMA SlotFreed ==
  ASSUME PhoneShapes, NEW k \in P!Slots, queue' = [queue EXCEPT ![k] = P!Free]
  PROVE  /\ queue' \in Queues
         /\ \A a \in P!All : queue[k].attr # a => SameAbout(queue, queue', a)
         /\ \A a \in P!All : P!About(a, queue') =>
               \E l \in P!Slots : l # k /\ queue[l].attr = a
<1>1. P!Free \in P!Messages /\ P!Free.attr = "none" /\ "none" \notin P!All
  BY DEF P!Free, P!Messages, P!Values, P!All, P!Config, P!Record, P!Volatile
<1>2. queue \in Queues
  BY DEF PhoneShapes
<1>3. /\ queue' \in Queues /\ queue'[k] = P!Free
      /\ \A l \in P!Slots : l # k => queue'[l] = queue[l]
  BY <1>1, <1>2 DEF Queues
<1>4. QED
  BY <1>1, <1>3 DEF SameAbout, P!About

LEMMA DeliverKept ==
  ASSUME PhoneInv, P!Deliver \/ P!GiveUp
  PROVE  PhoneInv'
<1> USE DEF PhoneInv
<1>0. P!Told \subseteq P!All
  BY DEF P!Told, P!All, P!Config, P!Record, P!Volatile
<1>1. PICK k \in P!Slots :
         /\ queue' = [queue EXCEPT ![k] = P!Free] /\ UNCHANGED <<ram, kept, cache, first>>
         /\ \/ phone' = [phone EXCEPT ![queue[k].attr] = queue[k].val] /\ UNCHANGED spoiled
            \/ spoiled' = spoiled \cup {queue[k].attr} /\ UNCHANGED phone
  BY DEF P!Deliver, P!GiveUp
<1>2. /\ queue' \in Queues
      /\ \A a \in P!All : queue[k].attr # a => SameAbout(queue, queue', a)
      /\ \A a \in P!All : P!About(a, queue') => \E l \in P!Slots : l # k /\ queue[l].attr = a
  BY <1>1, SlotFreed
<1>3. queue[k] \in P!Messages
  BY DEF PhoneShapes, Queues
<1>4. phone' \in [P!All -> P!Values \cup {P!Unknown}]
  BY <1>1, <1>3 DEF PhoneShapes, P!Messages
<1>5. ASSUME NEW a \in P!Told \ spoiled', ~(first /\ a \in P!Preset) PROVE Faithful(a)'
  <2>1. Faithful(a)
    BY <1>1, <1>5 DEF PhoneTrue
  <2>2. CASE queue[k].attr = a
    <3>1. phone' = [phone EXCEPT ![a] = queue[k].val]
      BY <1>1, <1>5, <2>2
    <3>2. queue[k].val = cache[a] /\ \A l \in P!Slots : queue[l].attr = a => l = k
      BY <2>1, <2>2 DEF Faithful, Lone
    <3>3. ~P!About(a, queue')
      BY <1>0, <1>2, <3>2
    <3>4. phone'[a] = cache'[a]
      BY <1>0, <1>1, <3>1, <3>2 DEF PhoneShapes
    <3>5. QED
      BY <3>3, <3>4 DEF Faithful, Lone, P!About
  <2>3. CASE queue[k].attr # a
    <3>1. SameAbout(queue, queue', a)
      BY <1>0, <1>2, <2>3
    <3>2. phone'[a] = phone[a]
      BY <1>0, <1>1, <2>3 DEF PhoneShapes
    <3>3. Lone(queue', a, cache'[a]) /\ (P!About(a, queue') <=> P!About(a, queue))
      BY <1>1, <2>1, <3>1 DEF Faithful, Lone, SameAbout, P!About
    <3>4. QED
      BY <1>1, <2>1, <3>2, <3>3 DEF Faithful
  <2>4. QED
    BY <2>2, <2>3
<1>6. QED
  BY <1>1, <1>2, <1>4, <1>5 DEF PhoneShapes, PhoneTrue, P!SettingsSurvive

LEMMA RestartKept ==
  ASSUME PhoneInv, P!Restart
  PROVE  PhoneInv'
<1> USE DEF PhoneInv
<1>1. /\ ram' = P!Start(kept) /\ queue' = [k \in P!Slots |-> P!Free]
      /\ phone' = [a \in P!All |-> P!Unknown]
      /\ cache' = [a \in P!All |-> 0] /\ UNCHANGED kept
  BY DEF P!Restart
<1>2. PhoneShapes'
  <2>1. P!Free \in P!Messages
    BY DEF P!Free, P!Messages, P!Values
  <2>2. queue' \in Queues
    BY <1>1, <2>1, Zenon DEF Queues
  <2>3. QED
    BY <1>1, <2>2 DEF PhoneShapes, P!Start, P!Values
<1>3. PhoneTrue'
  <2>1. "none" \notin P!Told /\ P!Told \subseteq P!All
    BY DEF P!Told, P!All, P!Config, P!Record, P!Volatile
  <2>2. ASSUME NEW a \in P!Told PROVE Faithful(a)'
    BY <1>1, <2>1 DEF Faithful, Lone, P!Free
  <2>3. QED
    BY <2>2 DEF PhoneTrue
<1>4. P!SettingsSurvive'
  BY <1>1 DEF P!SettingsSurvive, P!Start, P!Config, P!Volatile, P!All, P!Record
<1>5. QED
  BY <1>2, <1>3, <1>4

LEMMA PhoneKept ==
  ASSUME P!MirrorAssumption, PhoneInv, [P!Next]_(P!vars)
  PROVE  PhoneInv'
<1>1. CASE P!Write \/ P!Read \/ P!Change
  BY <1>1, ActKept
<1>2. CASE P!TimerExpires \/ P!Gate \/ UNCHANGED P!vars
  <2>1. UNCHANGED <<ram, kept, cache, first, queue, phone, spoiled>>
    BY <1>2 DEF P!TimerExpires, P!Gate, P!vars
  <2>2. QED
    BY <2>1 DEF PhoneInv, PhoneShapes, PhoneTrue, Faithful, Lone, P!About, P!SettingsSurvive
<1>3. QED
  BY <1>1, <1>2, BroadcastKept, DeliverKept, RestartKept, Zenon DEF P!Next

LEMMA PhoneSound == PhoneInv => P!PhoneFollows /\ P!SettingsSurvive
<1>1. PhoneInv => \A a \in P!Told \ spoiled : ~first => P!Current(a)
  BY DEF PhoneInv, PhoneTrue, Faithful, P!Current
<1>2. QED
  BY <1>1, Zenon DEF PhoneInv, P!PhoneFollows

-----------------------------------------------------------------------------
(* The rings of a serial line                                                *)

\* The place j bytes after index t, and what a ring holds: the c bytes of s
\* that follow its first m.
Pos(t, j) == IF t + j < RingCap THEN t + j ELSE t + j - RingCap
Run(d, t, c, s, m) ==
    /\ t \in 0..(RingCap - 1) /\ c \in 0..RingCap /\ m \in Nat /\ m + c <= Len(s)
    /\ \A j \in 0..(RingCap - 1) : j < c => d[Pos(t, j)] = s[m + j + 1]
Ahead(o, s) == Len(o) <= Len(s) /\ \A k \in 1..Len(o) : o[k] = s[k]
Bufs == [0..RingCap -> Int]

LEMMA Positions ==
  ASSUME U!UartRingAssumption, NEW t \in 0..(RingCap - 1)
  PROVE  /\ Pos(t, 0) = t
         /\ \A c \in 0..(RingCap - 1) : /\ Pos(t, c) \in 0..(RingCap - 1)
                                        /\ U!Wrapped(Pos(t, c) + 1) = Pos(t, c + 1)
                                        /\ Pos(U!Wrapped(t + 1), c) = Pos(t, c + 1)
         /\ \A j, k \in 0..(RingCap - 1) : Pos(t, j) = Pos(t, k) => j = k
         /\ U!Wrapped(t + 1) \in 0..(RingCap - 1)
BY DEF U!UartRingAssumption, Pos, U!Wrapped

LEMMA PosIsConsistent ==
  ASSUME U!UartRingAssumption, NEW t \in 0..(RingCap - 1), NEW c \in 0..RingCap
  PROVE  (t + c) % RingCap = Pos(t, c)
<1>1. RingCap \in Nat /\ RingCap > 0 /\ t + c \in Nat
  BY DEF U!UartRingAssumption
<1>2. CASE t + c < RingCap
  BY <1>1, <1>2 DEF Pos
<1>3. CASE t + c >= RingCap
  BY <1>1, <1>3 DEF Pos
<1>4. QED
  BY <1>1, <1>2, <1>3

\* A byte accepted: first the sequence grows, then the cell, then the count.
LEMMA RunLonger ==
  ASSUME U!UartRingAssumption, NEW s \in Seq(Int), NEW b \in Int, NEW d, NEW t, NEW c, NEW m,
         Run(d, t, c, s, m)
  PROVE  Run(d, t, c, Append(s, b), m)
<1> DEFINE z == Append(s, b)
<1>1. /\ t \in 0..(RingCap - 1) /\ c \in 0..RingCap /\ m \in Nat /\ m + c <= Len(s)
      /\ RingCap \in Nat
  BY DEF Run, U!UartRingAssumption
<1>2. /\ Len(s) \in Nat /\ Len(z) = Len(s) + 1
      /\ \A k \in 1..Len(s) : z[k] = s[k]
  OBVIOUS
<1> HIDE DEF z
<1>3. ASSUME NEW j \in 0..(RingCap - 1), j < c PROVE d[Pos(t, j)] = z[m + j + 1]
  <2>1. m + j + 1 \in 1..Len(s)
    BY <1>1, <1>2, <1>3
  <2>2. d[Pos(t, j)] = s[m + j + 1]
    BY <1>3, Zenon DEF Run
  <2>3. QED
    BY <1>2, <2>1, <2>2
<1>4. m + c <= Len(z)
  BY <1>1, <1>2
<1>5. QED
  BY <1>1, <1>3, <1>4, Zenon DEF Run, z

LEMMA RunWritten ==
  ASSUME U!UartRingAssumption, NEW s \in Seq(Int), NEW b \in Int, NEW d \in Bufs, NEW t, NEW c,
         NEW m, Run(d, t, c, s, m), c < RingCap
  PROVE  /\ [d EXCEPT ![Pos(t, c)] = b] \in Bufs
         /\ Run([d EXCEPT ![Pos(t, c)] = b], t, c, s, m)
<1>1. Pos(t, c) \in 0..(RingCap - 1)
  BY Positions DEF Run, U!UartRingAssumption
<1>2. ASSUME NEW j \in 0..(RingCap - 1), j < c
      PROVE  [d EXCEPT ![Pos(t, c)] = b][Pos(t, j)] = s[m + j + 1]
  <2>1. Pos(t, j) # Pos(t, c) /\ Pos(t, j) \in 0..RingCap
    <3>1. t \in 0..(RingCap - 1) /\ c \in 0..(RingCap - 1) /\ j # c
      BY <1>2 DEF Run, U!UartRingAssumption
    <3>2. Pos(t, j) \in 0..(RingCap - 1)
      BY <3>1, Positions
    <3>3. Pos(t, j) # Pos(t, c)
      BY <3>1, Positions
    <3>4. QED
      BY <3>2, <3>3 DEF U!UartRingAssumption
  <2>2. d[Pos(t, j)] = s[m + j + 1]
    BY <1>2 DEF Run
  <2>3. QED
    BY <2>1, <2>2 DEF Bufs
<1>3. QED
  BY <1>1, <1>2 DEF Run, Bufs, U!UartRingAssumption

LEMMA RunCounted ==
  ASSUME U!UartRingAssumption, NEW s \in Seq(Int), NEW d, NEW t, NEW c, NEW m,
         Run(d, t, c, s, m), c < RingCap, Len(s) = m + c + 1, d[Pos(t, c)] = s[Len(s)]
  PROVE  Run(d, t, c + 1, s, m)
<1>1. /\ t \in 0..(RingCap - 1) /\ c \in 0..(RingCap - 1) /\ m \in Nat /\ RingCap \in Nat
  BY DEF Run, U!UartRingAssumption
<1>2. c + 1 \in 0..RingCap /\ m + (c + 1) <= Len(s) /\ Len(s) = m + c + 1
  BY <1>1
<1>3. ASSUME NEW j \in 0..(RingCap - 1), j < c + 1 PROVE d[Pos(t, j)] = s[m + j + 1]
  <2>1. CASE j = c
    BY <1>2, <2>1
  <2>2. CASE j # c
    <3>1. j < c
      BY <1>1, <1>3, <2>2
    <3>2. QED
      BY <3>1, Zenon DEF Run
  <2>3. QED
    BY <2>1, <2>2
<1>4. QED
  BY <1>1, <1>2, <1>3, Zenon DEF Run

\* A byte given out.
LEMMA RunShorter ==
  ASSUME U!UartRingAssumption, NEW s \in Seq(Int), NEW d, NEW t, NEW c, NEW m,
         Run(d, t, c, s, m), c > 0
  PROVE  /\ d[t] = s[m + 1]
         /\ Run(d, U!Wrapped(t + 1), c - 1, s, m + 1)
<1>1. RingCap \in Nat \ {0} /\ c \in 1..RingCap /\ t \in 0..(RingCap - 1) /\ m \in Nat /\ m + c <= Len(s)
  BY DEF Run, U!UartRingAssumption
<1>2. d[t] = s[m + 1]
  <2>1. d[Pos(t, 0)] = s[m + 0 + 1]
    BY <1>1 DEF Run
  <2>2. Pos(t, 0) = t /\ m + 0 + 1 = m + 1
    BY <1>1, Positions
  <2>3. QED
    BY <2>1, <2>2
<1>3. ASSUME NEW j \in 0..(RingCap - 1), j < c - 1
      PROVE  d[Pos(U!Wrapped(t + 1), j)] = s[m + 1 + j + 1]
  <2>1. j + 1 \in 0..(RingCap - 1) /\ j + 1 < c
    BY <1>1, <1>3
  <2>2. d[Pos(t, j + 1)] = s[m + (j + 1) + 1]
    BY <2>1 DEF Run
  <2>3. Pos(U!Wrapped(t + 1), j) = Pos(t, j + 1)
    BY <1>1, Positions
  <2>4. m + (j + 1) + 1 = m + 1 + j + 1
    BY <1>1
  <2>5. QED
    BY <2>2, <2>3, <2>4
<1>4. U!Wrapped(t + 1) \in 0..(RingCap - 1)
  BY <1>1, Positions
<1>5. QED
  BY <1>1, <1>2, <1>3, <1>4 DEF Run, U!UartRingAssumption

\* Where the head stands, before and after a byte more or less.
LEMMA HeadMoves ==
  ASSUME U!UartRingAssumption, NEW t \in 0..(RingCap - 1), NEW c \in 0..(RingCap - 1)
  PROVE  /\ Pos(t, c) \in 0..(RingCap - 1) /\ U!Wrapped(Pos(t, c) + 1) = Pos(t, c + 1)
         /\ U!Wrapped(t + 1) \in 0..(RingCap - 1) /\ Pos(U!Wrapped(t + 1), c) = Pos(t, c + 1)
BY Positions

LEMMA AheadGrows ==
  ASSUME NEW o \in Seq(Int), NEW s \in Seq(Int), NEW b \in Int, Ahead(o, s)
  PROVE  Ahead(o, Append(s, b)) /\ (Len(o) < Len(s) => Ahead(Append(o, s[Len(o) + 1]), s))
<1>1. Ahead(o, Append(s, b))
  BY DEF Ahead
<1>2. ASSUME Len(o) < Len(s) PROVE Ahead(Append(o, s[Len(o) + 1]), s)
  BY <1>2 DEF Ahead
<1>3. QED
  BY <1>1, <1>2

LEMMA AheadIsPrefix ==
  ASSUME NEW o \in Seq(Int), NEW s \in Seq(Int), Ahead(o, s)
  PROVE  U!IsPrefix(o, s)
BY DEF Ahead, U!IsPrefix

Rings == [data : Bufs, head : Int, tail : Int, count : Int]
Bus(r, s, m) == Run(r.data, r.tail, r.count, s, m)
Whole(r, s, m) ==
    Bus(r, s, m) /\ Len(s) = m + r.count /\ r.head = Pos(r.tail, r.count)

Pushing == U!Working /\ op = "send"
Reading == U!Working /\ op # "send"

\* The transmit ring and, inside a push, the byte on its way into it.
TxHolds ==
    /\ tx \in Rings /\ out \in Seq(Int) /\ Ahead(out, queued)
    /\ IF Pushing
       THEN /\ Bus(tx, queued, Len(out)) /\ Len(queued) = Len(out) + tx.count + 1
            /\ tx.count < RingCap /\ i = Pos(tx.tail, tx.count)
            /\ queued[Len(queued)] = given
            /\ tx.head = IF pc = "index" THEN i ELSE IF pc = "count" THEN U!Wrapped(i + 1) ELSE i + 1
            /\ pc \in {"wrap", "count"} => tx.data[i] = given
            /\ pc = "count" => n = tx.count + 1
       ELSE Whole(tx, queued, Len(out))

\* The receive ring and, inside a read, the byte on its way out of it.
RxHolds ==
    /\ rx \in Rings /\ Ahead(taken, heard)
    /\ IF Reading
       THEN /\ pc \in {"index", "data"} => /\ Run(rx.data, i, rx.count, heard, Len(taken))
                                         /\ Len(heard) = Len(taken) + rx.count
            /\ pc \in {"wrap", "count"} => /\ Run(rx.data, i, rx.count, heard, Len(taken) - 1)
                                         /\ Len(heard) = Len(taken) - 1 + rx.count
            /\ rx.count > 0 /\ rx.head = Pos(i, rx.count)
            /\ rx.tail = IF pc = "index" THEN i ELSE IF pc = "count" THEN U!Wrapped(i + 1) ELSE i + 1
            /\ pc = "count" => n = rx.count - 1
       ELSE Whole(rx, heard, Len(taken))

Masked == pc = "body" \/ U!Working
UartShapes ==
    /\ queued \in Seq(Int) /\ heard \in Seq(Int) /\ taken \in Seq(Int)
    /\ given \in Nat /\ printed \in Nat /\ arrived \in Nat /\ dr \in Int
    /\ pc \in {"idle", "mask", "body", "index", "data", "wrap", "count", "load", "unmask"}
    /\ op \in {"send", "get", "flush"}
UartInv ==
    /\ UartShapes /\ RxHolds
    /\ Masked /\ op # "send" => "rxne" \notin cr1
    /\ tangled \/ (TxHolds /\ (Masked /\ op = "send" => "txe" \notin cr1))

LEMMA UartBegins == ASSUME U!UartRingAssumption PROVE U!Init => UartInv
<1> SUFFICES ASSUME U!Init PROVE UartInv
  OBVIOUS
<1>1. U!EmptyRing \in Rings
  BY DEF U!EmptyRing, Rings, Bufs, U!NoByte
<1>2. Whole(U!EmptyRing, << >>, 0)
  BY DEF Whole, Bus, Run, U!EmptyRing, Pos, U!UartRingAssumption
<1>3. QED
  BY <1>1, <1>2 DEF U!Init, UartInv, UartShapes, TxHolds, RxHolds, Pushing, Reading, U!Working,
     Ahead, Masked, U!NoByte

\* A byte pushed without interruption into a ring that is not full, and one
\* taken.
LEMMA PushedWhole ==
  ASSUME U!UartRingAssumption, NEW r \in Rings, NEW s \in Seq(Int), NEW m, NEW b \in Int,
         Whole(r, s, m), ~U!Full(r)
  PROVE  U!Pushed(r, b) \in Rings /\ Whole(U!Pushed(r, b), Append(s, b), m)
<1> DEFINE t == r.tail
           c == r.count
           h == Pos(t, c)
           d == [r.data EXCEPT ![h] = b]
           w == U!Wrapped(h + 1)
           z == Append(s, b)
           p == U!Pushed(r, b)
<1>1. /\ t \in 0..(RingCap - 1) /\ c \in 0..(RingCap - 1) /\ r.data \in Bufs
      /\ r.head = h /\ m \in Nat /\ Len(s) = m + c /\ RingCap \in Nat
      /\ Run(r.data, t, c, s, m)
  BY DEF Whole, Bus, Run, U!Full, Rings, U!UartRingAssumption
<1>2. p = [r EXCEPT !.data = d, !.head = w, !.count = c + 1]
  BY <1>1, Zenon DEF U!Pushed
<1>3. z \in Seq(Int) /\ Len(z) = m + c + 1 /\ z[Len(z)] = b
  BY <1>1
<1>4. Run(r.data, t, c, z, m)
  BY <1>1, RunLonger, Zenon
<1>5. t = r.tail
  OBVIOUS
<1> HIDE DEF t, c, z, p
<1>6. h \in 0..(RingCap - 1) /\ w = Pos(t, c + 1)
  BY <1>1, HeadMoves, Zenon
<1>7. c < RingCap
  BY <1>1
<1>8. d \in Bufs /\ Run(d, t, c, z, m)
  BY <1>1, <1>3, <1>4, <1>7, RunWritten, Zenon
<1>9. d[h] = b
  BY <1>1, <1>6 DEF Bufs
<1>10. Run(d, t, c + 1, z, m)
  BY <1>3, <1>7, <1>8, <1>9, RunCounted, Zenon
<1>11. w \in Int /\ c + 1 \in Int
  BY <1>1, <1>6 DEF U!Wrapped
<1> HIDE DEF d, w
<1>12. /\ p \in Rings /\ p.data = d /\ p.head = w /\ p.count = c + 1 /\ p.tail = t
  BY <1>2, <1>5, <1>8, <1>11 DEF Rings
<1>13. Whole(p, z, m)
  <2>1. Len(z) = m + (c + 1)
    BY <1>1, <1>3
  <2>2. QED
    BY <1>6, <1>10, <1>12, <2>1, Zenon DEF Whole, Bus
<1>14. QED
  BY <1>12, <1>13, Zenon DEF p, z

LEMMA PoppedWhole ==
  ASSUME U!UartRingAssumption, NEW r \in Rings, NEW s \in Seq(Int), NEW m,
         Whole(r, s, m), r.count # 0
  PROVE  /\ U!Popped(r) \in Rings /\ Whole(U!Popped(r), s, m + 1)
         /\ r.data[r.tail] = s[m + 1] /\ m < Len(s)
<1> DEFINE t == r.tail
           c == r.count
           e == c - 1
           w == U!Wrapped(t + 1)
           p == U!Popped(r)
<1>0. /\ t \in 0..(RingCap - 1) /\ c \in 0..RingCap /\ m \in Nat
      /\ Len(s) = m + c /\ r.head = Pos(t, c) /\ Run(r.data, t, c, s, m) /\ c # 0
  BY Zenon DEF Whole, Bus, Run
<1>1. /\ t \in 0..(RingCap - 1) /\ c \in 1..RingCap /\ RingCap \in Nat /\ m \in Nat
      /\ Len(s) = m + c /\ r.head = Pos(t, c) /\ Run(r.data, t, c, s, m)
  <2> HIDE DEF t, c
  <2>1. QED
    BY <1>0 DEF U!UartRingAssumption
<1>2. p = [r EXCEPT !.tail = w, !.count = e]
  BY Zenon DEF U!Popped
<1>3. t = r.tail /\ c = r.count
  OBVIOUS
<1> HIDE DEF t, c, p
<1>4. c > 0 /\ e \in 0..(RingCap - 1) /\ e + 1 = c /\ (m + 1) + e = Len(s) /\ m < Len(s)
  BY <1>1
<1>5. r.data[t] = s[m + 1] /\ Run(r.data, w, e, s, m + 1)
  BY <1>1, <1>4, RunShorter, Zenon
<1> HIDE DEF e
<1>6. w \in 0..(RingCap - 1) /\ Pos(w, e) = Pos(t, c)
  <2>1. w \in 0..(RingCap - 1) /\ Pos(w, e) = Pos(t, e + 1)
    BY <1>1, <1>4, HeadMoves, Zenon
  <2>2. QED
    BY <1>4, <2>1
<1> HIDE DEF w
<1>7. p \in Rings /\ p.data = r.data /\ p.tail = w /\ p.count = e /\ p.head = r.head
  <2>1. w \in Int /\ e \in Int
    BY <1>1, <1>4, <1>6
  <2>2. QED
    BY <1>2, <2>1 DEF Rings
<1>8. Whole(p, s, m + 1)
  BY <1>1, <1>4, <1>5, <1>6, <1>7, Zenon DEF Whole, Bus
<1>9. QED
  BY <1>3, <1>4, <1>5, <1>7, <1>8, Zenon DEF p

LEMMA TxStill ==
  ASSUME TxHolds, UNCHANGED <<tx, queued, out>>, ~Pushing, ~Pushing'
  PROVE  TxHolds'
BY DEF TxHolds, Pushing, U!Working, Whole, Bus, Run, Ahead, Pos

LEMMA RxStill ==
  ASSUME RxHolds, UNCHANGED <<rx, heard, taken>>, ~Reading, ~Reading'
  PROVE  RxHolds'
BY DEF RxHolds, Reading, U!Working, Whole, Bus, Run, Ahead, Pos

LEMMA OutsideKept ==
  ASSUME UartInv, U!Mask \/ U!PushFull \/ U!PopNothing \/ U!Load \/ U!Unmask \/
                  (\E o \in {"send", "get", "flush"} : U!Call(o)), UNCHANGED tangled
  PROVE  UartInv'
<1> USE DEF U!Mask, U!PushFull, U!PopNothing, U!Load, U!Unmask, U!Call, U!Goto, U!trace, U!made,
            U!ring, U!regs, UartInv
<1>1. UNCHANGED <<tx, rx, queued, out, heard, taken>> /\ ~U!Working /\ ~U!Working'
  BY DEF U!Working
<1>2. RxHolds'
  BY <1>1, RxStill DEF Reading
<1>3. ~tangled => TxHolds'
  BY <1>1, TxStill DEF Pushing
<1>4. UartShapes'
  BY DEF UartShapes
<1>5. Masked' => IF op = "send" THEN "txe" \notin cr1' ELSE "rxne" \notin cr1'
  BY <1>1 DEF Masked, U!Bit
<1>6. Masked' => op' = op
  BY <1>1 DEF Masked
<1>7. QED
  BY <1>2, <1>3, <1>4, <1>5, <1>6

\* The first step of a push and of a read.
LEMMA BeginKept ==
  ASSUME U!UartRingAssumption, UartInv, U!PushBegin \/ U!PopBegin, UNCHANGED tangled
  PROVE  UartInv'
<1> USE DEF UartInv
<1>1. CASE U!PushBegin
  <2>1. /\ op = "send" /\ op' = op /\ pc = "body" /\ pc' = "index" /\ i' = tx.head
        /\ ~U!Full(tx) /\ queued' = Append(queued, given)
        /\ UNCHANGED <<tx, rx, cr1, dr, given, printed, arrived, out, heard, taken>>
    BY <1>1 DEF U!PushBegin, U!Goto, U!made
  <2>2. UartShapes'
    BY <2>1 DEF UartShapes
  <2>3. RxHolds'
    BY <2>1, RxStill DEF Reading
  <2>4. ASSUME ~tangled PROVE TxHolds'
    <3>1. /\ tx \in Rings /\ Ahead(out, queued) /\ Whole(tx, queued, Len(out))
          /\ given \in Int /\ queued \in Seq(Int) /\ out \in Seq(Int)
      BY <2>1, <2>4 DEF TxHolds, Pushing, U!Working, UartShapes
    <3>2. Bus(tx, queued', Len(out)) /\ Ahead(out, queued')
      BY <2>1, <3>1, RunLonger, AheadGrows DEF Whole, Bus
    <3>3. Len(queued') = Len(queued) + 1 /\ queued'[Len(queued')] = given
      BY <2>1, <3>1
    <3>4. Len(queued) = Len(out) + tx.count /\ tx.head = Pos(tx.tail, tx.count)
      BY <3>1, Zenon DEF Whole
    <3>5. tx.count < RingCap /\ Len(out) \in Nat /\ tx.count \in Int
      BY <2>1, <3>1 DEF U!Full, Rings, U!UartRingAssumption
    <3>6. Len(queued') = Len(out) + tx.count + 1
      BY <3>3, <3>4, <3>5
    <3>7. QED
      BY <2>1, <3>1, <3>2, <3>3, <3>4, <3>5, <3>6 DEF TxHolds, Pushing, U!Working, Bus, Pos
  <2>5. QED
    BY <2>1, <2>2, <2>3, <2>4 DEF Masked, U!Working
<1>2. CASE U!PopBegin
  <2>1. /\ op = "get" /\ op' = op /\ pc = "body" /\ pc' = "index" /\ i' = rx.tail
        /\ rx.count # 0
        /\ UNCHANGED <<tx, rx, cr1, dr, given, printed, arrived, queued, out, heard, taken>>
    BY <1>2 DEF U!PopBegin, U!Goto, U!made, U!trace
  <2>2. UartShapes'
    BY <2>1 DEF UartShapes
  <2>3. ~tangled => TxHolds'
    BY <2>1, TxStill DEF Pushing
  <2>4. RxHolds'
    <3>1. /\ rx \in Rings /\ Ahead(taken, heard) /\ Whole(rx, heard, Len(taken))
      BY <2>1 DEF RxHolds, Reading, U!Working
    <3>2. /\ Run(rx.data, i', rx.count, heard, Len(taken)) /\ Len(heard) = Len(taken) + rx.count
          /\ rx.head = Pos(i', rx.count)
      BY <2>1, <3>1, Zenon DEF Whole, Bus
    <3>3. rx.count > 0
      BY <2>1, <3>2 DEF Run, U!UartRingAssumption
    <3>4. QED
      BY <2>1, <3>1, <3>2, <3>3 DEF RxHolds, Reading, U!Working
  <2>5. QED
    BY <2>1, <2>2, <2>3, <2>4 DEF Masked, U!Working
<1>3. QED
  BY <1>1, <1>2

\* The steps of a push: index, data, wrap, count.
LEMMA PushKept ==
  ASSUME U!UartRingAssumption, UartInv, op = "send", UNCHANGED tangled,
         U!Index \/ U!Data \/ U!Wrap \/ U!Count
  PROVE  UartInv'
<1> USE DEF UartInv
<1>1. /\ op' = op /\ U!Working /\ pc' \in {"data", "wrap", "count", "load"}
      /\ UNCHANGED <<rx, cr1, dr, given, printed, arrived, queued, out, heard, taken, i>>
  BY DEF U!Index, U!Data, U!Wrap, U!Count, U!Ring, U!Goto, U!Working, U!made, U!trace, U!regs
<1>2. UartShapes'
  BY <1>1 DEF UartShapes
<1>3. RxHolds'
  BY <1>1, RxStill DEF Reading
<1>4. Masked' => Masked
  BY <1>1 DEF Masked
<1>5. ASSUME ~tangled PROVE TxHolds'
  <2>1. /\ tx \in Rings /\ Ahead(out, queued) /\ Bus(tx, queued, Len(out))
        /\ Len(queued) = Len(out) + tx.count + 1 /\ tx.count < RingCap
        /\ i = Pos(tx.tail, tx.count) /\ queued[Len(queued)] = given
        /\ given \in Int /\ queued \in Seq(Int) /\ out \in Seq(Int)
    BY <1>1, <1>5 DEF TxHolds, Pushing, UartShapes
  <2>2. /\ tx.tail \in 0..(RingCap - 1) /\ tx.count \in 0..RingCap
        /\ Run(tx.data, tx.tail, tx.count, queued, Len(out))
    BY <2>1, Zenon DEF Bus, Run
  <2>3. tx.count \in 0..(RingCap - 1) /\ RingCap \in Nat
    BY <2>1, <2>2 DEF U!UartRingAssumption
  <2>4. /\ i \in 0..(RingCap - 1) /\ U!Wrapped(i + 1) = Pos(tx.tail, tx.count + 1)
    BY <2>1, <2>2, <2>3, HeadMoves, Zenon
  <2>5. i \in Int /\ i + 1 \in Int /\ U!Wrapped(i + 1) \in Int
    BY <2>3, <2>4 DEF U!Wrapped
  <2>6. CASE U!Index
    <3>1. tx' = [tx EXCEPT !.head = i + 1] /\ pc = "index" /\ pc' = "data"
      BY <2>6 DEF U!Index, U!Ring, U!Goto
    <3>2. /\ tx' \in Rings /\ tx'.head = i + 1 /\ tx'.data = tx.data /\ tx'.tail = tx.tail
          /\ tx'.count = tx.count
      BY <2>1, <2>5, <3>1 DEF Rings
    <3>3. QED
      BY <1>1, <2>1, <3>1, <3>2 DEF TxHolds, Pushing, U!Working, Bus
  <2>7. CASE U!Data
    <3>1. tx' = [tx EXCEPT !.data[i] = given] /\ pc = "data" /\ pc' = "wrap"
      BY <2>7 DEF U!Data, U!Goto
    <3>2. tx.data \in Bufs /\ tx.head = i + 1
      BY <1>1, <1>5, <2>1, <3>1 DEF Rings, TxHolds, Pushing
    <3> DEFINE d == [tx.data EXCEPT ![i] = given]
    <3>3. d \in Bufs /\ Run(d, tx.tail, tx.count, queued, Len(out))
      BY <2>1, <2>2, <3>2, RunWritten, Zenon
    <3>4. d[i] = given
      BY <2>3, <2>4, <3>2 DEF Bufs
    <3>5. tx' = [tx EXCEPT !.data = d]
      BY <3>1, Zenon
    <3> HIDE DEF d
    <3>6. /\ tx' \in Rings /\ tx'.head = tx.head /\ tx'.data = d /\ tx'.tail = tx.tail
          /\ tx'.count = tx.count
      BY <2>1, <3>3, <3>5 DEF Rings
    <3>7. QED
      BY <1>1, <2>1, <3>1, <3>2, <3>3, <3>4, <3>6 DEF TxHolds, Pushing, U!Working, Bus
  <2>8. CASE U!Wrap
    <3>1. /\ tx' = [tx EXCEPT !.head = U!Wrapped(tx.head)] /\ n' = tx.count + 1
          /\ pc = "wrap" /\ pc' = "count"
      BY <2>8 DEF U!Wrap, U!Ring, U!Goto
    <3>2. tx.data[i] = given /\ tx.head = i + 1
      BY <1>1, <1>5, <3>1 DEF TxHolds, Pushing
    <3>3. /\ tx' \in Rings /\ tx'.head = U!Wrapped(i + 1) /\ tx'.data = tx.data
          /\ tx'.tail = tx.tail /\ tx'.count = tx.count
      BY <2>1, <2>5, <3>1, <3>2 DEF Rings
    <3>4. QED
      BY <1>1, <2>1, <3>1, <3>2, <3>3 DEF TxHolds, Pushing, U!Working, Bus
  <2>9. CASE U!Count
    <3>1. tx' = [tx EXCEPT !.count = n] /\ pc = "count" /\ pc' = "load"
      BY <2>9 DEF U!Count, U!Ring, U!Goto
    <3>2. tx.data[i] = given /\ n = tx.count + 1 /\ tx.head = U!Wrapped(i + 1)
      BY <1>1, <1>5, <3>1 DEF TxHolds, Pushing
    <3>3. n \in Int
      BY <2>3, <3>2
    <3>4. /\ tx' \in Rings /\ tx'.head = tx.head /\ tx'.data = tx.data
          /\ tx'.tail = tx.tail /\ tx'.count = tx.count + 1
      BY <2>1, <3>1, <3>2, <3>3 DEF Rings
    <3>5. Run(tx.data, tx.tail, tx.count + 1, queued, Len(out))
      BY <2>1, <2>2, <3>2, RunCounted
    <3>6. Len(queued) = Len(out) + (tx.count + 1)
      BY <2>1, <2>3
    <3>7. Whole(tx', queued', Len(out'))
      BY <1>1, <2>4, <3>2, <3>4, <3>5, <3>6, Zenon DEF Whole, Bus
    <3>8. QED
      BY <1>1, <2>1, <3>1, <3>4, <3>7 DEF TxHolds, Pushing, U!Working
  <2>10. QED
    BY <2>6, <2>7, <2>8, <2>9
<1>6. QED
  BY <1>1, <1>2, <1>3, <1>4, <1>5

\* The steps of a read.
LEMMA ReadKept ==
  ASSUME U!UartRingAssumption, UartInv, op # "send", UNCHANGED tangled,
         U!Index \/ U!Data \/ U!Wrap \/ U!Count
  PROVE  UartInv'
<1> USE DEF UartInv
<1>1. /\ op' = op /\ U!Working /\ pc' \in {"data", "wrap", "count", "load"}
      /\ UNCHANGED <<tx, cr1, dr, given, printed, arrived, queued, out, heard, i>>
  BY DEF U!Index, U!Data, U!Wrap, U!Count, U!Ring, U!Goto, U!Working, U!made, U!trace, U!regs
<1>2. ~tangled => TxHolds'
  BY <1>1, TxStill DEF Pushing
<1>3. Masked' => Masked
  BY <1>1 DEF Masked
<1>4. /\ rx \in Rings /\ Ahead(taken, heard) /\ rx.count > 0 /\ rx.head = Pos(i, rx.count)
      /\ heard \in Seq(Int) /\ taken \in Seq(Int)
  BY <1>1 DEF RxHolds, Reading, UartShapes
<1>5. i \in 0..(RingCap - 1) /\ rx.count \in 0..RingCap
  BY <1>1, Zenon DEF RxHolds, Reading, U!Working, Run
<1>6. PICK e \in 0..(RingCap - 1) : rx.count = e + 1
  <2>1. rx.count - 1 \in 0..(RingCap - 1) /\ rx.count = rx.count - 1 + 1
    BY <1>4, <1>5 DEF U!UartRingAssumption
  <2>2. QED
    BY <2>1
<1>7. /\ U!Wrapped(i + 1) \in 0..(RingCap - 1)
      /\ Pos(U!Wrapped(i + 1), e) = Pos(i, e + 1)
  BY <1>5, HeadMoves, Zenon
<1>8. i + 1 \in Int /\ U!Wrapped(i + 1) \in Int /\ e \in Int /\ Len(taken) \in Nat
  BY <1>4, <1>5, <1>7
<1>9. CASE U!Index
  <2>1. /\ rx' = [rx EXCEPT !.tail = i + 1] /\ pc = "index" /\ pc' = "data"
        /\ UNCHANGED taken
    BY <1>9 DEF U!Index, U!Ring, U!Goto, U!trace
  <2>2. /\ rx' \in Rings /\ rx'.head = rx.head /\ rx'.data = rx.data /\ rx'.tail = i + 1
        /\ rx'.count = rx.count
    BY <1>4, <1>8, <2>1 DEF Rings
  <2>3. RxHolds'
    BY <1>1, <1>4, <2>1, <2>2 DEF RxHolds, Reading, U!Working
  <2>4. QED
    BY <1>1, <1>2, <1>3, <2>1, <2>3 DEF UartShapes
<1>10. CASE U!Data
  <2>1. /\ taken' = Append(taken, rx.data[i]) /\ UNCHANGED rx /\ pc = "data" /\ pc' = "wrap"
    BY <1>10 DEF U!Data, U!Goto
  <2>2. /\ Run(rx.data, i, rx.count, heard, Len(taken)) /\ Len(heard) = Len(taken) + rx.count
        /\ rx.tail = i + 1
    BY <1>1, <2>1 DEF RxHolds, Reading
  <2>3. rx.data[i] = heard[Len(taken) + 1]
    <3> DEFINE d == rx.data
               c == rx.count
               m == Len(taken)
    <3>1. Run(d, i, c, heard, m) /\ c > 0 /\ heard \in Seq(Int)
      BY <1>4, <2>2
    <3> HIDE DEF d, c, m, UartInv
    <3>2. d[i] = heard[m + 1] /\ Run(d, U!Wrapped(i + 1), c - 1, heard, m + 1)
      BY <3>1, RunShorter, Zenon
    <3>3. QED
      BY <3>2, Zenon DEF d, m
  <2>4. Len(taken) < Len(heard)
    BY <1>4, <1>6, <1>8, <2>2
  <2>5. Ahead(taken', heard)
    BY <1>4, <2>1, <2>3, <2>4, AheadGrows
  <2>6. rx.data[i] \in Int
    BY <1>4, <2>3, <2>4
  <2>7. taken' \in Seq(Int) /\ Len(taken') - 1 = Len(taken)
    BY <1>4, <2>1, <2>6
  <2>8. RxHolds'
    BY <1>1, <1>4, <2>1, <2>2, <2>5, <2>7 DEF RxHolds, Reading, U!Working
  <2>9. QED
    BY <1>1, <1>2, <1>3, <2>1, <2>7, <2>8 DEF UartShapes
<1>11. CASE U!Wrap
  <2>1. /\ rx' = [rx EXCEPT !.tail = U!Wrapped(rx.tail)] /\ n' = rx.count - 1
        /\ pc = "wrap" /\ pc' = "count" /\ UNCHANGED taken
    BY <1>11 DEF U!Wrap, U!Ring, U!Goto, U!trace
  <2>2. rx.tail = i + 1
    BY <1>1, <2>1 DEF RxHolds, Reading
  <2>3. /\ rx' \in Rings /\ rx'.head = rx.head /\ rx'.data = rx.data
        /\ rx'.tail = U!Wrapped(i + 1) /\ rx'.count = rx.count
    BY <1>4, <1>8, <2>1, <2>2 DEF Rings
  <2>4. RxHolds'
    BY <1>1, <1>4, <2>1, <2>3 DEF RxHolds, Reading, U!Working
  <2>5. QED
    BY <1>1, <1>2, <1>3, <2>1, <2>4 DEF UartShapes
<1>12. CASE U!Count
  <2>1. /\ rx' = [rx EXCEPT !.count = n] /\ pc = "count" /\ pc' = "load" /\ UNCHANGED taken
    BY <1>12 DEF U!Count, U!Ring, U!Goto, U!trace
  <2>2. /\ Run(rx.data, i, rx.count, heard, Len(taken) - 1)
        /\ Len(heard) = Len(taken) - 1 + rx.count
        /\ rx.tail = U!Wrapped(i + 1) /\ n = rx.count - 1
    BY <1>1, <2>1 DEF RxHolds, Reading
  <2>3. n = e
    BY <1>6, <1>8, <2>2
  <2>4. /\ rx' \in Rings /\ rx'.head = rx.head /\ rx'.data = rx.data /\ rx'.tail = rx.tail
        /\ rx'.count = e
    BY <1>4, <1>8, <2>1, <2>3 DEF Rings
  <2>5. Run(rx.data, U!Wrapped(i + 1), rx.count - 1, heard, Len(taken) - 1 + 1)
    BY <1>4, <2>2, RunShorter, Zenon
  <2>6. rx.count - 1 = e /\ Len(taken) - 1 + 1 = Len(taken) /\ Len(heard) = Len(taken) + e
    BY <1>6, <1>8, <2>2
  <2>7. Whole(rx', heard', Len(taken'))
    BY <1>1, <1>4, <1>6, <1>7, <2>1, <2>2, <2>4, <2>5, <2>6 DEF Whole, Bus
  <2>8. RxHolds'
    BY <1>1, <1>4, <2>1, <2>4, <2>7 DEF RxHolds, Reading, U!Working
  <2>9. QED
    BY <1>1, <1>2, <1>3, <2>1, <2>8 DEF UartShapes
<1>13. QED
  BY <1>9, <1>10, <1>11, <1>12

\* The receiver, the transmitter and a callback.
LEMMA InterruptKept ==
  ASSUME U!UartRingAssumption, UartInv,
         U!Arrive \/ U!IrqReceive \/ U!IrqTransmit \/ U!IsrPrint
  PROVE  UartInv'
<1> USE DEF UartInv
<1>0. UNCHANGED <<pc, op, reg, i, n>>
  BY DEF U!Arrive, U!IrqReceive, U!IrqTransmit, U!IsrPrint, U!cpu, U!regs
<1>1. CASE U!Arrive
  <2>1. /\ UNCHANGED <<tx, rx, cr1, given, printed, queued, out, heard, taken, tangled>>
        /\ arrived' = arrived + 1 /\ (dr' = dr \/ dr' = RingBytes + arrived + 1)
    BY <1>1 DEF U!Arrive, U!ring, U!trace
  <2>2. UartShapes'
    BY <1>0, <2>1 DEF UartShapes, U!UartRingAssumption
  <2>3. RxHolds' /\ (tangled' \/ TxHolds')
    BY <1>0, <2>1 DEF TxHolds, RxHolds, Pushing, Reading, U!Working, Whole, Bus, Run, Ahead, Pos
  <2>4. QED
    BY <1>0, <2>1, <2>2, <2>3 DEF Masked, U!Working
<1>2. CASE U!IrqReceive
  <2>1. /\ UNCHANGED <<tx, cr1, given, printed, arrived, queued, out, taken, tangled>>
        /\ dr' = U!NoByte /\ "rxne" \in cr1
        /\ \/ UNCHANGED <<rx, heard>>
           \/ ~U!Full(rx) /\ rx' = U!Pushed(rx, dr) /\ heard' = Append(heard, dr)
    BY <1>2 DEF U!IrqReceive, U!made
  <2>2. ~Reading /\ ~Reading'
    BY <1>0, <2>1 DEF Reading, Masked, U!Working
  <2>3. UartShapes'
    <3>1. heard \in Seq(Int) /\ dr \in Int /\ dr' \in Int
      BY <2>1 DEF UartShapes, U!NoByte
    <3>2. Append(heard, dr) \in Seq(Int)
      BY <3>1
    <3>3. heard' \in Seq(Int)
      BY <2>1, <3>1, <3>2, Zenon
    <3>4. QED
      BY <1>0, <2>1, <3>1, <3>3 DEF UartShapes
  <2>4. ~tangled => TxHolds'
    BY <1>0, <2>1 DEF TxHolds, Pushing, U!Working, Whole, Bus, Run, Ahead, Pos
  <2>5. RxHolds'
    <3>1. CASE UNCHANGED <<rx, heard>>
      BY <2>1, <2>2, <3>1, RxStill
    <3>2. CASE ~U!Full(rx) /\ rx' = U!Pushed(rx, dr) /\ heard' = Append(heard, dr)
      <4>1. /\ rx \in Rings /\ Ahead(taken, heard) /\ Whole(rx, heard, Len(taken))
            /\ dr \in Int /\ heard \in Seq(Int) /\ taken \in Seq(Int)
        BY <2>2 DEF RxHolds, UartShapes
      <4>2. rx' \in Rings /\ Whole(rx', heard', Len(taken))
        BY <3>2, <4>1, PushedWhole
      <4>3. Ahead(taken, heard')
        BY <3>2, <4>1, AheadGrows
      <4>4. QED
        BY <2>1, <2>2, <4>2, <4>3 DEF RxHolds
    <3>3. QED
      BY <2>1, <3>1, <3>2
  <2>6. QED
    BY <1>0, <2>1, <2>3, <2>4, <2>5 DEF Masked, U!Working
<1>3. CASE U!IrqTransmit
  <2>1. /\ UNCHANGED <<rx, dr, given, printed, arrived, queued, heard, taken, tangled>>
        /\ cr1' \subseteq cr1 /\ "txe" \in cr1
        /\ \/ UNCHANGED <<tx, out>>
           \/ tx.count # 0 /\ tx' = U!Popped(tx) /\ out' = Append(out, tx.data[tx.tail])
    BY <1>3 DEF U!IrqTransmit, U!made
  <2>2. ~tangled => ~Pushing /\ ~Pushing'
    BY <1>0, <2>1 DEF Pushing, Masked, U!Working
  <2>3. RxHolds'
    BY <1>0, <2>1 DEF RxHolds, Reading, U!Working, Whole, Bus, Run, Ahead, Pos
  <2>4. ~tangled => TxHolds'
    <3>1. CASE UNCHANGED <<tx, out>>
      BY <2>1, <2>2, <3>1, TxStill
    <3>2. CASE tx.count # 0 /\ tx' = U!Popped(tx) /\ out' = Append(out, tx.data[tx.tail])
      <4> SUFFICES ASSUME ~tangled PROVE TxHolds'
        OBVIOUS
      <4>1. /\ tx \in Rings /\ Ahead(out, queued) /\ Whole(tx, queued, Len(out))
            /\ queued \in Seq(Int) /\ out \in Seq(Int)
        BY <2>2 DEF TxHolds, UartShapes
      <4>2. /\ tx' \in Rings /\ Whole(tx', queued, Len(out) + 1)
            /\ tx.data[tx.tail] = queued[Len(out) + 1] /\ Len(out) < Len(queued)
        BY <3>2, <4>1, PoppedWhole
      <4>3. queued[Len(out) + 1] \in Int
        BY <4>1, <4>2
      <4>4. out' \in Seq(Int) /\ Ahead(out', queued) /\ Len(out') = Len(out) + 1
        BY <3>2, <4>1, <4>2, <4>3, AheadGrows
      <4>5. QED
        BY <2>1, <2>2, <4>2, <4>4 DEF TxHolds
    <3>3. QED
      BY <2>1, <3>1, <3>2
  <2>5. UartShapes'
    BY <1>0, <2>1 DEF UartShapes
  <2>6. QED
    BY <1>0, <2>1, <2>3, <2>4, <2>5 DEF Masked, U!Working
<1>4. CASE U!IsrPrint
  <2> DEFINE b == 2 * RingBytes + printed + 1
  <2>1. /\ UNCHANGED <<rx, dr, given, arrived, out, heard, taken>>
        /\ printed' = printed + 1 /\ cr1' = cr1 \cup {"txe"}
        /\ tangled' = (tangled \/ pc # "idle")
        /\ \/ UNCHANGED <<tx, queued>>
           \/ ~U!Full(tx) /\ tx' = U!Pushed(tx, b) /\ queued' = Append(queued, b)
    BY <1>4 DEF U!IsrPrint
  <2>2. b \in Int
    BY DEF UartShapes, U!UartRingAssumption
  <2> HIDE DEF b
  <2>3. UartShapes'
    <3>1. queued \in Seq(Int)
      BY DEF UartShapes
    <3>2. Append(queued, b) \in Seq(Int)
      BY <2>2, <3>1
    <3>3. queued' \in Seq(Int)
      BY <2>1, <3>1, <3>2, Zenon
    <3>4. QED
      BY <1>0, <2>1, <3>3 DEF UartShapes
  <2>4. RxHolds'
    BY <1>0, <2>1 DEF RxHolds, Reading, U!Working, Whole, Bus, Run, Ahead, Pos
  <2>5. ASSUME ~tangled' PROVE TxHolds'
    <3>1. ~tangled /\ pc = "idle"
      BY <2>1, <2>5
    <3>2. ~Pushing /\ ~Pushing'
      BY <1>0, <3>1 DEF Pushing, U!Working
    <3>3. CASE UNCHANGED <<tx, queued>>
      BY <2>1, <3>1, <3>2, <3>3, TxStill
    <3>4. CASE ~U!Full(tx) /\ tx' = U!Pushed(tx, b) /\ queued' = Append(queued, b)
      <4>1. /\ tx \in Rings /\ Ahead(out, queued) /\ Whole(tx, queued, Len(out))
            /\ queued \in Seq(Int) /\ out \in Seq(Int)
        BY <3>1, <3>2 DEF TxHolds, UartShapes
      <4>2. tx' \in Rings /\ Whole(tx', queued', Len(out))
        BY <2>2, <3>4, <4>1, PushedWhole
      <4>3. Ahead(out, queued')
        BY <2>2, <3>4, <4>1, AheadGrows
      <4>4. QED
        BY <2>1, <3>2, <4>1, <4>2, <4>3 DEF TxHolds
    <3>5. QED
      BY <2>1, <3>3, <3>4
  <2>6. Masked' => op' = op /\ Masked /\ pc # "idle"
    BY <1>0 DEF Masked, U!Working
  <2>7. QED
    BY <2>1, <2>3, <2>4, <2>5, <2>6
<1>5. QED
  BY <1>1, <1>2, <1>3, <1>4

LEMMA UartKept ==
  ASSUME U!UartRingAssumption, UartInv, [U!Next]_(U!vars)
  PROVE  UartInv'
<1>1. CASE \E o \in {"send", "get", "flush"} : U!Call(o)
  <2>1. UNCHANGED tangled
    BY <1>1 DEF U!Call
  <2>2. QED
    BY <1>1, <2>1, OutsideKept, Zenon
<1>2. CASE U!Step
  BY <1>2, OutsideKept, BeginKept, PushKept, ReadKept, Zenon DEF U!Step
<1>3. CASE U!Arrive \/ U!IrqReceive \/ U!IrqTransmit \/ U!IsrPrint
  BY <1>3, InterruptKept, Zenon
<1>4. CASE UNCHANGED U!vars
  BY <1>4 DEF U!vars, U!regs, U!made, U!trace, UartInv, UartShapes, RxHolds, TxHolds, Reading,
     Pushing, U!Working, Whole, Bus, Run, Ahead, Pos, Masked
<1>5. QED
  BY <1>1, <1>2, <1>3, <1>4, Zenon DEF U!Next

LEMMA WholeIsConsistent ==
  ASSUME U!UartRingAssumption, NEW r, NEW s, NEW m, Whole(r, s, m)
  PROVE  U!Consistent(r)
<1>1. r.tail \in 0..(RingCap - 1) /\ r.count \in 0..RingCap /\ r.head = Pos(r.tail, r.count)
  BY Zenon DEF Whole, Bus, Run
<1>2. (r.tail + r.count) % RingCap = Pos(r.tail, r.count)
  BY <1>1, PosIsConsistent, Zenon
<1>3. QED
  BY <1>1, <1>2, Zenon DEF U!Consistent

LEMMA UartSound ==
  ASSUME U!UartRingAssumption, UartInv
  PROVE  U!SentInOrder /\ U!ReadInOrder /\ U!RingsConsistent
<1>1. U!ReadInOrder
  BY AheadIsPrefix DEF UartInv, UartShapes, RxHolds, U!ReadInOrder
<1>2. U!SentInOrder
  BY AheadIsPrefix DEF UartInv, UartShapes, TxHolds, U!SentInOrder
<1>3. ~Reading => U!Consistent(rx)
  BY WholeIsConsistent, Zenon DEF UartInv, RxHolds
<1>4. tangled \/ Pushing \/ U!Consistent(tx)
  BY WholeIsConsistent, Zenon DEF UartInv, TxHolds
<1>5. QED
  BY <1>1, <1>2, <1>3, <1>4, Zenon DEF U!RingsConsistent, Reading, Pushing

-----------------------------------------------------------------------------
(* The machines of MCRider                                                   *)

LEMMA RiderSteps ==
  ASSUME [AnyNext]_all
  PROVE  /\ which' = which
         /\ which = "uart" => [U!Next]_(U!vars)
         /\ which = "panel" => [D!Next]_(D!vars)
         /\ which = "editor" => [E!Next]_(E!vars)
         /\ which = "console" => [Debug!Next]_(Debug!vars)
         /\ which = "phone" => [P!Next]_(P!vars)
<1>1. CASE UNCHANGED all
  BY <1>1 DEF all, U!vars, U!regs, U!made, U!trace, D!vars, E!vars, P!vars,
     Debug!vars, Debug!keys, Debug!text, Debug!session
<1>2. CASE AnyNext
  BY <1>2 DEF AnyNext, UartNext, PanelNext, ScreenNext, EditorNext, ConsoleNext, PhoneNext,
     UartStill, PanelStill, ScreenStill, EditorStill, ConsoleStill, PhoneStill
<1>3. QED
  BY <1>1, <1>2

\* After too many wrong passwords the console stays shut for the lockout, as
\* MCRider's run has it (console.c:119-127).
THEOREM LockoutStands == AnySpec => LockoutHolds
<1> DEFINE I == which = "console" => CountsAgree
<1>0. Debug!ConsoleAssumption
  BY MCRiderAssumption
<1>1. AnyInit => I
  BY <1>0, CountsBegin DEF AnyInit, UartInit, PanelInit, ScreenInit, EditorInit, ConsoleInit,
     PhoneInit
<1>2. I /\ [AnyNext]_all => I'
  BY <1>0, RiderSteps, CountsGo
<1>3. I /\ [AnyNext]_all => [which = "console" => Debug!OpensInTime]_all
  <2>1. UNCHANGED Debug!vars => Debug!OpensInTime
    BY Zenon DEF Debug!vars, Debug!session, Debug!OpensInTime
  <2>2. QED
    BY <1>0, <2>1, RiderSteps, CountsGo
<1> HIDE DEF I
<1>4. QED
  BY <1>1, <1>2, <1>3, PTL DEF AnySpec, LockoutHolds

\* The panel, the phone, the rings and the history, as MCRider's run has them
\* (display.c, ble.c, ble_read.c, util.c, ssp.c:673-806, console_edit.c).
THEOREM ShownStaysTrue == AnySpec => []ShownIsTrue
<1> DEFINE I == /\ which = "uart" => UartInv
                /\ which = "panel" => PanelInv
                /\ which = "editor" => EditorInv
                /\ which = "phone" => PhoneInv
<1>0. U!UartRingAssumption /\ E!LineEditorAssumption /\ P!MirrorAssumption
  BY MCRiderAssumption
<1>1. AnyInit => I
  BY <1>0, UartBegins, PanelBegins, EditorBegins, PhoneBegins
     DEF AnyInit, UartInit, PanelInit, ScreenInit, EditorInit, ConsoleInit, PhoneInit
<1>2. I /\ [AnyNext]_all => I'
  <2> SUFFICES ASSUME I, [AnyNext]_all PROVE I'
    OBVIOUS
  <2>1. /\ which' = which
        /\ which = "uart" => [U!Next]_(U!vars)
        /\ which = "panel" => [D!Next]_(D!vars)
        /\ which = "editor" => [E!Next]_(E!vars)
        /\ which = "phone" => [P!Next]_(P!vars)
    BY RiderSteps
  <2>2. QED
    BY <1>0, <2>1, UartKept, PanelKept, EditorKept, PhoneKept, Zenon
<1>3. I => ShownIsTrue
  BY <1>0, UartSound, PanelSound, PhoneSound, Zenon DEF ShownIsTrue, EditorInv
<1> HIDE DEF I
<1>4. QED
  BY <1>1, <1>2, <1>3, PTL DEF AnySpec
=============================================================================
