------------------------------ MODULE Display ------------------------------
(***************************************************************************)
(* The display engine of mainware/src/display.c: two animation layers draw *)
(* into one buffer of two halves, and a transmitter sends the buffer to    *)
(* the two panel drivers by DMA, one half after the other.  The buffer is  *)
(* drawn into while a half of it is on its way; the dirty byte is what     *)
(* makes the last drawing reach the panels.                                *)
(*                                                                         *)
(* Pixels are left out: what is kept of a half is whether the panel shows  *)
(* what the buffer holds.  The passes of the main loop are atomic in this  *)
(* module; the interrupts (a transfer's end, a bus error, the scheduler's  *)
(* timers) come between them.                                              *)
(***************************************************************************)
EXTENDS Naturals, FiniteSets

CONSTANTS Frames,    \* frames of an animation
          MaxCalls,  \* calls of the rest of the program
          MaxFaults  \* refused, lost and failed transfers

DisplayAssumption == Frames \in Nat \ {0} /\ {MaxCalls, MaxFaults} \subseteq Nat

Layers == {"main", "over"}
Halves == {"left", "right"}

VARIABLES layer,    \* [Layers -> state 0 to 3], 0x130 and 0x131
          frame,    \* [Layers -> frame shown], 0x144 and 0x14E
          slot,     \* [Layers \cup {"tx"} -> "none", "run" or "due"]
          dirty,    \* 0x132
          tx,       \* the transmitter's state, 0x151
          done,     \* 0x13C, the end of a transfer
          freeze,   \* 0x150, set by a bus error
          dma,      \* the half under way, or "none"
          fresh,    \* nothing was drawn since that transfer began
          current,  \* halves whose panel shows the buffer
          lost,     \* a transfer of the last frame sent was abandoned
          calls, faults

vars == <<layer, frame, slot, dirty, tx, done, freeze, dma, fresh, current,
          lost, calls, faults>>

Init ==
    /\ layer = [l \in Layers |-> 0] /\ frame = [l \in Layers |-> 0]
    /\ slot = [s \in Layers \cup {"tx"} |-> "none"]
    /\ dirty = TRUE /\ tx = 0 /\ done = FALSE /\ freeze = FALSE
    /\ dma = "none" /\ fresh = TRUE /\ current = {} /\ lost = FALSE
    /\ calls = 0 /\ faults = 0

\* Pixels changed: neither panel shows the buffer, nor will the half under way.
Drawn == current' = {} /\ fresh' = FALSE
NotDrawn == UNCHANGED <<current, fresh>>
Freed(s) == slot' = [slot EXCEPT ![s] = "none"]

----------------------------------------------------------------------------
\* led_matrix_render_frame_region and led_matrix_overlay_frame_region: the two
\* layers are the same machine.  States 0 and 1 release the timer and start.
LayerIdle(l) == layer[l] = 0 /\ Freed(l) /\ NotDrawn /\ UNCHANGED <<layer, frame, dirty>>
LayerStart(l) ==
    /\ layer[l] = 1 /\ layer' = [layer EXCEPT ![l] = 2]
    /\ frame' = [frame EXCEPT ![l] = 0] /\ NotDrawn /\ UNCHANGED <<slot, dirty>>
\* State 2: the frame is drawn, and only then is the buffer marked.
LayerDraw(l) ==
    /\ layer[l] = 2 /\ layer' = [layer EXCEPT ![l] = 3]
    /\ Drawn /\ dirty' = TRUE /\ UNCHANGED <<frame, slot>>
\* State 3: the frame's time.  A frame without one ends the animation, but the
\* timer it took was never started and is found idle, so the next frame is
\* drawn all the same when there is one.
Advance(l) ==
    /\ Freed(l) /\ frame' = [frame EXCEPT ![l] = @ + 1]
    /\ layer' = [layer EXCEPT ![l] = IF frame[l] + 1 < Frames THEN 2 ELSE 0]
LayerWait(l) ==
    /\ layer[l] = 3
    /\ \/ slot[l] = "due" /\ Advance(l)
       \/ slot[l] = "none" /\ Advance(l)
       \/ slot[l] = "none" /\ slot' = [slot EXCEPT ![l] = "run"] /\ UNCHANGED <<layer, frame>>
       \/ slot[l] = "run" /\ UNCHANGED <<slot, layer, frame>>
    /\ NotDrawn /\ UNCHANGED dirty

Render(l) ==
    /\ LayerIdle(l) \/ LayerStart(l) \/ LayerDraw(l) \/ LayerWait(l)
    /\ UNCHANGED <<tx, done, freeze, dma, lost, calls, faults>>

----------------------------------------------------------------------------
\* led_matrix_transmit_step.  A timer that ran out or a bus error gives the
\* transfer up: the controller is set up again and the machine starts from 0
\* in this very pass.
Frozen == slot["tx"] = "due" \/ freeze
\* Mutant: nothing watches over a transfer.
MarkUntimed == dirty' = FALSE /\ tx' = 1 /\ lost' = FALSE /\ UNCHANGED slot

Mark ==
    /\ slot' = [slot EXCEPT !["tx"] = IF @ = "none" THEN "run" ELSE @]
    /\ dirty' = FALSE /\ tx' = 1 /\ lost' = FALSE
Recover ==
    /\ Frozen /\ freeze' = FALSE /\ dma' = "none"
    /\ IF dirty THEN slot' = [slot EXCEPT !["tx"] = "run"] /\ dirty' = FALSE /\ tx' = 1 /\ lost' = FALSE
                ELSE Freed("tx") /\ tx' = 0 /\ lost' = (lost \/ tx # 0) /\ UNCHANGED dirty
    /\ UNCHANGED <<done, fresh, current, faults>>
Begin ==
    /\ ~Frozen /\ tx = 0 /\ dirty /\ Mark
    /\ UNCHANGED <<done, freeze, dma, fresh, current, faults>>
\* A transfer is started; the driver may refuse it, and its answer only makes
\* the main loop print.  The end flag is cleared after the start.
StartHalf(h, from) ==
    /\ ~Frozen /\ tx = from /\ tx' = from + 1 /\ done' = FALSE
    /\ \/ dma' = h /\ fresh' = TRUE /\ UNCHANGED faults
       \/ faults < MaxFaults /\ faults' = faults + 1 /\ UNCHANGED <<dma, fresh>>
    /\ UNCHANGED <<slot, dirty, freeze, current, lost>>
SeeDone ==
    /\ ~Frozen /\ tx = 2 /\ done /\ tx' = 3
    /\ UNCHANGED <<slot, dirty, done, freeze, dma, fresh, current, lost, faults>>
\* Mutant: the mark is cleared when the frame has been sent.
SentUnmarks ==
    /\ ~Frozen /\ tx = 4 /\ done /\ Freed("tx") /\ tx' = 0 /\ dirty' = FALSE
    /\ UNCHANGED <<done, freeze, dma, fresh, current, lost, faults>>

Sent ==
    /\ ~Frozen /\ tx = 4 /\ done /\ Freed("tx") /\ tx' = 0
    /\ UNCHANGED <<dirty, done, freeze, dma, fresh, current, lost, faults>>

Transmit ==
    /\ \/ Recover
       \/ Begin
       \/ StartHalf("left", 1) \/ SeeDone
       \/ StartHalf("right", 3) \/ Sent
    /\ UNCHANGED <<layer, frame, calls>>

----------------------------------------------------------------------------
\* The rest of the program, between two passes.
Call(A) ==
    /\ calls < MaxCalls /\ calls' = calls + 1 /\ A
    /\ UNCHANGED <<slot, frame, tx, done, freeze, dma, lost, faults>>
\* maybe_set_pending_request and display_request_set
Request(l) == Call(layer' = [layer EXCEPT ![l] = 1] /\ NotDrawn /\ UNCHANGED dirty)
\* reset_dual_buffers_and_flags: both halves wiped and marked, both layers off
Reset == Call(Drawn /\ dirty' = TRUE /\ layer' = [l \in Layers |-> 0])
\* display_request_clear and, in all its uses, a request right after it
Replace == Call(layer' = [layer EXCEPT !["main"] = 1, !["over"] = 0] /\ NotDrawn /\ UNCHANGED dirty)
\* The drawings that mark the buffer themselves.
Marked == Drawn /\ dirty' = TRUE /\ UNCHANGED layer
Number == Call(Marked)       \* matrix_draw_number
Icon == Call(Marked)         \* matrix_draw_icon
CornerLed == Call(Marked)    \* matrix_set_corner_led, when the corner changes
TurnArrow == Call(Marked)    \* matrix_set_turn_indicator, when it changes
\* matrix_draw_level_bar and its blinking variant leave the mark to others.
LevelBar == Drawn
BlinkBar == Drawn
\* matrix_draw_speed, only with the overlay free.  Below 0x17 the bar is
\* emptied and the overlay that follows has to set the mark.
SlowSpeed == Call(/\ layer["over"] = 0 /\ LevelBar
                  /\ layer' = [layer EXCEPT !["over"] = 1] /\ UNCHANGED dirty)
FastSpeed == Call(/\ layer["over"] = 0 /\ (LevelBar \/ BlinkBar)
                  /\ layer' = [layer EXCEPT !["over"] = 1] /\ dirty' = TRUE)

\* The interrupts: the end of a transfer, an error on the bus, SysTick.
Complete ==
    /\ dma # "none" /\ dma' = "none" /\ done' = TRUE
    /\ current' = IF fresh THEN current \cup {dma} ELSE current \ {dma}
    /\ UNCHANGED <<layer, frame, slot, dirty, tx, freeze, fresh, lost, calls, faults>>
\* display_request_recovery
BusError ==
    /\ dma # "none" /\ faults < MaxFaults /\ faults' = faults + 1
    /\ freeze' = TRUE /\ dma' = "none"
    /\ UNCHANGED <<layer, frame, slot, dirty, tx, done, fresh, current, lost, calls>>
Expire(s) ==
    /\ slot[s] = "run" /\ slot' = [slot EXCEPT ![s] = "due"]
    /\ UNCHANGED <<layer, frame, dirty, tx, done, freeze, dma, fresh, current,
                   lost, calls, faults>>

Calls == \/ \E l \in Layers : Request(l)
         \/ Reset
         \/ Replace
         \/ Number \/ Icon
         \/ CornerLed \/ TurnArrow
         \/ SlowSpeed
         \/ FastSpeed

Next ==
    \/ \E l \in Layers : Render(l)
    \/ Transmit
    \/ Calls
    \/ Complete
    \/ BusError
    \/ \E s \in DOMAIN slot : Expire(s)

Fairness ==
    /\ WF_vars(Render("main")) /\ WF_vars(Render("over"))
    /\ WF_vars(Transmit) /\ WF_vars(Complete)
    /\ WF_vars(Expire("main")) /\ WF_vars(Expire("over")) /\ WF_vars(Expire("tx"))

Spec == Init /\ [][Next]_vars /\ Fairness

----------------------------------------------------------------------------
TypeOK ==
    /\ layer \in [Layers -> 0 .. 3] /\ frame \in [Layers -> 0 .. Frames]
    /\ slot \in [Layers \cup {"tx"} -> {"none", "run", "due"}]
    /\ dma \in Halves \cup {"none"} /\ current \subseteq Halves
    /\ tx \in 0 .. 4 /\ {dirty, done, freeze, fresh, lost} \subseteq BOOLEAN
    \* a transfer runs under its timer, and only in the states that wait for it
    /\ (tx # 0 => slot["tx"] # "none") /\ (dma # "none" => tx \in {2, 4} \/ freeze)

\* Nothing is left to send, draw or wait for: neither panel is stale unless a
\* transfer of the last frame was given up.  The buffer is drawn into while it
\* is being sent, by two layers and half a dozen callers, some of which leave
\* the mark to a later step.
PanelIsCurrent ==
    tx = 0 /\ ~dirty /\ ~lost /\ ~freeze /\ layer["main"] \notin {1, 2}
           /\ layer["over"] \notin {1, 2} => current = Halves

AtRest == /\ tx = 0 /\ ~dirty /\ layer = [l \in Layers |-> 0]
          /\ slot = [s \in Layers \cup {"tx"} |-> "none"]
\* However transfers are refused, lost or late, every animation ends, the last
\* drawing is sent and no timer of the display stays allocated.
ComesToRest == []<>AtRest
=============================================================================
