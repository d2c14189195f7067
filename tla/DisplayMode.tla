---------------------------- MODULE DisplayMode ----------------------------
(***************************************************************************)
(* The presenter of mainware/src/display.c: display_mode_sm_step chooses   *)
(* what the display shows from one mode byte that the whole program        *)
(* writes.  Two excursions come back to the screen they left: the show of  *)
(* four seconds after a command of the phone (enter_mode3_arm_show_timer,  *)
(* display_announce_enter) and the error number that alternates with the   *)
(* riding screens.  They share the byte that remembers the way back.       *)
(*                                                                         *)
(* The forty modes are kept by what they do to the mode byte:              *)
(*   init 0, back 1, still 2, show 3, announce 4, goodbye 5, ride 6,       *)
(*   speed 7, light 8, hot 9, error 0xC, once (drawn, then still: 0xD,     *)
(*   0x10, 0x16, 0x17, 0x19 to 0x1D, 0x21 to 0x25) and picture (drawn      *)
(*   again whenever the layer is free: the others).                        *)
(***************************************************************************)
EXTENDS Naturals

CONSTANT MaxEvents    \* what the rest of the program does

Modes == {"init", "back", "still", "show", "announce", "goodbye", "ride", "speed",
          "light", "hot", "error", "once", "picture"}
\* The modes set_mode_state_byte is called with outside display.c.
Asked == {"goodbye", "ride", "speed", "light", "once", "picture"}

VARIABLES mode,    \* 0x20000068
          ret,     \* disp[4], the way back of both excursions
          back,    \* disp[8], the way back of mode 1
          blink,   \* disp[3], the blink phase
          show,    \* the show timer, st[7]
          kept,    \* the mode kept over an update, rec[9]
          faults,  \* of the fault bits, "power" (0x200000) and "other"
          fast,    \* the speed is past the threshold of the speed screen
          events

vars == <<mode, ret, back, blink, show, kept, faults, fast, events>>

Init ==
    /\ mode = "init" /\ ret = "init" /\ back = "init" /\ kept = "none"
    /\ blink = FALSE /\ show = "none" /\ faults = {} /\ fast = FALSE /\ events = 0

----------------------------------------------------------------------------
\* display_mode_sm_step, case by case.
Goes(m) == mode' = m /\ UNCHANGED <<back, show, ret>>
Starts == mode = "init" /\ (Goes("init") \/ Goes("ride"))
Back == mode = "back" /\ ~blink /\ Goes(back)
ShowOver ==
    /\ mode \in {"show", "announce"} /\ show # "run"
    /\ show' = "none" /\ mode' = ret /\ UNCHANGED <<ret, back>>
Goodbye == mode = "goodbye" /\ Goes("init")
\* Cases 6 and 8: on every other second the faults are shown; a turn signal
\* (ctx[0xF0]) keeps the riding screen.
Faulty(from) ==
    /\ mode = from /\ faults # {} /\ blink
    /\ ret' = from /\ mode' = "error" /\ UNCHANGED <<back, show>>
Ride == mode = "ride" /\ IF fast THEN Goes("speed") ELSE Faulty("ride") \/ Goes("ride")
Speed == mode = "speed" /\ Goes(IF fast THEN "speed" ELSE "ride")
\* The power fault has a screen of its own while the pack's reading is in range.
Light == mode = "light" /\ \/ "power" \in faults /\ Goes("hot")
                           \/ Faulty("light")
                           \/ (faults = {} \/ ~blink) /\ Goes("light")
Hot == mode = "hot" /\ Goes(IF "power" \in faults THEN "hot" ELSE "light")
Error == mode = "error" /\ back' = ret /\ mode' = "back" /\ UNCHANGED <<ret, show>>
Once == mode = "once" /\ Goes("still")

Untouched == UNCHANGED <<blink, kept, faults, fast, events>>
Step ==
    /\ \/ Starts \/ Back
       \/ ShowOver
       \/ Goodbye
       \/ Ride \/ Speed
       \/ Light \/ Hot
       \/ Error
       \/ Once
    /\ Untouched

\* The timer of one second and the show timer.
Blink == blink' = ~blink /\ UNCHANGED <<mode, ret, back, show, kept, faults, fast, events>>
Expire == /\ show = "run" /\ show' = "due"
          /\ UNCHANGED <<mode, ret, back, blink, kept, faults, fast, events>>

----------------------------------------------------------------------------
\* The rest of the program.
Event == events < MaxEvents /\ events' = events + 1

\* enter_mode3_arm_show_timer: the way back is the mode left, but not a show,
\* and never mode 1 or 2.
WayBack == LET r == IF mode \in {"show", "announce"} THEN ret ELSE mode
           IN  IF r \in {"back", "still"} THEN "ride" ELSE r
Show ==
    /\ Event /\ ret' = WayBack /\ show' = "run" /\ mode' = "show"
    /\ UNCHANGED <<back, blink, kept, faults, fast>>
\* display_announce_enter: the same without the last test.
Announce ==
    /\ Event /\ ret' = IF mode \in {"show", "announce"} THEN ret ELSE mode
    /\ show' = "run" /\ mode' = "announce"
    /\ UNCHANGED <<back, blink, kept, faults, fast>>
\* set_mode_state_byte: the show timer, if there is one, stays as it is.
SetMode(m) ==
    /\ Event /\ mode' = m /\ UNCHANGED <<ret, back, blink, show, kept, faults, fast>>
\* dispatch_app_request 0x26 to 0x29 and state 0x3D: an update keeps the mode
\* and gives it back.
Keep ==
    /\ Event /\ kept' = mode /\ mode' = "picture"
    /\ UNCHANGED <<ret, back, blink, show, faults, fast>>
GiveBack ==
    /\ kept # "none" /\ mode' = kept /\ kept' = "none"
    /\ UNCHANGED <<ret, back, blink, show, faults, fast, events>>
Readings ==
    /\ Event /\ \E f \in SUBSET {"power", "other"} : faults' = f
    /\ fast' \in BOOLEAN /\ UNCHANGED <<mode, ret, back, blink, show, kept>>

Next ==
    \/ Step
    \/ Blink
    \/ Expire
    \/ Show
    \/ Announce
    \/ \E m \in Asked : SetMode(m)
    \/ Keep
    \/ GiveBack
    \/ Readings

\* Hundreds of passes fit in one phase of the blink, so mode 1 sees each phase.
Moves   == Step /\ mode' # mode
Returns == Back /\ Untouched
Fairness == /\ WF_vars(Moves) /\ SF_vars(Returns)
            /\ WF_vars(Expire) /\ WF_vars(Blink)

Spec == Init /\ [][Next]_vars /\ Fairness

----------------------------------------------------------------------------
TypeOK ==
    /\ {mode, ret, back} \subseteq Modes /\ kept \in Modes \cup {"none"}
    /\ {blink, fast} \subseteq BOOLEAN /\ show \in {"none", "run", "due"}
    /\ faults \subseteq {"power", "other"}

Passing == {"show", "announce", "error", "back"}
\* The way back was taken while the error screen was on (display.c:400 and
\* app.c:236 write the same byte), or the announcement left mode 1 or 2.
Caught == ret \in {"error", "back"} \/ back \in {"error", "back"}
\* A show and the error screen end with a screen of the bike, unless they
\* caught each other.
ShowRests == mode \notin Passing \/ Caught

=============================================================================
