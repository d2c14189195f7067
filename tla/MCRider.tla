------------------------------- MODULE MCRider ------------------------------
(*****************************************************************************)
(* What the rider and the technician see of the main controller: the rings   *)
(* of its serial ports, the display and the choice of its screen, the editor *)
(* and the commands of the console, and the values the phone is told. The    *)
(* machines share neither steps nor state: "which" names the one a behaviour *)
(* is of, and a name that two of them use is one variable here. RiderProofs  *)
(* has theorems about it for every value of its constants.                   *)
(*****************************************************************************)
EXTENDS Naturals

CONSTANTS RingCap, RingBytes, RingPrints,         \* of a serial line
          PanelFrames, PanelCalls, PanelFaults,    \* of the display
          ScreenEvents,                            \* of the choice of its screen
          LineLen, OlderLines, NameLens, ByteWrap, \* of the line editor
          Cap, Text, Note, Repeats, Limit, MaxLines,  \* of the console
          MirrorCap, MirrorActs, MirrorLosses      \* of what the phone is told

VARIABLES which, tx, rx, cr1, dr, pc, op, reg, i, n, given, printed, arrived, queued, out,
          heard, taken, tangled, layer, frame, slot, dirty, done, freeze, dma, fresh, current,
          lost, calls, faults, mode, ret, back, blink, show, kept, fast, events, esc, timer,
          logged, len, cursor, hist, nav, match, port, ring, txe, tabs, escs, at, todo, waits,
          isr, fails, wrong, reset, wish, lines, ram, cache, first, due, settle, quiet, queue,
          phone, spoiled, acts, losses
all == <<which, tx, rx, cr1, dr, pc, op, reg, i, n, given, printed, arrived, queued, out,
         heard, taken, tangled, layer, frame, slot, dirty, done, freeze, dma, fresh, current,
         lost, calls, faults, mode, ret, back, blink, show, kept, fast, events, esc, timer,
         logged, len, cursor, hist, nav, match, port, ring, txe, tabs, escs, at, todo, waits,
         isr, fails, wrong, reset, wish, lines, ram, cache, first, due, settle, quiet, queue,
         phone, spoiled, acts, losses>>

U == INSTANCE UartRing WITH Cap <- RingCap, MaxBytes <- RingBytes, MaxPrints <- RingPrints
D == INSTANCE Display WITH Frames <- PanelFrames, MaxCalls <- PanelCalls,
        MaxFaults <- PanelFaults
M == INSTANCE DisplayMode WITH MaxEvents <- ScreenEvents
E == INSTANCE LineEditor WITH MaxLen <- LineLen, Older <- OlderLines, Names <- NameLens,
        Wrap <- ByteWrap
Debug == INSTANCE Console
P == INSTANCE PhoneMirror WITH Cap <- MirrorCap, MaxActs <- MirrorActs,
        MaxLosses <- MirrorLosses

ASSUME MCRiderAssumption == U!UartRingAssumption /\ D!DisplayAssumption /\
    E!LineEditorAssumption /\ Debug!ConsoleAssumption /\ P!MirrorAssumption

UartInit == which = "uart" /\ U!Init /\ layer = 0 /\ frame = 0 /\ slot = 0 /\ dirty = 0 /\
           done = 0 /\ freeze = 0 /\ dma = 0 /\ fresh = 0 /\ current = 0 /\ lost = 0 /\
           calls = 0 /\ faults = 0 /\ mode = 0 /\ ret = 0 /\ back = 0 /\ blink = 0 /\
           show = 0 /\ kept = 0 /\ fast = 0 /\ events = 0 /\ esc = 0 /\ timer = 0 /\
           logged = 0 /\ len = 0 /\ cursor = 0 /\ hist = 0 /\ nav = 0 /\ match = 0 /\
           port = 0 /\ ring = 0 /\ txe = 0 /\ tabs = 0 /\ escs = 0 /\ at = 0 /\ todo = 0 /\
           waits = 0 /\ isr = 0 /\ fails = 0 /\ wrong = 0 /\ reset = 0 /\ wish = 0 /\
           lines = 0 /\ ram = 0 /\ cache = 0 /\ first = 0 /\ due = 0 /\ settle = 0 /\
           quiet = 0 /\ queue = 0 /\ phone = 0 /\ spoiled = 0 /\ acts = 0 /\ losses = 0
UartStill == UNCHANGED <<which, layer, frame, slot, dirty, done, freeze, dma, fresh, current,
            lost, calls, faults, mode, ret, back, blink, show, kept, fast, events, esc, timer,
            logged, len, cursor, hist, nav, match, port, ring, txe, tabs, escs, at, todo,
            waits, isr, fails, wrong, reset, wish, lines, ram, cache, first, due, settle,
            quiet, queue, phone, spoiled, acts, losses>>
UartNext == which = "uart" /\ U!Next /\ UartStill
PanelInit == which = "panel" /\ D!Init /\ rx = 0 /\ cr1 = 0 /\ dr = 0 /\ pc = 0 /\ op = 0 /\
           reg = 0 /\ i = 0 /\ n = 0 /\ given = 0 /\ printed = 0 /\ arrived = 0 /\
           queued = 0 /\ out = 0 /\ heard = 0 /\ taken = 0 /\ tangled = 0 /\ mode = 0 /\
           ret = 0 /\ back = 0 /\ blink = 0 /\ show = 0 /\ kept = 0 /\ fast = 0 /\
           events = 0 /\ esc = 0 /\ timer = 0 /\ logged = 0 /\ len = 0 /\ cursor = 0 /\
           hist = 0 /\ nav = 0 /\ match = 0 /\ port = 0 /\ ring = 0 /\ txe = 0 /\ tabs = 0 /\
           escs = 0 /\ at = 0 /\ todo = 0 /\ waits = 0 /\ isr = 0 /\ fails = 0 /\ wrong = 0 /\
           reset = 0 /\ wish = 0 /\ lines = 0 /\ ram = 0 /\ cache = 0 /\ first = 0 /\
           due = 0 /\ settle = 0 /\ quiet = 0 /\ queue = 0 /\ phone = 0 /\ spoiled = 0 /\
           acts = 0 /\ losses = 0
PanelStill == UNCHANGED <<which, rx, cr1, dr, pc, op, reg, i, n, given, printed, arrived,
            queued, out, heard, taken, tangled, mode, ret, back, blink, show, kept, fast,
            events, esc, timer, logged, len, cursor, hist, nav, match, port, ring, txe, tabs,
            escs, at, todo, waits, isr, fails, wrong, reset, wish, lines, ram, cache, first,
            due, settle, quiet, queue, phone, spoiled, acts, losses>>
PanelNext == which = "panel" /\ D!Next /\ PanelStill
ScreenInit == which = "screen" /\ M!Init /\ tx = 0 /\ rx = 0 /\ cr1 = 0 /\ dr = 0 /\ pc = 0 /\
           op = 0 /\ reg = 0 /\ i = 0 /\ n = 0 /\ given = 0 /\ printed = 0 /\ arrived = 0 /\
           queued = 0 /\ out = 0 /\ heard = 0 /\ taken = 0 /\ tangled = 0 /\ layer = 0 /\
           frame = 0 /\ slot = 0 /\ dirty = 0 /\ done = 0 /\ freeze = 0 /\ dma = 0 /\
           fresh = 0 /\ current = 0 /\ lost = 0 /\ calls = 0 /\ esc = 0 /\ timer = 0 /\
           logged = 0 /\ len = 0 /\ cursor = 0 /\ hist = 0 /\ nav = 0 /\ match = 0 /\
           port = 0 /\ ring = 0 /\ txe = 0 /\ tabs = 0 /\ escs = 0 /\ at = 0 /\ todo = 0 /\
           waits = 0 /\ isr = 0 /\ fails = 0 /\ wrong = 0 /\ reset = 0 /\ wish = 0 /\
           lines = 0 /\ ram = 0 /\ cache = 0 /\ first = 0 /\ due = 0 /\ settle = 0 /\
           quiet = 0 /\ queue = 0 /\ phone = 0 /\ spoiled = 0 /\ acts = 0 /\ losses = 0
ScreenStill == UNCHANGED <<which, tx, rx, cr1, dr, pc, op, reg, i, n, given, printed, arrived,
            queued, out, heard, taken, tangled, layer, frame, slot, dirty, done, freeze, dma,
            fresh, current, lost, calls, esc, timer, logged, len, cursor, hist, nav, match,
            port, ring, txe, tabs, escs, at, todo, waits, isr, fails, wrong, reset, wish,
            lines, ram, cache, first, due, settle, quiet, queue, phone, spoiled, acts, losses>>
ScreenNext == which = "screen" /\ M!Next /\ ScreenStill
EditorInit == which = "editor" /\ E!Init /\ tx = 0 /\ rx = 0 /\ cr1 = 0 /\ dr = 0 /\ pc = 0 /\
           op = 0 /\ reg = 0 /\ i = 0 /\ n = 0 /\ given = 0 /\ printed = 0 /\ arrived = 0 /\
           queued = 0 /\ out = 0 /\ heard = 0 /\ taken = 0 /\ tangled = 0 /\ layer = 0 /\
           frame = 0 /\ slot = 0 /\ dirty = 0 /\ done = 0 /\ freeze = 0 /\ dma = 0 /\
           fresh = 0 /\ current = 0 /\ lost = 0 /\ calls = 0 /\ faults = 0 /\ mode = 0 /\
           ret = 0 /\ back = 0 /\ blink = 0 /\ show = 0 /\ kept = 0 /\ fast = 0 /\
           events = 0 /\ port = 0 /\ ring = 0 /\ txe = 0 /\ tabs = 0 /\ escs = 0 /\ at = 0 /\
           todo = 0 /\ waits = 0 /\ isr = 0 /\ fails = 0 /\ wrong = 0 /\ reset = 0 /\
           wish = 0 /\ lines = 0 /\ ram = 0 /\ cache = 0 /\ first = 0 /\ due = 0 /\
           settle = 0 /\ quiet = 0 /\ queue = 0 /\ phone = 0 /\ spoiled = 0 /\ acts = 0 /\
           losses = 0
EditorStill == UNCHANGED <<which, tx, rx, cr1, dr, pc, op, reg, i, n, given, printed, arrived,
            queued, out, heard, taken, tangled, layer, frame, slot, dirty, done, freeze, dma,
            fresh, current, lost, calls, faults, mode, ret, back, blink, show, kept, fast,
            events, port, ring, txe, tabs, escs, at, todo, waits, isr, fails, wrong, reset,
            wish, lines, ram, cache, first, due, settle, quiet, queue, phone, spoiled, acts,
            losses>>
EditorNext == which = "editor" /\ E!Next /\ EditorStill
ConsoleInit == which = "console" /\ Debug!Init /\ tx = 0 /\ rx = 0 /\ cr1 = 0 /\ dr = 0 /\
           pc = 0 /\ op = 0 /\ reg = 0 /\ i = 0 /\ n = 0 /\ given = 0 /\ printed = 0 /\
           arrived = 0 /\ queued = 0 /\ out = 0 /\ heard = 0 /\ taken = 0 /\ tangled = 0 /\
           layer = 0 /\ frame = 0 /\ dirty = 0 /\ done = 0 /\ freeze = 0 /\ dma = 0 /\
           fresh = 0 /\ current = 0 /\ lost = 0 /\ calls = 0 /\ faults = 0 /\ mode = 0 /\
           ret = 0 /\ back = 0 /\ blink = 0 /\ show = 0 /\ kept = 0 /\ fast = 0 /\
           events = 0 /\ esc = 0 /\ timer = 0 /\ len = 0 /\ cursor = 0 /\ hist = 0 /\
           nav = 0 /\ match = 0 /\ ram = 0 /\ cache = 0 /\ first = 0 /\ due = 0 /\
           settle = 0 /\ quiet = 0 /\ queue = 0 /\ phone = 0 /\ spoiled = 0 /\ acts = 0 /\
           losses = 0
ConsoleStill == UNCHANGED <<which, tx, rx, cr1, dr, pc, op, reg, i, n, given, printed, arrived,
            queued, out, heard, taken, tangled, layer, frame, dirty, done, freeze, dma, fresh,
            current, lost, calls, faults, mode, ret, back, blink, show, kept, fast, events,
            esc, timer, len, cursor, hist, nav, match, ram, cache, first, due, settle, quiet,
            queue, phone, spoiled, acts, losses>>
ConsoleNext == which = "console" /\ Debug!Next /\ ConsoleStill
PhoneInit == which = "phone" /\ P!Init /\ tx = 0 /\ rx = 0 /\ cr1 = 0 /\ dr = 0 /\ pc = 0 /\
           op = 0 /\ reg = 0 /\ i = 0 /\ n = 0 /\ given = 0 /\ printed = 0 /\ arrived = 0 /\
           queued = 0 /\ out = 0 /\ heard = 0 /\ taken = 0 /\ tangled = 0 /\ layer = 0 /\
           frame = 0 /\ slot = 0 /\ dirty = 0 /\ done = 0 /\ freeze = 0 /\ dma = 0 /\
           fresh = 0 /\ current = 0 /\ lost = 0 /\ calls = 0 /\ faults = 0 /\ mode = 0 /\
           ret = 0 /\ back = 0 /\ blink = 0 /\ show = 0 /\ fast = 0 /\ events = 0 /\ esc = 0 /\
           timer = 0 /\ logged = 0 /\ len = 0 /\ cursor = 0 /\ hist = 0 /\ nav = 0 /\
           match = 0 /\ port = 0 /\ ring = 0 /\ txe = 0 /\ tabs = 0 /\ escs = 0 /\ at = 0 /\
           todo = 0 /\ waits = 0 /\ isr = 0 /\ fails = 0 /\ wrong = 0 /\ reset = 0 /\
           wish = 0 /\ lines = 0
PhoneStill == UNCHANGED <<which, tx, rx, cr1, dr, pc, op, reg, i, n, given, printed, arrived,
            queued, out, heard, taken, tangled, layer, frame, slot, dirty, done, freeze, dma,
            fresh, current, lost, calls, faults, mode, ret, back, blink, show, fast, events,
            esc, timer, logged, len, cursor, hist, nav, match, port, ring, txe, tabs, escs, at,
            todo, waits, isr, fails, wrong, reset, wish, lines>>
PhoneNext == which = "phone" /\ P!Next /\ PhoneStill

AnyInit == UartInit \/ PanelInit \/ ScreenInit \/ EditorInit \/ ConsoleInit \/ PhoneInit
AnyNext == UartNext \/ PanelNext \/ ScreenNext \/ EditorNext \/ ConsoleNext \/ PhoneNext

Fair1 == \/ which = "uart" /\ U!Step /\ UartStill
         \/ which = "panel" /\ D!Transmit /\ PanelStill
         \/ which = "screen" /\ M!Moves /\ ScreenStill
         \/ which = "console" /\ Debug!PrintOut /\ ConsoleStill
Fair2 == \/ which = "uart" /\ U!IrqTransmit /\ UartStill
         \/ which = "panel" /\ D!Complete /\ PanelStill
         \/ which = "screen" /\ M!Expire /\ ScreenStill
         \/ which = "console" /\ Debug!Drained /\ ConsoleStill
Fair3 == \/ which = "uart" /\ U!IrqReceive /\ UartStill
         \/ which = "panel" /\ D!Expire("main") /\ PanelStill
         \/ which = "screen" /\ M!Blink /\ ScreenStill
         \/ which = "console" /\ Debug!IsrPrint /\ ConsoleStill
Fair4 == \/ which = "panel" /\ D!Expire("over") /\ PanelStill
         \/ which = "console" /\ Debug!Timer /\ ConsoleStill
Fair5 == \/ which = "panel" /\ D!Expire("tx") /\ PanelStill
         \/ which = "console" /\ Debug!Transmit("uart7") /\ ConsoleStill
Fair6 == \/ which = "panel" /\ D!Render("main") /\ PanelStill
         \/ which = "console" /\ Debug!Transmit("usart1") /\ ConsoleStill
Fair7 == \/ which = "panel" /\ D!Render("over") /\ PanelStill
Fair8 == \/ which = "screen" /\ M!Returns /\ ScreenStill

AnySpec == AnyInit /\ [][AnyNext]_all /\ WF_all(Fair1) /\ WF_all(Fair2) /\ WF_all(Fair3) /\ WF_all(Fair4) /\ WF_all(Fair5) /\ WF_all(Fair6) /\ WF_all(Fair7) /\ SF_all(Fair8)

TypeOK == /\ which = "uart" => U!TypeOK
          /\ which = "panel" => D!TypeOK
          /\ which = "screen" => M!TypeOK
          /\ which = "editor" => E!TypeOK
          /\ which = "console" => Debug!TypeOK
          /\ which = "phone" => P!TypeOK

(* What is shown is what there is: the panel once its transfers are over,  *)
(* the phone once its messages are delivered, the settings after a restart;*)
(* the bytes of a serial port in order, none twice and none left out; and  *)
(* an older line of the console can be brought back (display.c, ble.c,     *)
(* ble_read.c, util.c, ssp.c:673-806, console_edit.c).                     *)
ShownIsTrue == /\ which = "panel" => D!PanelIsCurrent
               /\ which = "phone" => P!PhoneFollows /\ P!SettingsSurvive
               /\ which = "uart" => U!SentInOrder /\ U!ReadInOrder /\ U!RingsConsistent
               /\ which = "editor" => E!HistoryInReach

(* After too many wrong passwords the console stays shut for the lockout   *)
(* (console.c:119-127).                                                    *)
LockoutHolds == [][which = "console" => Debug!OpensInTime]_all

(* Every byte is sent, every drawing and every show ends, and the console  *)
(* gets its text out unless its own handler jams it.                       *)
ComesToRest == []<>(/\ which = "uart" => U!Drained
                    /\ which = "panel" => D!AtRest
                    /\ which = "screen" => M!ShowRests
                    /\ which = "console" => Debug!AtRest)
=============================================================================
