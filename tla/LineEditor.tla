----------------------------- MODULE LineEditor -----------------------------
(***************************************************************************)
(* The line editor of mainware's debug console (console_edit.c): the       *)
(* VT100 key decoder, the line, its ring of older lines and the completion *)
(* of command names.  A line is its length, MaxLen at most; its text and   *)
(* what the terminal shows are left out.  The cursor counts from the end   *)
(* of the line.  Length, cursor and place in the history are bytes (Wrap   *)
(* is 256 in the code): where the code steps below 0 they wrap.            *)
(***************************************************************************)
EXTENDS Naturals

CONSTANTS MaxLen,   \* 0x50
          Older,    \* 8: the lines kept besides the one that is edited
          Names,    \* lengths of the command names, all below MaxLen
          Wrap

LineEditorAssumption == MaxLen \in Nat \ {0} /\ Older \in Nat \ {0} /\ Wrap \in Nat /\ Wrap > MaxLen + 1
                        /\ Wrap > Older + 1 /\ Names \subseteq 1..MaxLen - 1 /\ Names # {}

VARIABLES esc,      \* CONSOLE_ESC_STATE
          timer,    \* CONSOLE_ESC_TIMER is running
          logged,   \* ED_LOGGED
          len, cursor,
          hist,     \* length of the line of each age, 0 the latest
          nav,      \* the age Up recalls next
          match     \* length of the command name Tab found, or 0

vars == <<esc, timer, logged, len, cursor, hist, nav, match>>
line == <<len, cursor, match>>

Ages == 0..Older - 1
Init == /\ esc = 0 /\ timer = FALSE /\ logged = FALSE /\ len = 0 /\ cursor = 0
        /\ hist = [a \in Ages |-> 0] /\ nav = 0 /\ match = 0

Byte(n) == (n + Wrap) % Wrap
(* console_autocomplete_apply: the name found replaces the line            *)
Applied == IF match # 0 THEN match ELSE len
Recalled(a, n) == IF a \in Ages THEN hist[a] ELSE n

(***************************************************************************)
(* The keys of console_line_editor                                         *)
(***************************************************************************)
Type == /\ len < MaxLen /\ len' = Byte(Applied + 1) /\ match' = 0
        /\ UNCHANGED <<logged, cursor, hist, nav>>

Backspace == /\ len # 0 /\ len' = Applied - 1 /\ match' = 0
             /\ UNCHANGED <<logged, cursor, hist, nav>>

Delete == /\ len # 0 /\ len' = Applied - 1 /\ cursor' = Byte(cursor - 1) /\ match' = 0
          /\ UNCHANGED <<logged, hist, nav>>

Tab == /\ logged /\ len # 0
       /\ match' \in {0} \cup {n \in Names : n >= len}
       /\ UNCHANGED <<logged, len, cursor, hist, nav>>

(* console_history_rotate: the line becomes the latest of the older ones   *)
RotateOnly == hist' = [a \in Ages |-> IF a = 0 THEN Applied ELSE hist[a - 1]] /\ nav' = nav
Rotate == hist' = [a \in Ages |-> IF a = 0 THEN Applied ELSE hist[a - 1]] /\ nav' = 0

(* Enter: the password, or a command; "logout" ends the session            *)
Login == /\ ~logged /\ len' = 0 /\ cursor' = 0 /\ match' = 0
         /\ logged' \in BOOLEAN /\ UNCHANGED <<hist, nav>>
Command == /\ logged /\ cursor' = 0
           /\ IF len = 0
              THEN UNCHANGED <<len, match, logged, hist, nav>>
              ELSE /\ Rotate /\ len' = 0 /\ match' = 0 /\ logged' \in BOOLEAN
Enter == Login \/ Command

Escape == /\ cursor' = 0
          /\ IF len = 0 THEN UNCHANGED <<len, match>> ELSE len' = 0 /\ match' = 0
          /\ UNCHANGED <<logged, hist, nav>>

Home == cursor' = len /\ UNCHANGED <<logged, len, hist, nav, match>>
End == cursor' = 0 /\ UNCHANGED <<logged, len, hist, nav, match>>
Right == cursor # 0 /\ cursor' = cursor - 1 /\ UNCHANGED <<logged, len, hist, nav, match>>
Left == len > cursor /\ cursor' = cursor + 1 /\ UNCHANGED <<logged, len, hist, nav, match>>

(* console_history_prev: past the oldest line it steps back to it          *)
Up == /\ logged /\ cursor' = 0
      /\ LET first == Recalled(nav, len)
             back == IF first = 0 THEN Byte(nav - 1) ELSE nav
         IN /\ len' = IF first = 0 THEN Recalled(back, first) ELSE first
            /\ nav' = IF back < Older - 1 THEN back + 1 ELSE back
      /\ UNCHANGED <<logged, hist, match>>

(* console_history_next                                                    *)
Down == /\ logged /\ cursor' = 0
        /\ IF len = 0
           THEN UNCHANGED <<len, nav>>
           ELSE LET to == IF nav # 0 THEN nav - 1 ELSE nav
                    first == Recalled(to, len)
                IN IF first = 0
                   THEN nav' = Byte(to + 1) /\ len' = Recalled(Byte(to + 1), first)
                   ELSE nav' = to /\ len' = first
        /\ UNCHANGED <<logged, hist, match>>

Plain == Type \/ Backspace \/ Delete \/ Tab \/ Enter
Unbound == UNCHANGED <<logged, len, cursor, hist, nav, match>>   \* a key without a function

(***************************************************************************)
(* console_vt100_decode_key: one received byte.  States 2 and 3 follow     *)
(* ESC O and ESC [, 4 to 6 the digits of a numbered key.                   *)
(***************************************************************************)
Quiet == UNCHANGED <<logged, len, cursor, hist, nav, match>>

Byte0 == \/ esc = 0 /\ esc' = 0 /\ Plain /\ UNCHANGED timer
         \/ esc = 0 /\ esc' = 1 /\ timer' = TRUE /\ Quiet
Byte1 == esc = 1 /\ esc' \in {0, 2, 3} /\ Quiet /\ UNCHANGED timer
Byte2 == esc = 2 /\ esc' = 0 /\ Unbound /\ UNCHANGED timer
Byte3 == /\ esc = 3 /\ UNCHANGED timer
         /\ \/ esc' \in {0, 4, 5, 6} /\ Quiet
            \/ esc' = 0 /\ (Right \/ Left \/ Up \/ Down)
ByteN == /\ esc \in {4, 5, 6} /\ UNCHANGED timer
         /\ \/ esc' = 0 /\ (Home \/ End \/ Unbound)
            \/ esc' \in {0, 6} /\ esc < 6 /\ Quiet

(* no byte: an ESC that nothing follows counts once its timer has run out  *)
Idle == esc = 1 /\ ~timer /\ esc' = 0 /\ Escape /\ UNCHANGED timer
Tick == timer /\ timer' = FALSE /\ Quiet /\ UNCHANGED esc

Next == Byte0 \/ Byte1 \/ Byte2 \/ Byte3 \/ ByteN \/ Idle \/ Tick
Spec == Init /\ [][Next]_vars

----------------------------------------------------------------------------
TypeOK == /\ esc \in 0..6 /\ timer \in BOOLEAN /\ logged \in BOOLEAN
          /\ len \in 0..MaxLen /\ cursor \in 0..Wrap - 1
          /\ hist \in [Ages -> 0..MaxLen] /\ nav \in 0..Wrap - 1 /\ match \in {0} \cup Names

(* While an older line is kept the place in the history is that of a kept  *)
(* line or the one after the oldest, so that Up brings a line back: the    *)
(* byte that wraps when Up is pressed with an empty history                *)
(* (console_edit.c:148) is put right by the next command, and stepping     *)
(* past the ends never loses the place.                                    *)
HistoryInReach == hist[0] # 0 => nav \in Ages /\ (nav = 0 \/ hist[nav - 1] # 0)
=============================================================================
