------------------------------ MODULE PackBus ------------------------------
(***************************************************************************)
(* The battery's end of the bus (batteryware/src/uart.c, flash.c, modem.c, *)
(* cmd.c): uart_protocol_handler collects a frame byte by byte, checks its *)
(* sum and runs it; frames of function 16 push an image.                   *)
(*                                                                         *)
(* A token stands for the bytes of one field; the line may damage or lose  *)
(* it.  A frame that is not taken back leaves the receiver with its eight  *)
(* bytes complete (Full), and every byte after that looks at them again.   *)
(* How a page is put together from blocks is in BatteryLink, what the      *)
(* commands do to the states of the pack is in PackStates.                 *)
(***************************************************************************)
EXTENDS Integers, Sequences

CONSTANTS LoaderSize, \* blocks of a boot loader image (0x5000 bytes)
          MaxCount,   \* bound: blocks counted
          MaxUnits,   \* bound: frames
          MaxFaults   \* bound: damaged or lost tokens, resets

BusAssumption == /\ LoaderSize \in Nat \ {0} /\ MaxCount \in Nat /\ MaxCount > LoaderSize
                 /\ MaxUnits \in Nat /\ MaxFaults \in Nat

VARIABLES rx,     \* the receive state: which byte is expected, what was kept
          ota,    \* the mode flag of a push
          count,  \* image bytes received, in blocks
          area,   \* blocks of the second image area: what is written there
          loader, \* the boot loader
          marker, \* the mark that tells the boot loader of a new image
          armed,  \* 0x20002CD4, the counter cmd_send_response looks at, is not zero
          answered, \* the last frame was answered
          left,   \* tokens of the frame being sent
          sent,   \* commands the host has sent
          ran,    \* commands that were run
          done,   \* runs since the frame began
          units, faults
pack == <<rx, ota, count, area, loader, marker, armed, answered>>
host == <<left, sent, units>>
vars == <<pack, host, ran, done, faults>>

Blocks == 1..LoaderSize
Reads == {"report", "verdict", "beyond"}
Writes == {"calibrate", "trim", "history", "stop", "flag", "stamp", "pre", "update", "ship"}
Commands == Reads \cup Writes \cup {"block"}
Function == [f \in Commands |-> IF f \in Reads THEN 3 ELSE IF f \in Writes THEN 6 ELSE 16]

Token(k, f, i) == [k |-> k, f |-> f, i |-> i]
Noise == Token("noise", "", 0)
Start == [at |-> 0, fn |-> 0, got |-> <<>>]
Frames == [f : Commands \ {"block"}, i : {0}] \cup [f : {"block"}, i : Blocks]
Body(u) == IF u.f = "block" THEN <<Token("size", u.f, 0), Token("data", u.f, u.i), Token("crc", u.f, u.i)>>
           ELSE <<Token("value", u.f, 0), Token("crc", u.f, 0)>>
Fields(u) == <<Token("sync", "", 0), Token("func", "", Function[u.f])>> \o Body(u)

(* ---- the receiver ---- *)
Need == IF rx.fn = 16 THEN 3 ELSE 2
Full == rx.at = 2 /\ Len(rx.got) = Need
Collect(t) ==
  CASE rx.at = 0 -> IF t.k = "sync" THEN [Start EXCEPT !.at = 1] ELSE Start
    [] rx.at = 1 -> IF t.k = "func" THEN [Start EXCEPT !.at = 2, !.fn = t.i] ELSE Start
    [] Full -> rx
    [] OTHER -> [rx EXCEPT !.got = Append(@, t)]
Complete(r) == r.at = 2 /\ Len(r.got) = IF r.fn = 16 THEN 3 ELSE 2

(* crc16_calc: the frame the bytes are, if any                             *)
MeantUnsummed(r) == {u \in Frames : Function[u.f] = r.fn /\ (r.got[1].k = "value" => r.got[1].f = u.f)}
Meant(r) == {u \in Frames : Function[u.f] = r.fn /\ Body(u) = r.got}

(* cmd_send_response sends only once a trim has armed it, for good         *)
Answered == answered' = TRUE
Silent == answered' = FALSE
Conditional == answered' = armed

(* ---- function 3 ---- *)
Registers(f) == f # "beyond"
Read(f) == /\ answered' = Registers(f) /\ ota' = (ota /\ f # "verdict")
           /\ UNCHANGED <<count, area, loader, marker, armed>>

(* ---- function 6 ---- *)
Calibrate == Answered /\ UNCHANGED <<ota, count, area, loader, marker, armed>>
Trim == Answered /\ armed' = TRUE /\ UNCHANGED <<ota, count, area, loader, marker>>
History == Conditional /\ UNCHANGED <<ota, count, area, loader, marker, armed>>
Stop == Conditional /\ count' = 0 /\ UNCHANGED <<ota, area, loader, marker, armed>>
CfgFlag == Conditional /\ UNCHANGED <<ota, count, area, loader, marker, armed>>
Stamp == Conditional /\ UNCHANGED <<ota, count, area, loader, marker, armed>>
Pre == Conditional /\ UNCHANGED <<ota, count, area, loader, marker, armed>>
(* also the end of a command no other case takes: echoed, then power down  *)
Ship == Answered /\ UNCHANGED <<ota, count, area, loader, marker, armed>>
(* the counted size tells a boot loader from an application; a boot loader *)
(* is copied before its sum is looked at, and the new one starts           *)
Update == /\ Answered /\ ota' = FALSE /\ count' = 0 /\ armed' = FALSE /\ UNCHANGED area
          /\ IF count = LoaderSize THEN loader' = area /\ UNCHANGED marker
             ELSE marker' = TRUE /\ UNCHANGED loader

(* ---- function 16 ---- *)
Push(i) == /\ ota' = TRUE /\ count' = IF count < MaxCount THEN count + 1 ELSE count
           /\ area' = [area EXCEPT ![i] = "new"] /\ Answered /\ UNCHANGED <<loader, marker, armed>>

Dispatch(f) == CASE f = "calibrate" -> Calibrate [] f = "trim" -> Trim [] f = "history" -> History
                 [] f = "stop" -> Stop [] f = "flag" -> CfgFlag [] f = "stamp" -> Stamp [] f = "pre" -> Pre
                 [] f = "update" -> Update [] OTHER -> Ship
Run(u) == CASE Function[u.f] = 3 -> Read(u.f) [] Function[u.f] = 6 -> Dispatch(u.f) [] OTHER -> Push(u.i)

(* the receiver's state after a complete frame: the reset clears another   *)
(* cell, so only function 16 starts over and only a new image restarts     *)
Left(r, u) == IF r.fn = 16 \/ u.f = "update" THEN Start ELSE r
Rejected(r) == IF r.fn = 16 /\ r.got[1].k = "size" THEN Start ELSE r

(* uart_protocol_handler for one byte                                      *)
Receive(t) ==
  LET r == Collect(t) IN
  IF ~Complete(r) THEN rx' = r /\ UNCHANGED <<ota, count, area, loader, marker, armed, answered, ran, done>>
  ELSE IF Meant(r) = {}
       THEN rx' = Rejected(r) /\ Silent /\ UNCHANGED <<ota, count, area, loader, marker, armed, ran, done>>
  ELSE LET u == CHOOSE w \in Meant(r) : TRUE IN
       /\ Run(u) /\ rx' = Left(r, u) /\ ran' = ran \cup {u.f} /\ done' = IF done < 2 THEN done + 1 ELSE 2

(* ---- the bus ---- *)
Send == /\ left = <<>> /\ units < MaxUnits /\ units' = units + 1
        /\ \E u \in Frames : left' = Fields(u) /\ sent' = sent \cup {u.f}
        /\ done' = 0 /\ UNCHANGED <<pack, ran, faults>>
Byte == left # <<>> /\ Receive(Head(left)) /\ left' = Tail(left) /\ UNCHANGED <<sent, units, faults>>
Damaged == /\ left # <<>> /\ faults < MaxFaults /\ faults' = faults + 1
           /\ Receive(Noise) /\ left' = Tail(left) /\ UNCHANGED <<sent, units>>
Lost == /\ left # <<>> /\ faults < MaxFaults /\ faults' = faults + 1
        /\ left' = Tail(left) /\ UNCHANGED <<pack, sent, units, ran, done>>
Restart == /\ faults < MaxFaults /\ faults' = faults + 1
           /\ rx' = Start /\ ota' = FALSE /\ count' = 0 /\ armed' = FALSE /\ answered' = FALSE /\ marker' = FALSE
           /\ UNCHANGED <<area, loader, host, ran, done>>

Init == /\ rx = Start /\ ota = FALSE /\ count = 0 /\ area = [i \in Blocks |-> "old"]
        /\ loader = [i \in Blocks |-> "old"] /\ marker = FALSE /\ armed = FALSE /\ answered = FALSE
        /\ left = <<>> /\ sent = {} /\ ran = {} /\ done = 0 /\ units = 0 /\ faults = 0
Next == Send \/ Byte \/ Damaged \/ Lost \/ Restart
Spec == Init /\ [][Next]_vars

TypeOK == /\ rx.at \in 0..2 /\ rx.fn \in {0, 3, 6, 16} /\ Len(rx.got) <= 3
          /\ {ota, marker, armed, answered} \subseteq BOOLEAN /\ count \in 0..MaxCount
          /\ {area, loader} \subseteq [Blocks -> {"old", "new"}]
          /\ sent \subseteq Commands /\ ran \subseteq Commands /\ done \in 0..2
          /\ units \in 0..MaxUnits /\ faults \in 0..MaxFaults

(* The pack runs only what the host has sent: fields of two frames, or a   *)
(* frame with a field lost or damaged, never make a command.               *)
OnlySent == ran \subseteq sent

=============================================================================
