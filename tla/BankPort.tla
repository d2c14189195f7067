------------------------------ MODULE BankPort ------------------------------
(***************************************************************************)
(* The service port of the power bank (powerbankware/src/uart.c, modbus.c, *)
(* cmd.c and the receiver of ota.c).  One stream of bytes carries Modbus   *)
(* frames, text commands ended by CR and, once a command asked for it, the *)
(* orders of a download.  uart_rx_handler gives every byte to the frame    *)
(* processor and to the line buffer, or to modem_rx_byte.                  *)
(*                                                                         *)
(* A token stands for the bytes of one field; the line may damage or lose  *)
(* it.  An image is a sequence of NBlocks blocks of one kind, and a page   *)
(* of flash holds all of them.                                             *)
(***************************************************************************)
EXTENDS Integers, Sequences

CONSTANTS NBlocks,   \* blocks of an image
          Commands,  \* the text commands that are sent, of AllCommands
          MaxUnits,  \* bound: frames, lines and orders
          MaxFaults  \* bound: damaged or lost tokens, resets

AllCommands == {"Who?", "Reset BMS", "Upgrade AP", "Upgrade BL", "CHG CAL", "DSG CAL",
                "Reset ESN", "Set RTC", "HW Version", "V Offset", "Set RSOC", "TS0 Offset"}
PortAssumption == /\ NBlocks \in Nat \ {0} /\ Commands \subseteq AllCommands
                  /\ MaxUnits \in Nat /\ MaxFaults \in Nat

VARIABLES port,   \* what the firmware keeps
          left,   \* tokens of the unit being sent
          clean,  \* the unit is a frame that found the receiver at rest, undamaged
          done,   \* frames executed since the unit began
          units, faults
vars == <<port, left, clean, done, units, faults>>

Blocks == 1..NBlocks
Images == {"app", "boot"}
Token(k, c, i) == [k |-> k, c |-> c, i |-> i]
Noise == Token("noise", "", 0)
Function == [read |-> 3, apply |-> 6, ship |-> 6, trim |-> 6, serial |-> 16, block |-> 16]
Rest == [at |-> 0, fn |-> 0, got |-> <<>>]
Idle == [st |-> 0, cmd |-> "none", addr |-> 0]
Fresh == [mode |-> {}, rx |-> Rest, line |-> "none", order |-> Idle, page |-> <<>>]
Start(kept) == [f \in DOMAIN kept |-> IF f \in DOMAIN Fresh THEN Fresh[f] ELSE kept[f]]

(* the units a host sends and their fields                                 *)
Frames == [k : {"frame"}, f : DOMAIN Function \ {"block"}, c : {""}, i : {0}]
            \cup [k : {"frame"}, f : {"block"}, c : Images, i : Blocks]
Orders == [k : {"go"}, f : {""}, c : {""}, i : {1}] \cup [k : {"put"}, f : {""}, c : Images, i : Blocks]
Units == Frames \cup [k : {"line"}, f : Commands, c : {""}, i : {0}] \cup Orders
Body(u) == IF Function[u.f] = 16 THEN <<Token("size", u.f, 0), Token("data", u.c, u.i), Token("crc", u.f, u.i)>>
           ELSE <<Token("value", u.f, 0), Token("crc", u.f, 0)>>
Fields(u) == CASE u.k = "frame" -> <<Token("sync", "", 0), Token("func", "", Function[u.f])>> \o Body(u)
               [] u.k = "line" -> <<Token("text", u.f, 0), Token("cr", "", 0)>>
               [] u.k = "put" -> <<Token("put", "", 0), Token("addr", "", u.i), Token("code", u.c, u.i)>>
               [] OTHER -> <<Token("go", "", 0), Token("addr", "", 1)>>

(* the blocks of the update area                                           *)
Whole(img, area) == \A j \in Blocks : area[j] = img
Put(area, i, c) == [j \in Blocks |-> IF j = i THEN c ELSE IF i = 1 THEN "blank" ELSE area[j]]

(* ---- frames: the state s after executing one; p.rx is at rest again --- *)
Telemetry(s) == s
WriteApply(s) == IF "ota" \in s.mode THEN [Start(s) EXCEPT !.flag = "app"] ELSE s
WriteShip(s) == Start(s)
WriteTrim(s) == s
WriteSingle(s, f) == CASE f = "apply" -> WriteApply(s) [] f = "ship" -> WriteShip(s) [] OTHER -> WriteTrim(s)
WriteSerial(s) == IF s.hw THEN s ELSE [s EXCEPT !.esn = TRUE]
WriteBlock(s, c, i) ==
  LET filled == Append(IF i = 1 THEN <<>> ELSE s.page, c) IN
  [s EXCEPT !.mode = @ \cup {"ota"}, !.page = filled,
            !.staged = [j \in Blocks |-> IF j <= Len(filled) THEN filled[j]
                                         ELSE IF i = 1 THEN "blank" ELSE @[j]]]
WriteMulti(s, u) == IF u.f = "serial" THEN WriteSerial(s) ELSE WriteBlock(s, u.c, u.i)
Execute(s, u) == CASE Function[u.f] = 3 -> Telemetry(s)
                   [] Function[u.f] = 6 -> WriteSingle(s, u.f)
                   [] OTHER -> WriteMulti(s, u)

(* modbus_process; a frame of many registers whose counts disagree is      *)
(* looked at again with every byte that follows                            *)
Need(fn) == IF fn = 16 THEN 3 ELSE 2
Sums(got) == {u \in Frames : Body(u) = got}
Disagrees(rx) == rx.fn = 16 /\ rx.got[1].k # "size"
Completed(rx) == rx.at = 2 /\ Len(rx.got) >= Need(rx.fn) /\ ~Disagrees(rx)
RestedLate(s, rx) == [s EXCEPT !.rx = IF rx.fn = 6 THEN rx ELSE Rest]
Rested(s, rx) == [s EXCEPT !.rx = Rest]
Collect(rx, t) ==
  CASE rx.at = 0 -> IF t.k = "sync" THEN [Rest EXCEPT !.at = 1] ELSE Rest
    [] rx.at = 1 -> IF t.k = "func" THEN [Rest EXCEPT !.at = 2, !.fn = t.i] ELSE Rest
    [] OTHER -> IF Len(rx.got) = Need(rx.fn) THEN rx ELSE [rx EXCEPT !.got = Append(@, t)]
Runs(s, t) == Completed(Collect(s.rx, t)) /\ Sums(Collect(s.rx, t).got) # {}
Process(s, t) ==
  LET rx == Collect(s.rx, t) IN
  IF ~Completed(rx) THEN [s EXCEPT !.rx = rx]
  ELSE IF Sums(rx.got) = {} THEN [s EXCEPT !.rx = Rest]
  ELSE Execute(Rested(s, rx), CHOOSE u \in Sums(rx.got) : TRUE)

(* ---- text commands (cmd.c) ---- *)
CmdWho(s) == s
CmdResetBms(s) == [s EXCEPT !.hw = TRUE, !.cal = "none"]
CmdUpgradeAp(s) == [s EXCEPT !.mode = @ \cup {"app"}]
CmdUpgradeBl(s) == [s EXCEPT !.mode = @ \cup {"boot"}]
CmdChgCal(s) == [s EXCEPT !.cal = "chg"]
CmdDsgCal(s) == [s EXCEPT !.cal = "dsg"]
CmdResetEsn(s) == [s EXCEPT !.esn = FALSE]
CmdSetRtc(s) == s
CmdHwVersion(s) == [s EXCEPT !.hw = TRUE]
CmdOffset(s) == s
CmdSetRsoc(s) == s
CmdTsOffset(s) == s
Dispatch(s) == CASE s.line = "Who?" -> CmdWho(s) [] s.line = "Reset BMS" -> CmdResetBms(s)
                 [] s.line = "Upgrade AP" -> CmdUpgradeAp(s) [] s.line = "Upgrade BL" -> CmdUpgradeBl(s)
                 [] s.line = "CHG CAL" -> CmdChgCal(s) [] s.line = "DSG CAL" -> CmdDsgCal(s)
                 [] s.line = "Reset ESN" -> CmdResetEsn(s) [] s.line = "Set RTC" -> CmdSetRtc(s)
                 [] s.line = "HW Version" -> CmdHwVersion(s) [] s.line = "V Offset" -> CmdOffset(s)
                 [] s.line = "Set RSOC" -> CmdSetRsoc(s) [] s.line = "TS0 Offset" -> CmdTsOffset(s)
                 [] OTHER -> s

(* uart_rx_handler: the line buffer; sync and function bytes clear it, the *)
(* text of two lines or of a line and a field is no command                *)
Text(s, t) == IF t.k = "text" /\ s.line = "none" THEN t.c ELSE "other"
LineKept(s, t) == CASE t.k = "cr" -> [Dispatch(s) EXCEPT !.line = "none"]
                    [] t.k \in {"sync", "func"} -> [s EXCEPT !.line = "none"]
                    [] OTHER -> [s EXCEPT !.line = Text(s, t)]
Line(s, t) == IF "ota" \in s.mode THEN [s EXCEPT !.line = "none"] ELSE LineKept(s, t)

(* ---- modem_rx_byte ---- *)
Respond(s) == [s EXCEPT !.order = Idle]
Order(s, t) == IF t.k \in {"put", "go"} THEN [s EXCEPT !.order = [Idle EXCEPT !.st = 1, !.cmd = t.k]]
               ELSE Respond(s)
Verified(s) == Whole("boot", s.staged)
(* the new boot loader is copied, and the update area is the app's again   *)
Go(s) == IF "boot" \notin s.mode THEN [Start(s) EXCEPT !.flag = "app"]
         ELSE IF Verified(s) THEN [Start(s) EXCEPT !.loader = s.staged, !.staged = [j \in Blocks |-> "app"],
                                                   !.flag = "none"]
         ELSE [Respond(s) EXCEPT !.staged = [j \in Blocks |-> "app"]]
Address(s, t) == IF t.k # "addr" THEN Respond(s)
                 ELSE IF s.order.cmd = "go" THEN IF t.i = 1 THEN Go(s) ELSE Respond(s)
                 ELSE [s EXCEPT !.order = [@ EXCEPT !.st = 2, !.addr = t.i]]
Block(s, t) == IF t.k # "code" THEN Respond(s)
               ELSE [Respond(s) EXCEPT !.staged = Put(@, s.order.addr, t.c)]
Modem(s, t) == CASE s.order.st = 0 -> Order(s, t) [] s.order.st = 1 -> Address(s, t) [] OTHER -> Block(s, t)

(* ---- a byte ---- *)
Framed(s) == s.mode \cap {"app", "boot"} = {} \/ "ota" \in s.mode
Receive(s, t) == IF Framed(s) THEN Line(Process(s, t), t) ELSE Modem(s, t)

Send == /\ left = <<>> /\ units < MaxUnits /\ units' = units + 1
        /\ \E u \in Units : /\ left' = Fields(u)
                            /\ clean' = (u.k = "frame" /\ port.rx = Rest /\ Framed(port))
        /\ done' = 0 /\ UNCHANGED <<port, faults>>
Arrive(t) == /\ port' = Receive(port, t) /\ left' = Tail(left)
             /\ done' = done + (IF Framed(port) /\ Runs(port, t) THEN 1 ELSE 0)
             /\ UNCHANGED units
Byte == left # <<>> /\ Arrive(Head(left)) /\ UNCHANGED <<clean, faults>>
Damaged == left # <<>> /\ faults < MaxFaults /\ faults' = faults + 1 /\ clean' = FALSE /\ Arrive(Noise)
Lost == /\ left # <<>> /\ faults < MaxFaults /\ faults' = faults + 1 /\ clean' = FALSE
        /\ left' = Tail(left) /\ UNCHANGED <<port, done, units>>
(* the watchdog ends a download that stays                                 *)
Restart == /\ faults < MaxFaults /\ faults' = faults + 1
           /\ port' = Start(port) /\ clean' = FALSE /\ UNCHANGED <<left, done, units>>

Init == /\ port = [mode |-> {}, rx |-> Rest, line |-> "none", order |-> Idle, page |-> <<>>,
                   staged |-> [j \in Blocks |-> "app"], loader |-> [j \in Blocks |-> "old"],
                   esn |-> FALSE, hw |-> FALSE, cal |-> "none", flag |-> "none"]
        /\ left = <<>> /\ clean = FALSE /\ done = 0 /\ units = 0 /\ faults = 0
Next == Send \/ Byte \/ Damaged \/ Lost \/ Restart
Spec == Init /\ [][Next]_vars

TypeOK == /\ port.mode \subseteq {"boot", "app", "ota"} /\ port.rx.at \in 0..2
          /\ port.rx.fn \in {0, 3, 6, 16} /\ Len(port.rx.got) <= 3
          /\ port.line \in AllCommands \cup {"none", "other"} /\ port.order.st \in 0..2
          /\ port.staged \in [Blocks -> Images \cup {"blank"}]
          /\ port.loader \in [Blocks -> Images \cup {"old", "blank"}]
          /\ {port.esn, port.hw, clean} \subseteq BOOLEAN /\ port.cal \in {"none", "chg", "dsg"}
          /\ port.flag \in {"none", "app"} /\ done \in 0..2
          /\ units \in 0..MaxUnits /\ faults \in 0..MaxFaults

(* A frame that finds the receiver at rest and arrives whole is executed   *)
(* exactly once, whatever came before it: lines, downloads, broken frames. *)
ExecutedOnce == done <= 1 /\ (clean /\ left = <<>> => done = 1)

(* The update area is filled by one download at a time: by frames, by the  *)
(* orders for the application or by those for the boot loader.             *)
OneDownload == \A m, n \in port.mode : m = n

(* The boot loader is replaced by a whole boot loader only.                *)
LoaderIsWhole == Whole("old", port.loader) \/ Whole("boot", port.loader)
=============================================================================
