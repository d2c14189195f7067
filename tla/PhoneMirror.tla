---------------------------- MODULE PhoneMirror ----------------------------
(***************************************************************************)
(* What the phone is told of the bike (mainware/src/ble.c, ble_read.c).    *)
(*                                                                         *)
(* A phone writes a setting (ble_cmd_dispatch), which is put into RAM,     *)
(* saved in the flash or in the EEPROM record, and echoed; it reads an     *)
(* attribute (ble_read_request_dispatch); and in every pass of the main    *)
(* loop ble_telemetry_change_broadcast compares the attributes with those  *)
(* it has told last and tells the ones that differ.  All of them go out as *)
(* messages of the queue of SspBle, whose slots are sent again until they  *)
(* are acknowledged or given up, so a later one may arrive first.          *)
(*                                                                         *)
(* A value is 0 or 1; Unknown is what a phone has not been told.  The      *)
(* attributes of one kind are one here: "guard" is the lock, alarm and     *)
(* module state, "battery" the batteries', "range" the slow telemetry.     *)
(***************************************************************************)
EXTENDS Integers

CONSTANTS Cap,      \* slots of the queue, 128 in the code
          MaxActs,  \* what phones and the bike do
          MaxLosses \* messages given up

MirrorAssumption == Cap \in Nat \ {0} /\ MaxActs \in Nat /\ MaxLosses \in Nat

VARIABLES ram, kept, \* the attributes, and what a restart finds of them
          cache,   \* the values broadcast last
          first,   \* no broadcast yet: its timer's slot is not allocated
          due,     \* the timer of the slow attributes has expired
          settle,  \* the debounce timer of the errors
          quiet,   \* the phone is away or an image is transferred
          queue, phone,
          spoiled, \* attributes told out of order, given up, or ahead of a broadcast
          acts, losses

vars == <<ram, kept, cache, first, due, settle, quiet, queue, phone, spoiled, acts, losses>>

Config == {"code", "region", "lock", "units", "ratio", "mode", "wheel", "volume", "light", "sensor"}
Record == {"alarm", "horn", "distance"}
Volatile == {"guard", "assist", "gear", "battery", "error", "versions", "range"}
All == Config \cup Record \cup Volatile
Preset == {"guard", "assist", "gear", "battery", "distance"}
Told == {"mode", "guard", "assist", "gear", "battery", "distance", "versions", "error", "range"}
Values == {0, 1}
Unknown == 2
Free == [attr |-> "none", val |-> 0]

Slots == 1..Cap
About(a, q) == \E i \in Slots : q[i].attr = a
Messages == [attr : All \cup {"none"}, val : Values]

(* ssp_ble_enqueue_tx_packet: the first free slot; a refusal is logged     *)
Put(q, a, v) == IF \E i \in Slots : q[i] = Free
                THEN [q EXCEPT ![CHOOSE i \in Slots : q[i] = Free /\ \A j \in 1..(i - 1) : q[j] # Free]
                        = [attr |-> a, val |-> v]]
                ELSE q
Spoils(q, a) == About(a, q) \/ \A i \in Slots : q[i] # Free

Say(a, v) == /\ queue' = Put(queue, a, v)
             /\ spoiled' = IF Spoils(queue, a) \/ v # cache[a] THEN spoiled \cup {a} ELSE spoiled \ {a}
Silent == UNCHANGED <<queue, spoiled>>

(* config_persist_dual_bank and save_state_record_to_eeprom                *)
Saved(part, r) == [s \in All |-> IF s \in part THEN r[s] ELSE kept[s]]

Act == /\ acts < MaxActs /\ acts' = acts + 1
       /\ UNCHANGED <<cache, first, due, settle, quiet, phone, losses>>
Set(a, v, part) == /\ ram' = [ram EXCEPT ![a] = v] /\ kept' = Saved(part, ram')

(* ble_cmd_dispatch                                                        *)
Setting(a) == \E v \in Values : Set(a, v, Config) /\ Say(a, v)
WriteUnits == Setting("units")
WriteRatio == Setting("ratio")
WriteMode == Setting("mode")
WriteWheel == Setting("wheel")
WriteVolume == Setting("volume")
WriteLight == Setting("light")
WriteSensor == \E v \in Values : Set("sensor", v, Config) /\ Silent
WriteCode == \E v \in Values : /\ ram' = [ram EXCEPT !["code"] = v, !["alarm"] = v]
                               /\ kept' = Saved(Config, ram') /\ Say("code", v)
WriteAlarm == \E v \in Values : Set("alarm", v, Record) /\ Say("alarm", v)
WriteHorn == \E v \in Values : Set("horn", v, Record) /\ Say("horn", v)
WriteDistance == \E v \in Values : Set("distance", v, {}) /\ Say("distance", v)
WriteAssist == \E v \in Values : Set("assist", v, {}) /\ Say("assist", v)
WriteGear == \E v \in Values : Set("gear", v, {}) /\ Silent
WriteRegion == /\ ram["lock"] = 0
               /\ \E v \in Values : Set("region", v, Config) /\ Say("region", v)
WriteLock == \E v, l \in Values : /\ ram' = [ram EXCEPT !["region"] = v, !["lock"] = l]
                                  /\ kept' = Saved(Config, ram') /\ Say("region", v)
Write == Act /\ (\/ WriteUnits \/ WriteRatio \/ WriteMode \/ WriteWheel \/ WriteVolume \/ WriteLight
                 \/ WriteSensor \/ WriteCode \/ WriteAlarm \/ WriteHorn \/ WriteDistance
                 \/ WriteAssist \/ WriteGear \/ WriteRegion \/ WriteLock)

(* ble_read_request_dispatch                                               *)
Answer(s) == (\E a \in s : Say(a, ram[a])) /\ UNCHANGED <<ram, kept>>
ReadRide == Answer({"code", "guard", "alarm", "units", "region", "ratio", "mode", "distance", "assist", "gear",
                    "range"})
ReadPower == Answer({"battery"})
ReadVersions == Answer({"versions"})
ReadStatus == Answer({"error", "wheel", "volume", "horn", "light", "sensor"})
Read == Act /\ (ReadRide \/ ReadPower \/ ReadVersions \/ ReadStatus)

(* the buttons, the wheel, the shifter, the batteries                      *)
Change == Act /\ (\E a \in Volatile \cup {"distance"} : Set(a, 1 - ram[a], {})) /\ Silent

(* ble_telemetry_change_broadcast                                          *)
(* ble_interval_debounce: an error that is raised is told after its timer  *)
Raised == cache["error"] # ram["error"] /\ ram["error"] = 1
Debounce == IF cache["error"] = ram["error"] THEN settle
            ELSE IF ram["error"] = 0 THEN "none"
            ELSE IF settle = "none" THEN "running" ELSE settle
Known == IF first THEN [a \in All |-> IF a \in Preset THEN ram[a] ELSE cache[a]] ELSE cache
Differs(a) == Known[a] # ram[a] /\ (a = "error" => ~Raised \/ settle = "expired")
TellCached(q, a) == IF Differs(a) THEN Put(q, a, cache[a]) ELSE q
Tell(q, a) == IF Differs(a) THEN Put(q, a, ram[a]) ELSE q
TellEarly(q) == Tell(Tell(Tell(Tell(Tell(q, "mode"), "guard"), "assist"), "gear"), "battery")
TellLater(q) == Tell(Tell(Tell(q, "distance"), "versions"), "error")
TellSlow(q) == IF due THEN Tell(q, "range") ELSE q
Now == {a \in Told : Differs(a) /\ (a = "range" => due)}
Doubtful(q) == {a \in Now : About(a, queue) \/ ~About(a, q)}
Stale == {a \in Preset : first /\ (About(a, queue) \/ phone[a] # Unknown)}
Broadcast ==
  /\ first' = FALSE
  /\ IF quiet
     THEN /\ cache' = Known /\ spoiled' = spoiled \cup Stale
          /\ UNCHANGED <<queue, due, settle>>
     ELSE /\ queue' = TellSlow(TellLater(TellEarly(queue)))
          /\ cache' = [a \in All |-> IF a \in Now THEN ram[a] ELSE Known[a]]
          /\ spoiled' = (spoiled \ Now) \cup Doubtful(queue') \cup Stale
          /\ due' = FALSE /\ settle' = Debounce
  /\ UNCHANGED <<ram, kept, quiet, phone, acts, losses>>

TimerExpires == /\ \/ ~first /\ ~due /\ due' = TRUE /\ UNCHANGED settle
                   \/ settle = "running" /\ settle' = "expired" /\ UNCHANGED due
                /\ UNCHANGED <<ram, kept, cache, first, quiet, queue, phone, spoiled, acts, losses>>
Gate == /\ acts < MaxActs /\ acts' = acts + 1 /\ quiet' = ~quiet
        /\ UNCHANGED <<ram, kept, cache, first, due, settle, queue, phone, spoiled, losses>>

(* the queue's slots are sent in any order (SspBle)                        *)
Deliver == \E i \in Slots :
             /\ queue[i] # Free /\ queue' = [queue EXCEPT ![i] = Free]
             /\ phone' = [phone EXCEPT ![queue[i].attr] = queue[i].val]
             /\ UNCHANGED <<ram, kept, cache, first, due, settle, quiet, spoiled, acts, losses>>
GiveUp == \E i \in Slots :
            /\ queue[i] # Free /\ losses < MaxLosses /\ losses' = losses + 1
            /\ queue' = [queue EXCEPT ![i] = Free]
            /\ spoiled' = spoiled \cup {queue[i].attr}
            /\ UNCHANGED <<ram, kept, cache, first, due, settle, quiet, phone, acts>>

(* a restart: the phone reads what it shows again                          *)
Start(k) == [s \in All |-> IF s \in Volatile THEN 0 ELSE k[s]]
Restart == /\ acts < MaxActs /\ acts' = acts + 1
           /\ ram' = Start(kept) /\ first' = TRUE /\ due' = FALSE
           /\ queue' = [i \in Slots |-> Free] /\ phone' = [a \in All |-> Unknown] /\ spoiled' = {}
           /\ cache' = [a \in All |-> 0] /\ settle' = "none"
           /\ UNCHANGED <<kept, quiet, losses>>

Init == /\ kept = [s \in All |-> 0] /\ ram = Start(kept) /\ cache = [s \in All |-> 0]
        /\ first = TRUE /\ due = FALSE /\ settle = "none" /\ quiet = FALSE
        /\ queue = [i \in Slots |-> Free] /\ phone = [a \in All |-> Unknown]
        /\ spoiled = {} /\ acts = 0 /\ losses = 0

Next == \/ Write \/ Read \/ Change \/ Broadcast \/ TimerExpires \/ Gate
        \/ Deliver \/ GiveUp \/ Restart
Spec == Init /\ [][Next]_vars

TypeOK == /\ ram \in [All -> Values] /\ kept \in [All -> Values] /\ cache \in [All -> Values]
          /\ first \in BOOLEAN /\ due \in BOOLEAN /\ settle \in {"none", "running", "expired"}
          /\ quiet \in BOOLEAN
          /\ queue \in [Slots -> Messages] /\ phone \in [All -> Values \cup {Unknown}]
          /\ spoiled \subseteq All /\ acts \in 0..MaxActs /\ losses \in 0..MaxLosses

(* A setting the phone has written is in the memory a restart reads: all   *)
(* of the configuration, and the horn of the state record.                 *)
SettingsSurvive == \A s \in Config \cup {"horn"} : kept[s] = ram[s]

Current(a) == cache[a] = ram[a] /\ ~About(a, queue) => phone[a] \in {Unknown, ram[a]}

(* An attribute told by one message at a time, none given up and none sent *)
(* ahead of the broadcast, is on the phone what it is on the bike.         *)
PhoneFollows == \A a \in Told \ spoiled : ~first => Current(a)

=============================================================================
