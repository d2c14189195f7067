----------------------------- MODULE BikeStates -----------------------------
(***************************************************************************)
(* The bike's state machine (mainware/src/states.c, status_process): one   *)
(* action per state of the machine, run once per turn of the main loop,    *)
(* and the commands of the app, of SMS, of the console and of the OAD that *)
(* set the state between two turns.                                        *)
(*                                                                         *)
(* A timer's slot is kept only where the code asks whether it is held: the *)
(* slots in `held' carry over from one state to another.  A slot that each *)
(* state allocates for itself only says that time passes before the state  *)
(* is left, and a step waits as long as it likes; the same goes for the    *)
(* display and for the debouncing of the charger and of the lock.          *)
(* Lights, sounds, the display's mode and the other services (battery,     *)
(* shifter, GSM) are left out.  States are named as alarm_state_name names *)
(* them; ASLEEP is the processor in STOP mode, SOUND is state 0x3D.        *)
(***************************************************************************)
EXTENDS Integers, FiniteSets

CONSTANTS Bikes,     \* the bikes: records of pins, see Pins
          Records,   \* the state records the EEPROM may hold at the start
          MaxEvents  \* bound: commands, presses, changes of a pin, crashes

Pins == [lock : BOOLEAN,     \* PC8: the lock's pin is in
         charger : BOOLEAN,  \* PC4 low
         plug : BOOLEAN,     \* PC2
         cart : BOOLEAN,     \* PC10: the battery is in place
         flat : BOOLEAN,     \* power_state_get_clamped() < 2
         coil : BOOLEAN,     \* PA11 low: a bike with a kick lock
         code : BOOLEAN,     \* a backup code is set (ctx+0x100)
         alarm : BOOLEAN]    \* the alarm is enabled (ctx+0x317)

Unlocked == 11   \* 0x0B, the alarm byte of a bike that is not locked

Alarms == [n \in 0 .. 4 |->
    CASE n = 0 -> "ALARM_PRE_M1"  [] n = 1 -> "ALARM_ACTIVE_M1_CNT"
      [] n = 2 -> "ALARM_ACTIVE_M2" [] n = 3 -> "ALARM_TRACKING_UNCONFIRMED"
      [] n = 4 -> "ALARM_TRACKING_CONFIRMED"]

States == {Alarms[n] : n \in 0 .. 4} \cup
    {"ALARM_BMS_REMOVED", "SET_SHIPPING", "SHIPPING", "ACCIDENTAL_WAKE",
     "SHIPPING_LIPOCHARGE", "START_FROM_SHIPPING", "PLAY_FIRE", "RIDING_MODE",
     "INIT", "STANDBY", "CPU_STOP_MODE", "CPU_STOPPED", "SHOW_LOCK",
     "AUTOWAKEUP", "CARDRIDGE_REMOVED", "LIPOCHARGE", "CHARGING", "DIAGNOSE",
     "DIAG_RDY", "OAD_UPDATE", "OAD_FILE_TRF", "OAD_FAILED", "OAD_RX_SOUND",
     "OAD_FINISH", "PLAY_SHTDN", "PLAY_LOCK_SHTDN", "PLAY_LOCK_FROM_SLEEP",
     "PLAY_SHTDN_RDY", "ALARM_DELAY_ON", "TURN_ON", "LOW_SOC", "PIN_START",
     "PIN_STUCK", "PIN_1ST", "PIN_2ND", "PIN_3ND", "PIN_CHECK", "PIN_OK",
     "PIN_SHOW_OK", "PIN_NOK", "PIN_NOK_SHOW", "UNLOCK",
     "EXTRA_ALREADY_UNLOCKED", "UNLOCK_COUNT", "UNLOCK_COUNT_TIMEOUT",
     "LOCK_PLAY_UNLOCK", "LOCK_PLAY_START", "LOCK_DIM_OFF", "LOCK_CLEAR",
     "SOUND", "ASLEEP"}

\* The slots held across states: 6 (riding and the kick lock), 0xA (sound),
\* 0x12 (alarm delay), 0x25 (stop), 0x32 (three wrong codes), 0x37 with and
\* without the reboot as its callback.
Slots == {"t06", "t0A", "t12", "t25", "t32", "t37", "t37reboot"}

\* Bytes 0x310, 0x312, 0x340, 0x314 and 0x311 of the state record.
Record == [alarm : {1, 2, 3, 4, Unlocked}, remote : BOOLEAN, kick : BOOLEAN,
           ship : BOOLEAN, armed : BOOLEAN]

ASSUME BikeAssumption ==
    Bikes \subseteq Pins /\ Records \subseteq Record /\ MaxEvents \in Nat

VARIABLES st,      \* G_STATE[4]
          back,    \* G_STATE[5], the state to return to
          held,    \* the slots that are held
          ram,     \* the state record in RAM, ctx+0x310
          rec,     \* its copy in the EEPROM
          tries,   \* G_CLK[0xA6], PIN attempts, counted up to 4
          warned,  \* G_CLK[0x1A]: the removed cartridge was announced
          wake,    \* the word at 0x20000004: 0, 1, 5, 7 or 10
          pins, events

mem  == <<ram, rec>>
misc == <<back, tries, warned, wake>>
env  == <<pins, events>>
vars == <<st, held, mem, misc, env>>

Init == /\ st = "INIT" /\ back = "unset" /\ held = {}
        /\ rec \in Records /\ ram = rec
        /\ tries = 0 /\ warned = FALSE /\ wake = 0
        /\ pins \in Bikes /\ events = 0

Quiet == UNCHANGED env
Event == events < MaxEvents /\ events' = events + 1
Press == Event /\ UNCHANGED pins

\* bike_is_locked
IsLocked == pins.lock \/ ram.remote \/ ram.kick

\* Mutant: shipping is left like any other state.
SetAlways(s) == st' = s

\* maybe_set_state_if_unlocked: shipping is not left this way
Set(s) == st' = IF st \in {"SET_SHIPPING", "SHIPPING"} THEN st ELSE s

\* What reaches the same end in STANDBY, RIDING_MODE and CHARGING: a bike
\* without a kick lock whose cartridge is taken out while its pin is in.
CartGone == ~pins.coil /\ ~pins.cart /\ pins.lock /\ ~ram.kick /\ ~ram.remote

\* save_state_record_to_eeprom with the record set to r
Saved(r) == ram' = r /\ rec' = r

\* A step which leaves state s for t when what s waits for has come.
Then(s, t) == /\ st = s /\ st' = t
              /\ UNCHANGED <<held, mem, misc>> /\ Quiet

\* PIN_START, or the lock shown when there is no code to ask for.
AskCode == IF pins.code THEN "PIN_START" ELSE "SHOW_LOCK"

(***************************************************************************)
(* Boot: the processor starts anew, the record is read back.  After STOP   *)
(* mode the wake reason says why.                                          *)
(***************************************************************************)
Boot(w) == /\ st' = "INIT" /\ ram' = rec /\ held' = {}
           /\ tries' = 0 /\ warned' = FALSE /\ back' = "unset" /\ wake' = w
           /\ UNCHANGED rec

Wake == st = "ASLEEP" /\ \E w \in {0, 1, 5, 7, 10} : Boot(w) /\ Quiet

Crash == st # "ASLEEP" /\ Press /\ Boot(0)

\* reboot_restart_task as the callback of slot 0x37
RebootCallback == "t37reboot" \in held /\ st # "ASLEEP" /\ Boot(0) /\ Quiet

(***************************************************************************)
(* The alarm, cases 0 to 5.                                                *)
(***************************************************************************)
\* Mutant: the state that is left is what is saved.
PreM1Early == /\ st = "ALARM_PRE_M1" /\ st' = "ALARM_ACTIVE_M1_CNT"
              /\ Saved([ram EXCEPT !.alarm = 0])
              /\ UNCHANGED <<held, misc>> /\ Quiet

PreM1 == /\ st = "ALARM_PRE_M1" /\ UNCHANGED <<held, misc>>
         /\ \/ /\ st' = "ALARM_ACTIVE_M1_CNT"
               /\ Saved([ram EXCEPT !.alarm = 1]) /\ Quiet
            \/ /\ Press /\ UNCHANGED mem
               /\ \/ st' = "PIN_START"
                  \/ st' = "SHOW_LOCK"   \* a press, or the other buttons

\* Slot 0x30, which paces the count, is allocated at an address read from
\* the error flags, so it is never held: the count neither rises nor ends.
M1Count == /\ st = "ALARM_ACTIVE_M1_CNT" /\ st' = "PIN_START"
           /\ Press /\ UNCHANGED <<held, mem, misc>>

\* The alarm byte says 2 from the first turn, in RAM only.
M2 == /\ st = "ALARM_ACTIVE_M2"
      /\ \/ /\ st' = "STANDBY" /\ Saved([ram EXCEPT !.alarm = 3])
            /\ UNCHANGED <<held, misc>> /\ Quiet
         \/ /\ "t32" \notin held /\ st' = "PIN_START" /\ Press
            /\ ram' = [ram EXCEPT !.alarm = 2]
            /\ UNCHANGED <<rec, held, misc>>
         \/ /\ st' = st /\ ram' = [ram EXCEPT !.alarm = 2]
            /\ \/ "t32" \in held /\ held' = held \ {"t32"} /\ tries' = 0
               \/ UNCHANGED <<held, tries>>
            /\ UNCHANGED <<rec, back, warned, wake>> /\ Quiet

Tracking == /\ st \in {Alarms[3], Alarms[4]} /\ UNCHANGED <<held, misc>>
            /\ \/ st' = "STANDBY" /\ UNCHANGED mem /\ Quiet
               \/ /\ st = Alarms[3] /\ Press
                  /\ st' = AskCode /\ Saved([ram EXCEPT !.alarm = 3])

BmsRemoved == /\ st = "ALARM_BMS_REMOVED"
              /\ st' = IF pins.cart THEN "STANDBY"
                       ELSE IF pins.coil THEN "CPU_STOP_MODE" ELSE Alarms[3]
              /\ UNCHANGED <<held, mem, misc>> /\ Quiet

(***************************************************************************)
(* Shipping, cases 6 to 0xB and 0x14.                                      *)
(***************************************************************************)
SetShipping == Then("SET_SHIPPING", "CPU_STOP_MODE")

Shipping == /\ st = "SHIPPING" /\ st' = "SET_SHIPPING"
            /\ ram' = [ram EXCEPT !.ship = TRUE]
            /\ UNCHANGED <<rec, held, misc>> /\ Quiet

AccidentalWake == Then("ACCIDENTAL_WAKE", "SHIPPING_LIPOCHARGE")

\* PD2, the reset button, is asked beside the charger.
ShippingLipo == /\ st = "SHIPPING_LIPOCHARGE"
                /\ \/ pins.charger /\ Boot(wake) /\ Quiet
                   \/ Press /\ Boot(wake)
                   \/ /\ ~pins.charger /\ st' = "CPU_STOP_MODE"
                      /\ UNCHANGED <<held, mem, misc>> /\ Quiet

StartFromShipping == /\ st = "START_FROM_SHIPPING" /\ st' = "PLAY_FIRE"
                     /\ Saved([ram EXCEPT !.ship = FALSE])
                     /\ UNCHANGED <<held, misc>> /\ Quiet

PlayFire == Then("PLAY_FIRE", IF pins.charger THEN "CHARGING"
                              ELSE IF ~IsLocked THEN "RIDING_MODE" ELSE AskCode)

LipoCharge == ~pins.charger /\ Then("LIPOCHARGE", "SHIPPING")

(***************************************************************************)
(* Riding, start and standby, cases 0xC to 0xE, and charging, case 0x15.   *)
(***************************************************************************)
\* A slow bike holds slot 6; what needs a standing bike comes after that.
\* At a stand: three minutes without a use, and a charger that is plugged in.
RidingEnds ==
    \/ /\ UNCHANGED ram /\ held' = held \ {"t06"} /\ Quiet
       /\ st' = IF pins.plug \/ pins.flat THEN "STANDBY" ELSE "PLAY_SHTDN"
    \/ /\ ~pins.flat /\ pins.charger
       /\ st' = "CHARGING" /\ held' = held \cup {"t06"} /\ Quiet
       /\ ram' = [ram EXCEPT !.armed = @ /\ IsLocked]

Riding ==
    /\ st = "RIDING_MODE" /\ UNCHANGED <<rec, misc>>
    /\ \/ /\ CartGone /\ Set("SHIPPING") /\ held' \in {held, held \cup {"t06"}}
          /\ UNCHANGED ram /\ Quiet
       \/ ~CartGone /\ RidingEnds
       \/ /\ ~CartGone /\ UNCHANGED ram
          /\ st' = IF pins.flat THEN "STANDBY" ELSE st
          /\ held' \in {held, held \cup {"t06"}} /\ Quiet
       \/ /\ ~CartGone /\ UNCHANGED ram
          /\ st' = "PLAY_SHTDN" /\ held' = held \cup {"t06"} /\ Press
       \/ /\ ~CartGone /\ UNCHANGED ram /\ held' = held \ {"t06"} /\ Quiet
          /\ IsLocked /\ Set("PLAY_LOCK_SHTDN")

\* A saved update, which would be resumed here, is OtaUpdate's.
InitState ==
    LET home == CASE ram.alarm \in {1, 2} -> Alarms[ram.alarm]
                  [] ram.alarm \in {3, 4} /\ wake # 1 -> Alarms[ram.alarm]
                  [] OTHER -> "STANDBY"
    IN  /\ st = "INIT" /\ UNCHANGED <<rec, held, misc>>
        /\ \/ /\ ~ram.ship /\ st' = home
              /\ UNCHANGED ram /\ Quiet
           \/ /\ ram.ship /\ pins.coil
              /\ \/ /\ (pins.charger /\ Quiet) \/ Press
                    /\ st' = "START_FROM_SHIPPING"
                    /\ ram' = [ram EXCEPT !.ship = FALSE]
                 \/ /\ ~pins.charger /\ st' = "ACCIDENTAL_WAKE"
                    /\ UNCHANGED ram /\ Quiet
           \/ /\ ram.ship /\ ~pins.coil
              /\ st' = IF pins.charger THEN "LIPOCHARGE" ELSE "SHIPPING"
              /\ UNCHANGED ram /\ Quiet

\* locked_state_step: the buttons while locked, the alarm on motion, the
\* cartridge removed from a bike without a kick lock.
Stays == pins.coil \/ pins.cart \/ warned \/ pins.plug

LockedStep(active) ==
    /\ IsLocked /\ UNCHANGED <<mem, back, tries>>
    /\ \/ /\ Stays /\ active /\ Press
          /\ \/ ram.alarm # 4 /\ st' = "SHOW_LOCK"
             \/ st' = IF ram.alarm = 4 THEN Alarms[4] ELSE AskCode
          /\ UNCHANGED <<held, warned, wake>>
       \/ /\ Stays /\ pins.alarm /\ "t12" \notin held
          /\ \/ wake \in {5, 7} /\ Quiet
             \/ Press
          /\ wake' = 10
          /\ st' = IF ~(ram.remote \/ ram.kick) THEN st
                   ELSE IF ram.alarm \in 2 .. 4 THEN Alarms[ram.alarm]
                   ELSE "ALARM_PRE_M1"
          /\ UNCHANGED <<held, warned>>
       \/ /\ ~Stays /\ warned' = FALSE /\ st' = "CARDRIDGE_REMOVED"
          /\ UNCHANGED <<held, wake>> /\ Quiet
       \/ /\ "t12" \in held /\ held' = held \ {"t12"}
          /\ UNCHANGED <<st, warned, wake>> /\ Quiet

\* After 10 s without the plug: a flat LiPo battery is charged if it can be.
Sleeps == /\ ~pins.plug
          /\ \/ st' = "CPU_STOP_MODE" /\ UNCHANGED wake
             \/ ~pins.flat /\ st' = st /\ wake' = 1

\* internal_lipo_charge_step decides: sleep, or go on.
LipoDecides == wake \in {0, 1, 5} /\ wake' = 10 /\ st' = "CPU_STOP_MODE"

\* The cartridge, the kick lock, the charger and the button that wake the bike.
StandbyEnds ==
    \/ /\ ~pins.cart /\ pins.coil /\ st' = "ALARM_BMS_REMOVED"
       /\ UNCHANGED <<held, wake>> /\ Quiet
    \/ /\ IsLocked /\ ~ram.armed /\ pins.coil
       /\ Set("PLAY_LOCK_FROM_SLEEP")
       /\ held' = held \ {"t06"} /\ wake' = 10 /\ Quiet
    \/ /\ pins.charger /\ st' = "CHARGING"
       /\ UNCHANGED <<held, wake>> /\ Quiet
    \/ /\ ~IsLocked /\ ram.alarm = Unlocked /\ st' = "TURN_ON"
       /\ UNCHANGED <<held, wake>> /\ Press

Standby ==
    /\ st = "STANDBY"
    /\ \/ CartGone /\ Set("SHIPPING") /\ UNCHANGED <<held, mem, misc>> /\ Quiet
       \/ ~CartGone /\ ram.armed /\ LockedStep(TRUE)
       \/ /\ ~CartGone /\ UNCHANGED <<rec, back, tries, warned>>
          /\ ram' = [ram EXCEPT !.armed = @ /\ IsLocked]
          /\ \/ /\ Stays \/ ~ram.armed \/ ~IsLocked
                /\ Sleeps \/ LipoDecides \/ UNCHANGED <<st, wake>>
                /\ UNCHANGED held /\ Quiet
             \/ StandbyEnds

\* End of charge: the charger has been gone for a second.
ChargingEnds == ~pins.charger /\ st' = "STANDBY" /\ UNCHANGED held /\ Quiet

\* With a power bank that discharges the buttons work as in STANDBY.
Charging ==
    /\ st = "CHARGING"
    /\ \/ CartGone /\ Set("SHIPPING") /\ UNCHANGED <<held, mem, misc>> /\ Quiet
       \/ ~CartGone /\ \E active \in {FALSE, ram.armed} : LockedStep(active)
       \/ /\ ~CartGone /\ UNCHANGED <<mem, misc>>
          /\ \/ /\ ~IsLocked /\ ram.alarm = Unlocked /\ st' = "TURN_ON"
                /\ UNCHANGED held /\ Press
             \/ /\ IsLocked /\ ~ram.armed /\ Set("PLAY_LOCK_SHTDN")
                /\ held' = held \ {"t06"} /\ Quiet
             \/ ChargingEnds

(***************************************************************************)
(* Sleep, cases 0xF and 0x10, and what is shown, cases 0x11 to 0x13.       *)
(***************************************************************************)
\* Mutant: the record is not saved before the stop.
StopModeUnsaved == /\ st = "CPU_STOP_MODE" /\ "t25" \notin held
                   /\ ram' = [ram EXCEPT !.armed = IsLocked]
                   /\ held' = held \cup {"t25"} /\ st' = "CPU_STOPPED"
                   /\ UNCHANGED <<rec, misc>> /\ Quiet

\* Case 0xF acts only while slot 0x25 is not held.
StopMode == LET r == [ram EXCEPT !.armed = IsLocked]
            IN  /\ st = "CPU_STOP_MODE" /\ "t25" \notin held
                /\ Saved(r) /\ held' = held \cup {"t25"}
                /\ st' = "CPU_STOPPED" /\ UNCHANGED misc /\ Quiet

\* The plug resets a bike that is not shipped; STOP mode ends in a reset.
Stopped == /\ st = "CPU_STOPPED" /\ Quiet
           /\ \/ /\ "t25" \in held /\ held' = held \ {"t25"}
                 /\ st' = "ASLEEP" /\ UNCHANGED <<mem, misc>>
              \/ pins.plug /\ ~ram.ship /\ Boot(wake)

ShowLock == \/ Then("SHOW_LOCK", "STANDBY")
            \/ /\ st = "SHOW_LOCK" /\ ram.alarm # 4 /\ st' = AskCode
               /\ Press /\ UNCHANGED <<held, mem, misc>>

AutoWakeUp == \/ Then("AUTOWAKEUP", "STANDBY")
              \/ /\ st = "AUTOWAKEUP" /\ st' = "PIN_START"
                 /\ Press /\ UNCHANGED <<held, mem, misc>>

\* Announced twice.
CartridgeRemoved == /\ st = "CARDRIDGE_REMOVED" /\ warned' = TRUE
                    /\ st' = IF warned THEN "STANDBY" ELSE st
                    /\ UNCHANGED <<held, mem, back, tries, wake>> /\ Quiet

(***************************************************************************)
(* Diagnosis and update, cases 0x17 to 0x1D.                               *)
(***************************************************************************)
Diagnose == Then("DIAGNOSE", "DIAG_RDY") \/ Then("DIAG_RDY", "STANDBY")

\* OtaUpdate's orchestrator, which reports through testmode_command_dispatch.
Orchestrated == /\ st = "OAD_UPDATE" /\ Saved(ram)
                /\ st' \in {"OAD_FINISH", "OAD_FAILED"}
                /\ UNCHANGED <<held, misc>> /\ Quiet

\* A transfer that takes 45 minutes fails.
FileTransfer == /\ st = "OAD_FILE_TRF" /\ Saved(ram) /\ st' = "OAD_FAILED"
                /\ UNCHANGED <<held, misc>> /\ Quiet

Failed == /\ st = "OAD_FAILED"
          /\ \/ /\ held \cap {"t37", "t37reboot"} = {}
                /\ held' = held \cup {"t37reboot"}
                /\ UNCHANGED <<st, mem, misc>> /\ Quiet
             \/ Press /\ Boot(wake)

RxSound == Then("OAD_RX_SOUND", back)

Finish == /\ st = "OAD_FINISH" /\ Quiet
          /\ IF held \cap {"t37", "t37reboot"} = {}
             THEN /\ held' = held \cup {"t37"} /\ Saved(ram)
                  /\ UNCHANGED <<st, misc>>
             ELSE Boot(wake)

(***************************************************************************)
(* Shutting down, cases 0x1F to 0x25.                                      *)
(***************************************************************************)
PlayShutdown == Then("PLAY_SHTDN", "PLAY_SHTDN_RDY")

\* The lock is noted and saved only while slot 6 is not held.
LockShutdown(s) ==
    /\ st = s /\ UNCHANGED misc /\ Quiet
    /\ IF "t06" \notin held
       THEN /\ held' = held \cup {"t06"} /\ st' = s
            /\ Saved([ram EXCEPT !.armed = TRUE, !.kick = TRUE])
       ELSE /\ held' = held \ {"t06"} /\ UNCHANGED mem
            /\ st' = IF pins.charger THEN "CHARGING"
                     ELSE IF s = "PLAY_LOCK_FROM_SLEEP" THEN "STANDBY"
                     ELSE "PLAY_SHTDN"

PlayLock == LockShutdown("PLAY_LOCK_SHTDN") \/ LockShutdown("PLAY_LOCK_FROM_SLEEP")

ShutdownReady == Then("PLAY_SHTDN_RDY",
                      IF IsLocked THEN "ALARM_DELAY_ON" ELSE "STANDBY")

AlarmDelay == /\ st = "ALARM_DELAY_ON" /\ st' = "STANDBY"
              /\ held' = held \cup {"t12"} /\ UNCHANGED <<mem, misc>> /\ Quiet

TurnOn == /\ st = "TURN_ON" /\ UNCHANGED <<mem, misc>> /\ Quiet
          /\ IF pins.flat THEN st' = "LOW_SOC" /\ UNCHANGED held
             ELSE st' = "RIDING_MODE" /\ held' = held \ {"t06"}

LowSoc == Then("LOW_SOC", "STANDBY")

(***************************************************************************)
(* The backup code, cases 0x26 to 0x2F: a digit is entered or given up.    *)
(***************************************************************************)
PinStart == /\ st = "PIN_START"
            /\ \/ /\ st' = "PIN_1ST" /\ tries' = IF tries < 4 THEN tries + 1 ELSE 4
               \/ st' = "PIN_STUCK" /\ UNCHANGED tries
            /\ UNCHANGED <<held, mem, back, warned, wake>> /\ Quiet

PinDigit == \/ Then("PIN_1ST", "PIN_2ND")   \/ Then("PIN_1ST", "PIN_NOK")
            \/ Then("PIN_2ND", "PIN_3ND")   \/ Then("PIN_2ND", "PIN_NOK")
            \/ Then("PIN_3ND", "PIN_CHECK") \/ Then("PIN_3ND", "PIN_NOK")

PinShown == \/ Then("PIN_STUCK", "STANDBY")
            \/ Then("PIN_CHECK", "PIN_OK")  \/ Then("PIN_CHECK", "PIN_NOK")
            \/ Then("PIN_OK", "PIN_SHOW_OK") \/ Then("PIN_SHOW_OK", "UNLOCK")
            \/ Then("PIN_NOK", "PIN_NOK_SHOW")
            \/ Then("PIN_NOK_SHOW", "LOCK_DIM_OFF")

(***************************************************************************)
(* Unlocking, cases 0x30 to 0x37.                                          *)
(***************************************************************************)
UnlockedRecord == [ram EXCEPT !.remote = FALSE, !.kick = FALSE, !.alarm = Unlocked]

\* set_unlock_state_persist: nothing is written when RAM reads unlocked.
Persist == IF ram = UnlockedRecord THEN UNCHANGED mem ELSE Saved(UnlockedRecord)

Unlock == /\ st = "UNLOCK" /\ tries' = 0
          /\ ram' = [ram EXCEPT !.alarm = Unlocked]
          /\ st' = IF pins.lock THEN "UNLOCK_COUNT" ELSE "EXTRA_ALREADY_UNLOCKED"
          /\ UNCHANGED <<rec, held, back, warned, wake>> /\ Quiet

AlreadyUnlocked == /\ st = "EXTRA_ALREADY_UNLOCKED" /\ Persist
                   /\ st' = IF "t06" \in held THEN "RIDING_MODE"
                            ELSE "LOCK_PLAY_UNLOCK"
                   /\ UNCHANGED <<held, misc>> /\ Quiet

\* Mutant: the countdown only ends when the pin is freed.
UnlockCountForever == /\ st = "UNLOCK_COUNT" /\ ~pins.lock /\ Persist
                      /\ st' = IF pins.flat THEN "LOW_SOC" ELSE "LOCK_PLAY_UNLOCK"
                      /\ UNCHANGED <<held, misc>> /\ Quiet

\* The last second of the countdown outdoes a pin freed in that second.
UnlockCount ==
    /\ st = "UNLOCK_COUNT" /\ UNCHANGED <<held, misc>> /\ Quiet
    /\ \/ /\ ~pins.lock /\ Persist
          /\ st' = IF pins.flat THEN "LOW_SOC" ELSE "LOCK_PLAY_UNLOCK"
       \/ /\ st' = "UNLOCK_COUNT_TIMEOUT"
          /\ LET r == IF pins.lock THEN ram ELSE UnlockedRecord
             IN  ram' = [r EXCEPT !.armed = TRUE]
          /\ rec' = IF pins.lock \/ ram = UnlockedRecord THEN rec
                    ELSE UnlockedRecord

UnlockShown == \/ Then("UNLOCK_COUNT_TIMEOUT", "STANDBY")
               \/ Then("LOCK_PLAY_UNLOCK",
                       IF pins.flat THEN "LOW_SOC" ELSE "LOCK_PLAY_START")
               \/ Then("LOCK_PLAY_START", "RIDING_MODE")

AlarmOr(s) == IF ram.alarm < 5 THEN Alarms[ram.alarm] ELSE s

\* A third wrong code makes the next one wait for slot 0x32.
DimOff == /\ st = "LOCK_DIM_OFF" /\ UNCHANGED <<mem, back, warned, wake>> /\ Quiet
          /\ \/ /\ tries # 3 /\ st' = "LOCK_CLEAR" /\ UNCHANGED <<held, tries>>
             \/ /\ tries = 3 /\ "t32" \notin held
                /\ held' = held \cup {"t32"} /\ st' = AlarmOr(st)
                /\ UNCHANGED tries
             \/ /\ tries = 3 /\ "t32" \in held
                /\ held' = held \ {"t32"} /\ tries' = 0 /\ UNCHANGED st

LockClear == Then("LOCK_CLEAR", AlarmOr("STANDBY"))

SoundEnd == /\ st = "SOUND" /\ "t0A" \in held
            /\ st' = back /\ held' = held \ {"t0A"}
            /\ UNCHANGED <<mem, misc>> /\ Quiet

(***************************************************************************)
(* What sets the state from outside: the app (ble.c), SMS (modem.c), the   *)
(* console, a sound of the app (app.c) and the OAD (shifter.c).            *)
(***************************************************************************)
Connected ==
    /\ UNCHANGED <<held, misc>>
    /\ IF ram.alarm \in {3, 4}
       THEN Saved([ram EXCEPT !.alarm = Unlocked, !.remote = FALSE]) /\ Set("UNLOCK")
       ELSE st = "ALARM_BMS_REMOVED" /\ st' = "STANDBY" /\ UNCHANGED mem

LockCommand ==
    /\ UNCHANGED <<rec, held, misc>>
    /\ \/ ram' = [ram EXCEPT !.remote = TRUE] /\ Set("PLAY_LOCK_SHTDN")
       \/ ram' = [ram EXCEPT !.remote = FALSE] /\ Set("UNLOCK")
       \/ ram.remote /\ ~pins.lock /\ Set("TURN_ON") /\ UNCHANGED ram

AlarmCommand ==
    /\ UNCHANGED <<held, misc>>
    /\ \/ Saved([ram EXCEPT !.alarm = Unlocked, !.remote = FALSE]) /\ Set("STANDBY")
       \/ Saved([ram EXCEPT !.remote = TRUE]) /\ Set("STANDBY")
       \/ Saved([ram EXCEPT !.alarm = Unlocked]) /\ Set(Alarms[1])
       \/ Saved([ram EXCEPT !.alarm = 2]) /\ Set(Alarms[2])
       \/ Saved([ram EXCEPT !.alarm = 4, !.remote = TRUE]) /\ Set(Alarms[4])

\* Ignored while an update runs.
ModuleCommand ==
    /\ ram.alarm = Unlocked /\ UNCHANGED <<held, mem, misc>>
    /\ st \notin {"OAD_UPDATE", "OAD_FILE_TRF", "OAD_FAILED", "OAD_RX_SOUND",
                  "OAD_FINISH"}
    /\ \/ Set("STANDBY")
       \/ Set("SHIPPING")
       \/ /\ pins.lock /\ Set("AUTOWAKEUP")
          /\ st \notin {"UNLOCK_COUNT", Alarms[0], Alarms[1]}
       \/ ~pins.lock /\ st # "RIDING_MODE" /\ Set("TURN_ON")

DiagnoseCommand == Set("DIAGNOSE") /\ UNCHANGED <<held, mem, misc>>

ShippingCommand == Set("SHIPPING") /\ UNCHANGED <<held, mem, misc>>

TrackingOn == /\ ~pins.plug /\ Saved([ram EXCEPT !.alarm = 4])
              /\ Set(Alarms[4]) /\ UNCHANGED <<held, misc>>

TrackingOff == /\ Set("STANDBY") /\ UNCHANGED <<held, misc>>
               /\ IF ram.alarm = Unlocked THEN UNCHANGED mem
                  ELSE Saved([ram EXCEPT !.alarm = Unlocked])

\* channel_notify_emit
Sound == /\ ram.alarm = Unlocked
         /\ held' = held \cup {"t0A"}
         /\ IF st = "SOUND" THEN UNCHANGED <<st, back>>
            ELSE back' = st /\ Set("SOUND")
         /\ UNCHANGED <<mem, tries, warned, wake>>

\* shifter_mode_command_dispatch writes the state itself.  The coprocessor
\* reports a sound file (3) at the end of a transfer it announced (0).
OadStatus ==
    /\ UNCHANGED <<held, mem, tries, warned, wake>>
    /\ \/ st' = "OAD_FILE_TRF" /\ back' = st
       \/ /\ st' \in {"OAD_UPDATE", "OAD_FAILED"} /\ UNCHANGED back
       \/ st = "OAD_FILE_TRF" /\ st' = "OAD_RX_SOUND" /\ UNCHANGED back

Command == /\ st # "ASLEEP" /\ Press
           /\ \/ Connected \/ LockCommand \/ AlarmCommand \/ ModuleCommand
              \/ DiagnoseCommand \/ ShippingCommand \/ TrackingOn
              \/ TrackingOff \/ Sound \/ OadStatus

PinChange == /\ Event /\ UNCHANGED <<st, held, mem, misc>>
             /\ \E p \in {"lock", "charger", "plug", "cart", "flat"} :
                    pins' = [pins EXCEPT ![p] = ~@]

Pass == \/ PreM1 \/ M1Count \/ M2 \/ Tracking \/ BmsRemoved
        \/ SetShipping \/ Shipping \/ AccidentalWake \/ ShippingLipo
        \/ StartFromShipping \/ PlayFire \/ LipoCharge
        \/ Riding \/ InitState \/ Standby \/ Charging
        \/ StopMode \/ Stopped \/ ShowLock \/ AutoWakeUp \/ CartridgeRemoved
        \/ Diagnose \/ Orchestrated \/ FileTransfer \/ Failed \/ RxSound \/ Finish
        \/ PlayShutdown \/ PlayLock \/ ShutdownReady \/ AlarmDelay
        \/ TurnOn \/ LowSoc \/ PinStart \/ PinDigit \/ PinShown
        \/ Unlock \/ AlreadyUnlocked \/ UnlockCount \/ UnlockShown
        \/ DimOff \/ LockClear \/ SoundEnd

Next == Pass \/ Command \/ PinChange \/ Wake \/ Crash \/ RebootCallback

Spec == Init /\ [][Next]_vars

\* The main loop keeps calling status_process; a timer runs out, the display
\* becomes ready.  No button is ever pressed by necessity.
Turn == Pass /\ events' = events
FairSpec == Spec /\ WF_vars(Turn) /\ WF_vars(RebootCallback)

(***************************************************************************)
(* Properties.                                                             *)
(***************************************************************************)
\* Every variable has its type.
TypeOK == /\ st \in States /\ back \in States \cup {"unset"}
          /\ held \subseteq Slots
          /\ ram \in Record /\ rec \in Record
          /\ tries \in 0 .. 4 /\ warned \in BOOLEAN
          /\ wake \in {0, 1, 5, 7, 10}
          /\ pins \in Pins /\ events \in 0 .. MaxEvents

\* STOP mode ends in a reset, so what it is to remember is in the EEPROM:
\* whatever commands came while case 0x10 waited, asleep the saved record
\* is the record (states.c:1499, states.c:1560).
SleepIsSaved == st = "ASLEEP" => rec = ram

InShipping == {"SHIPPING", "SET_SHIPPING"}
FromOad == {"OAD_UPDATE", "OAD_FILE_TRF", "OAD_FAILED", "OAD_RX_SOUND"}

\* A bike that is being shipped goes to sleep, and goes to sleep as shipped:
\* nothing but the OAD and a reset interrupts it (app.c:52, states.c:698).
ShippingHolds ==
    [][(st \in InShipping) =>
           (\/ st' \in InShipping \cup FromOad \cup {"INIT"}
            \/ st' = "CPU_STOP_MODE" /\ ram'.ship)]_vars

\* States a bike may stay in.
Resting == {"STANDBY", "RIDING_MODE", "CHARGING", "LIPOCHARGE", "ASLEEP",
            "SHIPPING_LIPOCHARGE", "ALARM_ACTIVE_M1_CNT", "OAD_UPDATE"}

\* Places the machine does not leave: CPU_STOP_MODE once a command left slot
\* 0x25 held; the two sound states, which save the state they return to in
\* one byte, once they return to themselves; a failed update after OAD_FINISH
\* was left.
Stuck == \/ st = "CPU_STOP_MODE" /\ "t25" \in held
         \/ st = "CPU_STOPPED" /\ "t25" \notin held
         \/ st = "SOUND" /\ "t0A" \notin held
         \/ st = "OAD_RX_SOUND" /\ back = st
         \/ st = "OAD_FAILED" /\ "t37" \in held

\* Everything else the bike does comes to an end: whatever commands, presses
\* and resets came between, playing, locking, unlocking, the code, the alarm
\* and shipping lead to a state the bike may rest in (states.c:195).
Settles == []<>(st \in Resting \/ Stuck)

\* "commit the 'unlocked' state to the EEPROM state record": once an unlock
\* is shown, a reset finds the bike unlocked (states.c:2771).
UnlockIsSaved == st = "LOCK_PLAY_START" =>
                     ~rec.remote /\ ~rec.kick /\ rec.alarm = Unlocked
-----------------------------------------------------------------------------
(* What TLC checks: a bike that has a kick lock and one that has none; it  *)
(* starts unlocked, locked with the alarm sounding, or as shipped.         *)

Common == [lock |-> FALSE, charger |-> FALSE, plug |-> FALSE, cart |-> TRUE,
           flat |-> FALSE, coil |-> TRUE, code |-> TRUE, alarm |-> TRUE]
MCBikes == {Common, [Common EXCEPT !.coil = FALSE, !.code = FALSE]}

Open == [alarm |-> Unlocked, remote |-> FALSE, kick |-> FALSE,
         ship |-> FALSE, armed |-> FALSE]
MCRecords == {Open, [Open EXCEPT !.ship = TRUE],
              [Open EXCEPT !.alarm = 2, !.kick = TRUE]}
=============================================================================
