----------------------------- MODULE BikeProofs -----------------------------
(***************************************************************************)
(* Proofs about the state machine of the bike, for every set of bikes, of  *)
(* saved records and of events: a bike that sleeps has saved its record,   *)
(* and a bike that is shipped goes to sleep as shipped.                    *)
(***************************************************************************)
EXTENDS BikeStates, TLAPS

-----------------------------------------------------------------------------
(* The inductive invariant                                                  *)

\* A sound and a file transfer return to the state they found.
Returning == {"SOUND", "OAD_FILE_TRF", "OAD_RX_SOUND"}
Stopping == {"CPU_STOPPED", "ASLEEP"}
Special == Returning \cup Stopping \cup {"SET_SHIPPING"}

Leads(s) == st = s \/ (st \in Returning /\ back = s)

\* The record is saved from the stop on, also while a sound plays that found
\* the bike stopping.
StopIsSaved == \A s \in Stopping : Leads(s) => rec = ram

\* It says so by then that the bike is shipped.
ShipIsNoted == Leads("SET_SHIPPING") => ram.ship

\* There is a state to return to.
BackIsKnown == st \in Returning => back \in States

Inv == TypeOK /\ StopIsSaved /\ ShipIsNoted /\ BackIsKnown

LEMMA Elsewhere ==
  ASSUME st' \notin Special
  PROVE  StopIsSaved' /\ ShipIsNoted' /\ BackIsKnown'
  BY DEF StopIsSaved, ShipIsNoted, BackIsKnown, Leads, Special, Returning

LEMMA SameLead ==
  ASSUME Inv, UNCHANGED mem,
         \A s \in Stopping \cup {"SET_SHIPPING"} : Leads(s)' => Leads(s),
         st' \in Returning => back' \in States
  PROVE  StopIsSaved' /\ ShipIsNoted' /\ BackIsKnown'
  BY DEF Inv, StopIsSaved, ShipIsNoted, BackIsKnown, mem

-----------------------------------------------------------------------------
(* The steps of the state machine, by the part of the state they write      *)

AlarmPass == PreM1 \/ M1Count \/ M2 \/ Tracking \/ BmsRemoved
ShippingPass == SetShipping \/ Shipping \/ AccidentalWake \/ ShippingLipo
                \/ StartFromShipping \/ PlayFire \/ LipoCharge
RidePass == Riding \/ InitState \/ Standby \/ Charging
SleepPass == StopMode \/ Stopped \/ ShowLock \/ AutoWakeUp \/ CartridgeRemoved
UpdatePass == Diagnose \/ Orchestrated \/ FileTransfer \/ Failed \/ RxSound \/ Finish
ShutPass == PlayShutdown \/ PlayLock \/ ShutdownReady \/ AlarmDelay \/ TurnOn \/ LowSoc
PinPass == PinStart \/ PinDigit \/ PinShown
UnlockPass == Unlock \/ AlreadyUnlocked \/ UnlockCount \/ UnlockShown
              \/ DimOff \/ LockClear \/ SoundEnd

LEMMA EnvPass ==
  ASSUME Pass
  PROVE  Quiet \/ Press
<1>1. CASE AlarmPass
  BY <1>1 DEF AlarmPass, PreM1, M1Count, M2, Tracking, BmsRemoved, Quiet,
     Press, Event, env
<1>2. CASE ShippingPass
  BY <1>2 DEF ShippingPass, SetShipping, Shipping, AccidentalWake,
     ShippingLipo, StartFromShipping, PlayFire, LipoCharge, Then, Boot, Quiet,
     Press, Event, env
<1>3. CASE RidePass
  BY <1>3 DEF RidePass, Riding, RidingEnds, InitState, Standby, StandbyEnds,
     Charging, ChargingEnds, LockedStep, Sleeps, LipoDecides, Quiet, Press, Event, env
<1>4. CASE SleepPass
  BY <1>4 DEF SleepPass, StopMode, Stopped, ShowLock, AutoWakeUp,
     CartridgeRemoved, Then, Boot, Quiet, Press, Event, env
<1>5. CASE UpdatePass
  BY <1>5 DEF UpdatePass, Diagnose, Orchestrated, FileTransfer, Failed,
     RxSound, Finish, Then, Boot, Quiet, Press, Event, env
<1>6. CASE ShutPass
  BY <1>6 DEF ShutPass, PlayShutdown, PlayLock, ShutdownReady, AlarmDelay,
     TurnOn, LowSoc, Then, LockShutdown, Quiet, Press, Event, env
<1>7. CASE PinPass
  BY <1>7 DEF PinPass, PinStart, PinDigit, PinShown, Then, Quiet, Press,
     Event, env
<1>8. CASE UnlockPass
  BY <1>8 DEF UnlockPass, Unlock, AlreadyUnlocked, UnlockCount, UnlockShown,
     DimOff, LockClear, SoundEnd, Then, Persist, Quiet, Press, Event, env
<1>9. QED
  BY <1>1, <1>2, <1>3, <1>4, <1>5, <1>6, <1>7, <1>8, Zenon DEF Pass,
     AlarmPass, ShippingPass, RidePass, SleepPass, UpdatePass, ShutPass,
     PinPass, UnlockPass

LEMMA NotesPass ==
  ASSUME back \in States \cup {"unset"}, Pass
  PROVE  back' \in {back, "unset"} /\ warned' \in {warned, TRUE, FALSE}
<1>1. CASE AlarmPass
  BY <1>1 DEF AlarmPass, PreM1, M1Count, M2, Tracking, BmsRemoved, misc
<1>2. CASE ShippingPass
  BY <1>2 DEF ShippingPass, SetShipping, Shipping, AccidentalWake,
     ShippingLipo, StartFromShipping, PlayFire, LipoCharge, Then, Boot, misc
<1>3. CASE RidePass
  BY <1>3 DEF RidePass, Riding, RidingEnds, InitState, Standby, StandbyEnds,
     Charging, ChargingEnds, LockedStep, Sleeps, LipoDecides, misc
<1>4. CASE SleepPass
  BY <1>4 DEF SleepPass, StopMode, Stopped, ShowLock, AutoWakeUp,
     CartridgeRemoved, Then, Boot, misc
<1>5. CASE UpdatePass
  BY <1>5 DEF UpdatePass, Diagnose, Orchestrated, FileTransfer, Failed,
     RxSound, Finish, Then, Boot, misc
<1>6. CASE ShutPass
  BY <1>6 DEF ShutPass, PlayShutdown, PlayLock, ShutdownReady, AlarmDelay,
     TurnOn, LowSoc, Then, LockShutdown, misc
<1>7. CASE PinPass
  BY <1>7 DEF PinPass, PinStart, PinDigit, PinShown, Then, misc
<1>8. CASE UnlockPass
  BY <1>8 DEF UnlockPass, Unlock, AlreadyUnlocked, UnlockCount, UnlockShown,
     DimOff, LockClear, SoundEnd, Then, Persist, misc
<1>9. QED
  BY <1>1, <1>2, <1>3, <1>4, <1>5, <1>6, <1>7, <1>8, Zenon DEF Pass,
     AlarmPass, ShippingPass, RidePass, SleepPass, UpdatePass, ShutPass,
     PinPass, UnlockPass

LEMMA TimesPass ==
  ASSUME tries \in 0 .. 4, wake \in {0, 1, 5, 7, 10}, Pass
  PROVE  tries' \in 0 .. 4 /\ wake' \in {0, 1, 5, 7, 10}
<1>1. CASE AlarmPass
  BY <1>1 DEF AlarmPass, PreM1, M1Count, M2, Tracking, BmsRemoved, misc
<1>2. CASE ShippingPass
  BY <1>2 DEF ShippingPass, SetShipping, Shipping, AccidentalWake,
     ShippingLipo, StartFromShipping, PlayFire, LipoCharge, Then, Boot, misc
<1>3. CASE RidePass
  BY <1>3 DEF RidePass, Riding, RidingEnds, InitState, Standby, StandbyEnds,
     Charging, ChargingEnds, LockedStep, Sleeps, LipoDecides, misc
<1>4. CASE SleepPass
  BY <1>4 DEF SleepPass, StopMode, Stopped, ShowLock, AutoWakeUp,
     CartridgeRemoved, Then, Boot, misc
<1>5. CASE UpdatePass
  BY <1>5 DEF UpdatePass, Diagnose, Orchestrated, FileTransfer, Failed,
     RxSound, Finish, Then, Boot, misc
<1>6. CASE ShutPass
  BY <1>6 DEF ShutPass, PlayShutdown, PlayLock, ShutdownReady, AlarmDelay,
     TurnOn, LowSoc, Then, LockShutdown, misc
<1>7. CASE PinPass
  BY <1>7 DEF PinPass, PinStart, PinDigit, PinShown, Then, misc
<1>8. CASE UnlockPass
  BY <1>8 DEF UnlockPass, Unlock, AlreadyUnlocked, UnlockCount, UnlockShown,
     DimOff, LockClear, SoundEnd, Then, Persist, misc
<1>9. QED
  BY <1>1, <1>2, <1>3, <1>4, <1>5, <1>6, <1>7, <1>8, Zenon DEF Pass,
     AlarmPass, ShippingPass, RidePass, SleepPass, UpdatePass, ShutPass,
     PinPass, UnlockPass

LEMMA HeldPass ==
  ASSUME held \subseteq Slots, Pass
  PROVE  held' \subseteq Slots
<1>1. CASE AlarmPass
  BY <1>1 DEF AlarmPass, PreM1, M1Count, M2, Tracking, BmsRemoved, Slots
<1>2. CASE ShippingPass
  BY <1>2 DEF ShippingPass, SetShipping, Shipping, AccidentalWake,
     ShippingLipo, StartFromShipping, PlayFire, LipoCharge, Then, Boot, Slots
<1>3. CASE RidePass
  BY <1>3 DEF RidePass, Riding, RidingEnds, InitState, Standby, StandbyEnds,
     Charging, ChargingEnds, LockedStep, Sleeps, LipoDecides, Slots
<1>4. CASE SleepPass
  BY <1>4 DEF SleepPass, StopMode, Stopped, ShowLock, AutoWakeUp,
     CartridgeRemoved, Then, Boot, Slots
<1>5. CASE UpdatePass
  BY <1>5 DEF UpdatePass, Diagnose, Orchestrated, FileTransfer, Failed,
     RxSound, Finish, Then, Boot, Slots
<1>6. CASE ShutPass
  BY <1>6 DEF ShutPass, PlayShutdown, PlayLock, ShutdownReady, AlarmDelay,
     TurnOn, LowSoc, Then, LockShutdown, Slots
<1>7. CASE PinPass
  BY <1>7 DEF PinPass, PinStart, PinDigit, PinShown, Then, Slots
<1>8. CASE UnlockPass
  BY <1>8 DEF UnlockPass, Unlock, AlreadyUnlocked, UnlockCount, UnlockShown,
     DimOff, LockClear, SoundEnd, Then, Persist, Slots
<1>9. QED
  BY <1>1, <1>2, <1>3, <1>4, <1>5, <1>6, <1>7, <1>8, Zenon DEF Pass,
     AlarmPass, ShippingPass, RidePass, SleepPass, UpdatePass, ShutPass,
     PinPass, UnlockPass

LEMMA MemPass ==
  ASSUME ram \in Record, rec \in Record, pins \in Pins, Pass
  PROVE  ram' \in Record /\ rec' \in Record
<1>1. CASE AlarmPass
  BY <1>1 DEF AlarmPass, PreM1, M1Count, M2, Tracking, BmsRemoved, Saved,
     Record, Pins, IsLocked, Unlocked, mem
<1>2. CASE ShippingPass
  BY <1>2 DEF ShippingPass, SetShipping, Shipping, AccidentalWake,
     ShippingLipo, StartFromShipping, PlayFire, LipoCharge, Then, Boot, Saved,
     Record, Pins, IsLocked, Unlocked, mem
<1>3. CASE RidePass
  BY <1>3 DEF RidePass, Riding, RidingEnds, InitState, Standby, StandbyEnds,
     Charging, ChargingEnds, LockedStep, Sleeps, LipoDecides, Record, Pins, IsLocked, Unlocked, mem
<1>4. CASE SleepPass
  BY <1>4 DEF SleepPass, StopMode, Stopped, ShowLock, AutoWakeUp,
     CartridgeRemoved, Then, Boot, Saved, Record, Pins, IsLocked, Unlocked, mem
<1>5. CASE UpdatePass
  BY <1>5 DEF UpdatePass, Diagnose, Orchestrated, FileTransfer, Failed,
     RxSound, Finish, Then, Boot, Saved, Record, Pins, IsLocked, Unlocked, mem
<1>6. CASE ShutPass
  BY <1>6 DEF ShutPass, PlayShutdown, PlayLock, ShutdownReady, AlarmDelay,
     TurnOn, LowSoc, Then, LockShutdown, Saved, Record, Pins, IsLocked,
     Unlocked, mem
<1>7. CASE PinPass
  BY <1>7 DEF PinPass, PinStart, PinDigit, PinShown, Then, Record, Pins,
     IsLocked, Unlocked, mem
<1>8. CASE UnlockPass
  BY <1>8 DEF UnlockPass, Unlock, AlreadyUnlocked, UnlockCount, UnlockShown,
     DimOff, LockClear, SoundEnd, Then, Persist, Saved, UnlockedRecord, Record,
     Pins, IsLocked, Unlocked, mem
<1>9. QED
  BY <1>1, <1>2, <1>3, <1>4, <1>5, <1>6, <1>7, <1>8, Zenon DEF Pass,
     AlarmPass, ShippingPass, RidePass, SleepPass, UpdatePass, ShutPass,
     PinPass, UnlockPass

LEMMA PlacePass ==
  ASSUME st \in States, ram \in Record, Pass
  PROVE  \/ st' \in States \ Special
         \/ Shipping \/ StopMode \/ Stopped \/ RxSound \/ SoundEnd
<1>1. CASE AlarmPass
  BY <1>1 DEF AlarmPass, PreM1, M1Count, M2, Tracking, BmsRemoved, AskCode,
     Alarms, States, Record, Unlocked, Special, Returning, Stopping
<1>2. CASE ShippingPass
  BY <1>2 DEF ShippingPass, SetShipping, AccidentalWake, ShippingLipo,
     StartFromShipping, PlayFire, LipoCharge, Then, Boot, AskCode, States,
     Record, Unlocked, Special, Returning, Stopping, Alarms
<1>3. CASE RidePass
  BY <1>3 DEF RidePass, Riding, RidingEnds, InitState, Standby, StandbyEnds,
     Charging, ChargingEnds, Set, LockedStep, Sleeps, LipoDecides, AskCode, Alarms, States, Record,
     Unlocked, Special, Returning, Stopping
<1>4. CASE SleepPass
  BY <1>4 DEF SleepPass, ShowLock, AutoWakeUp, CartridgeRemoved, Then, Boot,
     AskCode, States, Record, Unlocked, Special, Returning, Stopping, Alarms
<1>5. CASE UpdatePass
  BY <1>5 DEF UpdatePass, Diagnose, Orchestrated, FileTransfer, Failed,
     Finish, Then, Boot, States, Record, Unlocked, Special, Returning,
     Stopping, Alarms
<1>6. CASE ShutPass
  BY <1>6 DEF ShutPass, PlayShutdown, PlayLock, ShutdownReady, AlarmDelay,
     TurnOn, LowSoc, Then, LockShutdown, States, Record, Unlocked, Special,
     Returning, Stopping, Alarms
<1>7. CASE PinPass
  BY <1>7 DEF PinPass, PinStart, PinDigit, PinShown, Then, States, Record,
     Unlocked, Special, Returning, Stopping, Alarms
<1>8. CASE UnlockPass
  BY <1>8 DEF UnlockPass, Unlock, AlreadyUnlocked, UnlockCount, UnlockShown,
     DimOff, LockClear, Then, Persist, AlarmOr, Alarms, States, Record,
     Unlocked, Special, Returning, Stopping
<1>9. QED
  BY <1>1, <1>2, <1>3, <1>4, <1>5, <1>6, <1>7, <1>8, Zenon DEF Pass,
     AlarmPass, ShippingPass, RidePass, SleepPass, UpdatePass, ShutPass,
     PinPass, UnlockPass

LEMMA ShippingLeft ==
  ASSUME st \in InShipping, Pass
  PROVE  SetShipping \/ Shipping
<1>1. CASE AlarmPass
  BY <1>1 DEF AlarmPass, PreM1, M1Count, M2, Tracking, BmsRemoved,
     InShipping, Alarms
<1>2. CASE ShippingPass
  BY <1>2 DEF ShippingPass, AccidentalWake, ShippingLipo, StartFromShipping,
     PlayFire, LipoCharge, Then, InShipping, Alarms
<1>3. CASE RidePass
  BY <1>3 DEF RidePass, Riding, RidingEnds, InitState, Standby, StandbyEnds,
     Charging, ChargingEnds, InShipping, Alarms
<1>4. CASE SleepPass
  BY <1>4 DEF SleepPass, StopMode, Stopped, ShowLock, AutoWakeUp,
     CartridgeRemoved, Then, InShipping, Alarms
<1>5. CASE UpdatePass
  BY <1>5 DEF UpdatePass, Diagnose, Orchestrated, FileTransfer, Failed,
     RxSound, Finish, Then, InShipping, Alarms
<1>6. CASE ShutPass
  BY <1>6 DEF ShutPass, PlayShutdown, PlayLock, ShutdownReady, AlarmDelay,
     TurnOn, LowSoc, Then, LockShutdown, InShipping, Alarms
<1>7. CASE PinPass
  BY <1>7 DEF PinPass, PinStart, PinDigit, PinShown, Then, InShipping,
     Alarms
<1>8. CASE UnlockPass
  BY <1>8 DEF UnlockPass, Unlock, AlreadyUnlocked, UnlockCount, UnlockShown,
     DimOff, LockClear, SoundEnd, Then, InShipping, Alarms
<1>9. QED
  BY <1>1, <1>2, <1>3, <1>4, <1>5, <1>6, <1>7, <1>8, Zenon DEF Pass,
     AlarmPass, ShippingPass, RidePass, SleepPass, UpdatePass, ShutPass,
     PinPass, UnlockPass

LEMMA TypedParts ==
  ASSUME st' \in States, back' \in States \cup {"unset"}, held' \subseteq Slots,
         ram' \in Record, rec' \in Record, tries' \in 0 .. 4,
         warned' \in BOOLEAN, wake' \in {0, 1, 5, 7, 10},
         pins' \in Pins, events' \in 0 .. MaxEvents
  PROVE  TypeOK'
  BY Zenon DEF TypeOK

LEMMA EnvTyped ==
  ASSUME BikeAssumption, TypeOK, Quiet \/ Press
  PROVE  pins' \in Pins /\ events' \in 0 .. MaxEvents
  BY DEF BikeAssumption, TypeOK, Quiet, Press, Event, env

LEMMA PassKeeps ==
  ASSUME BikeAssumption, Inv, Pass
  PROVE  Inv'
<1>1. /\ st \in States /\ back \in States \cup {"unset"} /\ held \subseteq Slots
      /\ ram \in Record /\ rec \in Record /\ tries \in 0 .. 4
      /\ wake \in {0, 1, 5, 7, 10} /\ pins \in Pins
  BY Zenon DEF Inv, TypeOK
<1>2. warned \in BOOLEAN
  BY Zenon DEF Inv, TypeOK
<1>3. /\ back' \in {back, "unset"} /\ warned' \in {warned, TRUE, FALSE}
      /\ tries' \in 0 .. 4 /\ wake' \in {0, 1, 5, 7, 10} /\ held' \subseteq Slots
      /\ ram' \in Record /\ rec' \in Record
  BY <1>1, NotesPass, TimesPass, HeldPass, MemPass
<1>4. pins' \in Pins /\ events' \in 0 .. MaxEvents
  BY EnvPass, EnvTyped DEF Inv
<1>5. warned' \in BOOLEAN
  BY <1>2, <1>3, Zenon
<1>6. st' \in States => TypeOK'
  <2>1. back' \in States \cup {"unset"}
    BY <1>1, <1>3
  <2>2. QED
    BY <1>3, <1>4, <1>5, <2>1, TypedParts
<1>7. CASE st' \in States \ Special
  BY <1>6, <1>7, Elsewhere DEF Inv
<1>8. CASE Shipping
  <2>1. st' = "SET_SHIPPING" /\ ram' = [ram EXCEPT !.ship = TRUE]
    BY <1>8 DEF Shipping
  <2>2. StopIsSaved' /\ ShipIsNoted' /\ BackIsKnown'
    BY <1>1, <2>1
    DEF StopIsSaved, ShipIsNoted, BackIsKnown, Leads, Returning, Stopping, Record
  <2>3. QED
    BY <1>6, <2>1, <2>2 DEF Inv, States
<1>9. CASE StopMode
  <2>1. st' = "CPU_STOPPED" /\ rec' = ram'
    BY <1>9 DEF StopMode, Saved
  <2>2. StopIsSaved' /\ ShipIsNoted' /\ BackIsKnown'
    BY <2>1 DEF StopIsSaved, ShipIsNoted, BackIsKnown, Leads, Returning, Stopping
  <2>3. QED
    BY <1>6, <2>1, <2>2 DEF Inv, States
<1>10. CASE Stopped
  <2>1. st = "CPU_STOPPED" /\ (st' = "INIT" \/ (st' = "ASLEEP" /\ UNCHANGED mem))
    BY <1>10 DEF Stopped, Boot
  <2>2. rec = ram
    BY <2>1 DEF Inv, StopIsSaved, Leads, Stopping
  <2>3. StopIsSaved' /\ ShipIsNoted' /\ BackIsKnown'
    BY <2>1, <2>2
    DEF StopIsSaved, ShipIsNoted, BackIsKnown, Leads, Returning, Stopping, mem
  <2>4. QED
    BY <1>6, <2>1, <2>3 DEF Inv, States
<1>11. CASE RxSound \/ SoundEnd
  <2>1. st \in Returning /\ st' = back /\ UNCHANGED <<mem, back>>
    BY <1>11 DEF RxSound, SoundEnd, Then, Returning, misc
  <2>2. back \in States
    BY <2>1 DEF Inv, BackIsKnown
  <2>3. \A s : Leads(s)' => Leads(s)
    BY <2>1 DEF Leads
  <2>4. StopIsSaved' /\ ShipIsNoted' /\ BackIsKnown'
    BY <2>1, <2>2, <2>3, SameLead
  <2>5. QED
    BY <1>6, <2>1, <2>2, <2>4 DEF Inv
<1>12. QED
  BY <1>1, <1>7, <1>8, <1>9, <1>10, <1>11, PlacePass

-----------------------------------------------------------------------------
(* The commands                                                             *)

Ordered == \/ Connected \/ LockCommand \/ AlarmCommand \/ ModuleCommand
           \/ DiagnoseCommand \/ ShippingCommand \/ TrackingOn \/ TrackingOff

\* A command sets the state, but not of a bike that is being shipped; it
\* leaves the shipping mark alone.
LEMMA OrderedMoves ==
  ASSUME ram \in Record, rec \in Record, Ordered
  PROVE  /\ ram' \in Record /\ rec' \in Record /\ ram'.ship = ram.ship
         /\ UNCHANGED <<held, misc>>
  BY DEF Ordered, Connected, LockCommand, AlarmCommand, ModuleCommand, DiagnoseCommand,
         ShippingCommand, TrackingOn, TrackingOff, Saved, Record, Unlocked, mem

LEMMA OrderedPlaces ==
  ASSUME Ordered
  PROVE  IF st \in InShipping THEN st' = st ELSE st' \in States \ Special
  BY DEF Ordered, Connected, LockCommand, AlarmCommand, ModuleCommand, DiagnoseCommand,
         ShippingCommand, TrackingOn, TrackingOff, Set, InShipping, States, Alarms,
         Special, Returning, Stopping

LEMMA CommandKeeps ==
  ASSUME BikeAssumption, Inv, Command
  PROVE  Inv'
<1>1. /\ st \in States /\ back \in States \cup {"unset"} /\ held \subseteq Slots
      /\ ram \in Record /\ rec \in Record /\ tries \in 0 .. 4
      /\ wake \in {0, 1, 5, 7, 10} /\ pins \in Pins
  BY Zenon DEF Inv, TypeOK
<1>2. warned \in BOOLEAN
  BY Zenon DEF Inv, TypeOK
<1>3. pins' \in Pins /\ events' \in 0 .. MaxEvents
  <2>1. Press
    BY Zenon DEF Command
  <2>2. QED
    BY <2>1, EnvTyped DEF Inv
<1>4. CASE Ordered
  <2>1. ram' \in Record /\ rec' \in Record /\ ram'.ship = ram.ship /\ UNCHANGED <<held, misc>>
    BY <1>1, <1>4, OrderedMoves
  <2>2. IF st \in InShipping THEN st' = st ELSE st' \in States \ Special
    BY <1>4, OrderedPlaces
  <2>3. /\ back' \in States \cup {"unset"} /\ held' \subseteq Slots /\ tries' \in 0 .. 4
        /\ wake' \in {0, 1, 5, 7, 10}
    BY <1>1, <2>1 DEF misc
  <2>4. warned' \in BOOLEAN
    BY <1>2, <2>1, Zenon DEF misc
  <2>5. TypeOK'
    <3>1. st' \in States
      BY <1>1, <2>2
    <3>2. QED
      BY <1>3, <2>1, <2>3, <2>4, <3>1, TypedParts
  <2>6. StopIsSaved' /\ ShipIsNoted' /\ BackIsKnown'
    <3>1. CASE st \in InShipping
      BY <2>1, <2>2, <3>1
      DEF Inv, StopIsSaved, ShipIsNoted, BackIsKnown, Leads, InShipping, Returning, Stopping
    <3>2. CASE st \notin InShipping
      BY <2>2, <3>2, Elsewhere
    <3>3. QED
      BY <3>1, <3>2
  <2>7. QED
    BY <2>5, <2>6 DEF Inv
<1>5. CASE Sound
  <2>1. /\ UNCHANGED <<mem, tries, warned, wake>> /\ held' \subseteq Slots
        /\ \/ UNCHANGED <<st, back>>
           \/ back' = st /\ st' \in {st, "SOUND"}
    BY <1>1, <1>5 DEF Sound, Set, Slots
  <2>2. /\ \A s \in Stopping \cup {"SET_SHIPPING"} : Leads(s)' => Leads(s)
        /\ st' \in Returning => back' \in States
    BY <1>1, <2>1 DEF Leads, Inv, BackIsKnown, Stopping
  <2>3. StopIsSaved' /\ ShipIsNoted' /\ BackIsKnown'
    BY <2>1, <2>2, SameLead
  <2>4. TypeOK'
    <3>1. /\ st' \in States /\ back' \in States \cup {"unset"} /\ ram' \in Record
          /\ rec' \in Record /\ tries' \in 0 .. 4 /\ wake' \in {0, 1, 5, 7, 10}
      BY <1>1, <2>1 DEF States, mem
    <3>2. warned' \in BOOLEAN
      BY <1>2, <2>1, Zenon
    <3>3. QED
      BY <1>3, <2>1, <3>1, <3>2, TypedParts
  <2>5. QED
    BY <2>3, <2>4 DEF Inv
<1>6. CASE OadStatus
  <2>1. /\ UNCHANGED <<held, mem, tries, warned, wake>>
        /\ \/ st' = "OAD_FILE_TRF" /\ back' = st
           \/ st' \in {"OAD_UPDATE", "OAD_FAILED"} /\ UNCHANGED back
           \/ st = "OAD_FILE_TRF" /\ st' = "OAD_RX_SOUND" /\ UNCHANGED back
    BY <1>6 DEF OadStatus
  <2>2. TypeOK'
    <3>1. /\ st' \in States /\ back' \in States \cup {"unset"} /\ held' \subseteq Slots
          /\ ram' \in Record /\ rec' \in Record /\ tries' \in 0 .. 4
          /\ wake' \in {0, 1, 5, 7, 10}
      BY <1>1, <2>1 DEF States, mem
    <3>2. warned' \in BOOLEAN
      BY <1>2, <2>1, Zenon
    <3>3. QED
      BY <1>3, <3>1, <3>2, TypedParts
  <2>3. CASE st' \in {"OAD_UPDATE", "OAD_FAILED"}
    BY <2>2, <2>3, Elsewhere DEF Inv, Special, Returning, Stopping
  <2>4. CASE st' \notin {"OAD_UPDATE", "OAD_FAILED"}
    <3>1. /\ \A s \in Stopping \cup {"SET_SHIPPING"} : Leads(s)' => Leads(s)
          /\ st' \in Returning => back' \in States
      BY <1>1, <2>1, <2>4 DEF Leads, Inv, BackIsKnown, Stopping, Returning
    <3>2. QED
      BY <2>1, <2>2, <3>1, SameLead DEF Inv
  <2>5. QED
    BY <2>3, <2>4
<1>7. QED
  BY <1>4, <1>5, <1>6, Zenon DEF Command, Ordered

-----------------------------------------------------------------------------
(* Resets and pins                                                          *)

LEMMA BootKeeps ==
  ASSUME BikeAssumption, Inv, Wake \/ Crash \/ RebootCallback
  PROVE  Inv'
<1>1. PICK w \in {0, 1, 5, 7, 10} : Boot(w) /\ (Quiet \/ Press)
  BY Zenon DEF Wake, Crash, RebootCallback
<1>2. /\ st' = "INIT" /\ back' = "unset" /\ held' = {} /\ ram' = rec /\ rec' = rec
      /\ tries' = 0 /\ wake' = w
  BY <1>1 DEF Boot
<1>3. warned' \in BOOLEAN
  BY <1>1, Zenon DEF Boot
<1>4. pins' \in Pins /\ events' \in 0 .. MaxEvents
  BY <1>1, EnvTyped DEF Inv
<1>5. TypeOK'
  <2>1. /\ st' \in States /\ back' \in States \cup {"unset"} /\ held' \subseteq Slots
        /\ ram' \in Record /\ rec' \in Record /\ tries' \in 0 .. 4
        /\ wake' \in {0, 1, 5, 7, 10}
    BY <1>1, <1>2 DEF Inv, TypeOK, States
  <2>2. QED
    BY <1>3, <1>4, <2>1, TypedParts
<1>6. st' \notin Special
  BY <1>2 DEF Special, Returning, Stopping
<1>7. QED
  BY <1>5, <1>6, Elsewhere DEF Inv

LEMMA PinKeeps ==
  ASSUME BikeAssumption, Inv, PinChange
  PROVE  Inv'
<1>1. UNCHANGED <<st, back, held, ram, rec, tries, warned, wake>>
  BY DEF PinChange, mem, misc
<1>2. pins' \in Pins
  BY DEF PinChange, Inv, TypeOK, Pins
<1>3. events' \in 0 .. MaxEvents
  BY DEF PinChange, Event, Inv, TypeOK, BikeAssumption
<1>4. TypeOK'
  BY <1>1, <1>2, <1>3, Zenon DEF Inv, TypeOK
<1>5. StopIsSaved' /\ ShipIsNoted' /\ BackIsKnown'
  BY <1>1 DEF Inv, StopIsSaved, ShipIsNoted, BackIsKnown, Leads
<1>6. QED
  BY <1>4, <1>5 DEF Inv

LEMMA InitInv == ASSUME BikeAssumption PROVE Init => Inv
<1> SUFFICES ASSUME Init
             PROVE  Inv
  OBVIOUS
<1>1. /\ st \in States /\ back \in States \cup {"unset"} /\ held \subseteq Slots
      /\ ram \in Record /\ rec \in Record /\ tries \in 0 .. 4
      /\ wake \in {0, 1, 5, 7, 10} /\ pins \in Pins /\ events \in 0 .. MaxEvents
  BY DEF BikeAssumption, Init, States
<1>2. warned \in BOOLEAN
  BY Zenon DEF Init
<1>3. TypeOK
  BY <1>1, <1>2, Zenon DEF TypeOK
<1>4. StopIsSaved /\ ShipIsNoted /\ BackIsKnown
  BY DEF Init, StopIsSaved, ShipIsNoted, BackIsKnown, Leads, Returning, Stopping
<1>5. QED
  BY <1>3, <1>4 DEF Inv

LEMMA NextInv == ASSUME BikeAssumption, Inv, [Next]_vars PROVE Inv'
<1>1. CASE Pass
  BY <1>1, PassKeeps
<1>2. CASE Command
  BY <1>2, CommandKeeps
<1>3. CASE PinChange
  BY <1>3, PinKeeps
<1>4. CASE Wake \/ Crash \/ RebootCallback
  BY <1>4, BootKeeps
<1>5. CASE UNCHANGED vars
  <2>1. UNCHANGED <<st, back, held, ram, rec, tries, warned, wake, pins, events>>
    BY <1>5 DEF vars, mem, misc, env
  <2>2. TypeOK'
    BY <2>1, Zenon DEF Inv, TypeOK
  <2>3. StopIsSaved' /\ ShipIsNoted' /\ BackIsKnown'
    BY <2>1 DEF Inv, StopIsSaved, ShipIsNoted, BackIsKnown, Leads
  <2>4. QED
    BY <2>2, <2>3 DEF Inv
<1>6. QED
  BY <1>1, <1>2, <1>3, <1>4, <1>5, Zenon DEF Next

\* The state, the record and what is held keep their types, whatever the
\* states and commands (states.c:195-2900).
THEOREM BikeTyped == Spec => []TypeOK
<1>1. Init => Inv
  BY BikeAssumption, InitInv
<1>2. Inv /\ [Next]_vars => Inv'
  BY BikeAssumption, NextInv
<1>3. Inv => TypeOK
  BY DEF Inv
<1>4. QED
  BY <1>1, <1>2, <1>3, PTL DEF Spec

\* Asleep, the saved record is the record: no command that came while the
\* bike was stopping, nor a sound that returned to the stop, is lost by the
\* reset that ends the sleep (states.c:1499, states.c:1560).
THEOREM SleepSaved == Spec => []SleepIsSaved
<1>1. Init => Inv
  BY BikeAssumption, InitInv
<1>2. Inv /\ [Next]_vars => Inv'
  BY BikeAssumption, NextInv
<1>3. Inv => SleepIsSaved
  BY DEF Inv, StopIsSaved, Leads, Stopping, SleepIsSaved
<1>4. QED
  BY <1>1, <1>2, <1>3, PTL DEF Spec

\* Nothing but the OAD and a reset interrupts shipping, and it ends in a
\* sleep that remembers it (app.c:52, states.c:698).
THEOREM ShippingKept == Spec => ShippingHolds
<1> DEFINE Held == (st \in InShipping) =>
                     (\/ st' \in InShipping \cup FromOad \cup {"INIT"}
                      \/ st' = "CPU_STOP_MODE" /\ ram'.ship)
<1>1. Init => Inv
  BY BikeAssumption, InitInv
<1>2. Inv /\ [Next]_vars => Inv'
  BY BikeAssumption, NextInv
<1>3. Inv /\ [Next]_vars => [Held]_vars
  <2> SUFFICES ASSUME Inv, Next, st \in InShipping
               PROVE  \/ st' \in InShipping \cup FromOad \cup {"INIT"}
                      \/ st' = "CPU_STOP_MODE" /\ ram'.ship
    OBVIOUS
  <2>1. CASE Pass
    <3>1. SetShipping \/ Shipping
      BY <2>1, ShippingLeft
    <3>2. CASE SetShipping
      <4>1. st = "SET_SHIPPING" /\ st' = "CPU_STOP_MODE" /\ ram' = ram
        BY <3>2 DEF SetShipping, Then, mem
      <4>2. ram.ship
        BY <4>1 DEF Inv, ShipIsNoted, Leads
      <4>3. QED
        BY <4>1, <4>2
    <3>3. CASE Shipping
      BY <3>3 DEF Shipping, InShipping
    <3>4. QED
      BY <3>1, <3>2, <3>3
  <2>2. CASE Command
    <3>1. CASE Ordered
      BY <3>1, OrderedPlaces
    <3>2. CASE Sound
      BY <3>2 DEF Sound, Set, InShipping
    <3>3. CASE OadStatus
      BY <3>3 DEF OadStatus, FromOad
    <3>4. QED
      BY <2>2, <3>1, <3>2, <3>3, Zenon DEF Command, Ordered
  <2>3. CASE PinChange
    BY <2>3 DEF PinChange
  <2>4. CASE Wake \/ Crash \/ RebootCallback
    BY <2>4 DEF Wake, Crash, RebootCallback, Boot
  <2>5. QED
    BY <2>1, <2>2, <2>3, <2>4, Zenon DEF Next
<1>4. QED
  BY <1>1, <1>2, <1>3, PTL DEF Spec, ShippingHolds
=============================================================================
