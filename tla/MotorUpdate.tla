----------------------------- MODULE MotorUpdate -----------------------------
(***************************************************************************)
(* The motor controller's update and recovery state machine                *)
(* (mainware/src/motor.c, motor_fw_update_fsm_step) inside the main loop   *)
(* that calls it.  From the resting mode 2 it is started by the SSP pump   *)
(* (mode 3: the motor stopped answering; reset it, wait, and reflash it if *)
(* it stays silent) and by an update (mode 4: reflash it).  It drives the  *)
(* motor's reset and boot pins and a download timer shared by all          *)
(* transfers, and while it runs the SSP link to the motor is not served.   *)
(*                                                                         *)
(* One pass of the main loop is the sequence of steps `pc' names.  Between *)
(* any two of them the SysTick interrupt may run, and in it the callbacks  *)
(* of the download timer and of the reboot timer.                          *)
(*                                                                         *)
(* `ota' is the part of the update orchestrator (mainware/src/update.c,    *)
(* states 0xB to 0xD) that starts a reflash and waits for its outcome by   *)
(* looking at the mode once per pass.  The motor may answer or not.        *)
(***************************************************************************)
EXTENDS Integers

CONSTANTS AuxTicks,       \* 1000: after a reset, and again before giving up
          DlTicks,        \* the download timer's settle and transfer times
          CbTicks,        \* 200: how long the motor is held after a download
          ResetTicks,     \* 5000: the reboot timer of bike states 0x1B and 0x1D
          Chunks          \* bound: bytes of a transfer

MotorUpdateAssumption ==
    {AuxTicks, DlTicks, CbTicks, ResetTicks, Chunks} \subseteq Nat \ {0}

NoTimer == -1

Idle(timer) == timer = 0        \* scheduler_slot_is_idle: FALSE for no timer
Start(timer, n) == IF timer = NoTimer THEN timer ELSE n

VARIABLES
    pc,        \* the next step of the pass; "dead" after an assertion
    mode,      \* MOTOR_FSM[1]
    aux,       \* the timer MOTOR_FSM[2]
    dl, dlCb,  \* the timer MOTOR_FSM[0], and whether it has the callback
    orphan,    \* a download timer overwritten with its callback pending
    phase, left,     \* the transfer under way
    flash,     \* F2806_CTX[0x3E]: the bike was put into its update state
    reset, boot,     \* the motor held in reset (PB9), in its boot loader (PB10)
    backlog, recovery,  \* the pump's count above its limit, flag 0x400000
    bike,      \* the bike state
    resetIn, resetCb,   \* the reboot timer, and whether it has the callback
    ota,       \* the orchestrator's motor step
    prompt     \* history: a reflash was requested while the motor was held

timers == <<aux, dl, dlCb, orphan>>
xfer   == <<phase, left>>
pins   == <<reset, boot>>
link   == <<backlog, recovery>>
reboot == <<resetIn, resetCb>>
asked  == <<ota, prompt>>
vars == <<pc, mode, timers, xfer, flash, pins, link, bike, reboot, asked>>

Init ==
    /\ pc = "battery" /\ mode = 2
    /\ aux = NoTimer /\ dl = NoTimer /\ dlCb = FALSE /\ orphan = NoTimer
    /\ phase = "start" /\ left = Chunks
    /\ flash = FALSE /\ reset = FALSE /\ boot = FALSE
    /\ backlog = FALSE /\ recovery = FALSE
    /\ bike = "standby" /\ resetIn = NoTimer /\ resetCb = FALSE
    /\ ota = "idle" /\ prompt = FALSE

\* update_mode_request
Request(m) == mode' = IF mode = 2 THEN m ELSE mode

\* maybe_set_state_if_unlocked
SetBike(s) == bike' = IF bike = "locked" THEN bike ELSE s

----------------------------------------------------------------------------
(* motor_fw_update_fsm_step.  It returns 3 in modes 0 to 2: only then does *)
(* the main loop serve the link.                                           *)

Serves == mode \in 0 .. 2

Calls ==
    /\ \/ pc = "battery" /\ pc' = "motor"
       \/ pc = "motor" /\ pc' = IF Serves THEN "link" ELSE "status"
    /\ UNCHANGED <<link, reboot, asked>>

\* The battery service pulses the motor's reset pin after a call that
\* returned 3.
PinsAfterWait == IF pc = "battery" THEN reset' = FALSE /\ boot' = FALSE ELSE UNCHANGED pins

\* Mode 0: the message it announces the update with is not queued, since
\* maybe_enqueue_tx_message only works in mode 2.
AfterReset ==
    /\ Calls /\ mode = 0 /\ PinsAfterWait
    /\ IF Idle(aux) THEN aux' = AuxTicks /\ mode' = 1 ELSE UNCHANGED <<aux, mode>>
    /\ UNCHANGED <<dl, dlCb, orphan, xfer, flash, bike>>

\* Mode 1: the flag is down if the motor answered meanwhile.
AwaitAnswer ==
    /\ Calls /\ mode = 1 /\ PinsAfterWait
    /\ \/ ~recovery /\ aux' = NoTimer /\ flash' = FALSE /\ mode' = 2 /\ UNCHANGED bike
       \/ recovery /\ ~Idle(aux) /\ UNCHANGED <<aux, flash, mode, bike>>
       \/ /\ recovery /\ Idle(aux)
          /\ aux' = NoTimer /\ flash' = TRUE /\ mode' = 4 /\ SetBike("update")
    /\ UNCHANGED <<dl, dlCb, orphan, xfer>>

Rest ==
    /\ Calls /\ mode = 2 /\ PinsAfterWait
    /\ UNCHANGED <<mode, timers, xfer, flash, bike>>

ResetMotor ==
    /\ Calls /\ mode = 3 /\ mode' = 0
    /\ reset' = FALSE /\ UNCHANGED boot
    /\ aux' = AuxTicks
    /\ UNCHANGED <<dl, dlCb, orphan, xfer, flash, bike>>

\* A new timer is taken whatever MOTOR_FSM[0] holds.
EnterBoot ==
    /\ Calls /\ mode = 4 /\ mode' = 5
    /\ boot' = TRUE /\ reset' = TRUE
    /\ orphan' = IF dl > 0 /\ dlCb THEN dl ELSE orphan
    /\ dl' = DlTicks /\ dlCb' = FALSE
    /\ UNCHANGED <<aux, xfer, flash, bike>>

\* Modes 5 and 8
Settle ==
    /\ Calls /\ mode \in {5, 8}
    /\ IF ~Idle(dl) THEN UNCHANGED <<mode, reset>>
       ELSE /\ mode' = mode + 1
            /\ reset' = IF mode = 5 THEN FALSE ELSE reset
    /\ UNCHANGED <<timers, xfer, flash, boot, bike>>

\* Modes 6 and 9 (motor_dl_autobaud_step), 7 (motor_dl_send_verify_step) and
\* 0xB (motor_dl_stream_block_step) move bytes and answers, each against the
\* download timer; the transfer ends with the last one, the first that does
\* not match and the first that is late.
XferStart ==
    /\ phase = "start"
    /\ phase' = "run" /\ dl' = DlTicks /\ dlCb' = FALSE
    /\ UNCHANGED <<mode, left>>

XferEnd(next) ==
    /\ phase' = "start" /\ left' = Chunks
    /\ mode' = next
    /\ IF mode = 7 THEN dl' = Start(dl, DlTicks) /\ dlCb' = FALSE ELSE UNCHANGED <<dl, dlCb>>

XferRun ==
    /\ phase = "run"
    /\ \/ Idle(dl) /\ XferEnd(13)
       \/ ~Idle(dl) /\ XferEnd(13)
       \/ ~Idle(dl) /\ left = 1 /\ XferEnd(mode + 1)
       \/ /\ ~Idle(dl) /\ left > 1
          /\ phase' = "start" /\ left' = left - 1
          /\ UNCHANGED <<mode, dl, dlCb>>
       \/ ~Idle(dl) /\ UNCHANGED <<phase, left, mode, dl, dlCb>>

Transfer ==
    /\ Calls /\ mode \in {6, 7, 9, 11}
    /\ dl # NoTimer \/ phase = "run"
    /\ XferStart \/ XferRun
    /\ UNCHANGED <<aux, orphan, flash, pins, bike>>

\* The pumps assert that there is a timer when they start.
TransferAssert ==
    /\ pc \in {"battery", "motor"}
    /\ mode \in {6, 7, 9, 11} /\ dl = NoTimer /\ phase = "start"
    /\ pc' = "dead"
    /\ UNCHANGED <<mode, timers, xfer, flash, pins, link, bike, reboot, asked>>

ValidatePack ==
    /\ Calls /\ mode = 10 /\ mode' \in {11, 13}
    /\ UNCHANGED <<timers, xfer, flash, pins, bike>>

\* Modes 0xC and 0xD
Release ==
    /\ dl' = Start(dl, CbTicks) /\ dlCb' = TRUE
    /\ reset' = TRUE /\ boot' = FALSE

Succeed ==
    /\ Calls /\ mode = 12 /\ Release
    /\ mode' = 2
    /\ IF flash THEN SetBike("finished") ELSE UNCHANGED bike
    /\ UNCHANGED <<aux, orphan, xfer, flash>>

Fail ==
    /\ Calls /\ mode = 13 /\ Release
    /\ IF flash THEN UNCHANGED mode /\ SetBike("failed") ELSE mode' = 2 /\ UNCHANGED bike
    /\ UNCHANGED <<aux, orphan, xfer, flash>>

Step == \/ AfterReset \/ AwaitAnswer \/ Rest \/ ResetMotor \/ EnterBoot \/ Settle
        \/ Transfer \/ TransferAssert \/ ValidatePack \/ Succeed \/ Fail

NoExtraCall ==
    /\ pc = "battery" /\ pc' = "motor"
    /\ UNCHANGED <<mode, timers, xfer, flash, pins, link, bike, reboot, asked>>

----------------------------------------------------------------------------
(* The rest of the pass                                                    *)

\* Mutant: the flag stays up.
FrameCounted == backlog' = FALSE /\ UNCHANGED recovery

FrameHeard == backlog' = FALSE /\ recovery' = FALSE

\* sspm_rx_reply_handler and sspm_tx_queue_pump (module Sspm).  The count can
\* pass its limit only in mode 2: in modes 0 and 1 nothing new is queued.
ServeLink ==
    /\ pc = "link" /\ pc' = "status"
    /\ \/ /\ FrameHeard
          /\ UNCHANGED mode
       \/ /\ backlog' \in {backlog, backlog \/ mode = 2}             \* none
          /\ recovery' = (recovery \/ backlog)
          /\ IF backlog /\ bike = "standby" THEN Request(3) ELSE UNCHANGED mode
    /\ UNCHANGED <<timers, xfer, flash, pins, bike, reboot, asked>>

\* status_process in states 0x1B and 0x1D; the two share the reboot timer.
Failed ==
    /\ bike = "failed"
    /\ \/ resetIn = NoTimer /\ resetIn' = ResetTicks /\ resetCb' = TRUE
       \/ resetIn # NoTimer /\ UNCHANGED reboot
    /\ pc' = "ota"

Finished ==
    /\ bike = "finished"
    /\ \/ resetIn = NoTimer /\ resetIn' = ResetTicks /\ resetCb' = FALSE /\ pc' = "ota"
       \/ resetIn # NoTimer /\ pc' = (IF Idle(resetIn) THEN "reboot" ELSE "ota") /\ UNCHANGED reboot

Status ==
    /\ pc = "status"
    /\ Failed \/ Finished \/ (bike \notin {"failed", "finished"} /\ pc' = "ota" /\ UNCHANGED reboot)
    /\ UNCHANGED <<mode, timers, xfer, flash, pins, link, bike, asked>>

\* The phone (ble_ssp_dispatch), text messages and the other state machines
\* change the bike state before the state machine is called.
BikeChange ==
    /\ pc = "battery"
    /\ bike' \in {"standby", "ride", "locked"} \ {bike}
    /\ UNCHANGED <<pc, mode, timers, xfer, flash, pins, link, reboot, asked>>

\* update_mode_request(4), taken or not
RequestReflash ==
    /\ Request(4)
    /\ prompt' = (prompt \/ (mode = 2 /\ (dl # NoTimer \/ orphan # NoTimer)))

\* States 0xB (its gates open or not), 0xC and 0xD
OtaStart == ota = "idle" /\ RequestReflash /\ ota' = "confirm"

OtaConfirm ==
    /\ ota = "confirm"
    /\ ota' = IF mode = 12 THEN "ok" ELSE IF mode = 13 THEN "error" ELSE ota
    /\ UNCHANGED <<mode, prompt>>

OtaNext == ota \in {"ok", "error"} /\ ota' = "idle" /\ UNCHANGED <<mode, prompt>>

Ota ==
    /\ pc = "ota" /\ pc' = "battery"
    /\ OtaStart \/ OtaConfirm \/ OtaNext \/ (ota = "idle" /\ UNCHANGED <<asked, mode>>)
    /\ UNCHANGED <<timers, xfer, flash, pins, link, bike, reboot>>

\* console_start_motor_update
Console ==
    /\ pc = "status" /\ RequestReflash
    /\ UNCHANGED <<pc, timers, xfer, flash, pins, link, bike, reboot, ota>>

Pass == Step \/ NoExtraCall \/ ServeLink \/ Status \/ Ota

\* SysTick.  The callback motor_post_update_cb releases the timer that
\* MOTOR_FSM[0] holds when it runs.
\* Mutants: a counter is taken below zero; a callback of an earlier start is
\* run.
DownBelow(timer) == timer - 1

Down(timer) == IF timer > 0 THEN timer - 1 ELSE timer
DlFires == dl = 1 /\ dlCb
OrphanFires == orphan = 1

Tick ==
    /\ pc \notin {"dead", "reboot"}
    /\ aux > 0 \/ dl > 0 \/ orphan > 0 \/ resetIn > 0
    /\ aux' = Down(aux)
    /\ IF DlFires \/ OrphanFires
       THEN dl' = NoTimer /\ dlCb' = FALSE /\ reset' = FALSE
       ELSE dl' = Down(dl) /\ UNCHANGED <<dlCb, reset>>
    /\ orphan' = IF OrphanFires THEN NoTimer ELSE Down(orphan)
    /\ resetIn' = Down(resetIn)
    /\ pc' = IF resetIn = 1 /\ resetCb THEN "reboot" ELSE pc
    /\ UNCHANGED <<mode, xfer, flash, boot, link, bike, resetCb, asked>>

Next == Pass \/ BikeChange \/ Console \/ Tick

Spec == Init /\ [][Next]_vars

\* The main loop goes on and SysTick fires; a byte that does not arrive is
\* ended by the timer.
FairSpec == Spec /\ WF_vars(Pass) /\ WF_vars(Tick)

----------------------------------------------------------------------------
Ticks(n) == NoTimer .. n
LongestDl == IF DlTicks > CbTicks THEN DlTicks ELSE CbTicks

\* The shape of the control blocks.
TypeOK ==
    /\ pc \in {"battery", "motor", "link", "status", "ota", "dead", "reboot"}
    /\ mode \in 0 .. 13
    /\ aux \in Ticks(AuxTicks) /\ dl \in Ticks(LongestDl)
    /\ orphan \in Ticks(CbTicks) /\ resetIn \in Ticks(ResetTicks)
    /\ {dlCb, flash, reset, boot, backlog, recovery, resetCb} \subseteq BOOLEAN
    /\ phase \in {"start", "run"} /\ left \in 1 .. Chunks
    /\ bike \in {"standby", "ride", "locked", "update", "failed", "finished"}
    /\ ota \in {"idle", "confirm", "ok", "error"} /\ prompt \in BOOLEAN

\* The download timer is "allocated by motor_fw_update_fsm_step before any
\* pump runs" (motor.c): it is there from boot loader entry to the end of the
\* download, and no pump's assertion fails.
DownloadHasTimer == pc # "dead" /\ (mode \in 5 .. 11 => dl # NoTimer)

\* It is, unless a reflash was requested within the hold of the last one.
TimerUnlessPrompt == prompt \/ DownloadHasTimer

\* The two waits of a recovery have their timer: neither waits for ever.
RecoveryHasTimer == mode \in 0 .. 1 => aux # NoTimer

\* At rest, and once the hold after a download is over, the motor runs its
\* application: it is neither held in reset nor in its boot loader, unless a
\* prompt second reflash lost the timer that ends the hold.
RestingMotorRuns == mode = 2 /\ dl = NoTimer => (~reset /\ ~boot) \/ prompt

\* The two together.
RestIsSafe == RestingMotorRuns /\ TimerUnlessPrompt

\* A motor that sent a frame after its reset is not reflashed.
ReflashedUnheard == mode = 1 /\ mode' = 4 => backlog
AnsweredIsNotReflashed == [][ReflashedUnheard]_vars

\* Every recovery and every reflash ends: the link is served again, the
\* system reboots, the bike is in a state that must not be left, the timer
\* may be lost to a prompt second reflash, or the bike waits for a key in state
\* 0x1B ("Reboot on key") because the reboot timer of that state was taken,
\* without its callback, by an earlier state 0x1D.
WaitsForKey == bike = "failed" /\ resetIn # NoTimer /\ ~resetCb
AtRest == mode = 2 \/ pc = "reboot" \/ bike = "locked" \/ WaitsForKey \/ prompt
UpdateEnds == []<>AtRest

=============================================================================
