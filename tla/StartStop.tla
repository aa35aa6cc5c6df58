------------------------------- MODULE StartStop -------------------------------
(***************************************************************************)
(* mac80211 starts and stops the driver while the recovery worker may be   *)
(* restarting the firmware (umac_if.c, main.c, utils.c, hal.c, tx.c). They *)
(* share the HAL's switch hal_disabled, the saved commands that the worker *)
(* waits with, reset_complete, and the queue of tx_thread, which a stop    *)
(* does not empty. Here a token carries one frame and is never refilled    *)
(* (TxTokens), no command waits in outstanding_cmd (CmdQueue), and nothing *)
(* but the reset is replayed (SavedConfig).                                *)
(***************************************************************************)
EXTENDS Naturals, Sequences, FiniteSets, SequencesExt

CONSTANTS
  Tokens,        \* token ids
  MaxStarts,     \* bound: calls of start
  MaxFrames,     \* bound: frames given to the driver
  MaxFaults      \* bound: deaths of the firmware, failed bring-ups and waits
                 \* that run out although what they wait for may still come

ASSUME StartStopAssumption ==
  /\ IsFiniteSet(Tokens) /\ Tokens # {}
  /\ {MaxStarts, MaxFrames, MaxFaults} \subseteq Nat

VARIABLES
  mac,     \* where mac80211's thread is, and how often it has started
  drv,     \* state, whether rpu_if is set, reset_complete, fw_loaded
  hal,     \* hal_disabled, fw_error, fw_error_processing, fw_error_reason,
           \* fw_error_cmd_done, and of the saved block CMD_RESET_BIT and status
  tok,     \* of each token: its bit, its frame, tx_desc_had_send_to_io
  frames,  \* where each frame is
  txq,     \* the queue of tx_thread, and whether it has been woken
  rxq,     \* events the receive work is to handle
  fw,      \* the firmware: whether it runs, the transmissions it is doing, the
           \* resets it is to answer
  line,    \* the events it has sent and whether rx_thread has been woken
  rec,     \* where the recovery worker is
  faults,
  was      \* history: a start or a stop has used the HAL, or the firmware has
           \* died, during a recovery; a wait for a reset has ended early; a
           \* recovery could not bring the firmware up

vars == <<mac, drv, hal, tok, frames, txq, rxq, fw, line, rec, faults, was>>

Frames == 1 .. MaxFrames

NoFrame == 0

Free == [claimed |-> FALSE, frame |-> NoFrame, sent |-> FALSE]

Msg(id, t) == [id |-> id, t |-> t, session |-> mac.starts]

Fault == faults < MaxFaults /\ faults' = faults + 1

\* rk915_signal_io_error. The worker is called if it is not recovering; one
\* that is finishing a recovery runs again after it (RecOperates).
Signalled(why) ==
  [hal EXCEPT !.error = TRUE, !.processing = TRUE,
              !.reason = IF hal.processing THEN @ ELSE why]

Crosses == was' = [was EXCEPT !.crossed = @ \/ rec # "idle"]

WorkerCalled == IF rec = "idle" THEN "called" ELSE rec

\* hal_send wakes tx_thread, unless the HAL is disabled.
Sent(m) == [q |-> Append(txq.q, m), woken |-> txq.woken \/ ~hal.disabled]

-----------------------------------------------------------------------------
(* start, rpu_core_init.                                                   *)

At(step) == mac.pc = step
Goto(step) == mac' = [mac EXCEPT !.pc = step]

\* fw_error is cleared; firmware that was torn down is brought up again.
StartBegin ==
  /\ At("off") /\ mac.starts < MaxStarts
  /\ hal' = [hal EXCEPT !.error = FALSE]
  /\ \/ /\ drv.loaded
        /\ UNCHANGED <<fw, drv, faults>>
        /\ mac' = [pc |-> "open", starts |-> mac.starts + 1]
     \/ /\ ~drv.loaded
        /\ fw' = [fw EXCEPT !.on = TRUE]
        /\ drv' = [drv EXCEPT !.loaded = TRUE]
        /\ mac' = [pc |-> "open", starts |-> mac.starts + 1]
        /\ UNCHANGED faults
     \/ /\ ~drv.loaded /\ Fault
        /\ mac' = [mac EXCEPT !.starts = @ + 1]
        /\ UNCHANGED <<fw, drv>>
  /\ Crosses
  /\ UNCHANGED <<tok, frames, txq, rxq, line, rec>>

\* hal_start clears the saved block, whatever the worker is doing with it.
HalStart ==
  [hal EXCEPT !.disabled = FALSE, !.saved = FALSE, !.status = "none"]

\* Mutant of Opened: the answer to an earlier reset is not forgotten.
OpenedStale == [drv EXCEPT !.rpuIf = TRUE]

\* rpu_if_init, and reset_complete is cleared.
Opened == [drv EXCEPT !.rpuIf = TRUE, !.resetDone = FALSE]

StartOpen ==
  /\ At("open")
  /\ Goto("reset")
  /\ drv' = Opened
  /\ hal' = HalStart
  /\ Crosses
  /\ UNCHANGED <<tok, frames, txq, rxq, fw, line, rec, faults>>

StartReset ==
  /\ At("reset")
  /\ Goto("wait_enable")
  /\ txq' = Sent(Msg("ENABLE", NoFrame))
  /\ UNCHANGED <<drv, hal, tok, frames, rxq, fw, line, rec, faults, was>>

\* A wait for a reset is to come or going on.
ResetWaits == {"reset", "wait_enable", "wait_disable"}

\* wait_for_reset_complete gives up and has the firmware restarted.
TimesOut(next) ==
  /\ ~drv.resetDone
  /\ IF fw.on THEN Fault ELSE UNCHANGED faults
  /\ hal' = Signalled("RESET_CMD")
  /\ rec' = WorkerCalled
  /\ Goto(next)
  /\ was' = [was EXCEPT !.early = TRUE]
  /\ UNCHANGED <<drv, tok, frames, txq, rxq, fw, line>>

StartTimesOut == At("wait_enable") /\ TimesOut("fail")

\* rpu_tx_init, and the state is STARTED. The commands of the
\* initialisation wake tx_thread.
StartEnd ==
  /\ At("wait_enable") /\ drv.resetDone
  /\ Goto("on")
  /\ drv' = [drv EXCEPT !.state = "STARTED"]
  /\ tok' = [t \in Tokens |-> Free]
  /\ txq' = Sent(Msg("CONFIG", NoFrame))
  /\ UNCHANGED <<hal, frames, rxq, fw, line, rec, faults, was>>

\* wait_for_fw_error_cmd_done returns when any event has been read since the
\* recovery's last command, which may have been in an earlier recovery.
CmdDone == IF hal.cmdDone THEN UNCHANGED faults ELSE Fault

HalStop == [hal EXCEPT !.disabled = TRUE]

\* The start has failed: the HAL is stopped and rpu_if taken away.
StartFails ==
  /\ At("fail")
  /\ CmdDone
  /\ Goto("off")
  /\ hal' = HalStop
  /\ drv' = [drv EXCEPT !.rpuIf = FALSE]
  /\ Crosses
  /\ UNCHANGED <<tok, frames, txq, rxq, fw, line, rec>>

-----------------------------------------------------------------------------
(* Frames. mac80211 gives none before start returns or once it calls stop. *)

\* tx: dropped during a recovery; else it claims a token and is sent.
Tx(f) ==
  /\ At("on") /\ frames[f] = "mac"
  /\ \A g \in Frames : g < f => frames[g] # "mac"
  /\ IF hal.processing
     THEN /\ frames' = [frames EXCEPT ![f] = "freed"]
          /\ UNCHANGED <<tok, txq>>
     ELSE \E t \in Tokens :
            /\ ~tok[t].claimed
            /\ tok' = [tok EXCEPT ![t] = [Free EXCEPT !.claimed = TRUE,
                                                      !.frame = f]]
            /\ frames' = [frames EXCEPT ![f] = "driver"]
            /\ txq' = Sent(Msg("TX", t))
  /\ UNCHANGED <<mac, drv, hal, rxq, fw, line, rec, faults, was>>

\* rpu_tx_free_buff_req frees the token whatever its frames; frames of a
\* driver that is not STARTED are lost.
Completed(t) ==
  /\ tok' = [tok EXCEPT ![t] = Free]
  /\ frames' = IF tok[t].frame = NoFrame THEN frames
               ELSE [frames EXCEPT ![tok[t].frame] =
                       IF drv.state = "STARTED" THEN "reported" ELSE "lost"]

-----------------------------------------------------------------------------
(* stop, rpu_core_deinit.                                                  *)

\* The state stays STARTED until the end.
Stop ==
  /\ At("on")
  /\ Goto("drain")
  /\ UNCHANGED <<drv, hal, tok, frames, txq, rxq, fw, line, rec, faults, was>>

Claimed == {t \in Tokens : tok[t].claimed}

\* Mutant of Purged: a token that the firmware has is left to its completion.
PurgedUnsent(t) == IF tok[t].sent THEN tok[t] ELSE [tok[t] EXCEPT !.frame = NoFrame]

\* rpu_tx_deinit frees the frames of tokens that are still claimed.
Purged(t) == [tok[t] EXCEPT !.frame = NoFrame]

\* wait_for_tx_complete, and the frames are freed. The LMAC is disabled only
\* if no error is known.
StopDrained ==
  /\ At("drain")
  /\ IF Claimed = {} THEN UNCHANGED faults ELSE Fault
  /\ tok' = [t \in Tokens |-> Purged(t)]
  /\ frames' = [f \in Frames |->
       IF \E t \in Tokens : tok[t].frame = f /\ tok'[t].frame = NoFrame
       THEN "freed" ELSE frames[f]]
  /\ IF hal.error
     THEN /\ Goto("await_recovery")
          /\ UNCHANGED <<drv, txq>>
     ELSE /\ Goto("wait_disable")
          /\ drv' = [drv EXCEPT !.resetDone = FALSE]
          /\ txq' = Sent(Msg("DISABLE", NoFrame))
  /\ UNCHANGED <<hal, rxq, fw, line, rec, was>>

StopDisabled ==
  /\ At("wait_disable") /\ drv.resetDone
  /\ Goto("await_recovery")
  /\ UNCHANGED <<drv, hal, tok, frames, txq, rxq, fw, line, rec, faults, was>>

StopTimesOut == At("wait_disable") /\ TimesOut("stop_fail")

StopFails ==
  /\ At("stop_fail")
  /\ CmdDone
  /\ Goto("await_recovery")
  /\ UNCHANGED <<drv, hal, tok, frames, txq, rxq, fw, line, rec, was>>

\* wait_for_fw_error_process_complete; then the HAL is stopped.
StopHal ==
  /\ At("await_recovery")
  /\ IF hal.processing THEN Fault ELSE UNCHANGED faults
  /\ Goto("close")
  /\ hal' = HalStop
  /\ Crosses
  /\ UNCHANGED <<drv, tok, frames, txq, rxq, fw, line, rec>>

\* After an error the firmware is torn down, to be brought up by the next start.
StopEnd ==
  /\ At("close")
  /\ Goto("off")
  /\ drv' = [drv EXCEPT !.rpuIf = FALSE, !.state = "STOPPED",
                        !.loaded = @ /\ ~hal.error]
  /\ IF hal.error /\ drv.loaded
     THEN /\ fw' = [on |-> FALSE, doing |-> {}, resets |-> 0]
          /\ line' = [q |-> <<>>, woken |-> FALSE]
     ELSE UNCHANGED <<fw, line>>
  /\ Crosses
  /\ UNCHANGED <<hal, tok, frames, txq, rxq, rec, faults>>
-----------------------------------------------------------------------------
(* tx_thread, rx_thread and the receive work.                              *)

IsReset(m) == m.id \in {"ENABLE", "DISABLE"}

\* A wake-up is used up by a recovery, or by an empty queue.
TxSleeps ==
  /\ txq.woken
  /\ hal.processing \/ txq.q = <<>>
  /\ txq' = [txq EXCEPT !.woken = FALSE]
  /\ UNCHANGED <<mac, drv, hal, tok, frames, rxq, fw, line, rec, faults, was>>

\* save_fw_recovery_cmd, and the command is written, or dropped if the HAL is
\* disabled. (That a recovery may begin in between is FwRecovery's.)
TxWrites ==
  /\ txq.woken /\ ~hal.processing /\ txq.q # <<>>
  /\ LET m == Head(txq.q) IN
     /\ txq' = [q |-> Tail(txq.q), woken |-> ~hal.disabled]
     /\ hal' = [hal EXCEPT !.saved = @ \/ m.id = "ENABLE"]
     /\ tok' = IF m.id = "TX" THEN [tok EXCEPT ![m.t].sent = TRUE] ELSE tok
     /\ fw' = IF hal.disabled \/ ~fw.on THEN fw
              ELSE IF IsReset(m)
              THEN [fw EXCEPT !.doing = {}, !.resets = @ + 1]
              ELSE IF m.id = "TX" THEN [fw EXCEPT !.doing = @ \cup {m}]
              ELSE fw
  /\ UNCHANGED <<mac, drv, frames, rxq, line, rec, faults, was>>

\* rx_thread. During a recovery an event says that the last command of the
\* recovery is done; the end of a reset is what the worker waits for.
RxReads ==
  /\ line.woken /\ line.q # <<>>
  /\ LET e == Head(line.q) IN
     /\ line' = [q |-> Tail(line.q), woken |-> Tail(line.q) # <<>>]
     /\ IF hal.processing
        THEN /\ hal' = [hal EXCEPT !.cmdDone = TRUE,
                          !.status = IF e.id = "RESET_COMPLETE" THEN "comp"
                                     ELSE @]
             /\ UNCHANGED rxq
        ELSE /\ rxq' = Append(rxq, e)
             /\ UNCHANGED hal
  /\ UNCHANGED <<mac, drv, tok, frames, txq, fw, rec, faults, was>>

\* rpu_msg_handler drops events once rpu_if is NULL.
Heard == drv.rpuIf

RxHandles ==
  /\ rxq # <<>>
  /\ rxq' = Tail(rxq)
  /\ LET e == Head(rxq) IN
     CASE ~Heard -> UNCHANGED <<drv, tok, frames>>
       [] Heard /\ e.id = "RESET_COMPLETE" ->
            /\ drv' = [drv EXCEPT !.resetDone = TRUE]
            /\ UNCHANGED <<tok, frames>>
       [] Heard /\ e.id = "TX_DONE" -> Completed(e.t) /\ UNCHANGED drv
  /\ UNCHANGED <<mac, hal, txq, fw, line, rec, faults, was>>

-----------------------------------------------------------------------------
(* fw_err_work_fn.                                                         *)

RecStep(from, to) == rec = from /\ rec' = to

\* wait_for_rxq_empty, or its time runs out; then the firmware is powered off,
\* and the HAL disabled.
RecTearDown ==
  /\ RecStep("called", "off")
  /\ IF rxq = <<>> THEN UNCHANGED faults ELSE Fault
  /\ fw' = [on |-> FALSE, doing |-> {}, resets |-> 0]
  /\ line' = [q |-> <<>>, woken |-> FALSE]
  /\ hal' = [hal EXCEPT !.disabled = TRUE]
  /\ UNCHANGED <<mac, drv, tok, frames, txq, rxq, was>>

\* Mutant of Enabled: the HAL is left disabled for the replay.
EnabledLate == hal

\* The HAL is enabled, whoever has stopped it.
Enabled == [hal EXCEPT !.disabled = FALSE]

\* The firmware is loaded again; that it could not be is not looked at.
RecBringUp ==
  /\ RecStep("off", "up")
  /\ \/ fw' = [fw EXCEPT !.on = TRUE] /\ UNCHANGED <<faults, was>>
     \/ Fault /\ was' = [was EXCEPT !.failed = TRUE] /\ UNCHANGED fw
  /\ hal' = Enabled
  /\ UNCHANGED <<mac, drv, tok, frames, txq, rxq, line>>

\* send_fw_recovery_cmd: without a saved reset there is nothing to send.
RecReset ==
  /\ rec = "up"
  /\ rec' = IF hal.saved THEN "reset" ELSE "clear"
  /\ hal' = IF hal.saved THEN [hal EXCEPT !.status = "wait"] ELSE hal
  /\ UNCHANGED <<mac, drv, tok, frames, txq, rxq, fw, line, faults, was>>

RecWrites ==
  /\ RecStep("reset", "wait")
  /\ hal' = [hal EXCEPT !.cmdDone = FALSE]
  /\ fw' = IF fw.on THEN [fw EXCEPT !.resets = @ + 1] ELSE fw
  /\ UNCHANGED <<mac, drv, tok, frames, txq, rxq, line, faults, was>>

RecAnswered ==
  /\ RecStep("wait", "clear")
  /\ hal.status = "comp"
  /\ UNCHANGED <<mac, drv, hal, tok, frames, txq, rxq, fw, line, faults, was>>

RecClear ==
  /\ RecStep("clear", "judge")
  /\ hal' = [hal EXCEPT !.processing = FALSE, !.error = FALSE]
  /\ UNCHANGED <<mac, drv, tok, frames, txq, rxq, fw, line, faults, was>>

\* After a reset that was not answered no transmission is completed.
RecJudges ==
  /\ rec = "judge"
  /\ rec' = IF hal.reason = "RESET_CMD" THEN "operates" ELSE "unfinished"
  /\ UNCHANGED <<mac, drv, hal, tok, frames, txq, rxq, fw, line, faults, was>>

\* rpu_tx_proc_unfi_tx_done.
RecUnfinished ==
  /\ rec = "unfinished"
  /\ LET due == {t \in Claimed : tok[t].sent}
     IN \/ /\ due = {}
           /\ rec' = "operates"
           /\ UNCHANGED <<tok, frames>>
        \/ \E t \in due : Completed(t) /\ UNCHANGED rec
  /\ UNCHANGED <<mac, drv, hal, txq, rxq, fw, line, faults, was>>

\* rpu_process_pending_operates ends a wait for a reset, whoever waits. If an
\* error has been signalled since, the worker runs again.
RecOperates ==
  /\ rec = "operates"
  /\ rec' = IF hal.processing THEN "called" ELSE "idle"
  /\ drv' = [drv EXCEPT !.resetDone = TRUE]
  /\ was' = [was EXCEPT !.early = @ \/ mac.pc \in ResetWaits]
  /\ UNCHANGED <<mac, hal, tok, frames, txq, rxq, fw, line, faults>>

-----------------------------------------------------------------------------
(* The firmware. The interrupt is an edge: one that comes while the HAL is *)
(* disabled is forgotten, and its event waits for another one.             *)

Tells(e) ==
  line' = [q |-> Append(line.q, e), woken |-> line.woken \/ ~hal.disabled]

fwFrame == <<mac, drv, tok, frames, txq, rxq>>

FwResets ==
  /\ fw.on /\ fw.resets > 0
  /\ fw' = [fw EXCEPT !.resets = @ - 1]
  /\ Tells(Msg("RESET_COMPLETE", NoFrame))
  /\ UNCHANGED <<fwFrame, hal, rec, faults, was>>

FwTxDone ==
  /\ fw.on
  /\ \E m \in fw.doing :
       /\ fw' = [fw EXCEPT !.doing = @ \ {m}]
       /\ Tells([m EXCEPT !.id = "TX_DONE"])
  /\ UNCHANGED <<fwFrame, hal, rec, faults, was>>

\* It dies, and somebody notices, or only a wait that runs out will.
FwDies ==
  /\ fw.on /\ Fault
  /\ fw' = [on |-> FALSE, doing |-> {}, resets |-> 0]
  /\ \/ hal' = Signalled("SDIO") /\ rec' = WorkerCalled
     \/ UNCHANGED <<hal, rec>>
  /\ Crosses
  /\ UNCHANGED <<fwFrame, line>>

-----------------------------------------------------------------------------

Init ==
  /\ mac = [pc |-> "off", starts |-> 0]
  /\ drv = [state |-> "STOPPED", rpuIf |-> FALSE, resetDone |-> FALSE,
            loaded |-> FALSE]
  /\ hal = [disabled |-> TRUE, error |-> FALSE, processing |-> FALSE,
            reason |-> "SDIO", cmdDone |-> FALSE, saved |-> FALSE,
            status |-> "none"]
  /\ tok = [t \in Tokens |-> Free]
  /\ frames = [f \in Frames |-> "mac"]
  /\ txq = [q |-> <<>>, woken |-> FALSE] /\ rxq = <<>>
  /\ fw = [on |-> FALSE, doing |-> {}, resets |-> 0]
  /\ line = [q |-> <<>>, woken |-> FALSE]
  /\ rec = "idle" /\ faults = 0 
  /\ was = [crossed |-> FALSE, early |-> FALSE, failed |-> FALSE]

MacProgress ==
  \/ StartOpen \/ StartReset \/ StartTimesOut \/ StartEnd \/ StartFails
  \/ StopDrained \/ StopDisabled \/ StopTimesOut \/ StopFails \/ StopHal
  \/ StopEnd

Threads == TxSleeps \/ TxWrites \/ RxReads \/ RxHandles

Recovery == RecTearDown \/ RecBringUp \/ RecReset \/ RecWrites \/ RecAnswered
            \/ RecClear \/ RecJudges \/ RecUnfinished \/ RecOperates

Progress == MacProgress \/ Threads \/ Recovery \/ FwResets \/ FwTxDone

Next == StartBegin \/ Stop \/ (\E f \in Frames : Tx(f)) \/ FwDies \/ Progress

Spec == Init /\ [][Next]_vars

\* The threads and the worker run, waits end, and the firmware answers;
\* mac80211 need not call.
FairSpec == Spec /\ WF_vars(Progress)

-----------------------------------------------------------------------------
(* Properties.                                                             *)

\* The driver loses no frame: none is dropped by a completion in a driver
\* that is not STARTED, and a driver that has stopped has returned or freed
\* every frame it was given.
FramesAccounted ==
  \A f \in Frames :
    /\ frames[f] # "lost"
    /\ drv.state = "STOPPED" => frames[f] # "driver"
    /\ frames[f] = "driver" => \E t \in Tokens : tok[t].frame = f

\* A driver that has started has had its firmware reset for it: its own reset
\* has left the queue of tx_thread. A wait that ended early, by its time or by
\* the pending operates of a recovery, can leave an answer that a later start
\* takes for its own; nothing else can.
StartedAfterReset ==
  At("on") /\ ~was.early => \A i \in DOMAIN txq.q : txq.q[i].id # "ENABLE"

\* The recovery ends, unless a start or a stop has used the HAL under it, the
\* firmware has died again or could not be brought up: the answer to its
\* reset reaches the worker, who waits for it without end.
RecoveryEnds ==
  hal.processing ~> (~hal.processing \/ was.crossed \/ was.failed)
=============================================================================
