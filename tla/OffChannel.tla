------------------------------ MODULE OffChannel ------------------------------
(***************************************************************************)
(* Hardware scans and remain-on-channel periods (umac_if.c, p2p.c,         *)
(* utils.c, rpu_if.c). Five threads share hw_scan_status, the ssids still  *)
(* to scan and the roc_params: mac80211's, which calls the driver one      *)
(* operation at a time; the receive work; the scan timer; the work that    *)
(* ends a period; and the recovery worker, which ends what the firmware    *)
(* took with it. Most of their tests and updates are under no lock.        *)
(*                                                                         *)
(* The firmware takes commands in their order, scans one ssid per command  *)
(* and answers it with SCAN_COMPLETE unless it is aborted.                 *)
(***************************************************************************)
EXTENDS Naturals, Integers, Sequences

CONSTANTS
  MaxSsids,      \* ssids of a scan request
  MaxScans,      \* bound: scans
  MaxRocs,       \* bound: remain-on-channel periods
  MaxFaults      \* bound: deaths of the firmware, waits for an abort, a
                 \* cancel or the events left by a dead firmware that run
                 \* out, and failed allocations, together

ASSUME OffChannelAssumption ==
  /\ MaxSsids \in Nat \ {0}
  /\ {MaxScans, MaxRocs, MaxFaults} \subseteq Nat

VARIABLES
  mac,     \* mac80211: where its thread is, the scan and the period it waits
           \* for (0: none), and whether it has cancelled that scan
  scan,    \* hw_scan_status, remain_scan_req.n_ssids, p2p_scan, whether
           \* scan_timer is armed, in_scan_timeout, scan_abort_done
  roc,     \* roc_in_progress, roc_starting, cancel_roc, cancel_hw_roc_done,
           \* the holder of priv->mutex, whether roc_complete_work is queued
  pc,      \* where the timer's handler, the work that ends a period, the
           \* receive work and the recovery worker are, and whether the
           \* recovery is asked for (err: fw_error_processing)
  cmds, events,   \* commands not yet taken, events not yet handled
  fw,      \* the scan and the period the firmware is doing, 0 if none
  used,    \* what the bounds count
  hist     \* history: the ssids still to be scanned of each scan, the scan
           \* whose event is handled, whether a scan was overdue, whether a
           \* command for more ssids was sent after its scan had ended, and
           \* whether a period's end and its work or a recovery crossed

vars == <<mac, scan, roc, pc, cmds, events, fw, used, hist>>

Scans == 1 .. MaxScans

-----------------------------------------------------------------------------
(* Commands, reports and the recovery's trigger.                           *)

Msg(id, n) == [id |-> id, n |-> n]

Send(id, n) == cmds' = Append(cmds, Msg(id, n))

Used(what) == [used EXCEPT ![what] = @ + 1]

Faults == used.deaths + used.timeouts + used.failures

Fault(what) == Faults < MaxFaults /\ used' = Used(what)

\* kmalloc fails, and the command is not sent.
Fails ==
  /\ Fault("failures")
  /\ UNCHANGED cmds

\* ieee80211_scan_completed ends mac80211's wait, whatever scan is meant.
Reported == [mac EXCEPT !.scan = 0, !.cancelled = FALSE]

\* rk915_signal_io_error: fw_error_processing is set until the recovery clears
\* it, before it ends what was going on; it may be set again meanwhile.
FwError == pc.err
Signalled == [pc EXCEPT !.err = TRUE]

\* Under scan_cancel_lock the scan is taken from whoever else would end it.
TakeScan == [scan EXCEPT !.status = "NONE"]

-----------------------------------------------------------------------------
(* mac80211's thread. It keeps scans and periods apart itself.             *)

Calls(thread) == mac.pc = thread

\* scan: refused while the driver knows of a scan, or of a period starting.
ScanBegin ==
  /\ Calls("idle") /\ mac.scan = 0 /\ mac.roc = 0
  /\ used.scans < MaxScans
  /\ scan.status = "NONE" /\ ~roc.starting
  /\ scan' = [scan EXCEPT !.status = "PROGRESS"]
  /\ used' = Used("scans")
  /\ mac' = [mac EXCEPT !.pc = "scan", !.scan = used.scans + 1,
                        !.cancelled = FALSE]
  /\ UNCHANGED <<roc, pc, cmds, events, fw, hist>>

\* Mutant of RemainAfter: the last ssid is taken out of the list unscanned.
RemainAfterShort(n) == IF n > 2 THEN n - 2 ELSE 0

\* split_mult_ssid_scan takes the first ssid, which is sent at once.
RemainAfter(n) == IF n > 1 THEN n - 1 ELSE 0

ScanSend(n, p2p) ==
  /\ Calls("scan")
  /\ scan' = [scan EXCEPT !.timer = TRUE, !.p2p = p2p,
                          !.remain = RemainAfter(n)]
  /\ hist' = [hist EXCEPT !.todo = [[s \in Scans |-> 0] EXCEPT ![used.scans] = n]]
  /\ \/ /\ Send("SCAN", used.scans)
        /\ mac' = [mac EXCEPT !.pc = "idle"]
        /\ UNCHANGED used
     \/ /\ Fails
        /\ mac' = [mac EXCEPT !.pc = "idle", !.scan = 0]
  /\ UNCHANGED <<roc, pc, events, fw>>

\* cancel_hw_scan, once for a scan: nothing more is to be scanned, ...
CancelScan ==
  /\ Calls("idle") /\ mac.scan # 0 /\ ~mac.cancelled
  /\ mac' = [mac EXCEPT !.pc = "cancel", !.cancelled = TRUE]
  /\ scan' = [scan EXCEPT !.remain = 0]
  /\ UNCHANGED <<roc, pc, cmds, events, fw, used, hist>>

\* ... the scan is taken and the firmware told, ...
CancelAbort ==
  /\ Calls("cancel")
  /\ \/ /\ scan.status = "PROGRESS"
        /\ scan' = [TakeScan EXCEPT !.abortDone = FALSE]
        /\ \/ /\ Send("ABORT", 0)
              /\ mac' = [mac EXCEPT !.pc = "abort_wait"]
              /\ UNCHANGED used
           \/ /\ Fails
              /\ mac' = [mac EXCEPT !.pc = "idle"]
     \/ /\ scan.status = "NONE"
        /\ mac' = [mac EXCEPT !.pc = "idle"]
        /\ UNCHANGED <<scan, cmds, used>>
  /\ UNCHANGED <<roc, pc, events, fw, hist>>

\* A wait ends because of its event or of an error, or its time runs out.
Waited(done) ==
  \/ /\ done \/ FwError
     /\ UNCHANGED used
  \/ /\ ~done /\ ~FwError
     /\ Fault("timeouts")

\* An overdue scan resets the firmware.
Overdue == scan.inTimeout /\ ~scan.p2p

\* ... and after the wait, which returns 0 in any case, it is reported. If
\* the timer has expired meanwhile, the firmware is reset.
AbortWaited ==
  /\ Calls("abort_wait")
  /\ Waited(scan.abortDone)
  /\ mac' = [Reported EXCEPT !.pc = "idle"]
  /\ hist' = [hist EXCEPT !.timedOut = @ \/ Overdue]
  /\ IF Overdue
     THEN pc' = Signalled /\ scan' = [scan EXCEPT !.inTimeout = FALSE]
     ELSE UNCHANGED <<pc, scan>>
  /\ UNCHANGED <<roc, cmds, events, fw>>

\* remain_on_channel. A command that cannot be sent leaves roc_starting set.
RemainOnChannel ==
  /\ Calls("idle") /\ mac.scan = 0 /\ mac.roc = 0 /\ roc.mutex = "free"
  /\ used.rocs < MaxRocs
  /\ ~roc.inProgress /\ ~roc.starting /\ scan.status = "NONE"
  /\ roc' = [roc EXCEPT !.starting = TRUE]
  /\ \/ /\ Send("ROC_START", used.rocs + 1)
        /\ mac' = [mac EXCEPT !.roc = used.rocs + 1]
        /\ used' = Used("rocs")
     \/ Fails /\ UNCHANGED mac
  /\ UNCHANGED <<scan, pc, events, fw, hist>>

\* cancel_remain_on_channel, which does nothing for a period that is starting.
CancelRoc ==
  /\ Calls("idle") /\ mac.roc # 0 /\ roc.mutex = "free"
  /\ \/ /\ roc.inProgress
        /\ roc' = [roc EXCEPT !.cancelDone = FALSE, !.cancel = TRUE]
        /\ \/ /\ Send("ROC_STOP", 0)
              /\ mac' = [mac EXCEPT !.pc = "roc_wait"]
              /\ UNCHANGED used
           \/ Fails /\ UNCHANGED mac
     \/ /\ ~roc.inProgress
        /\ mac' = [mac EXCEPT !.roc = 0]
        /\ UNCHANGED <<roc, cmds, used>>
  /\ UNCHANGED <<scan, pc, events, fw, hist>>

\* The wait ends, and priv->mutex, given up before it, is unlocked again
\* whoever holds it. mac80211 keeps a period it could not cancel.
CancelRocWaited ==
  /\ Calls("roc_wait")
  /\ Waited(roc.cancelDone)
  /\ mac' = [mac EXCEPT !.pc = "idle",
                        !.roc = IF roc.cancelDone \/ FwError THEN 0 ELSE @]
  /\ roc' = [roc EXCEPT !.mutex = "free"]
  /\ UNCHANGED <<scan, pc, cmds, events, fw, hist>>

-----------------------------------------------------------------------------
(* scan_timer_expiry, which cancels the scan without telling the firmware. *)
(* The timer is never deleted, only set again by the next scan.            *)

TimerExpires ==
  /\ scan.timer /\ pc.timer = "idle"
  /\ scan' = [scan EXCEPT !.timer = FALSE, !.inTimeout = TRUE, !.remain = 0]
  /\ pc' = [pc EXCEPT !.timer = "cancel"]
  /\ hist' = [hist EXCEPT !.timedOut = @ \/ scan.status = "PROGRESS"]
  /\ UNCHANGED <<mac, roc, cmds, events, fw, used>>

\* Mutant of TimerTakes: a scan that is overdue is taken and not reported.
TimerTakesSilently ==
  /\ pc.timer = "cancel"
  /\ scan' = [TakeScan EXCEPT !.inTimeout = scan.status = "PROGRESS"]
  /\ pc' = [pc EXCEPT !.timer = IF scan.status = "PROGRESS" THEN "reset"
                                ELSE "idle"]
  /\ UNCHANGED <<mac, roc, cmds, events, fw, used, hist>>

TimerTakes ==
  /\ pc.timer = "cancel"
  /\ IF scan.status = "PROGRESS"
     THEN /\ scan' = TakeScan
          /\ pc' = [pc EXCEPT !.timer = "report"]
          /\ hist' = [hist EXCEPT !.timedOut = TRUE]
     ELSE /\ scan' = [scan EXCEPT !.inTimeout = FALSE]
          /\ pc' = [pc EXCEPT !.timer = "idle"]
          /\ UNCHANGED hist
  /\ UNCHANGED <<mac, roc, cmds, events, fw, used>>

TimerReports ==
  /\ pc.timer = "report"
  /\ mac' = Reported
  /\ pc' = [pc EXCEPT !.timer = "reset"]
  /\ UNCHANGED <<scan, roc, cmds, events, fw, used, hist>>

TimerResets ==
  /\ pc.timer = "reset"
  /\ scan' = [scan EXCEPT !.inTimeout = FALSE]
  /\ pc' = [IF Overdue THEN Signalled ELSE pc
              EXCEPT !.timer = "idle"]
  /\ UNCHANGED <<mac, roc, cmds, events, fw, used, hist>>

-----------------------------------------------------------------------------
(* The receive work: rpu_msg_handler, rpu_scan_complete.                   *)

Handles(id) ==
  /\ pc.rx = "idle" /\ events # <<>> /\ Head(events).id = id
  /\ events' = Tail(events)

\* rpu_scan_complete asks split_mult_ssid_scan whether there are more ssids.
ScanComplete ==
  /\ Handles("SCAN_COMPLETE")
  /\ pc' = [pc EXCEPT !.rx = IF scan.remain > 0 THEN "split" ELSE "complete"]
  /\ hist' = [hist EXCEPT !.event = Head(events).n]
  /\ UNCHANGED <<mac, scan, roc, cmds, fw, used>>

\* The next one is sent, whether or not the scan has ended meanwhile, ...
SplitSends ==
  /\ pc.rx = "split"
  /\ pc' = [pc EXCEPT !.rx = "take"]
  /\ \/ Send("SCAN", hist.event) /\ UNCHANGED used
     \/ Fails
  /\ hist' = [hist EXCEPT !.overtaken = @ \/ scan.status = "NONE"]
  /\ UNCHANGED <<mac, scan, roc, events, fw>>

\* ... and taken out of the list; n_ssids is signed.
SplitTakes ==
  /\ pc.rx = "take"
  /\ pc' = [pc EXCEPT !.rx = "idle"]
  /\ scan' = [scan EXCEPT !.remain = @ - 1]
  /\ hist' = [hist EXCEPT !.event = 0]
  /\ UNCHANGED <<mac, roc, cmds, events, fw, used>>

\* Mutant of Completes: hw_scan_status is not looked at.
CompletesAlways == TRUE

Completes == scan.status # "NONE"

\* The last one completes the scan, unless somebody has ended it.
ScanDone ==
  /\ pc.rx = "complete"
  /\ pc' = [pc EXCEPT !.rx = "idle"]
  /\ IF Completes THEN scan' = TakeScan /\ mac' = Reported
                  ELSE UNCHANGED <<scan, mac>>
  /\ hist' = [hist EXCEPT !.event = 0]
  /\ UNCHANGED <<roc, cmds, events, fw, used>>

AbortComplete ==
  /\ Handles("ABORT_COMPLETE")
  /\ scan' = [scan EXCEPT !.abortDone = TRUE]
  /\ UNCHANGED <<mac, roc, pc, cmds, fw, used, hist>>

\* ieee80211_ready_on_channel is told, of a period that starts.
RocStarted ==
  /\ Handles("ROC_STARTED")
  /\ roc' = [roc EXCEPT !.inProgress = TRUE]
  /\ UNCHANGED <<mac, scan, pc, cmds, fw, used, hist>>

\* The work that ends a period is queued, for one that was in progress when
\* the event came.
RocEnded ==
  /\ Handles("ROC_ENDED")
  /\ pc' = [pc EXCEPT !.rx = IF roc.inProgress THEN "queue" ELSE "idle"]
  /\ UNCHANGED <<mac, scan, roc, cmds, fw, used, hist>>

RocQueue ==
  /\ pc.rx = "queue"
  /\ roc' = [roc EXCEPT !.queued = TRUE]
  /\ pc' = [pc EXCEPT !.rx = "idle"]
  /\ UNCHANGED <<mac, scan, cmds, events, fw, used, hist>>

-----------------------------------------------------------------------------
(* rpu_roc_complete_work.                                                  *)

WorkTake ==
  /\ pc.work = "idle" /\ roc.queued
  /\ roc' = [roc EXCEPT !.queued = FALSE]
  /\ pc' = [pc EXCEPT !.work = IF roc.inProgress THEN "lock" ELSE "none"]
  /\ UNCHANGED <<mac, scan, cmds, events, fw, used, hist>>

\* No period is in progress: whatever is starting is forgotten, unlocked.
WorkForget ==
  /\ pc.work = "none"
  /\ roc' = [roc EXCEPT !.starting = FALSE]
  /\ hist' = [hist EXCEPT !.crossed = @ \/ roc.starting]
  /\ pc' = [pc EXCEPT !.work = "idle"]
  /\ UNCHANGED <<mac, scan, cmds, events, fw, used>>

WorkClear ==
  /\ pc.work = "lock" /\ roc.mutex = "free"
  /\ roc' = [roc EXCEPT !.inProgress = FALSE, !.mutex = "work"]
  /\ pc' = [pc EXCEPT !.work = "clear"]
  /\ UNCHANGED <<mac, scan, cmds, events, fw, used, hist>>

\* Mutant of Cleared: roc_starting is not cleared with roc_in_progress.
ClearedInProgress == roc

Cleared == [roc EXCEPT !.starting = FALSE]

WorkCleared ==
  /\ pc.work = "clear"
  /\ roc' = Cleared
  /\ pc' = [pc EXCEPT !.work = "tell"]
  /\ UNCHANGED <<mac, scan, cmds, events, fw, used, hist>>

\* ieee80211_remain_on_channel_expired, or the waiting cancel is told.
WorkTell ==
  /\ pc.work = "tell"
  /\ IF roc.cancel
     THEN /\ roc' = [roc EXCEPT !.cancelDone = TRUE]
          /\ pc' = [pc EXCEPT !.work = "told"]
          /\ UNCHANGED mac
     ELSE /\ roc' = [roc EXCEPT !.mutex = "free"]
          /\ pc' = [pc EXCEPT !.work = "idle"]
          /\ mac' = [mac EXCEPT !.roc = 0]
  /\ UNCHANGED <<scan, cmds, events, fw, used, hist>>

WorkTold ==
  /\ pc.work = "told"
  /\ roc' = [roc EXCEPT !.cancel = FALSE, !.mutex = "free"]
  /\ pc' = [pc EXCEPT !.work = "idle"]
  /\ UNCHANGED <<mac, scan, cmds, events, fw, used, hist>>

-----------------------------------------------------------------------------
(* The recovery: the firmware is restarted after the events it had sent    *)
(* are handled, or after five seconds whatever is left of them; then       *)
(* rpu_process_pending_operates ends what was going on.                    *)

FwDies ==
  /\ ~FwError /\ pc.rec = "idle" /\ Fault("deaths")
  /\ pc' = Signalled
  /\ \E n \in 0 .. Len(events) : events' = SubSeq(events, 1, n)
  /\ UNCHANGED <<mac, scan, roc, cmds, fw, hist>>

\* The restarts are counted up to two.
Restarted == [used EXCEPT !.restarts = IF @ < 2 THEN @ + 1 ELSE 2]

\* An event of a period is still to be handled.
RocEventLeft ==
  \/ pc.rx = "queue"
  \/ \E i \in DOMAIN events : events[i].id \in {"ROC_STARTED", "ROC_ENDED"}

RecRestart ==
  /\ pc.rec = "idle" /\ FwError
  /\ \/ pc.rx = "idle" /\ events = <<>> /\ used' = Restarted
     \/ Faults < MaxFaults /\ used' = [Restarted EXCEPT !.timeouts = @ + 1]
  /\ hist' = [hist EXCEPT !.crossed = @ \/ RocEventLeft]
  /\ fw' = [scan |-> 0, roc |-> 0]
  /\ pc' = [pc EXCEPT !.rec = "flags", !.err = FALSE]
  /\ UNCHANGED <<mac, scan, roc, cmds, events>>

\* The worker's next step.
RecGoes(at) == pc' = [pc EXCEPT !.rec = at]

recFrame == <<cmds, events, fw, used, hist>>

\* Waits that are not over are ended, then a pending scan.
RecFlags ==
  /\ pc.rec = "flags"
  /\ scan' = [scan EXCEPT !.abortDone = TRUE]
  /\ roc' = [roc EXCEPT !.cancelDone = TRUE]
  /\ RecGoes(IF scan.status = "PROGRESS" THEN "cancel" ELSE "roc")
  /\ UNCHANGED <<recFrame, mac>>

RecCancel ==
  /\ pc.rec = "cancel"
  /\ scan' = [scan EXCEPT !.remain = 0]
  /\ RecGoes("take")
  /\ UNCHANGED <<recFrame, mac, roc>>

RecTakes ==
  /\ pc.rec = "take"
  /\ IF scan.status = "PROGRESS"
     THEN scan' = TakeScan /\ RecGoes("report")
     ELSE RecGoes("roc") /\ UNCHANGED scan
  /\ UNCHANGED <<recFrame, mac, roc>>

RecReports ==
  /\ pc.rec = "report"
  /\ mac' = Reported
  /\ RecGoes("reset")
  /\ UNCHANGED <<recFrame, scan, roc>>

\* cancel_hw_scan resets the firmware once more if the timer has expired.
RecResets ==
  /\ pc.rec = "reset"
  /\ scan' = [scan EXCEPT !.inTimeout = @ /\ ~Overdue]
  /\ pc' = [IF Overdue THEN Signalled ELSE pc EXCEPT !.rec = "roc"]
  /\ UNCHANGED <<recFrame, mac, roc>>

\* Mutant of Begins: a period that was still starting is left alone.
BeginsNever == FALSE

\* A period that was starting is made to have begun, so that it can be ended.
Begins == roc.starting /\ ~roc.inProgress

RecRoc ==
  /\ pc.rec = "roc"
  /\ RecGoes(IF Begins THEN "begin" ELSE "progress")
  /\ UNCHANGED <<recFrame, mac, scan, roc>>

RecBegins ==
  /\ pc.rec = "begin"
  /\ roc' = [roc EXCEPT !.inProgress = TRUE]
  /\ hist' = [hist EXCEPT !.crossed = @ \/ ~roc.starting \/ pc.work = "clear"]
  /\ RecGoes("progress")
  /\ UNCHANGED <<mac, scan, cmds, events, fw, used>>

\* The second test reads the two flags again, one after the other.
RecInProgress ==
  /\ pc.rec = "progress"
  /\ RecGoes(IF roc.inProgress THEN "starting" ELSE "idle")
  /\ UNCHANGED <<recFrame, mac, scan, roc>>

RecStarting ==
  /\ pc.rec = "starting"
  /\ RecGoes(IF roc.starting THEN "queue" ELSE "idle")
  /\ UNCHANGED <<recFrame, mac, scan, roc>>

RecQueues ==
  /\ pc.rec = "queue"
  /\ roc' = [roc EXCEPT !.queued = TRUE]
  /\ RecGoes("idle")
  /\ UNCHANGED <<recFrame, mac, scan>>

-----------------------------------------------------------------------------
(* The firmware, which is deaf while it is being restarted.                *)

Takes(id) ==
  /\ ~FwError /\ cmds # <<>> /\ Head(cmds).id = id
  /\ cmds' = Tail(cmds)

Tells(id, n) == events' = Append(events, Msg(id, n))

fwFrame == <<mac, scan, roc, pc, used>>

FwScanBegins ==
  /\ Takes("SCAN") /\ fw.scan = 0
  /\ fw' = [fw EXCEPT !.scan = Head(cmds).n]
  /\ UNCHANGED <<fwFrame, events, hist>>

FwScanEnds ==
  /\ ~FwError /\ fw.scan # 0
  /\ fw' = [fw EXCEPT !.scan = 0]
  /\ hist' = [hist EXCEPT !.todo[fw.scan] = IF @ = 0 THEN 0 ELSE @ - 1]
  /\ Tells("SCAN_COMPLETE", fw.scan)
  /\ UNCHANGED <<fwFrame, cmds>>

FwAborts ==
  /\ Takes("ABORT")
  /\ fw' = [fw EXCEPT !.scan = 0]
  /\ Tells("ABORT_COMPLETE", 0)
  /\ UNCHANGED <<fwFrame, hist>>

FwRocBegins ==
  /\ Takes("ROC_START") /\ fw.roc = 0
  /\ fw' = [fw EXCEPT !.roc = Head(cmds).n]
  /\ Tells("ROC_STARTED", 0)
  /\ UNCHANGED <<fwFrame, hist>>

FwRocEnds ==
  /\ ~FwError /\ fw.roc # 0
  /\ fw' = [fw EXCEPT !.roc = 0]
  /\ Tells("ROC_ENDED", 0)
  /\ UNCHANGED <<fwFrame, cmds, hist>>

\* A stop is answered, also when the period has just ended.
FwRocStops ==
  /\ Takes("ROC_STOP")
  /\ fw' = [fw EXCEPT !.roc = 0]
  /\ Tells("ROC_ENDED", 0)
  /\ UNCHANGED <<fwFrame, hist>>

-----------------------------------------------------------------------------

Init ==
  /\ mac = [pc |-> "idle", scan |-> 0, roc |-> 0, cancelled |-> FALSE]
  /\ scan = [status |-> "NONE", remain |-> 0, p2p |-> FALSE, timer |-> FALSE,
             inTimeout |-> FALSE, abortDone |-> FALSE]
  /\ roc = [inProgress |-> FALSE, starting |-> FALSE, cancel |-> FALSE,
            cancelDone |-> FALSE, mutex |-> "free", queued |-> FALSE]
  /\ pc = [timer |-> "idle", work |-> "idle", rx |-> "idle", rec |-> "idle",
           err |-> FALSE]
  /\ cmds = <<>> /\ events = <<>>
  /\ fw = [scan |-> 0, roc |-> 0]
  /\ used = [scans |-> 0, rocs |-> 0, deaths |-> 0, timeouts |-> 0,
             failures |-> 0, restarts |-> 0]
  /\ hist = [todo |-> [s \in Scans |-> 0], event |-> 0, overtaken |-> FALSE,
             timedOut |-> FALSE, crossed |-> FALSE]

MacReturns ==
  \/ \E n \in 1 .. MaxSsids, p2p \in BOOLEAN : ScanSend(n, p2p)
  \/ CancelAbort \/ AbortWaited \/ CancelRocWaited

Timer  == TimerExpires \/ TimerTakes \/ TimerReports \/ TimerResets
RxWork == ScanComplete \/ SplitSends \/ SplitTakes \/ ScanDone
          \/ AbortComplete \/ RocStarted \/ RocEnded \/ RocQueue
RocWork  == WorkTake \/ WorkForget \/ WorkClear \/ WorkCleared \/ WorkTell
            \/ WorkTold
Recovery == RecRestart \/ RecFlags \/ RecCancel \/ RecTakes \/ RecReports
            \/ RecResets \/ RecRoc \/ RecBegins \/ RecInProgress
            \/ RecStarting \/ RecQueues
Firmware == FwScanBegins \/ FwScanEnds \/ FwAborts \/ FwRocBegins
            \/ FwRocEnds \/ FwRocStops

Progress == MacReturns \/ Timer \/ RxWork \/ RocWork \/ Recovery \/ Firmware

Next == ScanBegin \/ CancelScan \/ RemainOnChannel \/ CancelRoc \/ FwDies
        \/ Progress

Spec == Init /\ [][Next]_vars

\* Threads run, timers expire and the firmware answers; mac80211 need not
\* call again.
FairSpec == Spec /\ WF_vars(Progress)

-----------------------------------------------------------------------------
(* Properties.                                                             *)

\* While mac80211 waits for the end of a scan one thread is to report it, and
\* otherwise none: nobody reports it twice or leaves it to another, although
\* mac80211, the timer, the receive work and the recovery all may end it.
\* (A scan that could not be allocated was refused and is ended all the same;
\* a cancel that could not be is never reported.)
Reporters ==
  {x \in {"status", "timer", "cancel", "recovery"} :
     \/ x = "status" /\ scan.status = "PROGRESS"
     \/ x = "timer"  /\ pc.timer = "report"
     \/ x = "cancel" /\ mac.pc = "abort_wait"
     \/ x = "recovery" /\ pc.rec = "report"}

OneReporter ==
  used.failures = 0 =>
    /\ mac.scan = 0 => Reporters = {}
    /\ mac.scan # 0 => \E x \in Reporters : Reporters = {x}

\* The receive work completes a scan.
Completion ==
  /\ pc.rx = "complete" /\ pc'.rx = "idle"
  /\ scan.status = "PROGRESS" /\ scan'.status = "NONE"

\* A scan is completed only when all its ssids have been scanned, unless it
\* is being cancelled, or the firmware was left scanning for one that had
\* ended: by a timeout, a restart, or a command sent after its scan's end.
CompleteWhenScanned ==
  [][(/\ Completion /\ mac.scan # 0 /\ ~mac.cancelled
      /\ Faults = 0 /\ ~hist.timedOut /\ ~hist.overtaken)
        => hist.todo[mac.scan] = 0]_vars

\* "this check will make sure we are not calling scan_complete when we have
\* already aborted the scan" (umac_if.c:2083): an event completes its own scan.
AbortedScanNotCompleted ==
  [][Completion => hist.event = mac.scan]_vars

\* Every scan is ended, by the firmware, by the timer or by a recovery.
ScanEnded == mac.scan # 0 ~> (mac.scan = 0 \/ used.failures > 0)

\* A period that mac80211 has asked for is ended for it, unless a cancel has
\* run out of time, after which its end is kept from mac80211, or the work and
\* the recovery have crossed (see RocSettles).
RocReported ==
  mac.roc # 0 ~> \/ mac.roc = 0 \/ hist.crossed
                 \/ used.failures + used.timeouts > 0

\* The driver does not refuse scans and periods for good: roc_starting and
\* roc_in_progress are cleared in the end. (A period may start as a recovery
\* ends it: it is then in progress with roc_starting clear, and a second
\* restart, before it has ended, leaves it so.)
RocSettles ==
  (roc.starting \/ roc.inProgress) ~>
     \/ ~roc.starting /\ ~roc.inProgress
     \/ used.failures > 0 \/ used.restarts > 1 \/ hist.crossed
=============================================================================
