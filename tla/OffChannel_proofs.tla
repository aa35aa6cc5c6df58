--------------------------- MODULE OffChannel_proofs ---------------------------
(***************************************************************************)
(* Theorems about OffChannel, for every value of its constants.            *)
(***************************************************************************)
EXTENDS OffChannel, SequenceTheorems, TLAPS

-----------------------------------------------------------------------------
(* Types.                                                                  *)

Commands == {m \in [id : {"SCAN", "ABORT", "ROC_START", "ROC_STOP"}, n : Nat] :
               m.id = "SCAN" => m.n \in Scans}
Reports  == {m \in [id : {"SCAN_COMPLETE", "ABORT_COMPLETE", "ROC_STARTED", "ROC_ENDED"},
                    n : Nat] :
               m.id = "SCAN_COMPLETE" => m.n \in Scans}
Macs  == [pc : {"idle", "scan", "cancel", "abort_wait", "roc_wait"}, scan : 0 .. MaxScans,
          roc : Nat, cancelled : BOOLEAN]
ScanStates == [status : {"NONE", "PROGRESS"}, remain : Int, p2p : BOOLEAN,
               timer : BOOLEAN, inTimeout : BOOLEAN, abortDone : BOOLEAN]
Rocs  == [inProgress : BOOLEAN, starting : BOOLEAN, cancel : BOOLEAN,
          cancelDone : BOOLEAN, mutex : {"free", "work"}, queued : BOOLEAN]
Pcs   == [timer : {"idle", "cancel", "report", "reset"},
          work : {"idle", "lock", "none", "clear", "tell", "told"},
          rx : {"idle", "split", "take", "complete", "queue"},
          rec : {"idle", "flags", "cancel", "take", "report", "reset", "roc",
                 "begin", "progress", "starting", "queue"},
          err : BOOLEAN]
Fws   == [scan : 0 .. MaxScans, roc : Nat]
Counts == [scans : 0 .. MaxScans, rocs : Nat, deaths : Nat, timeouts : Nat,
           failures : Nat, restarts : Nat]
Hists == [todo : [Scans -> Nat], event : 0 .. MaxScans, overtaken : BOOLEAN,
          timedOut : BOOLEAN, crossed : BOOLEAN]

\* The type of every variable.
TypeOK ==
    /\ mac \in Macs /\ scan \in ScanStates /\ roc \in Rocs /\ pc \in Pcs
    /\ cmds \in Seq(Commands) /\ events \in Seq(Reports)
    /\ fw \in Fws /\ used \in Counts /\ hist \in Hists

\* Whoever is about to send a command for a scan, or to handle its event, knows
\* its number.
NumberInv ==
    /\ mac.pc = "scan" => used.scans \in Scans
    /\ mac.scan # 0 => mac.scan = used.scans
    /\ pc.rx = "split" => hist.event \in Scans

-----------------------------------------------------------------------------
(* A scan without faults that is not cancelled: where it is.               *)

\* Nothing has gone wrong so far.
Calm == Faults = 0 /\ ~hist.timedOut /\ ~hist.overtaken

\* The messages of a queue: whether there is one, at most one, a before b, and
\* for the scan n.
Has(s, id) == \E i \in DOMAIN s : s[i].id = id
Once(s, id) == \A i, j \in DOMAIN s : s[i].id = id /\ s[j].id = id => i = j
Precedes(s, a, b) == \A i, j \in DOMAIN s : s[i].id = a /\ s[j].id = b => i < j
Numbered(s, id, n) == \A i \in DOMAIN s : s[i].id = id => s[i].n = n

\* The command of a scan, its event, and the event handled.
InCmds   == Has(cmds, "SCAN")
InEvents == Has(events, "SCAN_COMPLETE")
InRx     == pc.rx \in {"split", "complete"}

AbortInCmds   == Has(cmds, "ABORT")
AbortInEvents == Has(events, "ABORT_COMPLETE")

NoScan == ~InCmds /\ fw.scan = 0 /\ ~InEvents /\ ~InRx

\* In each queue at most one message is of a scan, the last one, and it comes
\* before that of an abort.
CmdsOK ==
    /\ Once(cmds, "SCAN") /\ Once(cmds, "ABORT") /\ Precedes(cmds, "SCAN", "ABORT")
    /\ Numbered(cmds, "SCAN", used.scans)

EventsOK ==
    /\ Once(events, "SCAN_COMPLETE") /\ Once(events, "ABORT_COMPLETE")
    /\ Precedes(events, "SCAN_COMPLETE", "ABORT_COMPLETE")
    /\ Numbered(events, "SCAN_COMPLETE", used.scans)

\* At most one ssid is under way at a time, and it is of the last scan.
OneSsid ==
    /\ InCmds => fw.scan = 0 /\ ~InEvents /\ ~InRx
    /\ fw.scan # 0 => ~InEvents /\ ~InRx /\ fw.scan = used.scans
    /\ InEvents => ~InRx
    /\ InRx => hist.event = used.scans

\* An abort is under way while mac80211 waits for it, and follows the scan.
AbortLast ==
    /\ AbortInCmds => ~AbortInEvents
    /\ AbortInEvents => ~InCmds /\ fw.scan = 0
    /\ AbortInCmds \/ AbortInEvents => mac.pc = "abort_wait" /\ ~scan.abortDone

\* Between scans, and once an abort is done, nothing of a scan is under way.
Ended ==
    mac.scan = 0 \/ mac.pc = "scan" \/ (mac.pc = "abort_wait" /\ scan.abortDone) =>
      NoScan /\ pc.rx # "take"

\* One ssid more is in the list while it is being taken out; one is commanded or
\* being scanned.
Taking == IF pc.rx = "take" THEN 1 ELSE 0
Ahead  == IF InCmds \/ fw.scan # 0 THEN 1 ELSE 0

\* A scan that is not cancelled: its ssids are those in the list and the one
\* under way, and the list is empty when it is completed.
Remaining ==
    mac.scan # 0 /\ ~mac.cancelled /\ mac.pc # "scan" =>
      /\ scan.remain - Taking >= 0
      /\ hist.todo[mac.scan] = scan.remain - Taking + Ahead
      /\ pc.rx = "split" => scan.remain > 0
      /\ pc.rx = "complete" => scan.remain <= 0

CalmState ==
    /\ pc.timer \in {"idle", "cancel"} /\ pc.rec = "idle" /\ ~FwError
    /\ mac.pc = "scan" => mac.scan # 0
    /\ mac.pc \in {"cancel", "abort_wait"} => mac.scan = 0 \/ mac.cancelled
    /\ CmdsOK /\ EventsOK /\ OneSsid /\ AbortLast /\ Ended /\ Remaining

CalmInv == Calm => CalmState

-----------------------------------------------------------------------------
(* Every step keeps the types.                                               *)

LEMMA SendType ==
    ASSUME TypeOK, NEW id \in {"SCAN", "ABORT", "ROC_START", "ROC_STOP"}, NEW n \in Nat,
           id = "SCAN" => n \in Scans, Send(id, n)
    PROVE  cmds' \in Seq(Commands)
<1>1. Msg(id, n) \in Commands
  BY DEF Msg, Commands
<1> QED
  BY <1>1, AppendProperties DEF TypeOK, Send

LEMMA TellsType ==
    ASSUME TypeOK, NEW n \in Nat,
           NEW id \in {"SCAN_COMPLETE", "ABORT_COMPLETE", "ROC_STARTED", "ROC_ENDED"},
           id = "SCAN_COMPLETE" => n \in Scans, Tells(id, n)
    PROVE  events' \in Seq(Reports)
<1>1. Msg(id, n) \in Reports
  BY DEF Msg, Reports
<1> QED
  BY <1>1, AppendProperties DEF TypeOK, Tells

LEMMA TakesType ==
    ASSUME TypeOK, NEW id, Takes(id)
    PROVE  cmds' \in Seq(Commands) /\ Head(cmds) \in Commands /\ Head(cmds).id = id
  BY HeadTailProperties DEF TypeOK, Takes

LEMMA HandlesType ==
    ASSUME TypeOK, NEW id, Handles(id)
    PROVE  events' \in Seq(Reports) /\ Head(events) \in Reports /\ Head(events).id = id
  BY HeadTailProperties DEF TypeOK, Handles

\* A counter of faults goes up, or nothing does.
LEMMA FaultType ==
    ASSUME TypeOK, NEW what \in {"deaths", "timeouts", "failures"},
           used' = Used(what) \/ UNCHANGED used
    PROVE  /\ used' \in Counts /\ used'.scans = used.scans /\ used'.rocs = used.rocs
           /\ used'.failures = 0 => used.failures = 0
           /\ what # "failures" => used'.failures = used.failures
           /\ Faults' = 0 => Faults = 0 /\ used' = used
<1> DEFINE d == used.deaths
           t == used.timeouts
           f == used.failures
<1>1. used \in Counts /\ d \in Nat /\ t \in Nat /\ f \in Nat /\ used.restarts \in Nat
  BY DEF TypeOK, Counts
<1>2. Faults' = used'.deaths + used'.timeouts + used'.failures /\ Faults = d + t + f
  BY DEF Faults
<1>3. CASE UNCHANGED used
  BY <1>1, <1>2, <1>3
<1>4. CASE what = "deaths" /\ used' = [used EXCEPT !.deaths = d + 1]
  <2>1. used' \in Counts /\ used'.scans = used.scans /\ used'.rocs = used.rocs
        /\ used'.deaths = d + 1 /\ used'.timeouts = t /\ used'.failures = f
    BY <1>1, <1>4 DEF Counts
  <2> HIDE DEF d, t, f
  <2> QED
    BY <1>1, <1>2, <1>4, <2>1
<1>5. CASE what = "timeouts" /\ used' = [used EXCEPT !.timeouts = t + 1]
  <2>1. used' \in Counts /\ used'.scans = used.scans /\ used'.rocs = used.rocs
        /\ used'.deaths = d /\ used'.timeouts = t + 1 /\ used'.failures = f
    BY <1>1, <1>5 DEF Counts
  <2> HIDE DEF d, t, f
  <2> QED
    BY <1>1, <1>2, <1>5, <2>1
<1>6. CASE what = "failures" /\ used' = [used EXCEPT !.failures = f + 1]
  <2>1. used' \in Counts /\ used'.scans = used.scans /\ used'.rocs = used.rocs
        /\ used'.deaths = d /\ used'.timeouts = t /\ used'.failures = f + 1
    BY <1>1, <1>6 DEF Counts
  <2> HIDE DEF d, t
  <2> QED
    BY <1>1, <1>2, <1>6, <2>1
<1> QED
  BY <1>3, <1>4, <1>5, <1>6 DEF Used

\* So it is with the restarts, with or without one more timeout.
LEMMA RestartType ==
    ASSUME TypeOK, RecRestart
    PROVE  /\ used' \in Counts /\ used'.scans = used.scans /\ used'.rocs = used.rocs
           /\ used'.failures = used.failures
           /\ Faults' = 0 => Faults = 0 /\ pc.rx = "idle" /\ events = <<>>
<1>1. used \in Counts
  BY DEF TypeOK
<1>2. /\ Restarted \in Counts /\ Restarted.scans = used.scans /\ Restarted.rocs = used.rocs
      /\ Restarted.failures = used.failures /\ Restarted.deaths = used.deaths
      /\ Restarted.timeouts = used.timeouts
  BY <1>1 DEF Restarted, Counts
<1>3. CASE pc.rx = "idle" /\ events = <<>> /\ used' = Restarted
  BY <1>2, <1>3 DEF Faults
<1>4. CASE used' = [Restarted EXCEPT !.timeouts = @ + 1]
  <2>1. /\ used' \in Counts /\ used'.scans = used.scans /\ used'.rocs = used.rocs
        /\ used'.failures = used.failures /\ used'.deaths = used.deaths
        /\ used'.timeouts = used.timeouts + 1
    BY <1>2, <1>4 DEF Counts
  <2>2. used.failures \in Nat /\ used.deaths \in Nat /\ used.timeouts \in Nat
    BY <1>1 DEF Counts
  <2> QED
    BY <2>1, <2>2 DEF Faults
<1> QED
  BY <1>3, <1>4 DEF RecRestart

LEMMA FailsType ==
    ASSUME TypeOK, Fails
    PROVE  used' \in Counts /\ used'.failures # 0 /\ used'.scans = used.scans
           /\ cmds' = cmds
<1>1. used' = [used EXCEPT !.failures = @ + 1] /\ cmds' = cmds
  BY DEF Fails, Fault, Used
<1> QED
  BY <1>1 DEF TypeOK, Counts

LEMMA WaitedType ==
    ASSUME TypeOK, NEW done, Waited(done)
    PROVE  used' \in Counts /\ used'.scans = used.scans
  BY FaultType DEF Waited, Fault

LEMMA SignalledType ==
    ASSUME TypeOK
    PROVE  Signalled \in Pcs /\ [Signalled EXCEPT !.timer = "idle"] \in Pcs
           /\ [Signalled EXCEPT !.rec = "roc"] \in Pcs
           /\ [Signalled EXCEPT !.rec = "roc"].rx = pc.rx
           /\ [Signalled EXCEPT !.rec = "roc"].timer = pc.timer
           /\ Signalled.timer = pc.timer /\ Signalled.rx = pc.rx
           /\ [Signalled EXCEPT !.timer = "idle"].rx = pc.rx
           /\ [Signalled EXCEPT !.timer = "idle"].timer = "idle"
<1>1. pc \in Pcs
  BY DEF TypeOK
<1>3. Signalled \in Pcs /\ Signalled.timer = pc.timer /\ Signalled.rx = pc.rx
  BY <1>1 DEF Signalled, Pcs
<1> QED
  BY <1>1, <1>3 DEF Pcs

LEMMA MacTypes ==
    ASSUME TypeOK, NumberInv,
           \/ ScanBegin \/ CancelScan \/ CancelAbort \/ AbortWaited \/ RemainOnChannel
           \/ CancelRoc \/ CancelRocWaited
           \/ \E n \in 1 .. MaxSsids, p2p \in BOOLEAN : ScanSend(n, p2p)
    PROVE  TypeOK'
<1>1. mac \in Macs /\ scan \in ScanStates /\ roc \in Rocs /\ pc \in Pcs /\ used \in Counts
      /\ hist \in Hists /\ MaxScans \in Nat /\ MaxSsids \in Nat /\ 0 \in 0 .. MaxScans
  BY OffChannelAssumption DEF TypeOK
<1>2. CASE ScanBegin
  <2>1. used.scans + 1 \in 0 .. MaxScans
    BY <1>1, <1>2 DEF ScanBegin, Counts
  <2>2. used' = [used EXCEPT !.scans = @ + 1]
        /\ mac' = [mac EXCEPT !.pc = "scan", !.scan = used.scans + 1, !.cancelled = FALSE]
        /\ scan' = [scan EXCEPT !.status = "PROGRESS"]
    BY <1>2 DEF ScanBegin, Used
  <2>3. used' \in Counts
    BY <1>1, <2>1, <2>2 DEF Counts
  <2>4. mac' \in Macs /\ scan' \in ScanStates
    BY <1>1, <2>1, <2>2 DEF Macs, ScanStates
  <2> QED
    BY <1>2, <2>3, <2>4 DEF TypeOK, ScanBegin
<1>3. CASE CancelScan
  <2>1. mac' \in Macs
    BY <1>1, <1>3 DEF CancelScan, Macs
  <2>2. scan' \in ScanStates
    BY <1>1, <1>3 DEF CancelScan, ScanStates
  <2> QED
    BY <1>3, <2>1, <2>2 DEF TypeOK, CancelScan
<1>4. CASE CancelAbort
  <2>1. \/ mac' = [mac EXCEPT !.pc = "abort_wait"] \/ mac' = [mac EXCEPT !.pc = "idle"]
    BY <1>4 DEF CancelAbort
  <2>2. mac' \in Macs
    BY <1>1, <2>1 DEF Macs
  <2>3. scan' = scan \/ scan' = [TakeScan EXCEPT !.abortDone = FALSE]
    BY <1>4 DEF CancelAbort
  <2>4. scan' \in ScanStates
    BY <1>1, <2>3 DEF TakeScan, ScanStates
  <2>5. used' \in Counts /\ cmds' \in Seq(Commands)
    BY <1>4, FailsType, SendType DEF TypeOK, CancelAbort
  <2> QED
    BY <1>4, <2>2, <2>4, <2>5 DEF TypeOK, CancelAbort
<1>5. CASE AbortWaited
  <2>1. mac' = [Reported EXCEPT !.pc = "idle"]
    BY <1>5 DEF AbortWaited
  <2>5. mac' \in Macs
    BY <1>1, <2>1 DEF Macs, Reported
  <2>2. scan' \in ScanStates /\ pc' \in Pcs
    BY <1>1, <1>5, SignalledType DEF AbortWaited, ScanStates
  <2>3. hist' \in Hists
    BY <1>1, <1>5 DEF AbortWaited, Hists
  <2>4. used' \in Counts
    BY <1>5, WaitedType DEF AbortWaited
  <2> QED
    BY <1>5, <2>2, <2>3, <2>4, <2>5 DEF TypeOK, AbortWaited
<1>6. CASE RemainOnChannel
  <2>1. roc' \in Rocs
    BY <1>1, <1>6 DEF RemainOnChannel, Rocs
  <2>2. CASE Send("ROC_START", used.rocs + 1) /\ mac' = [mac EXCEPT !.roc = used.rocs + 1]
             /\ used' = [used EXCEPT !.rocs = @ + 1]
    <3>1. used.rocs + 1 \in Nat
      BY <1>1 DEF Counts
    <3>2. mac' \in Macs /\ used' \in Counts /\ cmds' \in Seq(Commands)
      BY <1>1, <2>2, <3>1, SendType DEF Macs, Counts
    <3> QED
      BY <1>6, <2>1, <3>2 DEF TypeOK, RemainOnChannel
  <2>3. CASE Fails /\ UNCHANGED mac
    BY <1>6, <2>1, <2>3, FailsType DEF TypeOK, RemainOnChannel
  <2> QED
    BY <1>6, <2>2, <2>3 DEF RemainOnChannel, Used
<1>7. CASE CancelRoc
  <2>1. roc' \in Rocs
    BY <1>1, <1>7 DEF CancelRoc, Rocs
  <2>2. \/ mac' = mac \/ mac' = [mac EXCEPT !.pc = "roc_wait"]
        \/ mac' = [mac EXCEPT !.roc = 0]
    BY <1>7 DEF CancelRoc
  <2>3. mac' \in Macs
    BY <1>1, <2>2 DEF Macs
  <2>4. used' \in Counts /\ cmds' \in Seq(Commands)
    BY <1>7, FailsType, SendType DEF TypeOK, CancelRoc
  <2> QED
    BY <1>7, <2>1, <2>3, <2>4 DEF TypeOK, CancelRoc
<1>8. CASE CancelRocWaited
  <2>1. PICK r \in {0, mac.roc} : mac' = [mac EXCEPT !.pc = "idle", !.roc = r]
    BY <1>8 DEF CancelRocWaited
  <2>4. r \in Nat
    BY <1>1, <2>1 DEF Macs
  <2>5. mac' \in Macs
    BY <1>1, <2>1, <2>4 DEF Macs
  <2>2. roc' \in Rocs
    BY <1>1, <1>8 DEF CancelRocWaited, Rocs
  <2>3. used' \in Counts
    BY <1>8, WaitedType DEF CancelRocWaited
  <2> QED
    BY <1>8, <2>2, <2>3, <2>5 DEF TypeOK, CancelRocWaited
<1>9. ASSUME NEW n \in 1 .. MaxSsids, NEW p2p \in BOOLEAN, ScanSend(n, p2p) PROVE TypeOK'
  <2>7. n \in Nat /\ RemainAfter(n) \in Int
    BY <1>1, <1>9 DEF RemainAfter
  <2>8. used.scans \in Scans
    BY <1>9 DEF ScanSend, Calls, NumberInv
  <2>1. n \in Nat /\ RemainAfter(n) \in Int /\ used.scans \in Scans /\ used.scans \in Nat
    BY <1>1, <2>7, <2>8 DEF Counts
  <2>2. scan' = [scan EXCEPT !.timer = TRUE, !.p2p = p2p, !.remain = RemainAfter(n)]
        /\ hist' = [hist EXCEPT !.todo = [[s \in Scans |-> 0] EXCEPT ![used.scans] = n]]
    BY <1>1, <1>9 DEF ScanSend, Hists
  <2>3. scan' \in ScanStates
    BY <1>1, <2>1, <2>2 DEF ScanStates
  <2>4. hist' \in Hists
    <3>1. [[s \in Scans |-> 0] EXCEPT ![used.scans] = n] \in [Scans -> Nat]
      BY <2>1
    <3> QED
      BY <1>1, <2>2, <3>1 DEF Hists
  <2>9. \/ mac' = [mac EXCEPT !.pc = "idle"] \/ mac' = [mac EXCEPT !.pc = "idle", !.scan = 0]
    BY <1>9 DEF ScanSend
  <2>5. mac' \in Macs
    BY <1>1, <2>9 DEF Macs
  <2>6. used' \in Counts /\ cmds' \in Seq(Commands)
    BY <1>9, <2>1, FailsType, SendType DEF TypeOK, ScanSend
  <2> QED
    BY <1>9, <2>3, <2>4, <2>5, <2>6 DEF TypeOK, ScanSend
<1> QED
  BY <1>2, <1>3, <1>4, <1>5, <1>6, <1>7, <1>8, <1>9

LEMMA ReportedType == TypeOK => Reported \in Macs /\ Reported.pc = mac.pc
<1> SUFFICES ASSUME TypeOK PROVE Reported \in Macs /\ Reported.pc = mac.pc
  OBVIOUS
<1>1. mac \in Macs /\ 0 \in 0 .. MaxScans
  BY OffChannelAssumption DEF TypeOK
<1> QED
  BY <1>1 DEF Reported, Macs

LEMMA TakeScanType ==
    ASSUME TypeOK
    PROVE  /\ TakeScan \in ScanStates /\ TakeScan.status = "NONE"
           /\ TakeScan.remain = scan.remain
  BY DEF TypeOK, TakeScan, ScanStates

LEMMA TimerTypes == ASSUME TypeOK, Timer PROVE TypeOK'
<1>1. scan \in ScanStates /\ pc \in Pcs /\ hist \in Hists
  BY DEF TypeOK
<1>2. CASE TimerExpires
  <2>1. scan' \in ScanStates
    <3>1. scan' = [scan EXCEPT !.timer = FALSE, !.inTimeout = TRUE, !.remain = 0]
      BY <1>2 DEF TimerExpires
    <3>2. [scan EXCEPT !.timer = FALSE, !.inTimeout = TRUE] \in ScanStates
      BY <1>1 DEF ScanStates
    <3>3. scan' = [[scan EXCEPT !.timer = FALSE, !.inTimeout = TRUE] EXCEPT !.remain = 0]
      BY <1>1, <3>1 DEF ScanStates
    <3>4. \A r \in Int, x \in ScanStates : [x EXCEPT !.remain = r] \in ScanStates
      BY DEF ScanStates
    <3>5. 0 \in Int
      OBVIOUS
    <3> QED
      BY <3>2, <3>3, <3>4, <3>5
  <2>2. pc' \in Pcs /\ hist' \in Hists
    BY <1>1, <1>2 DEF TimerExpires, Pcs, Hists
  <2> QED
    BY <1>2, <2>1, <2>2 DEF TypeOK, TimerExpires
<1>3. CASE TimerTakes
  <2>1. scan' \in ScanStates
    BY <1>1, <1>3, TakeScanType DEF TimerTakes, ScanStates
  <2>2. pc' \in Pcs
    BY <1>1, <1>3 DEF TimerTakes, Pcs
  <2>3. hist' \in Hists
    BY <1>1, <1>3 DEF TimerTakes, Hists
  <2> QED
    BY <1>3, <2>1, <2>2, <2>3 DEF TypeOK, TimerTakes
<1>4. CASE TimerReports
  <2>1. pc' \in Pcs
    BY <1>1, <1>4 DEF TimerReports, Pcs
  <2> QED
    BY <1>4, <2>1, ReportedType DEF TypeOK, TimerReports
<1>5. CASE TimerResets
  <2>1. scan' \in ScanStates
    BY <1>1, <1>5 DEF TimerResets, ScanStates
  <2>2. pc' = [Signalled EXCEPT !.timer = "idle"] \/ pc' = [pc EXCEPT !.timer = "idle"]
    BY <1>5 DEF TimerResets
  <2>3. pc' \in Pcs
    BY <1>1, <2>2, SignalledType DEF Pcs
  <2> QED
    BY <1>5, <2>1, <2>3 DEF TypeOK, TimerResets
<1> QED
  BY <1>2, <1>3, <1>4, <1>5 DEF Timer

LEMMA RxTypes == ASSUME TypeOK, NumberInv, RxWork PROVE TypeOK'
<1>1. scan \in ScanStates /\ pc \in Pcs /\ hist \in Hists /\ roc \in Rocs
      /\ MaxScans \in Nat /\ 0 \in 0 .. MaxScans
  BY OffChannelAssumption DEF TypeOK
<1>2. CASE ScanComplete
  <2>1. Head(events).n \in Scans /\ events' \in Seq(Reports)
    BY <1>2, HandlesType DEF ScanComplete, Reports
  <2>2. Head(events).n \in 0 .. MaxScans
    BY <1>1, <2>1 DEF Scans
  <2>3. hist' \in Hists
    BY <1>1, <1>2, <2>2 DEF ScanComplete, Hists
  <2>4. pc' \in Pcs
    BY <1>1, <1>2 DEF ScanComplete, Pcs
  <2> QED
    BY <1>2, <2>1, <2>3, <2>4 DEF TypeOK, ScanComplete
<1>3. CASE SplitSends
  <2>1. hist.event \in Scans /\ hist.event \in Nat
    BY <1>1, <1>3 DEF SplitSends, NumberInv, Scans
  <2>2. used' \in Counts /\ cmds' \in Seq(Commands)
    BY <1>3, <2>1, FailsType, SendType DEF TypeOK, SplitSends
  <2>3. hist' \in Hists
    BY <1>1, <1>3 DEF SplitSends, Hists
  <2>4. pc' \in Pcs
    BY <1>1, <1>3 DEF SplitSends, Pcs
  <2> QED
    BY <1>3, <2>2, <2>3, <2>4 DEF TypeOK, SplitSends
<1>4. CASE SplitTakes
  <2>1. scan' \in ScanStates
    BY <1>1, <1>4 DEF SplitTakes, ScanStates
  <2>2. hist' \in Hists
    BY <1>1, <1>4 DEF SplitTakes, Hists
  <2>3. pc' \in Pcs
    BY <1>1, <1>4 DEF SplitTakes, Pcs
  <2> QED
    BY <1>4, <2>1, <2>2, <2>3 DEF TypeOK, SplitTakes
<1>5. CASE ScanDone
  <2>1. scan' \in ScanStates /\ mac' \in Macs
    BY <1>5, TakeScanType, ReportedType DEF ScanDone, TypeOK
  <2>2. hist' \in Hists
    BY <1>1, <1>5 DEF ScanDone, Hists
  <2>3. pc' \in Pcs
    BY <1>1, <1>5 DEF ScanDone, Pcs
  <2> QED
    BY <1>5, <2>1, <2>2, <2>3 DEF TypeOK, ScanDone
<1>6. CASE AbortComplete
  <2>1. scan' \in ScanStates
    BY <1>1, <1>6 DEF AbortComplete, ScanStates
  <2> QED
    BY <1>6, <2>1, HandlesType DEF TypeOK, AbortComplete
<1>7. CASE RocStarted
  <2>1. roc' \in Rocs
    BY <1>1, <1>7 DEF RocStarted, Rocs
  <2> QED
    BY <1>7, <2>1, HandlesType DEF TypeOK, RocStarted
<1>8. CASE RocEnded
  <2>1. pc' \in Pcs
    BY <1>1, <1>8 DEF RocEnded, Pcs
  <2> QED
    BY <1>8, <2>1, HandlesType DEF TypeOK, RocEnded
<1>9. CASE RocQueue
  <2>1. roc' \in Rocs /\ pc' \in Pcs
    BY <1>1, <1>9 DEF RocQueue, Rocs, Pcs
  <2> QED
    BY <1>9, <2>1 DEF TypeOK, RocQueue
<1> QED
  BY <1>2, <1>3, <1>4, <1>5, <1>6, <1>7, <1>8, <1>9 DEF RxWork

LEMMA RocTypes == ASSUME TypeOK, RocWork PROVE TypeOK'
<1>1. roc \in Rocs /\ pc \in Pcs /\ mac \in Macs /\ hist \in Hists
  BY DEF TypeOK
<1>2. roc' \in Rocs
  BY <1>1 DEF RocWork, WorkTake, WorkForget, WorkClear, WorkCleared, WorkTell, WorkTold,
              Cleared, Rocs
<1>3. pc' \in Pcs
  BY <1>1 DEF RocWork, WorkTake, WorkForget, WorkClear, WorkCleared, WorkTell, WorkTold, Pcs
<1>4. mac' \in Macs
  <2>1. mac' = mac \/ mac' = [mac EXCEPT !.roc = 0]
    BY DEF RocWork, WorkTake, WorkForget, WorkClear, WorkCleared, WorkTell, WorkTold
  <2> QED
    BY <1>1, <2>1 DEF Macs
<1>5. hist' \in Hists
  <2>1. \/ hist' = hist
        \/ hist' = [hist EXCEPT !.crossed = hist.crossed \/ roc.starting]
    BY DEF RocWork, WorkTake, WorkForget, WorkClear, WorkCleared, WorkTell, WorkTold
  <2> QED
    BY <1>1, <2>1 DEF Hists, Rocs
<1> QED
  BY <1>2, <1>3, <1>4, <1>5
     DEF TypeOK, RocWork, WorkTake, WorkForget, WorkClear, WorkCleared, WorkTell, WorkTold

LEMMA RecoveryTypes == ASSUME TypeOK, Recovery PROVE TypeOK'
<1>1. scan \in ScanStates /\ pc \in Pcs /\ roc \in Rocs /\ hist \in Hists
      /\ MaxScans \in Nat /\ 0 \in 0 .. MaxScans
  BY OffChannelAssumption DEF TypeOK
<1>2. CASE RecRestart
  <2>1. fw' \in Fws
    BY <1>1, <1>2 DEF RecRestart, Fws
  <2>2. used' \in Counts
    BY <1>2, RestartType
  <2>3. pc' \in Pcs
    BY <1>1, <1>2 DEF RecRestart, Pcs
  <2>4. hist' \in Hists
    <3>1. RocEventLeft \in BOOLEAN
      BY DEF RocEventLeft
    <3> QED
      BY <1>1, <1>2, <3>1 DEF RecRestart, Hists
  <2> QED
    BY <1>2, <2>1, <2>2, <2>3, <2>4 DEF TypeOK, RecRestart
<1>3. CASE RecFlags
  <2>1. scan' \in ScanStates /\ roc' \in Rocs
    BY <1>1, <1>3 DEF RecFlags, ScanStates, Rocs
  <2>2. pc' \in Pcs
    BY <1>1, <1>3 DEF RecFlags, RecGoes, Pcs
  <2> QED
    BY <1>3, <2>1, <2>2 DEF TypeOK, RecFlags, recFrame
<1>4. CASE RecCancel
  <2>1. scan' \in ScanStates
    BY <1>1, <1>4 DEF RecCancel, ScanStates
  <2>2. pc' \in Pcs
    BY <1>1, <1>4 DEF RecCancel, RecGoes, Pcs
  <2> QED
    BY <1>4, <2>1, <2>2 DEF TypeOK, RecCancel, recFrame
<1>5. CASE RecTakes
  <2>1. scan' \in ScanStates
    BY <1>5, TakeScanType DEF RecTakes, TypeOK
  <2>2. pc' \in Pcs
    BY <1>1, <1>5 DEF RecTakes, RecGoes, Pcs
  <2> QED
    BY <1>5, <2>1, <2>2 DEF TypeOK, RecTakes, recFrame
<1>6. CASE RecReports
  <2>1. pc' \in Pcs
    BY <1>1, <1>6 DEF RecReports, RecGoes, Pcs
  <2> QED
    BY <1>6, <2>1, ReportedType DEF TypeOK, RecReports, recFrame
<1>7. CASE RecResets
  <2>1. scan' \in ScanStates
    BY <1>1, <1>7 DEF RecResets, Overdue, ScanStates
  <2>2. pc' = [Signalled EXCEPT !.rec = "roc"] \/ pc' = [pc EXCEPT !.rec = "roc"]
    BY <1>7 DEF RecResets
  <2>3. pc' \in Pcs
    BY <1>1, <2>2, SignalledType DEF Pcs
  <2> QED
    BY <1>7, <2>1, <2>3 DEF TypeOK, RecResets, recFrame
<1>8. CASE RecRoc \/ RecInProgress \/ RecStarting
  <2>1. pc' \in Pcs
    BY <1>1, <1>8 DEF RecRoc, RecInProgress, RecStarting, RecGoes, Pcs
  <2> QED
    BY <1>8, <2>1 DEF TypeOK, RecRoc, RecInProgress, RecStarting, recFrame
<1>9. CASE RecBegins \/ RecQueues
  <2>1. roc' \in Rocs
    BY <1>1, <1>9 DEF RecBegins, RecQueues, Rocs
  <2>2. pc' \in Pcs
    BY <1>1, <1>9 DEF RecBegins, RecQueues, RecGoes, Pcs
  <2>3. hist' \in Hists
    BY <1>1, <1>9 DEF RecBegins, RecQueues, recFrame, Hists
  <2> QED
    BY <1>9, <2>1, <2>2, <2>3 DEF TypeOK, RecBegins, RecQueues, recFrame
<1> QED
  BY <1>2, <1>3, <1>4, <1>5, <1>6, <1>7, <1>8, <1>9 DEF Recovery

LEMMA FirmwareTypes == ASSUME TypeOK, Firmware \/ FwDies PROVE TypeOK'
<1>1. fw \in Fws /\ hist \in Hists /\ MaxScans \in Nat /\ 0 \in 0 .. MaxScans
  BY OffChannelAssumption DEF TypeOK
<1>2. CASE FwScanBegins
  <2>1. Head(cmds).n \in Scans /\ cmds' \in Seq(Commands)
    BY <1>2, TakesType DEF FwScanBegins, Commands
  <2>2. Head(cmds).n \in 0 .. MaxScans
    BY <1>1, <2>1 DEF Scans
  <2>3. fw' \in Fws
    BY <1>1, <1>2, <2>2 DEF FwScanBegins, Fws
  <2> QED
    BY <1>2, <2>1, <2>3 DEF TypeOK, FwScanBegins, fwFrame
<1>3. CASE FwScanEnds
  <2>1. fw.scan \in Scans /\ fw.scan \in Nat
    BY <1>1, <1>3 DEF FwScanEnds, Fws, Scans
  <2>2. events' \in Seq(Reports)
    BY <1>3, <2>1, TellsType DEF FwScanEnds
  <2>3. fw' \in Fws
    BY <1>1, <1>3 DEF FwScanEnds, Fws
  <2>4. hist' \in Hists
    <3>1. PICK m : /\ m = IF hist.todo[fw.scan] = 0 THEN 0 ELSE hist.todo[fw.scan] - 1
                   /\ hist' = [hist EXCEPT !.todo = [hist.todo EXCEPT ![fw.scan] = m]]
      BY <1>1, <1>3, <2>1 DEF FwScanEnds, Hists
    <3>2. m \in Nat
      <4>1. hist.todo[fw.scan] \in Nat
        BY <1>1, <2>1 DEF Hists
      <4> QED
        BY <3>1, <4>1
    <3>3. [hist.todo EXCEPT ![fw.scan] = m] \in [Scans -> Nat]
      BY <1>1, <3>2 DEF Hists
    <3> QED
      BY <1>1, <3>1, <3>3 DEF Hists
  <2> QED
    BY <1>3, <2>2, <2>3, <2>4 DEF TypeOK, FwScanEnds, fwFrame
<1>4. CASE FwAborts
  <2>1. fw' \in Fws
    BY <1>1, <1>4 DEF FwAborts, Fws
  <2> QED
    BY <1>4, <2>1, TakesType, TellsType DEF TypeOK, FwAborts, fwFrame
<1>5. CASE FwRocBegins
  <2>1. Head(cmds).n \in Nat /\ cmds' \in Seq(Commands)
    BY <1>5, TakesType DEF FwRocBegins, Commands
  <2>2. fw' \in Fws
    BY <1>1, <1>5, <2>1 DEF FwRocBegins, Fws
  <2> QED
    BY <1>5, <2>1, <2>2, TellsType DEF TypeOK, FwRocBegins, fwFrame
<1>6. CASE FwRocEnds
  <2>1. fw' \in Fws
    BY <1>1, <1>6 DEF FwRocEnds, Fws
  <2> QED
    BY <1>6, <2>1, TellsType DEF TypeOK, FwRocEnds, fwFrame
<1>7. CASE FwRocStops
  <2>1. fw' \in Fws
    BY <1>1, <1>7 DEF FwRocStops, Fws
  <2> QED
    BY <1>7, <2>1, TakesType, TellsType DEF TypeOK, FwRocStops, fwFrame
<1>8. CASE FwDies
  <2>1. used' \in Counts
    BY <1>8, FaultType DEF FwDies, Fault
  <2>2. events' \in Seq(Reports)
    <3>1. PICK n \in 0 .. Len(events) : events' = SubSeq(events, 1, n)
      BY <1>8 DEF FwDies
    <3>2. events \in Seq(Reports) /\ Len(events) \in Nat
      BY DEF TypeOK
    <3>3. \A i \in 1 .. n : events[i] \in Reports
      BY <3>1, <3>2
    <3> QED
      BY <3>1, <3>2, <3>3, SubSeqProperties
  <2> QED
    BY <1>8, <2>1, <2>2, SignalledType DEF TypeOK, FwDies
<1> QED
  BY <1>2, <1>3, <1>4, <1>5, <1>6, <1>7, <1>8 DEF Firmware

LEMMA InitTypes == Init => TypeOK /\ NumberInv
<1> SUFFICES ASSUME Init PROVE TypeOK /\ NumberInv
  OBVIOUS
<1>1. 0 \in 0 .. MaxScans
  BY OffChannelAssumption
<1>2. mac \in Macs /\ fw \in Fws /\ used \in Counts
  BY <1>1 DEF Init, Macs, Fws, Counts
<1>3. scan \in ScanStates /\ roc \in Rocs /\ pc \in Pcs
  BY DEF Init, ScanStates, Rocs, Pcs
<1>4. hist \in Hists
  BY <1>1 DEF Init, Hists
<1>5. cmds \in Seq(Commands) /\ events \in Seq(Reports)
  BY EmptySeq DEF Init
<1>6. NumberInv
  BY DEF Init, NumberInv
<1> QED
  BY <1>2, <1>3, <1>4, <1>5, <1>6 DEF TypeOK

LEMMA StepTypes == TypeOK /\ NumberInv /\ [Next]_vars => TypeOK'
<1> SUFFICES ASSUME TypeOK, NumberInv, [Next]_vars PROVE TypeOK'
  OBVIOUS
<1>1. CASE UNCHANGED vars
  BY <1>1 DEF vars, TypeOK
<1>2. CASE Next
  BY <1>2, MacTypes, TimerTypes, RxTypes, RocTypes, RecoveryTypes, FirmwareTypes
     DEF Next, Progress, MacReturns
<1> QED
  BY <1>1, <1>2

-----------------------------------------------------------------------------
(* One thread is to report the end of a scan.                                *)

\* The scan is the receive work's or whoever's takes it first, the timer's, or
\* mac80211's own.
ByStatus == scan.status = "PROGRESS"
ByTimer  == pc.timer = "report"
ByCancel == mac.pc = "abort_wait"

ByRecovery == pc.rec = "report"

\* Nobody, or one of them and no other.
Nobody  == ~ByStatus /\ ~ByTimer /\ ~ByCancel /\ ~ByRecovery
OneOnly ==
    \/ ByStatus   /\ ~ByTimer  /\ ~ByCancel /\ ~ByRecovery
    \/ ByTimer    /\ ~ByStatus /\ ~ByCancel /\ ~ByRecovery
    \/ ByCancel   /\ ~ByStatus /\ ~ByTimer  /\ ~ByRecovery
    \/ ByRecovery /\ ~ByStatus /\ ~ByTimer  /\ ~ByCancel

ReportedOnce ==
    /\ mac.scan = 0 => Nobody
    /\ mac.scan # 0 => OneOnly

LEMMA ReportersAre == OneReporter <=> (used.failures = 0 => ReportedOnce)
<1>1. /\ "status" \in Reporters <=> ByStatus
      /\ "timer" \in Reporters <=> ByTimer
      /\ "cancel" \in Reporters <=> ByCancel
      /\ "recovery" \in Reporters <=> ByRecovery
      /\ Reporters \subseteq {"status", "timer", "cancel", "recovery"}
  BY DEF Reporters, ByStatus, ByTimer, ByCancel, ByRecovery
<1>2. (Reporters = {}) <=> Nobody
  BY <1>1 DEF Nobody
<1>3. (\E x \in Reporters : Reporters = {x}) <=> OneOnly
  <2>1. ASSUME NEW x \in Reporters, Reporters = {x} PROVE OneOnly
    <3>1. ASSUME NEW y \in Reporters PROVE y = x
      BY <2>1
    <3>2. x = "status" \/ x = "timer" \/ x = "cancel" \/ x = "recovery"
      BY <1>1
    <3>3. CASE x = "status"
      <4>1. "timer" \notin Reporters /\ "cancel" \notin Reporters
            /\ "recovery" \notin Reporters
        BY <3>1, <3>3
      <4> QED
        BY <1>1, <3>3, <4>1 DEF OneOnly
    <3>4. CASE x = "timer"
      <4>1. "status" \notin Reporters /\ "cancel" \notin Reporters
            /\ "recovery" \notin Reporters
        BY <3>1, <3>4
      <4> QED
        BY <1>1, <3>4, <4>1 DEF OneOnly
    <3>5. CASE x = "cancel"
      <4>1. "status" \notin Reporters /\ "timer" \notin Reporters
            /\ "recovery" \notin Reporters
        BY <3>1, <3>5
      <4> QED
        BY <1>1, <3>5, <4>1 DEF OneOnly
    <3>6. CASE x = "recovery"
      <4>1. "status" \notin Reporters /\ "timer" \notin Reporters
            /\ "cancel" \notin Reporters
        BY <3>1, <3>6
      <4> QED
        BY <1>1, <3>6, <4>1 DEF OneOnly
    <3> QED
      BY <3>2, <3>3, <3>4, <3>5, <3>6
  <2>2. ASSUME OneOnly PROVE \E x \in Reporters : Reporters = {x}
    <3>1. CASE ByStatus
      <4>1. Reporters = {"status"}
        BY <1>1, <2>2, <3>1 DEF OneOnly
      <4> QED
        BY <4>1
    <3>2. CASE ByTimer
      <4>1. Reporters = {"timer"}
        BY <1>1, <2>2, <3>2 DEF OneOnly
      <4> QED
        BY <4>1
    <3>3. CASE ByCancel
      <4>1. Reporters = {"cancel"}
        BY <1>1, <2>2, <3>3 DEF OneOnly
      <4> QED
        BY <4>1
    <3>4. CASE ByRecovery
      <4>1. Reporters = {"recovery"}
        BY <1>1, <2>2, <3>4 DEF OneOnly
      <4> QED
        BY <4>1
    <3> QED
      BY <2>2, <3>1, <3>2, <3>3, <3>4 DEF OneOnly
  <2> QED
    BY <2>1, <2>2
<1> QED
  BY <1>2, <1>3 DEF OneReporter, ReportedOnce

\* Failures are never forgotten.
LEMMA FailuresStay ==
    ASSUME TypeOK, [Next]_vars, used'.failures = 0
    PROVE  used.failures = 0
<1>1. used \in Counts
  BY DEF TypeOK
<1>2. CASE used' = used
  BY <1>2
<1>3. CASE \E what \in {"deaths", "timeouts", "failures"} : used' = Used(what)
  BY <1>3, FaultType
<1>6. CASE RecRestart
  BY <1>6, RestartType
<1>4. CASE \E what \in {"scans", "rocs"} : used' = Used(what)
  BY <1>1, <1>4 DEF Used, Counts
<1>5. ASSUME used' # used, ~RecRestart
      PROVE  \E what \in {"scans", "rocs", "deaths", "timeouts", "failures"} :
               used' = Used(what)
  <2>1. CASE ScanBegin
    BY <2>1 DEF ScanBegin
  <2>2. CASE CancelAbort
    BY <1>5, <2>2 DEF CancelAbort, Fails, Fault
  <2>3. CASE AbortWaited \/ CancelRocWaited
    BY <1>5, <2>3 DEF AbortWaited, CancelRocWaited, Waited, Fault
  <2>4. CASE RemainOnChannel \/ CancelRoc
    BY <1>5, <2>4 DEF RemainOnChannel, CancelRoc, Fails, Fault
  <2>5. CASE \E n \in 1 .. MaxSsids, p2p \in BOOLEAN : ScanSend(n, p2p)
    BY <1>5, <2>5 DEF ScanSend, Fails, Fault
  <2>6. CASE FwDies
    BY <2>6 DEF FwDies, Fault
  <2>7. CASE SplitSends
    BY <1>5, <2>7 DEF SplitSends, Fails, Fault
  <2>8. ~(UNCHANGED vars) /\ ~CancelScan /\ ~Timer /\ ~RocWork /\ ~Firmware
        /\ ~(ScanComplete \/ SplitTakes \/ ScanDone \/ AbortComplete \/ RocStarted \/ RocEnded
             \/ RocQueue)
    BY <1>5 DEF vars, CancelScan, Timer, TimerExpires, TimerTakes, TimerReports, TimerResets,
       RocWork, WorkTake, WorkForget, WorkClear, WorkCleared, WorkTell, WorkTold, Firmware,
       FwScanBegins, FwScanEnds, FwAborts, FwRocBegins, FwRocEnds, FwRocStops, fwFrame,
       ScanComplete, SplitTakes, ScanDone, AbortComplete, RocStarted, RocEnded, RocQueue
  <2>9. ~(RecFlags \/ RecCancel \/ RecTakes \/ RecReports \/ RecResets \/ RecRoc \/ RecBegins
          \/ RecInProgress \/ RecStarting \/ RecQueues)
    BY <1>5 DEF RecFlags, RecCancel, RecTakes, RecReports, RecResets, RecRoc, RecBegins,
       RecInProgress, RecStarting, RecQueues, recFrame
  <2> QED
    BY <1>5, <2>1, <2>2, <2>3, <2>4, <2>5, <2>6, <2>7, <2>8, <2>9
       DEF Next, Progress, MacReturns, RxWork, Recovery
<1> QED
  BY <1>2, <1>3, <1>4, <1>5, <1>6

\* mac80211's own steps.
LEMMA MacReports ==
    ASSUME TypeOK, NumberInv, ReportedOnce, used'.failures = 0,
           \/ ScanBegin \/ CancelScan \/ CancelAbort \/ AbortWaited \/ RemainOnChannel
           \/ CancelRoc \/ CancelRocWaited
           \/ \E n \in 1 .. MaxSsids, p2p \in BOOLEAN : ScanSend(n, p2p)
    PROVE  ReportedOnce'
<1>1. mac \in Macs /\ scan \in ScanStates /\ pc \in Pcs /\ used \in Counts
  BY DEF TypeOK
<1>2. ASSUME NEW c, mac'.scan = mac.scan, ~(mac.pc = "abort_wait"),
             mac'.pc # "abort_wait", scan'.status = scan.status, pc' = pc
      PROVE  ReportedOnce'
  BY <1>2 DEF ReportedOnce, Nobody, OneOnly, ByStatus, ByTimer, ByCancel, ByRecovery
<1>3. CASE ScanBegin
  <2>1. mac' = [mac EXCEPT !.pc = "scan", !.scan = used.scans + 1, !.cancelled = FALSE]
        /\ scan' = [scan EXCEPT !.status = "PROGRESS"] /\ mac.scan = 0 /\ pc' = pc
    BY <1>3 DEF ScanBegin
  <2>2. mac'.scan = used.scans + 1 /\ mac'.pc = "scan" /\ scan'.status = "PROGRESS"
    BY <1>1, <2>1 DEF Macs, ScanStates
  <2>3. used.scans + 1 # 0
    BY <1>1 DEF Counts
  <2> QED
    BY <2>1, <2>2, <2>3 DEF ReportedOnce, Nobody, OneOnly, ByStatus, ByTimer, ByCancel,
       ByRecovery
<1>4. CASE CancelScan
  <2>1. mac.pc = "idle" /\ mac'.pc = "cancel" /\ mac'.scan = mac.scan
        /\ scan'.status = scan.status /\ pc' = pc
    BY <1>1, <1>4 DEF CancelScan, Calls, Macs, ScanStates
  <2> QED
    BY <1>2, <2>1
<1>5. CASE CancelAbort
  <2>1. ~Fails
    BY <1>5, FailsType
  <2>2. CASE scan.status = "PROGRESS"
    <3>1. mac' = [mac EXCEPT !.pc = "abort_wait"] /\ pc' = pc
          /\ scan' = [TakeScan EXCEPT !.abortDone = FALSE]
      BY <1>5, <2>1, <2>2 DEF CancelAbort
    <3>2. mac'.pc = "abort_wait" /\ mac'.scan = mac.scan /\ scan'.status = "NONE"
      BY <1>1, <3>1, TakeScanType DEF Macs, ScanStates
    <3> QED
      BY <2>2, <3>1, <3>2 DEF ReportedOnce, Nobody, OneOnly, ByStatus, ByTimer, ByCancel,
         ByRecovery
  <2>3. CASE scan.status = "NONE"
    <3>1. mac' = [mac EXCEPT !.pc = "idle"] /\ pc' = pc /\ scan' = scan /\ mac.pc = "cancel"
      BY <1>5, <2>3 DEF CancelAbort, Calls
    <3>2. mac'.pc = "idle" /\ mac'.scan = mac.scan
      BY <1>1, <3>1 DEF Macs
    <3> QED
      BY <1>2, <3>1, <3>2
  <2> QED
    BY <1>5, <2>2, <2>3 DEF CancelAbort
<1>6. CASE AbortWaited
  <2>1. mac' = [Reported EXCEPT !.pc = "idle"] /\ mac.pc = "abort_wait"
    BY <1>6 DEF AbortWaited, Calls
  <2>2. mac'.scan = 0 /\ mac'.pc = "idle"
    BY <1>1, <2>1 DEF Macs, Reported
  <2>3. pc'.timer = pc.timer /\ pc'.rec = pc.rec /\ scan'.status = scan.status
    BY <1>1, <1>6 DEF AbortWaited, Signalled, ScanStates, Pcs
  <2> QED
    BY <2>1, <2>2, <2>3 DEF ReportedOnce, Nobody, OneOnly, ByStatus, ByTimer, ByCancel,
       ByRecovery
<1>7. CASE RemainOnChannel \/ CancelRoc \/ CancelRocWaited
  <2>1. mac.pc # "abort_wait" /\ scan' = scan /\ pc' = pc
    BY <1>7 DEF RemainOnChannel, CancelRoc, CancelRocWaited, Calls
  <2>2. \/ mac' = mac \/ \E r : mac' = [mac EXCEPT !.roc = r]
        \/ mac' = [mac EXCEPT !.pc = "roc_wait"]
        \/ \E r : mac' = [mac EXCEPT !.pc = "idle", !.roc = r]
    BY <1>7 DEF RemainOnChannel, CancelRoc, CancelRocWaited
  <2>3. mac'.scan = mac.scan /\ mac'.pc # "abort_wait"
    BY <1>1, <2>1, <2>2 DEF Macs
  <2> QED
    BY <1>2, <2>1, <2>3
<1>8. ASSUME NEW n \in 1 .. MaxSsids, NEW p2p \in BOOLEAN, ScanSend(n, p2p)
      PROVE  ReportedOnce'
  <2>1. ~Fails
    BY FailsType
  <2>2. mac' = [mac EXCEPT !.pc = "idle"] /\ mac.pc = "scan" /\ pc' = pc
        /\ scan' = [scan EXCEPT !.timer = TRUE, !.p2p = p2p, !.remain = RemainAfter(n)]
    BY <1>8, <2>1 DEF ScanSend, Calls
  <2>3. mac'.pc = "idle" /\ mac'.scan = mac.scan /\ scan'.status = scan.status
    BY <1>1, <2>2 DEF Macs, ScanStates
  <2> QED
    BY <1>2, <2>2, <2>3
<1> QED
  BY <1>3, <1>4, <1>5, <1>6, <1>7, <1>8

\* The timer's, the receive work's and the recovery's.
LEMMA OthersReport ==
    ASSUME TypeOK, ReportedOnce, Timer \/ RxWork \/ RocWork \/ Recovery \/ Firmware \/ FwDies
    PROVE  ReportedOnce'
<1>1. mac \in Macs /\ scan \in ScanStates /\ pc \in Pcs
  BY DEF TypeOK
<1>2. ASSUME mac'.scan = mac.scan, mac'.pc = mac.pc,
             scan'.status = scan.status, pc'.timer = "report" <=> pc.timer = "report",
             pc'.rec = "report" <=> pc.rec = "report"
      PROVE  ReportedOnce'
  BY <1>2 DEF ReportedOnce, Nobody, OneOnly, ByStatus, ByTimer, ByCancel, ByRecovery
<1>3. ASSUME scan.status = "PROGRESS", scan' = TakeScan, mac' = Reported,
             pc'.timer = pc.timer, pc'.rec = pc.rec
      PROVE  ReportedOnce'
  <2>1. scan'.status = "NONE" /\ mac'.scan = 0 /\ mac'.pc = mac.pc
    BY <1>1, <1>3, TakeScanType DEF Reported, Macs
  <2> QED
    BY <1>3, <2>1 DEF ReportedOnce, Nobody, OneOnly, ByStatus, ByTimer, ByCancel, ByRecovery
<1>4. CASE Timer
  <2>1. CASE TimerExpires
    <3>1. scan' = [scan EXCEPT !.timer = FALSE, !.inTimeout = TRUE, !.remain = 0]
          /\ pc' = [pc EXCEPT !.timer = "cancel"] /\ mac' = mac /\ pc.timer = "idle"
      BY <2>1 DEF TimerExpires
    <3>2. scan'.status = scan.status /\ pc'.timer = "cancel" /\ pc'.rec = pc.rec
      BY <1>1, <3>1 DEF ScanStates, Pcs
    <3> QED
      BY <1>2, <3>1, <3>2
  <2>2. CASE TimerTakes /\ scan.status = "PROGRESS"
    <3>1. scan' = TakeScan /\ pc' = [pc EXCEPT !.timer = "report"] /\ mac' = mac
          /\ pc.timer = "cancel"
      BY <2>2 DEF TimerTakes
    <3>2. scan'.status = "NONE" /\ pc'.timer = "report" /\ pc'.rec = pc.rec
      BY <1>1, <3>1, TakeScanType DEF Pcs
    <3> QED
      BY <2>2, <3>1, <3>2 DEF ReportedOnce, Nobody, OneOnly, ByStatus, ByTimer, ByCancel,
         ByRecovery
  <2>3. CASE TimerTakes /\ scan.status # "PROGRESS"
    <3>1. scan' = [scan EXCEPT !.inTimeout = FALSE] /\ pc' = [pc EXCEPT !.timer = "idle"]
          /\ mac' = mac /\ pc.timer = "cancel"
      BY <2>3 DEF TimerTakes
    <3>2. scan'.status = scan.status /\ pc'.timer = "idle" /\ pc'.rec = pc.rec
      BY <1>1, <3>1 DEF ScanStates, Pcs
    <3> QED
      BY <1>2, <3>1, <3>2
  <2>4. CASE TimerReports
    <3>1. mac' = Reported /\ pc.timer = "report" /\ scan' = scan
          /\ pc' = [pc EXCEPT !.timer = "reset"]
      BY <2>4 DEF TimerReports
    <3>2. mac'.scan = 0 /\ mac'.pc = mac.pc /\ pc'.timer = "reset" /\ pc'.rec = pc.rec
      BY <1>1, <3>1 DEF Macs, Pcs, Reported
    <3> QED
      BY <3>1, <3>2 DEF ReportedOnce, Nobody, OneOnly, ByStatus, ByTimer, ByCancel, ByRecovery
  <2>5. CASE TimerResets
    <3>1. scan' = [scan EXCEPT !.inTimeout = FALSE] /\ pc.timer = "reset" /\ mac' = mac
          /\ (pc' = [Signalled EXCEPT !.timer = "idle"] \/ pc' = [pc EXCEPT !.timer = "idle"])
      BY <2>5 DEF TimerResets
    <3>2. scan'.status = scan.status /\ pc'.timer = "idle" /\ pc'.rec = pc.rec
      BY <1>1, <3>1 DEF ScanStates, Pcs, Signalled
    <3> QED
      BY <1>2, <3>1, <3>2
  <2> QED
    BY <1>4, <2>1, <2>2, <2>3, <2>4, <2>5 DEF Timer
<1>5. CASE RxWork
  <2>1. pc' = pc \/ \E x : pc' = [pc EXCEPT !.rx = x]
    BY <1>5 DEF RxWork, ScanComplete, SplitSends, SplitTakes, ScanDone, AbortComplete,
       RocStarted, RocEnded, RocQueue
  <2>2. pc'.timer = pc.timer /\ pc'.rec = pc.rec
    BY <1>1, <2>1 DEF Pcs
  <2>3. CASE ScanDone /\ scan.status = "PROGRESS"
    <3>1. scan' = TakeScan /\ mac' = Reported
      BY <2>3 DEF ScanDone, Completes
    <3> QED
      BY <1>3, <2>2, <2>3, <3>1
  <2>4. CASE ~(ScanDone /\ scan.status = "PROGRESS")
    <3>1. mac' = mac
      BY <1>1, <1>5, <2>4 DEF RxWork, ScanComplete, SplitSends, SplitTakes, ScanDone,
         AbortComplete, RocStarted, RocEnded, RocQueue, Completes, ScanStates
    <3>2. scan' = scan \/ (\E x : scan' = [scan EXCEPT !.remain = x])
          \/ (\E x : scan' = [scan EXCEPT !.abortDone = x])
      BY <1>1, <1>5, <2>4 DEF RxWork, ScanComplete, SplitSends, SplitTakes, ScanDone,
         AbortComplete, RocStarted, RocEnded, RocQueue, Completes, ScanStates
    <3>3. scan'.status = scan.status
      BY <1>1, <3>2 DEF ScanStates
    <3> QED
      BY <1>2, <2>2, <3>1, <3>3
  <2> QED
    BY <2>3, <2>4
<1>6. CASE RocWork
  <2>1. scan' = scan /\ (\E x : pc' = [pc EXCEPT !.work = x])
        /\ (mac' = mac \/ mac' = [mac EXCEPT !.roc = 0])
    BY <1>6 DEF RocWork, WorkTake, WorkForget, WorkClear, WorkCleared, WorkTell, WorkTold
  <2>2. pc'.timer = pc.timer /\ pc'.rec = pc.rec /\ mac'.scan = mac.scan /\ mac'.pc = mac.pc
    BY <1>1, <2>1 DEF Pcs, Macs
  <2> QED
    BY <1>2, <2>1, <2>2
<1>7. CASE Recovery
  <2>1. CASE RecTakes /\ scan.status = "PROGRESS"
    <3>1. scan' = TakeScan /\ pc' = [pc EXCEPT !.rec = "report"] /\ mac' = mac
          /\ pc.rec = "take"
      BY <2>1 DEF RecTakes, RecGoes
    <3>2. scan'.status = "NONE" /\ pc'.rec = "report" /\ pc'.timer = pc.timer
      BY <1>1, <3>1, TakeScanType DEF Pcs
    <3> QED
      BY <2>1, <3>1, <3>2
         DEF ReportedOnce, Nobody, OneOnly, ByStatus, ByTimer, ByCancel, ByRecovery
  <2>2. CASE RecReports
    <3>1. mac' = Reported /\ pc.rec = "report" /\ scan' = scan
          /\ pc' = [pc EXCEPT !.rec = "reset"]
      BY <2>2 DEF RecReports, RecGoes
    <3>2. mac'.scan = 0 /\ mac'.pc = mac.pc /\ pc'.rec = "reset" /\ pc'.timer = pc.timer
      BY <1>1, <3>1 DEF Macs, Pcs, Reported
    <3> QED
      BY <3>1, <3>2
         DEF ReportedOnce, Nobody, OneOnly, ByStatus, ByTimer, ByCancel, ByRecovery
  <2>3. CASE ~(RecTakes /\ scan.status = "PROGRESS") /\ ~RecReports
    <3>1. /\ mac' = mac /\ pc.rec # "report"
          /\ \/ scan' = scan \/ (\E x : scan' = [scan EXCEPT !.remain = x])
             \/ (\E x : scan' = [scan EXCEPT !.abortDone = x])
             \/ (\E x : scan' = [scan EXCEPT !.inTimeout = x])
      BY <1>7, <2>3 DEF Recovery, RecRestart, RecFlags, RecCancel, RecTakes, RecResets, RecRoc,
         RecBegins, RecInProgress, RecStarting, RecQueues, recFrame
    <3>2. \/ \E x \in {"flags", "cancel", "take", "roc", "begin", "progress", "starting",
                       "queue", "idle"} :
               pc' = [pc EXCEPT !.rec = x] \/ pc' = [pc EXCEPT !.rec = x, !.err = FALSE]
          \/ pc' = [Signalled EXCEPT !.rec = "roc"]
      BY <1>7, <2>3 DEF Recovery, RecRestart, RecFlags, RecCancel, RecTakes, RecResets, RecRoc,
         RecBegins, RecInProgress, RecStarting, RecQueues, RecGoes
    <3>3. scan'.status = scan.status /\ pc'.timer = pc.timer /\ pc'.rec # "report"
      BY <1>1, <3>1, <3>2 DEF ScanStates, Pcs, Signalled
    <3> QED
      BY <1>2, <3>1, <3>3
  <2> QED
    BY <2>1, <2>2, <2>3
<1>8. CASE Firmware
  BY <1>2, <1>8 DEF Firmware, FwScanBegins, FwScanEnds, FwAborts, FwRocBegins, FwRocEnds,
     FwRocStops, fwFrame
<1>9. CASE FwDies
  <2>1. pc'.timer = pc.timer /\ pc'.rec = pc.rec /\ scan' = scan /\ mac' = mac
    BY <1>1, <1>9 DEF FwDies, Signalled, Pcs
  <2> QED
    BY <1>2, <2>1
<1> QED
  BY <1>4, <1>5, <1>6, <1>7, <1>8, <1>9

-----------------------------------------------------------------------------
(* The numbers of the scans.                                                 *)

LEMMA MacNumbers ==
    ASSUME TypeOK, NumberInv,
           \/ ScanBegin \/ CancelScan \/ CancelAbort \/ AbortWaited \/ RemainOnChannel
           \/ CancelRoc \/ CancelRocWaited
           \/ \E n \in 1 .. MaxSsids, p2p \in BOOLEAN : ScanSend(n, p2p)
    PROVE  NumberInv'
<1>1. mac \in Macs /\ pc \in Pcs /\ used \in Counts /\ hist \in Hists /\ MaxScans \in Nat
  BY OffChannelAssumption DEF TypeOK
<1>2. CASE ScanBegin
  <2>1. mac' = [mac EXCEPT !.pc = "scan", !.scan = used.scans + 1, !.cancelled = FALSE]
        /\ used' = [used EXCEPT !.scans = @ + 1] /\ used.scans < MaxScans
        /\ UNCHANGED <<pc, hist>>
    BY <1>2 DEF ScanBegin, Used
  <2>2. mac'.scan = used.scans + 1 /\ used'.scans = used.scans + 1
    BY <1>1, <2>1 DEF Macs, Counts
  <2>3. used.scans + 1 \in Scans
    BY <1>1, <2>1 DEF Counts, Scans
  <2> QED
    BY <2>1, <2>2, <2>3 DEF NumberInv
<1>3. CASE ~ScanBegin
  <2>1. \/ mac' = mac \/ \E r : mac' = [mac EXCEPT !.roc = r]
        \/ \E x \in {"roc_wait", "cancel", "idle", "abort_wait"} : mac' = [mac EXCEPT !.pc = x]
        \/ mac' = [mac EXCEPT !.pc = "cancel", !.cancelled = TRUE]
        \/ mac' = [mac EXCEPT !.pc = "idle", !.scan = 0]
        \/ \E r : mac' = [mac EXCEPT !.pc = "idle", !.roc = r]
        \/ mac' = [Reported EXCEPT !.pc = "idle"]
    BY <1>3 DEF CancelScan, CancelAbort, AbortWaited, RemainOnChannel, CancelRoc,
       CancelRocWaited, ScanSend
  <2>2. (mac'.pc = "scan" => mac.pc = "scan") /\ mac'.scan \in {0, mac.scan}
    BY <1>1, <2>1 DEF Macs, Reported
  <2>3. used'.scans = used.scans
    <3>1. used' = used \/ Fails \/ (\E done : Waited(done)) \/ used' = Used("rocs")
      BY <1>3 DEF CancelScan, CancelAbort, AbortWaited, RemainOnChannel, CancelRoc,
         CancelRocWaited, ScanSend
    <3>2. used' = Used("rocs") => used'.scans = used.scans
      BY <1>1 DEF Used, Counts
    <3> QED
      BY <3>1, <3>2, FailsType, WaitedType
  <2>4. pc'.rx = pc.rx
    BY <1>3, SignalledType DEF CancelScan, CancelAbort, AbortWaited, RemainOnChannel,
       CancelRoc, CancelRocWaited, ScanSend
  <2>5. hist'.event = hist.event
    <3>1. hist' = hist \/ (\E x : hist' = [hist EXCEPT !.timedOut = x])
          \/ (\E x : hist' = [hist EXCEPT !.todo = x])
      BY <1>3 DEF CancelScan, CancelAbort, AbortWaited, RemainOnChannel,
         CancelRoc, CancelRocWaited, ScanSend
    <3> QED
      BY <1>1, <3>1 DEF Hists
  <2> QED
    BY <2>2, <2>3, <2>4, <2>5 DEF NumberInv
<1> QED
  BY <1>2, <1>3

LEMMA OtherNumbers ==
    ASSUME TypeOK, NumberInv, Timer \/ RxWork \/ RocWork \/ Recovery \/ Firmware \/ FwDies
    PROVE  NumberInv'
<1>1. mac \in Macs /\ pc \in Pcs /\ used \in Counts /\ hist \in Hists /\ MaxScans \in Nat
  BY OffChannelAssumption DEF TypeOK
<1>2. mac'.pc = mac.pc /\ mac'.scan \in {0, mac.scan}
  <2>1. mac' = mac \/ mac' = Reported \/ mac' = [mac EXCEPT !.roc = 0]
    BY DEF Timer, TimerExpires, TimerTakes, TimerReports, TimerResets, RxWork, ScanComplete,
       SplitSends, SplitTakes, ScanDone, AbortComplete, RocStarted, RocEnded, RocQueue, RocWork,
       WorkTake, WorkForget, WorkClear, WorkCleared, WorkTell, WorkTold, Recovery, RecRestart,
       RecFlags, RecCancel, RecTakes, RecReports, RecResets, RecRoc, RecBegins, RecInProgress,
       RecStarting, RecQueues, RecGoes, recFrame, Firmware, FwScanBegins, FwScanEnds, FwAborts,
       FwRocBegins, FwRocEnds, FwRocStops, fwFrame, FwDies
  <2> QED
    BY <1>1, <2>1 DEF Macs, Reported
<1>3. used'.scans = used.scans
  <2>1. used' = used \/ Fails \/ used' = Used("deaths") \/ RecRestart
    BY DEF Timer, TimerExpires, TimerTakes, TimerReports, TimerResets, RxWork, ScanComplete,
       SplitSends, SplitTakes, ScanDone, AbortComplete, RocStarted, RocEnded, RocQueue, RocWork,
       WorkTake, WorkForget, WorkClear, WorkCleared, WorkTell, WorkTold, Recovery, RecRestart,
       RecFlags, RecCancel, RecTakes, RecReports, RecResets, RecRoc, RecBegins, RecInProgress,
       RecStarting, RecQueues, RecGoes, recFrame, Firmware, FwScanBegins, FwScanEnds, FwAborts,
       FwRocBegins, FwRocEnds, FwRocStops, fwFrame, FwDies, Fault
  <2> QED
    BY <2>1, FailsType, FaultType, RestartType
<1>4. pc'.rx = "split" => hist'.event \in Scans
  <2>1. CASE ScanComplete
    <3>1. Head(events).n \in Scans
      BY <2>1, HandlesType DEF ScanComplete, Reports
    <3>2. hist'.event = Head(events).n
      BY <1>1, <2>1 DEF ScanComplete, Hists
    <3> QED
      BY <3>1, <3>2
  <2>2. CASE SplitSends \/ SplitTakes \/ ScanDone
    <3>1. pc'.rx # "split"
      BY <1>1, <2>2 DEF SplitSends, SplitTakes, ScanDone, Pcs
    <3> QED
      BY <3>1
  <2>3. CASE ~ScanComplete /\ ~(SplitSends \/ SplitTakes \/ ScanDone) /\ ~(RocEnded \/ RocQueue)
    <3>1. \/ pc' = pc \/ (\E x : pc' = [pc EXCEPT !.timer = x])
          \/ (\E x : pc' = [pc EXCEPT !.work = x]) \/ (\E x : pc' = [pc EXCEPT !.rec = x])
          \/ pc' = Signalled \/ pc' = [Signalled EXCEPT !.timer = "idle"]
          \/ pc' = [Signalled EXCEPT !.rec = "roc"]
          \/ (\E x : pc' = [pc EXCEPT !.rec = x, !.err = FALSE])
      BY <2>3 DEF Timer, TimerExpires, TimerTakes, TimerReports, TimerResets, RxWork,
         AbortComplete, RocStarted, RocWork, WorkTake, WorkForget, WorkClear, WorkCleared,
         WorkTell, WorkTold, Recovery, RecRestart, RecFlags, RecCancel, RecTakes, RecReports,
         RecResets, RecRoc, RecBegins, RecInProgress, RecStarting, RecQueues, RecGoes, recFrame,
         Firmware, FwScanBegins, FwScanEnds, FwAborts, FwRocBegins, FwRocEnds, FwRocStops,
         fwFrame, FwDies
    <3>2. pc'.rx = pc.rx
      BY <1>1, <3>1 DEF Pcs, Signalled
    <3>3. \/ hist' = hist \/ (\E x : hist' = [hist EXCEPT !.timedOut = x])
          \/ (\E x : hist' = [hist EXCEPT !.crossed = x])
          \/ (\E x : hist' = [hist EXCEPT !.todo[fw.scan] = x])
      BY <2>3 DEF Timer, TimerExpires, TimerTakes, TimerReports, TimerResets, RxWork,
         AbortComplete, RocStarted, RocWork, WorkTake, WorkForget, WorkClear, WorkCleared,
         WorkTell, WorkTold, Recovery, RecRestart, RecFlags, RecCancel, RecTakes, RecReports,
         RecResets, RecRoc, RecBegins, RecInProgress, RecStarting, RecQueues, RecGoes, recFrame,
         Firmware, FwScanBegins, FwScanEnds, FwAborts, FwRocBegins, FwRocEnds, FwRocStops,
         fwFrame, FwDies
    <3>4. hist'.event = hist.event
      BY <1>1, <3>3 DEF Hists
    <3> QED
      BY <3>2, <3>4 DEF NumberInv
  <2>4. CASE RocEnded \/ RocQueue
    <3>1. pc'.rx \in {"queue", "idle"}
      BY <1>1, <2>4 DEF RocEnded, RocQueue, Pcs
    <3> QED
      BY <3>1
  <2> QED
    BY <2>1, <2>2, <2>3, <2>4
<1> QED
  BY <1>2, <1>3, <1>4 DEF NumberInv

LEMMA StepReports ==
    TypeOK /\ NumberInv /\ OneReporter /\ [Next]_vars => NumberInv' /\ OneReporter'
<1> SUFFICES ASSUME TypeOK, NumberInv, OneReporter, [Next]_vars
             PROVE  NumberInv' /\ OneReporter'
  OBVIOUS
<1>1. CASE UNCHANGED vars
  BY <1>1 DEF vars, NumberInv, OneReporter, Reporters
<1>2. CASE Next
  <2>1. NumberInv'
    BY <1>2, MacNumbers, OtherNumbers DEF Next, Progress, MacReturns
  <2>2. ASSUME used'.failures = 0 PROVE ReportedOnce'
    <3>1. ReportedOnce
      BY <2>2, FailuresStay, ReportersAre
    <3> QED
      BY <1>2, <2>2, <3>1, MacReports, OthersReport DEF Next, Progress, MacReturns
  <2>3. (OneReporter <=> (used.failures = 0 => ReportedOnce))'
    BY ReportersAre, PTL
  <2> QED
    BY <2>1, <2>2, <2>3
<1> QED
  BY <1>1, <1>2

LEMMA InitReports == Init => OneReporter
  BY DEF Init, OneReporter, Reporters

\* The types and numbers, with the reporter.
ReportInv == TypeOK /\ NumberInv /\ OneReporter

LEMMA SpecReportInv == Spec => []ReportInv
<1>1. Init => ReportInv
  BY InitTypes, InitReports DEF ReportInv
<1>2. ReportInv /\ [Next]_vars => ReportInv'
  BY StepTypes, StepReports DEF ReportInv
<1> QED
  BY <1>1, <1>2, PTL DEF Spec

\* Every variable keeps its type.
THEOREM TypesCorrect == Spec => []TypeOK
<1>1. ReportInv => TypeOK
  BY DEF ReportInv
<1> QED
  BY <1>1, SpecReportInv, PTL

\* For any number of scans, ssids, timeouts and recoveries: while mac80211
\* waits for a scan exactly one thread is to report its end (cancel_hw_scan,
\* scan_timer_expiry, rpu_scan_complete or rpu_process_pending_operates), and
\* otherwise none, as long as no command failed to be allocated.
THEOREM ScanReportedOnce == Spec => []OneReporter
<1>1. ReportInv => OneReporter
  BY DEF ReportInv
<1> QED
  BY <1>1, SpecReportInv, PTL

-----------------------------------------------------------------------------
(* The queues.                                                               *)

LEMMA AppendMessages ==
    ASSUME NEW S, NEW s \in Seq(S), NEW m \in S
    PROVE  /\ \A a : Has(Append(s, m), a) <=> Has(s, a) \/ m.id = a
           /\ \A a : Once(s, a) /\ (m.id = a => ~Has(s, a)) => Once(Append(s, m), a)
           /\ \A a, b : Precedes(s, a, b) /\ a # b /\ (m.id = a => ~Has(s, b))
                          => Precedes(Append(s, m), a, b)
           /\ \A a, n : Numbered(s, a, n) /\ (m.id = a => m.n = n)
                          => Numbered(Append(s, m), a, n)
<1> DEFINE t == Append(s, m)
           L == Len(s)
<1>1. L \in Nat /\ DOMAIN s = 1 .. L
  OBVIOUS
<1>2. DOMAIN t = 1 .. L + 1 /\ t[L + 1] = m /\ \A i \in 1 .. L : t[i] = s[i]
  BY AppendProperties
<1>3. DOMAIN t = DOMAIN s \cup {L + 1} /\ L + 1 \notin DOMAIN s
      /\ (\A i \in DOMAIN s : i < L + 1 /\ t[i] = s[i])
  BY <1>1, <1>2
<1> HIDE DEF t, L
<1>4. \A a : Has(t, a) <=> Has(s, a) \/ m.id = a
  BY <1>2, <1>3 DEF Has
<1>5. \A a : Once(s, a) /\ (m.id = a => ~Has(s, a)) => Once(t, a)
  BY <1>2, <1>3 DEF Has, Once
<1>6. \A a, b : Precedes(s, a, b) /\ a # b /\ (m.id = a => ~Has(s, b)) => Precedes(t, a, b)
  BY <1>2, <1>3 DEF Has, Precedes
<1>7. \A a, n : Numbered(s, a, n) /\ (m.id = a => m.n = n) => Numbered(t, a, n)
  BY <1>2, <1>3 DEF Numbered
<1> QED
  BY <1>4, <1>5, <1>6, <1>7 DEF t

LEMMA TailMessages ==
    ASSUME NEW S, NEW s \in Seq(S), s # <<>>
    PROVE  /\ \A a : Has(s, a) <=> Head(s).id = a \/ Has(Tail(s), a)
           /\ \A a : Once(s, a) => Once(Tail(s), a) /\ (Head(s).id = a => ~Has(Tail(s), a))
           /\ \A a, b : Precedes(s, a, b) =>
                          Precedes(Tail(s), a, b) /\ (Head(s).id = b => ~Has(s, a))
           /\ \A a, n : Numbered(s, a, n) =>
                          Numbered(Tail(s), a, n) /\ (Head(s).id = a => Head(s).n = n)
<1> DEFINE t == Tail(s)
           L == Len(s)
<1>1. L \in Nat /\ L > 0 /\ DOMAIN s = 1 .. L /\ Head(s) = s[1]
  BY EmptySeq
<1>2. DOMAIN t = 1 .. L - 1 /\ \A i \in 1 .. L - 1 : t[i] = s[i + 1]
  BY <1>1, HeadTailProperties
<1> HIDE DEF t, L
<1>3. 1 \in DOMAIN s /\ (\A i \in DOMAIN t : i + 1 \in DOMAIN s /\ i + 1 # 1 /\ t[i] = s[i + 1])
  BY <1>1, <1>2
<1>4. \A i \in DOMAIN s : i = 1 \/ (i - 1 \in DOMAIN t /\ i - 1 + 1 = i)
  BY <1>1, <1>2
<1>5. /\ \A i, j \in DOMAIN t : (i + 1 = j + 1 => i = j) /\ (i + 1 < j + 1 => i < j)
      /\ \A i \in DOMAIN s : ~(i < 1)
  BY <1>1, <1>2
<1>6. \A a : Has(s, a) <=> s[1].id = a \/ Has(t, a)
  <2>1. ASSUME NEW a, Has(s, a) PROVE s[1].id = a \/ Has(t, a)
    BY <1>3, <1>4, <2>1 DEF Has
  <2>2. ASSUME NEW a, s[1].id = a \/ Has(t, a) PROVE Has(s, a)
    BY <1>3, <2>2 DEF Has
  <2> QED
    BY <2>1, <2>2
<1>7. ASSUME NEW a, Once(s, a)
      PROVE  Once(t, a) /\ (s[1].id = a => ~Has(t, a))
  BY <1>3, <1>5, <1>7 DEF Has, Once
<1>8. ASSUME NEW a, NEW b, Precedes(s, a, b)
      PROVE  Precedes(t, a, b) /\ (s[1].id = b => ~Has(s, a))
  BY <1>3, <1>5, <1>8 DEF Has, Precedes
<1>9. ASSUME NEW a, NEW n, Numbered(s, a, n)
      PROVE  Numbered(t, a, n) /\ (s[1].id = a => s[1].n = n)
  BY <1>3, <1>9 DEF Numbered
<1> QED
  BY <1>1, <1>6, <1>7, <1>8, <1>9 DEF t

LEMMA SendMessages ==
    ASSUME TypeOK, NEW id \in {"SCAN", "ABORT", "ROC_START", "ROC_STOP"}, NEW n \in Nat,
           id = "SCAN" => n \in Scans, Send(id, n)
    PROVE  /\ \A a : Has(cmds', a) <=> Has(cmds, a) \/ id = a
           /\ \A a : Once(cmds, a) /\ (id = a => ~Has(cmds, a)) => Once(cmds', a)
           /\ \A a, b : Precedes(cmds, a, b) /\ a # b /\ (id = a => ~Has(cmds, b))
                          => Precedes(cmds', a, b)
           /\ \A a, k : Numbered(cmds, a, k) /\ (id = a => n = k) => Numbered(cmds', a, k)
<1>1. Msg(id, n) \in Commands /\ Msg(id, n).id = id /\ Msg(id, n).n = n
  BY DEF Msg, Commands
<1>2. cmds' = Append(cmds, Msg(id, n)) /\ cmds \in Seq(Commands)
  BY DEF Send, TypeOK
<1> QED
  BY <1>1, <1>2, AppendMessages

LEMMA TellsMessages ==
    ASSUME TypeOK, NEW n \in Nat,
           NEW id \in {"SCAN_COMPLETE", "ABORT_COMPLETE", "ROC_STARTED", "ROC_ENDED"},
           id = "SCAN_COMPLETE" => n \in Scans, Tells(id, n)
    PROVE  /\ \A a : Has(events', a) <=> Has(events, a) \/ id = a
           /\ \A a : Once(events, a) /\ (id = a => ~Has(events, a)) => Once(events', a)
           /\ \A a, b : Precedes(events, a, b) /\ a # b /\ (id = a => ~Has(events, b))
                          => Precedes(events', a, b)
           /\ \A a, k : Numbered(events, a, k) /\ (id = a => n = k) => Numbered(events', a, k)
<1>1. Msg(id, n) \in Reports /\ Msg(id, n).id = id /\ Msg(id, n).n = n
  BY DEF Msg, Reports
<1>2. events' = Append(events, Msg(id, n)) /\ events \in Seq(Reports)
  BY DEF Tells, TypeOK
<1> QED
  BY <1>1, <1>2, AppendMessages

LEMMA TakesMessages ==
    ASSUME TypeOK, NEW id, Takes(id)
    PROVE  /\ \A a : Has(cmds, a) <=> id = a \/ Has(cmds', a)
           /\ \A a : Once(cmds, a) => Once(cmds', a) /\ (id = a => ~Has(cmds', a))
           /\ \A a, b : Precedes(cmds, a, b) =>
                          Precedes(cmds', a, b) /\ (id = b => ~Has(cmds, a))
           /\ \A a, k : Numbered(cmds, a, k) =>
                          Numbered(cmds', a, k) /\ (id = a => Head(cmds).n = k)
<1>1. cmds' = Tail(cmds) /\ cmds \in Seq(Commands) /\ cmds # <<>> /\ Head(cmds).id = id
  BY DEF Takes, TypeOK
<1> QED
  BY <1>1, TailMessages

LEMMA HandlesMessages ==
    ASSUME TypeOK, NEW id, Handles(id)
    PROVE  /\ \A a : Has(events, a) <=> id = a \/ Has(events', a)
           /\ \A a : Once(events, a) => Once(events', a) /\ (id = a => ~Has(events', a))
           /\ \A a, b : Precedes(events, a, b) =>
                          Precedes(events', a, b) /\ (id = b => ~Has(events, a))
           /\ \A a, k : Numbered(events, a, k) =>
                          Numbered(events', a, k) /\ (id = a => Head(events).n = k)
<1>1. events' = Tail(events) /\ events \in Seq(Reports) /\ events # <<>> /\ Head(events).id = id
  BY DEF Handles, TypeOK
<1> QED
  BY <1>1, TailMessages

-----------------------------------------------------------------------------
(* A calm state was reached through calm states.                             *)

LEMMA CalmBack ==
    ASSUME TypeOK, [Next]_vars, Calm'
    PROVE  Calm /\ ~Fails /\ ~FwDies
           /\ (\A done : Waited(done) => used' = used /\ (done \/ FwError))
<1>1. used \in Counts /\ hist \in Hists
  BY DEF TypeOK
<1>2. \A what \in {"deaths", "timeouts", "failures"} : ~Fault(what)
  <2>1. ASSUME NEW what \in {"deaths", "timeouts", "failures"}, Fault(what) PROVE FALSE
    <3>1. used' = Used(what)
      BY <2>1 DEF Fault
    <3>2. used' = used
      BY <2>1, <3>1, FaultType DEF Calm
    <3>3. Used(what)[what] = used[what] + 1 /\ used[what] \in Nat
      BY <1>1, <2>1 DEF Used, Counts
    <3> QED
      BY <3>1, <3>2, <3>3
  <2> QED
    BY <2>1
<1>3. ~Fails /\ ~FwDies /\ (\A done : Waited(done) => used' = used /\ (done \/ FwError))
  BY <1>2 DEF Fails, FwDies, Waited
<1>7. RecRestart => Faults = 0
  BY RestartType DEF Calm
<1>4. ASSUME ~RecRestart PROVE Faults = 0
  <2>1. used' = used
        \/ (\E k \in {"scans", "rocs"} : used' = Used(k))
    BY <1>3, <1>4 DEF Next, Progress, MacReturns, ScanBegin, ScanSend, CancelScan, CancelAbort,
       AbortWaited, RemainOnChannel, CancelRoc, CancelRocWaited, Timer, TimerExpires,
       TimerTakes, TimerReports, TimerResets, RxWork, ScanComplete, SplitSends, SplitTakes,
       ScanDone, AbortComplete, RocStarted, RocEnded, RocQueue, RocWork, WorkTake, WorkForget,
       WorkClear, WorkCleared, WorkTell, WorkTold, Recovery, RecFlags, RecCancel, RecTakes,
       RecReports, RecResets, RecRoc, RecBegins, RecInProgress, RecStarting, RecQueues,
       recFrame, Firmware, FwScanBegins, FwScanEnds, FwAborts, FwRocBegins, FwRocEnds,
       FwRocStops, fwFrame, vars
  <2>2. \A k \in {"scans", "rocs"} :
          /\ Used(k).deaths = used.deaths /\ Used(k).timeouts = used.timeouts
          /\ Used(k).failures = used.failures
    BY <1>1 DEF Used, Counts
  <2> QED
    BY <2>1, <2>2 DEF Calm, Faults
<1>5. ~hist.timedOut /\ ~hist.overtaken
  <2>1. CASE AbortWaited
    <3>1. hist' = [hist EXCEPT !.timedOut = @ \/ Overdue]
      BY <2>1 DEF AbortWaited
    <3> QED
      BY <1>1, <3>1 DEF Hists, Calm
  <2>2. CASE TimerExpires
    <3>1. hist' = [hist EXCEPT !.timedOut = @ \/ scan.status = "PROGRESS"]
      BY <2>2 DEF TimerExpires
    <3> QED
      BY <1>1, <3>1 DEF Hists, Calm
  <2>3. CASE SplitSends
    <3>1. hist' = [hist EXCEPT !.overtaken = @ \/ scan.status = "NONE"]
      BY <2>3 DEF SplitSends
    <3> QED
      BY <1>1, <3>1 DEF Hists, Calm
  <2>4. CASE ScanComplete \/ SplitTakes \/ ScanDone \/ TimerTakes
    <3>1. hist' = hist \/ hist' = [hist EXCEPT !.timedOut = TRUE]
          \/ \E x : hist' = [hist EXCEPT !.event = x]
      BY <2>4 DEF ScanComplete, SplitTakes, ScanDone, TimerTakes
    <3> QED
      BY <1>1, <3>1 DEF Hists, Calm
  <2>5. CASE FwScanEnds \/ \E n \in 1 .. MaxSsids, p2p \in BOOLEAN : ScanSend(n, p2p)
    <3>1. \E x : hist' = [hist EXCEPT !.todo = x] \/ \E n : hist' = [hist EXCEPT !.todo[n] = x]
      BY <2>5 DEF FwScanEnds, ScanSend
    <3> QED
      BY <1>1, <3>1 DEF Hists, Calm
  <2>7. CASE WorkForget \/ RecRestart \/ RecBegins
    <3>1. \E x : hist' = [hist EXCEPT !.crossed = x]
      BY <2>7 DEF WorkForget, RecRestart, RecBegins
    <3> QED
      BY <1>1, <3>1 DEF Hists, Calm
  <2>6. CASE UNCHANGED hist
    BY <2>6 DEF Calm
  <2> QED
    BY <2>1, <2>2, <2>3, <2>4, <2>5, <2>6, <2>7 DEF Next, Progress, MacReturns, ScanBegin,
       CancelScan, CancelAbort, RemainOnChannel, CancelRoc, CancelRocWaited, Timer,
       TimerReports, TimerResets, RxWork, AbortComplete, RocStarted, RocEnded, RocQueue,
       RocWork, WorkTake, WorkClear, WorkCleared, WorkTell, WorkTold, Recovery, RecFlags,
       RecCancel, RecTakes, RecReports, RecResets, RecRoc, RecBegins, RecInProgress,
       RecStarting, RecQueues, recFrame, Firmware, FwScanBegins, FwAborts, FwRocBegins,
       FwRocEnds, FwRocStops, FwDies, vars
<1> QED
  BY <1>3, <1>4, <1>5, <1>7 DEF Calm

-----------------------------------------------------------------------------
(* Every step from a calm state to a calm state keeps CalmState.             *)

\* The queues of the next state, as the lemmas about messages speak of them.
LEMMA NextQueues ==
    /\ InCmds' <=> Has(cmds', "SCAN")
    /\ AbortInCmds' <=> Has(cmds', "ABORT")
    /\ InEvents' <=> Has(events', "SCAN_COMPLETE")
    /\ AbortInEvents' <=> Has(events', "ABORT_COMPLETE")
    /\ CmdsOK' <=> /\ Once(cmds', "SCAN") /\ Once(cmds', "ABORT")
                   /\ Precedes(cmds', "SCAN", "ABORT")
                   /\ Numbered(cmds', "SCAN", used'.scans)
    /\ EventsOK' <=> /\ Once(events', "SCAN_COMPLETE") /\ Once(events', "ABORT_COMPLETE")
                     /\ Precedes(events', "SCAN_COMPLETE", "ABORT_COMPLETE")
                     /\ Numbered(events', "SCAN_COMPLETE", used'.scans)
  BY DEF InCmds, AbortInCmds, InEvents, AbortInEvents, CmdsOK, EventsOK, Has, Once, Precedes,
     Numbered

\* What a step does to the messages of scans and aborts.
SameCmds ==
    (InCmds' <=> InCmds) /\ (AbortInCmds' <=> AbortInCmds) /\ CmdsOK'
SameEvents ==
    (InEvents' <=> InEvents) /\ (AbortInEvents' <=> AbortInEvents) /\ EventsOK'

LEMMA QueuesKept ==
    ASSUME CmdsOK, EventsOK, used'.scans = used.scans
    PROVE  (UNCHANGED cmds => SameCmds) /\ (UNCHANGED events => SameEvents)
<1>1. UNCHANGED cmds => SameCmds
  BY NextQueues DEF CmdsOK, InCmds, AbortInCmds, SameCmds
<1>2. UNCHANGED events => SameEvents
  BY NextQueues DEF EventsOK, InEvents, AbortInEvents, SameEvents
<1> QED
  BY <1>1, <1>2

\* Messages of remain-on-channel periods change nothing of that.
LEMMA RocMessages ==
    ASSUME TypeOK, CmdsOK, EventsOK, used'.scans = used.scans
    PROVE  /\ \A id \in {"ROC_START", "ROC_STOP"}, n \in Nat : Send(id, n) => SameCmds
           /\ \A id \in {"ROC_START", "ROC_STOP"} : Takes(id) => SameCmds
           /\ \A id \in {"ROC_STARTED", "ROC_ENDED"}, n \in Nat : Tells(id, n) => SameEvents
           /\ \A id \in {"ROC_STARTED", "ROC_ENDED"} : Handles(id) => SameEvents
<1>1. ASSUME NEW id \in {"ROC_START", "ROC_STOP"}, NEW n \in Nat, Send(id, n) PROVE SameCmds
  BY <1>1, SendMessages, NextQueues DEF CmdsOK, InCmds, AbortInCmds, SameCmds
<1>2. ASSUME NEW id \in {"ROC_START", "ROC_STOP"}, Takes(id) PROVE SameCmds
  BY <1>2, TakesMessages, NextQueues DEF CmdsOK, InCmds, AbortInCmds, SameCmds
<1>3. ASSUME NEW id \in {"ROC_STARTED", "ROC_ENDED"}, NEW n \in Nat, Tells(id, n)
      PROVE  SameEvents
  BY <1>3, TellsMessages, NextQueues DEF EventsOK, InEvents, AbortInEvents, SameEvents
<1>4. ASSUME NEW id \in {"ROC_STARTED", "ROC_ENDED"}, Handles(id) PROVE SameEvents
  BY <1>4, HandlesMessages, NextQueues DEF EventsOK, InEvents, AbortInEvents, SameEvents
<1> QED
  BY <1>1, <1>2, <1>3, <1>4

\* Who reports a scan in a calm state.
LEMMA CalmReporter ==
    ASSUME TypeOK, OneReporter, Calm, CalmState
    PROVE  /\ scan.status = "PROGRESS" => mac.scan # 0 /\ mac.pc # "abort_wait"
           /\ mac.scan # 0 /\ ~mac.cancelled => scan.status = "PROGRESS"
<1>1. used \in Counts
  BY DEF TypeOK
<1>2. used.failures = 0
  <2>1. used.deaths \in Nat /\ used.timeouts \in Nat /\ used.failures \in Nat
    BY <1>1 DEF Counts
  <2> QED
    BY <2>1 DEF Calm, Faults
<1>3. ReportedOnce
  BY <1>2, ReportersAre
<1> QED
  BY <1>3 DEF ReportedOnce, Nobody, OneOnly, ByStatus, ByTimer, ByCancel, ByRecovery, CalmState

\* A step that touches nothing of a scan.
LEMMA CalmFrame ==
    ASSUME CalmState, SameCmds, SameEvents,
           \/ mac'.pc = mac.pc
           \/ {mac.pc, mac'.pc} \cap {"scan", "cancel", "abort_wait"} = {},
           mac'.scan = mac.scan, mac'.cancelled = mac.cancelled,
           scan'.remain = scan.remain, scan'.abortDone = scan.abortDone,
           pc'.timer \in {"idle", "cancel"}, pc'.rec = pc.rec, pc'.err = pc.err,
           pc'.rx = pc.rx \/ (pc.rx \in {"idle", "queue"} /\ pc'.rx \in {"idle", "queue"}),
           used'.scans = used.scans, hist'.todo = hist.todo, hist'.event = hist.event,
           fw'.scan = fw.scan
    PROVE  CalmState'
<1>1. OneSsid' /\ AbortLast' /\ Ended'
  BY DEF CalmState, SameCmds, SameEvents, OneSsid, AbortLast, Ended, NoScan, InRx
<1>2. Taking' = Taking /\ Ahead' = Ahead
  BY DEF Taking, Ahead, SameCmds
<1>3. Remaining'
  BY <1>2 DEF CalmState, Remaining
<1> QED
  BY <1>1, <1>3 DEF CalmState, SameCmds, SameEvents, FwError

LEMMA CalmMac ==
    ASSUME TypeOK, NumberInv, OneReporter, Calm, CalmState, [Next]_vars, Calm',
           ScanBegin \/ CancelScan \/ CancelAbort \/ AbortWaited
             \/ \E n \in 1 .. MaxSsids, p2p \in BOOLEAN : ScanSend(n, p2p)
    PROVE  CalmState'
<1>1. mac \in Macs /\ scan \in ScanStates /\ used \in Counts /\ hist \in Hists /\ pc \in Pcs
      /\ MaxScans \in Nat
  BY OffChannelAssumption DEF TypeOK
<1>2. CmdsOK /\ EventsOK
  BY DEF CalmState
<1>3. ~Fails /\ (\A done : Waited(done) => used' = used /\ (done \/ FwError))
  BY CalmBack
<1>4. CASE ScanBegin
  <2>1. mac' = [mac EXCEPT !.pc = "scan", !.scan = used.scans + 1, !.cancelled = FALSE]
        /\ used' = [used EXCEPT !.scans = @ + 1] /\ mac.pc = "idle" /\ mac.scan = 0
        /\ scan' = [scan EXCEPT !.status = "PROGRESS"]
        /\ UNCHANGED <<pc, cmds, events, fw, hist>>
    BY <1>4 DEF ScanBegin, Used, Calls
  <2>2. mac'.scan # 0 /\ mac'.pc = "scan" /\ scan'.abortDone = scan.abortDone
    BY <1>1, <2>1 DEF Macs, Counts, ScanStates
  <2>3. NoScan /\ pc.rx # "take" /\ ~AbortInCmds /\ ~AbortInEvents
    BY <2>1 DEF CalmState, Ended, AbortLast
  <2>4. InCmds' = InCmds /\ InEvents' = InEvents /\ AbortInCmds' = AbortInCmds
        /\ AbortInEvents' = AbortInEvents
    BY <2>1 DEF InCmds, InEvents, AbortInCmds, AbortInEvents
  <2>5. CmdsOK' /\ EventsOK'
    BY <2>1, <2>3, NextQueues DEF CalmState, CmdsOK, EventsOK, NoScan, InCmds, InEvents,
       Has, Numbered
  <2> QED
    BY <2>1, <2>2, <2>3, <2>4, <2>5
       DEF CalmState, FwError, OneSsid, AbortLast, Ended, Remaining, NoScan, InRx
<1>5. CASE CancelScan
  <2>1. mac' = [mac EXCEPT !.pc = "cancel", !.cancelled = TRUE]
        /\ scan' = [scan EXCEPT !.remain = 0] /\ mac.pc = "idle" /\ mac.scan # 0
        /\ UNCHANGED <<pc, cmds, events, fw, used, hist>>
    BY <1>5 DEF CancelScan, Calls
  <2>2. mac'.pc = "cancel" /\ mac'.cancelled /\ mac'.scan = mac.scan
        /\ scan'.abortDone = scan.abortDone
    BY <1>1, <2>1 DEF Macs, ScanStates
  <2>3. SameCmds /\ SameEvents
    BY <1>2, <2>1, QueuesKept
  <2> QED
    BY <2>1, <2>2, <2>3 DEF CalmState, FwError, OneSsid, AbortLast, Ended, Remaining, NoScan,
       InRx, SameCmds, SameEvents
<1>6. CASE CancelAbort /\ scan.status = "PROGRESS"
  <2>1. mac' = [mac EXCEPT !.pc = "abort_wait"] /\ mac.pc = "cancel" /\ Send("ABORT", 0)
        /\ scan' = [TakeScan EXCEPT !.abortDone = FALSE]
        /\ UNCHANGED <<pc, events, fw, used, hist>>
    BY <1>3, <1>6 DEF CancelAbort, Calls
  <2>2. mac'.pc = "abort_wait" /\ mac'.cancelled = mac.cancelled /\ mac'.scan = mac.scan
        /\ ~scan'.abortDone
    BY <1>1, <2>1 DEF Macs, ScanStates, TakeScan
  <2>3. SameEvents
    BY <1>2, <2>1, QueuesKept
  <2>4. (InCmds' <=> InCmds) /\ AbortInCmds' /\ ~AbortInCmds /\ ~AbortInEvents /\ CmdsOK'
    BY <2>1, NextQueues, SendMessages
       DEF CalmState, AbortLast, CmdsOK, InCmds, AbortInCmds
  <2> QED
    BY <2>1, <2>2, <2>3, <2>4 DEF CalmState, FwError, OneSsid, AbortLast, Ended, Remaining,
       NoScan, InRx, SameEvents
<1>7. CASE CancelAbort /\ scan.status # "PROGRESS"
  <2>1. mac' = [mac EXCEPT !.pc = "idle"] /\ mac.pc = "cancel"
        /\ UNCHANGED <<scan, cmds, pc, events, fw, used, hist>>
    BY <1>7 DEF CancelAbort, Calls
  <2>2. mac'.pc = "idle" /\ mac'.cancelled = mac.cancelled /\ mac'.scan = mac.scan
        /\ (mac.scan = 0 \/ mac.cancelled)
    BY <1>1, <2>1 DEF Macs, CalmState
  <2>3. SameCmds /\ SameEvents
    BY <1>2, <2>1, QueuesKept
  <2> QED
    BY <2>1, <2>2, <2>3 DEF CalmState, FwError, OneSsid, AbortLast, Ended, Remaining, NoScan,
       InRx, SameCmds, SameEvents
<1>8. CASE AbortWaited
  <2>1. mac' = [Reported EXCEPT !.pc = "idle"] /\ mac.pc = "abort_wait"
        /\ UNCHANGED <<cmds, events, fw>> /\ hist' = [hist EXCEPT !.timedOut = @ \/ Overdue]
    BY <1>8 DEF AbortWaited, Calls
  <2>2. ~Overdue
    BY <1>1, <2>1 DEF Calm, Hists
  <2>3. UNCHANGED <<pc, scan>> /\ hist'.todo = hist.todo /\ hist'.event = hist.event
        /\ mac'.pc = "idle" /\ mac'.scan = 0
    BY <1>1, <1>8, <2>1, <2>2 DEF AbortWaited, Macs, Hists, Reported
  <2>4. scan.abortDone /\ used' = used
    BY <1>3, <1>8 DEF AbortWaited, CalmState
  <2>5. SameCmds /\ SameEvents
    BY <1>2, <2>1, <2>4, QueuesKept
  <2> QED
    BY <2>1, <2>3, <2>4, <2>5 DEF CalmState, FwError, OneSsid, AbortLast, Ended, Remaining,
       NoScan, InRx, SameCmds, SameEvents
<1>9. ASSUME NEW n \in 1 .. MaxSsids, NEW p2p \in BOOLEAN, ScanSend(n, p2p)
      PROVE  CalmState'
  <2>1. mac' = [mac EXCEPT !.pc = "idle"] /\ mac.pc = "scan" /\ Send("SCAN", used.scans)
        /\ scan' = [scan EXCEPT !.timer = TRUE, !.p2p = p2p, !.remain = RemainAfter(n)]
        /\ hist' = [hist EXCEPT !.todo = [[s \in Scans |-> 0] EXCEPT ![used.scans] = n]]
        /\ UNCHANGED <<pc, events, fw, used>>
    BY <1>3, <1>9 DEF ScanSend, Calls
  <2>2. used.scans \in Scans /\ used.scans \in Nat /\ mac.scan = used.scans
        /\ MaxSsids \in Nat /\ n \in Nat /\ n >= 1
    BY <1>1, <2>1, OffChannelAssumption DEF NumberInv, CalmState, Counts
  <2>3. mac'.pc = "idle" /\ mac'.scan = mac.scan /\ scan'.remain = n - 1
        /\ hist'.todo[used.scans] = n /\ hist'.event = hist.event
        /\ scan'.abortDone = scan.abortDone
    <3>1. RemainAfter(n) = n - 1
      BY <2>2 DEF RemainAfter
    <3> QED
      BY <1>1, <2>1, <2>2, <3>1 DEF Macs, ScanStates, Hists
  <2>4. NoScan /\ pc.rx # "take" /\ ~AbortInCmds /\ ~AbortInEvents
    BY <2>1 DEF CalmState, Ended, AbortLast
  <2>5. SameEvents
    BY <1>2, <2>1, QueuesKept
  <2>6. InCmds' /\ ~AbortInCmds' /\ CmdsOK'
    BY <2>1, <2>2, <2>4, NextQueues, SendMessages
       DEF CalmState, CmdsOK, InCmds, AbortInCmds, NoScan
  <2>7. Taking' = 0 /\ Ahead' = 1
    BY <2>1, <2>4, <2>6 DEF Taking, Ahead
  <2>8. Remaining'
    BY <2>1, <2>2, <2>3, <2>4, <2>7 DEF Remaining, NoScan, InRx
  <2> QED
    BY <2>1, <2>2, <2>3, <2>4, <2>5, <2>6, <2>8
       DEF CalmState, FwError, OneSsid, AbortLast, Ended, NoScan, InRx, SameEvents
<1> QED
  BY <1>4, <1>5, <1>6, <1>7, <1>8, <1>9

LEMMA CalmOthers ==
    ASSUME TypeOK, NumberInv, OneReporter, Calm, CalmState, [Next]_vars, Calm',
           RemainOnChannel \/ CancelRoc \/ CancelRocWaited \/ RocWork \/ Timer \/ Recovery
    PROVE  CalmState'
<1>1. mac \in Macs /\ scan \in ScanStates /\ used \in Counts /\ hist \in Hists /\ pc \in Pcs
  BY DEF TypeOK
<1>2. CmdsOK /\ EventsOK
  BY DEF CalmState
<1>3. ~Fails /\ (\A done : Waited(done) => used' = used /\ (done \/ FwError))
  BY CalmBack
<1>4. CASE RemainOnChannel
  <2>1. mac' = [mac EXCEPT !.roc = used.rocs + 1] /\ used' = [used EXCEPT !.rocs = @ + 1]
        /\ Send("ROC_START", used.rocs + 1) /\ UNCHANGED <<scan, pc, events, fw, hist>>
    BY <1>3, <1>4 DEF RemainOnChannel, Used
  <2>2. mac'.pc = mac.pc /\ mac'.scan = mac.scan /\ mac'.cancelled = mac.cancelled
        /\ used'.scans = used.scans /\ used.rocs + 1 \in Nat
    BY <1>1, <2>1 DEF Macs, Counts
  <2>3. SameCmds /\ SameEvents
    BY <1>2, <2>1, <2>2, QueuesKept, RocMessages
  <2> QED
    BY <2>1, <2>2, <2>3, CalmFrame DEF CalmState
<1>5. CASE CancelRoc
  <2>1. /\ mac.pc = "idle" /\ UNCHANGED <<scan, pc, events, fw, used, hist>>
        /\ \/ mac' = [mac EXCEPT !.pc = "roc_wait"] /\ Send("ROC_STOP", 0)
           \/ mac' = [mac EXCEPT !.roc = 0] /\ UNCHANGED cmds
    BY <1>3, <1>5 DEF CancelRoc, Calls
  <2>2. mac'.pc \in {"idle", "roc_wait"} /\ mac'.scan = mac.scan
        /\ mac'.cancelled = mac.cancelled
    BY <1>1, <2>1 DEF Macs
  <2>3. SameCmds /\ SameEvents
    BY <1>2, <2>1, QueuesKept, RocMessages
  <2> QED
    BY <2>1, <2>2, <2>3, CalmFrame DEF CalmState
<1>6. CASE CancelRocWaited
  <2>1. mac.pc = "roc_wait" /\ (\E r : mac' = [mac EXCEPT !.pc = "idle", !.roc = r])
        /\ UNCHANGED <<scan, pc, cmds, events, fw, used, hist>>
    BY <1>3, <1>6 DEF CancelRocWaited, Calls
  <2>2. mac'.pc = "idle" /\ mac'.scan = mac.scan /\ mac'.cancelled = mac.cancelled
    BY <1>1, <2>1 DEF Macs
  <2>3. SameCmds /\ SameEvents
    BY <1>2, <2>1, QueuesKept
  <2> QED
    BY <2>1, <2>2, <2>3, CalmFrame DEF CalmState
<1>7. CASE RocWork
  <2>1. /\ UNCHANGED <<scan, cmds, events, fw, used>>
        /\ \E x : pc' = [pc EXCEPT !.work = x]
        /\ mac' = mac \/ mac' = [mac EXCEPT !.roc = 0]
        /\ hist' = hist \/ \E x : hist' = [hist EXCEPT !.crossed = x]
    BY <1>7 DEF RocWork, WorkTake, WorkForget, WorkClear, WorkCleared, WorkTell, WorkTold
  <2>2. pc'.timer = pc.timer /\ pc'.rec = pc.rec /\ pc'.err = pc.err
        /\ pc'.rx = pc.rx /\ mac'.pc = mac.pc
        /\ mac'.scan = mac.scan /\ mac'.cancelled = mac.cancelled
        /\ hist'.todo = hist.todo /\ hist'.event = hist.event
    BY <1>1, <2>1 DEF Pcs, Macs, Hists
  <2>3. SameCmds /\ SameEvents
    BY <1>2, <2>1, QueuesKept
  <2> QED
    BY <2>1, <2>2, <2>3, CalmFrame DEF CalmState
<1>8. CASE TimerExpires
  <2>1. scan' = [scan EXCEPT !.timer = FALSE, !.inTimeout = TRUE, !.remain = 0]
        /\ pc' = [pc EXCEPT !.timer = "cancel"]
        /\ hist' = [hist EXCEPT !.timedOut = @ \/ scan.status = "PROGRESS"]
        /\ UNCHANGED <<mac, cmds, events, fw, used>>
    BY <1>8 DEF TimerExpires
  <2>2. scan.status # "PROGRESS"
    BY <1>1, <2>1 DEF Calm, Hists
  <2>3. hist'.event = hist.event /\ pc'.timer = "cancel" /\ pc'.rx = pc.rx
        /\ pc'.rec = pc.rec /\ pc'.err = pc.err /\ scan'.abortDone = scan.abortDone
    BY <1>1, <2>1 DEF Hists, Pcs, ScanStates
  <2>4. mac.scan = 0 \/ mac.cancelled
    BY <2>2, CalmReporter
  <2>5. SameCmds /\ SameEvents
    BY <1>2, <2>1, QueuesKept
  <2> QED
    BY <2>1, <2>3, <2>4, <2>5 DEF CalmState, FwError, OneSsid, AbortLast, Ended, Remaining,
       NoScan, InRx, SameCmds, SameEvents
<1>9. CASE TimerTakes
  <2>1. scan.status # "PROGRESS"
    <3>1. CASE hist' = [hist EXCEPT !.timedOut = TRUE]
      BY <1>1, <3>1 DEF Calm, Hists
    <3> QED
      BY <1>9, <3>1 DEF TimerTakes
  <2>2. scan' = [scan EXCEPT !.inTimeout = FALSE] /\ pc' = [pc EXCEPT !.timer = "idle"]
        /\ UNCHANGED <<mac, cmds, events, fw, used, hist>>
    BY <1>9, <2>1 DEF TimerTakes
  <2>3. pc'.timer = "idle" /\ pc'.rx = pc.rx /\ pc'.rec = pc.rec /\ pc'.err = pc.err
        /\ scan'.abortDone = scan.abortDone /\ scan'.remain = scan.remain
    BY <1>1, <2>2 DEF Pcs, ScanStates
  <2>4. SameCmds /\ SameEvents
    BY <1>2, <2>2, QueuesKept
  <2> QED
    BY <2>2, <2>3, <2>4, CalmFrame
<1>10. ~TimerReports /\ ~TimerResets /\ ~Recovery
  BY DEF CalmState, TimerReports, TimerResets, Recovery, RecRestart, RecFlags, RecCancel,
     RecTakes, RecReports, RecResets, RecRoc, RecBegins, RecInProgress, RecStarting, RecQueues
<1> QED
  BY <1>4, <1>5, <1>6, <1>7, <1>8, <1>9, <1>10 DEF Timer

LEMMA CalmRx ==
    ASSUME TypeOK, NumberInv, OneReporter, Calm, CalmState, [Next]_vars, Calm', RxWork
    PROVE  CalmState'
<1>1. mac \in Macs /\ scan \in ScanStates /\ hist \in Hists /\ pc \in Pcs /\ used \in Counts
  BY DEF TypeOK
<1>2. CmdsOK /\ EventsOK /\ ~Fails /\ scan.remain \in Int
  BY <1>1, CalmBack DEF CalmState, ScanStates
<1>3. CASE ScanComplete
  <2>1. Handles("SCAN_COMPLETE") /\ hist' = [hist EXCEPT !.event = Head(events).n]
        /\ pc' = [pc EXCEPT !.rx = IF scan.remain > 0 THEN "split" ELSE "complete"]
        /\ pc.rx = "idle" /\ UNCHANGED <<mac, scan, cmds, fw, used>>
    BY <1>3 DEF ScanComplete, Handles
  <2>2. pc'.rx = (IF scan.remain > 0 THEN "split" ELSE "complete")
        /\ pc'.timer = pc.timer /\ pc'.rec = pc.rec /\ pc'.err = pc.err
        /\ hist'.event = Head(events).n /\ hist'.todo = hist.todo
    BY <1>1, <2>1 DEF Pcs, Hists
  <2>3. InEvents /\ ~InEvents' /\ (AbortInEvents' <=> AbortInEvents) /\ EventsOK'
        /\ Head(events).n = used.scans
    BY <1>2, <2>1, HandlesMessages, NextQueues DEF EventsOK, InEvents, AbortInEvents
  <2>4. SameCmds
    BY <1>2, <2>1, QueuesKept
  <2>5. ~InCmds /\ fw.scan = 0 /\ ~InRx
    BY <2>3 DEF CalmState, OneSsid
  <2>6. Taking = 0 /\ Taking' = 0 /\ Ahead' = Ahead
    BY <2>1, <2>2, <2>4 DEF Taking, Ahead, SameCmds
  <2>7. Remaining'
    BY <1>2, <2>1, <2>2, <2>6 DEF CalmState, Remaining
  <2> QED
    BY <2>1, <2>2, <2>3, <2>4, <2>5, <2>7
       DEF CalmState, FwError, OneSsid, AbortLast, Ended, NoScan, InRx, SameCmds
<1>4. CASE SplitSends
  <2>1. Send("SCAN", hist.event) /\ hist' = [hist EXCEPT !.overtaken = @ \/ scan.status = "NONE"]
        /\ pc' = [pc EXCEPT !.rx = "take"] /\ pc.rx = "split"
        /\ UNCHANGED <<mac, scan, events, fw, used>>
    BY <1>2, <1>4 DEF SplitSends
  <2>2. scan.status = "PROGRESS"
    BY <1>1, <2>1 DEF Calm, Hists, ScanStates
  <2>3. mac.scan # 0 /\ mac.pc # "abort_wait" /\ ~AbortInCmds /\ ~AbortInEvents
    BY <2>2, CalmReporter DEF CalmState, AbortLast
  <2>4. pc'.rx = "take" /\ pc'.timer = pc.timer /\ pc'.rec = pc.rec /\ pc'.err = pc.err
        /\ hist'.event = hist.event /\ hist'.todo = hist.todo
    BY <1>1, <2>1 DEF Pcs, Hists
  <2>5. InRx /\ ~InCmds /\ fw.scan = 0 /\ ~InEvents /\ hist.event = used.scans
    BY <2>1 DEF CalmState, OneSsid, InRx
  <2>6. hist.event \in Scans /\ hist.event \in Nat
    BY <1>1, <2>1, <2>5 DEF NumberInv, Counts
  <2>7. InCmds' /\ (AbortInCmds' <=> AbortInCmds) /\ CmdsOK'
    BY <1>2, <2>1, <2>3, <2>5, <2>6, SendMessages, NextQueues DEF CmdsOK, InCmds, AbortInCmds
  <2>8. SameEvents
    BY <1>2, <2>1, QueuesKept
  <2>9. Taking = 0 /\ Taking' = 1 /\ Ahead = 0 /\ Ahead' = 1
    BY <2>1, <2>4, <2>5, <2>7 DEF Taking, Ahead
  <2>10. Remaining'
    <3>1. mac.scan # 0 /\ ~mac.cancelled /\ mac.pc # "scan" =>
            hist.todo[mac.scan] = scan.remain /\ scan.remain > 0
      BY <1>2, <2>1, <2>9 DEF CalmState, Remaining
    <3> QED
      BY <1>2, <2>1, <2>4, <2>9, <3>1 DEF Remaining
  <2> QED
    BY <2>1, <2>3, <2>4, <2>5, <2>7, <2>8, <2>10
       DEF CalmState, FwError, OneSsid, AbortLast, Ended, NoScan, InRx, SameEvents
<1>5. CASE SplitTakes
  <2>1. pc' = [pc EXCEPT !.rx = "idle"] /\ pc.rx = "take" /\ hist' = [hist EXCEPT !.event = 0]
        /\ scan' = [scan EXCEPT !.remain = @ - 1] /\ UNCHANGED <<mac, cmds, events, fw, used>>
    BY <1>5 DEF SplitTakes
  <2>2. pc'.rx = "idle" /\ pc'.timer = pc.timer /\ pc'.rec = pc.rec /\ pc'.err = pc.err
        /\ hist'.todo = hist.todo
        /\ scan'.remain = scan.remain - 1 /\ scan'.abortDone = scan.abortDone
    BY <1>1, <2>1 DEF Pcs, Hists, ScanStates
  <2>3. SameCmds /\ SameEvents
    BY <1>2, <2>1, QueuesKept
  <2>4. Taking = 1 /\ Taking' = 0 /\ Ahead' = Ahead
    BY <2>1, <2>2, <2>3 DEF Taking, Ahead, SameCmds
  <2>5. Remaining'
    BY <1>2, <2>1, <2>2, <2>4 DEF CalmState, Remaining
  <2> QED
    BY <2>1, <2>2, <2>3, <2>5
       DEF CalmState, FwError, OneSsid, AbortLast, Ended, NoScan, InRx, SameCmds, SameEvents
<1>6. CASE ScanDone
  <2>1. pc' = [pc EXCEPT !.rx = "idle"] /\ pc.rx = "complete"
        /\ hist' = [hist EXCEPT !.event = 0] /\ UNCHANGED <<cmds, events, fw, used>>
        /\ \/ scan' = [scan EXCEPT !.status = "NONE"] /\ mac' = Reported
           \/ UNCHANGED <<scan, mac>>
    BY <1>6 DEF ScanDone, TakeScan
  <2>2. pc'.rx = "idle" /\ pc'.timer = pc.timer /\ pc'.rec = pc.rec /\ pc'.err = pc.err
        /\ hist'.todo = hist.todo
        /\ scan'.remain = scan.remain /\ scan'.abortDone = scan.abortDone
        /\ mac'.pc = mac.pc
        /\ (mac'.scan = 0 \/ (mac'.scan = mac.scan /\ mac'.cancelled = mac.cancelled))
    BY <1>1, <2>1 DEF Pcs, Hists, ScanStates, Macs, Reported
  <2>3. SameCmds /\ SameEvents
    BY <1>2, <2>1, QueuesKept
  <2>4. InRx /\ ~InCmds /\ fw.scan = 0 /\ ~InEvents /\ mac.pc # "scan"
    BY <2>1 DEF CalmState, OneSsid, InRx, Ended, NoScan
  <2>5. Taking = 0 /\ Taking' = 0 /\ Ahead' = Ahead
    BY <2>1, <2>2, <2>3 DEF Taking, Ahead, SameCmds
  <2>6. Remaining'
    BY <1>2, <2>1, <2>2, <2>5 DEF CalmState, Remaining
  <2> QED
    BY <2>1, <2>2, <2>3, <2>4, <2>6
       DEF CalmState, FwError, OneSsid, AbortLast, Ended, NoScan, InRx, SameCmds, SameEvents
<1>7. CASE AbortComplete
  <2>1. Handles("ABORT_COMPLETE") /\ pc.rx = "idle" /\ scan' = [scan EXCEPT !.abortDone = TRUE]
        /\ UNCHANGED <<mac, pc, cmds, fw, used, hist>>
    BY <1>7 DEF AbortComplete, Handles
  <2>2. scan'.abortDone /\ scan'.remain = scan.remain
    BY <1>1, <2>1 DEF ScanStates
  <2>3. AbortInEvents /\ ~AbortInEvents' /\ ~InEvents /\ ~InEvents' /\ EventsOK'
    BY <1>2, <2>1, HandlesMessages, NextQueues DEF EventsOK, InEvents, AbortInEvents
  <2>4. SameCmds
    BY <1>2, <2>1, QueuesKept
  <2>5. ~InCmds /\ fw.scan = 0 /\ ~AbortInCmds /\ mac.pc = "abort_wait"
    BY <2>3 DEF CalmState, AbortLast
  <2>6. mac.scan = 0 \/ mac.cancelled
    BY <2>5 DEF CalmState
  <2> QED
    BY <2>1, <2>2, <2>3, <2>4, <2>5, <2>6
       DEF CalmState, FwError, OneSsid, AbortLast, Ended, Remaining, NoScan, InRx, SameCmds
<1>8. CASE RocStarted \/ RocEnded \/ RocQueue
  <2>1. /\ \/ Handles("ROC_STARTED") /\ pc' = pc
           \/ /\ Handles("ROC_ENDED")
              /\ \E x \in {"queue", "idle"} : pc' = [pc EXCEPT !.rx = x]
           \/ events' = events /\ pc.rx = "queue" /\ pc' = [pc EXCEPT !.rx = "idle"]
        /\ UNCHANGED <<mac, scan, cmds, fw, used, hist>>
    BY <1>8 DEF RocStarted, RocEnded, RocQueue
  <2>3. /\ pc'.timer = pc.timer /\ pc'.rec = pc.rec /\ pc'.err = pc.err
        /\ pc'.rx = pc.rx \/ (pc.rx \in {"idle", "queue"} /\ pc'.rx \in {"idle", "queue"})
    BY <1>1, <2>1 DEF Pcs, Handles
  <2>2. SameCmds /\ SameEvents
    BY <1>2, <2>1, QueuesKept, RocMessages
  <2> QED
    BY <2>1, <2>2, <2>3, CalmFrame DEF CalmState
<1> QED
  BY <1>3, <1>4, <1>5, <1>6, <1>7, <1>8 DEF RxWork

LEMMA CalmFirmware ==
    ASSUME TypeOK, NumberInv, OneReporter, Calm, CalmState, Calm', Firmware
    PROVE  CalmState'
<1>1. fw \in Fws /\ hist \in Hists /\ scan \in ScanStates /\ used \in Counts /\ mac \in Macs
      /\ MaxScans \in Nat
  BY OffChannelAssumption DEF TypeOK
<1>2. CmdsOK /\ EventsOK /\ scan.remain \in Int
  BY <1>1 DEF CalmState, ScanStates
<1>3. CASE FwScanBegins
  <2>1. Takes("SCAN") /\ fw.scan = 0 /\ fw' = [fw EXCEPT !.scan = Head(cmds).n]
        /\ UNCHANGED <<mac, scan, pc, used, events, hist>>
    BY <1>3 DEF FwScanBegins, fwFrame
  <2>2. InCmds /\ ~InCmds' /\ (AbortInCmds' <=> AbortInCmds) /\ CmdsOK'
        /\ Head(cmds).n = used.scans
    BY <1>2, <2>1, TakesMessages, NextQueues DEF CmdsOK, InCmds, AbortInCmds
  <2>3. fw'.scan = used.scans /\ used.scans # 0
    <3>1. Head(cmds).n \in Scans
      BY <2>1, TakesType DEF Commands
    <3>2. Head(cmds).n # 0 /\ fw'.scan = Head(cmds).n
      BY <1>1, <2>1, <3>1 DEF Scans, Fws
    <3> QED
      BY <2>2, <3>2
  <2>4. SameEvents
    BY <1>2, <2>1, QueuesKept
  <2>5. Taking' = Taking /\ Ahead' = Ahead
    BY <2>1, <2>2, <2>3 DEF Taking, Ahead
  <2>6. Remaining'
    BY <2>1, <2>5 DEF CalmState, Remaining
  <2> QED
    BY <2>1, <2>2, <2>3, <2>4, <2>6
       DEF CalmState, FwError, OneSsid, AbortLast, Ended, NoScan, InRx, SameEvents
<1>4. CASE FwScanEnds
  <2> DEFINE k == fw.scan
             x == IF hist.todo[k] = 0 THEN 0 ELSE hist.todo[k] - 1
  <2>1. k # 0 /\ fw' = [fw EXCEPT !.scan = 0] /\ Tells("SCAN_COMPLETE", k)
        /\ hist' = [hist EXCEPT !.todo[k] = IF @ = 0 THEN 0 ELSE @ - 1]
        /\ UNCHANGED <<mac, scan, pc, used, cmds>>
    BY <1>4 DEF FwScanEnds, fwFrame
  <2>2. k = used.scans /\ ~InEvents /\ ~InRx /\ ~InCmds /\ ~AbortInEvents
    BY <2>1 DEF CalmState, FwError, OneSsid, AbortLast
  <2>3. k \in Scans /\ k \in Nat
    BY <1>1, <2>1 DEF Fws, Scans
  <2>4. fw'.scan = 0 /\ hist'.event = hist.event /\ hist'.todo[k] = x
    BY <1>1, <2>1, <2>3 DEF Fws, Hists
  <2>5. InEvents' /\ (AbortInEvents' <=> AbortInEvents) /\ EventsOK'
    BY <1>2, <2>1, <2>2, <2>3, TellsMessages, NextQueues DEF EventsOK, InEvents, AbortInEvents
  <2>6. SameCmds
    BY <1>2, <2>1, QueuesKept
  <2>7. Taking' = Taking /\ Taking \in {0, 1} /\ Ahead = 1 /\ Ahead' = 0
    BY <2>1, <2>2, <2>4, <2>6 DEF Taking, Ahead, SameCmds
  <2>8. Remaining'
    <3>1. SUFFICES ASSUME mac.scan # 0, ~mac.cancelled, mac.pc # "scan"
                   PROVE  /\ scan.remain - Taking' >= 0
                          /\ hist'.todo[mac.scan] = scan.remain - Taking' + Ahead'
      BY <2>1, <2>2 DEF Remaining, InRx
    <3>2. scan.remain - Taking >= 0 /\ hist.todo[mac.scan] = scan.remain - Taking + 1
      BY <2>7, <3>1 DEF CalmState, Remaining
    <3>3. mac.scan = k
      BY <2>2, <3>1 DEF NumberInv
    <3>4. x = scan.remain - Taking
      BY <1>2, <2>7, <3>2, <3>3
    <3> QED
      BY <1>2, <2>4, <2>7, <3>2, <3>3, <3>4
  <2> QED
    BY <2>1, <2>2, <2>4, <2>5, <2>6, <2>8
       DEF CalmState, FwError, OneSsid, AbortLast, Ended, NoScan, InRx, SameCmds
<1>5. CASE FwAborts
  <2>1. Takes("ABORT") /\ fw' = [fw EXCEPT !.scan = 0] /\ Tells("ABORT_COMPLETE", 0)
        /\ UNCHANGED <<mac, scan, pc, used, hist>>
    BY <1>5 DEF FwAborts, fwFrame
  <2>2. AbortInCmds /\ ~AbortInCmds' /\ ~InCmds /\ ~InCmds' /\ CmdsOK'
    BY <1>2, <2>1, TakesMessages, NextQueues DEF CmdsOK, InCmds, AbortInCmds
  <2>3. ~AbortInEvents /\ mac.pc = "abort_wait" /\ ~scan.abortDone
        /\ (mac.scan = 0 \/ mac.cancelled)
    BY <2>2 DEF CalmState, AbortLast
  <2>4. AbortInEvents' /\ (InEvents' <=> InEvents) /\ EventsOK'
    BY <1>2, <2>1, <2>3, TellsMessages, NextQueues DEF EventsOK, InEvents, AbortInEvents
  <2>5. fw'.scan = 0
    BY <1>1, <2>1 DEF Fws
  <2> QED
    BY <2>1, <2>2, <2>3, <2>4, <2>5
       DEF CalmState, FwError, OneSsid, AbortLast, Ended, Remaining, NoScan, InRx
<1>6. CASE FwRocBegins \/ FwRocEnds \/ FwRocStops
  <2>1. /\ UNCHANGED <<mac, scan, pc, used, hist>>
        /\ (Takes("ROC_START") \/ Takes("ROC_STOP") \/ UNCHANGED cmds)
        /\ (Tells("ROC_STARTED", 0) \/ Tells("ROC_ENDED", 0))
        /\ \E n : fw' = [fw EXCEPT !.roc = n]
    BY <1>6 DEF FwRocBegins, FwRocEnds, FwRocStops, fwFrame
  <2>2. fw'.scan = fw.scan
    BY <1>1, <2>1 DEF Fws
  <2>3. SameCmds /\ SameEvents
    BY <1>2, <2>1, QueuesKept, RocMessages
  <2> QED
    BY <2>1, <2>2, <2>3, CalmFrame DEF CalmState
<1> QED
  BY <1>3, <1>4, <1>5, <1>6 DEF Firmware

LEMMA StepCalm == ReportInv /\ CalmInv /\ [Next]_vars => CalmInv'
<1> SUFFICES ASSUME ReportInv, CalmInv, [Next]_vars, Calm' PROVE CalmState'
  BY DEF CalmInv
<1>1. TypeOK /\ NumberInv /\ OneReporter /\ Calm /\ CalmState
  BY CalmBack DEF ReportInv, CalmInv
<1>2. CASE UNCHANGED vars
  <2>1. CmdsOK /\ EventsOK /\ used'.scans = used.scans
    BY <1>1, <1>2 DEF CalmState, vars
  <2>2. SameCmds /\ SameEvents
    BY <1>2, <2>1, QueuesKept DEF vars
  <2> QED
    BY <1>1, <1>2, <2>2, CalmFrame DEF vars, CalmState
<1>3. CASE Next
  <2>1. ~FwDies
    BY <1>1, CalmBack
  <2> QED
    BY <1>1, <1>3, <2>1, CalmMac, CalmOthers, CalmRx, CalmFirmware DEF Next, Progress,
       MacReturns
<1> QED
  BY <1>2, <1>3

LEMMA InitCalm == Init => CalmInv
  BY DEF Init, CalmInv, CalmState, FwError, CmdsOK, EventsOK, OneSsid, AbortLast, Ended,
     Remaining, NoScan, InRx, InCmds, InEvents, AbortInCmds, AbortInEvents, Has, Once, Precedes,
     Numbered

\* A scan that is completed for mac80211 (rpu_scan_complete) has had all its
\* ssids scanned, for any number of scans and ssids, if it was not cancelled
\* and nothing timed out, failed or overtook it before: split_mult_ssid_scan
\* neither skips an ssid nor completes the scan while one is under way.
THEOREM CompletedWhenAllScanned == Spec => CompleteWhenScanned
<1> DEFINE Good == (/\ Completion /\ mac.scan # 0 /\ ~mac.cancelled
                    /\ Faults = 0 /\ ~hist.timedOut /\ ~hist.overtaken)
                      => hist.todo[mac.scan] = 0
<1>1. ReportInv /\ CalmInv /\ [Next]_vars => [Good]_vars
  <2>1. SUFFICES ASSUME ReportInv, CalmInv, Completion, mac.scan # 0, ~mac.cancelled,
                        Faults = 0, ~hist.timedOut, ~hist.overtaken
                 PROVE  hist.todo[mac.scan] = 0
    OBVIOUS
  <2>2. CalmState /\ pc.rx = "complete" /\ scan.remain \in Int
    BY <2>1 DEF CalmInv, Calm, Completion, ReportInv, TypeOK, ScanStates
  <2>3. InRx /\ ~InCmds /\ fw.scan = 0 /\ mac.pc # "scan"
    BY <2>2 DEF CalmState, OneSsid, InRx, Ended, NoScan
  <2>4. Taking = 0 /\ Ahead = 0
    BY <2>2, <2>3 DEF Taking, Ahead
  <2> QED
    BY <2>1, <2>2, <2>3, <2>4 DEF CalmState, Remaining
<1>2. Spec => [](ReportInv /\ CalmInv)
  <2>1. Spec => []CalmInv
    BY InitCalm, StepCalm, SpecReportInv, PTL DEF Spec
  <2> QED
    BY <2>1, SpecReportInv, PTL
<1> QED
  BY <1>1, <1>2, PTL DEF Spec, CompleteWhenScanned
=============================================================================
