--------------------------------- MODULE Power ---------------------------------
(***************************************************************************)
(* System suspend and resume (wow.c, hal.c, sdio.c). mac80211 calls        *)
(* img_suspend, which asks the firmware through the command queue whether  *)
(* it is ready and then tells it to sleep through the bus, past the        *)
(* queue; then the bus is suspended. From sdio_suspend to PM_POST_SUSPEND  *)
(* tx_thread holds commands back for a second.                             *)
(*                                                                         *)
(* The commands that PS_CMD stands for are compiled out (RPU_ENABLE_PS).   *)
(***************************************************************************)
EXTENDS Naturals, Sequences, SequencesExt

CONSTANTS
  MaxCmds,      \* bound: commands of mac80211's operations
  MaxSuspends,  \* bound: suspends
  MaxFaults     \* bound: deaths of the firmware, waits that run out, lost
                \* COMMAND_PROC_DONE events

ASSUME PowerAssumption == {MaxCmds, MaxSuspends, MaxFaults} \subseteq Nat

VARIABLES
  sus,    \* the suspending thread: where it is, whether the interface was
          \* associated, reads of the CSR so far; history: a wait for an answer
          \* ended early, or an earlier answer was still due
  csr,    \* read_csr_complete, read_csr_value
  ctl,    \* outstanding_ctrl_req and the commands that tx_thread has not taken
  hand,   \* the command tx_thread has taken (a sequence of at most one)
  pm,     \* during_pm_resume
  fw,     \* the firmware: commands written and not processed, whether it was
          \* told to sleep, and its events
  error,  \* fw_error
  used    \* commands, suspends and faults so far

vars == <<sus, csr, ctl, hand, pm, fw, error, used>>

Fault == used.faults < MaxFaults /\ used' = [used EXCEPT !.faults = @ + 1]

At(pc) == sus.pc = pc
Goto(pc) == sus' = [sus EXCEPT !.pc = pc]

\* rpu_send: the command is counted and queued behind the others.
Sent(c) == [outstanding |-> ctl.outstanding + 1, txq |-> Append(ctl.txq, c)]

\* An answer to a read is due that nobody waits for any more.
AnswerDue ==
  "csr" \in ToSet(ctl.txq) \cup ToSet(hand) \cup ToSet(fw.q)
            \cup {e.what : e \in ToSet(fw.events)}

\* A command of one of mac80211's operations.
Config ==
  /\ sus.pc \in {"awake", "resumed"}
  /\ used.cmds < MaxCmds
  /\ used' = [used EXCEPT !.cmds = @ + 1]
  /\ ctl' = Sent("config")
  /\ UNCHANGED <<sus, csr, hand, pm, fw, error>>

-----------------------------------------------------------------------------
(* img_suspend.                                                            *)

\* A scan, a period off the channel or a second interface refuse the suspend.
SuspendRefused ==
  /\ At("awake")
  /\ used.suspends < MaxSuspends
  /\ used' = [used EXCEPT !.suspends = @ + 1]
  /\ UNCHANGED <<sus, csr, ctl, hand, pm, fw, error>>

\* Only an associated interface waits for its commands.
Suspend ==
  /\ At("awake")
  /\ used.suspends < MaxSuspends
  /\ used' = [used EXCEPT !.suspends = @ + 1]
  /\ \E assoc \in BOOLEAN :
       sus' = [pc |-> IF assoc THEN "commands" ELSE "read",
               assoc |-> assoc, reads |-> 0, early |-> AnswerDue]
  /\ UNCHANGED <<csr, ctl, hand, pm, fw, error>>

\* wait_for_all_cmd_done
CommandsDone ==
  /\ At("commands") /\ ctl.outstanding = 0
  /\ Goto("read")
  /\ UNCHANGED <<csr, ctl, hand, pm, fw, error, used>>

\* -EBUSY.
CommandsTimeOut ==
  /\ At("commands") /\ ctl.outstanding > 0
  /\ Fault
  /\ Goto("awake")
  /\ UNCHANGED <<csr, ctl, hand, pm, fw, error>>

\* Mutant of Cleared: the flag of the last read is left set.
ClearedValue == [csr EXCEPT !.value = {}]

\* rk915_wait_fw_ready_to_sleep forgets the last answer.
Cleared == [complete |-> FALSE, value |-> {}]

ReadCsr ==
  /\ At("read")
  /\ csr' = Cleared
  /\ ctl' = Sent("csr")
  /\ sus' = [sus EXCEPT !.pc = "answer", !.reads = @ + 1]
  /\ UNCHANGED <<hand, pm, fw, error, used>>

\* After the answer: a busy firmware is asked once more, and one that is ready
\* is told to sleep twice.
AfterAnswer ==
  IF sus.reads = 1 /\ "busy" \in csr.value THEN "read"
  ELSE IF "ready" \in csr.value THEN "notify_ready" ELSE "notify"

\* wait_for_read_csr_cmp
Answered ==
  /\ At("answer") /\ csr.complete
  /\ Goto(AfterAnswer)
  /\ UNCHANGED <<csr, ctl, hand, pm, fw, error, used>>

\* The wait ends at once when the firmware has failed. The caller goes on.
AnswerTimesOut ==
  /\ At("answer") /\ ~csr.complete
  /\ IF error THEN UNCHANGED used ELSE Fault
  /\ sus' = [sus EXCEPT !.pc = AfterAnswer, !.early = TRUE]
  /\ UNCHANGED <<csr, ctl, hand, pm, fw, error>>

\* rk915_notify_pm(0): a write to the bus.
NotifySleep ==
  /\ \/ At("notify_ready") /\ Goto("notify")
     \/ At("notify") /\ Goto("suspended")
  /\ fw' = [fw EXCEPT !.asleep = TRUE]
  /\ UNCHANGED <<csr, ctl, hand, pm, error, used>>

-----------------------------------------------------------------------------
(* The bus and the end of the suspend.                                     *)

SdioSuspend ==
  /\ At("suspended")
  /\ Goto("frozen")
  /\ pm' = TRUE
  /\ UNCHANGED <<csr, ctl, hand, fw, error, used>>

SdioResume ==
  /\ At("frozen")
  /\ Goto("suspended")
  /\ pm' = TRUE
  /\ UNCHANGED <<csr, ctl, hand, fw, error, used>>

\* img_resume, also when another device has refused to suspend.
Resume ==
  /\ At("suspended")
  /\ Goto("resumed")
  /\ fw' = [fw EXCEPT !.asleep = FALSE]
  /\ UNCHANGED <<csr, ctl, hand, pm, error, used>>

\* rk915_pm_notifier
PostSuspend ==
  /\ At("resumed")
  /\ Goto("awake")
  /\ pm' = FALSE
  /\ UNCHANGED <<csr, ctl, hand, fw, error, used>>

-----------------------------------------------------------------------------
(* tx_thread, the receive work and the firmware.                           *)

TxTake ==
  /\ hand = <<>> /\ ctl.txq # <<>> /\ ~error
  /\ hand' = <<Head(ctl.txq)>>
  /\ ctl' = [ctl EXCEPT !.txq = Tail(@)]
  /\ UNCHANGED <<sus, csr, pm, fw, error, used>>

\* wait_for_pm_resume_done: when it runs out the command is written all the
\* same.
TxWrite ==
  /\ hand # <<>>
  /\ IF pm THEN Fault ELSE UNCHANGED used
  /\ hand' = <<>>
  /\ fw' = IF error THEN fw ELSE [fw EXCEPT !.q = @ \o hand]
  /\ UNCHANGED <<sus, csr, ctl, pm, error>>

\* A read is answered, and a command that has been processed is reported by
\* COMMAND_PROC_DONE, which may be lost.
Answers ==
  IF Head(fw.q) = "csr"
  THEN {<<[what |-> "csr", value |-> v]>> : v \in SUBSET {"busy", "ready"}}
  ELSE {<<>>}

FwProcess ==
  /\ fw.q # <<>> /\ ~error
  /\ \E answer \in Answers, lost \in BOOLEAN :
       /\ IF lost THEN Fault ELSE UNCHANGED used
       /\ fw' = [fw EXCEPT !.q = Tail(@),
                   !.events = @ \o answer
                     \o IF lost THEN <<>> ELSE <<[what |-> "done", value |-> {}]>>]
  /\ UNCHANGED <<sus, csr, ctl, hand, pm, error>>

\* rpu_msg_handler
RxHandle ==
  /\ fw.events # <<>>
  /\ LET e == Head(fw.events) IN
     IF e.what = "csr"
     THEN csr' = [complete |-> TRUE, value |-> e.value] /\ UNCHANGED ctl
     ELSE /\ ctl' = [ctl EXCEPT !.outstanding = IF @ > 0 THEN @ - 1 ELSE 0]
          /\ UNCHANGED csr
  /\ fw' = [fw EXCEPT !.events = Tail(@)]
  /\ UNCHANGED <<sus, hand, pm, error, used>>

\* The firmware dies, and an I/O error is signalled.
FwDies ==
  /\ ~error /\ Fault
  /\ error' = TRUE
  /\ fw' = [q |-> <<>>, asleep |-> FALSE, events |-> <<>>]
  /\ UNCHANGED <<sus, csr, ctl, hand, pm>>

\* The recovery ends; those of the commands that rpu_send still holds are
\* counted again, the others, which the HAL has queued, are not.
Recovered ==
  /\ error
  /\ error' = FALSE
  /\ \E n \in 0 .. Len(ctl.txq) : ctl' = [ctl EXCEPT !.outstanding = n]
  /\ UNCHANGED <<sus, csr, hand, pm, fw, used>>

-----------------------------------------------------------------------------

Init ==
  /\ sus = [pc |-> "awake", assoc |-> FALSE, reads |-> 0, early |-> FALSE]
  /\ csr = [complete |-> FALSE, value |-> {}]
  /\ ctl = [outstanding |-> 0, txq |-> <<>>]
  /\ hand = <<>> /\ pm = FALSE /\ error = FALSE
  /\ fw = [q |-> <<>>, asleep |-> FALSE, events |-> <<>>]
  /\ used = [cmds |-> 0, suspends |-> 0, faults |-> 0]

Suspends ==
  Suspend \/ SuspendRefused \/ CommandsDone \/ CommandsTimeOut \/ ReadCsr
  \/ Answered \/ AnswerTimesOut \/ NotifySleep

Resumes == SdioSuspend \/ SdioResume \/ Resume \/ PostSuspend

Next ==
  \/ Config \/ Suspends \/ Resumes
  \/ TxTake \/ TxWrite \/ RxHandle
  \/ FwProcess \/ FwDies \/ Recovered

Spec == Init /\ [][Next]_vars

-----------------------------------------------------------------------------
(* Properties.                                                             *)

\* When the firmware is told to sleep no command is on its way to it, whether
\* the interface is associated or not: the answer that img_suspend waits for
\* comes behind every command sent before. The exceptions are a wait that ended
\* early, and one that took the late answer to an earlier read.
CommandsBeforeSleep ==
  [][fw'.asleep /\ ~fw.asleep /\ ~sus.early
       => ctl.txq = <<>> /\ hand = <<>> /\ fw.q = <<>>]_vars
=============================================================================
