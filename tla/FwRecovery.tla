----------------------------- MODULE FwRecovery -----------------------------
(***************************************************************************)
(* The threads between the transmit pool and the firmware, and the         *)
(* recovery from a firmware error (drivers/rk915/src/hal.c,                *)
(* rk915_signal_io_error, rpu_tx_proc_unfi_tx_done).                       *)
(*                                                                         *)
(* hal_send queues a command on txq and posts a semaphore; tx_thread       *)
(* writes it to the firmware.  rx_thread reads the firmware's events into  *)
(* rxq, and the receive work hands them to rpu_msg_handler.  When an I/O   *)
(* operation fails, fw_err_work_fn powers the chip down and up, resets it, *)
(* and completes, on the dead firmware's behalf, the tokens it had.        *)
(*                                                                         *)
(* A command is the token whose frames it carries; what a token carries is *)
(* TxTokens' matter, the control commands are CmdQueue's.  Each action is  *)
(* a step of one thread between two accesses to what the threads share.    *)
(***************************************************************************)
EXTENDS Integers, Sequences, FiniteSets

CONSTANTS
    NumTokens,     \* NUM_TX_DESCS
    MaxSends,      \* bound on calls of hal_send
    MaxErrors,     \* bound on deaths of the firmware
    MaxBlocks      \* bound on RPU_EVENT_BLOCK_ALL events

Tokens == 0 .. NumTokens - 1

ASSUME FwConstants ==
    /\ NumTokens \in Nat \ {0} /\ MaxSends \in Nat
    /\ MaxErrors \in Nat /\ MaxBlocks \in Nat

VARIABLES
    claimed,       \* tx->buf_pool_bmp
    hadSend,       \* tx->tx_desc_had_send_to_io
    txq,           \* the commands queued for tx_thread
    sema,          \* tx_thread's semaphore
    tx,            \* where tx_thread is, and the command it has; see TxAt
    rxHeld,        \* the event rx_thread has read, in a sequence
    rxPassed,      \* it has tested fw_error_processing and will queue it
    rxq,           \* the events queued for the receive work
    rxEvent,       \* the event the receive work is handling, in a sequence
    blocked,       \* block_rpu_comm
    errProcessing, \* fw_error_processing
    halDisabled,   \* hal_disabled
    resetComp,     \* g_lpw_recovery_param.status = RECOVERY_STATUS_RESET_COMP
    signalling,    \* threads between test and set of fw_error_processing
    errWork,       \* where fw_err_work_fn is, and its loop index; see WorkAt
    workPending,   \* fw_err_work is scheduled
    was,           \* what the recoveries met, for the properties; see Was
    fw,            \* the firmware: "up", "dead" or powered "off"
    fwHas,         \* the tokens whose commands it has
    fwReset,       \* it has a reset command
    fwBlocks,      \* it has blocked the driver
    fwEvents,      \* its events not yet read
    sends, errors, blocks   \* bounded events so far

poolVars == <<claimed, hadSend>>
txVars   == <<txq, sema, tx>>
rxVars   == <<rxHeld, rxPassed, rxq, rxEvent, blocked>>
workVars == <<errProcessing, halDisabled, resetComp, signalling, errWork,
              workPending, was>>
fwVars   == <<fw, fwHas, fwReset, fwBlocks, fwEvents>>
bounds   == <<sends, errors, blocks>>
vars     == <<poolVars, txVars, rxVars, workVars, fwVars, bounds>>

TxAt(pc, cmd)  == [pc |-> pc, cmd |-> cmd]      \* cmd is <<>> or <<token>>
WorkAt(pc, i)  == [pc |-> pc, i |-> i]
WorkSteps      == {"idle", "drain", "disable", "bring_up", "enable", "reset",
                   "wait_reset", "clear", "unfi", "complete"}
Was(raced, ended, left) == [raced |-> raced, ended |-> ended, left |-> left]
Done(t)        == [id |-> "TX_DONE", token |-> t]
Event(id)      == [id |-> id, token |-> NumTokens]
Events         == {Done(t) : t \in Tokens} \cup
                  {Event(id) : id \in {"RESET_COMPLETE", "BLOCK_ALL",
                                       "UNBLOCK_ALL"}}

Init ==
    /\ claimed = {} /\ hadSend = {}
    /\ txq = <<>> /\ sema = 0 /\ tx = TxAt("down", <<>>)
    /\ rxHeld = <<>> /\ rxPassed = FALSE /\ rxq = <<>> /\ rxEvent = <<>>
    /\ blocked = FALSE
    /\ errProcessing = FALSE /\ halDisabled = FALSE /\ resetComp = FALSE
    /\ signalling = {} /\ errWork = WorkAt("idle", 0) /\ workPending = FALSE
    /\ was = Was(FALSE, FALSE, 0)
    /\ fw = "up" /\ fwHas = {} /\ fwReset = FALSE /\ fwBlocks = FALSE
    /\ fwEvents = <<>>
    /\ sends = 0 /\ errors = 0 /\ blocks = 0

-----------------------------------------------------------------------------
(* The transmit pool, and hal_send.                                        *)

\* hal_tx_queue_work: no post while the HAL is disabled.
Posted == IF halDisabled THEN sema ELSE sema + 1

HalSend(t) ==
    /\ sends < MaxSends /\ sends' = sends + 1
    /\ txq' = Append(txq, t) /\ sema' = Posted
    /\ UNCHANGED <<tx, errors, blocks>>

\* Mutant of IsFree: the bit is not tested.
IsFreeUntested(t) == TRUE

\* get_token's test of the token's bit.
IsFree(t) == t \notin claimed

\* A free token is claimed (get_token), filled and programmed: a frame from
\* mac80211, a beacon, or rpu_unblock_all_frames.  Of these only mac80211's
\* tx tests fw_error_processing, before it comes here.
SendFrame(t) ==
    /\ IsFree(t) /\ ~blocked
    /\ claimed' = claimed \cup {t} /\ hadSend' = hadSend \ {t}
    /\ HalSend(t)
    /\ UNCHANGED <<rxVars, workVars, fwVars>>

\* rpu_tx_complete: the token takes another batch, or returns to the pool.
Complete(t) ==
    /\ hadSend' = hadSend \ {t}
    /\ \/ ~blocked /\ HalSend(t) /\ UNCHANGED claimed
       \/ claimed' = claimed \ {t} /\ UNCHANGED <<txVars, bounds>>

-----------------------------------------------------------------------------
(* rk915_signal_io_error, in tx_thread or rx_thread ("tx", "rx").          *)

\* The thread tests fw_error_processing, and returns if it is set.
SignalTest(thread) ==
    signalling' = IF errProcessing THEN signalling ELSE signalling \cup {thread}

\* The work runs, and has not cleared the flag yet.
Recovering == errWork.pc \in {"drain", "disable", "bring_up", "enable", "reset",
                              "wait_reset", "clear"}

\* It sets the flag and schedules the work, unless it is scheduled already;
\* another thread may have done so since the test.  If the work is already
\* running it will clear the flag that its second run is to have.
SignalSet(thread) ==
    /\ thread \in signalling /\ signalling' = signalling \ {thread}
    /\ errProcessing' = TRUE /\ workPending' = TRUE
    /\ was' = [was EXCEPT !.raced = @ \/ Recovering]
    /\ UNCHANGED <<poolVars, txVars, rxVars, halDisabled, resetComp, errWork,
                   fwVars, bounds>>

-----------------------------------------------------------------------------
(* tx_thread.                                                              *)

\* The semaphore is taken also when a recovery then keeps the thread from
\* looking at the queue.
TxDown ==
    /\ tx.pc = "down" /\ sema > 0 /\ sema' = sema - 1
    /\ tx' = IF errProcessing THEN tx ELSE TxAt("loop", <<>>)
    /\ UNCHANGED <<txq, poolVars, rxVars, workVars, fwVars, bounds>>

TxDequeue ==
    /\ tx.pc = "loop"
    /\ IF txq = <<>> \/ blocked
       THEN tx' = TxAt("down", <<>>) /\ UNCHANGED txq
       ELSE tx' = TxAt("save", <<Head(txq)>>) /\ txq' = Tail(txq)
    /\ UNCHANGED <<sema, poolVars, rxVars, workVars, fwVars, bounds>>

\* Mutant of Noted: a command that will be dropped is not noted.
NotedIfEnabled(t) == IF halDisabled THEN hadSend ELSE hadSend \cup {t}

\* tx_desc_had_send_to_io with the mark of token t set.
Noted(t) == hadSend \cup {t}

\* save_fw_recovery_cmd notes that the token goes to the firmware.
TxSave ==
    /\ tx.pc = "save"
    /\ hadSend' = Noted(tx.cmd[1])
    /\ tx' = TxAt("test", tx.cmd)
    /\ UNCHANGED <<txq, sema, claimed, rxVars, workVars, fwVars, bounds>>

\* The command is dropped if the HAL is disabled.
TxTest ==
    /\ tx.pc = "test"
    /\ tx' = IF halDisabled THEN TxAt("down", <<>>) ELSE TxAt("write", tx.cmd)
    /\ UNCHANGED <<txq, sema, poolVars, rxVars, workVars, fwVars, bounds>>

\* rk915_data_write; a write that fails signals the error and is forgotten.
TxWrite ==
    /\ tx.pc = "write" /\ tx' = TxAt("loop", <<>>)
    /\ \/ /\ fw = "up" /\ fwHas' = fwHas \cup {tx.cmd[1]}
          /\ UNCHANGED signalling
       \/ /\ fw # "up" /\ SignalTest("tx")
          /\ UNCHANGED fwHas
    /\ UNCHANGED <<txq, sema, poolVars, rxVars, errProcessing, halDisabled,
                   resetComp, errWork, workPending, was, fw, fwReset,
                   fwBlocks, fwEvents, bounds>>

-----------------------------------------------------------------------------
(* rx_thread and the receive work.                                         *)

\* Mutant of Swallowed: the test is of hal_disabled.
SwallowedIfDisabled == halDisabled

\* During a recovery rx_thread keeps the events from the driver.
Swallowed == errProcessing

\* Mutant of IsAnswer: another event is taken for the answer.
IsAnswerOfTx(e) == e.id = "TX_DONE"

\* The answer to the recovery's reset.
IsAnswer(e) == e.id = "RESET_COMPLETE"

\* An interrupt of the live firmware wakes rx_thread, and it reads an event ...
RxRead ==
    /\ fw = "up" /\ fwEvents # <<>> /\ rxHeld = <<>> /\ "rx" \notin signalling
    /\ fwEvents' = Tail(fwEvents) /\ rxHeld' = <<Head(fwEvents)>>
    /\ UNCHANGED <<poolVars, txVars, rxPassed, rxq, rxEvent, blocked, workVars,
                   fw, fwHas, fwReset, fwBlocks, bounds>>

\* ... and tests fw_error_processing.
RxTest ==
    /\ rxHeld # <<>> /\ ~rxPassed
    /\ IF Swallowed
       THEN /\ resetComp' = (resetComp \/ IsAnswer(rxHeld[1]))
            /\ rxHeld' = <<>> /\ UNCHANGED rxPassed
       ELSE /\ rxPassed' = TRUE /\ UNCHANGED <<rxHeld, resetComp>>
    /\ UNCHANGED <<poolVars, txVars, rxq, rxEvent, blocked, errProcessing,
                   halDisabled, signalling, errWork, workPending, was, fwVars,
                   bounds>>

\* hal_recv; a recovery may have begun since the test.
RxEnqueue ==
    /\ rxPassed /\ rxPassed' = FALSE
    /\ rxHeld' = <<>> /\ rxq' = Append(rxq, rxHeld[1])
    /\ UNCHANGED <<rxEvent, blocked, poolVars, txVars, workVars, fwVars,
                   bounds>>

\* A read from a dead firmware fails.  It takes an interrupt from before the
\* death that rx_thread has not served, and so may happen or not.
RxFails ==
    /\ fw = "dead" /\ rxHeld = <<>> /\ "rx" \notin signalling /\ ~errProcessing
    /\ SignalTest("rx")
    /\ UNCHANGED <<poolVars, txVars, rxVars, errProcessing, halDisabled,
                   resetComp, errWork, workPending, was, fwVars, bounds>>

\* rx_work_fn takes the next event off the queue ...
RxWorkTake ==
    /\ rxEvent = <<>> /\ rxq # <<>>
    /\ rxEvent' = <<Head(rxq)>> /\ rxq' = Tail(rxq)
    /\ UNCHANGED <<rxHeld, rxPassed, blocked, poolVars, txVars, workVars,
                   fwVars, bounds>>

\* ... and rpu_msg_handler handles it.
RxWorkHandle ==
    /\ rxEvent # <<>> /\ rxEvent' = <<>>
    /\ LET e == rxEvent[1] IN
       \/ /\ e.id = "TX_DONE" /\ Complete(e.token)
          /\ UNCHANGED blocked
       \/ /\ e.id # "TX_DONE"
          /\ blocked' = (e.id = "BLOCK_ALL")   \* RESET_COMPLETE unblocks too
          /\ UNCHANGED <<poolVars, txVars, bounds>>
    /\ UNCHANGED <<rxHeld, rxPassed, rxq, workVars, fwVars>>

-----------------------------------------------------------------------------
(* fw_err_work_fn.                                                         *)

WorkStart ==
    /\ workPending /\ errWork.pc = "idle"
    /\ workPending' = FALSE /\ errWork' = WorkAt("drain", 0)
    /\ UNCHANGED <<poolVars, txVars, rxVars, errProcessing, halDisabled,
                   resetComp, signalling, was, fwVars, bounds>>

\* wait_for_rxq_empty, whose timeout is ignored, so that events may be left on
\* rxq; then fw_tear_down powers the chip off.
WorkTearDown ==
    /\ errWork.pc = "drain" /\ errWork' = WorkAt("disable", 0)
    /\ was' = [was EXCEPT !.left = Len(rxq)]
    /\ fw' = "off" /\ fwHas' = {} /\ fwReset' = FALSE /\ fwBlocks' = FALSE
    /\ fwEvents' = <<>>
    /\ UNCHANGED <<poolVars, txVars, rxVars, errProcessing, halDisabled,
                   resetComp, signalling, workPending, bounds>>

WorkDisable ==
    /\ errWork.pc = "disable" /\ errWork' = WorkAt("bring_up", 0)
    /\ halDisabled' = TRUE
    /\ UNCHANGED <<poolVars, txVars, rxVars, errProcessing, resetComp,
                   signalling, workPending, was, fwVars, bounds>>

\* fw_bring_up: power on and download.  That it fails is not modelled.
WorkBringUp ==
    /\ errWork.pc = "bring_up" /\ errWork' = WorkAt("enable", 0)
    /\ fw' = "up"
    /\ UNCHANGED <<poolVars, txVars, rxVars, errProcessing, halDisabled,
                   resetComp, signalling, workPending, was, fwHas, fwReset,
                   fwBlocks, fwEvents, bounds>>

WorkEnable ==
    /\ errWork.pc = "enable" /\ errWork' = WorkAt("reset", 0)
    /\ halDisabled' = FALSE
    /\ UNCHANGED <<poolVars, txVars, rxVars, errProcessing, resetComp,
                   signalling, workPending, was, fwVars, bounds>>

\* send_fw_recovery_cmd resets the status and writes the reset command
\* itself, past the queue.
WorkReset ==
    /\ errWork.pc = "reset" /\ errWork' = WorkAt("wait_reset", 0)
    /\ resetComp' = FALSE /\ fwReset' = (fw = "up")
    /\ UNCHANGED <<poolVars, txVars, rxVars, errProcessing, halDisabled,
                   signalling, workPending, was, fw, fwHas, fwBlocks, fwEvents,
                   bounds>>

\* It waits for the reset, replays the configuration, and ends.
WorkReplay ==
    /\ errWork.pc = "wait_reset" /\ resetComp
    /\ errWork' = WorkAt("clear", 0)
    /\ UNCHANGED <<poolVars, txVars, rxVars, errProcessing, halDisabled,
                   resetComp, signalling, workPending, was, fwVars, bounds>>

WorkClear ==
    /\ errWork.pc = "clear" /\ errWork' = WorkAt("unfi", 0)
    /\ errProcessing' = FALSE /\ was' = [was EXCEPT !.ended = TRUE, !.left = 0]
    /\ UNCHANGED <<poolVars, txVars, rxVars, halDisabled, resetComp,
                   signalling, workPending, fwVars, bounds>>

\* The next token of the loop of rpu_tx_proc_unfi_tx_done, or its end, with
\* rpu_process_pending_operates (see CmdQueue).
NextToken(i) == IF i + 1 < NumTokens THEN WorkAt("unfi", i + 1)
                                     ELSE WorkAt("idle", 0)

\* Mutant of IsUnfinished: the bitmap is tested the wrong way round.
IsUnfinishedFree(i) == i \notin claimed /\ i \in hadSend

\* The token is claimed and its command went to the firmware.
IsUnfinished(i) == i \in claimed /\ i \in hadSend

\* The tests take no lock.
WorkUnfiTest ==
    /\ errWork.pc = "unfi"
    /\ errWork' = IF IsUnfinished(errWork.i) THEN WorkAt("complete", errWork.i)
                                             ELSE NextToken(errWork.i)
    /\ UNCHANGED <<poolVars, txVars, rxVars, errProcessing, halDisabled,
                   resetComp, signalling, workPending, was, fwVars, bounds>>

WorkUnfiComplete ==
    /\ errWork.pc = "complete" /\ errWork' = NextToken(errWork.i)
    /\ Complete(errWork.i)
    /\ UNCHANGED <<rxVars, errProcessing, halDisabled, resetComp, signalling,
                   workPending, was, fwVars>>

-----------------------------------------------------------------------------
(* The firmware.                                                           *)

FwTxDone(t) ==
    /\ fw = "up" /\ t \in fwHas /\ ~fwReset
    /\ fwHas' = fwHas \ {t} /\ fwEvents' = Append(fwEvents, Done(t))
    /\ UNCHANGED <<poolVars, txVars, rxVars, workVars, fw, fwReset, fwBlocks,
                   bounds>>

\* A reset forgets what came before it.
FwResetDone ==
    /\ fw = "up" /\ fwReset /\ fwReset' = FALSE
    /\ fwHas' = {} /\ fwEvents' = Append(fwEvents, Event("RESET_COMPLETE"))
    /\ UNCHANGED <<poolVars, txVars, rxVars, workVars, fw, fwBlocks, bounds>>

FwBlockAll ==
    /\ fw = "up" /\ ~fwBlocks /\ blocks < MaxBlocks
    /\ fwBlocks' = TRUE /\ blocks' = blocks + 1
    /\ fwEvents' = Append(fwEvents, Event("BLOCK_ALL"))
    /\ UNCHANGED <<poolVars, txVars, rxVars, workVars, fw, fwHas, fwReset,
                   sends, errors>>

FwUnblockAll ==
    /\ fw = "up" /\ fwBlocks /\ fwBlocks' = FALSE
    /\ fwEvents' = Append(fwEvents, Event("UNBLOCK_ALL"))
    /\ UNCHANGED <<poolVars, txVars, rxVars, workVars, fw, fwHas, fwReset,
                   bounds>>

\* It dies with its commands and the events that were not read.
FwDies ==
    /\ fw = "up" /\ errors < MaxErrors /\ errors' = errors + 1
    /\ fw' = "dead" /\ fwHas' = {} /\ fwReset' = FALSE /\ fwBlocks' = FALSE
    /\ fwEvents' = <<>>
    /\ UNCHANGED <<poolVars, txVars, rxVars, workVars, sends, blocks>>

-----------------------------------------------------------------------------
TxThread == TxDown \/ TxDequeue \/ TxSave \/ TxTest \/ TxWrite
RxThread == RxRead \/ RxTest \/ RxEnqueue
RxWork   == RxWorkTake \/ RxWorkHandle
ErrWork  == \/ WorkStart \/ WorkTearDown \/ WorkDisable \/ WorkBringUp
            \/ WorkEnable \/ WorkReset \/ WorkReplay \/ WorkClear
            \/ WorkUnfiTest \/ WorkUnfiComplete
Firmware == FwUnblockAll \/ FwResetDone \/ \E t \in Tokens : FwTxDone(t)

Progress ==
    \/ \E thread \in {"tx", "rx"} : SignalSet(thread)
    \/ TxThread \/ RxThread \/ RxWork \/ ErrWork \/ Firmware

Next == \/ Progress \/ RxFails
        \/ (\E t \in Tokens : SendFrame(t)) \/ FwBlockAll \/ FwDies

Spec == Init /\ [][Next]_vars

\* The kernel runs a thread that has something to do, and a live firmware
\* answers its commands and ends a block.  Nobody need send another frame, and
\* a dead firmware need not make rx_thread read.
FairSpec == Spec /\ WF_vars(Progress)

-----------------------------------------------------------------------------
(* Properties.                                                             *)

TypeOK ==
    /\ claimed \subseteq Tokens /\ hadSend \subseteq Tokens
    /\ txq \in Seq(Tokens) /\ sema \in Nat
    /\ \/ tx \in {TxAt(pc, <<>>) : pc \in {"down", "loop"}}
       \/ \E pc \in {"save", "test", "write"}, t \in Tokens : tx = TxAt(pc, <<t>>)
    /\ rxq \in Seq(Events) /\ fwEvents \in Seq(Events)
    /\ rxHeld = <<>> \/ \E e \in Events : rxHeld = <<e>>
    /\ rxEvent = <<>> \/ \E e \in Events : rxEvent = <<e>>
    /\ blocked \in BOOLEAN /\ errProcessing \in BOOLEAN
    /\ halDisabled \in BOOLEAN /\ resetComp \in BOOLEAN
    /\ workPending \in BOOLEAN /\ signalling \subseteq {"tx", "rx"}
    /\ was \in [raced : BOOLEAN, ended : BOOLEAN, left : Nat]
    /\ rxPassed \in BOOLEAN /\ (rxPassed => rxHeld # <<>>)
    /\ \E pc \in WorkSteps, i \in Tokens : errWork = WorkAt(pc, i)
    /\ fw \in {"up", "dead", "off"} /\ fwHas \subseteq Tokens
    /\ fwReset \in BOOLEAN /\ fwBlocks \in BOOLEAN
    /\ sends \in 0 .. MaxSends /\ errors \in 0 .. MaxErrors
    /\ blocks \in 0 .. MaxBlocks

\* Where the command of token t, or its completion, is.
Places(t) ==
    LET Of(q, x) == {i \in 1 .. Len(q) : q[i] = x}
    IN  Cardinality(Of(txq, t)) + Cardinality(Of(tx.cmd, t))
        + (IF t \in fwHas THEN 1 ELSE 0)
        + Cardinality(Of(fwEvents, Done(t))) + Cardinality(Of(rxq, Done(t)))
        + Cardinality(Of(rxHeld, Done(t))) + Cardinality(Of(rxEvent, Done(t)))

\* Token t is somewhere in the queue q.
IsIn(t, q) == \E i \in 1 .. Len(q) : q[i] = t

\* A claimed token is on its way to the firmware, or is marked so that a
\* recovery will complete it: whenever the firmware dies, none is leaked.
TokensAccounted ==
    \A t \in claimed : \/ IsIn(t, txq)
                       \/ tx.cmd = <<t>>
                       \/ t \in hadSend

\* A token has one command at most, and none while it is in the pool; so its
\* completion is for the frames it carries.  (tx.c:1364: what the recovery
\* completes is "unfinished tx done when fw error happened".)
OneCommandPerToken ==
    \A t \in Tokens : Places(t) =< IF t \in claimed THEN 1 ELSE 0

\* That is so until the first recovery completes tokens on the firmware's
\* behalf: it also completes a token whose command tx_thread or the new
\* firmware still has, and that token may be programmed a second time.
OneCommandBeforeUnfi == ~was.ended => OneCommandPerToken

\* The events that rx_thread will hand, or has handed, to the receive work.
Through == (IF rxPassed THEN rxHeld ELSE <<>>) \o rxq

\* The driver sees no event that answers the recovery's own commands, and of
\* the firmware that was powered down at most the one that rx_thread had
\* tested when the recovery began, besides those that the wait for an empty
\* queue gave up on.  Not so for a second run of the work that a thread
\* scheduled while the first one ran (hal.c:721 clears its flag).
OneStaleEvent ==
    errWork.pc \in {"disable", "bring_up", "enable", "reset", "wait_reset",
                    "clear"} /\ ~was.raced => Len(Through) =< was.left + 1

\* A claimed token that went to the firmware is completed, by the firmware or
\* by the recovery from its death, if anything ever notices that it died.
SentTokensCompleted ==
    \A t \in Tokens :
        t \in claimed \cap hadSend
            ~> \/ t \notin claimed \cap hadSend
               \/ was.raced \/ [](fw = "dead" /\ ~errProcessing)

\* A recovery ends if the new firmware lives.
RecoveryEnds == errProcessing ~> (~errProcessing /\ fw = "up") \/ was.raced
=============================================================================
