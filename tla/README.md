# Specifications of the RK915 Wi-Fi driver

The repository keeps the material of a hand-held console: device trees,
configurations, scripts, a small preload library and the kernel driver of its
Wi-Fi chip, `drivers/rk915`.  The driver is the one concurrent program with
state in it, about 17 600 lines of C, and these specifications are about it.
They are written in TLA+, checked by TLC on small instances and, where said so
below, proved by TLAPS for every value of the constants.

## 1. The system

The driver sits between mac80211 (Linux's Wi-Fi stack) and the firmware of the
RK915 chip.  It is called by several threads at once and talks to the firmware
by commands and events over SDIO.

```
  mac80211 tx   beacon timer        mac80211 operations (any process)
        \         /                          |
     rpu_tx_frame (tx.c)              rpu_send (rpu_if.c)
      tx.lock: pending queues,         control_path_lock: outstanding_cmd,
      token pool, counters             outstanding_ctrl_req
        |       rpu_prog_tx                  |
        +---------------> hal_send ----------+      (hal.c)
                             | txq, semaphore
                          tx_thread ------> SDIO ------> firmware
                                                            |
  rpu_msg_handler <- rx_work <- rx queue <- rx_thread <- SDIO
      |-- TX_DONE ........... rpu_tx_complete -> refill or free the token
      |-- COMMAND_PROC_DONE . rpu_process_pending_cmd
      |-- BLOCK/UNBLOCK_ALL . block_rpu_comm, rpu_unblock_all_frames
      |-- RESET_COMPLETE, FW_ERROR, scan, ROC, channel, power-save events
```

### Components

| Component | State it keeps | Operations | What makes it correct |
|---|---|---|---|
| Transmit token pool (`tx.c`, `rpu_prog_tx`) | pending queues per peer and AC, token bitmap, `outstanding_tokens`, `outstanding_pkts`, the batch of each token, `queue_stopped_bmp` | `rpu_tx_frame`, `rpu_tx_complete`, `rpu_unblock_all_frames`, `rpu_tx_proc_unfi_tx_done`, init and deinit | a token has one holder; counters exact; reserved tokens stay reserved; no frame lost, repeated or overtaken in its flow; stopped queues are woken; every frame is reported |
| Command queue (`rpu_if.c`) | `outstanding_cmd`, `outstanding_ctrl_req`, `block_rpu_comm` | `rpu_send`, `rpu_process_pending_cmd`, `rpu_process_pending_operates` | order; at most two commands in the firmware; the counter covers the queue; the queue does not go dead |
| Event dispatch (`rpu_msg_handler`) | completion flags read by the waiting operations | one handler per event, run one after the other by `rx_work` | each event changes what its waiter reads, in order |
| HAL transmit thread (`hal.c`) | `txq`, its semaphore | `hal_send`, `tx_thread`, `hal_tx_queue_work` | a queued command is sent; the semaphore counts the queue |
| HAL receive thread (`hal.c`, `hal_io.c`) | receive queue, series buffer and index | `rx_thread`, `rx_work_fn`, the series read | events in order, each once |
| Firmware error recovery (`hal.c`, `umac_if.c`, `tx.c`) | `fw_error_processing`, `fw_error`, saved commands, `tx_desc_had_send_to_io` | `rk915_signal_io_error`, `fw_err_work_fn`, `save_fw_recovery_cmd`, `send_fw_recovery_cmd`, `rpu_tx_proc_unfi_tx_done` | each unfinished token is completed once; the saved configuration is replayed before new commands |
| Start and stop (`main.c`, `umac_if.c`) | `state` STARTED/STOPPED, `reset_complete`, `hal_disabled` | `rpu_core_init`, `rpu_core_deinit`, `start`, `stop` | nothing of the old session survives into the new one |
| mac80211 operations (`umac_if.c`, `utils.c`) | scan, ROC and channel flags, per-vif and per-station tables | about 40 callbacks, some waiting for an event with a timeout | a late event does not end the wrong wait |
| Interfaces (`vif.c`), beacon and NoA (`beacon.c`, `p2p.c`) | vif tables, beacon timer, NoA queues | add, remove, configure; timer callback; NoA events | timers are off when the vif is gone |
| Firmware download (`firmware.c`) | step of the handshake, retry counter | download, patch-only download | giving up is not taken for success |
| SDIO transport (`sdio.c`, `hal_io.c`) | the latch `sdio_reset`, the series buffer | transfers, probe, recovery of the bus | an error is noticed; events once and in order |
| Power management, WoW (`wow.c`, `hal.c`) | suspend flags, the answer to a read of the CSR | suspend, resume, the hold of `tx_thread` | no command is overtaken by the sleep |
| Receive data path (`rx.c`), `soc.c`, module set-up (`init.c`), diagnostics (`procfs.c`, `pktgen.c`) | little of their own | conversions, registration | not planned: data transformation and pure I/O |
| `ram_accelerator`, scripts, device trees, samples | none that lasts | preload library, configuration | not planned |

The `components` of `PROJECT.json` say for each of them what is modelled.

### Behaviours that are hard

* Submitters, the receive work and the unblock loop take tokens from one pool;
  a token is claimed in one critical section and programmed in another, and
  between them others complete, refill and claim.
* A completed token is refilled and may move to another AC, so the AC of a
  token is known only to the command in flight.
* The firmware blocks the driver (`BLOCK_ALL`) at any time.  What is queued
  meanwhile has to be restarted by `UNBLOCK_ALL`.
* Some accesses to shared state take no lock: `queue_stopped_bmp` in
  `rpu_unblock_all_frames`, the recount in `rpu_process_pending_operates`,
  `fw_error_processing`.
* Events get lost, and the firmware crashes and is patched and configured again,
  while its recovery worker, `tx_thread`, mac80211's thread and timers run on.
* What mac80211 waits for (the end of a scan, of a period off the channel, of a
  reset) may be ended by several threads, by a timeout, or by a late event.
* After an I/O error every transfer succeeds without doing anything.
* The command counter is a number that follows the commands through all this.

The list of hazards, each at its line and with the properties that would catch
it, is in `PROJECT.json`.

## 2. Modules

| Module | Models | Uses |
|---|---|---|
| `TxTokens` | the transmit token pool: every critical section of `tx.lock` on the way of a frame | community module `Functions` |
| `TxService` | what the transmit path promises mac80211: a frame waits, is held, comes back, is reported | - |
| `MCTxTokens` | instances of `TxTokens` for TLC | `TxTokens` |
| `TxTokens_proofs` | theorems about the tokens, counters and frames of `TxTokens`, and its refinement of `TxService` | `TxTokens`, TLAPS |
| `CmdQueue` | the command queue of the control path | - |
| `MCCmdQueue` | instances of `CmdQueue` for TLC | `CmdQueue` |
| `CmdQueue_proofs` | theorems about `CmdQueue` | `CmdQueue`, TLAPS |
| `FwRecovery` | the threads of the HAL and the recovery from a firmware error | - |
| `FwRecovery_proofs` | theorems about `FwRecovery` | `FwRecovery`, TLAPS |
| `RpuCommands` | the configuration commands: what they carry, what the firmware makes of them, what is saved of them | - |
| `SavedConfig` | mac80211's operations, `tx_thread` and the recovery worker over the saved configuration | `RpuCommands`, `SequencesExt` |
| `MCSavedConfig` | instances of `SavedConfig` for TLC | `SavedConfig` |
| `SavedConfig_proofs` | theorems about `SavedConfig` | `SavedConfig`, TLAPS |
| `OffChannel` | scans and remain-on-channel periods | - |
| `OffChannel_proofs` | theorems about `OffChannel` | `OffChannel`, TLAPS |
| `StartStop` | starts and stops of the driver, with the recovery worker | `SequencesExt` |
| `StartStop_proofs` | theorems about `StartStop` | `StartStop`, TLAPS |
| `SdioLink` | the bus, the download of the firmware and the series reads | - |
| `SdioLink_proofs` | theorems about `SdioLink` | `SdioLink`, TLAPS |
| `Power` | suspend and resume | `SequencesExt` |
| `Power_proofs` | a theorem about `Power` | `Power`, TLAPS |

The modules that meet: `SavedConfig` takes from `CmdQueue` that commands stay in
order and from `FwRecovery` the handshake with the worker; `StartStop` composes a
pool of one-frame tokens, `tx_thread`, the receive work and the worker with the
starts and stops; `Power` composes the counter of the command queue, `tx_thread`
and the suspending thread.

### TxTokens

The state corresponds to `struct tx_config` (`inc/core.h`), under the names of
the source: `pendingPkt` is `pending_pkt`, `bufPool` the set of bits set in
`buf_pool_bmp`, `pkt[t]` the list `pkt_info[t].pkt`, and so on.  Three
variables stand for what is on stacks and in the firmware:

* `descs` holds one record for each claimed token: its AC, which the code
  passes on as an argument and in the command, where it is (about to be
  programmed, sent, or refused) and which kind of thread has it;
* `reports` holds the `tx_done_list`s that `rpu_tx_free_buff_req` has cut off a
  token and not yet given to mac80211;
* `unblock` is the program counter of `rpu_unblock_all_frames`.

| Action | Code |
|---|---|
| `TxFrame(f)` | `rpu_tx_frame` up to `__rpu_tx_frame`: queue, aggregation check, stop of the mac80211 queue, `get_token`, `rpu_tx_proc_pend_frms`, `free_token` when nothing is to be sent |
| `RpuProgTx(d)` | `rpu_prog_tx`: sent, or failed when the skb cannot be allocated or the token has no frame |
| `RpuTxFreeBuffReq(d)` | `rpu_tx_complete` or the synthesised completion of `__rpu_tx_frame`: cut off the batch, then refill the token or free it |
| `Report(r)` | the rest of `rpu_tx_free_buff_req`: the status of each frame |
| `BlockAll`, `UnblockAll` | the two events in `rpu_msg_handler` |
| `UnblockWake`, `UnblockLoad`, `UnblockStore` | the first loop of `rpu_unblock_all_frames`, without a lock: the test with the wake-up, and the load and the store of `&=` |
| `UnblockToken` | one round of its second loop, under `tx.lock` |

`ProcNone` and `ProcServes` are the two outcomes of `rpu_tx_proc_pend_frms`
(nothing to send, or a batch for one AC), shared by the three actions that call
it.  A frame is a number; `AC`, `Peer`, `HwQueue`, `Ampdu` and `Addr` give what
the code reads from it.  `roc_in_progress` is a free choice at each frame, since
other threads set it.  mac80211 tests its stop flag outside `tx.lock`, so
`TxFrame` may happen after a stop.  The receive work is one thread: it takes an
event only when it is not inside an earlier one (`RxIdle`).  The beacon AC is
`NumACs - 1`; `tx_queue_unmap` has no entry for it, and the value read past its
table is a free choice.

Left out: the contents of commands, rates and status words (no property tells
them apart); the multi-context branches, which are not compiled; the count of
off-channel frames in `tx_status`, which is taken down and never up.  The driver
is `STARTED` throughout: `rpu_tx_init` and `rpu_tx_deinit` are in `StartStop`,
and the recovery's `rpu_tx_proc_unfi_tx_done` is in `FwRecovery`.

### TxService

One variable, the stage of each frame: new, queued, held, back, reported.  A
step may move several frames, each by one stage (a new frame may be held at
once); within a flow no frame is taken before an earlier one; at most
`Capacity` frames are held.  `TxTokens!ImplementsService` is the refinement:
the stage of a frame is read off the list it is in, and `Capacity` is
`MAX_FW_TX_PKGS` plus the one frame that the exemption in
`rpu_tx_proc_pend_frms` lets through.

### CmdQueue

`outstandingCmd` and `outstandingCtrlReq` are the list and the counter of
`cmd_info`; `sent` and `answered` record the commands given to the HAL and how
many of them the firmware is done with; `blocked` is `block_rpu_comm`; `rx` and
`count` say where the receive work is.  `aged` counts the queued commands, from
the head, whose 300 ms are over.

| Action | Code |
|---|---|
| `RpuSend` | `rpu_send`, one critical section of `control_path_lock`: drain, send or queue, then release what has aged |
| `Age` | 300 ms pass for the oldest queued commands |
| `CommandProcDone`, `ResetComplete`, `UnblockAll` | the events that go on to `rpu_process_pending_cmd` |
| `RpuProcessPendingCmd` | that call: take one from the counter, and send a queued command unless blocked |
| `BlockAll`, `ProcDoneLost` | the event; the loss of an answer |
| `FwError`, `RpuProcessPendingOperates` | the recount after a firmware error, whose load and store take no lock |

`ProcessPending(k, ...)` is `k` calls of `rpu_process_pending_cmd` in one
critical section.  Left out: the stamp "not aged" that `rpu_send` gives while
`fw_error_processing` is set, `rpu_if_free_outstnding`, and
`rpu_send_cmd_without_delay`, which changes none of this.

### FwRecovery

Below the pool and the command queue: the transmit and the receive thread, the
receive work, `fw_err_work_fn` and the firmware, each action a step of one of
them between two accesses to what they share.  `claimed` and `hadSend` are
`buf_pool_bmp` and `tx_desc_had_send_to_io`, all that the recovery reads of the
pool; a command is the token it is for.  `txq`, `sema`, `rxq`, `blocked`,
`errProcessing`, `halDisabled` and `resetComp` are the code's shared variables;
`tx`, `rxHeld`, `rxPassed`, `rxEvent`, `errWork` and `signalling` say where each
thread is and what it has in its hands; the `fw` variables are the firmware; `was`
is a history of the recoveries: whether a thread set the flag again while the work
ran (`raced`), whether one has ended, and how many events the wait for an empty
queue gave up on (`left`).

| Actions | Code |
|---|---|
| `SendFrame`, `HalSend` | a claim with `rpu_prog_tx`, `hal_send` and its post of the semaphore, which is left out while the HAL is disabled |
| `TxDown`, `TxDequeue`, `TxSave`, `TxTest`, `TxWrite` | `tx_thread`: the wait, the tests of the queue and of the block, `save_fw_recovery_cmd`, the test of `hal_disabled`, `rk915_data_write` |
| `RxRead`, `RxTest`, `RxEnqueue`, `RxFails` | `rx_thread`: the read of an event, the test of `fw_error_processing`, `hal_recv`, a read that fails |
| `RxWorkTake`, `RxWorkHandle` | `rx_work_fn` and `rpu_msg_handler` |
| `SignalTest`, `SignalSet` | `rk915_signal_io_error`, whose test and set of the flag take no lock |
| `WorkStart` ... `WorkUnfiComplete` | `fw_err_work_fn` step by step, with `wait_for_rxq_empty`, whose timeout is ignored (`WorkTearDown` may come with events left on `rxq`), the reset and the wait of `send_fw_recovery_cmd` and the loop of `rpu_tx_proc_unfi_tx_done` |
| `FwTxDone`, `FwResetDone`, `FwBlockAll`, `FwUnblockAll`, `FwDies` | the firmware, as the driver's use of it shows it |

Assumed of the firmware: it answers a transmit command once; a reset makes it
forget the commands that came before; what it had, and its events not yet read,
die with it; a new one starts without a block.  `rx_thread` reads when an interrupt
has posted its semaphore, so a firmware that has died silently is read (`RxFails`)
only on account of an interrupt from before; nothing makes that happen.  Control commands and their replay
are in `SavedConfig`, the reason `FW_ERR_RESET_CMD` (which skips the completion of
tokens), a bring-up that fails and the stop in `StartStop`, the wait for the end
of a resume in `Power`.

A consequence that no property states: a firmware that dies after `BLOCK_ALL`
leaves the driver blocked.  The recovery does not clear `block_rpu_comm`, and the
`RESET_COMPLETE` that would is kept from the driver.

### RpuCommands and SavedConfig

A recovery must make the new firmware what the old one was.  `save_fw_recovery_cmd`
keeps the last command of each kind (for each interface, queue, key index), and
`send_fw_recovery_cmd` sends them again in a fixed order.  `RpuCommands` has the
commands as `rpu_prog_*` build them, `Save` with one operator per case of
`save_fw_recovery_cmd`, and `Apply`, what the firmware makes of a command, which is
external: only that a parameter is kept until it is given again and that an
interface added anew has none.

`SavedConfig` has one action per operation of mac80211, whose commands go out in the
code's order and end early where `CALL_RPU` returns on a failure (`SentWhen`);
`tx_thread` (`TxWake` ... `TxWrite`), which saves a command before it looks at
`hal_disabled`; and the worker, whose copy (`WorkCopy`) and write (`WorkWrite`) of
each slot are separate steps.  `cmd_send` says nothing when it has no memory for the
copy: the slot is skipped (`WorkSkip`), and if it was the reset's the worker waits for an
answer that only a reset of `tx_thread` can bring (`Waits`, `WorkReleased`).  The
bring-up always succeeds here; one that fails is in `StartStop`.  `saved` is
`g_lpw_recovery_param`.  Three history variables say what to compare with: `ideal` is a
firmware that had never died and had been given every command that `tx_thread` saved;
`stale` are the parts of the configuration that the last replay skipped, or that were
saved while the worker held an older copy; `shared` the key indices that two stations
have had at once.  In these cases the code loses a setting, and the properties say
nothing of it.

What a reader of the properties should know of the code: `IF_REM` leaves the
configuration, queue parameters and keys of its index behind, so a later interface
inherits them at a replay; the beacon mode is always saved under interface 0;
`mc_filter_count` outlives a stop; BA sessions, power management and
`MISC_CFG` are not saved at all; after a failed allocation the multicast list can
hold addresses that mac80211 has dropped.

### OffChannel

`scan` and `roc` hold `hw_scan_status` with `remain_scan_req`, and `roc_params`;
`mac`, `pc` say where mac80211's thread, the timer's handler, the work
`rpu_roc_complete_work`, the receive work and the recovery worker are between two
accesses to them, and `pc.err` is `fw_error_processing`.  `hist` records which scan an
event belongs to and which ssids are still to be scanned, which the code does not know,
and what the properties exempt.

| Actions | Code |
|---|---|
| `ScanBegin`, `ScanSend` | `scan`, `rpu_scan`, with its failure |
| `CancelScan`, `CancelAbort`, `AbortWaited` | `cancel_hw_scan` from mac80211, with the wait that may run out and restart the firmware |
| `TimerExpires` ... `TimerResets` | `scan_timer_expiry` and the same `cancel_hw_scan` from it |
| `RemainOnChannel`, `CancelRoc`, `CancelRocWaited` | `remain_on_channel` and its cancel |
| `WorkTake` ... `WorkTold` | `rpu_roc_complete_work`: the test and the store before the lock, and under it the two stores and the report |
| `ScanComplete`, `SplitSends`, `SplitTakes`, `ScanDone`, `AbortComplete`, `RocStarted`, `RocEnded`, `RocQueue` | the events, with `split_mult_ssid_scan` |
| `RecRestart` | the restart, once the events left by the old firmware are handled or the wait for that has run out |
| `RecFlags` ... `RecResets` | `rpu_process_pending_operates`: the flags, and `cancel_hw_scan` with its last test of `in_scan_timeout` |
| `RecRoc` ... `RecQueues` | its two tests of the flags of a period, each flag read on its own, and the store between them |

Of mac80211 is assumed that it asks for one scan and one period at a time and cancels
only what it has asked for.  Known consequences of the code that the properties leave
out by name: a cancel that timed out keeps `cancel_roc` set and mac80211 is never told;
`-ENOMEM` in `remain_on_channel` leaves `roc_starting` set; a failed abort is never
reported; the second restart in `RocSettles`; and `hist.crossed`, where the work and the
recovery get in each other's way.  The work is then queued twice, or before the recovery,
and its second run finds no period in progress and clears the `roc_starting` of one that
has just been asked for; or the recovery sets `roc_in_progress` between or after the two
stores of the work, or an event of the old firmware does, and it stays set.  The period
is then not ended for mac80211, or the driver refuses the next ones.

### StartStop

Two sessions of the driver over one firmware.  `drv` and `hal` are `state`,
`reset_complete`, `hal_disabled`, `fw_error`, `fw_error_processing` and the rest of
what a start, a stop and the worker share; `tok` has the bit, the frame and the mark of
each token.  The interrupt is an edge that is dropped while the HAL is disabled, and
the HAL's queue is not emptied by a stop.  `StartBegin` ... `StartFails` are `start` and
`rpu_core_init`, `Stop` ... `StopEnd` are `stop`, `rpu_tx_deinit` and
`rpu_core_deinit`, `Rec...` are `fw_err_work_fn`, with a bring-up that may fail; work that is scheduled
while it runs is run again after its end (`WorkerCalled`), and the reason is read once
(`RecJudges`).  `was` remembers that a start, a stop or a death crossed a recovery, that
a recovery could not bring the firmware up, whose result `fw_err_work_fn` does not look
at, or that a wait for a reset ended early: in the first two cases the worker may wait
for good, in the third a later start may take another's answer.

### SdioLink

`bus.latched` is `sdio_reset`.  A transfer (`TransferFails`) fails if the chip is off
and otherwise at times; the failure sets the latch unless a download is going on, and
the thread that saw it calls `rk915_signal_io_error` in a step of its own (`signals`).
`Load...` are the probe, the reading of the files, `rk915_download` with its polls and
their off-by-one counts, and `sdio_device_init`, which runs when the download is over
and whose errors nobody signals; `Rx...` are `rk915_serias_read`, whose lock the steps from
`RxFetch` to `RxParse` hold; `Rec...` are the worker's restart of the card.  The
firmware's events are numbered, and `last` is the one that was handed up last.  It sends
them in bursts of one to `MaxTransfers` transfers, each of one event or a series of up to
`MaxSeries`, in which the reader finds its way by `rx_serias_idx` and `rx_serias_count`
as the code does (`SeriesCount`, `Position`).  Assumed of a series: it has two packets at
least, and no more than `MAX_RX_SERIAS_COUNT`; the code tests neither.
`hal.mistaken` remembers that the worker took a stale answer for the new firmware's
(section 4).  `ReaderDone` says that the real-time `rx_thread` has finished with what it had when
the bring-up is over.

### Power

`sus` is the thread that suspends and resumes, `csr` the answer it waits for, `ctl`
the counter and queue of the commands, `hand` the command `tx_thread` holds, `pm` is
`during_pm_resume`.  `ReadCsr`, `Answered` and `AnswerTimesOut` are
`rk915_wait_fw_ready_to_sleep`, `NotifySleep` is the register write, `TxWrite` the write
that waits at most a second for the end of a resume.  Transmit frames are left out:
mac80211 has stopped its queues.

Two consequences of the code that no run states: `hpriv->irq` is never assigned, so
`enable_irq_wake`, to which the comment at `platform.c:41` leaves the wake-up, has no
interrupt to arm; and a loss of connection that arrives between `img_suspend` and
`sdio_suspend` is handled at once, where the comment at `hal.c:1270` wants it told after
the resume.

## 3. What the runs check

| Run | Instance | Checks |
|---|---|---|
| `tx_pool` | 3 ACs, one token reserved each, one spare, budget 2, two peers, six frames; no block | `TypeOK`, `OneHolderPerToken`, `OutstandingExact`, `ReservationsKept`, `HeldTokensCarryFrames`, `FwLoadBounded`, `BatchesAggregate`, `FramesConserved`, `FlowsInOrder`, `ImplementsService` |
| `tx_block` | budget 8, five frames of one station (three voice in one A-MPDU session, two background), one block, under fairness | `QueuedOnlyIfTokensBusy`, `EveryFrameReported`, `StoppedQueuesWoken` |
| `cmd_recovery` | eight commands, one block, four losses, two expiries, two firmware errors | `CommandsInOrder`, `CounterExact`, `InFlightBounded`, `AgedCommandsReleased`, `EveryCommandSent` |
| `fw_recovery` | two tokens, two sends, one death, one block, under fairness | `TokensAccounted`, `OneCommandBeforeUnfi`, `OneStaleEvent`, `SentTokensCompleted`, `RecoveryEnds` |
| `config_vif` | one interface, two stations, four calls, one failed allocation (of a call or of the replay), one death | `InterfacesRestored`, `KeysRestored`, `SavedTracksIdeal` |
| `config_all` | two interfaces, two addresses, four calls, one failed allocation (of a call or of the replay), one death | `GlobalsRestored`, `MulticastRestored` |
| `off_scan` | two scans of up to two ssids, one fault, under fairness | `OneReporter`, `CompleteWhenScanned`, `ScanEnded` |
| `off_roc` | two periods, two faults, under fairness | `RocReported`, `RocSettles` |
| `start_stop` | two starts, two tokens, two frames, two faults, under fairness | `FramesAccounted`, `StartedAfterReset`, `RecoveryEnds` |
| `sdio_link` | one retry, one rescan, one burst beside the answers, of one or two transfers of one event or a series of two; one command, three faults | `LatchIsNoticed`, `EventsOnceInOrder`, `LoadedIsReady` |
| `power` | three commands, three suspends, two faults | `CommandsBeforeSleep` |
| `scan_stale` | two scans, no fault | `AbortedScanNotCompleted` is violated |

**Bounds.**  With three ACs there is one that the beacon rules apply to and two
that compete.  One token per AC and one spare token give each rule of the pool a
case: reserved, spare, exhausted, a spare token that moves to another AC, an AC
that holds two tokens.  Budget 2 with batches of 2 makes the budget bind after
one batch, and six frames fill batch, queue and a second token.  Three frames of
one A-MPDU session of which one has another destination, one frame of another
peer, one of another AC and one beacon give each branch of the batch loop a case.
`MaxTxQueueLen` 2 stops the queue at the second queued frame.  In `tx_block` a
background frame may hold the spare token, so that voice is stopped until a token
comes back, before, during and after the unblock loop; two blocks in a row have been
tried and hold as well.  In `CmdQueue` the queue has to be longer than the counter's
limit of 2, which is the code's; `CounterExact` and `InFlightBounded` speak of
sessions without a block, a firmware error or an expiry, and `EveryCommandSent` of
those in which nothing is lost; four losses and two expiries in eight commands let
the counter drift as far as its limit allows.
In `FwRecovery` two tokens let one be completed while the other is in
`tx_thread`, and the second send is a claim or a refill; one death is
what `RecoveryEnds` is about, since nothing ends a recovery whose firmware dies
again.  Two threads may be in `rk915_signal_io_error` at once and schedule the work a
second time while it runs: the second run works with `fw_error_processing` clear, and
`OneStaleEvent`, `SentTokensCompleted` and `RecoveryEnds` say nothing of such a session
(`was.raced`).

In `SavedConfig` the four calls after power-on are a start, an interface, and two
more: a key given twice or taken away, a mode changed, a session ended; each value is the mark of its call, so no two are equal by
chance.  A death may come at any moment of that, and one recovery shows every slot
of the replay; `Backlog` 0 lets a call begin when the one before has left the
queue, while each call's own commands queue up behind each other.
In `OffChannel` two scans show a late event of the first at the second, two ssids a
split, and a wait for an abort that runs out leaves its event to the next abort; two
periods with two faults (a death with an earlier event left over, two deaths, a wait of a
cancel that runs out) show what one period's end does to the next.  In `StartStop` the
second start meets what the first left; a second fault lets a wait run out during
a recovery.  In `SdioLink` three faults are a death and two errors in its recovery, the shortest
way to a recovery that is answered by the old buffer, and
a burst has up to four events in two transfers; series of three have been tried and hold
as well.  In `Power` three suspends leave an
answer due from one to the next.

**Deadlock.**  The frames, commands and calls of an instance are finite, so every run
comes to a state without a step when all are submitted and answered; the runs
therefore say `CHECK_DEADLOCK FALSE`.  That they do not stop earlier is what the
liveness properties say.

**Fairness.**  `WF_vars(Progress)`: the kernel runs a thread that has something to go
on with, a timer or a bounded wait ends, the firmware answers a command it has and ends
a block.  Nothing is assumed of submitters and of mac80211: no further frame, command
or call need ever come, and no block or death.  Nor is it assumed that anything notices a
firmware that died silently: `RxFails` is not in `Progress`, and `SentTokensCompleted`
excepts a firmware that is dead for good with no error signalled.  One weak fairness condition on the
disjunction suffices, because every step of `Progress` brings the driver closer
to having nothing to do.

## 4. What is proved

### The token pool

`TxTokens_proofs` proves, for every number of ACs, tokens, peers and frames, and
every classification of the frames that the two assumptions `TxConstants` and
`TxFrames` of `TxTokens` allow:

| Theorem | Property |
|---|---|
| `TypesCorrect` | `TypeOK` |
| `NoTokenHeldTwice` | `OneHolderPerToken` |
| `CounterIsExact` | `OutstandingExact` |
| `CounterIsBounded` | `OutstandingBounded`: the warning in `free_token` is dead; follows from two others and is not run |
| `ReservationsHold` | `ReservationsKept` |
| `FreeTokensHaveNoFrames` | `FreeTokensEmpty`, a part of the invariant, not run on its own |
| `ProgrammedTokensHaveFrames` | `HeldTokensCarryFrames` |
| `FirmwareBudgetKept` | `FwLoadBounded` |

They follow from one invariant, `IInv == TypeOK /\ PoolInv /\ TokenInv`.
`PoolInv` joins the bitmap, the holders and the counters; `TokenInv` joins the
bitmap, the counts and the batches.  None of its parts is inductive alone: that
a refill leaves the counter of the old AC at 0 or more (so that it is still a
number) needs `OutstandingExact`, and that a release takes exactly one holder
from the AC needs `OneHolderPerToken`; that `UnblockToken` starts with an empty
batch needs `FreeTokensEmpty`, and that a refused claim leaves nothing behind
needs it too.

The argument goes over five abstract steps of the pool: `Claim` a free token,
`Pass` a token on (programmed, refused), `Move` it to the AC of its next batch,
`Release` it, or leave the pool alone.  Each action of `TxTokens` is shown to
take one of them, and each of them to keep `PoolInv`; the cardinalities are
handled once, in the lemmas on adding, removing and replacing one holder.
`TokenInv` is kept because a step changes the batch of at most the token that it
claims or completes.  `OutstandingBounded` follows from `ReservationsKept` and
`OneHolderPerToken`: the holders of an AC map one to one into its own and the
spare tokens.

`FwLoadBounded` is about the sum of `outstanding_pkts` over the tokens.  What is needed of
a sum is that it changes with one of its terms and that it is at least any of them;
both are proved by taking the least number of terms at which they could fail, since an
induction principle cannot be instantiated.  `LoadInv` adds to the bound that all tokens
but the exempt one, `BCN`, stay within the budget.

### The frames

The second half of `TxTokens_proofs` proves, for the same constants:

| Theorem | Property |
|---|---|
| `NoFrameLostOrDoubled` | `FramesConserved` |
| `FlowsKeepOrder` | `FlowsInOrder` |
| `BatchesCanAggregate` | `BatchesAggregate` |
| `PoolImplementsService` | `ImplementsService`, the refinement of `TxService` |
| `QueuedFramesGetAToken` | `QueuedOnlyIfTokensBusy`, if the budget is ample |

Each action is first shown to be a `FrameStep`: it may put a frame at the tail of its
queue, cut the batch of a done token off to be reported, fill one token with a prefix of
one queue, or report a list.  `FramesConserved` says that the places of a frame are one.
A part of a step renames places (`FillRename`, `CutRename`, `ReportRename`), and each
renaming is shown to map the places before onto the places after, so one place stays
one.  `FlowsInOrder` is strengthened by the frames not yet submitted (`Ordered`), which
come after all others of their flow, and `BatchOK` is what a filled token can hold.

For the refinement, `StageIs` reads the stage of a frame off the place it has;
`GoesForward` has the moves of a frame in each kind of step, none of which skips a
stage or goes back; `OldestFirst`, an invariant of its own, is that a flow is taken
from its oldest frame on; the number of frames held is the sum that `LoadInv` bounds
(`CarriedCount`).

`QueuedOnlyIfTokensBusy` is false of the code as it is set up by default: with aggregation
and `max_tx_cmds` 8, four full commands use the firmware's 32 frames up, and a token that
comes back then leaves its AC's frames queued (the hazard is in `PROJECT.json`).
`AmpleBudget` is what makes it true: all tokens but one, each with the longest batch there
can be, stay below the budget.  With the code's 12 tokens that is every setting without
aggregation, and `max_tx_cmds` 1 and 2 (procfs allows 1 to 8) with it; the instance of
`tx_block` satisfies it.  `SumBounded` bounds the sum of the batches, again from a least
counterexample, and `BudgetLeft` concludes that no refill is ever turned down.  The
property speaks of an idle unblocking thread and is strengthened by where that thread is
(`WaitInv`): each AC with queued frames is blocked, or has a busy token that will come back
to it (`Busy`), or `rpu_unblock_all_frames` has still to offer it one of its tokens
(`Offered`).  That loop lets go of an AC only when it passes the AC's last reserved token;
then either the token was busy, or the AC was served, or it had no frames.

### The command queue

`CmdQueue_proofs` proves, for every number of commands, places, blocks, losses, expiries
and errors: `TypesCorrect` (in particular the counter never goes below 0),
`SentInIssueOrder` (`CommandsInOrder`), `CounterCorrect` (`CounterExact`),
`FirmwareNotFlooded` (`InFlightBounded`) and `OldCommandsReleased`
(`AgedCommandsReleased`).  The order is inductive by itself once it is said of positions
(`Ordered`).  The counter needs `CalmInv`: it is the places taken plus the queue, a
command waits only while every place is taken, and a place whose answer is being
handled is still counted (`Released`).

### The recovery

`FwRecovery_proofs` proves, for every number of tokens, sends, deaths and blocks:

| Theorem | Property |
|---|---|
| `TypesCorrect` | `TypeOK` |
| `NoTokenLeaked` | `TokensAccounted`, whatever threads meet in `rk915_signal_io_error` |
| `StaleEventsBounded` | `OneStaleEvent` |
| `OneCommandEach` | `OneCommandBeforeUnfi` |

`TokensAccounted` is not inductive: it lets a token be accounted for by
`tx_thread` alone, which then drops it while the HAL is disabled.  `AllAccounted`
allows that only before `save_fw_recovery_cmd` has set the mark.  A completion,
which takes the mark away at any moment, either queues the token again or frees
it, and a claim takes the mark away and queues the token.

`OneStaleEvent` follows from `FlagSpansWork`: as long as no thread has set the flag while
the work ran (`was.raced`), `fw_error_processing` is set from the scheduling of the work
until it clears it, and the work is not scheduled again in between.  So `rx_thread` passes
on nothing that it tests after `wait_for_rxq_empty`: when the chip is powered off, `rxq`
holds what the wait gave up on (`was.left`; nothing, unless its five seconds ran out) and
besides one event at most that had passed the test before (`FewStale`).  The theorem has
no hypothesis; the property exempts by name the second run of a work that was scheduled
while it ran, which begins with the flag clear, and there it is false.

`OneCommandBeforeUnfi` counts where the command or the completion of a token is: two
queues of the driver, the hands of two threads and of the work, the firmware and its
events.  `Single` writes that as a sum of seven numbers, and the lemmas on `Count` say
what `Append`, `Head` and `Tail` do to one of them.  A claim adds 1 to the sum and claims
the token, a completion takes 1 from it and frees the token or adds 1 again, and every
other step moves a command on or loses it (`Fewer`).  What is left is the loop over the
unfinished tokens, which completes a token whose command may still be queued:
`BeforeUnfi` shows that it does not run before the time the property speaks of is over.
The attempt to prove the property in an earlier form, which allowed it any recovery, found
that it fails when the firmware dies twice: `tx_thread` has marked a token and not yet
written its command, the first recovery completes the token, which is programmed again,
and it has two commands when the firmware dies again.  The run, with its one death, did
not reach that.

### The saved configuration

`SavedConfig_proofs` proves, for every number of interfaces, queues, key indices, stations
and multicast addresses, every list of calls and any number of deaths:

| Theorem | Property |
|---|---|
| `SavedTracks` | `SavedTracksIdeal` |
| `GlobalsAreRestored` | `GlobalsRestored` |
| `InterfacesAreRestored` | `InterfacesRestored` |
| `KeysAreRestored` | `KeysRestored` |
| `AddressesAreRestored` | `MulticastRestored` |

`SavedTracks` says that what is saved follows the ideal firmware.  The two change
together, in `TxSave` only, by one command, and for each kind of command `Save` and
`Apply` touch the same slot.  A start forgets the saved block alone; `Tracks` then asks
nothing until the reset that the start sends is saved, and that reset clears the ideal
firmware.  Where they differ (an interface that is gone, an index that two stations
share) `Tracks` asks nothing, and it asks again only after a command that sets both.
`Shaped`, that both are functions over the interfaces, queues and keys, is what the
invariant is strengthened by.

The other four say what the real firmware has once a replay is over and nothing is under
way, whatever the driver did during the replay.  They compare three things: the firmware,
what is saved, and the place of the worker in its list of slots.

* Between two steps of `tx_thread` a command may be saved and not yet written, so all is
  said of `Written`, the firmware with that command, where one is pending (`PendingDone`).
* Slots come in the order of the list (`Due`, `NextIsFirst`).  A slot that the worker has
  passed (`Passed`) is in the firmware as saved (`Agrees`, for the settings of an
  interface); a slot it has not reached yet promises nothing (`Low`), since a later
  command of the replay may still undo it: `IF_ADD` takes away all that its interface had,
  and a reset everything.  `PassedOver` has what a step of the worker adds to the passed
  slots: the one copied, and those before it that hold nothing.
* The worker copies a slot and writes it later.  `HeldAgrees`, `HeldKey` and `HeldMcst`
  say that the copy it holds is what is saved, unless the slot was saved again in between;
  such a slot is in `stale`, and nothing is said of it any more (`Resent`).
* The part of a slot skipped for lack of memory is in `stale` as well; what the other
  slots carry must still be restored.
* Outside a replay all slots count as passed, so a command that `tx_thread` saves and
  writes must move the firmware and the saved block alike.  That is where the lemmas on
  each kind of command are used.

A key and a multicast address can be taken away again, so there the commands in the queue
matter too.  `Queue` is the queue with the command that `tx_thread` has taken still in
front; a step appends calls to it (`Extends`), takes its head away (`Shifts`), or leaves
it alone.  `KeyQueue` says that when the queued commands remove an interface they have
removed its keys before (`Gone`), so an interface that is added anew finds none in the
firmware (`Bare`) although the saved block may have old ones; `KeySaved` ties the saved
keys to the ideal firmware, `KeysReplayed` the firmware to the keys whose slots are passed.

An interface has a list of at most `McstAddrLimit` addresses, and `prepare_multicast` removes all
that were known before it adds new ones.  `McstQueue` says of a queue without failures: if
a removal is queued, all that is saved is going to be removed (`Marked`, `Cleared`); if
none is, the driver knows all that is saved (`Known`); and there is always room for the
additions (`Room`).  So `Save` never drops an address that the firmware takes.  The saved
addresses are among those of the ideal firmware, and the others of the ideal firmware are
going to be removed (`McstSaved`); a replay brings them back (`McstReplayed`).

The lists of commands in `SavedConfig` are built from `Each`, `EachTwo` and `InOrder`,
written with functions over positions instead of the folds of the community modules,
because the provers can follow positions and not a fold.

### Scans

`OffChannel_proofs` proves, for any number of scans, periods and ssids, and any bound on
faults:

| Theorem | Property |
|---|---|
| `TypesCorrect` | `TypeOK` |
| `ScanReportedOnce` | `OneReporter` |
| `CompletedWhenAllScanned` | `CompleteWhenScanned` |

`OneReporter` needs only who knows which scan (`NumberInv`).  `CompleteWhenScanned` is
about a session without faults (`Calm`), and what makes it true is spread over the two
queues, the firmware and four threads.  `CalmState` says it: at most one ssid is under
way, as a command, in the firmware, as an event or in the receive work (`OneSsid`); the
queues hold one message of each kind, the scan's before its abort's (`CmdsOK`,
`EventsOK`); an abort is under way only while mac80211 waits for it, behind the scan (`AbortLast`);
between scans, and once an abort is done, nothing of a scan is left (`Ended`); and the
ssids to be scanned are those in the driver's list and the one under way (`Remaining`).
A session that has stopped being calm stays so (`CalmBack`), so each action is followed
only from calm states.

### Start and stop

`StartStop_proofs` proves, for every number of tokens, frames, starts and faults:

| Theorem | Property |
|---|---|
| `TypesCorrect` | `TypeOK` |
| `NoFrameLeftBehind` | `FramesAccounted` |
| `StartTakesItsOwnAnswer` | `StartedAfterReset` |

`FrameInv` ties frames to tokens and to where `start` and `stop` are: a token has a
frame only between the end of a start and the purge of the stop, also when the worker
completes tokens or the firmware answers late.  `StartedAfterReset` needs to know where
a reset is.  `WorkerInv` says that between the tear-down and the end of a recovery the
resets of the firmware are the worker's own, at most one, and answered before it goes
on; `AskInv`, that at all other times a thread that waits for its reset has at most one
under way (`OneReset`) and that there is none when nobody waits (`Quiet`).

### The bus

`SdioLink_proofs` proves, for every number of retries, rescans, bursts, commands and
faults:

| Theorem | Property |
|---|---|
| `TypesCorrect` | `TypeOK` |
| `LoadedMeansReady` | `LoadedIsReady` |
| `LatchNoticed` | `LatchIsNoticed` |
| `EventsInOrderOnce` | `EventsOnceInOrder` |

`PhaseInv` says who is at work: one bring-up at a time, with its owner, and no reader or
writer before the first has succeeded.  `ReadyInv` carries what the last poll has seen to
the end of the download.  `OrderInv` orders the numbers of the events through the four
places they pass: the firmware, the transfer read, the buffer, and the packets after the
index of the series being handed up (`Left`).  It holds for any size and number of
transfers.  The theorem says nothing of a read that found no data: the buffer is then parsed again as it is, and an
event can come twice.

The proof of `LatchIsNoticed` failed at first, and for a good reason: it was false with
three faults.  When an error comes back while the recovery initialises the bus, the
latch stays set.  Every later transfer of the recovery succeeds as a no-op, and its reset
is never answered.  But an interrupt without data makes `rx_thread` read: the transfer
leaves the buffer as it was, a buffer that begins with an old `RESET_COMPLETE` is parsed
again, and the worker takes that for its answer and ends.  The driver then goes on over a
bus on which nothing moves, with nobody to notice.  `LatchIsNoticed` names the case
(`hal.mistaken`).  It also exempts an error that comes back after the recovery has
initialised the bus (`late`), which nobody signals; `LatchInv` shows that there is no third case.

### Suspend

`Power_proofs` proves `NothingSentBeforeSleep` (`CommandsBeforeSleep`), for every number of
commands, suspends and faults.  `SleepInv` says, of a suspend that is not `early`: before
the read of the CSR is sent no answer is due (`NoneDue`); while `img_suspend` waits for the
answer, the read is the last of all commands in the queue, in `tx_thread`'s hands and in the
firmware, and the only one (`Waiting`); once it is answered all three are empty and stay so
until the firmware sleeps (`Drained`), since nobody else sends in between.  The counter of
the command queue plays no part: what drains the queue is its order, which is why an
interface that is not associated, and does not wait for the counter, is safe as well.

### What is only model-checked

The liveness properties (`EveryFrameReported`, `StoppedQueuesWoken`, `EveryCommandSent`,
`SentTokensCompleted`, both `RecoveryEnds`, `ScanEnded`, `RocReported`, `RocSettles`)
are out of the prover's reach.  Every other property of a passing run is stated by a theorem.

## 5. What the violated run shows

`scan_stale`: the timer ends a scan after ten seconds (`core.h:181`) for mac80211 and sends the firmware
nothing.  If mac80211 starts another, the `SCAN_COMPLETE` of the first finds
`hw_scan_status` in progress and completes the second.  The comment at `umac_if.c:2083`
says that the check makes sure that an aborted scan is not completed.

Behaviours that the modules contain and whose absence no document promises are in the
notes of the hazards in `PROJECT.json`: a stop of a queue lost in
`rpu_unblock_all_frames`, a frame left queued when the firmware's budget is used up, the
counter of the command queue at 0 with commands queued after two blocks, the recount
without a lock, a token completed twice after the flag of a recovery is cleared, a block
that outlives its firmware.

## 6. Plan

1. `RESET_COMPLETE` lifting a block in `TxTokens`, and a stop in the middle of a refill.

## 7. Not modelled

* The beacon timer of an access point and the notice-of-absence queues: a timer that
  sends one frame each time, and a queue that is dropped.
* Stations and A-MPDU sessions: tables that mac80211 changes one call at a time.
* The patch-only download and the recovery of the low-power processor alone
  (`FW_ERR_LPW_RECOVERY`).
* The receive data path and DAPT, statistics, procfs, the packet generator: data
  transformation and diagnostics.
* `ram_accelerator`, scripts, device trees: single-threaded helpers and configuration.
