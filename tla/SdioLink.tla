-------------------------------- MODULE SdioLink --------------------------------
(***************************************************************************)
(* The SDIO link (hal_io.c, sdio.c), the download of the firmware          *)
(* (firmware.c, init.c) and rx_thread's series reads. After an I/O error   *)
(* sdio_reset makes every transfer a no-op that returns success, until the *)
(* recovery has initialised the bus again; during a download errors        *)
(* neither set it nor start a recovery.                                    *)
(*                                                                         *)
(* The firmware's events are numbered. It hands them over in bursts of     *)
(* transfers of one event or a series; the packets of a transfer name the  *)
(* length of the next one, and the last transfer is acknowledged.          *)
(***************************************************************************)
EXTENDS Integers, Sequences

CONSTANTS
  MaxRetry,     \* polls of the download (max_retry)
  Rescans,      \* scans for the card (RK915_SDIO_RESCAN_COUNT)
  MaxTransfers, \* transfers of a burst of events
  MaxSeries,    \* events of a transfer (MAX_RX_SERIAS_COUNT)
  MaxBursts,    \* bound: bursts of events
  MaxWrites,    \* bound: commands
  MaxFaults     \* bound: deaths of the firmware, transfers that fail, bus
                \* initialisations that fail, interrupts with no data to
                \* read, and starts that are tried again

ASSUME SdioLinkAssumption ==
  {MaxRetry, Rescans, MaxTransfers, MaxSeries, MaxBursts, MaxWrites, MaxFaults}
    \subseteq Nat

VARIABLES
  bus,      \* sdio_reset, during_fw_download, bus_init
  hal,      \* fw_error_processing, reset_complete, the recovery's status,
            \* whether the firmware is loaded, and whether old contents of the
            \* buffer have answered a recovery's reset (history)
  chip,     \* its state, the transfers it offers, whether it was notified, the
            \* reset it is to answer
  load,     \* the download: by whom, its stage, count and result
  reader,   \* rx_thread: wake-ups, rx_serias_idx, rx_serias_count, rx_next_len
            \* (more), rx_serias_buf, whether it is inside a read, and
            \* whether the last read found nothing (history)
  writer,   \* tx_thread: whether it is about to write, and its writes
  rec,      \* the recovery worker
  signals,  \* threads about to call rk915_signal_io_error
  used,     \* faults, bursts and events so far
  last,     \* the event handed up last, and how many have been
  late      \* history: an I/O error in a recovery that had initialised the bus

vars == <<bus, hal, chip, load, reader, writer, rec, signals, used, last, late>>

Fault == used.faults < MaxFaults /\ used' = [used EXCEPT !.faults = @ + 1]

Works == chip.state # "off"

\* Mutant of IoReset: an error in a download sets it as well.
IoResetAlways(b) == [b EXCEPT !.latched = TRUE]

\* rk915_io_reset: an error sets sdio_reset, except during a download.
IoReset(b) == [b EXCEPT !.latched = @ \/ ~b.loading]

\* A transfer fails if the chip is off, and otherwise at times.
TransferFails == ~bus.latched /\ IF Works THEN Fault ELSE UNCHANGED used

\* Only the recovery clears sdio_reset again, before it loads the firmware.
Unready == {"called", "cleared", "off", "card", "fast"}

NotesLate ==
  late' = (late \/ (hal.processing /\ rec \notin Unready))

\* The thread t has had an I/O error and will signal it.
Fails(t) ==
  /\ bus' = IoReset(bus)
  /\ NotesLate
  /\ signals' = signals \cup {t}

\* rk915_signal_io_error, after the lock has been released.
Signal(t) ==
  /\ t \in signals
  /\ signals' = signals \ {t}
  /\ IF bus.loading \/ hal.processing
     THEN UNCHANGED <<hal, rec>>
     ELSE /\ hal' = [hal EXCEPT !.processing = TRUE]
          /\ rec' = "called"
  /\ UNCHANGED <<bus, chip, load, reader, writer, used, last, late>>

-----------------------------------------------------------------------------
(* rk915_download, called by start and by the recovery.                    *)

Loading(stage) == load.stage = stage

\* The states of the firmware, in the order of their codes.
Rank(state) ==
  CHOOSE i \in 1 .. 6 :
    <<"off", "waitFw", "boot", "waitPatch", "patched", "ready">>[i] = state

LoadBegins(by, stage) ==
  load' = [load EXCEPT !.by = by, !.stage = stage, !.count = 0, !.ok = FALSE]

\* The bring-up returns; the recovery does not look at the result. b is the bus
\* as the last transfer left it.
LoadEnds(ok, b) ==
  /\ load' = [load EXCEPT !.by = "none", !.stage = "none", !.count = 0, !.ok = ok]
  /\ bus' = [b EXCEPT !.loading = FALSE]
  /\ IF load.by = "start"
     THEN hal' = [hal EXCEPT !.loaded = ok] /\ UNCHANGED rec
     ELSE rec' = "up" /\ UNCHANGED hal

\* Once only: the card is powered up and scanned, again if it is not found.
LoadProbes ==
  /\ Loading("bus")
  /\ \/ /\ load' = [load EXCEPT !.stage = "files", !.count = 0]
        /\ bus' = [bus EXCEPT !.init = TRUE]
        /\ chip' = IF bus.init THEN chip ELSE [chip EXCEPT !.state = "waitFw"]
        /\ UNCHANGED <<hal, rec, used>>
     \/ /\ ~bus.init /\ Fault
        /\ IF load.count < Rescans
           THEN /\ load' = [load EXCEPT !.count = @ + 1]
                /\ UNCHANGED <<bus, hal, rec>>
           ELSE LoadEnds(FALSE, bus)
        /\ UNCHANGED chip
  /\ UNCHANGED <<reader, writer, signals, last, late>>

\* The firmware's files are read once; the download begins.
LoadReadsFiles ==
  /\ Loading("files")
  /\ \/ /\ load' = [load EXCEPT !.stage = "fw", !.saved = TRUE]
        /\ bus' = [bus EXCEPT !.loading = TRUE]
        /\ UNCHANGED <<hal, rec, used>>
     \/ /\ ~load.saved /\ Fault
        /\ LoadEnds(FALSE, bus)
  /\ UNCHANGED <<chip, reader, writer, signals, last, late>>

\* The firmware is written and started, or the patch written: on to the polls.
LoadWrites(from, to, before, after) ==
  /\ Loading(from)
  /\ bus.latched \/ Works
  /\ load' = [load EXCEPT !.stage = to, !.count = 0]
  /\ chip' = IF ~bus.latched /\ chip.state = before
             THEN [chip EXCEPT !.state = after] ELSE chip
  /\ UNCHANGED <<bus, hal, reader, writer, rec, signals, used, last, late>>

LoadFirmware == LoadWrites("fw", "pollPatch", "waitFw", "boot")
LoadPatch == LoadWrites("patch", "pollReady", "waitPatch", "patched")

\* Mutant of GivesUp: the count is compared with the next limit.
GivesUpLater(count) == count > MaxRetry + 2

GivesUp(count) == count > MaxRetry

\* One turn of a poll loop and, if it leaves the loop, the check after it. A
\* bus that is latched reads as 0, WAIT_FW.
LoadPolls(stage, next, reached) ==
  /\ Loading(stage)
  /\ bus.latched \/ Works
  /\ \/ /\ reached /\ ~bus.latched /\ ~GivesUp(load.count)
        /\ load' = [load EXCEPT !.stage = next]
        /\ UNCHANGED <<bus, hal, rec>>
     \/ /\ reached /\ ~bus.latched /\ GivesUp(load.count)
        /\ LoadEnds(FALSE, bus)
     \/ /\ ~reached \/ bus.latched
        /\ load.count <= MaxRetry
        /\ load' = [load EXCEPT !.count = @ + 1]
        /\ UNCHANGED <<bus, hal, rec>>
     \/ /\ ~reached \/ bus.latched
        /\ load.count > MaxRetry
        /\ IF GivesUp(load.count + 1)
           THEN LoadEnds(FALSE, bus)
           ELSE load' = [load EXCEPT !.stage = next] /\ UNCHANGED <<bus, hal, rec>>
  /\ UNCHANGED <<chip, reader, writer, signals, used, last, late>>

LoadPollsPatch == LoadPolls("pollPatch", "patch", chip.state = "waitPatch")
LoadPollsReady == LoadPolls("pollReady", "clear", Rank(chip.state) >= Rank("ready"))

\* The patch length is cleared, and the download is over.
LoadClears ==
  /\ Loading("clear")
  /\ bus.latched \/ Works
  /\ load' = [load EXCEPT !.stage = "init"]
  /\ bus' = [bus EXCEPT !.loading = FALSE]
  /\ UNCHANGED <<hal, chip, reader, writer, rec, signals, used, last, late>>

\* sdio_device_init: the bus is set up for its interrupts. It does not look at
\* sdio_reset, and its errors neither set it nor are signalled.
LoadInitsDevice ==
  /\ Loading("init")
  /\ \/ Works /\ LoadEnds(TRUE, bus) /\ UNCHANGED used
     \/ ~Works /\ LoadEnds(FALSE, bus) /\ UNCHANGED used
     \/ Works /\ Fault /\ LoadEnds(FALSE, bus)
  /\ UNCHANGED <<chip, reader, writer, signals, last, late>>

\* An I/O error ends the download; nobody is told.
LoadFails ==
  /\ bus.loading
  /\ TransferFails
  /\ LoadEnds(FALSE, IoReset(bus))
  /\ UNCHANGED <<chip, reader, writer, signals, last, late>>

\* start: the firmware is brought up if it is not loaded.
Start ==
  /\ ~hal.loaded /\ load.by = "none" /\ rec = "idle"
  /\ IF used.started THEN Fault ELSE used' = [used EXCEPT !.started = TRUE]
  /\ LoadBegins("start", "bus")
  /\ UNCHANGED <<bus, hal, chip, reader, writer, rec, signals, last, late>>

-----------------------------------------------------------------------------
(* tx_thread. The first command is a reset, and saved for the recovery. A   *)
(* command that is written while sdio_reset is set is taken for written.   *)

WriteBegins ==
  /\ hal.loaded /\ ~hal.processing
  /\ ~writer.busy /\ writer.count < MaxWrites
  /\ \E reset \in BOOLEAN :
       /\ writer.count = 0 => reset
       /\ writer' = [busy |-> TRUE, count |-> writer.count + 1, reset |-> reset]
       /\ hal' = [hal EXCEPT !.resetDone = @ /\ ~reset]
  /\ UNCHANGED <<bus, chip, load, reader, rec, signals, used, last, late>>

Write ==
  /\ writer.busy /\ ~reader.inside
  /\ "writer" \notin signals
  /\ writer' = [writer EXCEPT !.busy = FALSE]
  /\ \/ /\ bus.latched \/ Works
        /\ chip' = IF bus.latched THEN chip
                   ELSE [chip EXCEPT !.reset = @ \/ writer.reset]
        /\ UNCHANGED <<bus, late, signals, used>>
     \/ /\ TransferFails
        /\ Fails("writer")
        /\ UNCHANGED chip
  /\ UNCHANGED <<hal, load, reader, rec, last>>

-----------------------------------------------------------------------------
(* rx_thread, rk915_serias_read.                                           *)

Idle == [wakes |-> 0, inside |-> FALSE, empty |-> FALSE, idx |-> 0, count |-> 0,
         more |-> FALSE, buf |-> [pkts |-> <<>>, more |-> FALSE]]

\* rx_thread goes on without an interrupt while it knows of more.
MayRead ==
  /\ "reader" \notin signals
  /\ reader.wakes > 0 \/ reader.more

Woken ==
  IF reader.more THEN reader ELSE [reader EXCEPT !.wakes = @ - 1]

\* Without a known length it is read first: 0 if there is no data.
NothingToRead == chip.out = <<>> /\ ~reader.more

\* A read that returns nothing: rx_thread forgets the series. With a length of
\* 0 before a reset is complete it is no error.
ReadsNothing(r, silent) ==
  /\ reader' = [r EXCEPT !.inside = FALSE, !.count = 0, !.more = FALSE]
  /\ IF silent THEN UNCHANGED <<bus, signals, late>> ELSE Fails("reader")

\* The transfer is read into the buffer; the link is locked. If there is no
\* data, or sdio_reset is set, nothing is read and the old contents remain.
RxFetch ==
  /\ ~reader.inside /\ reader.count = 0 /\ MayRead
  /\ \/ /\ bus.latched \/ (Works /\ NothingToRead)
        /\ reader' = [Woken EXCEPT !.inside = TRUE, !.empty = TRUE]
        /\ UNCHANGED <<bus, chip, signals, used, late>>
     \/ /\ ~bus.latched /\ Works /\ chip.out # <<>>
        /\ reader' = [Woken EXCEPT !.inside = TRUE, !.empty = FALSE,
                                   !.buf = Head(chip.out)]
        /\ chip' = [chip EXCEPT !.out = Tail(@)]
        /\ UNCHANGED <<bus, signals, used, late>>
     \/ /\ TransferFails
        /\ ReadsNothing(Woken, ~hal.resetDone)
        /\ UNCHANGED chip
     \/ /\ ~bus.latched /\ Works /\ chip.out = <<>> /\ reader.more
        /\ ReadsNothing(Woken, ~hal.resetDone)
        /\ UNCHANGED <<chip, used>>
  /\ UNCHANGED <<hal, load, writer, rec, last>>

\* The event goes to the driver or, during a recovery, to the worker only.
HandsUp(p) ==
  IF hal.processing
  THEN /\ hal' = [hal EXCEPT !.answered = @ \/ p.reset,
                            !.mistaken = @ \/ (p.reset /\ reader.empty)]
       /\ UNCHANGED last
  ELSE /\ hal' = [hal EXCEPT !.resetDone = @ \/ p.reset]
       /\ last' = [n |-> p.n, count |-> last.count + 1]

\* The interrupt is cleared and the firmware notified, unless more is to come.
Acknowledges(more) ==
  IF more THEN UNCHANGED chip
  ELSE /\ bus.latched \/ Works
       /\ chip' = IF bus.latched THEN chip ELSE [chip EXCEPT !.notified = TRUE]

\* The pkt_count of a series; a packet that comes alone has none.
SeriesCount(pkts) == IF Len(pkts) > 1 THEN Len(pkts) ELSE 0

\* The header is parsed; the length of the next transfer is taken out of it.
RxParse ==
  /\ reader.inside
  /\ LET b == reader.buf IN
     \/ /\ b.pkts = <<>>
        /\ ReadsNothing(reader, ~hal.resetDone)
        /\ UNCHANGED <<hal, chip, used, last>>
     \/ /\ b.pkts # <<>>
        /\ reader' = [reader EXCEPT !.inside = FALSE, !.count = SeriesCount(b.pkts),
                                    !.idx = IF SeriesCount(b.pkts) > 0 THEN 0 ELSE @,
                                    !.more = b.more, !.buf.more = FALSE]
        /\ HandsUp(Head(b.pkts))
        /\ Acknowledges(b.more)
        /\ UNCHANGED <<bus, signals, used, late>>
     \/ /\ b.pkts # <<>> /\ ~b.more /\ TransferFails
        /\ ReadsNothing(reader, FALSE)
        /\ UNCHANGED <<hal, chip, last>>
  /\ UNCHANGED <<load, writer, rec>>

\* Mutant of Position: the index is moved on after the packet is taken.
PositionBefore(idx) == idx

\* Where the packet of index idx is in the buffer: rx_serias_buf_curr has been
\* moved past those before it.
Position(idx) == idx + 1

\* The next event of a series is in the buffer; the last one ends the series.
RxSeries ==
  /\ ~reader.inside /\ reader.count > 0 /\ "reader" \notin signals
  /\ LET idx  == reader.idx + 1
         over == idx + 1 >= reader.count
         ends == over /\ ~reader.more IN
     \/ /\ reader' = [reader EXCEPT !.idx = IF over THEN -1 ELSE idx,
                                    !.count = IF over THEN 0 ELSE @]
        /\ HandsUp(reader.buf.pkts[Position(idx)])
        /\ Acknowledges(~ends)
        /\ UNCHANGED <<bus, signals, used, late>>
     \/ /\ ends /\ TransferFails
        /\ ReadsNothing(reader, FALSE)
        /\ UNCHANGED <<hal, chip, last>>
  /\ UNCHANGED <<load, writer, rec>>

-----------------------------------------------------------------------------
(* fw_err_work_fn.                                                         *)

RecStep(from, to) == rec = from /\ rec' = to

\* The series is forgotten, without a lock.
RecClears ==
  /\ RecStep("called", "cleared")
  /\ reader' = [reader EXCEPT !.count = 0, !.more = FALSE]
  /\ UNCHANGED <<bus, hal, chip, load, writer, signals, used, last, late>>

Off == [state |-> "off", out |-> <<>>, notified |-> TRUE, reset |-> FALSE]

RecPowersOff ==
  /\ RecStep("cleared", "off")
  /\ chip' = Off
  /\ UNCHANGED <<bus, hal, load, reader, writer, signals, used, last, late>>

\* rk915_sdio_recovery_init: the card is reset, found and selected, then its
\* speed and its bus are set up. If a step fails sdio_reset stays as it is; the
\* download is tried all the same.
RecFindsCard ==
  /\ rec = "off" /\ ~reader.inside
  /\ \/ /\ rec' = "card"
        /\ chip' = [chip EXCEPT !.state = "waitFw"]
        /\ UNCHANGED used
     \/ rec' = "bus" /\ Fault /\ UNCHANGED chip
  /\ UNCHANGED <<bus, hal, load, reader, writer, signals, last, late>>

\* rk915_sdio_enable_hs and rk915_sdio_enable_4bit_bus.
RecSpeedsUp ==
  /\ rec = "card"
  /\ \/ Works /\ rec' = "fast" /\ UNCHANGED used
     \/ ~Works /\ rec' = "bus" /\ UNCHANGED used
     \/ Works /\ rec' = "bus" /\ Fault
  /\ UNCHANGED <<bus, hal, chip, load, reader, writer, signals, last, late>>

RecInitsBus ==
  /\ RecStep("fast", "bus")
  /\ \/ Works /\ bus' = [bus EXCEPT !.latched = FALSE] /\ UNCHANGED used
     \/ ~Works /\ UNCHANGED <<bus, used>>
     \/ Works /\ Fault /\ UNCHANGED bus
  /\ UNCHANGED <<hal, chip, load, reader, writer, signals, last, late>>

RecLoads ==
  /\ RecStep("bus", "load")
  /\ LoadBegins("rec", "files")
  /\ UNCHANGED <<bus, hal, chip, reader, writer, signals, used, last, late>>

\* The bring-up has taken longer than rx_thread, a real-time thread, needs to
\* finish with what it had.
ReaderDone ==
  reader.wakes = 0 /\ ~reader.inside /\ reader.count = 0 /\ ~reader.more

RecWrites(from, to, reset) ==
  /\ RecStep(from, to)
  /\ hal' = [hal EXCEPT !.answered = @ /\ ~reset]
  /\ \/ /\ bus.latched \/ Works
        /\ chip' = IF bus.latched THEN chip
                   ELSE [chip EXCEPT !.reset = @ \/ reset]
        /\ UNCHANGED <<bus, late, signals, used>>
     \/ /\ TransferFails
        /\ Fails("rec")
        /\ UNCHANGED chip
  /\ UNCHANGED <<load, reader, writer, last>>

\* The reset, and when it has been answered the rest of the saved commands.
RecResets == ReaderDone /\ RecWrites("up", "wait", TRUE)
RecReplays == hal.answered /\ RecWrites("wait", "end", FALSE)

RecEnds ==
  /\ RecStep("end", "idle") /\ "rec" \notin signals
  /\ hal' = [hal EXCEPT !.processing = FALSE]
  /\ UNCHANGED <<bus, chip, load, reader, writer, signals, used, last, late>>

-----------------------------------------------------------------------------
(* The firmware.                                                           *)

FwBoots ==
  /\ \/ chip.state = "boot" /\ chip' = [chip EXCEPT !.state = "waitPatch"]
     \/ chip.state = "patched" /\ chip' = [chip EXCEPT !.state = "ready"]
  /\ UNCHANGED <<bus, hal, load, reader, writer, rec, signals, used, last, late>>

\* The numbers that the events of a burst are taken from.
BurstSize == MaxTransfers * MaxSeries

\* The event j of the transfer i of a burst; the answer to a reset comes first.
Event(i, j, reset) ==
  [n |-> used.events + (i - 1) * MaxSeries + j, reset |-> reset /\ i = 1 /\ j = 1]

\* A burst of one transfer after the other, each of one event or a series.
Burst(lens, reset) ==
  [i \in 1 .. Len(lens) |->
     [pkts |-> [j \in 1 .. lens[i] |-> Event(i, j, reset)],
      more |-> i < Len(lens)]]

\* A burst, once the last one was acknowledged; the answer to a reset first.
\* Nothing is sent before the driver's first reset.
FwSends ==
  /\ writer.count > 0
  /\ chip.state = "ready" /\ chip.out = <<>> /\ chip.notified
  /\ chip.reset \/ used.bursts < MaxBursts
  /\ \E k \in 1 .. MaxTransfers : \E lens \in [1 .. k -> 1 .. MaxSeries] :
       chip' = [chip EXCEPT !.out = Burst(lens, chip.reset), !.notified = FALSE,
                            !.reset = FALSE]
  /\ used' = [used EXCEPT !.events = @ + BurstSize,
                          !.bursts = IF chip.reset THEN @ ELSE @ + 1]
  /\ reader' = [reader EXCEPT !.wakes = @ + 1]
  /\ UNCHANGED <<bus, hal, load, writer, rec, signals, last, late>>

FwInterrupts ==
  /\ writer.count > 0 /\ Works /\ Fault
  /\ reader' = [reader EXCEPT !.wakes = @ + 1]
  /\ UNCHANGED <<bus, hal, chip, load, writer, rec, signals, last, late>>

FwDies ==
  /\ Works /\ Fault
  /\ chip' = Off
  /\ UNCHANGED <<bus, hal, load, reader, writer, rec, signals, last, late>>

-----------------------------------------------------------------------------

Init ==
  /\ bus = [latched |-> FALSE, loading |-> FALSE, init |-> FALSE]
  /\ hal = [processing |-> FALSE, resetDone |-> FALSE, answered |-> FALSE,
            loaded |-> FALSE, mistaken |-> FALSE]
  /\ chip = Off
  /\ load = [by |-> "none", stage |-> "none", count |-> 0, ok |-> FALSE,
             saved |-> FALSE]
  /\ reader = Idle
  /\ writer = [busy |-> FALSE, count |-> 0, reset |-> FALSE]
  /\ rec = "idle" /\ signals = {}
  /\ used = [faults |-> 0, bursts |-> 0, events |-> 0, started |-> FALSE]
  /\ last = [n |-> 0, count |-> 0] /\ late = FALSE

Load == LoadProbes \/ LoadReadsFiles \/ LoadFirmware \/ LoadPollsPatch
        \/ LoadPatch \/ LoadPollsReady \/ LoadClears \/ LoadInitsDevice
        \/ LoadFails

Recovery == RecClears \/ RecPowersOff \/ RecFindsCard \/ RecSpeedsUp \/ RecInitsBus
            \/ RecLoads \/ RecResets \/ RecReplays \/ RecEnds

Next ==
  \/ Start \/ Load
  \/ WriteBegins \/ Write
  \/ RxFetch \/ RxParse \/ RxSeries
  \/ Recovery
  \/ \E t \in {"writer", "reader", "rec"} : Signal(t)
  \/ FwBoots \/ FwSends \/ FwInterrupts \/ FwDies

Spec == Init /\ [][Next]_vars

-----------------------------------------------------------------------------
(* Properties.                                                             *)

\* The link does not stay silent unnoticed: while sdio_reset makes transfers
\* no-ops, a recovery is going on or about to be started. The exceptions are an
\* error in a recovery that has initialised the bus already, which nobody
\* signals, and a recovery whose reset is answered by what the buffer held from
\* an earlier reset, after an interrupt with no data to read: it goes on to its
\* end although the bus was never initialised.
LatchIsNoticed ==
  bus.latched => hal.processing \/ signals # {} \/ late \/ hal.mistaken

\* What rx_thread hands up from a transfer that was read is newer than all it
\* has handed up before: no event comes twice or late through the index and the
\* count of a series, errors and recoveries. Events may be lost. It is not said
\* of a read that finds no data, or of a bus whose transfers are no-ops: what
\* the buffer held is parsed, and handed up, again.
EventsOnceInOrder ==
  [][last' # last /\ ~reader.empty => last'.n > last.n]_vars

\* A download that succeeds leaves a firmware that is ready: no give-up is
\* taken for success, and no read of a silent link for a state.
LoadedIsReady ==
  [][load'.ok /\ ~load.ok => chip.state = "ready"]_vars
=============================================================================
