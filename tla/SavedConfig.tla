------------------------------ MODULE SavedConfig ------------------------------
(***************************************************************************)
(* The configuration of the firmware across its death: mac80211's calls    *)
(* (umac_if.c, vif.c, beacon.c) turned into commands, the transmit thread  *)
(* that saves each one before it writes it, and the recovery worker that   *)
(* boots the firmware again and sends it what was saved (hal.c), while     *)
(* the transmit thread may still be writing.                               *)
(*                                                                         *)
(* The command queue of rpu_if.c is here the order-preserving queue that   *)
(* CmdQueue shows it to be; the handshake between the receive path and     *)
(* the worker is FwRecovery's.                                             *)
(***************************************************************************)
EXTENDS RpuCommands, SequencesExt

CONSTANTS
  UsedModes,     \* the interface types mac80211 asks for
  McLists,       \* the address lists it gives prepare_multicast
  ConfChanges,   \* the sets of changes it gives config
  BssChanges,    \* the sets of changes it gives bss_info_changed
  MaxOps,        \* bound: number of mac80211 calls
  Backlog,       \* bound: commands still queued when a call begins
  MaxDeaths,     \* bound: number of times the firmware dies
  MaxFailures    \* bound: failed allocations, of the calls and of the replay,
                 \* and unanswered channel commands

ASSUME SavedConfigAssumption ==
  /\ UsedModes \subseteq Modes
  /\ McLists \subseteq Seq(Addrs)
  /\ {MaxOps, Backlog, MaxDeaths, MaxFailures} \subseteq Nat

VARIABLES
  state,        \* priv->state, with the time rpu_core_deinit takes
  mode,         \* the type of each interface mac80211 has added
  edca,         \* uvif->config.edca_params
  mcFilters,    \* priv->mc_filters, the whole array
  mcCount,      \* priv->mc_filter_count
  keys,         \* the keys mac80211 has installed
  ops, failures, deaths,
  txq,          \* commands on their way to the transmit thread
  txPc, txCmd,  \* the transmit thread
  halDisabled,  \* hpriv->hal_disabled
  saved,        \* g_lpw_recovery_param
  fw, alive,    \* the firmware
  recPc, recSlot, recVif, held,   \* the recovery worker
  ideal,        \* history: the firmware had it never died
  stale,        \* history: what the last replay skipped, or held an older
                \* copy of while it was saved
  shared        \* history: key indices that two stations have used at once

hostVars == <<state, mode, edca, mcFilters, mcCount, keys, ops, failures>>
txVars   == <<txPc, txCmd>>
recVars  == <<recPc, recSlot, recVif, held, stale>>
histVars == <<ideal, shared>>
vars == <<hostVars, txVars, recVars, histVars, txq, halDisabled, saved,
          fw, alive, deaths>>

NoCmd == [id |-> "none"]

-----------------------------------------------------------------------------
(* What a call sends. A command sent with CALL_RPU ends the function when  *)
(* it cannot be allocated; the failure of any other is not looked at.      *)

Must(c) == [cmd |-> c, must |-> TRUE]
May(c)  == [cmd |-> c, must |-> FALSE]

\* The mark of the call under way.
Mark == ops + 2

\* Where the list stops, or what it skips, when the n-th allocation fails
\* (rpu_send_cmd, CALL_RPU); 0 when none does.
SentWhen(list, n) ==
  IF n = 0 THEN list
  ELSE IF list[n].must THEN SubSeq(list, 1, n - 1)
  ELSE RemoveAt(list, n)

Commands(list) == [n \in DOMAIN list |-> list[n].cmd]

Calls(list, n) ==
  /\ n \in 0 .. Len(list)
  /\ n # 0 => failures < MaxFailures
  /\ failures' = IF n = 0 THEN failures ELSE failures + 1
  /\ txq' = txq \o Commands(SentWhen(list, n))

Sends(list) == \E n \in 0 .. Len(list) : Calls(list, n)

BeginsCall ==
  /\ state = "on" /\ ops < MaxOps /\ Len(txq) <= Backlog
  /\ ops' = ops + 1

\* An entry for each element of a set of numbers in their order, or two.
InOrder(S) == SetToSortSeq(S, LAMBDA a, b : a < b)

Each(S, Op(_)) == [n \in 1 .. Cardinality(S) |-> Op(InOrder(S)[n])]

EachTwo(S, First(_), Second(_)) ==
  [n \in 1 .. 2 * Cardinality(S) |->
     IF n % 2 = 1 THEN First(InOrder(S)[(n + 1) \div 2])
                  ELSE Second(InOrder(S)[n \div 2])]

Active == {v \in Vifs : mode[v] # NoMode}

otherVars == <<txVars, recVars, histVars, saved, fw, alive, deaths>>

-----------------------------------------------------------------------------
(* mac80211's calls.                                                       *)

\* start and rpu_core_init: hal_start clears what was saved, then the
\* firmware is reset and given the transmit power.
Start ==
  /\ state = "off" /\ recPc = "idle" /\ ops < MaxOps
  /\ ops' = ops + 1
  /\ state' = "on"
  /\ halDisabled' = FALSE
  /\ saved' = NothingSaved
  /\ Sends(<<Must(Reset("ENABLE")), Must(TxPower(Mark))>>)
  /\ UNCHANGED <<mode, edca, mcFilters, mcCount, keys, txVars, recVars,
                 histVars, fw, alive, deaths>>

\* rpu_core_deinit: disable the firmware unless an error is being processed,
\* wait for its answer or give up, and for the end of a recovery.
StopBegin ==
  /\ BeginsCall /\ Active = {}
  /\ state' = "stopping"
  /\ IF recPc = "idle" THEN Sends(<<Must(Reset("DISABLE"))>>)
                       ELSE UNCHANGED <<txq, failures>>
  /\ UNCHANGED <<mode, edca, mcFilters, mcCount, keys, halDisabled, otherVars>>

StopEnd ==
  /\ state = "stopping" /\ recPc = "idle"
  /\ state' = "off"
  /\ halDisabled' = TRUE
  /\ UNCHANGED <<mode, edca, mcFilters, mcCount, keys, ops, failures, txq,
                 otherVars>>

\* rpu_vif_add.
VifAdd(v, m, e) ==
  <<Must(VifCtrl(v, m, "ADD")), Must(ShortRetry(v, Mark)),
    Must(LongRetry(v, Mark))>>
  \o (IF m = "AP" THEN Each(Queues, LAMBDA q : Must(TxqParams(v, q, e[q])))
                  ELSE <<>>)

NoEdca == [q \in Queues |-> Zeroed]

IsFreeIndex(v, used) == v \notin used /\ \A u \in Vifs : u < v => u \in used

\* The host has the interface even when a command for it failed.
AddInterface(m) ==
  \E v \in Vifs :
    /\ IsFreeIndex(v, Active)
    /\ BeginsCall
    /\ mode' = [mode EXCEPT ![v] = m]
    /\ edca' = [edca EXCEPT ![v] = NoEdca]
    /\ Sends(VifAdd(v, m, NoEdca))
    /\ UNCHANGED <<state, mcFilters, mcCount, keys, halDisabled, otherVars>>

KeysOf(v) == {k \in keys : k.vif = v}

\* rpu_vif_remove; mac80211 has removed the interface's keys before.
RemoveInterface(v) ==
  /\ BeginsCall
  /\ v \in Active /\ KeysOf(v) = {}
  /\ mode' = [mode EXCEPT ![v] = NoMode]
  /\ Sends(<<Must(VifCtrl(v, mode[v], "REM"))>>)
  /\ UNCHANGED <<state, edca, mcFilters, mcCount, keys, halDisabled, otherVars>>

\* change_interface: the interface is removed and added with its parameters,
\* under the first free index, which may be another one.
ChangeInterface(v, m) ==
  \E u \in Vifs :
    /\ BeginsCall
    /\ v \in Active /\ KeysOf(v) = {} /\ m # mode[v]
    /\ IsFreeIndex(u, Active \ {v})
    /\ mode' = [mode EXCEPT ![v] = NoMode, ![u] = m]
    /\ edca' = [edca EXCEPT ![u] = edca[v]]
    /\ Sends(<<May(VifCtrl(v, mode[v], "REM"))>> \o VifAdd(u, m, edca[v]))
    /\ UNCHANGED <<state, mcFilters, mcCount, keys, halDisabled, otherVars>>

\* What config sends, in its order. The power save state is compiled out.
ConfigUpTo(changed) ==
  (IF "POWER" \in changed THEN <<Must(TxPower(Mark))>> ELSE <<>>)
  \o (IF "CHANNEL" \in changed THEN <<Must(Channel(Mark))>> ELSE <<>>)

ConfigRest(changed) ==
  (IF "SMPS" \in changed
   THEN Each(Active, LAMBDA v : May(VifSmps(v, Mark))) ELSE <<>>)
  \o (IF "RETRY" \in changed
      THEN EachTwo(Active, LAMBDA v : May(ShortRetry(v, Mark)),
                           LAMBDA v : May(LongRetry(v, Mark))) ELSE <<>>)

\* config: nothing follows a channel command that is not answered.
Config(changed) ==
  /\ BeginsCall
  /\ \/ Sends(ConfigUpTo(changed) \o ConfigRest(changed))
     \/ /\ "CHANNEL" \in changed /\ failures < MaxFailures
        /\ failures' = failures + 1
        /\ txq' = txq \o Commands(ConfigUpTo(changed))
  /\ UNCHANGED <<state, mode, edca, mcFilters, mcCount, keys, halDisabled,
                 otherVars>>

\* prepare_multicast: all the addresses it knows of go, then the list comes.
\* A list that is too long changes nothing.
PrepareMulticast(list) ==
  LET removals == [n \in 1 .. mcCount |-> May(McstAddrCfg(mcFilters[n], "REM"))]
      adds == [n \in DOMAIN list |-> Must(McstAddrCfg(list[n], "ADD"))]
      Filters(n) == [i \in DOMAIN mcFilters |->
                       IF i <= n THEN list[i] ELSE mcFilters[i]]
  IN /\ BeginsCall /\ Len(list) <= McstAddrLimit
     /\ \E n \in 0 .. mcCount + Len(list) :
          /\ Calls(removals \o adds, n)
          /\ IF n > mcCount
             THEN /\ mcFilters' = Filters(n - mcCount - 1)
                  /\ UNCHANGED mcCount
             ELSE /\ mcFilters' = Filters(Len(list))
                  /\ mcCount' = Len(list)
     /\ UNCHANGED <<state, mode, edca, keys, halDisabled, otherVars>>

\* configure_filter: the multicast filter, and the beacons to receive when
\* that flag has changed.
ConfigureFilter(changed) ==
  /\ BeginsCall
  /\ Sends(<<Must(McstFilterControl(Mark))>>
           \o IF changed THEN <<Must(RcvBcnMode(Mark))>> ELSE <<>>)
  /\ UNCHANGED <<state, mode, edca, mcFilters, mcCount, keys, halDisabled,
                 otherVars>>

\* rpu_vif_set_edca_params: the parameters of the queue are kept for the next
\* time the interface is added, and sent now.
SetEdcaParams(v, q) ==
  /\ edca' = [edca EXCEPT ![v][q] = Mark]
  /\ Sends(<<Must(TxqParams(v, q, Mark))>>)

\* conf_vif_tx, for the queue that q is mapped to.
ConfVifTx(v, q) ==
  /\ BeginsCall
  /\ v \in Active
  /\ SetEdcaParams(v, q)
  /\ UNCHANGED <<state, mode, mcFilters, mcCount, keys, halDisabled, otherVars>>

\* The holder set_key gives a key: a group key of an access point belongs
\* to everyone, one of a station to its access point.
Holders(v) ==
  IF mode[v] = "STA_BSS" THEN {CHOOSE p \in Peers : TRUE} ELSE KeyHolders

\* rpu_prog_if_key if the key is everyone's, else rpu_prog_peer_key.
KeyCmd(v, op, k, p) ==
  IF p = Broadcast THEN IfKey(v, op, k, Mark) ELSE PeerKey(v, op, k, p, Mark)

SetKey(v, k, p) ==
  /\ BeginsCall
  /\ v \in Active /\ p \in Holders(v)
  /\ keys' = keys \cup {[vif |-> v, key |-> k, holder |-> p]}
  /\ Sends(<<May(KeyCmd(v, "ADD", k, p))>>)
  /\ UNCHANGED <<state, mode, edca, mcFilters, mcCount, halDisabled, otherVars>>

DisableKey(key) ==
  /\ BeginsCall
  /\ key \in keys
  /\ keys' = keys \ {key}
  /\ Sends(<<May(KeyCmd(key.vif, "DEL", key.key, key.holder))>>)
  /\ UNCHANGED <<state, mode, edca, mcFilters, mcCount, halDisabled, otherVars>>

-----------------------------------------------------------------------------
(* bss_info_changed and rpu_vif_bss_info_changed.                          *)

When(cond, list) == IF cond THEN list ELSE <<>>

\* The parameters of every queue that has some go again with the slot time.
BssCommon(v, changed) ==
  When("BSSID" \in changed, <<Must(VifBssid(v, Mark))>>)
  \o When("BASIC_RATES" \in changed, <<Must(VifBasicRates(v, Mark))>>)
  \o When("ERP_SLOT" \in changed,
          <<Must(VifShortSlot(v, Mark))>>
          \o Each({q \in Queues : edca[v][q] # Zeroed},
                  LAMBDA q : Must(TxqParams(v, q, edca[v][q]))))

BssStation(v, changed, assoc) ==
  When("ASSOC" \in changed,
       <<Must(VifConnState(v, Mark))>>
       \o When(assoc, <<Must(VifAid(v, Mark)), Must(VifOpChannel(v, Mark)),
                        Must(VifAssocCap(v, Mark))>>))
  \o When("BEACON_INT" \in changed, <<Must(VifBeaconInt(v, Mark))>>)
  \o When("DTIM_PERIOD" \in changed, <<Must(VifDtimPeriod(v, Mark))>>)

\* modify_beacon_params, for a beacon that is enabled.
BssBeacon(v, changed) ==
  When(changed \cap {"BEACON_ENABLED", "BEACON_INT"} # {},
       <<Must(VifBeaconInt(v, Mark))>>)

BssInfoChanged(v, changed, assoc) ==
  /\ BeginsCall
  /\ v \in Active
  /\ assoc => "ASSOC" \in changed
  /\ Sends(BssCommon(v, changed)
           \o IF mode[v] = "STA_BSS" THEN BssStation(v, changed, assoc)
                                     ELSE BssBeacon(v, changed))
  /\ UNCHANGED <<state, mode, edca, mcFilters, mcCount, keys, halDisabled,
                 otherVars>>

-----------------------------------------------------------------------------
(* tx_thread. It looks at fw_error_processing only when it is woken, and   *)
(* then works through its queue; a command is saved before hal_disabled is *)
(* looked at, so one that is dropped has been saved.                       *)

envVars == <<hostVars, halDisabled, recPc, recSlot, recVif, fw, alive, deaths>>

TxWake ==
  /\ txPc = "asleep" /\ txq # <<>> /\ recPc = "idle"
  /\ txPc' = "loop"
  /\ UNCHANGED <<envVars, held, stale, histVars, txq, txCmd, saved>>

\* The queue is empty, or block_rpu_comm is set.
TxRest ==
  /\ txPc = "loop"
  /\ txPc' = "asleep"
  /\ UNCHANGED <<envVars, held, stale, histVars, txq, txCmd, saved>>

TxTake ==
  /\ txPc = "loop" /\ txq # <<>>
  /\ txPc' = "taken"
  /\ txCmd' = Head(txq) /\ txq' = Tail(txq)
  /\ UNCHANGED <<envVars, held, stale, histVars, saved>>

-----------------------------------------------------------------------------
(* What send_fw_recovery_cmd goes through, as slots in their order: reset, *)
(* power, for each interface its control command, parameters, queues and   *)
(* keys, then channel, addresses and filter.                               *)

Slot(stage, v, part, i) == <<stage, v, part, i>>

ResetSlot     == Slot(1, 0, 0, 0)
PowerSlot     == Slot(2, 0, 0, 0)
CtrlSlot(v)   == Slot(3, v, 0, 0)
CfgSlot(v)    == Slot(3, v, 1, 0)
TxqSlot(v, q) == Slot(3, v, 2, q)
KeySlot(v, k) == Slot(3, v, 3, k)
ChannelSlot   == Slot(4, 0, 0, 0)
McstSlot(i)   == Slot(5, 0, 0, i)
FilterSlot    == Slot(6, 0, 0, 0)

Before(a, b) ==
  \E n \in 1 .. 4 : a[n] < b[n] /\ \A m \in 1 .. n - 1 : a[m] = b[m]

SetFields(cfg) == {f \in Fields : cfg[f] # Unset}

\* The slots that have something to send; of an interface's own, only those
\* of the one whose control command was sent last.
Due(s, inVif) ==
  IF ~s.reset THEN {}
  ELSE {ResetSlot}
       \cup {x \in {PowerSlot} : s.power # Unset}
       \cup {CtrlSlot(v) : v \in {u \in Vifs : s.mode[u] # NoMode}}
       \cup {CfgSlot(v) : v \in {u \in Vifs \cap {inVif} :
                                  SetFields(s.cfg[u]) # {}}}
       \cup {TxqSlot(x[1], x[2]) :
               x \in {y \in (Vifs \cap {inVif}) \X Queues :
                        s.txq[y[1]][y[2]] # Unset}}
       \cup {KeySlot(x[1], x[2]) :
               x \in {y \in (Vifs \cap {inVif}) \X KeyIds :
                        s.key[y[1]][y[2]] # NoKey}}
       \cup {x \in {ChannelSlot} : s.channel # Unset}
       \cup {McstSlot(i) : i \in DOMAIN s.mcst}
       \cup {x \in {FilterSlot} : s.filter # Unset}

\* The command saved for a slot.
Recall(s, x) ==
  CASE x[1] = 1 -> Reset("ENABLE")
    [] x[1] = 2 -> TxPower(s.power)
    [] x[1] = 3 /\ x[3] = 0 -> VifCtrl(x[2], s.mode[x[2]], "ADD")
    [] x[1] = 3 /\ x[3] = 1 ->
         VifCfg(x[2], [f \in SetFields(s.cfg[x[2]]) |-> s.cfg[x[2]][f]])
    [] x[1] = 3 /\ x[3] = 2 -> TxqParams(x[2], x[4], s.txq[x[2]][x[4]])
    [] x[1] = 3 /\ x[3] = 3 ->
         LET k == s.key[x[2]][x[4]]
         IN PeerKey(x[2], "ADD", x[4], k.holder, k.val)
    [] x[1] = 4 -> Channel(s.channel)
    [] x[1] = 5 -> McstAddrCfg(s.mcst[x[4]], "ADD")
    [] x[1] = 6 -> McstFilterControl(s.filter)

\* The part of the configuration a slot, and a command, is about.
ItemOfSlot(x) == SubSeq(x, 1, 3)

VifItems(v) == {<<3, v, part>> : part \in 0 .. 3}

ItemsOfCommand(c) ==
  CASE c.id = "RESET"          -> {<<n, 0, 0>> : n \in {1, 2, 4, 5, 6}}
                                  \cup UNION {VifItems(v) : v \in Vifs}
    [] c.id = "TX_POWER"       -> {<<2, 0, 0>>}
    [] c.id = "VIF_CTRL"       -> VifItems(c.vif)
    [] c.id = "VIF_CFG"        -> {<<3, c.vif, 1>>}
    [] c.id = "TXQ_PARAMS"     -> {<<3, c.vif, 2>>}
    [] c.id = "SETKEY"         -> {<<3, c.vif, 3>>}
    [] c.id = "CHANNEL"        -> {<<4, 0, 0>>}
    [] c.id = "MCST_ADDR_CFG"  -> {<<5, 0, 0>>}
    [] c.id = "MCST_FLTR_CTRL" -> {<<6, 0, 0>>}

-----------------------------------------------------------------------------
(* The transmit thread saves and writes.                                   *)

\* Key indices of which a key was set or removed while another station had
\* one, since their interface came.
NextShared(sh, now, c) ==
  CASE c.id = "RESET"    -> IF c.type = "ENABLE" THEN {} ELSE sh
    [] c.id = "VIF_CTRL" -> {x \in sh : x[1] # c.vif}
    [] c.id = "SETKEY"   ->
         IF \E p \in KeyHolders \ {c.holder} :
              now.vif[c.vif].key[c.key][p] # Unset
         THEN sh \cup {<<c.vif, c.key>>} ELSE sh
    [] OTHER             -> sh

\* Mutant of TxSave: hal_disabled is looked at before the command is saved.
TxSaveIfEnabled ==
  /\ txPc = "taken"
  /\ saved' = IF halDisabled THEN saved ELSE Save(saved, txCmd)
  /\ ideal' = Apply(ideal, txCmd)
  /\ shared' = NextShared(shared, ideal, txCmd)
  /\ stale' = stale
  /\ txPc' = IF halDisabled THEN "asleep" ELSE "saved"
  /\ txCmd' = IF halDisabled THEN NoCmd ELSE txCmd
  /\ UNCHANGED <<envVars, held, txq>>

TxSave ==
  /\ txPc = "taken"
  /\ saved' = Save(saved, txCmd)
  /\ ideal' = Apply(ideal, txCmd)
  /\ shared' = NextShared(shared, ideal, txCmd)
  /\ stale' = IF held # NoCmd
              THEN stale \cup ({ItemOfSlot(recSlot)} \cap ItemsOfCommand(txCmd))
              ELSE stale
  /\ txPc' = IF halDisabled THEN "asleep" ELSE "saved"
  /\ txCmd' = IF halDisabled THEN NoCmd ELSE txCmd
  /\ UNCHANGED <<envVars, held, txq>>

\* rk915_data_write; what is written to dead firmware is lost.
TxWrite ==
  /\ txPc = "saved"
  /\ fw' = IF alive THEN Apply(fw, txCmd) ELSE fw
  /\ txPc' = "loop" /\ txCmd' = NoCmd
  /\ UNCHANGED <<hostVars, halDisabled, recVars, histVars, txq, saved,
                 alive, deaths>>

-----------------------------------------------------------------------------
(* The death of the firmware, and fw_err_work_fn.                          *)

workVars == <<hostVars, txVars, histVars, txq, saved, deaths>>

\* An error is signalled: fw_error_processing is set, the work is queued. It
\* is not while a recovery is under way.
FwDie ==
  /\ recPc = "idle" /\ state # "off" /\ deaths < MaxDeaths
  /\ deaths' = deaths + 1
  /\ alive' = FALSE /\ fw' = Booted
  /\ recPc' = "down"
  /\ UNCHANGED <<hostVars, txVars, histVars, txq, saved, halDisabled, recSlot,
                 recVif, held, stale>>

\* The worker tears the firmware down, ...
WorkDown ==
  /\ recPc = "down"
  /\ halDisabled' = TRUE
  /\ recPc' = "up"
  /\ UNCHANGED <<workVars, fw, alive, recSlot, recVif, held, stale>>

\* ... boots it, lets commands through again, and begins to send.
WorkUp ==
  /\ recPc = "up"
  /\ alive' = TRUE /\ fw' = Booted
  /\ halDisabled' = FALSE
  /\ recPc' = "send" /\ recSlot' = Slot(0, 0, 0, 0) /\ recVif' = -1
  /\ stale' = {}
  /\ UNCHANGED <<workVars, held>>

Remaining == {x \in Due(saved, recVif) : Before(recSlot, x)}
NextSlot == CHOOSE x \in Remaining : \A y \in Remaining : y = x \/ Before(x, y)

Resent(stage, v, part) == <<stage, v, part>> \notin stale

\* The reset could not be copied: the worker waits for its answer all the
\* same.
Waits == ~Resent(1, 0, 0) /\ recSlot = Slot(0, 0, 0, 0)

Sending == recPc = "send" /\ held = NoCmd /\ Remaining # {} /\ ~Waits

InterfaceOf(x) == IF x[1] = 3 THEN x[2] ELSE recVif

\* cmd_send copies the next command that is due, ...
WorkCopy ==
  /\ Sending
  /\ recSlot' = NextSlot /\ recVif' = InterfaceOf(NextSlot)
  /\ held' = Recall(saved, NextSlot)
  /\ UNCHANGED <<workVars, fw, alive, halDisabled, recPc, stale>>

\* ... or finds no memory for the copy, and says nothing of it.
WorkSkip ==
  /\ Sending /\ failures < MaxFailures
  /\ failures' = failures + 1
  /\ stale' = stale \cup {ItemOfSlot(NextSlot)}
  /\ IF NextSlot = ResetSlot
     THEN UNCHANGED <<recSlot, recVif>>
     ELSE recSlot' = NextSlot /\ recVif' = InterfaceOf(NextSlot)
  /\ UNCHANGED <<state, mode, edca, mcFilters, mcCount, keys, ops, txVars,
                 histVars, txq, saved, deaths, fw, alive, halDisabled, recPc,
                 held>>

\* A reset of the transmit thread's is answered, in place of the worker's.
WorkReleased ==
  /\ recPc = "send" /\ held = NoCmd /\ Waits /\ fw.on
  /\ recSlot' = ResetSlot
  /\ UNCHANGED <<workVars, fw, alive, halDisabled, recPc, recVif, held, stale>>

\* ... writes it, and waits for the firmware's acknowledgement.
WorkWrite ==
  /\ recPc = "send" /\ held # NoCmd
  /\ fw' = Apply(fw, held)
  /\ held' = NoCmd
  /\ UNCHANGED <<workVars, alive, halDisabled, recPc, recSlot, recVif, stale>>

\* fw_error_processing is cleared.
WorkDone ==
  /\ recPc = "send" /\ held = NoCmd /\ Remaining = {}
  /\ recPc' = "idle" /\ recSlot' = Slot(0, 0, 0, 0) /\ recVif' = -1
  /\ UNCHANGED <<workVars, fw, alive, halDisabled, held, stale>>

-----------------------------------------------------------------------------

Init ==
  /\ state = "off"
  /\ mode = [v \in Vifs |-> NoMode]
  /\ edca = [v \in Vifs |-> NoEdca]
  /\ mcFilters = [n \in 1 .. McstAddrLimit |-> "none"] /\ mcCount = 0
  /\ keys = {}
  /\ ops = 0 /\ failures = 0 /\ deaths = 0
  /\ txq = <<>> /\ txPc = "asleep" /\ txCmd = NoCmd
  /\ halDisabled = TRUE
  /\ saved = NothingSaved
  /\ fw = Booted /\ alive = TRUE
  /\ recPc = "idle" /\ recSlot = Slot(0, 0, 0, 0) /\ recVif = -1
  /\ held = NoCmd
  /\ ideal = Booted /\ stale = {} /\ shared = {}

HostNext ==
  \/ Start \/ StopBegin \/ StopEnd
  \/ \E m \in UsedModes : AddInterface(m)
  \/ \E v \in Vifs : RemoveInterface(v)
  \/ \E v \in Vifs, m \in UsedModes : ChangeInterface(v, m)
  \/ \E changed \in ConfChanges : Config(changed)
  \/ \E list \in McLists : PrepareMulticast(list)
  \/ \E changed \in BOOLEAN : ConfigureFilter(changed)
  \/ \E v \in Vifs, q \in Queues : ConfVifTx(v, q)
  \/ \E v \in Vifs, k \in KeyIds, p \in KeyHolders : SetKey(v, k, p)
  \/ \E key \in keys : DisableKey(key)
  \/ \E v \in Vifs, changed \in BssChanges, assoc \in BOOLEAN :
       BssInfoChanged(v, changed, assoc)

Next ==
  \/ HostNext
  \/ TxWake \/ TxRest \/ TxTake \/ TxSave \/ TxWrite
  \/ FwDie \/ WorkDown \/ WorkUp \/ WorkCopy \/ WorkSkip \/ WorkReleased
  \/ WorkWrite \/ WorkDone

Spec == Init /\ [][Next]_vars

-----------------------------------------------------------------------------
(* Properties.                                                             *)

Vals == Nat

TypeOK ==
  /\ state \in {"off", "on", "stopping"}
  /\ mode \in [Vifs -> Modes \cup {NoMode}]
  /\ edca \in [Vifs -> [Queues -> Vals]]
  /\ mcFilters \in [1 .. McstAddrLimit -> Addrs \cup {"none"}]
  /\ mcCount \in 0 .. McstAddrLimit
  /\ keys \subseteq [vif : Vifs, key : KeyIds, holder : KeyHolders]
  /\ {ops, failures, deaths} \subseteq Nat
  /\ txPc \in {"asleep", "loop", "taken", "saved"}
  /\ (txCmd = NoCmd) <=> txPc \in {"asleep", "loop"}
  /\ halDisabled \in BOOLEAN /\ alive \in BOOLEAN
  /\ saved.mcst \in Seq(Addrs) /\ Len(saved.mcst) <= McstAddrLimit
  /\ saved.mode \in [Vifs -> Modes \cup {NoMode}]
  /\ \A f \in {fw, ideal} : f.mcst \subseteq Addrs
  /\ recPc \in {"idle", "down", "up", "send"}
  /\ held # NoCmd => recPc = "send"
  /\ shared \subseteq Vifs \X KeyIds

\* The interface is up, nothing is under way between what has been saved and
\* what the firmware has got, and the reset of this session has been saved.
Settled ==
  /\ state = "on" /\ recPc = "idle" /\ alive /\ txPc # "saved"
  /\ ideal.on /\ saved.reset

\* After any number of recoveries the firmware is on, with the power, channel
\* and multicast filter of a firmware that never died, whatever was dropped
\* or lost on the way (save_fw_recovery_cmd before the test of hal_disabled,
\* hal.c) - but for a setting that the worker had no memory to copy, or that
\* was saved while it was about to write an older one.
GlobalsRestored ==
  Settled =>
    /\ fw.on
    /\ Resent(2, 0, 0) => fw.power = ideal.power
    /\ Resent(4, 0, 0) => fw.channel = ideal.channel
    /\ Resent(6, 0, 0) => fw.filter = ideal.filter

\* It has the same interfaces, each with every parameter and queue the host
\* has set since the interface was added; it may have more, which an earlier
\* interface of the index has left (the IF_REM case of hal.c).
InterfacesRestored ==
  Settled =>
    \A v \in Vifs : Resent(3, v, 0) =>
      /\ fw.vif[v].mode = ideal.vif[v].mode
      /\ HasVif(ideal, v) =>
           /\ Resent(3, v, 1) => \A f \in SetFields(ideal.vif[v].cfg) :
                fw.vif[v].cfg[f] = ideal.vif[v].cfg[f]
           /\ Resent(3, v, 2) => \A q \in Queues :
                ideal.vif[v].txq[q] # Unset =>
                  fw.vif[v].txq[q] = ideal.vif[v].txq[q]

\* It has exactly the keys the host has left installed, for the indices that
\* only one station has had at a time: the saved keys are one per index,
\* whosever they are (setkey_param, hal.c).
KeysRestored ==
  Settled /\ failures = 0 =>
    \A v \in Vifs, k \in KeyIds :
      (/\ Resent(3, v, 0) /\ Resent(3, v, 3)
       /\ HasVif(ideal, v) /\ <<v, k>> \notin shared)
      => fw.vif[v].key[k] = ideal.vif[v].key[k]

\* It has the multicast addresses of the last list, when no allocation has
\* failed and no address command is on its way: any removal forgets all the
\* saved addresses, which is right because prepare_multicast removes all.
McstPending ==
  \/ txPc = "taken" /\ txCmd.id = "MCST_ADDR_CFG"
  \/ \E n \in DOMAIN txq : txq[n].id = "MCST_ADDR_CFG"

MulticastRestored ==
  Settled /\ failures = 0 /\ ~McstPending /\ Resent(5, 0, 0)
    => fw.mcst = ideal.mcst

\* What has been saved agrees at every moment with what a firmware that
\* never died would have (save_fw_recovery_cmd, hal.c): the three properties
\* above without the worker.
TracksVif(s, now, sh, v) ==
  /\ s.mode[v] = now.vif[v].mode
  /\ HasVif(now, v) =>
       /\ \A f \in Fields : now.vif[v].cfg[f] # Unset =>
            s.cfg[v][f] = now.vif[v].cfg[f]
       /\ \A q \in Queues : now.vif[v].txq[q] # Unset =>
            s.txq[v][q] = now.vif[v].txq[q]
       /\ \A k \in KeyIds, p \in KeyHolders :
            <<v, k>> \notin sh /\ now.vif[v].key[k][p] # Unset =>
              s.key[v][k] = [holder |-> p, val |-> now.vif[v].key[k][p]]

Tracks(s, now, sh) ==
  now.on /\ s.reset =>
    /\ s.power = now.power
    /\ s.channel = now.channel
    /\ s.filter = now.filter
    /\ \A v \in Vifs : TracksVif(s, now, sh, v)

SavedTracksIdeal == Tracks(saved, ideal, shared)
=============================================================================
