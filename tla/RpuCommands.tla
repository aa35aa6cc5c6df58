------------------------------ MODULE RpuCommands ------------------------------
(***************************************************************************)
(* The configuration commands of the host: how rpu_if.c builds them, what  *)
(* the firmware makes of them, which of them save_fw_recovery_cmd (hal.c)  *)
(* remembers, and which of them send_fw_recovery_cmd sends again after the *)
(* firmware has died.                                                      *)
(*                                                                         *)
(* A parameter is a number: Unset when no command has given it, Zeroed     *)
(* when the host sent a structure it had only cleared, otherwise a mark of *)
(* the request that chose it, so that two requests never send equal values.*)
(***************************************************************************)
EXTENDS Integers, Sequences, FiniteSets

CONSTANTS
  Vifs,            \* interface indices, 0 .. MAX_VIFS - 1
  Queues,          \* transmit queues of an interface that have parameters
  KeyIds,          \* key indices
  Peers,           \* stations a pairwise key can be for
  Addrs,           \* multicast addresses
  McstAddrLimit,   \* MCST_ADDR_LIMIT
  NoMode           \* "this index has no interface"

Unset  == 0
Zeroed == 1

Modes == {"STA_BSS", "STA_IBSS", "AP"}

\* The MAC address of a group key (0xff in rpu_prog_if_key).
Broadcast == "broadcast"
KeyHolders == Peers \cup {Broadcast}

\* The parameters a VIF_CFG command can change, one bit each.
Fields == {"basic_rate_set", "use_short_slot", "atim_window", "aid",
           "capability", "short_retry", "long_retry", "bssid", "bcn_mode",
           "beacon_interval", "dtim_period", "smps_info", "connect_state",
           "op_channel"}

ASSUME CommandsAssumption ==
  /\ 0 \in Vifs /\ Vifs \subseteq Nat /\ IsFiniteSet(Vifs)
  /\ Queues \subseteq Nat /\ IsFiniteSet(Queues) /\ KeyIds \subseteq Nat
  /\ McstAddrLimit \in Nat
  /\ NoMode \notin Modes
  /\ Broadcast \notin Peers

-----------------------------------------------------------------------------
(* The builders (rpu_if.c).                                                *)

Reset(type)              == [id |-> "RESET", type |-> type]
TxPower(x)               == [id |-> "TX_POWER", val |-> x]
VifCtrl(v, mode, op)     == [id |-> "VIF_CTRL", vif |-> v, mode |-> mode,
                             ctrl |-> op]
McstAddrCfg(addr, op)    == [id |-> "MCST_ADDR_CFG", addr |-> addr, op |-> op]
McstFilterControl(x)     == [id |-> "MCST_FLTR_CTRL", val |-> x]
Channel(x)               == [id |-> "CHANNEL", val |-> x]
TxqParams(v, q, x)       == [id |-> "TXQ_PARAMS", vif |-> v, queue |-> q,
                             val |-> x]
PeerKey(v, op, k, p, x)  == [id |-> "SETKEY", vif |-> v, ctrl |-> op,
                             key |-> k, holder |-> p, val |-> x]
IfKey(v, op, k, x)       == PeerKey(v, op, k, Broadcast, x)

\* One VIF_CFG command: the parameters in its changed_bitmap and their values.
VifCfg(v, set)           == [id |-> "VIF_CFG", vif |-> v, set |-> set]
Change(v, field, x)      == VifCfg(v, [f \in {field} |-> x])

VifShortSlot(v, x)       == Change(v, "use_short_slot", x)
LongRetry(v, x)          == Change(v, "long_retry", x)
ShortRetry(v, x)         == Change(v, "short_retry", x)
VifBasicRates(v, x)      == Change(v, "basic_rate_set", x)
VifAid(v, x)             == Change(v, "aid", x)
VifOpChannel(v, x)       == Change(v, "op_channel", x)
VifConnState(v, x)       == Change(v, "connect_state", x)
VifAssocCap(v, x)        == Change(v, "capability", x)
VifBeaconInt(v, x)       == Change(v, "beacon_interval", x)
VifDtimPeriod(v, x)      == Change(v, "dtim_period", x)
VifBssid(v, x)           == Change(v, "bssid", x)
VifSmps(v, x)            == Change(v, "smps_info", x)
\* The structure is cleared and no index is set: always interface 0.
RcvBcnMode(x)            == Change(0, "bcn_mode", x)

-----------------------------------------------------------------------------
(* The firmware: what it holds, and what a command does to it. It is not   *)
(* part of the repository; this is how the host uses it: RESET(ENABLE)     *)
(* starts from nothing, RESET(DISABLE) stops, IF_ADD makes a new interface,*)
(* VIF_CFG changes the parameters of its bitmap, a key is held per index   *)
(* and per station, and nothing is configured that is not there.           *)

NewVif(mode) == [mode |-> mode,
                 cfg  |-> [f \in Fields |-> Unset],
                 txq  |-> [q \in Queues |-> Unset],
                 key  |-> [k \in KeyIds |-> [p \in KeyHolders |-> Unset]]]

Booted == [on |-> FALSE, power |-> Unset, channel |-> Unset,
           filter |-> Unset, mcst |-> {}, vif |-> [v \in Vifs |-> NewVif(NoMode)]]

HasVif(fw, v) == fw.vif[v].mode # NoMode

Merge(cfg, set) ==
  [f \in Fields |-> IF f \in DOMAIN set THEN set[f] ELSE cfg[f]]

ApplyReset(fw, c) ==
  IF c.type = "ENABLE" THEN [Booted EXCEPT !.on = TRUE]
                       ELSE [fw EXCEPT !.on = FALSE]

ApplyVifCtrl(fw, c) ==
  [fw EXCEPT !.vif[c.vif] = NewVif(IF c.ctrl = "ADD" THEN c.mode ELSE NoMode)]

ApplyToVif(fw, c) ==
  CASE c.id = "VIF_CFG"    -> [fw EXCEPT !.vif[c.vif].cfg = Merge(@, c.set)]
    [] c.id = "TXQ_PARAMS" -> [fw EXCEPT !.vif[c.vif].txq[c.queue] = c.val]
    [] c.id = "SETKEY"     -> [fw EXCEPT !.vif[c.vif].key[c.key][c.holder] =
                                 IF c.ctrl = "ADD" THEN c.val ELSE Unset]
    [] OTHER               -> fw

ApplyGlobal(fw, c) ==
  CASE c.id = "TX_POWER"       -> [fw EXCEPT !.power = c.val]
    [] c.id = "CHANNEL"        -> [fw EXCEPT !.channel = c.val]
    [] c.id = "MCST_FLTR_CTRL" -> [fw EXCEPT !.filter = c.val]
    [] c.id = "MCST_ADDR_CFG"  -> [fw EXCEPT !.mcst =
                                     IF c.op = "ADD" THEN @ \cup {c.addr}
                                                     ELSE @ \ {c.addr}]

GlobalIds == {"TX_POWER", "CHANNEL", "MCST_FLTR_CTRL", "MCST_ADDR_CFG"}

Apply(fw, c) ==
  IF c.id = "RESET" THEN ApplyReset(fw, c)
  ELSE IF ~fw.on THEN fw
  ELSE IF c.id \in GlobalIds THEN ApplyGlobal(fw, c)
  ELSE IF c.id = "VIF_CTRL" THEN ApplyVifCtrl(fw, c)
  ELSE IF HasVif(fw, c.vif) THEN ApplyToVif(fw, c)
  ELSE fw

-----------------------------------------------------------------------------
(* g_lpw_recovery_param (hal.c): the last command of each kind. The flag   *)
(* bits and the *_valid words say only which entries are set, which Unset, *)
(* NoMode and NoKey say here.                                              *)

NoKey == [holder |-> Broadcast, val |-> Unset]

NothingSaved ==
  [reset |-> FALSE, power |-> Unset, channel |-> Unset, filter |-> Unset,
   mcst  |-> <<>>,
   mode  |-> [v \in Vifs |-> NoMode],
   cfg   |-> [v \in Vifs |-> [f \in Fields |-> Unset]],
   txq   |-> [v \in Vifs |-> [q \in Queues |-> Unset]],
   key   |-> [v \in Vifs |-> [k \in KeyIds |-> NoKey]]]

\* Mutant of SaveReset: a reset keeps what was saved before it.
SaveResetKeeps(s, c) ==
  IF c.type = "ENABLE" THEN [s EXCEPT !.reset = TRUE] ELSE s

\* A DISABLE reset is not saved: what was saved before it stays.
SaveReset(s, c) ==
  IF c.type = "ENABLE" THEN [NothingSaved EXCEPT !.reset = TRUE] ELSE s

\* IF_REM forgets the control command and nothing else of the interface.
SaveVifCtrl(s, c) ==
  [s EXCEPT !.mode[c.vif] = IF c.ctrl = "ADD" THEN c.mode ELSE NoMode]

\* Mutant of SaveVifCfg: a later command replaces the whole record.
SaveVifCfgLast(s, c) ==
  [s EXCEPT !.cfg[c.vif] = Merge([f \in Fields |-> Unset], c.set)]

SaveVifCfg(s, c) == [s EXCEPT !.cfg[c.vif] = Merge(@, c.set)]

SaveTxqParams(s, c) == [s EXCEPT !.txq[c.vif][c.queue] = c.val]

\* Mutant of SaveMcstAddrCfg: a removal is ignored.
SaveMcstAddrCfgAdds(s, c) ==
  IF c.op = "ADD" /\ Len(s.mcst) < McstAddrLimit
  THEN [s EXCEPT !.mcst = Append(@, c.addr)]
  ELSE s

\* Any removal forgets all the addresses.
SaveMcstAddrCfg(s, c) ==
  IF c.op = "REM" THEN [s EXCEPT !.mcst = <<>>]
  ELSE IF Len(s.mcst) < McstAddrLimit THEN [s EXCEPT !.mcst = Append(@, c.addr)]
  ELSE s

\* Mutant of SaveSetKey: a removed key stays saved.
SaveSetKeyAdds(s, c) ==
  IF c.ctrl = "ADD"
  THEN [s EXCEPT !.key[c.vif][c.key] = [holder |-> c.holder, val |-> c.val]]
  ELSE s

\* One key per index, whosever it is.
SaveSetKey(s, c) ==
  [s EXCEPT !.key[c.vif][c.key] =
     IF c.ctrl = "ADD" THEN [holder |-> c.holder, val |-> c.val] ELSE NoKey]

Save(s, c) ==
  CASE c.id = "RESET"          -> SaveReset(s, c)
    [] c.id = "TX_POWER"       -> [s EXCEPT !.power = c.val]
    [] c.id = "CHANNEL"        -> [s EXCEPT !.channel = c.val]
    [] c.id = "MCST_FLTR_CTRL" -> [s EXCEPT !.filter = c.val]
    [] c.id = "MCST_ADDR_CFG"  -> SaveMcstAddrCfg(s, c)
    [] c.id = "VIF_CTRL"       -> SaveVifCtrl(s, c)
    [] c.id = "VIF_CFG"        -> SaveVifCfg(s, c)
    [] c.id = "TXQ_PARAMS"     -> SaveTxqParams(s, c)
    [] c.id = "SETKEY"         -> SaveSetKey(s, c)
    [] OTHER                   -> s
=============================================================================
