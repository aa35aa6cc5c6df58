--------------------------- MODULE SavedConfig_proofs ---------------------------
(***************************************************************************)
(* What the transmit thread saves, and what the recovery worker makes of   *)
(* the firmware, against a firmware that never died: for any number of     *)
(* interfaces, queues, keys, stations and addresses, any calls, and any    *)
(* order of the two threads' steps.                                        *)
(*                                                                         *)
(* In order: what is saved agrees with that firmware; the effect of a      *)
(* command slot by slot; the order of the slots the worker goes through;   *)
(* the copy it holds; the globals and the interfaces after a recovery; the *)
(* queue of commands; the keys; the multicast addresses.                   *)
(***************************************************************************)
EXTENDS SavedConfig, WellFoundedInduction, SequenceTheorems,
        FiniteSetTheorems, TLAPS

\* The fields and indices of the saved record and of the firmware, with
\* their values in V.
SavedType(V) ==
  [reset : BOOLEAN, power : V, channel : V, filter : V, mcst : V,
   mode : [Vifs -> V],
   cfg  : [Vifs -> [Fields -> V]],
   txq  : [Vifs -> [Queues -> V]],
   key  : [Vifs -> [KeyIds -> [holder : V, val : V]]]]

VifType(V) ==
  [mode : V, cfg : [Fields -> V], txq : [Queues -> V],
   key : [KeyIds -> [KeyHolders -> V]]]

FwType(V) ==
  [on : BOOLEAN, power : V, channel : V, filter : V, mcst : V,
   vif : [Vifs -> VifType(V)]]

\* V holds what a command can put into them.
Covers(V, c) ==
  /\ {NoMode, Unset, Broadcast, <<>>, {}} \subseteq V
  /\ {c.val, c.mode, c.holder} \subseteq V
  /\ \A f \in DOMAIN c.set : c.set[f] \in V

LEMMA BootedType ==
  ASSUME NEW V, {NoMode, Unset, Broadcast, <<>>, {}} \subseteq V
  PROVE  Booted \in FwType(V) /\ NothingSaved \in SavedType(V)
<1>1. NewVif(NoMode) \in VifType(V)
  BY DEF NewVif, VifType
<1>2. Booted \in FwType(V)
  BY <1>1 DEF Booted, FwType
<1>3. NoKey \in [holder : V, val : V]
  BY DEF NoKey
<1>4. NothingSaved \in SavedType(V)
  BY <1>3 DEF NothingSaved, SavedType
<1> QED BY <1>2, <1>4

LEMMA MergeType ==
  ASSUME NEW V, NEW cfg \in [Fields -> V], NEW set,
         \A f \in DOMAIN set : set[f] \in V
  PROVE  Merge(cfg, set) \in [Fields -> V]
  BY DEF Merge

\* Saving a command keeps the shape.
LEMMA SaveType ==
  ASSUME NEW V, NEW s \in SavedType(V), NEW c, Covers(V, c),
         Append(s.mcst, c.addr) \in V
  PROVE  Save(s, c) \in SavedType(V)
<1>1. CASE c.id = "RESET"
  <2>1. [NothingSaved EXCEPT !.reset = TRUE] \in SavedType(V)
    BY BootedType DEF SavedType, Covers
  <2> QED BY <1>1, <2>1 DEF Save, SaveReset
<1>2. CASE c.id \in {"TX_POWER", "CHANNEL", "MCST_FLTR_CTRL"}
  BY <1>2 DEF Save, SavedType, Covers
<1>3. CASE c.id = "MCST_ADDR_CFG"
  BY <1>3 DEF Save, SaveMcstAddrCfg, SavedType, Covers
<1>4. CASE c.id = "VIF_CTRL"
  BY <1>4 DEF Save, SaveVifCtrl, SavedType, Covers
<1>5. CASE c.id = "VIF_CFG"
  <2> DEFINE n == Merge(s.cfg[c.vif], c.set)
             g == [s.cfg EXCEPT ![c.vif] = n]
  <2>1. Save(s, c) = [s EXCEPT !.cfg = g]
    BY <1>5 DEF Save, SaveVifCfg, SavedType
  <2>2. s.cfg \in [Vifs -> [Fields -> V]]
    BY DEF SavedType
  <2>3. c.vif \in Vifs => n \in [Fields -> V]
    BY <2>2, MergeType DEF Covers
  <2> HIDE DEF n
  <2>4. g \in [Vifs -> [Fields -> V]]
    BY <2>2, <2>3
  <2> HIDE DEF g
  <2> QED BY <2>1, <2>4 DEF SavedType
<1>6. CASE c.id = "TXQ_PARAMS"
  BY <1>6 DEF Save, SaveTxqParams, SavedType, Covers
<1>7. CASE c.id = "SETKEY"
  BY <1>7 DEF Save, SaveSetKey, SavedType, Covers, NoKey
<1>8. CASE c.id \notin {"RESET", "TX_POWER", "CHANNEL", "MCST_FLTR_CTRL",
                       "MCST_ADDR_CFG", "VIF_CTRL", "VIF_CFG", "TXQ_PARAMS",
                       "SETKEY"}
  BY <1>8 DEF Save
<1> QED BY <1>1, <1>2, <1>3, <1>4, <1>5, <1>6, <1>7, <1>8

\* Replacing one interface of the firmware, or none.
LEMMA PutVif ==
  ASSUME NEW V, NEW x \in FwType(V), NEW v, NEW y, v \in Vifs => y \in VifType(V)
  PROVE  [x EXCEPT !.vif[v] = y] \in FwType(V)
<1> DEFINE g == [x.vif EXCEPT ![v] = y]
<1>1. [x EXCEPT !.vif[v] = y] = [x EXCEPT !.vif = g]
  BY DEF FwType
<1>2. x.vif \in [Vifs -> VifType(V)]
  BY DEF FwType
<1>3. g \in [Vifs -> VifType(V)]
  BY <1>2
<1> HIDE DEF g
<1> QED BY <1>1, <1>3 DEF FwType

\* Applying a command keeps the shape.
LEMMA ApplyType ==
  ASSUME NEW V, NEW x \in FwType(V), NEW c, Covers(V, c),
         x.mcst \cup {c.addr} \in V, x.mcst \ {c.addr} \in V
  PROVE  Apply(x, c) \in FwType(V)
<1>0. c.val \in V /\ c.mode \in V /\ NoMode \in V /\ Unset \in V
  BY DEF Covers
<1>1. CASE c.id = "RESET"
  <2>1. [Booted EXCEPT !.on = TRUE] \in FwType(V)
    BY BootedType DEF FwType, Covers
  <2>2. [x EXCEPT !.on = FALSE] \in FwType(V)
    BY DEF FwType
  <2> QED BY <1>1, <2>1, <2>2 DEF Apply, ApplyReset
<1>2. CASE c.id \in GlobalIds
  <2>1. ApplyGlobal(x, c) \in FwType(V)
    BY <1>0, <1>2 DEF ApplyGlobal, GlobalIds, FwType
  <2> QED BY <1>2, <2>1 DEF Apply, GlobalIds
<1>3. CASE c.id = "VIF_CTRL"
  <2>1. \A m \in V : NewVif(m) \in VifType(V)
    BY <1>0 DEF NewVif, VifType
  <2>2. ApplyVifCtrl(x, c) \in FwType(V)
    BY <1>0, <2>1 DEF ApplyVifCtrl, FwType
  <2> QED BY <1>3, <2>2 DEF Apply, GlobalIds
<1>4. CASE c.id \notin GlobalIds \cup {"RESET", "VIF_CTRL"}
  <2> DEFINE w == x.vif[c.vif]
             Put(y) == [x EXCEPT !.vif[c.vif] = y]
             k == IF c.ctrl = "ADD" THEN c.val ELSE Unset
             w1 == [w EXCEPT !.cfg = Merge(w.cfg, c.set)]
             w2 == [w EXCEPT !.txq[c.queue] = c.val]
             w3 == [w EXCEPT !.key[c.key][c.holder] = k]
  <2>1. ASSUME c.vif \in Vifs
        PROVE  {w1, w2, w3} \subseteq VifType(V)
    <3>1. w \in VifType(V)
      BY <2>1 DEF FwType
    <3>2. Merge(w.cfg, c.set) \in [Fields -> V]
      BY <3>1, MergeType DEF VifType, Covers
    <3>3. w1 \in VifType(V)
      BY <3>1, <3>2 DEF VifType
    <3>4. w2 \in VifType(V)
      BY <3>1, <1>0 DEF VifType
    <3>5. w3 \in VifType(V)
      BY <3>1, <1>0 DEF VifType
    <3> QED BY <3>3, <3>4, <3>5
  <2>2. /\ c.id = "VIF_CFG"    => ApplyToVif(x, c) = Put(w1)
        /\ c.id = "TXQ_PARAMS" => ApplyToVif(x, c) = Put(w2)
        /\ c.id = "SETKEY"     => ApplyToVif(x, c) = Put(w3)
        /\ c.id \notin {"VIF_CFG", "TXQ_PARAMS", "SETKEY"} =>
             ApplyToVif(x, c) = x
    BY DEF ApplyToVif, FwType
  <2>3. Put(w1) \in FwType(V) /\ Put(w2) \in FwType(V) /\ Put(w3) \in FwType(V)
    BY <2>1, PutVif
  <2> HIDE DEF Put, w1, w2, w3
  <2>4. ApplyToVif(x, c) \in FwType(V)
    BY <2>2, <2>3
  <2> QED BY <2>4, <1>4 DEF Apply
<1> QED BY <1>1, <1>2, <1>3, <1>4 DEF GlobalIds

\* One command taken by the transmit thread keeps the agreement.
LEMMA TracksStep ==
  ASSUME NEW V, NEW s \in SavedType(V), NEW x \in FwType(V), NEW sh, NEW c,
         Covers(V, c), Tracks(s, x, sh)
  PROVE  Tracks(Save(s, c), Apply(x, c), NextShared(sh, x, c))
<1> DEFINE t == Save(s, c)
           y == Apply(x, c)
           shn == NextShared(sh, x, c)
<1>1. CASE c.id = "RESET"
  <2>1. CASE c.type = "ENABLE"
    <3>1. t = [NothingSaved EXCEPT !.reset = TRUE]
      BY <1>1, <2>1 DEF Save, SaveReset
    <3>2. y = [Booted EXCEPT !.on = TRUE]
      BY <1>1, <2>1 DEF Apply, ApplyReset
    <3> QED
      BY <3>1, <3>2 DEF Tracks, TracksVif, NothingSaved, Booted, NewVif, HasVif
  <2>2. CASE c.type # "ENABLE"
    <3>1. ~y.on
      BY <1>1, <2>2 DEF Apply, ApplyReset, FwType
    <3> QED BY <3>1 DEF Tracks
  <2> QED BY <2>1, <2>2
<1>2. CASE c.id # "RESET"
  <2>1. t.reset = s.reset
    BY <1>2 DEF Save, SaveMcstAddrCfg, SaveVifCtrl, SaveVifCfg, SaveTxqParams,
                SaveSetKey, SavedType
  <2>2. y.on = x.on
    BY <1>2 DEF Apply, ApplyGlobal, ApplyVifCtrl, ApplyToVif, FwType, GlobalIds
  <2> SUFFICES ASSUME x.on, s.reset
               PROVE  /\ t.power = y.power
                      /\ t.channel = y.channel
                      /\ t.filter = y.filter
                      /\ \A v \in Vifs : TracksVif(t, y, shn, v)
    BY <2>1, <2>2 DEF Tracks
  <2>3. /\ s.power = x.power /\ s.channel = x.channel /\ s.filter = x.filter
        /\ \A v \in Vifs : TracksVif(s, x, sh, v)
    BY DEF Tracks
  <2>4. CASE c.id \in GlobalIds
    <3>1. /\ t.mode = s.mode /\ t.cfg = s.cfg /\ t.txq = s.txq /\ t.key = s.key
          /\ y.vif = x.vif /\ shn = sh
      BY <2>4 DEF Save, SaveMcstAddrCfg, Apply, ApplyGlobal, GlobalIds,
                  SavedType, FwType, NextShared
    <3>2. t.power = y.power /\ t.channel = y.channel /\ t.filter = y.filter
      BY <2>3, <2>4 DEF Save, SaveMcstAddrCfg, Apply, ApplyGlobal, GlobalIds,
                        SavedType, FwType
    <3> QED BY <2>3, <3>1, <3>2 DEF TracksVif, HasVif
  <2>5. CASE c.id \notin GlobalIds
    <3>1. t.power = s.power /\ t.channel = s.channel /\ t.filter = s.filter
      BY <1>2, <2>5 DEF Save, SaveVifCtrl, SaveVifCfg, SaveTxqParams,
                        SaveSetKey, SavedType, GlobalIds
    <3>2. y.power = x.power /\ y.channel = x.channel /\ y.filter = x.filter
      BY <1>2, <2>5 DEF Apply, ApplyVifCtrl, ApplyToVif, FwType, GlobalIds
    <3>3. ASSUME NEW v \in Vifs
          PROVE  TracksVif(t, y, shn, v)
      <4> DEFINE w == x.vif[v]
      <4>0. w \in VifType(V) /\ TracksVif(s, x, sh, v)
        BY <2>3 DEF FwType
      <4>1. CASE c.id = "VIF_CTRL"
        <5> DEFINE m == IF c.ctrl = "ADD" THEN c.mode ELSE NoMode
        <5>1. t = [s EXCEPT !.mode[c.vif] = m]
          BY <4>1 DEF Save, SaveVifCtrl
        <5>2. y = [x EXCEPT !.vif[c.vif] = NewVif(m)]
          BY <4>1 DEF Apply, ApplyVifCtrl, GlobalIds
        <5> HIDE DEF m
        <5>3. CASE c.vif = v
          <6>1. t.mode[v] = m /\ y.vif[v] = NewVif(m)
            BY <5>1, <5>2, <5>3 DEF SavedType, FwType
          <6> QED BY <6>1 DEF TracksVif, NewVif
        <5>4. CASE c.vif # v
          <6>1. /\ t.mode[v] = s.mode[v] /\ t.cfg = s.cfg /\ t.txq = s.txq
                /\ t.key = s.key /\ y.vif[v] = w
            BY <5>1, <5>2, <5>4 DEF SavedType, FwType
          <6>2. \A k \in KeyIds : <<v, k>> \notin shn => <<v, k>> \notin sh
            BY <4>1, <5>4 DEF NextShared
          <6> QED BY <6>1, <6>2, <4>0 DEF TracksVif, HasVif
        <5> QED BY <5>3, <5>4
      <4>2. CASE c.id # "VIF_CTRL" /\ c.vif # v
        <5>1. y.vif[v] = w
          BY <4>2, <1>2, <2>5 DEF Apply, ApplyToVif, FwType
        <5>2. /\ t.mode = s.mode /\ t.cfg[v] = s.cfg[v]
              /\ t.txq[v] = s.txq[v] /\ t.key[v] = s.key[v]
          BY <4>2, <1>2, <2>5 DEF Save, SaveVifCfg, SaveTxqParams, SaveSetKey,
                                  SavedType, GlobalIds
        <5>3. \A k \in KeyIds : <<v, k>> \notin shn => <<v, k>> \notin sh
          BY <4>2, <1>2 DEF NextShared
        <5> QED BY <5>1, <5>2, <5>3, <4>0 DEF TracksVif, HasVif
      <4>3. CASE c.id # "VIF_CTRL" /\ c.vif = v /\ ~HasVif(x, v)
        <5>1. y = x
          BY <4>3, <1>2, <2>5 DEF Apply
        <5>2. t.mode = s.mode
          BY <4>3, <1>2, <2>5 DEF Save, SaveVifCfg, SaveTxqParams, SaveSetKey,
                                  SavedType, GlobalIds
        <5> QED BY <5>1, <5>2, <4>0, <4>3 DEF TracksVif
      <4>4. CASE c.id # "VIF_CTRL" /\ c.vif = v /\ HasVif(x, v)
        <5>1. y = ApplyToVif(x, c) /\ t.mode = s.mode
          BY <4>4, <1>2, <2>5 DEF Apply, Save, SaveVifCfg, SaveTxqParams,
                                  SaveSetKey, SavedType, GlobalIds
        <5>2. CASE c.id = "VIF_CFG"
          <6>1. /\ y.vif[v] = [w EXCEPT !.cfg = Merge(@, c.set)]
                /\ t = [s EXCEPT !.cfg[v] = Merge(@, c.set)] /\ shn = sh
            BY <5>1, <5>2, <4>4 DEF ApplyToVif, FwType, Save, SaveVifCfg,
                                    NextShared
          <6>2. /\ y.vif[v].cfg = Merge(w.cfg, c.set)
                /\ y.vif[v].txq = w.txq /\ y.vif[v].key = w.key
                /\ y.vif[v].mode = w.mode
            BY <6>1, <4>0 DEF VifType
          <6>3. t.cfg[v] = Merge(s.cfg[v], c.set) /\ t.txq = s.txq /\ t.key = s.key
            BY <6>1 DEF SavedType
          <6> HIDE DEF t, y, shn
          <6> QED BY SMTT(30), <5>1, <6>1, <6>2, <6>3, <4>0, <4>4 DEF TracksVif, HasVif, Merge
        <5>3. CASE c.id = "TXQ_PARAMS"
          <6>1. /\ y.vif[v] = [w EXCEPT !.txq[c.queue] = c.val]
                /\ t = [s EXCEPT !.txq[v][c.queue] = c.val] /\ shn = sh
            BY <5>1, <5>3, <4>4 DEF ApplyToVif, FwType, Save, SaveTxqParams,
                                    NextShared
          <6>2. /\ y.vif[v].txq = [w.txq EXCEPT ![c.queue] = c.val]
                /\ y.vif[v].cfg = w.cfg /\ y.vif[v].key = w.key
                /\ y.vif[v].mode = w.mode
            BY <6>1, <4>0 DEF VifType
          <6>3. /\ t.txq[v] = [s.txq[v] EXCEPT ![c.queue] = c.val]
                /\ t.cfg = s.cfg /\ t.key = s.key
            BY <6>1 DEF SavedType
          <6>4. w.txq \in [Queues -> V] /\ s.txq[v] \in [Queues -> V]
            BY <4>0 DEF VifType, SavedType
          <6> HIDE DEF t, y, shn
          <6> QED BY SMTT(30), <5>1, <6>1, <6>2, <6>3, <6>4, <4>0, <4>4 DEF TracksVif, HasVif
        <5>4. CASE c.id = "SETKEY"
          <6> DEFINE e == IF c.ctrl = "ADD" THEN c.val ELSE Unset
                     n == IF c.ctrl = "ADD"
                          THEN [holder |-> c.holder, val |-> c.val] ELSE NoKey
          <6>1. /\ y.vif[v] = [w EXCEPT !.key[c.key][c.holder] = e]
                /\ t = [s EXCEPT !.key[v][c.key] = n]
            BY <5>1, <5>4, <4>4 DEF ApplyToVif, FwType, Save, SaveSetKey
          <6>2. /\ y.vif[v].key = [w.key EXCEPT ![c.key][c.holder] = e]
                /\ y.vif[v].cfg = w.cfg /\ y.vif[v].txq = w.txq
                /\ y.vif[v].mode = w.mode
            BY <6>1, <4>0 DEF VifType
          <6>3. /\ t.key[v] = [s.key[v] EXCEPT ![c.key] = n]
                /\ t.cfg = s.cfg /\ t.txq = s.txq
            BY <6>1 DEF SavedType
          <6>4. /\ w.key \in [KeyIds -> [KeyHolders -> V]]
                /\ s.key[v] \in [KeyIds -> [holder : V, val : V]]
            BY <4>0 DEF VifType, SavedType
          <6>5. ASSUME NEW k \in KeyIds, NEW p \in KeyHolders,
                       <<v, k>> \notin shn, y.vif[v].key[k][p] # Unset
                PROVE  t.key[v][k] = [holder |-> p, val |-> y.vif[v].key[k][p]]
            <7>1. <<v, k>> \notin sh
              BY <6>5, <5>4 DEF NextShared
            <7>2. CASE k # c.key
              <8>1. y.vif[v].key[k] = w.key[k] /\ t.key[v][k] = s.key[v][k]
                BY <7>2, <6>2, <6>3, <6>4
              <8>2. w.key[k][p] # Unset =>
                      s.key[v][k] = [holder |-> p, val |-> w.key[k][p]]
                BY <7>1, <4>0, <4>4 DEF TracksVif
              <8> HIDE DEF t, y, shn
              <8> QED BY <8>1, <8>2, <6>5
            <7>3. CASE k = c.key
              <8>1. \A q \in KeyHolders \ {c.holder} : w.key[k][q] = Unset
                BY <6>5, <5>4, <4>4, <7>3 DEF NextShared
              <8>2. p = c.holder
                BY <8>1, <6>2, <6>4, <6>5, <7>3
              <8>3. t.key[v][k] = n
                BY <6>3, <6>4, <7>3
              <8>4. w.key[k] \in [KeyHolders -> V]
                BY <6>4
              <8>5. y.vif[v].key[k] = [w.key[k] EXCEPT ![p] = e]
                BY <8>2, <6>2, <6>4, <7>3
              <8>6. y.vif[v].key[k][p] = e
                BY <8>4, <8>5
              <8>7. c.ctrl = "ADD"
                BY <8>6, <6>5
              <8> QED BY <8>2, <8>3, <8>6, <8>7
            <7> QED BY <7>2, <7>3
          <6>6. t.mode[v] = y.vif[v].mode
            BY <5>1, <6>2, <4>0 DEF TracksVif
          <6> HIDE DEF t, y, shn
          <6>7. \A f \in Fields : y.vif[v].cfg[f] # Unset =>
                   t.cfg[v][f] = y.vif[v].cfg[f]
            BY <6>2, <6>3, <4>0, <4>4 DEF TracksVif
          <6>8. \A q \in Queues : y.vif[v].txq[q] # Unset =>
                   t.txq[v][q] = y.vif[v].txq[q]
            BY <6>2, <6>3, <4>0, <4>4 DEF TracksVif
          <6> QED BY <6>5, <6>6, <6>7, <6>8 DEF TracksVif
        <5>5. CASE c.id \notin {"VIF_CFG", "TXQ_PARAMS", "SETKEY"}
          <6>1. y = x /\ t = s /\ shn = sh
            BY <5>1, <5>5, <4>4, <1>2, <2>5 DEF ApplyToVif, Save, NextShared,
                                                GlobalIds
          <6> QED BY <6>1, <4>0
        <5> QED BY <5>2, <5>3, <5>4, <5>5
      <4> QED BY <4>1, <4>2, <4>3, <4>4
    <3> QED BY <2>3, <3>1, <3>2, <3>3
  <2> QED BY <2>4, <2>5
<1> QED BY <1>1, <1>2

-----------------------------------------------------------------------------

\* The records have their shape, for some set of values.
Shaped ==
  \E V : saved \in SavedType(V) /\ ideal \in FwType(V)

LEMMA TypeWiden ==
  ASSUME NEW V, NEW W, V \subseteq W
  PROVE  SavedType(V) \subseteq SavedType(W) /\ FwType(V) \subseteq FwType(W)
<1>1. ASSUME NEW S PROVE [S -> V] \subseteq [S -> W]
  OBVIOUS
<1>2. SavedType(V) \subseteq SavedType(W)
  <2>1. \A f \in [Vifs -> [Fields -> V]] : f \in [Vifs -> [Fields -> W]]
    OBVIOUS
  <2>2. \A f \in [Vifs -> [Queues -> V]] : f \in [Vifs -> [Queues -> W]]
    OBVIOUS
  <2>3. \A f \in [Vifs -> [KeyIds -> [holder : V, val : V]]] :
          f \in [Vifs -> [KeyIds -> [holder : W, val : W]]]
    OBVIOUS
  <2> QED BY <2>1, <2>2, <2>3 DEF SavedType
<1>3. VifType(V) \subseteq VifType(W)
  BY DEF VifType
<1>4. FwType(V) \subseteq FwType(W)
  BY <1>3 DEF FwType
<1> QED BY <1>2, <1>4

LEMMA InitTracks == Init => Shaped /\ SavedTracksIdeal
<1> SUFFICES ASSUME Init PROVE Shaped /\ SavedTracksIdeal
  OBVIOUS
<1>1. saved = NothingSaved /\ ideal = Booted
  BY DEF Init
<1>2. Shaped
  BY <1>1, BootedType DEF Shaped
<1>3. SavedTracksIdeal
  BY <1>1 DEF SavedTracksIdeal, Tracks, Booted
<1> QED BY <1>2, <1>3

LEMMA StepTracks ==
  Shaped /\ SavedTracksIdeal /\ [Next]_vars => Shaped' /\ SavedTracksIdeal'
<1> SUFFICES ASSUME Shaped, SavedTracksIdeal, [Next]_vars
             PROVE  Shaped' /\ SavedTracksIdeal'
  OBVIOUS
<1>1. PICK V : saved \in SavedType(V) /\ ideal \in FwType(V)
  BY DEF Shaped
<1>2. ASSUME UNCHANGED <<saved, ideal, shared>>
      PROVE  Shaped' /\ SavedTracksIdeal'
  BY <1>2 DEF Shaped, SavedTracksIdeal
<1>3. CASE Start
  <2> DEFINE W == V \cup {NoMode, Unset, Broadcast, <<>>, {}}
  <2>1. saved' = NothingSaved /\ ideal' = ideal
    BY <1>3 DEF Start, histVars
  <2>2. NothingSaved \in SavedType(W)
    BY BootedType
  <2>3. ideal \in FwType(W)
    BY <1>1, TypeWiden
  <2>4. Shaped'
    BY <2>1, <2>2, <2>3 DEF Shaped
  <2>5. SavedTracksIdeal'
    BY <2>1 DEF SavedTracksIdeal, Tracks, NothingSaved
  <2> QED BY <2>4, <2>5
<1>4. CASE TxSave
  <2> DEFINE c == txCmd
             W == V \cup {NoMode, Unset, Broadcast, <<>>, {}}
                    \cup {c.val, c.mode, c.holder}
                    \cup {c.set[f] : f \in DOMAIN c.set}
                    \cup {Append(saved.mcst, c.addr), ideal.mcst \cup {c.addr},
                          ideal.mcst \ {c.addr}}
  <2>1. /\ saved' = Save(saved, c) /\ ideal' = Apply(ideal, c)
        /\ shared' = NextShared(shared, ideal, c)
    BY <1>4 DEF TxSave
  <2>2. saved \in SavedType(W) /\ ideal \in FwType(W)
    BY <1>1, TypeWiden
  <2>3. Covers(W, c)
    BY DEF Covers
  <2>4. saved' \in SavedType(W)
    BY <2>1, <2>2, <2>3, SaveType
  <2>5. ideal' \in FwType(W)
    BY <2>1, <2>2, <2>3, ApplyType
  <2>6. Tracks(saved', ideal', shared')
    BY <2>1, <2>2, <2>3, TracksStep DEF SavedTracksIdeal
  <2> QED BY <2>4, <2>5, <2>6 DEF Shaped, SavedTracksIdeal
<1>5. CASE HostNext /\ ~Start
  BY <1>2, <1>5 DEF HostNext, StopBegin, StopEnd, AddInterface,
     RemoveInterface, ChangeInterface, Config, PrepareMulticast,
     ConfigureFilter, ConfVifTx, SetEdcaParams, SetKey, DisableKey, BssInfoChanged,
     otherVars, histVars
<1>6. CASE \/ TxWake \/ TxRest \/ TxTake \/ TxWrite \/ FwDie \/ WorkDown
           \/ WorkUp \/ WorkCopy \/ WorkSkip \/ WorkReleased
           \/ WorkWrite \/ WorkDone
  BY <1>2, <1>6 DEF TxWake, TxRest, TxTake, TxWrite, FwDie, WorkDown, WorkUp,
     WorkCopy, WorkSkip, WorkReleased, WorkWrite, WorkDone, workVars, histVars
<1>7. CASE UNCHANGED vars
  BY <1>2, <1>7 DEF vars, histVars
<1> QED BY <1>3, <1>4, <1>5, <1>6, <1>7 DEF Next

\* The saved configuration agrees with that of a firmware that never died
\* (save_fw_recovery_cmd, hal.c), for every number of interfaces, queues,
\* keys and stations and every sequence of commands.
THEOREM SavedTracks == Spec => []SavedTracksIdeal
<1>1. Spec => [](Shaped /\ SavedTracksIdeal)
  BY InitTracks, StepTracks, PTL DEF Spec
<1> QED BY <1>1, PTL

-----------------------------------------------------------------------------
(* What a command other than a reset does to a firmware that is on, slot   *)
(* by slot.                                                                *)

Fresh == [Booted EXCEPT !.on = TRUE]

ModeOf(c) == IF c.ctrl = "ADD" THEN c.mode ELSE NoMode

VifEffect(n, o, c, v) ==
  /\ n.mode = IF c.id = "VIF_CTRL" /\ c.vif = v THEN ModeOf(c) ELSE o.mode
  /\ \A f \in Fields :
       n.cfg[f] = IF c.id = "VIF_CTRL" /\ c.vif = v THEN Unset
                  ELSE IF /\ c.id = "VIF_CFG" /\ c.vif = v /\ o.mode # NoMode
                          /\ f \in DOMAIN c.set
                  THEN c.set[f] ELSE o.cfg[f]
  /\ \A q \in Queues :
       n.txq[q] = IF c.id = "VIF_CTRL" /\ c.vif = v THEN Unset
                  ELSE IF /\ c.id = "TXQ_PARAMS" /\ c.vif = v
                          /\ o.mode # NoMode /\ c.queue = q
                  THEN c.val ELSE o.txq[q]
  /\ \A k \in KeyIds, p \in KeyHolders :
       n.key[k][p] = IF c.id = "VIF_CTRL" /\ c.vif = v THEN Unset
                     ELSE IF /\ c.id = "SETKEY" /\ c.vif = v
                             /\ o.mode # NoMode /\ c.key = k /\ c.holder = p
                     THEN IF c.ctrl = "ADD" THEN c.val ELSE Unset
                     ELSE o.key[k][p]

Effect(y, x, c) ==
  /\ y.on = x.on
  /\ y.power = IF c.id = "TX_POWER" THEN c.val ELSE x.power
  /\ y.channel = IF c.id = "CHANNEL" THEN c.val ELSE x.channel
  /\ y.filter = IF c.id = "MCST_FLTR_CTRL" THEN c.val ELSE x.filter
  /\ y.mcst = IF c.id # "MCST_ADDR_CFG" THEN x.mcst
              ELSE IF c.op = "ADD" THEN x.mcst \cup {c.addr}
                                   ELSE x.mcst \ {c.addr}
  /\ \A v \in Vifs : VifEffect(y.vif[v], x.vif[v], c, v)

LEMMA ApplyEffect ==
  ASSUME NEW V, NEW x \in FwType(V), NEW c, x.on, c.id # "RESET"
  PROVE  Effect(Apply(x, c), x, c)
<1> DEFINE y == Apply(x, c)
<1>0. \A v \in Vifs : x.vif[v] \in VifType(V)
  BY DEF FwType
<1>1. CASE c.id \in GlobalIds
  <2>1. y = ApplyGlobal(x, c)
    BY <1>1 DEF Apply, GlobalIds
  <2>2. y.vif = x.vif /\ y.on = x.on
    BY <1>1, <2>1 DEF ApplyGlobal, GlobalIds, FwType
  <2>3. \A v \in Vifs : VifEffect(y.vif[v], x.vif[v], c, v)
    BY <1>1, <2>2 DEF VifEffect, GlobalIds
  <2>4. /\ y.power = IF c.id = "TX_POWER" THEN c.val ELSE x.power
        /\ y.channel = IF c.id = "CHANNEL" THEN c.val ELSE x.channel
        /\ y.filter = IF c.id = "MCST_FLTR_CTRL" THEN c.val ELSE x.filter
    BY <1>1, <2>1 DEF ApplyGlobal, GlobalIds, FwType
  <2>5. y.mcst = IF c.id # "MCST_ADDR_CFG" THEN x.mcst
                 ELSE IF c.op = "ADD" THEN x.mcst \cup {c.addr}
                                      ELSE x.mcst \ {c.addr}
    BY <1>1, <2>1 DEF ApplyGlobal, GlobalIds, FwType
  <2> QED BY <2>2, <2>3, <2>4, <2>5 DEF Effect
<1>2. CASE c.id \notin GlobalIds
  <2>1. /\ y.on = x.on /\ y.power = x.power /\ y.channel = x.channel
        /\ y.filter = x.filter /\ y.mcst = x.mcst
    BY <1>2 DEF Apply, ApplyVifCtrl, ApplyToVif, FwType
  <2>2. ASSUME NEW v \in Vifs
        PROVE  VifEffect(y.vif[v], x.vif[v], c, v)
    <3> DEFINE o == x.vif[v]
    <3>1. CASE c.id = "VIF_CTRL"
      <4>1. y = [x EXCEPT !.vif[c.vif] = NewVif(ModeOf(c))]
        BY <1>2, <3>1 DEF Apply, ApplyVifCtrl, ModeOf
      <4>2. CASE c.vif = v
        <5>1. y.vif[v] = NewVif(ModeOf(c))
          BY <4>1, <4>2 DEF FwType
        <5> QED BY <3>1, <4>2, <5>1 DEF VifEffect, NewVif
      <4>3. CASE c.vif # v
        <5>1. y.vif[v] = o
          BY <4>1, <4>3 DEF FwType
        <5> QED BY <3>1, <4>3, <5>1 DEF VifEffect
      <4> QED BY <4>2, <4>3
    <3>2. CASE c.id # "VIF_CTRL" /\ (c.vif # v \/ o.mode = NoMode)
      <4>1. y.vif[v] = o
        BY <1>2, <3>2 DEF Apply, ApplyToVif, FwType, HasVif
      <4> QED BY <3>2, <4>1 DEF VifEffect
    <3>3. CASE c.id # "VIF_CTRL" /\ c.vif = v /\ o.mode # NoMode
      <4>1. y = ApplyToVif(x, c)
        BY <1>2, <3>3 DEF Apply, HasVif
      <4>2. CASE c.id = "VIF_CFG"
        <5>1. y.vif[v] = [o EXCEPT !.cfg = Merge(@, c.set)]
          BY <4>1, <4>2, <3>3 DEF ApplyToVif, FwType
        <5>2. /\ y.vif[v].cfg = Merge(o.cfg, c.set)
              /\ y.vif[v].txq = o.txq /\ y.vif[v].key = o.key
              /\ y.vif[v].mode = o.mode
          BY <5>1, <1>0 DEF VifType
        <5> QED BY <3>3, <4>2, <5>2 DEF VifEffect, Merge
      <4>3. CASE c.id = "TXQ_PARAMS"
        <5>1. y.vif[v] = [o EXCEPT !.txq[c.queue] = c.val]
          BY <4>1, <4>3, <3>3 DEF ApplyToVif, FwType
        <5>2. /\ y.vif[v].txq = [o.txq EXCEPT ![c.queue] = c.val]
              /\ y.vif[v].cfg = o.cfg /\ y.vif[v].key = o.key
              /\ y.vif[v].mode = o.mode /\ o.txq \in [Queues -> V]
          BY <5>1, <1>0 DEF VifType
        <5> QED BY <3>3, <4>3, <5>2 DEF VifEffect
      <4>4. CASE c.id = "SETKEY"
        <5> DEFINE e == IF c.ctrl = "ADD" THEN c.val ELSE Unset
        <5>1. y.vif[v] = [o EXCEPT !.key[c.key][c.holder] = e]
          BY <4>1, <4>4, <3>3 DEF ApplyToVif, FwType
        <5>2. /\ y.vif[v].key = [o.key EXCEPT ![c.key][c.holder] = e]
              /\ y.vif[v].cfg = o.cfg /\ y.vif[v].txq = o.txq
              /\ y.vif[v].mode = o.mode
              /\ o.key \in [KeyIds -> [KeyHolders -> V]]
          BY <5>1, <1>0 DEF VifType
        <5>3. \A k \in KeyIds, p \in KeyHolders :
                y.vif[v].key[k][p] = IF c.key = k /\ c.holder = p THEN e
                                                             ELSE o.key[k][p]
          BY <5>2
        <5>4. /\ c.id # "VIF_CFG" /\ c.id # "TXQ_PARAMS"
              /\ y.vif[v].mode = o.mode /\ y.vif[v].cfg = o.cfg
              /\ y.vif[v].txq = o.txq
          BY <4>4, <5>2
        <5> HIDE DEF y, e
        <5>5. \A k \in KeyIds, p \in KeyHolders :
                y.vif[v].key[k][p] =
                  IF c.id = "SETKEY" /\ c.vif = v /\ o.mode # NoMode /\ c.key = k
                     /\ c.holder = p
                  THEN e ELSE o.key[k][p]
          BY <3>3, <4>4, <5>3
        <5> QED BY <3>3, <4>4, <5>4, <5>5 DEF VifEffect, e
      <4>5. CASE c.id \notin {"VIF_CFG", "TXQ_PARAMS", "SETKEY"}
        <5>1. y = x
          BY <4>1, <4>5 DEF ApplyToVif
        <5> QED BY <3>3, <4>5, <5>1 DEF VifEffect
      <4> QED BY <4>2, <4>3, <4>4, <4>5
    <3> QED BY <3>1, <3>2, <3>3
  <2> QED BY <1>2, <2>1, <2>2 DEF Effect, GlobalIds
<1> QED BY <1>1, <1>2

\* A firmware that is off takes a reset only.
LEMMA ApplyOff ==
  ASSUME NEW x, NEW c, ~x.on, c.id # "RESET"
  PROVE  Apply(x, c) = x
  BY DEF Apply

LEMMA ApplyReset_ ==
  ASSUME NEW V, NEW x \in FwType(V), NEW c, c.id = "RESET"
  PROVE  /\ c.type = "ENABLE" => Apply(x, c) = Fresh
         /\ c.type # "ENABLE" => ~Apply(x, c).on
  BY DEF Apply, ApplyReset, Fresh, FwType

LEMMA FreshSlots ==
  /\ Fresh.on /\ ~Booted.on
  /\ \A x \in {Fresh, Booted} :
       /\ x.power = Unset /\ x.channel = Unset /\ x.filter = Unset
       /\ x.mcst = {}
       /\ \A v \in Vifs :
            /\ x.vif[v].mode = NoMode
            /\ \A f \in Fields : x.vif[v].cfg[f] = Unset
            /\ \A q \in Queues : x.vif[v].txq[q] = Unset
            /\ \A k \in KeyIds, p \in KeyHolders : x.vif[v].key[k][p] = Unset
<1>1. /\ Fresh.on /\ Fresh.power = Booted.power
      /\ Fresh.channel = Booted.channel /\ Fresh.filter = Booted.filter
      /\ Fresh.mcst = Booted.mcst /\ Fresh.vif = Booted.vif
  BY DEF Fresh, Booted
<1>2. /\ ~Booted.on /\ Booted.power = Unset /\ Booted.channel = Unset
      /\ Booted.filter = Unset /\ Booted.mcst = {}
      /\ \A v \in Vifs : Booted.vif[v] = NewVif(NoMode)
  BY DEF Booted
<1>3. LET n == NewVif(NoMode)
      IN  /\ n.mode = NoMode
          /\ \A f \in Fields : n.cfg[f] = Unset
          /\ \A q \in Queues : n.txq[q] = Unset
          /\ \A k \in KeyIds, p \in KeyHolders : n.key[k][p] = Unset
  BY DEF NewVif
<1> QED BY <1>1, <1>2, <1>3

-----------------------------------------------------------------------------
(* The order of the slots.                                                 *)

Slots == Nat \X Nat \X Nat \X Nat

LEMMA BeforeIs ==
  ASSUME NEW a \in Slots, NEW b \in Slots
  PROVE  Before(a, b) <=>
           \/ a[1] < b[1]
           \/ a[1] = b[1] /\ a[2] < b[2]
           \/ a[1] = b[1] /\ a[2] = b[2] /\ a[3] < b[3]
           \/ a[1] = b[1] /\ a[2] = b[2] /\ a[3] = b[3] /\ a[4] < b[4]
<1>0. 1 .. 4 = {1, 2, 3, 4}
  OBVIOUS
<1>1. Before(a, b) <=>
        \/ a[1] < b[1] /\ \A m \in 1 .. 1 - 1 : a[m] = b[m]
        \/ a[2] < b[2] /\ \A m \in 1 .. 2 - 1 : a[m] = b[m]
        \/ a[3] < b[3] /\ \A m \in 1 .. 3 - 1 : a[m] = b[m]
        \/ a[4] < b[4] /\ \A m \in 1 .. 4 - 1 : a[m] = b[m]
  BY <1>0 DEF Before
<1>2. /\ 1 .. 1 - 1 = {} /\ 1 .. 2 - 1 = {1}
      /\ 1 .. 3 - 1 = {1, 2} /\ 1 .. 4 - 1 = {1, 2, 3}
  OBVIOUS
<1> QED BY <1>1, <1>2

LEMMA SlotEquality ==
  ASSUME NEW a \in Slots, NEW b \in Slots
  PROVE  a = b <=> /\ a[1] = b[1] /\ a[2] = b[2] /\ a[3] = b[3] /\ a[4] = b[4]
  BY DEF Slots

LEMMA BeforeOrders ==
  ASSUME NEW a \in Slots, NEW b \in Slots
  PROVE  /\ a = b \/ Before(a, b) \/ Before(b, a)
         /\ ~(Before(a, b) /\ Before(b, a))
         /\ ~Before(a, a)
<1>1. /\ a[1] \in Nat /\ a[2] \in Nat /\ a[3] \in Nat /\ a[4] \in Nat
      /\ b[1] \in Nat /\ b[2] \in Nat /\ b[3] \in Nat /\ b[4] \in Nat
  BY DEF Slots
<1> QED BY <1>1, BeforeIs, SlotEquality

LEMMA BeforeTransitive ==
  ASSUME NEW a \in Slots, NEW b \in Slots, NEW c \in Slots,
         Before(a, b), Before(b, c)
  PROVE  Before(a, c)
<1>1. /\ a[1] \in Nat /\ a[2] \in Nat /\ a[3] \in Nat /\ a[4] \in Nat
      /\ b[1] \in Nat /\ b[2] \in Nat /\ b[3] \in Nat /\ b[4] \in Nat
      /\ c[1] \in Nat /\ c[2] \in Nat /\ c[3] \in Nat /\ c[4] \in Nat
  BY DEF Slots
<1> QED BY <1>1, BeforeIs

LEMMA LeastNumber ==
  ASSUME NEW S \in SUBSET Nat, S # {}
  PROVE  \E n \in S : \A m \in S : n <= m
<1> DEFINE R == OpToRel(<, Nat)
<1>1. IsWellFoundedOn(R, Nat)
  BY NatLessThanWellFounded
<1> HIDE DEF R
<1>2. PICK n \in S : \A m \in S : ~(<<m, n>> \in R)
  BY <1>1, WFMin
<1>3. ASSUME NEW m \in S, m < n
      PROVE  FALSE
  <2>1. <<m, n>> \in R
    BY <1>3, Zenon DEF R, OpToRel
  <2> QED BY <1>2, <2>1
<1>4. \A m \in S : ~(m < n)
  BY <1>3
<1> QED BY <1>4

\* Every set of slots has a first one.
LEMMA FirstSlot ==
  ASSUME NEW S \in SUBSET Slots, S # {}
  PROVE  \E x \in S : \A y \in S : y = x \/ Before(x, y)
<1> DEFINE A(n) == {x[n] : x \in S}
<1>t. \A x \in S : x[1] \in Nat /\ x[2] \in Nat /\ x[3] \in Nat /\ x[4] \in Nat
  BY DEF Slots
<1>1. PICK x1 \in S : \A y \in S : x1[1] <= y[1]
  <2>1. {x[1] : x \in S} \in SUBSET Nat /\ {x[1] : x \in S} # {}
    BY <1>t
  <2>2. PICK n \in {x[1] : x \in S} : \A m \in {x[1] : x \in S} : n <= m
    BY <2>1, LeastNumber
  <2> QED BY <2>2
<1>2. PICK x2 \in {x \in S : x[1] = x1[1]} :
        \A y \in {x \in S : x[1] = x1[1]} : x2[2] <= y[2]
  <2> DEFINE T == {x \in S : x[1] = x1[1]}
             N == {x[2] : x \in T}
  <2>1. N \in SUBSET Nat /\ N # {}
    BY <1>t
  <2>2. PICK n \in N : \A m \in N : n <= m
    BY <2>1, LeastNumber
  <2> QED BY <2>2
<1>3. PICK x3 \in {x \in S : x[1] = x1[1] /\ x[2] = x2[2]} :
        \A y \in {x \in S : x[1] = x1[1] /\ x[2] = x2[2]} : x3[3] <= y[3]
  <2> DEFINE T == {x \in S : x[1] = x1[1] /\ x[2] = x2[2]}
             N == {x[3] : x \in T}
  <2>1. N \in SUBSET Nat /\ N # {}
    BY <1>t
  <2>2. PICK n \in N : \A m \in N : n <= m
    BY <2>1, LeastNumber
  <2> QED BY <2>2
<1>4. PICK x4 \in {x \in S : x[1] = x1[1] /\ x[2] = x2[2] /\ x[3] = x3[3]} :
        \A y \in {x \in S : x[1] = x1[1] /\ x[2] = x2[2] /\ x[3] = x3[3]} :
          x4[4] <= y[4]
  <2> DEFINE T == {x \in S : x[1] = x1[1] /\ x[2] = x2[2] /\ x[3] = x3[3]}
             N == {x[4] : x \in T}
  <2>1. N \in SUBSET Nat /\ N # {}
    BY <1>t
  <2>2. PICK n \in N : \A m \in N : n <= m
    BY <2>1, LeastNumber
  <2> QED BY <2>2
<1>5. ASSUME NEW y \in S
      PROVE  y = x4 \/ Before(x4, y)
  <2>1. x4 \in Slots /\ y \in Slots
    OBVIOUS
  <2>2. /\ y[1] \in Nat /\ y[2] \in Nat /\ y[3] \in Nat /\ y[4] \in Nat
        /\ x4[1] \in Nat /\ x4[2] \in Nat /\ x4[3] \in Nat /\ x4[4] \in Nat
    BY <1>t
  <2>3. /\ x4[1] <= y[1]
        /\ y[1] = x4[1] => x4[2] <= y[2]
        /\ y[1] = x4[1] /\ y[2] = x4[2] => x4[3] <= y[3]
        /\ y[1] = x4[1] /\ y[2] = x4[2] /\ y[3] = x4[3] => x4[4] <= y[4]
    BY <1>1, <1>2, <1>3, <1>4
  <2> QED BY <2>1, <2>2, <2>3, BeforeIs, SlotEquality
<1> QED BY <1>5

-----------------------------------------------------------------------------
(* What the worker finds due, what it passes, and what it passes over.     *)

\* A slot with something to send, and the reason.
IsDue(s, w, x) ==
  \/ x = ResetSlot
  \/ x = PowerSlot /\ s.power # Unset
  \/ \E v \in Vifs : x = CtrlSlot(v) /\ s.mode[v] # NoMode
  \/ \E v \in Vifs : x = CfgSlot(v) /\ v = w /\ SetFields(s.cfg[v]) # {}
  \/ \E v \in Vifs, q \in Queues :
       x = TxqSlot(v, q) /\ v = w /\ s.txq[v][q] # Unset
  \/ \E v \in Vifs, k \in KeyIds :
       x = KeySlot(v, k) /\ v = w /\ s.key[v][k] # NoKey
  \/ x = ChannelSlot /\ s.channel # Unset
  \/ \E i \in DOMAIN s.mcst : x = McstSlot(i)
  \/ x = FilterSlot /\ s.filter # Unset

LEMMA DueIs ==
  ASSUME NEW s, NEW w, NEW x
  PROVE  x \in Due(s, w) <=> s.reset /\ IsDue(s, w, x)
<1>1. CASE ~s.reset
  BY <1>1 DEF Due
<1>2. CASE s.reset
  <2>1. x \in {TxqSlot(z[1], z[2]) :
                z \in {y \in (Vifs \cap {w}) \X Queues :
                         s.txq[y[1]][y[2]] # Unset}}
          <=> \E v \in Vifs, q \in Queues :
                x = TxqSlot(v, q) /\ v = w /\ s.txq[v][q] # Unset
    <3>1. ASSUME NEW v \in Vifs, NEW q \in Queues,
                 x = TxqSlot(v, q) /\ v = w /\ s.txq[v][q] # Unset
          PROVE  x \in {TxqSlot(z[1], z[2]) :
                         z \in {y \in (Vifs \cap {w}) \X Queues :
                                  s.txq[y[1]][y[2]] # Unset}}
      <4>1. <<v, q>> \in {y \in (Vifs \cap {w}) \X Queues :
                            s.txq[y[1]][y[2]] # Unset}
        BY <3>1
      <4>2. x = TxqSlot(<<v, q>>[1], <<v, q>>[2])
        BY <3>1
      <4> QED BY <4>1, <4>2
    <3> QED BY <3>1
  <2>2. x \in {KeySlot(z[1], z[2]) :
                z \in {y \in (Vifs \cap {w}) \X KeyIds :
                         s.key[y[1]][y[2]] # NoKey}}
          <=> \E v \in Vifs, k \in KeyIds :
                x = KeySlot(v, k) /\ v = w /\ s.key[v][k] # NoKey
    <3>1. ASSUME NEW v \in Vifs, NEW k \in KeyIds,
                 x = KeySlot(v, k) /\ v = w /\ s.key[v][k] # NoKey
          PROVE  x \in {KeySlot(z[1], z[2]) :
                         z \in {y \in (Vifs \cap {w}) \X KeyIds :
                                  s.key[y[1]][y[2]] # NoKey}}
      <4>1. <<v, k>> \in {y \in (Vifs \cap {w}) \X KeyIds :
                            s.key[y[1]][y[2]] # NoKey}
        BY <3>1
      <4>2. x = KeySlot(<<v, k>>[1], <<v, k>>[2])
        BY <3>1
      <4> QED BY <4>1, <4>2
    <3> QED BY <3>1
  <2>3. Due(s, w) =
          {ResetSlot}
          \cup {y \in {PowerSlot} : s.power # Unset}
          \cup {CtrlSlot(v) : v \in {u \in Vifs : s.mode[u] # NoMode}}
          \cup {CfgSlot(v) : v \in {u \in Vifs \cap {w} :
                                     SetFields(s.cfg[u]) # {}}}
          \cup {TxqSlot(z[1], z[2]) :
                  z \in {y \in (Vifs \cap {w}) \X Queues :
                           s.txq[y[1]][y[2]] # Unset}}
          \cup {KeySlot(z[1], z[2]) :
                  z \in {y \in (Vifs \cap {w}) \X KeyIds :
                           s.key[y[1]][y[2]] # NoKey}}
          \cup {y \in {ChannelSlot} : s.channel # Unset}
          \cup {McstSlot(i) : i \in DOMAIN s.mcst}
          \cup {y \in {FilterSlot} : s.filter # Unset}
    BY <1>2 DEF Due
  <2> QED BY <1>2, <2>1, <2>2, <2>3 DEF IsDue
<1> QED BY <1>1, <1>2

LEMMA DueSlots ==
  ASSUME NEW s, NEW w, NEW U, s.mcst \in Seq(U)
  PROVE  \A x \in Due(s, w) : x \in Slots /\ x[1] > 0
<1>1. DOMAIN s.mcst \subseteq Nat
  <2>1. DOMAIN s.mcst = 1 .. Len(s.mcst) /\ Len(s.mcst) \in Nat
    OBVIOUS
  <2> QED BY <2>1
<1>2. Vifs \subseteq Nat /\ Queues \subseteq Nat /\ KeyIds \subseteq Nat
  BY CommandsAssumption
<1> QED
  BY <1>1, <1>2, DueIs DEF IsDue, Slots, ResetSlot, PowerSlot, CtrlSlot,
     CfgSlot, TxqSlot, KeySlot, ChannelSlot, McstSlot, FilterSlot, Slot

\* What is due is not nothing.
LEMMA RecallSomething ==
  ASSUME NEW s, NEW w, NEW x, IsDue(s, w, x)
  PROVE  Recall(s, x) # NoCmd
<1>1. \A c : c.id \in {"RESET", "TX_POWER", "VIF_CTRL", "VIF_CFG", "TXQ_PARAMS",
                      "SETKEY", "CHANNEL", "MCST_ADDR_CFG", "MCST_FLTR_CTRL"}
             => c # NoCmd
  BY DEF NoCmd
<1> QED
  BY <1>1 DEF IsDue, Recall, Slot, ResetSlot, PowerSlot, CtrlSlot, CfgSlot,
     TxqSlot, KeySlot, ChannelSlot, McstSlot, FilterSlot, Reset, TxPower,
     VifCtrl, VifCfg, TxqParams, PeerKey, Channel, McstAddrCfg,
     McstFilterControl

Passed(x) ==
  \/ recPc = "idle" \/ Before(x, recSlot)
  \/ x = recSlot /\ held = NoCmd

\* The next slot is due, and the first that is.
LEMMA NextIsFirst ==
  ASSUME NEW U, saved.mcst \in Seq(U), recSlot \in Slots, Remaining # {}
  PROVE  /\ NextSlot \in Remaining
         /\ \A y \in Remaining : y = NextSlot \/ Before(NextSlot, y)
<1>1. Remaining \in SUBSET Slots
  BY DueSlots DEF Remaining
<1>2. \E x \in Remaining : \A y \in Remaining : y = x \/ Before(x, y)
  BY <1>1, FirstSlot
<1> QED BY <1>2 DEF NextSlot

\* What is passed was passed before, or was not due.
LEMMA PassedOver ==
  ASSUME NEW U, saved.mcst \in Seq(U), recSlot \in Slots, NEW x \in Slots,
         recPc = "send", WorkCopy \/ WorkDone, Passed(x)'
  PROVE  Passed(x) \/ x \notin Due(saved, recVif)
<1> SUFFICES ASSUME x \in Due(saved, recVif), ~Passed(x)
             PROVE  FALSE
  OBVIOUS
<1>1. held = NoCmd
  BY DEF WorkCopy, Sending, WorkDone
<1>2. x \in Remaining
  BY <1>1, BeforeOrders DEF Passed, Remaining
<1>3. WorkCopy
  BY <1>2 DEF WorkDone
<1>4. /\ NextSlot \in Remaining
      /\ \A y \in Remaining : y = NextSlot \/ Before(NextSlot, y)
  BY <1>2, NextIsFirst
<1>5. recSlot' = NextSlot /\ held' = Recall(saved, NextSlot) /\ recPc' = "send"
  BY <1>3 DEF WorkCopy
<1>6. NextSlot \in Due(saved, recVif) /\ NextSlot \in Slots
  BY <1>4, DueSlots DEF Remaining
<1>7. held' # NoCmd
  BY <1>5, <1>6, DueIs, RecallSomething
<1>8. Before(x, NextSlot)
  BY <1>5, <1>7 DEF Passed
<1> QED BY <1>2, <1>4, <1>6, <1>8, BeforeOrders

-----------------------------------------------------------------------------
(* The shape of the three configurations.                                  *)

Typed ==
  \E V : /\ saved \in SavedType(V) /\ saved.mcst \in Seq(V)
         /\ ideal \in FwType(V) /\ fw \in FwType(V)

LEMMA ApplyWidens ==
  ASSUME NEW V, NEW x \in FwType(V), NEW c
  PROVE  \E W : V \subseteq W /\ Apply(x, c) \in FwType(W)
<1> DEFINE W == V \cup {NoMode, Unset, Broadcast, <<>>, {}}
                  \cup {c.val, c.mode, c.holder}
                  \cup {c.set[f] : f \in DOMAIN c.set}
                  \cup {x.mcst \cup {c.addr}, x.mcst \ {c.addr}}
<1>1. V \subseteq W
  OBVIOUS
<1>2. Covers(W, c)
  BY DEF Covers
<1>3. x \in FwType(W)
  BY <1>1, TypeWiden
<1>4. x.mcst \cup {c.addr} \in W /\ x.mcst \ {c.addr} \in W
  OBVIOUS
<1> HIDE DEF W
<1>5. Apply(x, c) \in FwType(W)
  BY <1>2, <1>3, <1>4, ApplyType
<1> QED BY <1>1, <1>5

LEMMA SaveWidens ==
  ASSUME NEW V, NEW s \in SavedType(V), s.mcst \in Seq(V), NEW c
  PROVE  \E W : /\ V \subseteq W /\ Save(s, c) \in SavedType(W)
                /\ Save(s, c).mcst \in Seq(W)
<1> DEFINE W == V \cup {NoMode, Unset, Broadcast, <<>>, {}}
                  \cup {c.val, c.mode, c.holder, c.addr}
                  \cup {c.set[f] : f \in DOMAIN c.set}
                  \cup {Append(s.mcst, c.addr)}
<1>1. V \subseteq W /\ c.addr \in W
  OBVIOUS
<1>2. Covers(W, c)
  BY DEF Covers
<1>3. s \in SavedType(W)
  BY <1>1, TypeWiden
<1>4. Append(s.mcst, c.addr) \in W
  OBVIOUS
<1>5. s.mcst \in Seq(W)
  BY <1>1
<1> HIDE DEF W
<1>6. Save(s, c) \in SavedType(W)
  BY <1>2, <1>3, <1>4, SaveType
<1>7. Save(s, c).mcst \in {s.mcst, <<>>, Append(s.mcst, c.addr)}
  <2>1. CASE c.id \in {"RESET"}
    BY <2>1, <1>3 DEF Save, SaveReset, NothingSaved
  <2>2. CASE c.id = "MCST_ADDR_CFG"
    BY <2>2, <1>3 DEF Save, SaveMcstAddrCfg, SavedType
  <2>3. CASE c.id \notin {"RESET", "MCST_ADDR_CFG"}
    BY <2>3, <1>3 DEF Save, SaveVifCtrl, SaveVifCfg, SaveTxqParams, SaveSetKey,
                      SavedType
  <2> QED BY <2>1, <2>2, <2>3
<1>8. Append(s.mcst, c.addr) \in Seq(W) /\ <<>> \in Seq(W)
  BY <1>1, <1>5
<1> QED BY <1>1, <1>5, <1>6, <1>7, <1>8

LEMMA TypedWiden ==
  ASSUME NEW V, NEW W, V \subseteq W
  PROVE  /\ SavedType(V) \subseteq SavedType(W)
         /\ FwType(V) \subseteq FwType(W) /\ Seq(V) \subseteq Seq(W)
<1>1. \A s \in Seq(V) : s \in Seq(W)
  OBVIOUS
<1> QED BY <1>1, TypeWiden

LEMMA InitTyped == Init => Typed
<1> SUFFICES ASSUME Init PROVE Typed
  OBVIOUS
<1> DEFINE V == {NoMode, Unset, Broadcast, <<>>, {}}
<1>1. saved = NothingSaved /\ ideal = Booted /\ fw = Booted
  BY DEF Init
<1>2. Booted \in FwType(V) /\ NothingSaved \in SavedType(V)
  BY BootedType
<1>3. NothingSaved.mcst \in Seq(V)
  BY DEF NothingSaved
<1> QED BY <1>1, <1>2, <1>3 DEF Typed

LEMMA StepTyped == Typed /\ [Next]_vars => Typed'
<1> SUFFICES ASSUME Typed, [Next]_vars PROVE Typed'
  OBVIOUS
<1>1. PICK V : /\ saved \in SavedType(V) /\ saved.mcst \in Seq(V)
               /\ ideal \in FwType(V) /\ fw \in FwType(V)
  BY DEF Typed
<1> DEFINE B == V \cup {NoMode, Unset, Broadcast, <<>>, {}}
<1>b. Booted \in FwType(B) /\ NothingSaved \in SavedType(B) /\ V \subseteq B
  BY BootedType
<1>2. CASE UNCHANGED <<saved, ideal, fw>>
  BY <1>1, <1>2 DEF Typed
<1>3. CASE Start
  <2>1. saved' = NothingSaved /\ ideal' = ideal /\ fw' = fw
    BY <1>3 DEF Start, histVars
  <2>2. NothingSaved.mcst \in Seq(B)
    BY DEF NothingSaved
  <2> HIDE DEF B
  <2>3. ideal \in FwType(B) /\ fw \in FwType(B)
    BY <1>1, <1>b, TypeWiden
  <2> QED BY <1>b, <2>1, <2>2, <2>3 DEF Typed
<1>4. CASE TxSave
  <2>1. /\ saved' = Save(saved, txCmd) /\ ideal' = Apply(ideal, txCmd)
        /\ fw' = fw
    BY <1>4 DEF TxSave, envVars
  <2>2. PICK W : /\ V \subseteq W /\ Save(saved, txCmd) \in SavedType(W)
                 /\ Save(saved, txCmd).mcst \in Seq(W)
    BY <1>1, SaveWidens
  <2>3. ideal \in FwType(W) /\ fw \in FwType(W)
    BY <1>1, <2>2, TypeWiden
  <2>4. PICK X : W \subseteq X /\ Apply(ideal, txCmd) \in FwType(X)
    BY <2>3, ApplyWidens
  <2>5. /\ SavedType(W) \subseteq SavedType(X)
        /\ FwType(W) \subseteq FwType(X) /\ Seq(W) \subseteq Seq(X)
    BY <2>4, TypedWiden
  <2> QED BY <2>1, <2>2, <2>3, <2>4, <2>5 DEF Typed
<1>5. CASE TxWrite \/ WorkWrite
  <2>1. PICK c : fw' \in {fw, Apply(fw, c)} /\ saved' = saved /\ ideal' = ideal
    BY <1>5 DEF TxWrite, WorkWrite, workVars, histVars
  <2>2. PICK W : V \subseteq W /\ Apply(fw, c) \in FwType(W)
    BY <1>1, ApplyWidens
  <2>3. /\ SavedType(V) \subseteq SavedType(W)
        /\ FwType(V) \subseteq FwType(W) /\ Seq(V) \subseteq Seq(W)
    BY <2>2, TypedWiden
  <2> QED BY <1>1, <2>1, <2>2, <2>3 DEF Typed
<1>6. CASE FwDie \/ WorkUp
  <2>1. fw' = Booted /\ saved' = saved /\ ideal' = ideal
    BY <1>6 DEF FwDie, WorkUp, workVars, histVars
  <2> HIDE DEF B
  <2>2. /\ SavedType(V) \subseteq SavedType(B)
        /\ FwType(V) \subseteq FwType(B) /\ Seq(V) \subseteq Seq(B)
    BY <1>b, TypedWiden
  <2> QED BY <1>1, <1>b, <2>1, <2>2 DEF Typed
<1>7. CASE HostNext /\ ~Start
  BY <1>2, <1>7 DEF HostNext, StopBegin, StopEnd, AddInterface,
     RemoveInterface, ChangeInterface, Config, PrepareMulticast,
     ConfigureFilter, ConfVifTx, SetEdcaParams, SetKey, DisableKey,
     BssInfoChanged, otherVars, histVars
<1>8. CASE \/ TxWake \/ TxRest \/ TxTake \/ WorkDown
           \/ WorkCopy \/ WorkSkip \/ WorkReleased \/ WorkDone
  BY <1>2, <1>8 DEF TxWake, TxRest, TxTake, WorkDown, WorkCopy, WorkSkip,
     WorkReleased, WorkDone, envVars, workVars, histVars
<1>9. CASE UNCHANGED vars
  BY <1>2, <1>9 DEF vars, histVars
<1> QED BY <1>3, <1>4, <1>5, <1>6, <1>7, <1>8, <1>9 DEF Next

-----------------------------------------------------------------------------
(* The worker, and the command it holds.                                   *)

\* It has got past the boot, or there is no recovery.
Serving == recPc \in {"idle", "send"}

\* The command fits the slot.
Fits(c, x) ==
  \/ x = ResetSlot /\ c = Reset("ENABLE")
  \/ x = PowerSlot /\ c.id = "TX_POWER"
  \/ \E v \in Vifs : /\ x = CtrlSlot(v) /\ c.id = "VIF_CTRL" /\ c.vif = v
                     /\ c.ctrl = "ADD"
  \/ \E v \in Vifs : x = CfgSlot(v) /\ c.id = "VIF_CFG" /\ c.vif = v
  \/ \E v \in Vifs, q \in Queues :
       x = TxqSlot(v, q) /\ c.id = "TXQ_PARAMS" /\ c.vif = v /\ c.queue = q
  \/ \E v \in Vifs, k \in KeyIds :
       /\ x = KeySlot(v, k) /\ c.id = "SETKEY" /\ c.vif = v /\ c.key = k
       /\ c.ctrl = "ADD"
  \/ x = ChannelSlot /\ c.id = "CHANNEL"
  \/ \E i \in Nat : /\ x = McstSlot(i) /\ c.id = "MCST_ADDR_CFG"
                    /\ c.op = "ADD"
  \/ x = FilterSlot /\ c.id = "MCST_FLTR_CTRL"

Worker ==
  /\ alive <=> Serving
  /\ recPc # "idle" => state # "off"
  /\ state # "off" => (halDisabled <=> recPc = "up")
  /\ held # NoCmd => recPc = "send" /\ Fits(held, recSlot)
  /\ recSlot \in Slots
  /\ recPc = "send" /\ recSlot[1] = 3 => recVif = recSlot[2]

LEMMA NamedSlots ==
  /\ {ResetSlot, PowerSlot, ChannelSlot, FilterSlot} \subseteq Slots
  /\ Slot(0, 0, 0, 0) \in Slots
  /\ \A v \in Vifs : CtrlSlot(v) \in Slots /\ CfgSlot(v) \in Slots
  /\ \A v \in Vifs, q \in Queues : TxqSlot(v, q) \in Slots
  /\ \A v \in Vifs, k \in KeyIds : KeySlot(v, k) \in Slots
  /\ \A i \in Nat : McstSlot(i) \in Slots
  BY CommandsAssumption DEF Slots, ResetSlot, PowerSlot, CtrlSlot, CfgSlot,
     TxqSlot, KeySlot, ChannelSlot, McstSlot, FilterSlot, Slot

LEMMA RecallFits ==
  ASSUME NEW s, NEW w, NEW x, DOMAIN s.mcst \subseteq Nat, IsDue(s, w, x)
  PROVE  Fits(Recall(s, x), x)
<1> USE DEF Slot, Recall, Fits
<1>1. CASE x = ResetSlot
  BY <1>1 DEF ResetSlot
<1>2. CASE x = PowerSlot
  BY <1>2 DEF PowerSlot, TxPower
<1>3. ASSUME NEW v \in Vifs, x = CtrlSlot(v) PROVE Fits(Recall(s, x), x)
  BY <1>3 DEF CtrlSlot, VifCtrl
<1>4. ASSUME NEW v \in Vifs, x = CfgSlot(v) PROVE Fits(Recall(s, x), x)
  BY <1>4 DEF CfgSlot, VifCfg
<1>5. ASSUME NEW v \in Vifs, NEW q \in Queues, x = TxqSlot(v, q)
      PROVE  Fits(Recall(s, x), x)
  BY <1>5 DEF TxqSlot, TxqParams
<1>6. ASSUME NEW v \in Vifs, NEW k \in KeyIds, x = KeySlot(v, k)
      PROVE  Fits(Recall(s, x), x)
  BY <1>6 DEF KeySlot, PeerKey
<1>7. CASE x = ChannelSlot
  BY <1>7 DEF ChannelSlot, Channel
<1>8. ASSUME NEW i \in Nat, x = McstSlot(i) PROVE Fits(Recall(s, x), x)
  BY <1>8 DEF McstSlot, McstAddrCfg
<1>9. CASE x = FilterSlot
  BY <1>9 DEF FilterSlot, McstFilterControl
<1> QED BY <1>1, <1>2, <1>3, <1>4, <1>5, <1>6, <1>7, <1>8, <1>9 DEF IsDue

LEMMA InitWorker == Init => Worker
  BY NamedSlots DEF Init, Worker, Serving, Slot

LEMMA CopyWorker ==
  ASSUME Typed, Worker, WorkCopy \/ WorkSkip
  PROVE  Worker' /\ IsDue(saved, recVif, NextSlot) /\ NextSlot \in Slots
<1>1. PICK V : saved.mcst \in Seq(V)
  BY DEF Typed
<1>2. recSlot \in Slots /\ Remaining # {}
  BY DEF Worker, WorkCopy, WorkSkip, Sending
<1>3. NextSlot \in Remaining
  BY <1>1, <1>2, NextIsFirst
<1>4. NextSlot \in Slots /\ IsDue(saved, recVif, NextSlot)
  BY <1>1, <1>3, DueSlots, DueIs DEF Remaining
<1>5. DOMAIN saved.mcst \subseteq Nat
  <2>1. DOMAIN saved.mcst = 1 .. Len(saved.mcst) /\ Len(saved.mcst) \in Nat
    BY <1>1
  <2> QED BY <2>1
<1>6. Fits(Recall(saved, NextSlot), NextSlot)
  BY <1>4, <1>5, RecallFits
<1> HIDE DEF NextSlot
<1>7. CASE WorkCopy
  <2>1. /\ recSlot' = NextSlot /\ held' = Recall(saved, NextSlot)
        /\ recVif' = IF NextSlot[1] = 3 THEN NextSlot[2] ELSE recVif
        /\ UNCHANGED <<state, alive, halDisabled, recPc>> /\ recPc = "send"
    BY <1>7 DEF WorkCopy, Sending, InterfaceOf, workVars, hostVars
  <2> QED BY <1>4, <1>6, <2>1 DEF Worker, Serving
<1>8. CASE WorkSkip
  <2>1. /\ \/ UNCHANGED <<recSlot, recVif>>
           \/ /\ recSlot' = NextSlot
              /\ recVif' = IF NextSlot[1] = 3 THEN NextSlot[2] ELSE recVif
        /\ UNCHANGED <<state, alive, halDisabled, recPc, held>>
        /\ recPc = "send" /\ held = NoCmd
    BY <1>8 DEF WorkSkip, Sending, InterfaceOf
  <2> QED BY <1>4, <2>1 DEF Worker, Serving
<1> QED BY <1>4, <1>7, <1>8

LEMMA StepWorker == Typed /\ Worker /\ [Next]_vars => Worker'
<1> SUFFICES ASSUME Typed, Worker, [Next]_vars PROVE Worker'
  OBVIOUS
<1>1. CASE UNCHANGED <<state, alive, halDisabled, recPc, recSlot, recVif, held>>
  BY <1>1 DEF Worker, Serving
<1>2. CASE Start
  BY <1>2 DEF Start, recVars, Worker, Serving
<1>3. CASE StopBegin
  BY <1>3 DEF StopBegin, BeginsCall, otherVars, recVars, Worker, Serving
<1>4. CASE StopEnd
  BY <1>4 DEF StopEnd, otherVars, recVars, Worker, Serving
<1>5. CASE FwDie
  BY <1>5 DEF FwDie, hostVars, Worker, Serving
<1>6. CASE WorkDown
  BY <1>6 DEF WorkDown, workVars, hostVars, Worker, Serving
<1>7. CASE WorkUp
  BY <1>7, NamedSlots DEF WorkUp, workVars, hostVars, Worker, Serving, Slot
<1>8. CASE WorkCopy \/ WorkSkip
  BY <1>8, CopyWorker
<1>9. CASE WorkWrite
  BY <1>9 DEF WorkWrite, workVars, hostVars, Worker, Serving
<1>10. CASE WorkDone \/ WorkReleased
  BY <1>10, NamedSlots DEF WorkDone, WorkReleased, ResetSlot, Slot, workVars,
     hostVars, Worker, Serving
<1>11. CASE TxWake \/ TxRest \/ TxTake \/ TxSave \/ TxWrite
  BY <1>1, <1>11 DEF TxWake, TxRest, TxTake, TxSave, TxWrite, envVars, hostVars,
     recVars
<1>12. CASE HostNext /\ ~Start /\ ~StopBegin /\ ~StopEnd
  BY <1>1, <1>12 DEF HostNext, AddInterface,
     RemoveInterface, ChangeInterface, Config, PrepareMulticast,
     ConfigureFilter, ConfVifTx, SetEdcaParams, SetKey, DisableKey,
     BssInfoChanged, otherVars, recVars
<1>13. CASE UNCHANGED vars
  BY <1>1, <1>13 DEF vars, hostVars, recVars
<1> QED BY <1>2, <1>3, <1>4, <1>5, <1>6, <1>7, <1>8, <1>9, <1>10, <1>11, <1>12,
           <1>13 DEF Next, HostNext

-----------------------------------------------------------------------------
(* The command between its save and its write, and the worker's copy.      *)

\* The session's reset has been saved.
Live == state # "off" /\ ideal.on /\ saved.reset

\* The command that the firmware that never died has got already.
PendingDone ==
  txPc = "saved" /\ ideal.on =>
    IF txCmd.id = "RESET" THEN ideal = Fresh /\ txCmd.type = "ENABLE"
                          ELSE Effect(ideal, ideal, txCmd)

LEMMA EffectAgain ==
  ASSUME NEW x, NEW y, NEW c, Effect(y, x, c)
  PROVE  Effect(y, y, c)
<1>1. \A v \in Vifs : VifEffect(y.vif[v], y.vif[v], c, v)
  BY DEF Effect, VifEffect
<1>2. y.mcst = IF c.id # "MCST_ADDR_CFG" THEN y.mcst
               ELSE IF c.op = "ADD" THEN y.mcst \cup {c.addr}
                                    ELSE y.mcst \ {c.addr}
  BY DEF Effect
<1> QED BY <1>1, <1>2 DEF Effect

LEMMA NoEffect ==
  ASSUME NEW x
  PROVE  Effect(x, x, NoCmd)
<1>1. NoCmd.id = "none"
  BY DEF NoCmd
<1> QED BY <1>1 DEF Effect, VifEffect

LEMMA StepPending == Typed /\ PendingDone /\ [Next]_vars => PendingDone'
<1> SUFFICES ASSUME Typed, PendingDone, [Next]_vars PROVE PendingDone'
  OBVIOUS
<1>1. CASE UNCHANGED <<txPc, txCmd, ideal>>
  BY <1>1 DEF PendingDone
<1>2. CASE TxTake \/ TxWake \/ TxRest \/ TxWrite
  BY <1>2 DEF TxTake, TxWake, TxRest, TxWrite, PendingDone
<1>3. CASE TxSave
  <2> SUFFICES ASSUME txPc' = "saved", ideal'.on
               PROVE  IF txCmd'.id = "RESET"
                      THEN ideal' = Fresh /\ txCmd'.type = "ENABLE"
                      ELSE Effect(ideal', ideal', txCmd')
    BY DEF PendingDone
  <2>1. ideal' = Apply(ideal, txCmd) /\ txCmd' = txCmd
    BY <1>3 DEF TxSave
  <2>2. PICK V : ideal \in FwType(V)
    BY DEF Typed
  <2>3. CASE txCmd.id = "RESET"
    BY <2>1, <2>2, <2>3, ApplyReset_
  <2>4. CASE txCmd.id # "RESET"
    <3>1. ideal.on
      BY <2>1, <2>4, ApplyOff
    <3>2. Effect(ideal', ideal, txCmd)
      BY <2>1, <2>2, <2>4, <3>1, ApplyEffect
    <3> QED BY <2>1, <2>4, <3>2, EffectAgain
  <2> QED BY <2>3, <2>4
<1>4. CASE Start
  BY <1>1, <1>4 DEF Start, txVars, histVars
<1>5. CASE HostNext /\ ~Start
  BY <1>1, <1>5 DEF HostNext, StopBegin, StopEnd, AddInterface,
     RemoveInterface, ChangeInterface, Config, PrepareMulticast,
     ConfigureFilter, ConfVifTx, SetEdcaParams, SetKey, DisableKey,
     BssInfoChanged, otherVars, txVars, histVars
<1>6. CASE \/ FwDie \/ WorkDown \/ WorkUp \/ WorkCopy \/ WorkSkip
           \/ WorkReleased \/ WorkWrite \/ WorkDone
  BY <1>1, <1>6 DEF FwDie, WorkDown, WorkUp, WorkCopy, WorkSkip, WorkReleased,
     WorkWrite, WorkDone, workVars, txVars, histVars
<1>7. CASE UNCHANGED vars
  BY <1>1, <1>7 DEF vars, txVars, histVars
<1> QED BY <1>2, <1>3, <1>4, <1>5, <1>6, <1>7 DEF Next


LEMMA SlotItems ==
  /\ ItemOfSlot(PowerSlot) = <<2, 0, 0>> /\ ItemOfSlot(ChannelSlot) = <<4, 0, 0>>
  /\ ItemOfSlot(FilterSlot) = <<6, 0, 0>>
  /\ \A i \in Nat : ItemOfSlot(McstSlot(i)) = <<5, 0, 0>>
  /\ \A v \in Vifs : /\ ItemOfSlot(CtrlSlot(v)) = <<3, v, 0>>
                     /\ ItemOfSlot(CfgSlot(v)) = <<3, v, 1>>
  /\ \A v \in Vifs, q \in Queues : ItemOfSlot(TxqSlot(v, q)) = <<3, v, 2>>
  /\ \A v \in Vifs, k \in KeyIds : ItemOfSlot(KeySlot(v, k)) = <<3, v, 3>>
<1>1. \A a, b, c, d : SubSeq(<<a, b, c, d>>, 1, 3) = <<a, b, c>>
  <2> TAKE a, b, c, d
  <2> DEFINE s == <<a, b, c, d>>
             S == {a, b, c, d}
             t == SubSeq(s, 1, 3)
  <2>1. \A i \in 1 .. 3 : s[i] \in S
    OBVIOUS
  <2>2. /\ t \in Seq(S) /\ Len(t) = 3
        /\ \A i \in 1 .. 3 : t[i] = s[i]
    BY <2>1, SubSeqProperties
  <2>3. t[1] = a /\ t[2] = b /\ t[3] = c
    BY <2>2
  <2> HIDE DEF t
  <2> DEFINE u == <<a, b, c>>
  <2>4. Len(u) = 3 /\ u \in Seq(S)
    OBVIOUS
  <2>5. \A i \in 1 .. 3 : t[i] = u[i]
    BY <2>3
  <2> HIDE DEF S, u
  <2>6. t = u
    BY <2>2, <2>4, <2>5, SeqEqual
  <2> QED BY <2>6 DEF t, u
<1> QED
  BY <1>1 DEF ItemOfSlot, Slot, PowerSlot, ChannelSlot, FilterSlot, McstSlot,
     CtrlSlot, CfgSlot, TxqSlot, KeySlot

LEMMA CommandItems ==
  ASSUME NEW c
  PROVE  /\ c.id \in {"RESET", "TX_POWER"} => <<2, 0, 0>> \in ItemsOfCommand(c)
         /\ c.id \in {"RESET", "CHANNEL"} => <<4, 0, 0>> \in ItemsOfCommand(c)
         /\ c.id \in {"RESET", "MCST_ADDR_CFG"} => <<5, 0, 0>> \in ItemsOfCommand(c)
         /\ c.id \in {"RESET", "MCST_FLTR_CTRL"} => <<6, 0, 0>> \in ItemsOfCommand(c)
         /\ \A v \in Vifs :
              /\ c.id = "RESET" \/ (c.id = "VIF_CTRL" /\ c.vif = v) =>
                   \A part \in 0 .. 3 : <<3, v, part>> \in ItemsOfCommand(c)
              /\ c.id = "VIF_CFG" /\ c.vif = v => <<3, v, 1>> \in ItemsOfCommand(c)
              /\ c.id = "TXQ_PARAMS" /\ c.vif = v => <<3, v, 2>> \in ItemsOfCommand(c)
              /\ c.id = "SETKEY" /\ c.vif = v => <<3, v, 3>> \in ItemsOfCommand(c)
<1>1. \A v : \A part \in 0 .. 3 : <<3, v, part>> \in VifItems(v)
  BY DEF VifItems
<1>2. CASE c.id = "RESET"
  <2>1. ItemsOfCommand(c) = {<<n, 0, 0>> : n \in {1, 2, 4, 5, 6}}
                            \cup UNION {VifItems(v) : v \in Vifs}
    BY <1>2 DEF ItemsOfCommand
  <2>2. \A v \in Vifs : VifItems(v) \subseteq ItemsOfCommand(c)
    BY <2>1
  <2> QED BY <1>1, <1>2, <2>1, <2>2
<1>3. CASE c.id = "VIF_CTRL"
  BY <1>1, <1>3 DEF ItemsOfCommand
<1>4. CASE c.id \notin {"RESET", "VIF_CTRL"}
  BY <1>4 DEF ItemsOfCommand
<1> QED BY <1>2, <1>3, <1>4

\* The copy is the value of a firmware that never died, unless the transmit
\* thread has saved another since it was made.
HeldVif(v) ==
  /\ recSlot = CtrlSlot(v) /\ Resent(3, v, 0) => held.mode = ideal.vif[v].mode
  /\ HasVif(ideal, v) =>
       /\ recSlot = CfgSlot(v) /\ Resent(3, v, 1) =>
            \A f \in Fields : ideal.vif[v].cfg[f] # Unset =>
              f \in DOMAIN held.set /\ held.set[f] = ideal.vif[v].cfg[f]
       /\ \A q \in Queues :
            recSlot = TxqSlot(v, q) /\ Resent(3, v, 2)
              /\ ideal.vif[v].txq[q] # Unset => held.val = ideal.vif[v].txq[q]

HeldAgrees ==
  Live /\ held # NoCmd =>
    /\ recSlot = PowerSlot /\ Resent(2, 0, 0) => held.val = ideal.power
    /\ recSlot = ChannelSlot /\ Resent(4, 0, 0) => held.val = ideal.channel
    /\ recSlot = FilterSlot /\ Resent(6, 0, 0) => held.val = ideal.filter
    /\ \A v \in Vifs : HeldVif(v)

\* A command that is saved while the worker holds its copy races the item.
LEMMA SaveRaces ==
  ASSUME TxSave, held # NoCmd
  PROVE  /\ stale' = stale \cup ({ItemOfSlot(recSlot)} \cap ItemsOfCommand(txCmd))
         /\ recSlot' = recSlot /\ held' = held
  BY DEF TxSave, envVars

\* Before a command other than a reset is saved the session was live too.
LEMMA SaveLive ==
  ASSUME Typed, TxSave, Live'
  PROVE  /\ txCmd.id = "RESET" => txCmd.type = "ENABLE" /\ ideal' = Fresh
         /\ txCmd.id # "RESET" => Live /\ Effect(ideal', ideal, txCmd)
<1>1. PICK V : saved \in SavedType(V) /\ ideal \in FwType(V)
  BY DEF Typed
<1>2. /\ ideal' = Apply(ideal, txCmd) /\ saved' = Save(saved, txCmd)
      /\ state' = state /\ ideal'.on /\ saved'.reset /\ state' # "off"
  BY DEF TxSave, envVars, hostVars, Live
<1>3. CASE txCmd.id = "RESET"
  BY <1>1, <1>2, <1>3, ApplyReset_
<1>4. CASE txCmd.id # "RESET"
  <2>1. ideal.on
    BY <1>2, <1>4, ApplyOff
  <2>2. Effect(ideal', ideal, txCmd)
    BY <1>1, <1>2, <1>4, <2>1, ApplyEffect
  <2>3. saved'.reset = saved.reset
    BY <1>1, <1>2, <1>4 DEF Save, SaveMcstAddrCfg, SaveVifCtrl, SaveVifCfg,
                            SaveTxqParams, SaveSetKey, SavedType
  <2> QED BY <1>2, <1>4, <2>1, <2>2, <2>3 DEF Live
<1> QED BY <1>3, <1>4

\* A call of mac80211's touches nothing but its own state and the queue.
LEMMA HostQuiet ==
  ASSUME HostNext, ~Start, ~StopEnd
  PROVE  /\ UNCHANGED <<otherVars, halDisabled>>
         /\ state = "on" /\ state' \in {"on", "stopping"}
<1>1. CASE StopBegin
  BY <1>1 DEF StopBegin, BeginsCall
<1>2. CASE ~StopBegin
  BY <1>2 DEF HostNext, AddInterface, RemoveInterface, ChangeInterface, Config,
     PrepareMulticast, ConfigureFilter, ConfVifTx, SetEdcaParams, SetKey,
     DisableKey, BssInfoChanged, BeginsCall
<1> QED BY <1>1, <1>2

\* A session that is on begins and ends without a reset.
LEMMA StartStopNotLive == Start \/ StopEnd => ~Live'
<1>1. ~NothingSaved.reset
  BY DEF NothingSaved
<1> QED BY <1>1 DEF Start, StopEnd, Live

LEMMA SaveHeld ==
  ASSUME Typed, HeldAgrees, TxSave
  PROVE  HeldAgrees'
<1> SUFFICES ASSUME Live', held' # NoCmd PROVE HeldAgrees'
  BY DEF HeldAgrees
<1>1. /\ stale' = stale \cup ({ItemOfSlot(recSlot)} \cap ItemsOfCommand(txCmd))
      /\ recSlot' = recSlot /\ held' = held /\ held # NoCmd
  BY SaveRaces DEF TxSave, envVars
<1> DEFINE c == txCmd
<1>2. ItemOfSlot(recSlot) \in ItemsOfCommand(c) => ItemOfSlot(recSlot) \in stale'
  BY <1>1
<1>3. \A a, b, d : Resent(a, b, d)' => Resent(a, b, d)
  BY <1>1 DEF Resent
<1>4. CASE c.id = "RESET"
  <2>1. ASSUME recSlot = PowerSlot, Resent(2, 0, 0)' PROVE FALSE
    BY <2>1, <1>2, <1>4, SlotItems, CommandItems DEF Resent
  <2>2. ASSUME recSlot = ChannelSlot, Resent(4, 0, 0)' PROVE FALSE
    BY <2>2, <1>2, <1>4, SlotItems, CommandItems DEF Resent
  <2>3. ASSUME recSlot = FilterSlot, Resent(6, 0, 0)' PROVE FALSE
    BY <2>3, <1>2, <1>4, SlotItems, CommandItems DEF Resent
  <2>4. ASSUME NEW v \in Vifs
        PROVE  /\ ~(recSlot = CtrlSlot(v) /\ Resent(3, v, 0)')
               /\ ~(recSlot = CfgSlot(v) /\ Resent(3, v, 1)')
               /\ \A q \in Queues : ~(recSlot = TxqSlot(v, q) /\ Resent(3, v, 2)')
    <3>1. \A part \in 0 .. 3 : <<3, v, part>> \in ItemsOfCommand(c)
      BY <1>4, CommandItems
    <3>2. /\ <<3, v, 0>> \in ItemsOfCommand(c) /\ <<3, v, 1>> \in ItemsOfCommand(c)
          /\ <<3, v, 2>> \in ItemsOfCommand(c)
      BY <3>1
    <3> QED BY <3>2, <1>2, SlotItems DEF Resent
  <2> QED BY <1>1, <2>1, <2>2, <2>3, <2>4 DEF HeldAgrees, HeldVif
<1>5. CASE c.id # "RESET"
  <2>1. Live /\ Effect(ideal', ideal, c)
    BY <1>5, SaveLive
  <2>2. recSlot' = PowerSlot /\ Resent(2, 0, 0)' => held'.val = ideal'.power
    BY <1>1, <1>2, <1>3, <2>1, SlotItems, CommandItems
       DEF HeldAgrees, Effect, Resent
  <2>3. recSlot' = ChannelSlot /\ Resent(4, 0, 0)' => held'.val = ideal'.channel
    BY <1>1, <1>2, <1>3, <2>1, SlotItems, CommandItems
       DEF HeldAgrees, Effect, Resent
  <2>4. recSlot' = FilterSlot /\ Resent(6, 0, 0)' => held'.val = ideal'.filter
    BY <1>1, <1>2, <1>3, <2>1, SlotItems, CommandItems
       DEF HeldAgrees, Effect, Resent
  <2>5. ASSUME NEW v \in Vifs PROVE HeldVif(v)'
    <3>1. HeldVif(v) /\ VifEffect(ideal'.vif[v], ideal.vif[v], c, v)
      BY <1>1, <2>1 DEF HeldAgrees, Effect
    <3>2. c.id = "VIF_CTRL" /\ c.vif = v =>
            \A part \in 0 .. 3 : <<3, v, part>> \in ItemsOfCommand(c)
      BY CommandItems
    <3>3. c.id = "VIF_CTRL" /\ c.vif = v =>
            /\ <<3, v, 0>> \in ItemsOfCommand(c) /\ <<3, v, 1>> \in ItemsOfCommand(c)
            /\ <<3, v, 2>> \in ItemsOfCommand(c)
      BY <3>2
    <3>4. recSlot' = CtrlSlot(v) /\ Resent(3, v, 0)' =>
            held'.mode = ideal'.vif[v].mode
      BY <1>1, <1>2, <1>3, <3>1, <3>3, SlotItems
         DEF HeldVif, VifEffect, Resent
    <3>5. ASSUME recSlot' = CfgSlot(v), Resent(3, v, 1)', HasVif(ideal', v),
                 NEW f \in Fields, ideal'.vif[v].cfg[f] # Unset
          PROVE  f \in DOMAIN held'.set /\ held'.set[f] = ideal'.vif[v].cfg[f]
      <4>1. Resent(3, v, 1) /\ recSlot = CfgSlot(v)
        BY <1>1, <1>3, <3>5
      <4>2. <<3, v, 1>> \notin ItemsOfCommand(c)
        BY <1>2, <3>5, <4>1, SlotItems DEF Resent
      <4>3. ~(c.id = "VIF_CTRL" /\ c.vif = v) /\ ~(c.id = "VIF_CFG" /\ c.vif = v)
        BY <3>3, <4>2, CommandItems
      <4>4. HasVif(ideal, v) /\ ideal.vif[v].cfg[f] = ideal'.vif[v].cfg[f]
        BY <3>1, <3>5, <4>3 DEF VifEffect, HasVif
      <4> QED BY <1>1, <3>1, <3>5, <4>1, <4>4 DEF HeldVif
    <3>6. ASSUME NEW q \in Queues, recSlot' = TxqSlot(v, q), Resent(3, v, 2)',
                 HasVif(ideal', v), ideal'.vif[v].txq[q] # Unset
          PROVE  held'.val = ideal'.vif[v].txq[q]
      <4>1. Resent(3, v, 2) /\ recSlot = TxqSlot(v, q)
        BY <1>1, <1>3, <3>6
      <4>2. <<3, v, 2>> \notin ItemsOfCommand(c)
        BY <1>2, <3>6, <4>1, SlotItems DEF Resent
      <4>3. ~(c.id = "VIF_CTRL" /\ c.vif = v) /\ ~(c.id = "TXQ_PARAMS" /\ c.vif = v)
        BY <3>3, <4>2, CommandItems
      <4>4. HasVif(ideal, v) /\ ideal.vif[v].txq[q] = ideal'.vif[v].txq[q]
        BY <3>1, <3>6, <4>3 DEF VifEffect, HasVif
      <4> QED BY <1>1, <3>1, <3>6, <4>1, <4>4 DEF HeldVif
    <3> QED BY <3>4, <3>5, <3>6 DEF HeldVif
  <2> QED BY <2>2, <2>3, <2>4, <2>5 DEF HeldAgrees
<1> QED BY <1>4, <1>5

LEMMA CopyHeld ==
  ASSUME SavedTracksIdeal, WorkCopy
  PROVE  HeldAgrees'
<1> HIDE DEF NextSlot
<1>1. /\ recSlot' = NextSlot /\ held' = Recall(saved, NextSlot)
      /\ UNCHANGED <<state, ideal, saved, stale>>
  BY DEF WorkCopy, workVars, hostVars, histVars
<1> SUFFICES ASSUME Live, held' # NoCmd PROVE HeldAgrees'
  BY <1>1 DEF HeldAgrees, Live
<1>2. /\ saved.power = ideal.power /\ saved.channel = ideal.channel
      /\ saved.filter = ideal.filter
      /\ \A v \in Vifs : TracksVif(saved, ideal, shared, v)
  BY DEF SavedTracksIdeal, Tracks, Live
<1>3. recSlot' = PowerSlot => held'.val = ideal'.power
  BY <1>1, <1>2 DEF Recall, PowerSlot, Slot, TxPower
<1>4. recSlot' = ChannelSlot => held'.val = ideal'.channel
  BY <1>1, <1>2 DEF Recall, ChannelSlot, Slot, Channel
<1>5. recSlot' = FilterSlot => held'.val = ideal'.filter
  BY <1>1, <1>2 DEF Recall, FilterSlot, Slot, McstFilterControl
<1>6. ASSUME NEW v \in Vifs PROVE HeldVif(v)'
  <2>1. recSlot' = CtrlSlot(v) => held'.mode = ideal'.vif[v].mode
    BY <1>1, <1>2 DEF Recall, CtrlSlot, Slot, VifCtrl, TracksVif
  <2>2. ASSUME recSlot' = CfgSlot(v), HasVif(ideal', v),
               NEW f \in Fields, ideal'.vif[v].cfg[f] # Unset
        PROVE  f \in DOMAIN held'.set /\ held'.set[f] = ideal'.vif[v].cfg[f]
    <3>1. held' = VifCfg(v, [g \in SetFields(saved.cfg[v]) |-> saved.cfg[v][g]])
      BY <1>1, <2>2 DEF Recall, CfgSlot, Slot
    <3>2. saved.cfg[v][f] = ideal.vif[v].cfg[f] /\ ideal' = ideal
      BY <1>1, <1>2, <2>2 DEF TracksVif, HasVif
    <3>3. f \in SetFields(saved.cfg[v])
      BY <2>2, <3>2 DEF SetFields
    <3>4. held'.set = [g \in SetFields(saved.cfg[v]) |-> saved.cfg[v][g]]
      BY <3>1 DEF VifCfg
    <3> QED BY <3>2, <3>3, <3>4
  <2>3. ASSUME NEW q \in Queues, recSlot' = TxqSlot(v, q), HasVif(ideal', v),
               ideal'.vif[v].txq[q] # Unset
        PROVE  held'.val = ideal'.vif[v].txq[q]
    <3>1. held' = TxqParams(v, q, saved.txq[v][q])
      BY <1>1, <2>3 DEF Recall, TxqSlot, Slot
    <3> QED BY <1>1, <1>2, <2>3, <3>1 DEF TracksVif, HasVif, TxqParams
  <2> QED BY <2>1, <2>2, <2>3 DEF HeldVif
<1> QED BY <1>3, <1>4, <1>5, <1>6 DEF HeldAgrees

LEMMA StepHeld ==
  Typed /\ SavedTracksIdeal /\ Worker /\ HeldAgrees /\ [Next]_vars => HeldAgrees'
<1> SUFFICES ASSUME Typed, SavedTracksIdeal, Worker, HeldAgrees, [Next]_vars
             PROVE  HeldAgrees'
  OBVIOUS
<1>1. CASE UNCHANGED <<ideal, saved, held, recSlot, stale>> /\ (Live' => Live)
  <2>1. \A v \in Vifs : HeldVif(v)' <=> HeldVif(v)
    BY <1>1 DEF HeldVif, Resent
  <2> QED BY <1>1, <2>1 DEF HeldAgrees, Resent
<1>2. UNCHANGED <<state, ideal, saved>> => (Live' => Live)
  BY DEF Live
<1>3. CASE Start \/ StopEnd
  BY <1>3, StartStopNotLive DEF HeldAgrees
<1>4. CASE HostNext /\ ~Start /\ ~StopEnd
  <2>1. UNCHANGED <<ideal, saved, held, recSlot, stale>> /\ state # "off"
    BY <1>4, HostQuiet DEF otherVars, histVars, recVars
  <2> QED BY <1>1, <2>1 DEF Live
<1>5. CASE TxSave
  BY <1>5, SaveHeld
<1>6. CASE TxWake \/ TxRest \/ TxTake \/ TxWrite \/ FwDie \/ WorkDown
  BY <1>1, <1>2, <1>6 DEF TxWake, TxRest, TxTake, TxWrite, FwDie, WorkDown,
     envVars, workVars, hostVars, histVars, recVars
<1>7. CASE WorkUp \/ WorkSkip \/ WorkReleased \/ WorkWrite \/ WorkDone
  <2>1. held' = NoCmd
    BY <1>7 DEF WorkUp, WorkSkip, Sending, WorkReleased, WorkWrite, WorkDone, Worker
  <2> QED BY <2>1 DEF HeldAgrees
<1>8. CASE WorkCopy
  BY <1>8, CopyHeld
<1>9. CASE UNCHANGED vars
  BY <1>1, <1>2, <1>9 DEF vars, hostVars, recVars, histVars
<1> QED BY <1>3, <1>4, <1>5, <1>6, <1>7, <1>8, <1>9 DEF Next

-----------------------------------------------------------------------------
(* What the firmware has, once the transmit thread has written the command *)
(* it has saved.                                                           *)

Written == IF txPc = "saved" THEN Apply(fw, txCmd) ELSE fw

\* A setting that the host has not made is not there.
Low(x) ==
  /\ x.on \/ x = Booted
  /\ Resent(2, 0, 0) /\ ideal.power = Unset => x.power = Unset
  /\ Resent(4, 0, 0) /\ ideal.channel = Unset => x.channel = Unset
  /\ Resent(6, 0, 0) /\ ideal.filter = Unset => x.filter = Unset
  /\ \A v \in Vifs : Resent(3, v, 0) /\ ~HasVif(ideal, v) => ~HasVif(x, v)

\* What the worker has passed is as it would be in a firmware that never died.
AgreesVif(x, v) ==
  Resent(3, v, 0) /\ Passed(CtrlSlot(v)) =>
    /\ x.vif[v].mode = ideal.vif[v].mode
    /\ HasVif(ideal, v) =>
         /\ Resent(3, v, 1) /\ Passed(CfgSlot(v)) =>
              \A f \in Fields : ideal.vif[v].cfg[f] # Unset =>
                x.vif[v].cfg[f] = ideal.vif[v].cfg[f]
         /\ Resent(3, v, 2) =>
              \A q \in Queues :
                Passed(TxqSlot(v, q)) /\ ideal.vif[v].txq[q] # Unset =>
                  x.vif[v].txq[q] = ideal.vif[v].txq[q]

Agrees(x) ==
  /\ Passed(ResetSlot) => x.on
  /\ Passed(PowerSlot) /\ Resent(2, 0, 0) => x.power = ideal.power
  /\ Passed(ChannelSlot) /\ Resent(4, 0, 0) => x.channel = ideal.channel
  /\ Passed(FilterSlot) /\ Resent(6, 0, 0) => x.filter = ideal.filter
  /\ \A v \in Vifs : AgreesVif(x, v)

Restored == Live /\ Serving => Low(Written) /\ Agrees(Written)

LEMMA SlotOrder ==
  /\ Before(ResetSlot, PowerSlot) /\ Before(ResetSlot, ChannelSlot)
  /\ Before(ResetSlot, FilterSlot)
  /\ \A v \in Vifs : /\ Before(ResetSlot, CtrlSlot(v))
                     /\ Before(ResetSlot, CfgSlot(v))
                     /\ Before(CtrlSlot(v), CfgSlot(v))
  /\ \A v \in Vifs, q \in Queues : /\ Before(ResetSlot, TxqSlot(v, q))
                                   /\ Before(CtrlSlot(v), TxqSlot(v, q))
  /\ \A v \in Vifs, k \in KeyIds : /\ Before(ResetSlot, KeySlot(v, k))
                                   /\ Before(CtrlSlot(v), KeySlot(v, k))
  /\ \A i \in Nat : Before(ResetSlot, McstSlot(i))
<1>1. \A a \in Slots, b \in Slots :
        a[1] < b[1] \/ (a[1] = b[1] /\ a[2] = b[2] /\ a[3] < b[3])
          => Before(a, b)
  BY BeforeIs
<1>2. \A x \in Slots : x[1] > 1 => Before(ResetSlot, x)
  <2>1. ResetSlot[1] = 1 /\ ResetSlot \in Slots
    BY NamedSlots DEF ResetSlot, Slot
  <2>2. \A x \in Slots : x[1] \in Nat
    BY DEF Slots
  <2> QED BY <1>1, <2>1, <2>2
<1>3. /\ PowerSlot[1] > 1 /\ ChannelSlot[1] > 1 /\ FilterSlot[1] > 1
      /\ \A v : CtrlSlot(v)[1] > 1 /\ CfgSlot(v)[1] > 1
      /\ \A v, q : TxqSlot(v, q)[1] > 1 /\ KeySlot(v, q)[1] > 1
      /\ \A i : McstSlot(i)[1] > 1
  BY DEF PowerSlot, CtrlSlot, CfgSlot, TxqSlot, KeySlot, ChannelSlot, McstSlot,
         FilterSlot, Slot
<1>4. ASSUME NEW v \in Vifs, NEW x \in Slots, x[1] = 3, x[2] = v, x[3] > 0
      PROVE  Before(CtrlSlot(v), x)
  <2>1. CtrlSlot(v)[1] = 3 /\ CtrlSlot(v)[2] = v /\ CtrlSlot(v)[3] = 0
    BY DEF CtrlSlot, Slot
  <2>2. CtrlSlot(v) \in Slots
    BY NamedSlots
  <2> QED BY <1>1, <1>4, <2>1, <2>2
<1>5. /\ \A v : CfgSlot(v)[1] = 3 /\ CfgSlot(v)[2] = v /\ CfgSlot(v)[3] > 0
      /\ \A v, q : TxqSlot(v, q)[1] = 3 /\ TxqSlot(v, q)[2] = v /\ TxqSlot(v, q)[3] > 0
      /\ \A v, k : KeySlot(v, k)[1] = 3 /\ KeySlot(v, k)[2] = v /\ KeySlot(v, k)[3] > 0
  BY DEF CfgSlot, TxqSlot, KeySlot, Slot
<1> QED BY <1>2, <1>3, <1>4, <1>5, NamedSlots

\* When the reset is not passed, nothing is.
LEMMA NothingPassed ==
  ASSUME recSlot \in Slots, ~Passed(ResetSlot)
  PROVE  /\ ~Passed(PowerSlot) /\ ~Passed(ChannelSlot) /\ ~Passed(FilterSlot)
         /\ \A v \in Vifs : ~Passed(CtrlSlot(v)) /\ ~Passed(CfgSlot(v))
         /\ \A v \in Vifs, q \in Queues : ~Passed(TxqSlot(v, q))
         /\ \A v \in Vifs, k \in KeyIds : ~Passed(KeySlot(v, k))
         /\ \A i \in Nat : ~Passed(McstSlot(i))
<1>1. \A x \in Slots : Before(ResetSlot, x) => ~Passed(x)
  <2> TAKE x \in Slots
  <2> SUFFICES ASSUME Before(ResetSlot, x), Passed(x) PROVE FALSE
    OBVIOUS
  <2>1. recPc # "idle"
    BY DEF Passed
  <2>2. Before(x, recSlot) \/ x = recSlot
    BY <2>1 DEF Passed
  <2>3. Before(ResetSlot, recSlot)
    BY <2>2, BeforeTransitive, NamedSlots
  <2> QED BY <2>3 DEF Passed
<1> QED BY <1>1, NamedSlots, SlotOrder

\* When nothing is passed, a firmware that has just booted will do.
LEMMA BootedAgrees ==
  recSlot \in Slots /\ ~Passed(ResetSlot) => Low(Booted) /\ Agrees(Booted)
<1> SUFFICES ASSUME recSlot \in Slots, ~Passed(ResetSlot)
             PROVE  Low(Booted) /\ Agrees(Booted)
  OBVIOUS
<1>1. Low(Booted)
  BY FreshSlots DEF Low, HasVif
<1>2. Agrees(Booted)
  BY NothingPassed DEF Agrees, AgreesVif
<1> QED BY <1>1, <1>2

LEMMA SelfAgrees == ideal.on => Low(ideal) /\ Agrees(ideal)
  BY DEF Low, Agrees, AgreesVif

LEMMA SaveRestored ==
  ASSUME Typed, Worker, Restored, TxSave
  PROVE  Restored'
<1> SUFFICES ASSUME Live', Serving' PROVE (Low(Written) /\ Agrees(Written))'
  BY DEF Restored
<1> DEFINE c == txCmd
<1>1. /\ txPc = "taken" /\ txCmd' = IF halDisabled THEN NoCmd ELSE txCmd
      /\ txPc' = IF halDisabled THEN "asleep" ELSE "saved"
      /\ UNCHANGED <<state, fw, recPc, recSlot, held, halDisabled>>
  BY DEF TxSave, envVars, hostVars
<1>2. Serving /\ ~halDisabled
  BY <1>1 DEF Serving, Worker, Live
<1>3. Written = fw /\ Written' = Apply(fw, c)
  BY <1>1, <1>2 DEF Written
<1>4. \A x : Passed(x)' <=> Passed(x)
  BY <1>1 DEF Passed
<1>5. \A a, b, d : Resent(a, b, d)' => Resent(a, b, d)
  BY DEF TxSave, Resent
<1>6. PICK V : ideal \in FwType(V) /\ fw \in FwType(V)
  BY DEF Typed
<1>7. ideal' = Apply(ideal, c)
  BY DEF TxSave
<1>8. CASE c.id = "RESET"
  <2>1. ideal' = Fresh /\ c.type = "ENABLE"
    BY <1>8, SaveLive
  <2>2. Written' = ideal'
    BY <1>3, <1>6, <1>8, <2>1, ApplyReset_
  <2>3. (Low(ideal) /\ Agrees(ideal))'
    <3>1. (ideal.on => Low(ideal) /\ Agrees(ideal))'
      BY SelfAgrees, PTL
    <3> QED BY <3>1 DEF Live
  <2> QED BY <2>2, <2>3 DEF Low, Agrees, AgreesVif
<1>9. CASE c.id # "RESET"
  <2>1. Live /\ Effect(ideal', ideal, c)
    BY <1>9, SaveLive
  <2>2. Low(fw) /\ Agrees(fw)
    BY <1>2, <1>3, <2>1 DEF Restored
  <2>3. CASE fw.on
    <3>1. Effect(Written', fw, c)
      BY <1>3, <1>6, <1>9, <2>3, ApplyEffect
    <3> HIDE DEF Written
    <3>2. Low(Written)'
      <4>1. Written'.on
        BY <2>3, <3>1 DEF Effect
      <4>2. /\ Resent(2, 0, 0)' /\ ideal'.power = Unset => Written'.power = Unset
            /\ Resent(4, 0, 0)' /\ ideal'.channel = Unset => Written'.channel = Unset
            /\ Resent(6, 0, 0)' /\ ideal'.filter = Unset => Written'.filter = Unset
        BY <1>5, <2>1, <2>2, <3>1 DEF Low, Effect
      <4>3. ASSUME NEW v \in Vifs, Resent(3, v, 0)', ~HasVif(ideal', v)
            PROVE  ~HasVif(Written', v)
        BY <1>5, <2>1, <2>2, <3>1, <4>3 DEF Low, Effect, VifEffect, HasVif
      <4> QED BY <4>1, <4>2, <4>3 DEF Low
    <3>3. Agrees(Written)'
      <4>1. Written'.on
        BY <2>3, <3>1 DEF Effect
      <4>2. Passed(PowerSlot)' /\ Resent(2, 0, 0)' => Written'.power = ideal'.power
        BY <1>4, <1>5, <2>1, <2>2, <3>1 DEF Agrees, Effect
      <4>3. Passed(ChannelSlot)' /\ Resent(4, 0, 0)' =>
              Written'.channel = ideal'.channel
        BY <1>4, <1>5, <2>1, <2>2, <3>1 DEF Agrees, Effect
      <4>4. Passed(FilterSlot)' /\ Resent(6, 0, 0)' =>
              Written'.filter = ideal'.filter
        BY <1>4, <1>5, <2>1, <2>2, <3>1 DEF Agrees, Effect
      <4>5. ASSUME NEW v \in Vifs PROVE AgreesVif(Written, v)'
        <5>1. /\ AgreesVif(fw, v) /\ VifEffect(Written'.vif[v], fw.vif[v], c, v)
              /\ VifEffect(ideal'.vif[v], ideal.vif[v], c, v)
          BY <2>1, <2>2, <3>1 DEF Agrees, Effect
        <5> SUFFICES ASSUME Resent(3, v, 0)', Passed(CtrlSlot(v))'
                     PROVE  AgreesVif(Written, v)'
          BY DEF AgreesVif
        <5>2. Resent(3, v, 0) /\ Passed(CtrlSlot(v))
          BY <1>4, <1>5
        <5>3. fw.vif[v].mode = ideal.vif[v].mode
          BY <5>1, <5>2 DEF AgreesVif
        <5>4. Written'.vif[v].mode = ideal'.vif[v].mode
          BY <5>1, <5>3 DEF VifEffect
        <5>5. ASSUME HasVif(ideal', v), Resent(3, v, 1)', Passed(CfgSlot(v))',
                     NEW f \in Fields, ideal'.vif[v].cfg[f] # Unset
              PROVE  Written'.vif[v].cfg[f] = ideal'.vif[v].cfg[f]
          <6>1. ~(c.id = "VIF_CTRL" /\ c.vif = v)
            BY <5>1, <5>5 DEF VifEffect
          <6>2. ideal'.vif[v].mode = ideal.vif[v].mode
            BY <5>1, <6>1 DEF VifEffect
          <6>3. ideal.vif[v].cfg[f] # Unset => fw.vif[v].cfg[f] = ideal.vif[v].cfg[f]
            BY <5>1, <5>2, <5>5, <6>2, <1>4, <1>5 DEF AgreesVif, HasVif
          <6> QED BY <5>1, <5>3, <5>5, <6>1, <6>3 DEF VifEffect
        <5>6. ASSUME HasVif(ideal', v), Resent(3, v, 2)', NEW q \in Queues,
                     Passed(TxqSlot(v, q))', ideal'.vif[v].txq[q] # Unset
              PROVE  Written'.vif[v].txq[q] = ideal'.vif[v].txq[q]
          <6>1. ~(c.id = "VIF_CTRL" /\ c.vif = v)
            BY <5>1, <5>6 DEF VifEffect
          <6>2. ideal'.vif[v].mode = ideal.vif[v].mode
            BY <5>1, <6>1 DEF VifEffect
          <6>3. ideal.vif[v].txq[q] # Unset => fw.vif[v].txq[q] = ideal.vif[v].txq[q]
            BY <5>1, <5>2, <5>6, <6>2, <1>4, <1>5 DEF AgreesVif, HasVif
          <6> QED BY <5>1, <5>3, <5>6, <6>1, <6>3 DEF VifEffect
        <5> QED BY <5>4, <5>5, <5>6 DEF AgreesVif
      <4> QED BY <4>1, <4>2, <4>3, <4>4, <4>5 DEF Agrees
    <3> QED BY <3>2, <3>3
  <2>4. CASE ~fw.on
    <3>1. fw = Booted /\ ~Passed(ResetSlot)
      BY <2>2, <2>4 DEF Low, Agrees
    <3>2. Written' = Booted
      BY <1>3, <1>9, <2>4, <3>1, ApplyOff
    <3>3. recSlot' \in Slots /\ ~Passed(ResetSlot)'
      BY <1>1, <1>4, <3>1 DEF Worker
    <3>4. (recSlot \in Slots /\ ~Passed(ResetSlot) => Low(Booted) /\ Agrees(Booted))'
      BY BootedAgrees, PTL
    <3> QED BY <3>2, <3>3, <3>4 DEF Low, Agrees, AgreesVif
  <2> QED BY <2>3, <2>4
<1> QED BY <1>8, <1>9

\* Before it passes the reset, the firmware has just booted, unless the
\* command that is being written is itself the reset.
\* What is written when the worker begins to send: a firmware that has just
\* booted, or one that a reset has just reached.
LEMMA UpWritten ==
  ASSUME Typed, Worker, PendingDone, WorkUp, Live'
  PROVE  /\ Written' = Booted \/ Written' = ideal'
         /\ recSlot' \in Slots /\ ~Passed(ResetSlot)' /\ ideal'.on
<1>1. /\ fw' = Booted /\ recSlot' = Slot(0, 0, 0, 0) /\ recPc' = "send"
      /\ UNCHANGED <<txPc, txCmd, ideal>>
  BY DEF WorkUp, workVars, txVars, histVars
<1>2. ideal.on /\ ideal'.on
  BY <1>1 DEF Live
<1>3. recSlot' \in Slots /\ ~Passed(ResetSlot)'
  <2>1. recSlot'[1] = 0 /\ ResetSlot[1] = 1
    BY <1>1 DEF Slot, ResetSlot
  <2>2. ~Before(ResetSlot, recSlot')
    BY <1>1, <2>1, NamedSlots, BeforeIs
  <2> QED BY <1>1, <2>1, <2>2, NamedSlots DEF Passed
<1>4. Written' = Booted \/ Written' = ideal'
  <2>1. CASE txPc # "saved"
    BY <1>1, <2>1 DEF Written
  <2>2. CASE txPc = "saved" /\ txCmd.id = "RESET"
    <3>1. ideal = Fresh /\ txCmd.type = "ENABLE"
      BY <1>2, <2>2 DEF PendingDone
    <3>2. Apply(Booted, txCmd) = Fresh
      BY <2>2, <3>1 DEF Apply, ApplyReset, Fresh
    <3> QED BY <1>1, <2>2, <3>1, <3>2 DEF Written
  <2>3. CASE txPc = "saved" /\ txCmd.id # "RESET"
    <3>1. Apply(Booted, txCmd) = Booted
      BY <2>3, FreshSlots, ApplyOff
    <3> QED BY <1>1, <2>3, <3>1 DEF Written
  <2> QED BY <2>1, <2>2, <2>3
<1> QED BY <1>2, <1>3, <1>4

LEMMA UpRestored ==
  ASSUME Typed, Worker, PendingDone, WorkUp
  PROVE  Restored'
<1> SUFFICES ASSUME Live' PROVE (Low(Written) /\ Agrees(Written))'
  BY DEF Restored
<1>1. /\ Written' = Booted \/ Written' = ideal'
      /\ recSlot' \in Slots /\ ~Passed(ResetSlot)' /\ ideal'.on
  BY UpWritten
<1>2. (recSlot \in Slots /\ ~Passed(ResetSlot) => Low(Booted) /\ Agrees(Booted))'
  BY BootedAgrees, PTL
<1>3. (ideal.on => Low(ideal) /\ Agrees(ideal))'
  BY SelfAgrees, PTL
<1>4. (Low(Booted) /\ Agrees(Booted))' /\ (Low(ideal) /\ Agrees(ideal))'
  BY <1>1, <1>2, <1>3
<1>5. CASE Written' = Booted
  BY <1>4, <1>5 DEF Low, Agrees, AgreesVif
<1>6. CASE Written' = ideal'
  BY <1>4, <1>6 DEF Low, Agrees, AgreesVif
<1> QED BY <1>1, <1>5, <1>6

\* What is due, in a session that is live.
LEMMA LiveDue ==
  ASSUME Live, SavedTracksIdeal
  PROVE  /\ ResetSlot \in Due(saved, recVif)
         /\ ideal.power # Unset => PowerSlot \in Due(saved, recVif)
         /\ ideal.channel # Unset => ChannelSlot \in Due(saved, recVif)
         /\ ideal.filter # Unset => FilterSlot \in Due(saved, recVif)
         /\ \A v \in Vifs : HasVif(ideal, v) =>
              /\ CtrlSlot(v) \in Due(saved, recVif)
              /\ \A f \in Fields : ideal.vif[v].cfg[f] # Unset /\ recVif = v =>
                   CfgSlot(v) \in Due(saved, recVif)
              /\ \A q \in Queues : ideal.vif[v].txq[q] # Unset /\ recVif = v =>
                   TxqSlot(v, q) \in Due(saved, recVif)
<1>1. /\ saved.power = ideal.power /\ saved.channel = ideal.channel
      /\ saved.filter = ideal.filter
      /\ \A v \in Vifs : TracksVif(saved, ideal, shared, v)
  BY DEF SavedTracksIdeal, Tracks, Live
<1>2. saved.reset
  BY DEF Live
<1>3. \A x : IsDue(saved, recVif, x) => x \in Due(saved, recVif)
  BY <1>2, DueIs
<1>4. IsDue(saved, recVif, ResetSlot)
  BY DEF IsDue
<1>5. ideal.power # Unset => IsDue(saved, recVif, PowerSlot)
  BY <1>1 DEF IsDue
<1>6. ideal.channel # Unset => IsDue(saved, recVif, ChannelSlot)
  BY <1>1 DEF IsDue
<1>7. ideal.filter # Unset => IsDue(saved, recVif, FilterSlot)
  BY <1>1 DEF IsDue
<1>8. ASSUME NEW v \in Vifs, HasVif(ideal, v)
      PROVE  /\ IsDue(saved, recVif, CtrlSlot(v))
             /\ \A f \in Fields : ideal.vif[v].cfg[f] # Unset /\ recVif = v =>
                  IsDue(saved, recVif, CfgSlot(v))
             /\ \A q \in Queues : ideal.vif[v].txq[q] # Unset /\ recVif = v =>
                  IsDue(saved, recVif, TxqSlot(v, q))
  <2>1. TracksVif(saved, ideal, shared, v)
    BY <1>1
  <2>2. IsDue(saved, recVif, CtrlSlot(v))
    BY <1>8, <2>1 DEF TracksVif, IsDue, HasVif
  <2>3. ASSUME NEW f \in Fields, ideal.vif[v].cfg[f] # Unset, recVif = v
        PROVE  IsDue(saved, recVif, CfgSlot(v))
    <3>1. f \in SetFields(saved.cfg[v])
      BY <1>8, <2>1, <2>3 DEF TracksVif, SetFields
    <3> QED BY <2>3, <3>1 DEF IsDue
  <2>4. ASSUME NEW q \in Queues, ideal.vif[v].txq[q] # Unset, recVif = v
        PROVE  IsDue(saved, recVif, TxqSlot(v, q))
    <3>1. saved.txq[v][q] # Unset
      BY <1>8, <2>1, <2>4 DEF TracksVif
    <3> QED BY <2>4, <3>1 DEF IsDue
  <2> QED BY <2>2, <2>3, <2>4
<1> QED BY <1>3, <1>4, <1>5, <1>6, <1>7, <1>8

\* A slot of an interface that the worker has not got to, although it has
\* passed the control command, is one of the interface it is at.
LEMMA AtVif ==
  ASSUME Worker, recPc = "send", held = NoCmd, NEW v \in Vifs, NEW x \in Slots,
         Passed(CtrlSlot(v)), ~Passed(x), x[1] = 3, x[2] = v
  PROVE  recVif = v
<1> DEFINE a == CtrlSlot(v)
<1>1. a \in Slots /\ a[1] = 3 /\ a[2] = v /\ recSlot \in Slots
  BY NamedSlots DEF CtrlSlot, Slot, Worker
<1>2. Before(a, recSlot) \/ a = recSlot
  BY DEF Passed
<1>3. Before(recSlot, x)
  BY <1>1, BeforeOrders DEF Passed
<1>4. /\ recSlot[1] \in Nat /\ recSlot[2] \in Nat
      /\ a[1] <= recSlot[1] /\ (a[1] = recSlot[1] => a[2] <= recSlot[2])
  <2>1. /\ recSlot[1] \in Nat /\ recSlot[2] \in Nat /\ a[1] \in Nat /\ a[2] \in Nat
    BY <1>1 DEF Slots
  <2> HIDE DEF a
  <2> QED BY <1>1, <1>2, <2>1, BeforeIs
<1>5. /\ recSlot[1] <= x[1] /\ (recSlot[1] = x[1] => recSlot[2] <= x[2])
  <2>1. /\ recSlot[1] \in Nat /\ recSlot[2] \in Nat /\ x[1] \in Nat /\ x[2] \in Nat
    BY <1>1 DEF Slots
  <2> HIDE DEF a
  <2> QED BY <1>1, <1>3, <2>1, BeforeIs
<1>6. v \in Nat
  BY CommandsAssumption
<1> HIDE DEF a
<1>7. recSlot[1] = 3 /\ recSlot[2] = v
  BY <1>1, <1>4, <1>5, <1>6
<1> QED BY <1>7 DEF Worker

\* Nor is more passed, but what is skipped, and the reset, when the worker
\* is released.
LEMMA SkippedOver ==
  ASSUME NEW U, saved.mcst \in Seq(U), recSlot \in Slots, NEW x \in Slots,
         recPc = "send", WorkSkip \/ WorkReleased, Passed(x)', x[1] > 0
  PROVE  \/ Passed(x) \/ x \notin Due(saved, recVif)
         \/ WorkSkip /\ x # ResetSlot /\ ItemOfSlot(x) \in stale'
         \/ WorkReleased /\ x = ResetSlot
<1>1. CASE WorkReleased
  <2>1. recSlot' = ResetSlot /\ recPc' = "send" /\ ResetSlot \in Slots /\ ResetSlot[1] = 1
    BY <1>1, NamedSlots DEF WorkReleased, ResetSlot, Slot
  <2>2. x = ResetSlot \/ Before(x, ResetSlot)
    BY <2>1 DEF Passed
  <2>3. ASSUME Before(x, ResetSlot) PROVE FALSE
    BY <2>1, <2>3, BeforeIs DEF ResetSlot, Slot, Slots
  <2> QED BY <1>1, <2>2, <2>3
<1>2. CASE WorkSkip
  <2> SUFFICES ASSUME x \in Due(saved, recVif), ~Passed(x)
               PROVE  x # ResetSlot /\ ItemOfSlot(x) \in stale'
    BY <1>2
  <2>1. held = NoCmd /\ held' = NoCmd /\ recPc' = recPc
    BY <1>2 DEF WorkSkip, Sending
  <2>2. x \in Remaining
    BY <2>1, BeforeOrders DEF Passed, Remaining
  <2>3. /\ NextSlot \in Remaining
        /\ \A y \in Remaining : y = NextSlot \/ Before(NextSlot, y)
    BY <2>2, NextIsFirst
  <2>4. NextSlot \in Slots
    BY <2>3, DueSlots DEF Remaining
  <2>5. stale' = stale \cup {ItemOfSlot(NextSlot)}
    BY <1>2 DEF WorkSkip
  <2>6. CASE recSlot' = recSlot
    BY <2>1, <2>6 DEF Passed
  <2>7. CASE recSlot' = NextSlot /\ NextSlot # ResetSlot
    <3>1. x = NextSlot \/ Before(x, NextSlot)
      BY <2>1, <2>7 DEF Passed
    <3>2. x = NextSlot
      BY <2>2, <2>3, <2>4, <3>1, BeforeOrders
    <3> QED BY <2>5, <2>7, <3>2
  <2> QED BY <1>2, <2>6, <2>7 DEF WorkSkip
<1> QED BY <1>1, <1>2

LEMMA ReleasedOnly ==
  ASSUME NEW x \in Slots, x[1] > 1, WorkReleased
  PROVE  ~Passed(x)'
<1>1. recSlot' = ResetSlot /\ recPc' = "send" /\ ResetSlot \in Slots
  BY NamedSlots DEF WorkReleased
<1>2. ResetSlot[1] = 1
  BY DEF ResetSlot, Slot
<1>3. ~Before(x, ResetSlot)
  BY <1>1, <1>2, BeforeIs DEF Slots
<1> QED BY <1>1, <1>2, <1>3 DEF Passed

\* The firmware of a live host that is on stays on, whatever is written last.
LEMMA WrittenOn ==
  ASSUME Typed, PendingDone, Live, fw.on
  PROVE  Written.on
<1>1. PICK V : fw \in FwType(V)
  BY DEF Typed
<1>2. CASE txPc # "saved"
  BY <1>2 DEF Written
<1>3. CASE txPc = "saved" /\ txCmd.id = "RESET"
  <2>1. Apply(fw, txCmd) = Fresh
    BY <1>1, <1>3, ApplyReset_ DEF PendingDone, Live
  <2> QED BY <1>3, <2>1, FreshSlots DEF Written
<1>4. CASE txPc = "saved" /\ txCmd.id # "RESET"
  BY <1>1, <1>4, ApplyEffect DEF Written, Effect
<1> QED BY <1>2, <1>3, <1>4

LEMMA PassRestored ==
  ASSUME Typed, SavedTracksIdeal, Worker, PendingDone, Restored,
         WorkCopy \/ WorkSkip \/ WorkReleased \/ WorkDone
  PROVE  Restored'
<1> SUFFICES ASSUME Live' PROVE (Low(Written) /\ Agrees(Written))'
  BY DEF Restored
<1>1. /\ UNCHANGED <<state, ideal, saved, fw, txPc, txCmd>>
      /\ recPc = "send" /\ held = NoCmd
      /\ stale \subseteq stale'
  BY DEF WorkCopy, WorkSkip, Sending, WorkReleased, WorkDone, workVars, hostVars,
     histVars, txVars
<1>2. Live /\ Written' = Written /\ recSlot \in Slots
  BY <1>1 DEF Live, Written, Worker
<1>3. Low(Written) /\ Agrees(Written)
  BY <1>1, <1>2 DEF Restored, Serving
<1>a. WorkReleased => Written.on
  BY <1>2, WrittenOn DEF WorkReleased
<1> HIDE DEF Written
<1>4. PICK U : saved.mcst \in Seq(U)
  BY DEF Typed
<1>7. \A x, y, z : Resent(x, y, z)' => Resent(x, y, z)
  BY <1>1 DEF Resent
<1>b. ASSUME NEW x \in Slots, x[1] > 0, Passed(x)'
      PROVE  \/ Passed(x) \/ x \notin Due(saved, recVif)
             \/ x # ResetSlot /\ ItemOfSlot(x) \in stale'
             \/ WorkReleased /\ x = ResetSlot
  <2>1. CASE WorkCopy \/ WorkDone
    BY <1>1, <1>2, <1>4, <1>b, <2>1, PassedOver
  <2>2. CASE WorkSkip \/ WorkReleased
    BY <1>1, <1>2, <1>4, <1>b, <2>2, SkippedOver
  <2> QED BY <2>1, <2>2
<1>c. /\ PowerSlot[1] > 0 /\ ChannelSlot[1] > 0 /\ FilterSlot[1] > 0 /\ ResetSlot[1] > 0
      /\ PowerSlot # ResetSlot /\ ChannelSlot # ResetSlot /\ FilterSlot # ResetSlot
      /\ \A v : CtrlSlot(v)[1] > 0 /\ CtrlSlot(v) # ResetSlot
      /\ \A v : CfgSlot(v)[1] > 0 /\ CfgSlot(v) # ResetSlot
      /\ \A v, q : TxqSlot(v, q)[1] > 0 /\ TxqSlot(v, q) # ResetSlot
  BY DEF PowerSlot, ChannelSlot, FilterSlot, ResetSlot, CtrlSlot, CfgSlot, TxqSlot,
     Slot
<1>5. /\ Passed(PowerSlot)' /\ Resent(2, 0, 0)' =>
           Passed(PowerSlot) \/ PowerSlot \notin Due(saved, recVif)
      /\ Passed(ChannelSlot)' /\ Resent(4, 0, 0)' =>
           Passed(ChannelSlot) \/ ChannelSlot \notin Due(saved, recVif)
      /\ Passed(FilterSlot)' /\ Resent(6, 0, 0)' =>
           Passed(FilterSlot) \/ FilterSlot \notin Due(saved, recVif)
      /\ \A v \in Vifs : Passed(CtrlSlot(v))' /\ Resent(3, v, 0)' =>
           Passed(CtrlSlot(v)) \/ CtrlSlot(v) \notin Due(saved, recVif)
      /\ \A v \in Vifs : Passed(CfgSlot(v))' /\ Resent(3, v, 1)' =>
           Passed(CfgSlot(v)) \/ CfgSlot(v) \notin Due(saved, recVif)
      /\ \A v \in Vifs, q \in Queues : Passed(TxqSlot(v, q))' /\ Resent(3, v, 2)' =>
           Passed(TxqSlot(v, q)) \/ TxqSlot(v, q) \notin Due(saved, recVif)
  BY <1>b, <1>c, NamedSlots, SlotItems DEF Resent
<1>6. Low(Written)'
  BY <1>1, <1>2, <1>3, <1>7 DEF Low
<1>8. Passed(ResetSlot)' => Written'.on
  BY <1>2, <1>3, <1>a, <1>b, <1>c, LiveDue, NamedSlots DEF Agrees
<1>9. Passed(PowerSlot)' /\ Resent(2, 0, 0)' => Written'.power = ideal'.power
  BY <1>1, <1>2, <1>3, <1>5, <1>7, LiveDue, NamedSlots DEF Agrees, Low
<1>10. Passed(ChannelSlot)' /\ Resent(4, 0, 0)' => Written'.channel = ideal'.channel
  BY <1>1, <1>2, <1>3, <1>5, <1>7, LiveDue, NamedSlots DEF Agrees, Low
<1>11. Passed(FilterSlot)' /\ Resent(6, 0, 0)' => Written'.filter = ideal'.filter
  BY <1>1, <1>2, <1>3, <1>5, <1>7, LiveDue, NamedSlots DEF Agrees, Low
<1>12. ASSUME NEW v \in Vifs PROVE AgreesVif(Written, v)'
  <2> SUFFICES ASSUME Resent(3, v, 0)', Passed(CtrlSlot(v))'
               PROVE  AgreesVif(Written, v)'
    BY DEF AgreesVif
  <2>1. AgreesVif(Written, v) /\ Resent(3, v, 0)
    BY <1>3, <1>7 DEF Agrees
  <2>2. HasVif(ideal, v) => Passed(CtrlSlot(v))
    BY <1>2, <1>5, LiveDue, NamedSlots
  <2>3. Written'.vif[v].mode = ideal'.vif[v].mode
    <3>1. CASE HasVif(ideal, v)
      BY <1>1, <1>2, <2>1, <2>2, <3>1 DEF AgreesVif
    <3>2. CASE ~HasVif(ideal, v)
      <4>1. ~HasVif(Written, v)
        BY <1>3, <2>1, <3>2 DEF Low
      <4> QED BY <1>1, <1>2, <3>2, <4>1 DEF HasVif
    <3> QED BY <3>1, <3>2
  <2>4. ASSUME HasVif(ideal', v), Resent(3, v, 1)', Passed(CfgSlot(v))',
               NEW f \in Fields, ideal'.vif[v].cfg[f] # Unset
        PROVE  Written'.vif[v].cfg[f] = ideal'.vif[v].cfg[f]
    <3>1. HasVif(ideal, v) /\ ideal.vif[v].cfg[f] # Unset /\ Resent(3, v, 1)
      BY <1>1, <1>7, <2>4
    <3>2. CfgSlot(v) \in Slots /\ CfgSlot(v)[1] = 3 /\ CfgSlot(v)[2] = v
      BY NamedSlots DEF CfgSlot, Slot
    <3>3. Passed(CfgSlot(v))
      <4>1. CASE recVif = v
        <5>1. CfgSlot(v) \in Due(saved, recVif)
          BY <1>2, <3>1, <4>1, LiveDue
        <5> QED BY <1>5, <2>4, <3>2, <5>1
      <4>2. CASE recVif # v
        BY <1>1, <2>2, <3>1, <3>2, <4>2, AtVif
      <4> QED BY <4>1, <4>2
    <3> QED BY <1>1, <1>2, <2>1, <2>2, <3>1, <3>3 DEF AgreesVif
  <2>5. ASSUME HasVif(ideal', v), Resent(3, v, 2)', NEW q \in Queues,
               Passed(TxqSlot(v, q))', ideal'.vif[v].txq[q] # Unset
        PROVE  Written'.vif[v].txq[q] = ideal'.vif[v].txq[q]
    <3>1. HasVif(ideal, v) /\ ideal.vif[v].txq[q] # Unset /\ Resent(3, v, 2)
      BY <1>1, <1>7, <2>5
    <3>2. /\ TxqSlot(v, q) \in Slots /\ TxqSlot(v, q)[1] = 3
          /\ TxqSlot(v, q)[2] = v
      BY NamedSlots DEF TxqSlot, Slot
    <3>3. Passed(TxqSlot(v, q))
      <4>1. CASE recVif = v
        <5>1. TxqSlot(v, q) \in Due(saved, recVif)
          BY <1>2, <3>1, <4>1, LiveDue
        <5> QED BY <1>5, <2>5, <3>2, <5>1
      <4>2. CASE recVif # v
        BY <1>1, <2>2, <3>1, <3>2, <4>2, AtVif
      <4> QED BY <4>1, <4>2
    <3> QED BY <1>1, <1>2, <2>1, <2>2, <3>1, <3>3 DEF AgreesVif
  <2> QED BY <2>3, <2>4, <2>5 DEF AgreesVif
<1>13. Agrees(Written)'
  BY <1>8, <1>9, <1>10, <1>11, <1>12 DEF Agrees
<1> QED BY <1>6, <1>13

\* A slot and the command that fits it tell of each other.
LEMMA FitsIs ==
  ASSUME NEW c, NEW x, Fits(c, x)
  PROVE  /\ x = ResetSlot <=> c.id = "RESET"
         /\ x = PowerSlot <=> c.id = "TX_POWER"
         /\ x = ChannelSlot <=> c.id = "CHANNEL"
         /\ x = FilterSlot <=> c.id = "MCST_FLTR_CTRL"
         /\ c.id = "MCST_ADDR_CFG" => c.op = "ADD" /\ x[1] = 5
         /\ x[1] = 5 => c.id = "MCST_ADDR_CFG"
         /\ \A v \in Vifs :
              /\ x = CtrlSlot(v) <=> c.id = "VIF_CTRL" /\ c.vif = v
              /\ x = CfgSlot(v) <=> c.id = "VIF_CFG" /\ c.vif = v
              /\ \A q \in Queues : x = TxqSlot(v, q) <=>
                   c.id = "TXQ_PARAMS" /\ c.vif = v /\ c.queue = q
              /\ \A k \in KeyIds : x = KeySlot(v, k) <=>
                   c.id = "SETKEY" /\ c.vif = v /\ c.key = k
         /\ c.id \in {"VIF_CTRL", "SETKEY"} => c.ctrl = "ADD"
<1> USE DEF Slot, ResetSlot, PowerSlot, CtrlSlot, CfgSlot,
     TxqSlot, KeySlot, ChannelSlot, McstSlot, FilterSlot
<1>1. CASE x = ResetSlot /\ c = Reset("ENABLE")
  BY <1>1 DEF Reset
<1>2. CASE x = PowerSlot /\ c.id = "TX_POWER"
  BY <1>2
<1>3. ASSUME NEW v \in Vifs, x = CtrlSlot(v), c.id = "VIF_CTRL", c.vif = v,
             c.ctrl = "ADD"
      PROVE  x = <<3, v, 0, 0>> /\ c.id = "VIF_CTRL" /\ c.vif = v /\ c.ctrl = "ADD"
  BY <1>3
<1>4. CASE x = ChannelSlot /\ c.id = "CHANNEL"
  BY <1>4
<1>5. CASE x = FilterSlot /\ c.id = "MCST_FLTR_CTRL"
  BY <1>5
<1> QED BY <1>1, <1>2, <1>4, <1>5 DEF Fits

Pending == IF txPc = "saved" THEN txCmd ELSE NoCmd

LEMMA PendingEffect ==
  ASSUME Typed, PendingDone, ideal.on, fw.on, Pending.id # "RESET"
  PROVE  /\ Effect(Written, fw, Pending) /\ Effect(ideal, ideal, Pending)
<1>1. CASE txPc = "saved"
  <2>1. PICK V : fw \in FwType(V)
    BY DEF Typed
  <2> QED BY <1>1, <2>1, ApplyEffect DEF Pending, Written, PendingDone
<1>2. CASE txPc # "saved"
  BY <1>2, NoEffect DEF Pending, Written
<1> QED BY <1>1, <1>2

\* What the two writes make of the firmware.
LEMMA WriteWritten ==
  ASSUME Typed, Worker, PendingDone, Restored, WorkWrite, Live
  PROVE  \/ Written' = ideal
         \/ /\ held.id = "RESET" /\ Effect(Written', Fresh, Pending)
            /\ Effect(ideal, ideal, Pending)
         \/ /\ held.id # "RESET" /\ fw.on /\ Passed(ResetSlot)
            /\ Effect(Written, fw, Pending) /\ Effect(fw', fw, held)
            /\ Effect(Written', fw', Pending) /\ Effect(ideal, ideal, Pending)
<1>1. /\ fw' = Apply(fw, held) /\ recPc = "send" /\ held # NoCmd
      /\ UNCHANGED <<txPc, txCmd, ideal>>
  BY DEF WorkWrite, workVars, txVars, histVars
<1>2. PICK V : fw \in FwType(V)
  BY DEF Typed
<1>3. PICK W : fw' \in FwType(W)
  BY <1>1, <1>2, ApplyWidens
<1>4. ideal.on /\ Fits(held, recSlot) /\ recSlot \in Slots
  BY <1>1 DEF Live, Worker
<1>5. Low(Written) /\ Agrees(Written)
  BY <1>1 DEF Restored, Serving
<1>6. CASE Pending.id = "RESET"
  <2>1. txPc = "saved" /\ txCmd.id = "RESET"
    BY <1>6 DEF Pending, NoCmd
  <2>2. ideal = Fresh /\ txCmd.type = "ENABLE"
    BY <1>4, <2>1 DEF PendingDone
  <2>3. Written' = Apply(fw', txCmd)
    BY <1>1, <2>1 DEF Written
  <2> QED BY <1>3, <2>1, <2>2, <2>3, ApplyReset_
<1>7. CASE Pending.id # "RESET" /\ held.id = "RESET"
  <2>1. held = Reset("ENABLE")
    BY <1>4, <1>7 DEF Fits
  <2>2. fw' = Fresh
    BY <1>1, <1>2, <2>1, ApplyReset_ DEF Reset
  <2>3. Effect(Written', fw', Pending) /\ Effect(ideal, ideal, Pending)
    <3>1. CASE txPc = "saved"
      BY <1>1, <1>3, <1>4, <1>7, <2>2, <3>1, FreshSlots, ApplyEffect
         DEF Pending, Written, PendingDone
    <3>2. CASE txPc # "saved"
      BY <1>1, <3>2, NoEffect DEF Pending, Written
    <3> QED BY <3>1, <3>2
  <2> QED BY <1>7, <2>2, <2>3
<1>8. CASE Pending.id # "RESET" /\ held.id # "RESET"
  <2>1. Passed(ResetSlot)
    <3>1. Before(ResetSlot, recSlot)
      <4>1. recSlot # ResetSlot
        BY <1>4, <1>8, FitsIs
      <4>2. recSlot[1] >= 1 /\ recSlot[1] \in Nat
        BY <1>4, <1>8 DEF Fits, Slot, ResetSlot, PowerSlot, CtrlSlot, CfgSlot,
           TxqSlot, KeySlot, ChannelSlot, McstSlot, FilterSlot
      <4>3. ~Before(recSlot, ResetSlot)
        <5>1. ResetSlot[1] = 1 /\ ResetSlot[2] = 0 /\ ResetSlot[3] = 0
              /\ ResetSlot[4] = 0 /\ ResetSlot \in Slots
          BY NamedSlots DEF ResetSlot, Slot
        <5>2. recSlot[2] \in Nat /\ recSlot[3] \in Nat /\ recSlot[4] \in Nat
          BY <1>4 DEF Slots
        <5> QED BY <1>4, <4>2, <5>1, <5>2, BeforeIs
      <4> QED BY <1>4, <4>1, <4>3, BeforeOrders, NamedSlots
    <3> QED BY <3>1 DEF Passed
  <2>2. Written.on
    BY <1>5, <2>1 DEF Agrees
  <2>3. fw.on
    <3>1. ASSUME ~fw.on PROVE FALSE
      <4>1. Written = fw
        BY <1>8, <3>1, ApplyOff DEF Written, Pending
      <4> QED BY <2>2, <3>1, <4>1
    <3> QED BY <3>1
  <2>4. Effect(Written, fw, Pending) /\ Effect(ideal, ideal, Pending)
    BY <1>4, <1>8, <2>3, PendingEffect
  <2>5. Effect(fw', fw, held)
    BY <1>1, <1>2, <1>8, <2>3, ApplyEffect
  <2>6. fw'.on
    BY <2>3, <2>5 DEF Effect
  <2>7. Effect(Written', fw', Pending)
    <3>1. CASE txPc = "saved"
      BY <1>1, <1>3, <1>8, <2>6, <3>1, ApplyEffect DEF Pending, Written
    <3>2. CASE txPc # "saved"
      BY <1>1, <3>2, NoEffect DEF Pending, Written
    <3> QED BY <3>1, <3>2
  <2> QED BY <1>8, <2>1, <2>3, <2>4, <2>5, <2>7
<1> QED BY <1>6, <1>7, <1>8

\* The worker's write passes the slot, with the value that belongs there; a
\* command of the transmit thread's that is written after it has the same.
LEMMA WriteRestored ==
  ASSUME Typed, Worker, PendingDone, HeldAgrees, Restored, WorkWrite
  PROVE  Restored'
<1> SUFFICES ASSUME Live' PROVE (Low(Written) /\ Agrees(Written))'
  BY DEF Restored
<1> DEFINE c == Pending
           F == Written'
<1>1. /\ recPc = "send" /\ held # NoCmd /\ held' = NoCmd
      /\ UNCHANGED <<state, ideal, saved, recSlot, recPc, stale>>
  BY DEF WorkWrite, workVars, hostVars, histVars
<1>2. Live /\ ideal.on
  BY <1>1 DEF Live
<1>3. Low(Written) /\ Agrees(Written)
  BY <1>1, <1>2 DEF Restored, Serving
<1>4. \A a, b, d : Resent(a, b, d)' <=> Resent(a, b, d)
  BY <1>1 DEF Resent
<1>5. /\ \A x : Passed(x)' <=> Passed(x) \/ x = recSlot
      /\ \A x : Passed(x)' <=> Before(x, recSlot) \/ x = recSlot
  BY <1>1 DEF Passed
<1>6. Fits(held, recSlot) /\ recSlot \in Slots
  BY <1>1 DEF Worker
<1>7. (ideal.on => Low(ideal) /\ Agrees(ideal))'
  BY SelfAgrees, PTL
<1>8. CASE F = ideal
  BY <1>1, <1>2, <1>7, <1>8 DEF Low, Agrees, AgreesVif
<1>9. CASE held.id = "RESET" /\ Effect(F, Fresh, c) /\ Effect(ideal, ideal, c)
  <2>1. recSlot = ResetSlot
    BY <1>6, <1>9, FitsIs
  <2>2. \A x \in Slots : Before(ResetSlot, x) => ~Passed(x)'
    BY <1>5, <2>1, BeforeOrders, NamedSlots
  <2>3. F.on
    BY <1>9, FreshSlots DEF Effect
  <2>4. /\ ~Passed(PowerSlot)' /\ ~Passed(ChannelSlot)' /\ ~Passed(FilterSlot)'
        /\ \A v \in Vifs : ~Passed(CtrlSlot(v))'
    BY <2>2, NamedSlots, SlotOrder
  <2> HIDE DEF F, c
  <2>5. /\ ideal.power = Unset => F.power = Unset
        /\ ideal.channel = Unset => F.channel = Unset
        /\ ideal.filter = Unset => F.filter = Unset
    BY <1>9, FreshSlots DEF Effect
  <2>6. ASSUME NEW v \in Vifs, ~HasVif(ideal, v) PROVE ~HasVif(F, v)
    BY <1>9, <2>6, FreshSlots DEF Effect, VifEffect, HasVif
  <2>7. Low(Written)'
    BY <1>1, <2>3, <2>5, <2>6 DEF Low, F
  <2>8. Agrees(Written)'
    BY <2>3, <2>4 DEF Agrees, AgreesVif, F
  <2> QED BY <2>7, <2>8
<1>10. CASE /\ held.id # "RESET" /\ fw.on /\ Passed(ResetSlot)
            /\ Effect(Written, fw, c) /\ Effect(fw', fw, held)
            /\ Effect(F, fw', c) /\ Effect(ideal, ideal, c)
  <2> HIDE DEF Written, Pending
  <2>1. F.on
    BY <1>10 DEF Effect
  <2>2. /\ recSlot = PowerSlot <=> held.id = "TX_POWER"
        /\ recSlot = ChannelSlot <=> held.id = "CHANNEL"
        /\ recSlot = FilterSlot <=> held.id = "MCST_FLTR_CTRL"
    BY <1>6, FitsIs
  <2>3. /\ recSlot = PowerSlot /\ Resent(2, 0, 0) => held.val = ideal.power
        /\ recSlot = ChannelSlot /\ Resent(4, 0, 0) => held.val = ideal.channel
        /\ recSlot = FilterSlot /\ Resent(6, 0, 0) => held.val = ideal.filter
        /\ \A v \in Vifs : HeldVif(v)
    BY <1>1, <1>2 DEF HeldAgrees
  <2>4. /\ Resent(2, 0, 0) /\ ideal.power = Unset => F.power = Unset
        /\ Passed(PowerSlot)' /\ Resent(2, 0, 0) => F.power = ideal.power
    BY <1>3, <1>5, <1>10, <2>2, <2>3 DEF Effect, Low, Agrees
  <2>5. /\ Resent(4, 0, 0) /\ ideal.channel = Unset => F.channel = Unset
        /\ Passed(ChannelSlot)' /\ Resent(4, 0, 0) => F.channel = ideal.channel
    BY <1>3, <1>5, <1>10, <2>2, <2>3 DEF Effect, Low, Agrees
  <2>6. /\ Resent(6, 0, 0) /\ ideal.filter = Unset => F.filter = Unset
        /\ Passed(FilterSlot)' /\ Resent(6, 0, 0) => F.filter = ideal.filter
    BY <1>3, <1>5, <1>10, <2>2, <2>3 DEF Effect, Low, Agrees
  <2>7. ASSUME NEW v \in Vifs
        PROVE  /\ Resent(3, v, 0) /\ ~HasVif(ideal, v) => ~HasVif(F, v)
               /\ AgreesVif(Written, v)'
    <3> DEFINE o == fw.vif[v]
               g == fw'.vif[v]
               n == F.vif[v]
               w == Written.vif[v]
               i == ideal.vif[v]
    <3>1. /\ VifEffect(w, o, c, v) /\ VifEffect(g, o, held, v)
          /\ VifEffect(n, g, c, v) /\ VifEffect(i, i, c, v)
      BY <1>10 DEF Effect
    <3>2. /\ AgreesVif(Written, v) /\ HeldVif(v)
          /\ Resent(3, v, 0) /\ i.mode = NoMode => w.mode = NoMode
      BY <1>3, <2>3 DEF Low, Agrees, HasVif
    <3>3. /\ recSlot = CtrlSlot(v) <=> held.id = "VIF_CTRL" /\ held.vif = v
          /\ recSlot = CfgSlot(v) <=> held.id = "VIF_CFG" /\ held.vif = v
          /\ \A q \in Queues : recSlot = TxqSlot(v, q) <=>
               held.id = "TXQ_PARAMS" /\ held.vif = v /\ held.queue = q
      BY <1>6, FitsIs
    <3>4. held.id = "VIF_CTRL" => held.ctrl = "ADD"
      BY <1>6, FitsIs
    <3>5. Resent(3, v, 0) /\ i.mode = NoMode => n.mode = NoMode
      <4> HIDE DEF o, g, n, w, i
      <4>1. HeldVif(v) => (recSlot = CtrlSlot(v) /\ Resent(3, v, 0) => held.mode = i.mode)
        BY DEF HeldVif, i
      <4> QED BY <3>1, <3>2, <3>3, <3>4, <4>1 DEF VifEffect, ModeOf
    <3>6. ASSUME Resent(3, v, 0), Passed(CtrlSlot(v))'
          PROVE  n.mode = i.mode
      <4>1. HeldVif(v) => (recSlot = CtrlSlot(v) /\ Resent(3, v, 0) => held.mode = i.mode)
        BY DEF HeldVif
      <4>2. recSlot # CtrlSlot(v) => w.mode = i.mode
        BY <1>5, <3>2, <3>6 DEF AgreesVif
      <4> HIDE DEF o, g, n, w, i
      <4> QED BY <3>1, <3>2, <3>3, <3>4, <3>6, <4>1, <4>2 DEF VifEffect, ModeOf
    <3>7. ASSUME Resent(3, v, 0), i.mode # NoMode, NEW x \in Slots,
                 Before(CtrlSlot(v), x), Passed(x)'
          PROVE  /\ recSlot # CtrlSlot(v)
                 /\ Passed(CtrlSlot(v)) /\ Passed(CtrlSlot(v))'
                 /\ x # recSlot => Passed(x)
                 /\ ~(held.id = "VIF_CTRL" /\ held.vif = v)
      <4>1. Before(x, recSlot) \/ x = recSlot
        BY <1>5, <3>7
      <4>2. Before(CtrlSlot(v), recSlot)
        BY <1>6, <3>7, <4>1, BeforeTransitive, NamedSlots
      <4>3. recSlot # CtrlSlot(v)
        BY <1>6, <4>2, BeforeOrders
      <4> QED BY <1>5, <3>3, <3>7, <4>2, <4>3 DEF Passed
    <3>8. ASSUME Resent(3, v, 0), i.mode # NoMode, Resent(3, v, 1),
                 Passed(CfgSlot(v))', NEW f \in Fields, i.cfg[f] # Unset
          PROVE  n.cfg[f] = i.cfg[f]
      <4>1. /\ Passed(CtrlSlot(v)) /\ Passed(CtrlSlot(v))'
            /\ CfgSlot(v) # recSlot => Passed(CfgSlot(v))
            /\ ~(held.id = "VIF_CTRL" /\ held.vif = v)
        BY <3>7, <3>8, NamedSlots, SlotOrder
      <4>2. n.mode = i.mode
        BY <3>6, <3>8, <4>1
      <4>3. CfgSlot(v) # recSlot => w.cfg[f] = i.cfg[f]
        BY <3>2, <3>8, <4>1 DEF AgreesVif, HasVif
      <4>4. CfgSlot(v) = recSlot => f \in DOMAIN held.set /\ held.set[f] = i.cfg[f]
        BY <3>2, <3>8 DEF HeldVif, HasVif
      <4>5. ~(c.id = "VIF_CTRL" /\ c.vif = v)
        BY <3>1, <3>8 DEF VifEffect
      <4>6. g.mode = n.mode /\ o.mode = g.mode
        BY <3>1, <4>1, <4>5 DEF VifEffect
      <4> HIDE DEF o, g, n, w, i
      <4>7. CASE c.id = "VIF_CFG" /\ c.vif = v /\ f \in DOMAIN c.set
        BY <3>1, <3>8, <4>2, <4>5, <4>6, <4>7 DEF VifEffect
      <4>8. CASE ~(c.id = "VIF_CFG" /\ c.vif = v /\ f \in DOMAIN c.set)
        <5>1. n.cfg[f] = g.cfg[f] /\ w.cfg[f] = o.cfg[f]
          BY <3>1, <4>5, <4>8 DEF VifEffect
        <5>2. CASE CfgSlot(v) = recSlot
          <6>1. g.cfg[f] = held.set[f]
            BY <3>1, <3>3, <3>8, <4>1, <4>2, <4>4, <4>6, <5>2 DEF VifEffect
          <6> QED BY <4>4, <5>1, <5>2, <6>1
        <5>3. CASE CfgSlot(v) # recSlot
          <6>1. g.cfg[f] = o.cfg[f]
            BY <3>1, <3>3, <4>1, <5>3 DEF VifEffect
          <6> QED BY <4>3, <5>1, <5>3, <6>1
        <5> QED BY <5>2, <5>3
      <4> QED BY <4>7, <4>8
    <3>9. ASSUME Resent(3, v, 0), i.mode # NoMode, Resent(3, v, 2),
                 NEW q \in Queues, Passed(TxqSlot(v, q))', i.txq[q] # Unset
          PROVE  n.txq[q] = i.txq[q]
      <4>1. /\ Passed(CtrlSlot(v)) /\ Passed(CtrlSlot(v))'
            /\ TxqSlot(v, q) # recSlot => Passed(TxqSlot(v, q))
            /\ ~(held.id = "VIF_CTRL" /\ held.vif = v)
        BY <3>7, <3>9, NamedSlots, SlotOrder
      <4>2. n.mode = i.mode
        BY <3>6, <3>9, <4>1
      <4>3. TxqSlot(v, q) # recSlot => w.txq[q] = i.txq[q]
        BY <3>2, <3>9, <4>1 DEF AgreesVif, HasVif
      <4>4. TxqSlot(v, q) = recSlot => held.val = i.txq[q]
        BY <3>2, <3>9 DEF HeldVif, HasVif
      <4>5. ~(c.id = "VIF_CTRL" /\ c.vif = v)
        BY <3>1, <3>9 DEF VifEffect
      <4>6. g.mode = n.mode /\ o.mode = g.mode
        BY <3>1, <4>1, <4>5 DEF VifEffect
      <4> HIDE DEF o, g, n, w, i
      <4>7. CASE c.id = "TXQ_PARAMS" /\ c.vif = v /\ c.queue = q
        BY <3>1, <3>9, <4>2, <4>5, <4>6, <4>7 DEF VifEffect
      <4>8. CASE ~(c.id = "TXQ_PARAMS" /\ c.vif = v /\ c.queue = q)
        <5>1. n.txq[q] = g.txq[q] /\ w.txq[q] = o.txq[q]
          BY <3>1, <4>5, <4>8 DEF VifEffect
        <5>2. CASE TxqSlot(v, q) = recSlot
          <6>1. g.txq[q] = held.val
            BY <3>1, <3>3, <3>9, <4>1, <4>2, <4>6, <5>2 DEF VifEffect
          <6> QED BY <4>4, <5>1, <5>2, <6>1
        <5>3. CASE TxqSlot(v, q) # recSlot
          <6>1. g.txq[q] = o.txq[q]
            BY <3>1, <3>3, <4>1, <5>3 DEF VifEffect
          <6> QED BY <4>3, <5>1, <5>3, <6>1
        <5> QED BY <5>2, <5>3
      <4> QED BY <4>7, <4>8
    <3>10. AgreesVif(Written, v)'
      BY <1>1, <1>4, <3>6, <3>8, <3>9 DEF AgreesVif, HasVif
    <3> QED BY <3>5, <3>10 DEF HasVif
  <2>8. Low(Written)'
    BY <1>1, <1>4, <2>1, <2>4, <2>5, <2>6, <2>7 DEF Low
  <2>9. Agrees(Written)'
    BY <1>1, <1>4, <2>1, <2>4, <2>5, <2>6, <2>7 DEF Agrees
  <2> QED BY <2>8, <2>9
<1> QED BY <1>2, <1>8, <1>9, <1>10, WriteWritten

LEMMA StepRestored ==
  Typed /\ SavedTracksIdeal /\ Worker /\ PendingDone /\ HeldAgrees /\ Restored
    /\ [Next]_vars => Restored'
<1> SUFFICES ASSUME Typed, SavedTracksIdeal, Worker, PendingDone, HeldAgrees,
                    Restored, [Next]_vars
             PROVE  Restored'
  OBVIOUS
<1>1. CASE /\ UNCHANGED <<ideal, held, recSlot, recPc, stale>>
           /\ Written' = Written /\ (Live' => Live)
  <2>1. \A x : Passed(x)' <=> Passed(x)
    BY <1>1 DEF Passed
  <2>2. \A v \in Vifs : AgreesVif(Written, v)' <=> AgreesVif(Written, v)
    BY <1>1, <2>1 DEF AgreesVif, Resent
  <2>3. Low(Written)' <=> Low(Written)
    BY <1>1 DEF Low, Resent
  <2>4. Agrees(Written)' <=> Agrees(Written)
    BY <1>1, <2>1, <2>2 DEF Agrees, Resent
  <2> QED BY <1>1, <2>3, <2>4 DEF Restored, Serving
<1>2. UNCHANGED <<state, ideal, saved>> => (Live' => Live)
  BY DEF Live
<1>3. UNCHANGED <<fw, txPc, txCmd>> => Written' = Written
  BY DEF Written
<1>4. CASE Start \/ StopEnd
  BY <1>4, StartStopNotLive DEF Restored
<1>5. CASE HostNext /\ ~Start /\ ~StopEnd
  <2>1. /\ UNCHANGED <<ideal, saved, held, recSlot, recPc, stale, fw, txPc, txCmd>>
        /\ state # "off"
    BY <1>5, HostQuiet DEF otherVars, histVars, recVars, txVars
  <2> QED BY <1>1, <1>3, <2>1 DEF Live
<1>6. CASE TxSave
  BY <1>6, SaveRestored
<1>7. CASE TxWrite
  <2>1. CASE Serving
    <3>1. alive /\ txPc = "saved"
      BY <1>7, <2>1 DEF Worker, TxWrite
    <3>2. fw' = Apply(fw, txCmd) /\ txPc' = "loop"
      BY <1>7, <3>1 DEF TxWrite
    <3>3. Written' = Written
      BY <3>1, <3>2 DEF Written
    <3> QED BY <1>1, <1>2, <1>7, <3>3 DEF TxWrite, hostVars, recVars, histVars
  <2>2. CASE ~Serving
    BY <1>7, <2>2 DEF TxWrite, recVars, Restored, Serving
  <2> QED BY <2>1, <2>2
<1>8. CASE TxWake \/ TxRest \/ TxTake
  <2>1. txPc # "saved" /\ txPc' # "saved" /\ fw' = fw
    BY <1>8 DEF TxWake, TxRest, TxTake, envVars
  <2>2. Written' = Written
    BY <2>1 DEF Written
  <2> QED BY <1>1, <1>2, <1>8, <2>2 DEF TxWake, TxRest, TxTake, envVars, hostVars,
                                  histVars
<1>9. CASE FwDie \/ WorkDown
  BY <1>9 DEF FwDie, WorkDown, Restored, Serving
<1>10. CASE WorkUp
  BY <1>10, UpRestored
<1>11. CASE WorkCopy \/ WorkSkip \/ WorkReleased \/ WorkDone
  BY <1>11, PassRestored
<1>12. CASE WorkWrite
  BY <1>12, WriteRestored
<1>13. CASE UNCHANGED vars
  BY <1>1, <1>2, <1>3, <1>13 DEF vars, hostVars, recVars, histVars, txVars
<1> QED BY <1>4, <1>5, <1>6, <1>7, <1>8, <1>9, <1>10, <1>11, <1>12, <1>13 DEF Next

-----------------------------------------------------------------------------

RestoredInv ==
  /\ Shaped /\ Typed /\ SavedTracksIdeal
  /\ Worker /\ PendingDone /\ HeldAgrees /\ Restored

LEMMA InitRestored == Init => RestoredInv
<1> SUFFICES ASSUME Init PROVE RestoredInv
  OBVIOUS
<1>1. /\ state = "off" /\ txPc = "asleep" /\ held = NoCmd
  BY DEF Init
<1>2. PendingDone /\ HeldAgrees /\ Restored
  BY <1>1 DEF PendingDone, HeldAgrees, Restored, Live
<1> QED BY <1>2, InitTracks, InitTyped, InitWorker DEF RestoredInv

LEMMA AlwaysRestored == Spec => []RestoredInv
<1>1. RestoredInv /\ [Next]_vars => RestoredInv'
  BY StepTracks, StepTyped, StepWorker, StepPending, StepHeld, StepRestored
     DEF RestoredInv
<1> QED BY <1>1, InitRestored, PTL DEF Spec

\* Between recoveries everything is passed, and nothing is being written.
LEMMA SettledRestored ==
  ASSUME RestoredInv, Settled
  PROVE  Agrees(fw) /\ \A x : Passed(x)
<1>1. Live /\ Serving /\ Written = fw
  BY DEF Settled, Live, Serving, Written
<1> QED BY <1>1 DEF RestoredInv, Restored, Passed, Settled

\* After any number of recoveries the firmware is on and has the power, the
\* channel and the filter of one that never died (hal.c: tx_thread saves a
\* command before it looks at hal_disabled, and send_fw_recovery_cmd sends
\* what is saved), but for a setting that the last replay had no memory to
\* copy (cmd_send) and one that the worker and the transmit thread were
\* writing at the same time. For every number of interfaces, every sequence
\* of calls, every failure to allocate and every order of the two threads'
\* steps.
THEOREM GlobalsAreRestored == Spec => []GlobalsRestored
<1>1. RestoredInv => GlobalsRestored
  BY SettledRestored DEF GlobalsRestored, Agrees
<1> QED BY <1>1, AlwaysRestored, PTL

\* It has the interfaces of one that never died, each with every parameter
\* and the parameters of every queue that the host has set since the
\* interface was added, although the worker sends an interface's own only
\* while that interface is the last whose control command it has sent - but
\* for the parts, or the whole interface, that the last replay had no memory
\* to copy.
THEOREM InterfacesAreRestored == Spec => []InterfacesRestored
<1>1. ASSUME RestoredInv PROVE InterfacesRestored
  <2> SUFFICES ASSUME Settled, NEW v \in Vifs, Resent(3, v, 0)
               PROVE  /\ fw.vif[v].mode = ideal.vif[v].mode
                      /\ HasVif(ideal, v) =>
                           /\ Resent(3, v, 1) => \A f \in SetFields(ideal.vif[v].cfg) :
                                fw.vif[v].cfg[f] = ideal.vif[v].cfg[f]
                           /\ Resent(3, v, 2) => \A q \in Queues :
                                ideal.vif[v].txq[q] # Unset =>
                                  fw.vif[v].txq[q] = ideal.vif[v].txq[q]
    BY DEF InterfacesRestored
  <2>1. AgreesVif(fw, v) /\ \A x : Passed(x)
    BY <1>1, SettledRestored DEF Agrees
  <2> QED BY <2>1 DEF AgreesVif, SetFields
<1> QED BY <1>1, AlwaysRestored, PTL

-----------------------------------------------------------------------------
(* What a call appends to the queue. Of most, only the control commands of *)
(* interfaces matter below.                                                *)

Only(list, K) ==
  /\ \E U : list \in Seq(U)
  /\ \A n \in 1 .. Len(list) :
       /\ list[n].cmd.id \notin {"SETKEY", "MCST_ADDR_CFG"}
       /\ list[n].cmd.id = "VIF_CTRL" => list[n].cmd.vif \in K

LEMMA OnlyNone ==
  ASSUME NEW K
  PROVE  Only(<<>>, K)
<1>1. <<>> \in Seq({}) /\ Len(<<>>) = 0
  OBVIOUS
<1>2. 1 .. Len(<<>>) = {}
  BY <1>1
<1>3. \A n \in 1 .. Len(<<>>) : FALSE
  BY <1>2
<1>4. \E U : <<>> \in Seq(U)
  BY <1>1
<1> QED BY <1>3, <1>4, Zenon DEF Only

LEMMA OnlyOne ==
  ASSUME NEW K, NEW e, e.cmd.id \notin {"SETKEY", "MCST_ADDR_CFG"},
         e.cmd.id = "VIF_CTRL" => e.cmd.vif \in K
  PROVE  Only(<<e>>, K)
<1> DEFINE s == <<e>>
<1>1. s \in Seq({e}) /\ Len(s) = 1 /\ s[1] = e
  OBVIOUS
<1> HIDE DEF s
<1>2. \A n \in 1 .. Len(s) : s[n] = e
  BY <1>1
<1> QED BY <1>1, <1>2 DEF Only

LEMMA OnlyConcat ==
  ASSUME NEW K, NEW a, NEW b, Only(a, K), Only(b, K)
  PROVE  Only(a \o b, K)
<1>1. PICK U : a \in Seq(U)
  BY DEF Only
<1>2. PICK W : b \in Seq(W)
  BY DEF Only
<1>3. a \in Seq(U \cup W) /\ b \in Seq(U \cup W)
  <2>1. \A s \in Seq(U) : s \in Seq(U \cup W)
    OBVIOUS
  <2>2. \A s \in Seq(W) : s \in Seq(U \cup W)
    OBVIOUS
  <2> QED BY <1>1, <1>2, <2>1, <2>2
<1>4. /\ a \o b \in Seq(U \cup W) /\ Len(a \o b) = Len(a) + Len(b)
      /\ \A i \in 1 .. Len(a) + Len(b) :
           (a \o b)[i] = IF i <= Len(a) THEN a[i] ELSE b[i - Len(a)]
  BY <1>3, ConcatProperties
<1>5. Len(a) \in Nat /\ Len(b) \in Nat
  BY <1>3
<1>6. ASSUME NEW n \in 1 .. Len(a) + Len(b)
      PROVE  \/ n \in 1 .. Len(a) /\ (a \o b)[n] = a[n]
             \/ n - Len(a) \in 1 .. Len(b) /\ (a \o b)[n] = b[n - Len(a)]
  BY <1>4, <1>5
<1> QED BY <1>4, <1>6 DEF Only

LEMMA OnlyMap ==
  ASSUME NEW K, NEW k \in Nat, NEW f, DOMAIN f = 1 .. k, f = [n \in 1 .. k |-> f[n]],
         \A n \in 1 .. k : /\ f[n].cmd.id \notin {"SETKEY", "MCST_ADDR_CFG"}
                           /\ f[n].cmd.id = "VIF_CTRL" => f[n].cmd.vif \in K
  PROVE  Only(f, K)
<1> DEFINE U == {f[n] : n \in 1 .. k}
<1>1. f \in [1 .. k -> U]
  OBVIOUS
<1>2. f \in Seq(U)
  BY <1>1
<1>3. Len(f) = k
  BY <1>2
<1> QED BY <1>2, <1>3 DEF Only

LEMMA OnlyMore ==
  ASSUME NEW K, NEW L, K \subseteq L, NEW a, Only(a, K)
  PROVE  Only(a, L)
  BY DEF Only

LEMMA SetSizes ==
  /\ Cardinality(Active) \in Nat /\ Cardinality(Queues) \in Nat
  /\ \A S \in SUBSET Queues : Cardinality(S) \in Nat
<1>1. IsFiniteSet(Vifs) /\ IsFiniteSet(Queues) /\ Active \subseteq Vifs
  BY CommandsAssumption DEF Active
<1>2. \A S \in SUBSET Queues : IsFiniteSet(S)
  BY <1>1, FS_Subset
<1> QED BY <1>1, <1>2, FS_Subset, FS_CardinalityType

LEMMA VifAddOnly ==
  ASSUME NEW v, NEW m, NEW e
  PROVE  Only(VifAdd(v, m, e), {v})
<1> DEFINE a == <<Must(VifCtrl(v, m, "ADD")), Must(ShortRetry(v, Mark)),
                  Must(LongRetry(v, Mark))>>
           b == Each(Queues, LAMBDA q : Must(TxqParams(v, q, e[q])))
<1>1. Only(a, {v})
  <2>1. a \in Seq({a[1], a[2], a[3]}) /\ Len(a) = 3
    OBVIOUS
  <2>2. /\ a[1].cmd.id = "VIF_CTRL" /\ a[1].cmd.vif = v
        /\ a[2].cmd.id = "VIF_CFG" /\ a[3].cmd.id = "VIF_CFG"
    BY DEF Must, VifCtrl, ShortRetry, LongRetry, Change, VifCfg
  <2> HIDE DEF a
  <2>3. \A n \in 1 .. 3 : n = 1 \/ n = 2 \/ n = 3
    OBVIOUS
  <2> QED BY <2>1, <2>2, <2>3 DEF Only
<1>2. Only(b, {v})
  <2>1. b = [n \in 1 .. Cardinality(Queues) |->
               Must(TxqParams(v, InOrder(Queues)[n], e[InOrder(Queues)[n]]))]
    BY DEF Each
  <2>2. \A n \in 1 .. Cardinality(Queues) : b[n].cmd.id = "TXQ_PARAMS"
    <3> TAKE n \in 1 .. Cardinality(Queues)
    <3>1. PICK x, y : b[n] = Must(TxqParams(v, x, y))
      BY <2>1
    <3> HIDE DEF b
    <3> QED BY <3>1 DEF Must, TxqParams
  <2>3. /\ DOMAIN b = 1 .. Cardinality(Queues)
        /\ b = [n \in 1 .. Cardinality(Queues) |-> b[n]]
    BY <2>1
  <2> HIDE DEF b
  <2> QED BY <2>2, <2>3, SetSizes, OnlyMap
<1>3. Only(<<>>, {v})
  BY OnlyNone
<1>4. VifAdd(v, m, e) = a \o (IF m = "AP" THEN b ELSE <<>>)
  BY DEF VifAdd
<1> HIDE DEF a, b
<1> QED BY <1>1, <1>2, <1>3, <1>4, OnlyConcat

\* The builders that are neither about a key, an address nor an interface.
Plain(c) == c.id \notin {"SETKEY", "MCST_ADDR_CFG", "VIF_CTRL"}

LEMMA PlainBuilders ==
  ASSUME NEW v, NEW x, NEW q
  PROVE  /\ Plain(TxPower(x)) /\ Plain(Channel(x)) /\ Plain(McstFilterControl(x))
         /\ Plain(RcvBcnMode(x)) /\ Plain(TxqParams(v, q, x))
         /\ Plain(VifSmps(v, x)) /\ Plain(ShortRetry(v, x)) /\ Plain(LongRetry(v, x))
         /\ Plain(VifBssid(v, x)) /\ Plain(VifBasicRates(v, x))
         /\ Plain(VifShortSlot(v, x)) /\ Plain(VifConnState(v, x))
         /\ Plain(VifAid(v, x)) /\ Plain(VifOpChannel(v, x))
         /\ Plain(VifAssocCap(v, x)) /\ Plain(VifBeaconInt(v, x))
         /\ Plain(VifDtimPeriod(v, x)) /\ Plain(Reset(x))
  BY DEF Plain, TxPower, Channel, McstFilterControl, RcvBcnMode, TxqParams, VifSmps,
     ShortRetry, LongRetry, VifBssid, VifBasicRates, VifShortSlot, VifConnState,
     VifAid, VifOpChannel, VifAssocCap, VifBeaconInt, VifDtimPeriod, Reset, Change,
     VifCfg

LEMMA PlainOne ==
  ASSUME NEW c, Plain(c), NEW e, e \in {Must(c), May(c)}
  PROVE  Only(<<e>>, {})
<1>1. e.cmd = c
  BY DEF Must, May
<1> QED BY <1>1, OnlyOne DEF Plain

LEMMA PlainMap ==
  ASSUME NEW k \in Nat, NEW f, DOMAIN f = 1 .. k, f = [n \in 1 .. k |-> f[n]],
         \A n \in 1 .. k : Plain(f[n].cmd)
  PROVE  Only(f, {})
  BY OnlyMap DEF Plain

LEMMA OnlyWhen ==
  ASSUME NEW K, NEW a, NEW p, Only(a, K)
  PROVE  Only(When(p, a), K) /\ Only(IF p THEN a ELSE <<>>, K)
  BY OnlyNone DEF When

LEMMA ConfigOnly ==
  ASSUME NEW changed
  PROVE  Only(ConfigUpTo(changed), {}) /\ Only(ConfigRest(changed), {})
<1>1. Only(<<Must(TxPower(Mark))>>, {}) /\ Only(<<Must(Channel(Mark))>>, {})
  BY PlainBuilders, PlainOne
<1>2. Only(ConfigUpTo(changed), {})
  BY <1>1, OnlyWhen, OnlyConcat DEF ConfigUpTo
<1> DEFINE a == Each(Active, LAMBDA v : May(VifSmps(v, Mark)))
           b == EachTwo(Active, LAMBDA v : May(ShortRetry(v, Mark)),
                                LAMBDA v : May(LongRetry(v, Mark)))
           k == Cardinality(Active)
<1>3. Only(a, {})
  <2>1. a = [n \in 1 .. k |-> May(VifSmps(InOrder(Active)[n], Mark))]
    BY DEF Each
  <2>2. DOMAIN a = 1 .. k /\ a = [n \in 1 .. k |-> a[n]]
    BY <2>1
  <2>3. ASSUME NEW n \in 1 .. k PROVE Plain(a[n].cmd)
    <3>1. PICK v : a[n] = May(VifSmps(v, Mark))
      BY <2>1
    <3> HIDE DEF a
    <3> QED BY <3>1, PlainBuilders DEF May
  <2> HIDE DEF a
  <2> QED BY <2>2, <2>3, SetSizes, PlainMap
<1>4. Only(b, {})
  <2>1. b = [n \in 1 .. 2 * k |->
               IF n % 2 = 1 THEN May(ShortRetry(InOrder(Active)[(n + 1) \div 2], Mark))
                            ELSE May(LongRetry(InOrder(Active)[n \div 2], Mark))]
    BY DEF EachTwo
  <2>2. DOMAIN b = 1 .. 2 * k /\ b = [n \in 1 .. 2 * k |-> b[n]]
    BY <2>1
  <2>3. ASSUME NEW n \in 1 .. 2 * k PROVE Plain(b[n].cmd)
    <3>1. PICK v : b[n] = May(ShortRetry(v, Mark)) \/ b[n] = May(LongRetry(v, Mark))
      BY <2>1
    <3> HIDE DEF b
    <3> QED BY <3>1, PlainBuilders DEF May
  <2>4. 2 * k \in Nat
    BY SetSizes
  <2> HIDE DEF b, k
  <2> QED BY <2>2, <2>3, <2>4, PlainMap
<1>5. ConfigRest(changed) = (IF "SMPS" \in changed THEN a ELSE <<>>)
                            \o (IF "RETRY" \in changed THEN b ELSE <<>>)
  BY DEF ConfigRest
<1> HIDE DEF a, b, k
<1> QED BY <1>2, <1>3, <1>4, <1>5, OnlyWhen, OnlyConcat

LEMMA BssOnly ==
  ASSUME NEW v, NEW changed, NEW assoc
  PROVE  /\ Only(BssCommon(v, changed), {}) /\ Only(BssStation(v, changed, assoc), {})
         /\ Only(BssBeacon(v, changed), {})
<1>1. /\ Only(<<Must(VifBssid(v, Mark))>>, {})
      /\ Only(<<Must(VifBasicRates(v, Mark))>>, {})
      /\ Only(<<Must(VifShortSlot(v, Mark))>>, {})
      /\ Only(<<Must(VifConnState(v, Mark))>>, {})
      /\ Only(<<Must(VifBeaconInt(v, Mark))>>, {})
      /\ Only(<<Must(VifDtimPeriod(v, Mark))>>, {})
      /\ Only(<<Must(VifAid(v, Mark))>>, {})
      /\ Only(<<Must(VifOpChannel(v, Mark))>>, {})
      /\ Only(<<Must(VifAssocCap(v, Mark))>>, {})
  BY PlainBuilders, PlainOne
<1> DEFINE S == {q \in Queues : edca[v][q] # Zeroed}
           a == Each(S, LAMBDA q : Must(TxqParams(v, q, edca[v][q])))
           k == Cardinality(S)
           d == <<Must(VifAid(v, Mark)), Must(VifOpChannel(v, Mark)),
                  Must(VifAssocCap(v, Mark))>>
<1>2. Only(a, {})
  <2>1. a = [n \in 1 .. k |-> Must(TxqParams(v, InOrder(S)[n], edca[v][InOrder(S)[n]]))]
    BY DEF Each
  <2>2. DOMAIN a = 1 .. k /\ a = [n \in 1 .. k |-> a[n]]
    BY <2>1
  <2>3. ASSUME NEW n \in 1 .. k PROVE Plain(a[n].cmd)
    <3> HIDE DEF a
    <3> DEFINE q == InOrder(S)[n]
    <3>1. a[n] = Must(TxqParams(v, q, edca[v][q]))
      BY <2>1, <2>3
    <3> HIDE DEF q
    <3> QED BY <3>1, PlainBuilders DEF Must
  <2>4. k \in Nat
    BY SetSizes
  <2> HIDE DEF a, k
  <2> QED BY <2>2, <2>3, <2>4, PlainMap
<1>3. Only(d, {})
  <2>1. d = <<Must(VifAid(v, Mark))>> \o <<Must(VifOpChannel(v, Mark))>>
              \o <<Must(VifAssocCap(v, Mark))>>
    OBVIOUS
  <2> HIDE DEF d
  <2> QED BY <1>1, <2>1, OnlyConcat
<1>4. BssCommon(v, changed) =
        When("BSSID" \in changed, <<Must(VifBssid(v, Mark))>>)
        \o When("BASIC_RATES" \in changed, <<Must(VifBasicRates(v, Mark))>>)
        \o When("ERP_SLOT" \in changed, <<Must(VifShortSlot(v, Mark))>> \o a)
  BY DEF BssCommon
<1>5. BssStation(v, changed, assoc) =
        When("ASSOC" \in changed, <<Must(VifConnState(v, Mark))>> \o When(assoc, d))
        \o When("BEACON_INT" \in changed, <<Must(VifBeaconInt(v, Mark))>>)
        \o When("DTIM_PERIOD" \in changed, <<Must(VifDtimPeriod(v, Mark))>>)
  BY DEF BssStation
<1> HIDE DEF a, d
<1>6. Only(BssCommon(v, changed), {})
  <2>1. Only(<<Must(VifShortSlot(v, Mark))>> \o a, {})
    BY <1>1, <1>2, OnlyConcat
  <2> QED BY <1>1, <1>4, <2>1, OnlyWhen, OnlyConcat
<1>7. Only(BssStation(v, changed, assoc), {})
  <2>1. Only(<<Must(VifConnState(v, Mark))>> \o When(assoc, d), {})
    BY <1>1, <1>3, OnlyWhen, OnlyConcat
  <2> QED BY <1>1, <1>5, <2>1, OnlyWhen, OnlyConcat
<1>8. Only(BssBeacon(v, changed), {})
  BY <1>1, OnlyWhen DEF BssBeacon
<1> QED BY <1>6, <1>7, <1>8

-----------------------------------------------------------------------------
(* What mac80211 has given the driver, and the queue when no allocation    *)
(* has failed.                                                             *)

Kept ==
  /\ failures \in Nat
  /\ mode \in [Vifs -> Modes \cup {NoMode}]
  /\ keys \subseteq [vif : Vifs, key : KeyIds, holder : KeyHolders]
  /\ \A key \in keys : key.vif \in Active
  /\ mcFilters \in [1 .. McstAddrLimit -> Addrs \cup {"none"}]
  /\ mcCount \in 0 .. McstAddrLimit

LEMMA InitKept == Init => Kept
<1> SUFFICES ASSUME Init PROVE Kept
  OBVIOUS
<1>1. /\ failures = 0 /\ mode = [v \in Vifs |-> NoMode] /\ keys = {}
      /\ mcFilters = [n \in 1 .. McstAddrLimit |-> "none"] /\ mcCount = 0
  BY DEF Init
<1> QED BY <1>1, CommandsAssumption DEF Kept

LEMMA CallsCount ==
  ASSUME failures \in Nat, NEW list, Sends(list) \/ \E n : Calls(list, n)
  PROVE  failures' \in Nat
  BY DEF Sends, Calls

\* The calls that make, change or end an interface.
LEMMA VifKept ==
  ASSUME Kept, NEW m \in UsedModes, NEW w \in Vifs,
         AddInterface(m) \/ RemoveInterface(w) \/ ChangeInterface(w, m)
  PROVE  Kept'
<1>0. m \in Modes /\ m # NoMode
  BY SavedConfigAssumption, CommandsAssumption
<1>1. failures' \in Nat /\ UNCHANGED <<keys, mcFilters, mcCount>>
  <2>1. \E list : Sends(list)
    BY DEF AddInterface, RemoveInterface, ChangeInterface
  <2> QED BY <2>1, CallsCount DEF Kept, AddInterface, RemoveInterface, ChangeInterface
<1>2. CASE AddInterface(m)
  <2>1. PICK v \in Vifs : mode' = [mode EXCEPT ![v] = m]
    BY <1>2 DEF AddInterface
  <2> QED BY <1>0, <1>1, <2>1 DEF Kept, Active
<1>3. CASE RemoveInterface(w)
  <2>1. mode' = [mode EXCEPT ![w] = NoMode] /\ KeysOf(w) = {}
    BY <1>3 DEF RemoveInterface
  <2> QED BY <1>1, <2>1 DEF Kept, Active, KeysOf
<1>4. CASE ChangeInterface(w, m)
  <2>1. PICK u \in Vifs : /\ mode' = [mode EXCEPT ![w] = NoMode, ![u] = m]
                          /\ KeysOf(w) = {}
    BY <1>4 DEF ChangeInterface
  <2>2. \A x \in Vifs : mode'[x] = IF x = u THEN m ELSE IF x = w THEN NoMode
                                                              ELSE mode[x]
    BY <2>1 DEF Kept
  <2>3. mode' \in [Vifs -> Modes \cup {NoMode}]
    BY <1>0, <2>1 DEF Kept
  <2>4. \A key \in keys : key.vif # w /\ key.vif \in Active
    BY <2>1 DEF KeysOf, Kept
  <2>5. \A key \in keys : key.vif \in Vifs /\ mode'[key.vif] # NoMode
    BY <1>0, <2>2, <2>4 DEF Active
  <2> QED BY <1>1, <2>3, <2>5 DEF Kept, Active
<1> QED BY <1>2, <1>3, <1>4

\* The filters after a list, or a beginning of one.
LEMMA McstKept ==
  ASSUME Kept, NEW list \in McLists, PrepareMulticast(list)
  PROVE  Kept'
<1> DEFINE Filters(n) == [i \in DOMAIN mcFilters |->
                            IF i <= n THEN list[i] ELSE mcFilters[i]]
<1>1. /\ list \in Seq(Addrs) /\ Len(list) <= McstAddrLimit /\ Len(list) \in Nat
  BY SavedConfigAssumption DEF PrepareMulticast
<1>2. mcFilters \in [1 .. McstAddrLimit -> Addrs \cup {"none"}] /\ mcCount \in Nat
  BY CommandsAssumption DEF Kept
<1>3. \A n \in Nat : n <= Len(list) =>
        Filters(n) \in [1 .. McstAddrLimit -> Addrs \cup {"none"}]
  <2> TAKE n \in Nat
  <2> HAVE n <= Len(list)
  <2>1. ASSUME NEW i \in 1 .. McstAddrLimit
        PROVE  (IF i <= n THEN list[i] ELSE mcFilters[i]) \in Addrs \cup {"none"}
    <3>1. i <= n => i \in 1 .. Len(list)
      BY <1>1
    <3>2. i <= n => list[i] \in Addrs
      BY <1>1, <3>1
    <3> QED BY <1>2, <3>2
  <2> QED BY <1>2, <2>1
<1>4. PICK n \in 0 .. mcCount + Len(list) :
        IF n > mcCount
        THEN mcFilters' = Filters(n - mcCount - 1) /\ mcCount' = mcCount
        ELSE mcFilters' = Filters(Len(list)) /\ mcCount' = Len(list)
  BY DEF PrepareMulticast
<1>5. failures' \in Nat /\ UNCHANGED <<mode, keys>>
  <2>1. \E l, k : Calls(l, k)
    BY DEF PrepareMulticast
  <2> QED BY <2>1, CallsCount DEF PrepareMulticast, Kept
<1> HIDE DEF Filters
<1>6. /\ n > mcCount => n - mcCount - 1 \in Nat /\ n - mcCount - 1 <= Len(list)
  BY <1>1, <1>2, <1>4
<1>7. mcFilters' \in [1 .. McstAddrLimit -> Addrs \cup {"none"}]
  BY <1>1, <1>3, <1>4, <1>6
<1>8. mcCount' \in 0 .. McstAddrLimit
  BY <1>1, <1>4, CommandsAssumption DEF Kept
<1> QED BY <1>5, <1>7, <1>8 DEF Kept, Active

LEMMA StepKept == Kept /\ [Next]_vars => Kept'
<1> SUFFICES ASSUME Kept, [Next]_vars PROVE Kept'
  OBVIOUS
<1>1. ASSUME UNCHANGED <<mode, keys, mcFilters, mcCount>>, failures' \in Nat
      PROVE  Kept'
  BY <1>1 DEF Kept, Active
<1>2. CASE Start \/ StopBegin \/ StopEnd
  <2>1. failures' \in Nat
    BY <1>2, CallsCount DEF Kept, Start, StopBegin, StopEnd
  <2> QED BY <1>1, <1>2, <2>1 DEF Start, StopBegin, StopEnd
<1>3. ASSUME NEW m \in UsedModes, AddInterface(m) PROVE Kept'
  BY <1>3, VifKept, CommandsAssumption
<1>4. ASSUME NEW v \in Vifs, NEW m \in UsedModes, ChangeInterface(v, m) PROVE Kept'
  BY <1>4, VifKept
<1>5. ASSUME NEW v \in Vifs, RemoveInterface(v) PROVE Kept'
  <2>1. mode' = [mode EXCEPT ![v] = NoMode] /\ KeysOf(v) = {}
        /\ UNCHANGED <<keys, mcFilters, mcCount>>
    BY <1>5 DEF RemoveInterface
  <2>2. failures' \in Nat
    BY <1>5, CallsCount DEF RemoveInterface, Kept
  <2> QED BY <2>1, <2>2 DEF Kept, Active, KeysOf
<1>6. ASSUME NEW changed, Config(changed) PROVE Kept'
  <2>1. failures' \in Nat
    BY <1>6, CallsCount DEF Config, Kept
  <2> QED BY <1>1, <1>6, <2>1 DEF Config
<1>7. ASSUME NEW list \in McLists, PrepareMulticast(list) PROVE Kept'
  BY <1>7, McstKept
<1>8. ASSUME NEW changed, ConfigureFilter(changed) PROVE Kept'
  <2>1. failures' \in Nat
    BY <1>8, CallsCount DEF ConfigureFilter, Kept
  <2> QED BY <1>1, <1>8, <2>1 DEF ConfigureFilter
<1>9. ASSUME NEW v, NEW q, ConfVifTx(v, q) PROVE Kept'
  <2>1. failures' \in Nat
    BY <1>9, CallsCount DEF ConfVifTx, SetEdcaParams, Kept
  <2> QED BY <1>1, <1>9, <2>1 DEF ConfVifTx
<1>10. ASSUME NEW v, NEW changed, NEW assoc, BssInfoChanged(v, changed, assoc)
       PROVE  Kept'
  <2>1. failures' \in Nat
    BY <1>10, CallsCount DEF BssInfoChanged, Kept
  <2> QED BY <1>1, <1>10, <2>1 DEF BssInfoChanged
<1>11. ASSUME NEW v \in Vifs, NEW k \in KeyIds, NEW p \in KeyHolders, SetKey(v, k, p)
       PROVE  Kept'
  <2>1. failures' \in Nat
    BY <1>11, CallsCount DEF SetKey, Kept
  <2> QED BY <1>11, <2>1 DEF SetKey, Kept, Active
<1>12. ASSUME NEW key \in keys, DisableKey(key) PROVE Kept'
  <2>1. failures' \in Nat
    BY <1>12, CallsCount DEF DisableKey, Kept
  <2> QED BY <1>12, <2>1 DEF DisableKey, Kept, Active
<1>13. CASE \/ TxWake \/ TxRest \/ TxTake \/ TxSave \/ TxWrite \/ FwDie \/ WorkDown
            \/ WorkUp \/ WorkCopy \/ WorkReleased \/ WorkWrite \/ WorkDone
  <2>1. UNCHANGED hostVars
    BY <1>13 DEF TxWake, TxRest, TxTake, TxSave, TxWrite, FwDie, WorkDown, WorkUp,
       WorkCopy, WorkReleased, WorkWrite, WorkDone, envVars, workVars
  <2> QED BY <1>1, <2>1 DEF hostVars, Kept
<1>15. CASE WorkSkip
  <2>1. failures' = failures + 1 /\ UNCHANGED <<mode, keys, mcFilters, mcCount>>
    BY <1>15 DEF WorkSkip
  <2> QED BY <1>1, <2>1 DEF Kept
<1>14. CASE UNCHANGED vars
  BY <1>1, <1>14 DEF vars, hostVars, Kept
<1> QED BY <1>2, <1>3, <1>4, <1>5, <1>6, <1>7, <1>8, <1>9, <1>10, <1>11, <1>12,
           <1>13, <1>14, <1>15 DEF Next, HostNext

-----------------------------------------------------------------------------
(* The commands that have not been saved yet, in their order.              *)

View(pc, c, q) == IF pc = "taken" THEN <<c>> \o q ELSE q

Queue == View(txPc, txCmd, txq)

Queued == failures = 0 => \E U : txq \in Seq(U)

Appends(list) == txq' = txq \o Commands(list) /\ UNCHANGED txVars

LEMMA SendsAll ==
  ASSUME failures \in Nat, failures' = 0, NEW list, Sends(list) \/ \E n : Calls(list, n)
  PROVE  failures = 0 /\ txq' = txq \o Commands(list) /\ Calls(list, 0)
<1>1. PICK n : Calls(list, n)
  BY DEF Sends
<1>2. n = 0
  BY <1>1 DEF Calls
<1> QED BY <1>1, <1>2 DEF Calls, SentWhen

\* A call that has nothing to do with keys or addresses.
Quiet ==
  \E list, K : /\ Only(list, K) /\ Appends(list)
               /\ \A key \in keys : key.vif \notin K
               /\ UNCHANGED <<keys, mcFilters, mcCount>>

LEMMA HostAppends ==
  ASSUME Kept, failures' = 0, HostNext
  PROVE  /\ failures = 0
         /\ \/ Quiet
            \/ UNCHANGED <<txq, txVars, keys, mcFilters, mcCount>>
            \/ \E list \in McLists : PrepareMulticast(list)
            \/ \E v \in Vifs, k \in KeyIds, p \in KeyHolders : SetKey(v, k, p)
            \/ \E key \in keys : DisableKey(key)
<1>f. failures \in Nat
  BY DEF Kept
<1>q. ASSUME NEW list, Only(list, {}), Sends(list),
             UNCHANGED <<txVars, keys, mcFilters, mcCount>>
      PROVE  failures = 0 /\ Quiet
  BY <1>f, <1>q, SendsAll DEF Quiet, Appends
<1>v. ASSUME NEW list, NEW K, Only(list, K), Sends(list),
             \A key \in keys : key.vif \notin K,
             UNCHANGED <<txVars, keys, mcFilters, mcCount>>
      PROVE  failures = 0 /\ Quiet
  BY <1>f, <1>v, SendsAll DEF Quiet, Appends
<1>1. CASE Start
  <2> DEFINE l == <<Must(Reset("ENABLE")), Must(TxPower(Mark))>>
  <2>1. Sends(l) /\ UNCHANGED <<txVars, keys, mcFilters, mcCount>>
    BY <1>1 DEF Start
  <2>2. Only(l, {})
    <3>1. l = <<Must(Reset("ENABLE"))>> \o <<Must(TxPower(Mark))>>
      OBVIOUS
    <3> HIDE DEF l
    <3> QED BY <3>1, OnlyConcat, PlainBuilders, PlainOne
  <2> HIDE DEF l
  <2> QED BY <2>1, <2>2, <1>q
<1>2. CASE StopBegin
  <2>1. UNCHANGED <<txVars, keys, mcFilters, mcCount>>
    BY <1>2 DEF StopBegin, otherVars
  <2>2. CASE recPc = "idle"
    <3>1. Sends(<<Must(Reset("DISABLE"))>>)
      BY <1>2, <2>2 DEF StopBegin
    <3>2. Only(<<Must(Reset("DISABLE"))>>, {})
      BY PlainBuilders, PlainOne
    <3> QED BY <2>1, <3>1, <3>2, <1>q
  <2>3. CASE recPc # "idle"
    BY <1>2, <2>1, <2>3 DEF StopBegin
  <2> QED BY <2>2, <2>3
<1>3. CASE StopEnd
  BY <1>3 DEF StopEnd, otherVars
<1>4. ASSUME NEW m \in UsedModes, AddInterface(m) PROVE failures = 0 /\ Quiet
  <2>1. PICK v \in Vifs : IsFreeIndex(v, Active) /\ Sends(VifAdd(v, m, NoEdca))
    BY <1>4 DEF AddInterface
  <2>2. \A key \in keys : key.vif \notin {v}
    BY <2>1 DEF IsFreeIndex, Kept
  <2> QED BY <1>4, <2>1, <2>2, <1>v, VifAddOnly DEF AddInterface, otherVars
<1>5. ASSUME NEW v \in Vifs, RemoveInterface(v) PROVE failures = 0 /\ Quiet
  <2> DEFINE e == Must(VifCtrl(v, mode[v], "REM"))
  <2>1. Sends(<<e>>) /\ KeysOf(v) = {} /\ UNCHANGED <<txVars, keys, mcFilters, mcCount>>
    BY <1>5 DEF RemoveInterface, otherVars
  <2>2. e.cmd.id = "VIF_CTRL" /\ e.cmd.vif = v
    BY DEF Must, VifCtrl
  <2>3. Only(<<e>>, {v})
    BY <2>2, OnlyOne
  <2>4. \A key \in keys : key.vif \notin {v}
    BY <2>1 DEF KeysOf
  <2> HIDE DEF e
  <2> QED BY <2>1, <2>3, <2>4, <1>v
<1>6. ASSUME NEW v \in Vifs, NEW m \in UsedModes, ChangeInterface(v, m)
      PROVE  failures = 0 /\ Quiet
  <2> DEFINE e == May(VifCtrl(v, mode[v], "REM"))
  <2>1. PICK u \in Vifs : /\ IsFreeIndex(u, Active \ {v})
                          /\ Sends(<<e>> \o VifAdd(u, m, edca[v]))
    BY <1>6 DEF ChangeInterface
  <2>2. KeysOf(v) = {} /\ UNCHANGED <<txVars, keys, mcFilters, mcCount>>
    BY <1>6 DEF ChangeInterface, otherVars
  <2>3. e.cmd.id = "VIF_CTRL" /\ e.cmd.vif = v
    BY DEF May, VifCtrl
  <2> HIDE DEF e
  <2>4. Only(<<e>>, {v, u})
    BY <2>3, OnlyOne
  <2>5. Only(VifAdd(u, m, edca[v]), {v, u})
    BY VifAddOnly, OnlyMore
  <2>6. Only(<<e>> \o VifAdd(u, m, edca[v]), {v, u})
    BY <2>4, <2>5, OnlyConcat
  <2>7. \A key \in keys : key.vif \notin {v, u}
    BY <2>1, <2>2 DEF KeysOf, IsFreeIndex, Kept
  <2> QED BY <2>1, <2>2, <2>6, <2>7, <1>v
<1>7. ASSUME NEW changed, Config(changed) PROVE failures = 0 /\ Quiet
  <2>1. UNCHANGED <<txVars, keys, mcFilters, mcCount>>
    BY <1>7 DEF Config, otherVars
  <2>2. failures' # failures + 1
    BY <1>f
  <2>3. Sends(ConfigUpTo(changed) \o ConfigRest(changed))
    BY <1>7, <2>2 DEF Config
  <2>4. Only(ConfigUpTo(changed) \o ConfigRest(changed), {})
    BY ConfigOnly, OnlyConcat
  <2> QED BY <2>1, <2>3, <2>4, <1>q
<1>8. ASSUME NEW changed, ConfigureFilter(changed) PROVE failures = 0 /\ Quiet
  <2> DEFINE a == <<Must(McstFilterControl(Mark))>>
             b == <<Must(RcvBcnMode(Mark))>>
  <2>1. /\ UNCHANGED <<txVars, keys, mcFilters, mcCount>>
        /\ Sends(a \o IF changed THEN b ELSE <<>>)
    BY <1>8 DEF ConfigureFilter, otherVars
  <2>2. Only(a, {}) /\ Only(b, {})
    BY PlainBuilders, PlainOne
  <2> HIDE DEF a, b
  <2>3. Only(a \o IF changed THEN b ELSE <<>>, {})
    BY <2>2, OnlyWhen, OnlyConcat
  <2> QED BY <2>1, <2>3, <1>q
<1>9. ASSUME NEW v, NEW q, ConfVifTx(v, q) PROVE failures = 0 /\ Quiet
  <2>1. /\ UNCHANGED <<txVars, keys, mcFilters, mcCount>>
        /\ Sends(<<Must(TxqParams(v, q, Mark))>>)
    BY <1>9 DEF ConfVifTx, SetEdcaParams, otherVars
  <2>2. Only(<<Must(TxqParams(v, q, Mark))>>, {})
    BY PlainBuilders, PlainOne
  <2> QED BY <2>1, <2>2, <1>q
<1>10. ASSUME NEW v, NEW changed, NEW assoc, BssInfoChanged(v, changed, assoc)
       PROVE  failures = 0 /\ Quiet
  <2> DEFINE a == BssCommon(v, changed)
             b == BssStation(v, changed, assoc)
             d == BssBeacon(v, changed)
  <2>1. /\ UNCHANGED <<txVars, keys, mcFilters, mcCount>>
        /\ Sends(a \o IF mode[v] = "STA_BSS" THEN b ELSE d)
    BY <1>10 DEF BssInfoChanged, otherVars
  <2>2. Only(a, {}) /\ Only(b, {}) /\ Only(d, {})
    BY BssOnly
  <2> HIDE DEF a, b, d
  <2>3. Only(a \o IF mode[v] = "STA_BSS" THEN b ELSE d, {})
    BY <2>2, OnlyConcat
  <2> QED BY <2>1, <2>3, <1>q
<1>11. ASSUME \/ \E list \in McLists : PrepareMulticast(list)
              \/ \E v \in Vifs, k \in KeyIds, p \in KeyHolders : SetKey(v, k, p)
              \/ \E key \in keys : DisableKey(key)
       PROVE  failures = 0
  <2>1. \E list : Sends(list) \/ \E n : Calls(list, n)
    BY <1>11 DEF PrepareMulticast, SetKey, DisableKey
  <2> QED BY <1>f, <2>1, SendsAll
<1> QED BY <1>f, <1>1, <1>2, <1>3, <1>4, <1>5, <1>6, <1>7, <1>8, <1>9, <1>10, <1>11
        DEF HostNext

LEMMA WidenSeq ==
  ASSUME NEW U, NEW W, U \subseteq W
  PROVE  \A s \in Seq(U) : s \in Seq(W)
  OBVIOUS

\* The queue with the command that has been taken in front of it.
Joined(s, pc, c, q) ==
  /\ Len(s) = Len(q) + IF pc = "taken" THEN 1 ELSE 0
  /\ \A i \in 1 .. Len(s) : s[i] = IF pc # "taken" THEN q[i]
                                   ELSE IF i = 1 THEN c ELSE q[i - 1]
  /\ Len(s) \in Nat

LEMMA ViewIs ==
  ASSUME NEW U, NEW q, q \in Seq(U), NEW pc, NEW c
  PROVE  View(pc, c, q) \in Seq(U \cup {c}) /\ Joined(View(pc, c, q), pc, c, q)
<1> USE DEF Joined
<1> DEFINE W == U \cup {c}
           a == <<c>>
<1>1. q \in Seq(W) /\ Len(q) \in Nat
  BY WidenSeq
<1>2. a \in Seq(W) /\ Len(a) = 1 /\ a[1] = c
  OBVIOUS
<1> HIDE DEF W, a
<1>3. /\ a \o q \in Seq(W) /\ Len(a \o q) = Len(a) + Len(q)
      /\ \A i \in 1 .. Len(a) + Len(q) :
           (a \o q)[i] = IF i <= Len(a) THEN a[i] ELSE q[i - Len(a)]
  BY <1>1, <1>2, ConcatProperties
<1>4. CASE pc = "taken"
  <2>1. View(pc, c, q) = a \o q
    BY <1>4 DEF View, a
  <2>2. ASSUME NEW i \in 1 .. Len(q) + 1
        PROVE  (a \o q)[i] = IF i = 1 THEN c ELSE q[i - 1]
    BY <1>1, <1>2, <1>3
  <2>3. Len(a \o q) = Len(q) + 1
    BY <1>1, <1>2, <1>3
  <2> DEFINE r == a \o q
  <2>4. /\ r \in Seq(W) /\ Len(r) = Len(q) + 1
        /\ \A i \in 1 .. Len(r) : r[i] = IF i = 1 THEN c ELSE q[i - 1]
    <3>1. r \in Seq(W) /\ Len(r) = Len(q) + 1
      BY <1>3, <2>3
    <3> QED BY <2>2, <3>1
  <2> HIDE DEF r
  <2>5. View(pc, c, q) = r
    BY <2>1 DEF r
  <2>6. Len(r) \in Nat
    BY <2>4
  <2> QED BY <1>4, <2>4, <2>5, <2>6 DEF W
<1>5. CASE pc # "taken"
  BY <1>1, <1>5 DEF View, W
<1> QED BY <1>4, <1>5

\* The commands of a list come after those that were there.
LEMMA QueueAppend ==
  ASSUME NEW U, txq \in Seq(U), NEW T, NEW list, list \in Seq(T), Appends(list)
  PROVE  /\ \E W : txq' \in Seq(W)
         /\ Len(Queue') = Len(Queue) + Len(list) /\ Len(Queue) \in Nat
         /\ Len(list) \in Nat
         /\ \A i \in 1 .. Len(Queue) : Queue'[i] = Queue[i]
         /\ \A n \in 1 .. Len(list) : Queue'[Len(Queue) + n] = list[n].cmd
<1> DEFINE b == Commands(list)
           V == {list[n].cmd : n \in 1 .. Len(list)}
           W == U \cup V
           k == IF txPc = "taken" THEN 1 ELSE 0
<1>1. Len(list) \in Nat /\ DOMAIN list = 1 .. Len(list)
  OBVIOUS
<1>2. b = [n \in 1 .. Len(list) |-> list[n].cmd]
  BY <1>1 DEF Commands
<1>3. b \in [1 .. Len(list) -> V]
  BY <1>2
<1>4. b \in Seq(V) /\ Len(b) = Len(list)
  <2> HIDE DEF b, V
  <2>1. b \in Seq(V)
    BY <1>1, <1>3
  <2>2. DOMAIN b = 1 .. Len(list)
    BY <1>3
  <2> QED BY <1>1, <2>1, <2>2
<1>5. \A n \in 1 .. Len(list) : b[n] = list[n].cmd
  BY <1>2
<1>6. txq' = txq \o b /\ txPc' = txPc /\ txCmd' = txCmd
  BY DEF Appends, txVars
<1> HIDE DEF b, V
<1>7. b \in Seq(W) /\ txq \in Seq(W) /\ Len(txq) \in Nat
  BY <1>4, WidenSeq
<1> HIDE DEF W
<1>8. /\ txq' \in Seq(W) /\ Len(txq') = Len(txq) + Len(b)
      /\ \A i \in 1 .. Len(txq) + Len(b) :
           txq'[i] = IF i <= Len(txq) THEN txq[i] ELSE b[i - Len(txq)]
  BY <1>6, <1>7, ConcatProperties
<1>9. /\ Len(Queue) = Len(txq) + k
      /\ \A i \in 1 .. Len(Queue) :
           Queue[i] = IF txPc # "taken" THEN txq[i]
                      ELSE IF i = 1 THEN txCmd ELSE txq[i - 1]
      /\ Len(Queue) \in Nat
  <2>1. Joined(Queue, txPc, txCmd, txq)
    BY ViewIs DEF Queue
  <2> QED BY <2>1 DEF Joined, k
<1>10. /\ Len(Queue') = Len(txq') + k
       /\ \A i \in 1 .. Len(Queue') :
            Queue'[i] = IF txPc # "taken" THEN txq'[i]
                        ELSE IF i = 1 THEN txCmd ELSE txq'[i - 1]
  <2>1. Queue' = View(txPc, txCmd, txq')
    BY <1>6 DEF Queue
  <2>2. Joined(Queue', txPc, txCmd, txq')
    BY <1>8, <2>1, ViewIs
  <2> QED BY <2>2 DEF Joined, k
<1>11. k \in {0, 1} /\ (k = 1 <=> txPc = "taken")
  OBVIOUS
<1> HIDE DEF k
<1>12. ASSUME NEW i \in 1 .. Len(Queue) PROVE Queue'[i] = Queue[i]
  <2>1. i \in 1 .. Len(Queue')
    BY <1>1, <1>4, <1>7, <1>8, <1>9, <1>10, <1>11
  <2>2. CASE txPc # "taken"
    <3>1. i \in 1 .. Len(txq) + Len(b) /\ i <= Len(txq)
      BY <1>1, <1>4, <1>7, <1>9, <1>11, <2>2
    <3> QED BY <1>8, <1>9, <1>10, <2>1, <2>2, <3>1
  <2>3. CASE txPc = "taken" /\ i # 1
    <3>1. i - 1 \in 1 .. Len(txq) + Len(b) /\ i - 1 <= Len(txq)
      BY <1>1, <1>4, <1>7, <1>9, <1>11, <2>3
    <3> QED BY <1>8, <1>9, <1>10, <2>1, <2>3, <3>1
  <2>4. CASE txPc = "taken" /\ i = 1
    BY <1>9, <1>10, <2>1, <2>4
  <2> QED BY <2>2, <2>3, <2>4
<1>13. ASSUME NEW n \in 1 .. Len(list) PROVE Queue'[Len(Queue) + n] = list[n].cmd
  <2>1. Len(Queue) + n \in 1 .. Len(Queue')
    BY <1>1, <1>4, <1>7, <1>8, <1>9, <1>10, <1>11
  <2>2. Queue'[Len(Queue) + n] = b[n]
    <3>1. CASE txPc # "taken"
      <4>1. /\ Len(Queue) + n \in 1 .. Len(txq) + Len(b) /\ ~(Len(Queue) + n <= Len(txq))
            /\ Len(Queue) + n - Len(txq) = n
        BY <1>1, <1>4, <1>7, <1>9, <1>11, <3>1
      <4>2. Queue'[Len(Queue) + n] = txq'[Len(Queue) + n]
        BY <1>10, <2>1, <3>1
      <4> QED BY <1>8, <4>1, <4>2
    <3>2. CASE txPc = "taken"
      <4>1. /\ Len(Queue) + n - 1 \in 1 .. Len(txq) + Len(b)
            /\ ~(Len(Queue) + n - 1 <= Len(txq)) /\ Len(Queue) + n # 1
            /\ Len(Queue) + n - 1 - Len(txq) = n
        BY <1>1, <1>4, <1>7, <1>9, <1>11, <3>2
      <4>2. Queue'[Len(Queue) + n] = txq'[Len(Queue) + n - 1]
        BY <1>10, <2>1, <3>2, <4>1
      <4> QED BY SMTT(30), <1>8, <4>1, <4>2
    <3> QED BY <3>1, <3>2
  <2> QED BY <1>5, <2>2
<1>14. Len(Queue') = Len(Queue) + Len(list)
  BY <1>1, <1>4, <1>7, <1>8, <1>9, <1>10, <1>11
<1> QED BY <1>1, <1>8, <1>9, <1>12, <1>13, <1>14


\* Taking a command leaves it where it was; saving it removes it.
LEMMA QueueTake ==
  ASSUME NEW U, txq \in Seq(U), TxTake
  PROVE  Queue' = Queue /\ \E W : txq' \in Seq(W)
<1>1. /\ txPc = "loop" /\ txPc' = "taken" /\ txq # <<>>
      /\ txCmd' = Head(txq) /\ txq' = Tail(txq)
  BY DEF TxTake
<1>2. <<Head(txq)>> \o Tail(txq) = txq /\ Tail(txq) \in Seq(U)
  BY <1>1, HeadTailProperties
<1>3. Queue = txq
  BY <1>1 DEF Queue, View
<1>4. Queue' = <<txCmd'>> \o txq'
  BY <1>1 DEF Queue, View
<1> QED BY <1>1, <1>2, <1>3, <1>4

Shifts(a, b) ==
  /\ Len(a) \in Nat /\ Len(b) \in Nat /\ Len(a) = Len(b) + 1
  /\ \A i \in 1 .. Len(b) : b[i] = a[i + 1]

LEMMA QueueSave ==
  ASSUME NEW U, txq \in Seq(U), TxSave
  PROVE  txq' = txq /\ Queue[1] = txCmd /\ Shifts(Queue, Queue')
<1>1. txPc = "taken" /\ txPc' # "taken" /\ txq' = txq
  BY DEF TxSave
<1>2. Queue' = txq
  BY <1>1 DEF Queue, View
<1>3. Joined(Queue, txPc, txCmd, txq)
  BY ViewIs DEF Queue
<1> DEFINE a == Queue
<1>4. Len(txq) \in Nat
  OBVIOUS
<1> HIDE DEF a
<1>5. /\ Len(a) = Len(txq) + 1 /\ Len(a) \in Nat
      /\ \A i \in 1 .. Len(a) : a[i] = IF i = 1 THEN txCmd ELSE txq[i - 1]
  BY <1>1, <1>3 DEF Joined, a
<1>6. a[1] = txCmd
  BY <1>4, <1>5
<1>7. ASSUME NEW i \in 1 .. Len(txq) PROVE txq[i] = a[i + 1]
  <2>1. i + 1 \in 1 .. Len(a) /\ i + 1 # 1 /\ i + 1 - 1 = i
    BY <1>4, <1>5
  <2> QED BY <1>5, <2>1
<1> QED BY <1>1, <1>2, <1>4, <1>5, <1>6, <1>7 DEF Shifts, a

LEMMA QueueSame ==
  ASSUME \/ UNCHANGED <<txq, txVars>> \/ TxWake \/ TxRest \/ TxWrite
  PROVE  txq' = txq /\ Queue' = Queue
<1>1. CASE UNCHANGED <<txq, txVars>>
  BY <1>1 DEF txVars, Queue
<1>2. CASE TxWake \/ TxRest \/ TxWrite
  BY <1>2 DEF TxWake, TxRest, TxWrite, Queue, View
<1> QED BY <1>1, <1>2

-----------------------------------------------------------------------------
(* A key that the host has removed is forgotten by the time its interface  *)
(* comes or goes: after every command in the queue that installs it comes  *)
(* one that removes it.                                                    *)

IsKey(c, op, v, k) == c.id = "SETKEY" /\ c.ctrl = op /\ c.vif = v /\ c.key = k

\* So it is at the place n of the queue q.
Gone(q, s, v, k, n) ==
  /\ s.key[v][k] # NoKey =>
       \E m \in 1 .. Len(q) : m < n /\ IsKey(q[m], "DEL", v, k)
  /\ \A l \in 1 .. Len(q) : l < n /\ IsKey(q[l], "ADD", v, k) =>
       \E m \in 1 .. Len(q) : l < m /\ m < n /\ IsKey(q[m], "DEL", v, k)

\* b is the queue a with more at its end.
Extends(b, a) ==
  /\ Len(a) \in Nat /\ Len(b) \in Nat /\ Len(a) <= Len(b)
  /\ \A i \in 1 .. Len(a) : b[i] = a[i]

LEMMA GoneExtends ==
  ASSUME NEW a, NEW b, Extends(b, a), NEW s, NEW v, NEW k,
         NEW n \in 1 .. Len(a) + 1, Gone(a, s, v, k, n)
  PROVE  Gone(b, s, v, k, n)
<1>1. \A i \in 1 .. Len(b) : i < n => i \in 1 .. Len(a)
  BY DEF Extends
<1>2. \A i \in 1 .. Len(a) : i \in 1 .. Len(b) /\ b[i] = a[i]
  BY DEF Extends
<1> QED BY <1>1, <1>2 DEF Gone

\* Where nothing that is added installs the key it stays forgotten.
LEMMA GoneBeyond ==
  ASSUME NEW a, NEW b, Extends(b, a), NEW s, NEW v, NEW k,
         Gone(a, s, v, k, Len(a) + 1),
         \A i \in Len(a) + 1 .. Len(b) : ~IsKey(b[i], "ADD", v, k),
         NEW n \in Len(a) + 1 .. Len(b) + 1
  PROVE  Gone(b, s, v, k, n)
<1>0. Len(a) \in Nat /\ Len(b) \in Nat
  BY DEF Extends
<1>1. \A i \in 1 .. Len(b) : IsKey(b[i], "ADD", v, k) => i \in 1 .. Len(a)
  BY <1>0
<1>2. \A i \in 1 .. Len(a) : i \in 1 .. Len(b) /\ b[i] = a[i]
  BY DEF Extends
<1>3. \A i \in 1 .. Len(a) : i < Len(a) + 1 /\ i < n
  BY <1>0
<1>4. s.key[v][k] # NoKey =>
        \E m \in 1 .. Len(b) : m < n /\ IsKey(b[m], "DEL", v, k)
  BY <1>2, <1>3 DEF Gone
<1>5. ASSUME NEW l \in 1 .. Len(b), l < n, IsKey(b[l], "ADD", v, k)
      PROVE  \E m \in 1 .. Len(b) : l < m /\ m < n /\ IsKey(b[m], "DEL", v, k)
  <2>1. l \in 1 .. Len(a) /\ IsKey(a[l], "ADD", v, k)
    BY <1>1, <1>2, <1>5
  <2>2. PICK m \in 1 .. Len(a) : l < m /\ IsKey(a[m], "DEL", v, k)
    BY <1>3, <2>1 DEF Gone
  <2> QED BY <1>2, <1>3, <2>2
<1> QED BY <1>4, <1>5 DEF Gone

\* What the save of a command makes of a saved key.
KeyAfter(old, c, v, k) ==
  IF c.id = "RESET" /\ c.type = "ENABLE" THEN NoKey
  ELSE IF c.id = "SETKEY" /\ c.vif = v /\ c.key = k
  THEN IF c.ctrl = "ADD" THEN [holder |-> c.holder, val |-> c.val] ELSE NoKey
  ELSE old

LEMMA SavedKey ==
  ASSUME NEW V, NEW s \in SavedType(V), NEW c, NEW v \in Vifs, NEW k \in KeyIds
  PROVE  Save(s, c).key[v][k] = KeyAfter(s.key[v][k], c, v, k)
<1>1. CASE c.id = "RESET"
  <2>1. NothingSaved.key[v][k] = NoKey
    BY DEF NothingSaved
  <2>2. [NothingSaved EXCEPT !.reset = TRUE].key = NothingSaved.key
    BY DEF NothingSaved
  <2> QED BY <1>1, <2>1, <2>2 DEF Save, SaveReset, KeyAfter
<1>2. CASE c.id = "SETKEY"
  <2>1. Save(s, c) = SaveSetKey(s, c)
    BY <1>2 DEF Save
  <2> QED BY <1>2, <2>1 DEF SaveSetKey, KeyAfter, SavedType
<1>3. CASE c.id \notin {"RESET", "SETKEY"}
  <2>1. Save(s, c).key = s.key
    BY <1>3 DEF Save, SaveMcstAddrCfg, SaveVifCtrl, SaveVifCfg, SaveTxqParams,
                SavedType
  <2> QED BY <1>3, <2>1 DEF KeyAfter
<1> QED BY <1>1, <1>2, <1>3

LEMMA GoneSave ==
  ASSUME NEW a, NEW b, Shifts(a, b), NEW V, NEW s \in SavedType(V),
         NEW v \in Vifs, NEW k \in KeyIds, NEW n \in 1 .. Len(b) + 1,
         Gone(a, s, v, k, n + 1)
  PROVE  Gone(b, Save(s, a[1]), v, k, n)
<1>0. Len(a) \in Nat /\ Len(b) \in Nat /\ Len(a) = Len(b) + 1 /\ n \in Nat
  BY DEF Shifts
<1>1. \A i \in 1 .. Len(b) : i + 1 \in 1 .. Len(a) /\ b[i] = a[i + 1]
  BY <1>0 DEF Shifts
<1>2. ASSUME NEW m \in 1 .. Len(a), m < n + 1, m # 1
      PROVE  /\ m - 1 \in 1 .. Len(b) /\ m - 1 < n /\ b[m - 1] = a[m]
  <2>1. m - 1 \in 1 .. Len(b) /\ m - 1 < n /\ (m - 1) + 1 = m
    BY <1>0, <1>2
  <2> QED BY <1>1, <2>1
<1>3. ASSUME Save(s, a[1]).key[v][k] # NoKey
      PROVE  \E m \in 1 .. Len(b) : m < n /\ IsKey(b[m], "DEL", v, k)
  <2>1. KeyAfter(s.key[v][k], a[1], v, k) # NoKey
    BY <1>3, SavedKey
  <2>2. 1 \in 1 .. Len(a) /\ 1 < n + 1
    BY <1>0
  <2>3. PICK m \in 1 .. Len(a) : m < n + 1 /\ m # 1 /\ IsKey(a[m], "DEL", v, k)
    <3>1. CASE IsKey(a[1], "ADD", v, k)
      <4>1. \E m \in 1 .. Len(a) : 1 < m /\ m < n + 1 /\ IsKey(a[m], "DEL", v, k)
        BY <2>2, <3>1 DEF Gone
      <4> QED BY <4>1
    <3>2. CASE ~IsKey(a[1], "ADD", v, k)
      <4>1. s.key[v][k] # NoKey /\ ~IsKey(a[1], "DEL", v, k)
        BY <2>1, <3>2 DEF KeyAfter, IsKey
      <4> QED BY <4>1 DEF Gone
    <3> QED BY <3>1, <3>2
  <2> QED BY <1>2, <2>3
<1>4. ASSUME NEW l \in 1 .. Len(b), l < n, IsKey(b[l], "ADD", v, k)
      PROVE  \E m \in 1 .. Len(b) : l < m /\ m < n /\ IsKey(b[m], "DEL", v, k)
  <2>1. l + 1 \in 1 .. Len(a) /\ l + 1 < n + 1 /\ IsKey(a[l + 1], "ADD", v, k)
    BY <1>0, <1>1, <1>4
  <2>2. PICK m \in 1 .. Len(a) : l + 1 < m /\ m < n + 1 /\ IsKey(a[m], "DEL", v, k)
    BY <2>1 DEF Gone
  <2>3. m # 1 /\ l < m - 1
    BY <1>0, <2>2
  <2> QED BY <1>2, <2>2, <2>3
<1> QED BY <1>3, <1>4 DEF Gone

\* An index of which the host has no key.
NoneOf(v, k) == \A key \in keys : ~(key.vif = v /\ key.key = k)

\* Every key command names a key, the keys of an interface are forgotten
\* when it comes or goes, and so are those the host has not.
KeyQueue ==
  failures = 0 =>
    /\ \A n \in 1 .. Len(Queue) : Queue[n].id = "SETKEY" =>
         /\ Queue[n].ctrl \in {"ADD", "DEL"} /\ Queue[n].holder \in KeyHolders
         /\ Queue[n].vif \in Vifs /\ Queue[n].key \in KeyIds
    /\ \A v \in Vifs, k \in KeyIds :
         /\ \A n \in 1 .. Len(Queue) :
              Queue[n].id = "VIF_CTRL" /\ Queue[n].vif = v =>
                Gone(Queue, saved, v, k, n)
         /\ NoneOf(v, k) => Gone(Queue, saved, v, k, Len(Queue) + 1)

LEMMA QueueExtends ==
  ASSUME NEW U, txq \in Seq(U), NEW T, NEW list, list \in Seq(T), Appends(list)
  PROVE  /\ \E W : txq' \in Seq(W)
         /\ Extends(Queue', Queue) /\ Len(Queue') = Len(Queue) + Len(list)
         /\ \A i \in Len(Queue) + 1 .. Len(Queue') :
              i - Len(Queue) \in 1 .. Len(list) /\ Queue'[i] = list[i - Len(Queue)].cmd
<1>1. /\ \E W : txq' \in Seq(W)
      /\ Len(Queue') = Len(Queue) + Len(list) /\ Len(Queue) \in Nat
      /\ Len(list) \in Nat
      /\ \A i \in 1 .. Len(Queue) : Queue'[i] = Queue[i]
      /\ \A n \in 1 .. Len(list) : Queue'[Len(Queue) + n] = list[n].cmd
  BY QueueAppend
<1> DEFINE a == Len(Queue)
           l == Len(list)
<1>2. ASSUME NEW i \in a + 1 .. Len(Queue')
      PROVE  i - a \in 1 .. l /\ a + (i - a) = i
  <2> HIDE DEF a, l
  <2>1. a \in Nat /\ l \in Nat /\ Len(Queue') = a + l
    BY <1>1 DEF a, l
  <2>2. \A j \in a + 1 .. a + l : j - a \in 1 .. l /\ a + (j - a) = j
    BY <2>1
  <2> QED BY <2>1, <2>2
<1>3. Extends(Queue', Queue)
  BY <1>1 DEF Extends
<1>4. \A i \in a + 1 .. Len(Queue') : Queue'[i] = list[i - a].cmd
  BY <1>1, <1>2
<1> QED BY <1>1, <1>2, <1>3, <1>4

\* What a call that adds no key to the queue leaves.
LEMMA QuietKeys ==
  ASSUME Kept, Queued, KeyQueue, failures = 0,
         NEW list, NEW T, list \in Seq(T), Appends(list),
         saved' = saved \/ saved' = NothingSaved, keys' = keys,
         \A n \in 1 .. Len(list) :
           /\ list[n].cmd.id # "SETKEY"
           /\ list[n].cmd.id = "VIF_CTRL" => \A key \in keys : key.vif # list[n].cmd.vif
  PROVE  Queued' /\ KeyQueue'
<1>1. PICK U : txq \in Seq(U)
  BY DEF Queued
<1>2. /\ \E W : txq' \in Seq(W)
      /\ Extends(Queue', Queue) /\ Len(Queue') = Len(Queue) + Len(list)
      /\ \A i \in Len(Queue) + 1 .. Len(Queue') :
           i - Len(Queue) \in 1 .. Len(list) /\ Queue'[i] = list[i - Len(Queue)].cmd
  BY <1>1, QueueExtends
<1>3. Len(Queue) \in Nat /\ Len(Queue') \in Nat
  BY <1>2 DEF Extends
<1> DEFINE q == Queue
           r == Queue'
<1>4. \A i \in 1 .. Len(r) : i \in 1 .. Len(q) \/ i \in Len(q) + 1 .. Len(r)
  BY <1>3
<1>5. /\ \A i \in 1 .. Len(q) : r[i] = q[i]
      /\ \A i \in Len(q) + 1 .. Len(r) :
           /\ r[i].id # "SETKEY"
           /\ r[i].id = "VIF_CTRL" => \A key \in keys : key.vif # r[i].vif
  BY <1>2 DEF Extends
<1>6. ASSUME NEW v \in Vifs, NEW k \in KeyIds, NEW n, Gone(r, saved, v, k, n)
      PROVE  Gone(r, saved', v, k, n)
  <2>1. NothingSaved.key[v][k] = NoKey
    BY DEF NothingSaved
  <2> QED BY <1>6, <2>1 DEF Gone
<1>7. ASSUME NEW n \in 1 .. Len(r), r[n].id = "SETKEY"
      PROVE  /\ r[n].ctrl \in {"ADD", "DEL"} /\ r[n].holder \in KeyHolders
             /\ r[n].vif \in Vifs /\ r[n].key \in KeyIds
  BY <1>4, <1>5, <1>7 DEF KeyQueue
<1>8. ASSUME NEW v \in Vifs, NEW k \in KeyIds
      PROVE  /\ \A n \in 1 .. Len(r) : r[n].id = "VIF_CTRL" /\ r[n].vif = v =>
                  Gone(r, saved', v, k, n)
             /\ NoneOf(v, k) => Gone(r, saved', v, k, Len(r) + 1)
  <2>1. \A i \in Len(q) + 1 .. Len(r) : ~IsKey(r[i], "ADD", v, k)
    BY <1>5 DEF IsKey
  <2>2. NoneOf(v, k) => \A n \in Len(q) + 1 .. Len(r) + 1 : Gone(r, saved, v, k, n)
    <3> HAVE NoneOf(v, k)
    <3>1. Gone(q, saved, v, k, Len(q) + 1)
      BY DEF KeyQueue
    <3> HIDE DEF q, r
    <3> QED BY <1>2, <2>1, <3>1, GoneBeyond DEF q, r
  <2>3. Len(r) + 1 \in Len(q) + 1 .. Len(r) + 1
    BY <1>2, <1>3 DEF Extends
  <2>4. ASSUME NEW n \in 1 .. Len(r), r[n].id = "VIF_CTRL", r[n].vif = v
        PROVE  Gone(r, saved', v, k, n)
    <3>1. CASE n \in 1 .. Len(q)
      <4>1. Gone(q, saved, v, k, n) /\ n \in 1 .. Len(q) + 1
        BY <1>3, <1>5, <2>4, <3>1 DEF KeyQueue
      <4> HIDE DEF q, r
      <4>2. Gone(r, saved, v, k, n)
        BY <1>2, <4>1, GoneExtends DEF q, r
      <4> QED BY <1>6, <4>2
    <3>2. CASE n \in Len(q) + 1 .. Len(r)
      <4>1. NoneOf(v, k) /\ n \in Len(q) + 1 .. Len(r) + 1
        BY <1>3, <1>5, <2>4, <3>2 DEF NoneOf
      <4> QED BY <1>6, <2>2, <4>1
    <3> QED BY <1>4, <2>4, <3>1, <3>2
  <2> QED BY <1>6, <2>2, <2>3, <2>4
<1>9. KeyQueue'
  BY <1>7, <1>8 DEF KeyQueue, NoneOf
<1> QED BY <1>2, <1>9 DEF Queued

\* The calls that set and disable a key append one command.
LEMMA OneKeyQueue ==
  ASSUME Kept, Queued, KeyQueue, failures = 0, saved' = saved, NEW e,
         Appends(<<e>>), NEW v \in Vifs, NEW k \in KeyIds,
         e.cmd.id = "SETKEY", e.cmd.vif = v, e.cmd.key = k,
         e.cmd.ctrl \in {"ADD", "DEL"}, e.cmd.holder \in KeyHolders,
         \A w \in Vifs, j \in KeyIds : <<w, j>> # <<v, k>> /\ NoneOf(w, j)' => NoneOf(w, j),
         e.cmd.ctrl = "ADD" => ~NoneOf(v, k)'
  PROVE  Queued' /\ KeyQueue'
<1> DEFINE list == <<e>>
           q == Queue
           r == Queue'
<1>1. PICK U : txq \in Seq(U)
  BY DEF Queued
<1>2. list \in Seq({e}) /\ Len(list) = 1 /\ list[1] = e /\ Appends(list)
  OBVIOUS
<1> HIDE DEF list
<1>3. /\ \E W : txq' \in Seq(W)
      /\ Extends(Queue', Queue) /\ Len(Queue') = Len(Queue) + Len(list)
      /\ \A i \in Len(Queue) + 1 .. Len(Queue') :
           i - Len(Queue) \in 1 .. Len(list) /\ Queue'[i] = list[i - Len(Queue)].cmd
  BY <1>1, <1>2, QueueExtends
<1>4. Len(q) \in Nat /\ Len(r) = Len(q) + 1 /\ \A i \in 1 .. Len(q) : r[i] = q[i]
  BY <1>2, <1>3 DEF Extends
<1>5. r[Len(r)] = e.cmd
  <2> DEFINE l == Len(q)
  <2> HIDE DEF l
  <2>1. l \in Nat /\ Len(r) = l + 1
    BY <1>4 DEF l
  <2> DEFINE m == Len(r)
  <2>2. m \in l + 1 .. m /\ m - l = 1
    BY <2>1
  <2>3. \A i \in l + 1 .. m : r[i] = list[i - l].cmd
    BY <1>3 DEF l
  <2> HIDE DEF m, r
  <2>4. r[m] = list[m - l].cmd
    BY <2>2, <2>3
  <2> QED BY <1>2, <2>2, <2>4 DEF m, r
<1>6. \A i \in 1 .. Len(r) : i \in 1 .. Len(q) \/ i = Len(r)
  BY <1>4
<1>7. Extends(r, q)
  BY <1>3
<1> HIDE DEF q, r
<1>8. ASSUME NEW n \in 1 .. Len(r), r[n].id = "SETKEY"
      PROVE  /\ r[n].ctrl \in {"ADD", "DEL"} /\ r[n].holder \in KeyHolders
             /\ r[n].vif \in Vifs /\ r[n].key \in KeyIds
  BY <1>4, <1>5, <1>6, <1>8 DEF KeyQueue, q
<1>9. ASSUME NEW w \in Vifs, NEW j \in KeyIds, NEW n \in 1 .. Len(r),
             r[n].id = "VIF_CTRL", r[n].vif = w
      PROVE  Gone(r, saved, w, j, n)
  <2>1. n \in 1 .. Len(q) /\ n \in 1 .. Len(q) + 1 /\ q[n].id = "VIF_CTRL" /\ q[n].vif = w
    BY <1>4, <1>5, <1>6, <1>9
  <2>2. Gone(q, saved, w, j, n)
    BY <2>1 DEF KeyQueue, q
  <2> QED BY <1>7, <2>1, <2>2, GoneExtends
<1>10. ASSUME NEW w \in Vifs, NEW j \in KeyIds, NoneOf(w, j)'
       PROVE  Gone(r, saved, w, j, Len(r) + 1)
  <2>0. Len(r) \in Nat /\ Len(r) \in 1 .. Len(r) /\ Len(r) < Len(r) + 1
    BY <1>4
  <2>1. CASE <<w, j>> # <<v, k>>
    <3>1. Gone(q, saved, w, j, Len(q) + 1)
      BY <1>10, <2>1 DEF KeyQueue, q
    <3>2. \A i \in Len(q) + 1 .. Len(r) : ~IsKey(r[i], "ADD", w, j)
      <4>1. ~IsKey(r[Len(r)], "ADD", w, j)
        BY <1>5, <2>1 DEF IsKey
      <4>2. \A i \in Len(q) + 1 .. Len(r) : i = Len(r)
        BY <1>4
      <4> QED BY <4>1, <4>2
    <3>3. Len(r) + 1 \in Len(q) + 1 .. Len(r) + 1
      BY <1>4
    <3> QED BY <1>7, <3>1, <3>2, <3>3, GoneBeyond
  <2>2. CASE w = v /\ j = k
    <3>1. IsKey(r[Len(r)], "DEL", w, j) /\ ~IsKey(r[Len(r)], "ADD", w, j)
      BY <1>5, <1>10, <2>2 DEF IsKey
    <3>2. \A l \in 1 .. Len(r) : IsKey(r[l], "ADD", w, j) => l < Len(r)
      <4>1. \A l \in 1 .. Len(r) : l # Len(r) => l < Len(r)
        BY <1>4
      <4> QED BY <3>1, <4>1
    <3> QED BY <2>0, <3>1, <3>2 DEF Gone
  <2> QED BY <2>1, <2>2
<1>11. KeyQueue'
  BY <1>8, <1>9, <1>10 DEF KeyQueue, r
<1> QED BY <1>3, <1>11 DEF Queued

LEMMA HostKeys ==
  ASSUME Kept, Queued, KeyQueue, failures' = 0, HostNext
  PROVE  Queued' /\ KeyQueue'
<1>1. /\ failures = 0
      /\ \/ Quiet
         \/ UNCHANGED <<txq, txVars, keys, mcFilters, mcCount>>
         \/ \E list \in McLists : PrepareMulticast(list)
         \/ \E v \in Vifs, k \in KeyIds, p \in KeyHolders : SetKey(v, k, p)
         \/ \E key \in keys : DisableKey(key)
  BY HostAppends
<1>2. saved' = saved \/ saved' = NothingSaved
  BY HostQuiet DEF Start, StopEnd, otherVars
<1>3. CASE Quiet
  <2>1. PICK list, K : /\ Only(list, K) /\ Appends(list)
                       /\ \A key \in keys : key.vif \notin K
                       /\ UNCHANGED <<keys, mcFilters, mcCount>>
    BY <1>3 DEF Quiet
  <2>2. PICK T : list \in Seq(T)
    BY <2>1 DEF Only
  <2>3. \A n \in 1 .. Len(list) :
           /\ list[n].cmd.id # "SETKEY"
           /\ list[n].cmd.id = "VIF_CTRL" => \A key \in keys : key.vif # list[n].cmd.vif
    BY <2>1 DEF Only
  <2> QED BY <1>1, <1>2, <2>1, <2>2, <2>3, QuietKeys
<1>4. CASE UNCHANGED <<txq, txVars, keys, mcFilters, mcCount>>
  <2>1. Queue' = Queue /\ txq' = txq /\ keys' = keys
    BY <1>4, QueueSame
  <2>2. ASSUME NEW v \in Vifs, NEW k \in KeyIds, NEW n, Gone(Queue, saved, v, k, n)
        PROVE  Gone(Queue', saved', v, k, n)
    <3>1. NothingSaved.key[v][k] = NoKey
      BY DEF NothingSaved
    <3> QED BY <1>2, <2>1, <2>2, <3>1 DEF Gone
  <2>3. KeyQueue'
    BY <1>1, <2>1, <2>2 DEF KeyQueue, NoneOf
  <2> QED BY <1>1, <2>1, <2>3 DEF Queued
<1>5. ASSUME NEW list \in McLists, PrepareMulticast(list)
      PROVE  Queued' /\ KeyQueue'
  <2> DEFINE removals == [n \in 1 .. mcCount |-> May(McstAddrCfg(mcFilters[n], "REM"))]
             adds == [n \in DOMAIN list |-> Must(McstAddrCfg(list[n], "ADD"))]
             l == removals \o adds
  <2>1. /\ \E n : Calls(l, n)
        /\ UNCHANGED <<keys, txVars, saved>>
    BY <1>5 DEF PrepareMulticast, otherVars
  <2>2. list \in Seq(Addrs) /\ Len(list) \in Nat /\ DOMAIN list = 1 .. Len(list)
    BY SavedConfigAssumption
  <2>3. mcCount \in Nat
    BY CommandsAssumption DEF Kept
  <2>4. /\ DOMAIN removals = 1 .. mcCount
        /\ \A n \in 1 .. mcCount : removals[n].cmd.id = "MCST_ADDR_CFG"
    BY DEF McstAddrCfg, May
  <2>5. /\ DOMAIN adds = 1 .. Len(list)
        /\ \A n \in 1 .. Len(list) : adds[n].cmd.id = "MCST_ADDR_CFG"
    BY <2>2 DEF McstAddrCfg, Must
  <2>6. removals = [n \in 1 .. mcCount |-> removals[n]]
    BY <2>4
  <2>7. adds = [n \in 1 .. Len(list) |-> adds[n]]
    BY <2>5
  <2> DEFINE T == {removals[n] : n \in 1 .. mcCount} \cup {adds[n] : n \in 1 .. Len(list)}
  <2> HIDE DEF removals, adds
  <2>8. removals \in [1 .. mcCount -> T] /\ adds \in [1 .. Len(list) -> T]
    BY <2>6, <2>7
  <2> HIDE DEF T
  <2>9. removals \in Seq(T) /\ adds \in Seq(T)
    BY <2>2, <2>3, <2>8
  <2>10. Len(removals) = mcCount /\ Len(adds) = Len(list)
    BY <2>2, <2>3, <2>4, <2>5, <2>9
  <2>11. /\ l \in Seq(T) /\ Len(l) = Len(removals) + Len(adds)
         /\ \A i \in 1 .. Len(removals) + Len(adds) :
              l[i] = IF i <= Len(removals) THEN removals[i] ELSE adds[i - Len(removals)]
    BY <2>9, ConcatProperties
  <2> HIDE DEF l
  <2>12. ASSUME NEW i \in 1 .. Len(l) PROVE l[i].cmd.id = "MCST_ADDR_CFG"
    <3>1. CASE i <= mcCount
      <4>1. i \in 1 .. mcCount /\ l[i] = removals[i]
        BY <2>2, <2>3, <2>10, <2>11, <3>1
      <4> QED BY <2>4, <4>1
    <3>2. CASE ~(i <= mcCount)
      <4>1. i - mcCount \in 1 .. Len(list) /\ l[i] = adds[i - mcCount]
        BY <2>2, <2>3, <2>10, <2>11, <3>2
      <4> QED BY <2>5, <4>1
    <3> QED BY <3>1, <3>2
  <2>13. Appends(l)
    <3>1. txq' = txq \o Commands(l)
      BY <1>1, <2>1, SendsAll
    <3> QED BY <2>1, <3>1 DEF Appends
  <2>14. \A n \in 1 .. Len(l) :
           /\ l[n].cmd.id # "SETKEY"
           /\ l[n].cmd.id = "VIF_CTRL" => \A key \in keys : key.vif # l[n].cmd.vif
    BY <2>12
  <2> QED BY <1>1, <2>1, <2>11, <2>13, <2>14, QuietKeys
<1>6. ASSUME NEW v \in Vifs, NEW k \in KeyIds, NEW p \in KeyHolders, SetKey(v, k, p)
      PROVE  Queued' /\ KeyQueue'
  <2> DEFINE e == May(KeyCmd(v, "ADD", k, p))
  <2>1. /\ keys' = keys \cup {[vif |-> v, key |-> k, holder |-> p]}
        /\ Sends(<<e>>) /\ UNCHANGED <<saved, txVars>>
    BY <1>6 DEF SetKey, otherVars
  <2>2. /\ e.cmd.id = "SETKEY" /\ e.cmd.vif = v /\ e.cmd.key = k
        /\ e.cmd.ctrl = "ADD" /\ e.cmd.holder = p
    BY DEF May, KeyCmd, IfKey, PeerKey
  <2> HIDE DEF e
  <2>3. Appends(<<e>>)
    BY <1>1, <2>1, SendsAll DEF Appends
  <2>4. /\ \A w \in Vifs, j \in KeyIds : NoneOf(w, j)' => NoneOf(w, j)
        /\ ~NoneOf(v, k)'
    <3> DEFINE x == [vif |-> v, key |-> k, holder |-> p]
    <3>1. x.vif = v /\ x.key = k
      OBVIOUS
    <3>2. keys' = keys \cup {x}
      BY <2>1
    <3> HIDE DEF x
    <3> QED BY <3>1, <3>2 DEF NoneOf
  <2> QED BY <1>1, <2>1, <2>2, <2>3, <2>4, OneKeyQueue
<1>7. ASSUME NEW key \in keys, DisableKey(key)
      PROVE  Queued' /\ KeyQueue'
  <2> DEFINE e == May(KeyCmd(key.vif, "DEL", key.key, key.holder))
  <2>1. keys' = keys \ {key} /\ Sends(<<e>>) /\ UNCHANGED <<saved, txVars>>
    BY <1>7 DEF DisableKey, otherVars
  <2>2. /\ e.cmd.id = "SETKEY" /\ e.cmd.vif = key.vif /\ e.cmd.key = key.key
        /\ e.cmd.ctrl = "DEL" /\ e.cmd.holder = key.holder
    BY DEF May, KeyCmd, IfKey, PeerKey
  <2> HIDE DEF e
  <2>3. Appends(<<e>>)
    BY <1>1, <2>1, SendsAll DEF Appends
  <2>4. key.vif \in Vifs /\ key.key \in KeyIds /\ key.holder \in KeyHolders
    BY DEF Kept
  <2>5. \A w \in Vifs, j \in KeyIds :
          <<w, j>> # <<key.vif, key.key>> /\ NoneOf(w, j)' => NoneOf(w, j)
    BY <2>1 DEF NoneOf
  <2> DEFINE v == key.vif
             k == key.key
  <2> HIDE DEF v, k
  <2>6. /\ v \in Vifs /\ k \in KeyIds /\ e.cmd.vif = v /\ e.cmd.key = k
        /\ \A w \in Vifs, j \in KeyIds : <<w, j>> # <<v, k>> /\ NoneOf(w, j)' => NoneOf(w, j)
        /\ e.cmd.ctrl \in {"ADD", "DEL"} /\ e.cmd.holder \in KeyHolders
        /\ ~(e.cmd.ctrl = "ADD")
    BY <2>2, <2>4, <2>5 DEF v, k
  <2> QED BY <1>1, <2>1, <2>2, <2>3, <2>6, OneKeyQueue
<1> QED BY <1>1, <1>3, <1>4, <1>5, <1>6, <1>7

LEMMA SaveKeys ==
  ASSUME Typed, Queued, KeyQueue, failures = 0, TxSave
  PROVE  Queued' /\ KeyQueue'
<1> DEFINE a == Queue
           b == Queue'
<1>1. PICK U : txq \in Seq(U)
  BY DEF Queued
<1>2. txq' = txq /\ a[1] = txCmd /\ Shifts(a, b)
  BY <1>1, QueueSave
<1>3. /\ saved' = Save(saved, txCmd) /\ keys' = keys
  BY DEF TxSave, envVars, hostVars
<1>4. PICK V : saved \in SavedType(V)
  BY DEF Typed
<1> HIDE DEF a, b
<1>5. /\ Len(a) \in Nat /\ Len(b) \in Nat /\ Len(a) = Len(b) + 1
      /\ \A i \in 1 .. Len(b) : i + 1 \in 1 .. Len(a) /\ b[i] = a[i + 1]
  BY <1>2 DEF Shifts
<1>6. \A n \in 1 .. Len(b) : b[n].id = "SETKEY" =>
        /\ b[n].ctrl \in {"ADD", "DEL"} /\ b[n].holder \in KeyHolders
        /\ b[n].vif \in Vifs /\ b[n].key \in KeyIds
  <2>1. \A n \in 1 .. Len(a) : a[n].id = "SETKEY" =>
          /\ a[n].ctrl \in {"ADD", "DEL"} /\ a[n].holder \in KeyHolders
          /\ a[n].vif \in Vifs /\ a[n].key \in KeyIds
    BY DEF KeyQueue, a
  <2> QED BY <1>5, <2>1
<1>7. ASSUME NEW v \in Vifs, NEW k \in KeyIds
      PROVE  /\ \A n \in 1 .. Len(b) : b[n].id = "VIF_CTRL" /\ b[n].vif = v =>
                  Gone(b, saved', v, k, n)
             /\ NoneOf(v, k) => Gone(b, saved', v, k, Len(b) + 1)
  <2>1. ASSUME NEW n \in 1 .. Len(b) + 1, Gone(a, saved, v, k, n + 1)
        PROVE  Gone(b, saved', v, k, n)
    BY <1>2, <1>3, <1>4, <2>1, GoneSave
  <2>2. ASSUME NEW n \in 1 .. Len(b), b[n].id = "VIF_CTRL", b[n].vif = v
        PROVE  Gone(b, saved', v, k, n)
    <3>1. n + 1 \in 1 .. Len(a) /\ a[n + 1].id = "VIF_CTRL" /\ a[n + 1].vif = v
      BY <1>5, <2>2
    <3>2. Gone(a, saved, v, k, n + 1)
      BY <3>1 DEF KeyQueue, a
    <3>3. n \in 1 .. Len(b) + 1
      BY <1>5
    <3> QED BY <2>1, <3>2, <3>3
  <2>3. ASSUME NoneOf(v, k) PROVE Gone(b, saved', v, k, Len(b) + 1)
    <3>1. Gone(a, saved, v, k, Len(a) + 1)
      BY <2>3 DEF KeyQueue, a
    <3>2. Len(b) + 1 \in 1 .. Len(b) + 1 /\ Len(a) = Len(b) + 1
      BY <1>5
    <3> QED BY <2>1, <3>1, <3>2
  <2> QED BY <2>2, <2>3
<1>8. KeyQueue'
  BY <1>3, <1>6, <1>7 DEF KeyQueue, NoneOf, b
<1> QED BY <1>1, <1>2, <1>8 DEF Queued

\* No failure is forgotten.
LEMMA NoFailure ==
  ASSUME Kept, failures' = 0, [Next]_vars
  PROVE  failures = 0 /\ ~WorkSkip
<1>1. ASSUME WorkSkip PROVE FALSE
  BY <1>1 DEF WorkSkip, Kept
<1>2. CASE HostNext
  BY <1>1, <1>2, HostAppends
<1>3. CASE \/ TxWake \/ TxRest \/ TxTake \/ TxSave \/ TxWrite \/ FwDie \/ WorkDown
           \/ WorkUp \/ WorkCopy \/ WorkReleased \/ WorkWrite \/ WorkDone
  BY <1>1, <1>3 DEF TxWake, TxRest, TxTake, TxSave, TxWrite, FwDie, WorkDown,
     WorkUp, WorkCopy, WorkReleased, WorkWrite, WorkDone, envVars, workVars,
     hostVars
<1>4. CASE UNCHANGED vars
  BY <1>1, <1>4 DEF vars, hostVars
<1> QED BY <1>1, <1>2, <1>3, <1>4 DEF Next

LEMMA InitQueue == Init => Queued /\ KeyQueue
<1> SUFFICES ASSUME Init PROVE Queued /\ KeyQueue
  OBVIOUS
<1>1. txq = <<>> /\ txPc = "asleep" /\ saved = NothingSaved
  BY DEF Init
<1>2. <<>> \in Seq({}) /\ Len(<<>>) = 0
  OBVIOUS
<1>3. Queue = <<>>
  BY <1>1 DEF Queue, View
<1>4. \A n \in 1 .. Len(Queue) : FALSE
  BY <1>2, <1>3
<1>5. \A v \in Vifs, k \in KeyIds : NothingSaved.key[v][k] = NoKey
  BY DEF NothingSaved
<1>6. KeyQueue
  BY <1>1, <1>4, <1>5 DEF KeyQueue, Gone
<1> QED BY <1>1, <1>2, <1>6 DEF Queued

LEMMA StepQueue ==
  Typed /\ Kept /\ Queued /\ KeyQueue /\ [Next]_vars => Queued' /\ KeyQueue'
<1> SUFFICES ASSUME Typed, Kept, Queued, KeyQueue, [Next]_vars
             PROVE  Queued' /\ KeyQueue'
  OBVIOUS
<1> SUFFICES ASSUME failures' = 0 PROVE Queued' /\ KeyQueue'
  BY DEF Queued, KeyQueue
<1>1. failures = 0
  BY NoFailure
<1>2. ASSUME Queue' = Queue, UNCHANGED <<saved, keys>>, \E W : txq' \in Seq(W)
      PROVE  Queued' /\ KeyQueue'
  BY <1>1, <1>2 DEF Queued, KeyQueue, NoneOf
<1>3. CASE HostNext
  BY <1>3, HostKeys
<1>4. CASE TxSave
  BY <1>1, <1>4, SaveKeys
<1>5. CASE TxTake
  BY <1>1, <1>2, <1>5, QueueTake DEF Queued, TxTake, envVars, hostVars
<1>6. CASE TxWake \/ TxRest \/ TxWrite
  BY <1>1, <1>2, <1>6, QueueSame DEF Queued, TxWake, TxRest, TxWrite, envVars,
     hostVars
<1>7. CASE \/ FwDie \/ WorkDown \/ WorkUp \/ WorkCopy \/ WorkSkip
           \/ WorkReleased \/ WorkWrite \/ WorkDone
  <2>1. UNCHANGED <<txq, txVars, saved, keys>>
    BY <1>7 DEF FwDie, WorkDown, WorkUp, WorkCopy, WorkSkip, WorkReleased,
       WorkWrite, WorkDone, workVars, hostVars
  <2> QED BY <1>1, <1>2, <2>1, QueueSame DEF Queued
<1>8. CASE UNCHANGED vars
  <2>1. UNCHANGED <<txq, txVars, saved, keys>>
    BY <1>8 DEF vars, hostVars
  <2> QED BY <1>1, <1>2, <2>1, QueueSame DEF Queued
<1> QED BY <1>3, <1>4, <1>5, <1>6, <1>7, <1>8 DEF Next

-----------------------------------------------------------------------------
(* The key that is saved is the one the firmware should have.              *)

KeySaved ==
  Live /\ failures = 0 =>
    \A v \in Vifs, k \in KeyIds :
      HasVif(ideal, v) /\ <<v, k>> \notin shared =>
        /\ saved.key[v][k].holder \in KeyHolders
        /\ ideal.vif[v].key[k][saved.key[v][k].holder] = saved.key[v][k].val

\* An index that is not there has no keys.
Bare(x) ==
  \A v \in Vifs, k \in KeyIds, p \in KeyHolders :
    x.vif[v].mode = NoMode => x.vif[v].key[k][p] = Unset

LEMMA FreshBare == Bare(Fresh) /\ Bare(Booted)
  BY FreshSlots DEF Bare

LEMMA ApplyBare ==
  ASSUME NEW V, NEW x \in FwType(V), NEW c, Bare(x)
  PROVE  Bare(Apply(x, c))
<1>1. CASE c.id = "RESET"
  <2>1. CASE c.type = "ENABLE"
    BY <1>1, <2>1, ApplyReset_, FreshBare
  <2>2. CASE c.type # "ENABLE"
    <3>1. Apply(x, c).vif = x.vif
      BY <1>1, <2>2 DEF Apply, ApplyReset, FwType
    <3> QED BY <3>1 DEF Bare
  <2> QED BY <2>1, <2>2
<1>2. CASE c.id # "RESET" /\ ~x.on
  BY <1>2, ApplyOff
<1>3. CASE c.id # "RESET" /\ x.on
  <2>1. \A v \in Vifs : VifEffect(Apply(x, c).vif[v], x.vif[v], c, v)
    BY <1>3, ApplyEffect DEF Effect
  <2> QED BY <2>1 DEF VifEffect, Bare
<1> QED BY <1>1, <1>2, <1>3

LEMMA StepBare == Typed /\ Worker /\ Bare(fw) /\ [Next]_vars => Bare(fw)'
<1> SUFFICES ASSUME Typed, Bare(fw), [Next]_vars PROVE Bare(fw')
  BY DEF Bare
<1>1. fw' = fw \/ fw' = Booted \/ \E c : fw' = Apply(fw, c)
  <2>1. CASE HostNext
    BY <2>1, HostQuiet DEF Start, StopEnd, otherVars
  <2>2. CASE \/ TxWake \/ TxRest \/ TxTake \/ TxSave \/ TxWrite
    BY <2>2 DEF TxWake, TxRest, TxTake, TxSave, TxWrite, envVars
  <2>3. CASE \/ FwDie \/ WorkDown \/ WorkUp \/ WorkCopy \/ WorkSkip
             \/ WorkReleased \/ WorkWrite \/ WorkDone
    BY <2>3 DEF FwDie, WorkDown, WorkUp, WorkCopy, WorkSkip, WorkReleased,
       WorkWrite, WorkDone
  <2>4. CASE UNCHANGED vars
    BY <2>4 DEF vars
  <2> QED BY <2>1, <2>2, <2>3, <2>4 DEF Next
<1>2. PICK V : fw \in FwType(V)
  BY DEF Typed
<1>3. CASE fw' = fw
  BY <1>3
<1>4. CASE fw' = Booted
  BY <1>4, FreshBare
<1>5. ASSUME NEW c, fw' = Apply(fw, c) PROVE Bare(fw')
  BY <1>2, <1>5, ApplyBare
<1> QED BY <1>1, <1>3, <1>4, <1>5

\* What of a key the firmware has and has not.
LEMMA KeyIs ==
  ASSUME Live, failures = 0, SavedTracksIdeal, KeySaved, NEW v \in Vifs,
         NEW k \in KeyIds, HasVif(ideal, v), <<v, k>> \notin shared,
         NEW p \in KeyHolders
  PROVE  ideal.vif[v].key[k][p] = IF p = saved.key[v][k].holder
                                  THEN saved.key[v][k].val ELSE Unset
<1> DEFINE s == saved.key[v][k]
           x == ideal.vif[v].key[k][p]
<1>1. x # Unset => s = [holder |-> p, val |-> x]
  BY DEF SavedTracksIdeal, Tracks, TracksVif, Live
<1>2. s.holder \in KeyHolders /\ ideal.vif[v].key[k][s.holder] = s.val
  BY DEF KeySaved
<1>3. x # Unset => s.holder = p
  <2> HIDE DEF x, s
  <2> QED BY <1>1
<1> QED BY <1>2, <1>3

LEMMA SharedAfter ==
  ASSUME TxSave, txCmd.id # "RESET", NEW v \in Vifs, NEW k \in KeyIds,
         ~(txCmd.id = "VIF_CTRL" /\ txCmd.vif = v), <<v, k>> \notin shared'
  PROVE  /\ <<v, k>> \notin shared
         /\ txCmd.id = "SETKEY" /\ txCmd.vif = v /\ txCmd.key = k =>
              \A p \in KeyHolders \ {txCmd.holder} : ideal.vif[v].key[k][p] = Unset
<1>1. shared' = NextShared(shared, ideal, txCmd)
  BY DEF TxSave
<1>2. CASE txCmd.id = "VIF_CTRL"
  <2> DEFINE x == <<v, k>>
  <2>1. x[1] = v
    OBVIOUS
  <2>2. shared' = {y \in shared : y[1] # txCmd.vif}
    BY <1>1, <1>2 DEF NextShared
  <2> HIDE DEF x
  <2>3. x \in shared => x \in shared'
    BY <1>2, <2>1, <2>2
  <2> QED BY <1>2, <2>3 DEF x
<1>3. CASE txCmd.id = "SETKEY"
  <2>1. shared' = IF \E p \in KeyHolders \ {txCmd.holder} :
                       ideal.vif[txCmd.vif].key[txCmd.key][p] # Unset
                  THEN shared \cup {<<txCmd.vif, txCmd.key>>} ELSE shared
    BY <1>1, <1>3 DEF NextShared
  <2> QED BY <2>1
<1>4. CASE txCmd.id \notin {"RESET", "VIF_CTRL", "SETKEY"}
  BY <1>1, <1>4 DEF NextShared
<1> QED BY <1>2, <1>3, <1>4

LEMMA SaveKeySaved ==
  ASSUME Typed, Queued, KeyQueue, KeySaved, TxSave
  PROVE  KeySaved'
<1> SUFFICES ASSUME Live', failures' = 0, NEW v \in Vifs, NEW k \in KeyIds,
                    HasVif(ideal', v), <<v, k>> \notin shared'
             PROVE  /\ saved'.key[v][k].holder \in KeyHolders
                    /\ ideal'.vif[v].key[k][saved'.key[v][k].holder] = saved'.key[v][k].val
  BY DEF KeySaved
<1> DEFINE c == txCmd
<1>1. saved' = Save(saved, c) /\ failures = 0
  BY DEF TxSave, envVars, hostVars
<1>2. PICK V : saved \in SavedType(V)
  BY DEF Typed
<1>3. saved'.key[v][k] = KeyAfter(saved.key[v][k], c, v, k)
  BY <1>1, <1>2, SavedKey
<1>4. PICK U : txq \in Seq(U)
  BY <1>1 DEF Queued
<1>5. Queue[1] = c /\ Shifts(Queue, Queue')
  BY <1>4, QueueSave
<1>6. 1 \in 1 .. Len(Queue)
  <2> DEFINE a == Len(Queue)
             b == Len(Queue')
  <2>1. a \in Nat /\ b \in Nat /\ a = b + 1
    BY <1>5 DEF Shifts
  <2> HIDE DEF a, b
  <2>2. 1 \in 1 .. a
    BY <2>1
  <2> QED BY <2>2 DEF a
<1>7. c.id # "RESET"
  <2>1. c.id = "RESET" => ideal' = Fresh
    BY SaveLive
  <2> QED BY <2>1, FreshSlots DEF HasVif
<1>8. Live /\ Effect(ideal', ideal, c)
  BY <1>7, SaveLive
<1>9. VifEffect(ideal'.vif[v], ideal.vif[v], c, v)
  BY <1>8 DEF Effect
<1> DEFINE s == saved.key[v][k]
           t == saved'.key[v][k]
           i == ideal.vif[v]
           j == ideal'.vif[v]
<1>10. CASE c.id = "VIF_CTRL" /\ c.vif = v
  <2>1. Gone(Queue, saved, v, k, 1)
    BY <1>1, <1>5, <1>6, <1>10 DEF KeyQueue
  <2>2. \A m \in 1 .. Len(Queue) : ~(m < 1)
    <3> DEFINE a == Len(Queue)
    <3>1. a \in Nat
      BY <1>5 DEF Shifts
    <3> HIDE DEF a
    <3>2. \A m \in 1 .. a : ~(m < 1)
      BY <3>1
    <3> QED BY <3>2 DEF a
  <2>3. s = NoKey
    BY <2>1, <2>2 DEF Gone
  <2>4. t = NoKey
    BY <1>3, <1>10, <2>3 DEF KeyAfter
  <2>5. t.holder = Broadcast /\ t.val = Unset /\ Broadcast \in KeyHolders
    BY <2>4 DEF NoKey, KeyHolders
  <2>6. \A p \in KeyHolders : j.key[k][p] = Unset
    BY <1>9, <1>10 DEF VifEffect
  <2> QED BY <2>5, <2>6
<1>11. CASE ~(c.id = "VIF_CTRL" /\ c.vif = v)
  <2>1. /\ <<v, k>> \notin shared
        /\ c.id = "SETKEY" /\ c.vif = v /\ c.key = k =>
             \A p \in KeyHolders \ {c.holder} : i.key[k][p] = Unset
    BY <1>7, <1>11, SharedAfter
  <2>2. j.mode = i.mode /\ i.mode # NoMode
    BY <1>9, <1>11 DEF VifEffect, HasVif
  <2>3. /\ s.holder \in KeyHolders /\ i.key[k][s.holder] = s.val
    BY <1>1, <1>8, <2>1, <2>2 DEF KeySaved, HasVif
  <2>4. \A p \in KeyHolders :
          j.key[k][p] = IF c.id = "SETKEY" /\ c.vif = v /\ c.key = k /\ c.holder = p
                        THEN IF c.ctrl = "ADD" THEN c.val ELSE Unset
                        ELSE i.key[k][p]
    BY <1>9, <1>11, <2>2 DEF VifEffect
  <2> HIDE DEF s, i, j
  <2>5. CASE c.id = "SETKEY" /\ c.vif = v /\ c.key = k
    <3>1. c.holder \in KeyHolders
      BY <1>1, <1>5, <1>6, <2>5 DEF KeyQueue
    <3>2. CASE c.ctrl = "ADD"
      <4>1. t = [holder |-> c.holder, val |-> c.val]
        BY <1>3, <1>7, <2>5, <3>2 DEF KeyAfter
      <4>2. t.holder = c.holder /\ t.val = c.val
        BY <4>1
      <4> QED BY <2>4, <2>5, <3>1, <3>2, <4>2 DEF j
    <3>3. CASE c.ctrl # "ADD"
      <4>1. t = NoKey
        BY <1>3, <1>7, <2>5, <3>3 DEF KeyAfter
      <4>2. t.holder = Broadcast /\ t.val = Unset /\ Broadcast \in KeyHolders
        BY <4>1 DEF NoKey, KeyHolders
      <4>3. j.key[k][Broadcast] = Unset
        BY <2>1, <2>4, <2>5, <3>3, <4>2
      <4> QED BY <4>2, <4>3 DEF j
    <3> QED BY <3>2, <3>3
  <2>6. CASE ~(c.id = "SETKEY" /\ c.vif = v /\ c.key = k)
    <3>1. t = s
      BY <1>3, <1>7, <2>6 DEF KeyAfter, s
    <3>2. j.key[k][s.holder] = s.val
      BY <2>3, <2>4, <2>6
    <3> QED BY <2>3, <3>1, <3>2 DEF j
  <2> QED BY <2>5, <2>6
<1> QED BY <1>10, <1>11

LEMMA StepKeySaved ==
  Typed /\ Kept /\ Queued /\ KeyQueue /\ KeySaved /\ [Next]_vars => KeySaved'
<1> SUFFICES ASSUME Typed, Kept, Queued, KeyQueue, KeySaved, [Next]_vars
             PROVE  KeySaved'
  OBVIOUS
<1> SUFFICES ASSUME failures' = 0 PROVE KeySaved'
  BY DEF KeySaved
<1>1. failures = 0
  BY NoFailure
<1>2. CASE UNCHANGED <<ideal, saved, shared>> /\ (Live' => Live)
  BY <1>1, <1>2 DEF KeySaved
<1>3. UNCHANGED <<state, ideal, saved>> => (Live' => Live)
  BY DEF Live
<1>4. CASE Start \/ StopEnd
  BY <1>4, StartStopNotLive DEF KeySaved
<1>5. CASE HostNext /\ ~Start /\ ~StopEnd
  <2>1. UNCHANGED <<ideal, saved, shared>> /\ state # "off"
    BY <1>5, HostQuiet DEF otherVars, histVars
  <2> QED BY <1>2, <2>1 DEF Live
<1>6. CASE TxSave
  BY <1>6, SaveKeySaved
<1>7. CASE \/ TxWake \/ TxRest \/ TxTake \/ TxWrite
           \/ FwDie \/ WorkDown \/ WorkUp \/ WorkCopy \/ WorkSkip
           \/ WorkReleased \/ WorkWrite \/ WorkDone
  BY <1>2, <1>3, <1>7 DEF TxWake, TxRest, TxTake, TxWrite, FwDie, WorkDown, WorkUp,
     WorkCopy, WorkSkip, WorkReleased, WorkWrite, WorkDone, envVars, workVars,
     hostVars, histVars
<1>8. CASE UNCHANGED vars
  BY <1>2, <1>3, <1>8 DEF vars, hostVars, histVars
<1> QED BY <1>4, <1>5, <1>6, <1>7, <1>8 DEF Next

-----------------------------------------------------------------------------
(* The worker's copy of a key.                                             *)

HeldKey ==
  Live /\ failures = 0 /\ held # NoCmd =>
    \A v \in Vifs, k \in KeyIds :
      /\ recSlot = KeySlot(v, k) /\ Resent(3, v, 3)
      /\ HasVif(ideal, v) /\ <<v, k>> \notin shared
      => \A p \in KeyHolders :
           ideal.vif[v].key[k][p] = IF p = held.holder THEN held.val ELSE Unset

LEMMA SaveHeldKey ==
  ASSUME Typed, HeldKey, TxSave
  PROVE  HeldKey'
<1> SUFFICES ASSUME Live', failures' = 0, held' # NoCmd,
                    NEW v \in Vifs, NEW k \in KeyIds,
                    recSlot' = KeySlot(v, k), Resent(3, v, 3)',
                    HasVif(ideal', v), <<v, k>> \notin shared',
                    NEW p \in KeyHolders
             PROVE  ideal'.vif[v].key[k][p] = IF p = held'.holder THEN held'.val ELSE Unset
  BY DEF HeldKey
<1> DEFINE c == txCmd
<1>1. /\ stale' = stale \cup ({ItemOfSlot(recSlot)} \cap ItemsOfCommand(c))
      /\ recSlot' = recSlot /\ held' = held /\ held # NoCmd /\ failures = 0
  BY SaveRaces DEF TxSave, envVars, hostVars
<1>2. Resent(3, v, 3) /\ <<3, v, 3>> \notin ItemsOfCommand(c)
  BY <1>1, SlotItems DEF Resent
<1>3. /\ c.id # "RESET" /\ ~(c.id = "VIF_CTRL" /\ c.vif = v)
      /\ ~(c.id = "SETKEY" /\ c.vif = v)
  <2>1. 3 \in 0 .. 3
    OBVIOUS
  <2> QED BY <1>2, <2>1, CommandItems
<1>4. Live /\ VifEffect(ideal'.vif[v], ideal.vif[v], c, v)
  BY <1>3, SaveLive DEF Effect
<1>5. /\ HasVif(ideal, v) /\ ideal'.vif[v].key[k][p] = ideal.vif[v].key[k][p]
  BY <1>3, <1>4 DEF VifEffect, HasVif
<1>6. <<v, k>> \notin shared
  BY <1>3, SharedAfter
<1> QED BY <1>1, <1>2, <1>4, <1>5, <1>6 DEF HeldKey

LEMMA CopyHeldKey ==
  ASSUME SavedTracksIdeal, KeySaved, failures = 0, WorkCopy
  PROVE  HeldKey'
<1> HIDE DEF NextSlot
<1>1. /\ recSlot' = NextSlot /\ held' = Recall(saved, NextSlot)
      /\ UNCHANGED <<state, ideal, saved, shared>>
  BY DEF WorkCopy, workVars, hostVars, histVars
<1> SUFFICES ASSUME Live, NEW v \in Vifs, NEW k \in KeyIds, recSlot' = KeySlot(v, k),
                    HasVif(ideal, v), <<v, k>> \notin shared, NEW p \in KeyHolders
             PROVE  ideal.vif[v].key[k][p] = IF p = held'.holder THEN held'.val ELSE Unset
  BY <1>1 DEF HeldKey, Live
<1>2. held' = PeerKey(v, "ADD", k, saved.key[v][k].holder, saved.key[v][k].val)
  BY <1>1 DEF Recall, KeySlot, Slot
<1>3. held'.holder = saved.key[v][k].holder /\ held'.val = saved.key[v][k].val
  BY <1>2 DEF PeerKey
<1> QED BY <1>3, KeyIs

LEMMA StepHeldKey ==
  Typed /\ Kept /\ SavedTracksIdeal /\ Worker /\ KeySaved /\ HeldKey /\ [Next]_vars
    => HeldKey'
<1> SUFFICES ASSUME Typed, Kept, SavedTracksIdeal, Worker, KeySaved, HeldKey,
                    [Next]_vars
             PROVE  HeldKey'
  OBVIOUS
<1> SUFFICES ASSUME failures' = 0 PROVE HeldKey'
  BY DEF HeldKey
<1>0. failures = 0
  BY NoFailure
<1>1. CASE UNCHANGED <<ideal, shared, held, recSlot, stale>> /\ (Live' => Live)
  BY <1>0, <1>1 DEF HeldKey, Resent
<1>2. UNCHANGED <<state, ideal, saved>> => (Live' => Live)
  BY DEF Live
<1>3. CASE Start \/ StopEnd
  BY <1>3, StartStopNotLive DEF HeldKey
<1>4. CASE HostNext /\ ~Start /\ ~StopEnd
  <2>1. UNCHANGED <<ideal, saved, shared, held, recSlot, stale>> /\ state # "off"
    BY <1>4, HostQuiet DEF otherVars, histVars, recVars
  <2> QED BY <1>1, <2>1 DEF Live
<1>5. CASE TxSave
  BY <1>5, SaveHeldKey
<1>6. CASE TxWake \/ TxRest \/ TxTake \/ TxWrite \/ FwDie \/ WorkDown
  BY <1>1, <1>2, <1>6 DEF TxWake, TxRest, TxTake, TxWrite, FwDie, WorkDown,
     envVars, workVars, hostVars, histVars, recVars
<1>7. CASE WorkUp \/ WorkSkip \/ WorkReleased \/ WorkWrite \/ WorkDone
  <2>1. held' = NoCmd
    BY <1>7 DEF WorkUp, WorkSkip, Sending, WorkReleased, WorkWrite, WorkDone, Worker
  <2> QED BY <2>1 DEF HeldKey
<1>8. CASE WorkCopy
  BY <1>0, <1>8, CopyHeldKey
<1>9. CASE UNCHANGED vars
  BY <1>1, <1>2, <1>9 DEF vars, hostVars, recVars, histVars
<1> QED BY <1>3, <1>4, <1>5, <1>6, <1>7, <1>8, <1>9 DEF Next

-----------------------------------------------------------------------------
(* The keys the firmware has.                                              *)

Telling(v, k) ==
  Resent(3, v, 0) /\ Resent(3, v, 3) /\ HasVif(ideal, v) /\ <<v, k>> \notin shared

KeyBack(x, v, k) ==
  Telling(v, k) =>
    \A p \in KeyHolders :
      /\ x.vif[v].key[k][p] \in {Unset, ideal.vif[v].key[k][p]}
      /\ Passed(KeySlot(v, k)) => x.vif[v].key[k][p] = ideal.vif[v].key[k][p]

KeysBack(x) == \A v \in Vifs, k \in KeyIds : KeyBack(x, v, k)

KeysReplayed == Live /\ failures = 0 /\ Serving => KeysBack(Written)

LEMMA SelfKeys == KeysBack(ideal)
  BY DEF KeysBack, KeyBack

LEMMA BootedKeys ==
  recSlot \in Slots /\ ~Passed(ResetSlot) => KeysBack(Booted)
  BY FreshSlots, NothingPassed DEF KeysBack, KeyBack

\* Where the control command has not been passed, nothing after it has.
LEMMA PassedBefore ==
  ASSUME recSlot \in Slots, NEW a \in Slots, NEW b \in Slots, Before(a, b), Passed(b)
  PROVE  Passed(a)
<1>1. CASE recPc = "idle"
  BY <1>1 DEF Passed
<1>2. CASE recPc # "idle"
  <2>1. Before(b, recSlot) \/ b = recSlot
    BY <1>2 DEF Passed
  <2>2. Before(a, recSlot)
    BY <2>1, BeforeTransitive
  <2> QED BY <2>2 DEF Passed
<1> QED BY <1>1, <1>2

LEMMA CtrlPassed ==
  recSlot \in Slots =>
    \A v \in Vifs, k \in KeyIds : Passed(KeySlot(v, k)) => Passed(CtrlSlot(v))
  BY PassedBefore, NamedSlots, SlotOrder

LEMMA SaveKeysBack ==
  ASSUME Typed, Worker, Restored, Bare(fw), KeysReplayed, TxSave
  PROVE  KeysReplayed'
<1> SUFFICES ASSUME Live', Serving', failures' = 0 PROVE KeysBack(Written)'
  BY DEF KeysReplayed
<1> DEFINE c == txCmd
<1>1. /\ txPc = "taken" /\ txCmd' = IF halDisabled THEN NoCmd ELSE txCmd
      /\ txPc' = IF halDisabled THEN "asleep" ELSE "saved"
      /\ UNCHANGED <<state, fw, recPc, recSlot, held, halDisabled, failures>>
  BY DEF TxSave, envVars, hostVars
<1>2. Serving /\ ~halDisabled /\ failures = 0
  BY <1>1 DEF Serving, Worker, Live
<1>3. Written = fw /\ Written' = Apply(fw, c)
  BY <1>1, <1>2 DEF Written
<1>4. \A x : Passed(x)' <=> Passed(x)
  BY <1>1 DEF Passed
<1>5. \A a, b, d : Resent(a, b, d)' => Resent(a, b, d)
  BY DEF TxSave, Resent
<1>6. PICK V : ideal \in FwType(V) /\ fw \in FwType(V)
  BY DEF Typed
<1>7. ideal' = Apply(ideal, c)
  BY DEF TxSave
<1>8. CASE c.id = "RESET"
  <2>1. ideal' = Fresh /\ c.type = "ENABLE"
    BY <1>8, SaveLive
  <2>2. Written' = ideal'
    BY <1>3, <1>6, <1>8, <2>1, ApplyReset_
  <2>3. KeysBack(ideal)'
    BY SelfKeys, PTL
  <2> QED BY <2>2, <2>3 DEF KeysBack, KeyBack
<1>9. CASE c.id # "RESET"
  <2>1. Live /\ Effect(ideal', ideal, c)
    BY <1>9, SaveLive
  <2>2. Low(fw) /\ Agrees(fw) /\ KeysBack(fw)
    BY <1>2, <1>3, <2>1 DEF Restored, KeysReplayed
  <2>3. CASE fw.on
    <3>1. Effect(Written', fw, c)
      BY <1>3, <1>6, <1>9, <2>3, ApplyEffect
    <3> HIDE DEF Written
    <3> SUFFICES ASSUME NEW v \in Vifs, NEW k \in KeyIds, Telling(v, k)',
                        NEW p \in KeyHolders
                 PROVE  /\ Written'.vif[v].key[k][p] \in {Unset, ideal'.vif[v].key[k][p]}
                        /\ Passed(KeySlot(v, k))' =>
                             Written'.vif[v].key[k][p] = ideal'.vif[v].key[k][p]
      BY DEF KeysBack, KeyBack
    <3> DEFINE o == fw.vif[v]
               n == Written'.vif[v]
               i == ideal.vif[v]
               j == ideal'.vif[v]
    <3>2. VifEffect(n, o, c, v) /\ VifEffect(j, i, c, v)
      BY <2>1, <3>1 DEF Effect
    <3>3. CASE c.id = "VIF_CTRL" /\ c.vif = v
      <4> HIDE DEF o, n, i, j
      <4>1. n.key[k][p] = Unset /\ j.key[k][p] = Unset
        BY <3>2, <3>3 DEF VifEffect
      <4> QED BY <4>1 DEF n, j
    <3>4. CASE ~(c.id = "VIF_CTRL" /\ c.vif = v)
      <4>1. <<v, k>> \notin shared
        BY <1>9, <3>4, SharedAfter DEF Telling
      <4>2. j.mode = i.mode /\ j.mode # NoMode
        BY <3>2, <3>4 DEF VifEffect, Telling, HasVif
      <4>3. Telling(v, k)
        BY <1>5, <4>1, <4>2 DEF Telling, HasVif
      <4>4. /\ o.key[k][p] \in {Unset, i.key[k][p]}
            /\ Passed(KeySlot(v, k)) => o.key[k][p] = i.key[k][p]
        BY <2>2, <4>3 DEF KeysBack, KeyBack
      <4>5. Passed(KeySlot(v, k)) => o.mode = i.mode
        <5> HAVE Passed(KeySlot(v, k))
        <5>1. Passed(CtrlSlot(v))
          BY PassedBefore, NamedSlots, SlotOrder DEF Worker
        <5> QED BY <2>2, <4>3, <5>1 DEF Agrees, AgreesVif, Telling
      <4>6. o.mode = NoMode => o.key[k][p] = Unset
        BY DEF Bare
      <4> DEFINE pass == Passed(KeySlot(v, k))
      <4>7. Passed(KeySlot(v, k))' <=> pass
        BY <1>4
      <4> HIDE DEF o, n, i, j, pass
      <4>8. /\ n.key[k][p] \in {Unset, j.key[k][p]}
            /\ pass => n.key[k][p] = j.key[k][p]
        <5>1. CASE c.id = "SETKEY" /\ c.vif = v /\ c.key = k /\ c.holder = p
          <6>1. j.key[k][p] = IF c.ctrl = "ADD" THEN c.val ELSE Unset
            BY <3>2, <3>4, <4>2, <5>1 DEF VifEffect
          <6>2. n.key[k][p] = IF o.mode = NoMode THEN Unset
                              ELSE IF c.ctrl = "ADD" THEN c.val ELSE Unset
            BY <3>2, <3>4, <4>6, <5>1 DEF VifEffect
          <6> QED BY <4>2, <4>5, <6>1, <6>2 DEF pass
        <5>2. CASE ~(c.id = "SETKEY" /\ c.vif = v /\ c.key = k /\ c.holder = p)
          <6>1. j.key[k][p] = i.key[k][p] /\ n.key[k][p] = o.key[k][p]
            BY <3>2, <3>4, <5>2 DEF VifEffect
          <6> QED BY <4>4, <6>1 DEF pass
        <5> QED BY <5>1, <5>2
      <4> QED BY <4>7, <4>8 DEF n, j
    <3> QED BY <3>3, <3>4
  <2>4. CASE ~fw.on
    <3>1. fw = Booted /\ ~Passed(ResetSlot)
      BY <2>2, <2>4 DEF Low, Agrees
    <3>2. Written' = Booted
      BY <1>3, <1>9, <2>4, <3>1, ApplyOff
    <3>3. recSlot' \in Slots /\ ~Passed(ResetSlot)'
      BY <1>1, <1>4, <3>1 DEF Worker
    <3>4. (recSlot \in Slots /\ ~Passed(ResetSlot) => KeysBack(Booted))'
      BY BootedKeys, PTL
    <3>5. Written' = Booted' /\ KeysBack(Booted)'
      BY <3>2, <3>3, <3>4 DEF Booted
    <3> SUFFICES ASSUME NEW v \in Vifs, NEW k \in KeyIds
                 PROVE  KeyBack(Written, v, k)'
      BY DEF KeysBack
    <3>8. KeyBack(Booted, v, k)'
      BY <3>5 DEF KeysBack
    <3> QED BY ONLY <3>5, <3>8 DEF KeyBack
  <2> QED BY <2>3, <2>4
<1> QED BY <1>8, <1>9

LEMMA UpKeysBack ==
  ASSUME Typed, Worker, PendingDone, WorkUp
  PROVE  KeysReplayed'
<1> SUFFICES ASSUME Live' PROVE KeysBack(Written)'
  BY DEF KeysReplayed
<1>1. /\ Written' = Booted \/ Written' = ideal'
      /\ recSlot' \in Slots /\ ~Passed(ResetSlot)'
  BY UpWritten
<1>2. (recSlot \in Slots /\ ~Passed(ResetSlot) => KeysBack(Booted))' /\ KeysBack(ideal)'
  BY BootedKeys, SelfKeys, PTL
<1>3. CASE Written' = Booted
  <2>1. KeysBack(Booted)'
    BY <1>1, <1>2
  <2>2. Booted' = Booted
    BY DEF Booted
  <2>3. Written' = Booted'
    BY <1>3, <2>2
  <2> SUFFICES ASSUME NEW v \in Vifs, NEW k \in KeyIds
               PROVE  KeyBack(Written, v, k)'
    BY DEF KeysBack
  <2>8. KeyBack(Booted, v, k)'
    BY <2>1 DEF KeysBack
  <2> QED BY ONLY <2>3, <2>8 DEF KeyBack
<1>4. CASE Written' = ideal'
  <2>1. KeysBack(ideal)'
    BY <1>2
  <2> SUFFICES ASSUME NEW v \in Vifs, NEW k \in KeyIds
               PROVE  KeyBack(Written, v, k)'
    BY DEF KeysBack
  <2>8. KeyBack(ideal, v, k)'
    BY <2>1 DEF KeysBack
  <2> QED BY ONLY <1>4, <2>8 DEF KeyBack
<1> QED BY <1>1, <1>3, <1>4

LEMMA PassKeysBack ==
  ASSUME Typed, SavedTracksIdeal, Worker, KeysReplayed, WorkCopy \/ WorkDone
  PROVE  KeysReplayed'
<1> SUFFICES ASSUME Live', failures' = 0 PROVE KeysBack(Written)'
  BY DEF KeysReplayed
<1>1. /\ UNCHANGED <<state, failures, ideal, shared, saved, fw, txPc, txCmd, stale>>
      /\ recPc = "send" /\ held = NoCmd
  BY DEF WorkCopy, Sending, WorkDone, workVars, hostVars, histVars, txVars
<1>2. Live /\ Written' = Written /\ recSlot \in Slots /\ failures = 0
  BY <1>1 DEF Live, Written, Worker
<1>3. KeysBack(Written)
  BY <1>1, <1>2 DEF KeysReplayed, Serving
<1> HIDE DEF Written
<1>4. PICK U : saved.mcst \in Seq(U)
  BY DEF Typed
<1>5. \A x \in Slots : Passed(x)' => Passed(x) \/ x \notin Due(saved, recVif)
  BY <1>1, <1>2, <1>4, PassedOver
<1>6. recSlot' \in Slots
  <2>1. Worker'
    <3>1. CASE WorkCopy
      BY <3>1, CopyWorker
    <3>2. CASE WorkDone
      BY <3>2, NamedSlots DEF WorkDone, workVars, hostVars, Worker, Serving
    <3> QED BY <3>1, <3>2
  <2> QED BY <2>1 DEF Worker
<1>10. (recSlot \in Slots =>
          \A v \in Vifs, k \in KeyIds : Passed(KeySlot(v, k)) => Passed(CtrlSlot(v)))'
  BY CtrlPassed, PTL
<1> SUFFICES ASSUME NEW v \in Vifs, NEW k \in KeyIds, Telling(v, k)',
                    NEW p \in KeyHolders
             PROVE  /\ Written'.vif[v].key[k][p] \in {Unset, ideal'.vif[v].key[k][p]}
                    /\ Passed(KeySlot(v, k))' =>
                         Written'.vif[v].key[k][p] = ideal'.vif[v].key[k][p]
  BY DEF KeysBack, KeyBack
<1>7. Telling(v, k) /\ KeyBack(Written, v, k)
  BY <1>1, <1>3 DEF Telling, Resent, KeysBack
<1>8. Written.vif[v].key[k][p] \in {Unset, ideal.vif[v].key[k][p]}
  BY <1>7 DEF KeyBack
<1>9. ASSUME Passed(KeySlot(v, k))'
      PROVE  Written.vif[v].key[k][p] = ideal.vif[v].key[k][p]
  <2> DEFINE x == KeySlot(v, k)
  <2>1. x \in Slots /\ x[1] = 3 /\ x[2] = v /\ CtrlSlot(v) \in Slots /\ Before(CtrlSlot(v), x)
    BY NamedSlots, SlotOrder DEF KeySlot, Slot
  <2>2. Passed(CtrlSlot(v))'
    BY <1>6, <1>9, <1>10
  <2>3. Passed(CtrlSlot(v))
    BY <1>2, <1>5, <1>7, <2>1, <2>2, LiveDue DEF Telling
  <2>4. CASE Passed(x)
    BY <1>7, <2>4 DEF KeyBack
  <2>5. CASE ~Passed(x)
    <3>1. recVif = v
      BY <1>1, <2>1, <2>3, <2>5, AtVif
    <3>2. x \notin Due(saved, recVif) /\ saved.reset
      BY <1>2, <1>5, <1>9, <2>1, <2>5 DEF Live
    <3>3. saved.key[v][k] = NoKey
      <4>1. ~IsDue(saved, recVif, x)
        BY <3>2, DueIs
      <4> QED BY <3>1, <4>1 DEF IsDue
    <3>4. TracksVif(saved, ideal, shared, v)
      BY <1>2 DEF SavedTracksIdeal, Tracks, Live
    <3>5. ideal.vif[v].key[k][p] = Unset
      <4> DEFINE y == ideal.vif[v].key[k][p]
      <4>1. y # Unset => saved.key[v][k] = [holder |-> p, val |-> y]
        BY <1>7, <3>4 DEF TracksVif, Telling
      <4> HIDE DEF y
      <4>2. y = Unset
        BY <3>3, <4>1 DEF NoKey
      <4> QED BY <4>2 DEF y
    <3> QED BY <1>8, <3>5
  <2> QED BY <2>4, <2>5
<1> QED BY <1>1, <1>2, <1>8, <1>9

LEMMA WriteKeysBack ==
  ASSUME Typed, Worker, PendingDone, Restored, Restored', Bare(fw), Bare(fw'),
         HeldKey, KeysReplayed, WorkWrite
  PROVE  KeysReplayed'
<1> SUFFICES ASSUME Live', failures' = 0 PROVE KeysBack(Written)'
  BY DEF KeysReplayed
<1> DEFINE c == Pending
           F == Written'
<1>1. /\ recPc = "send" /\ held # NoCmd /\ held' = NoCmd
      /\ UNCHANGED <<state, failures, ideal, shared, saved, recSlot, recPc, stale>>
  BY DEF WorkWrite, workVars, hostVars, histVars
<1>2. Live /\ failures = 0
  BY <1>1 DEF Live
<1>3. Low(Written) /\ Agrees(Written) /\ KeysBack(Written) /\ Agrees(Written)'
  BY <1>1, <1>2 DEF Restored, KeysReplayed, Serving
<1>4. /\ \A x : Passed(x)' <=> Passed(x) \/ x = recSlot
      /\ \A x : Passed(x)' <=> Before(x, recSlot) \/ x = recSlot
  BY <1>1 DEF Passed
<1>5. Fits(held, recSlot) /\ recSlot \in Slots
  BY <1>1 DEF Worker
<1>6. CASE F = ideal
  BY <1>1, <1>6 DEF KeysBack, KeyBack
<1>7. CASE held.id = "RESET" /\ Effect(F, Fresh, c) /\ Effect(ideal, ideal, c)
  <2>1. recSlot = ResetSlot
    BY <1>5, <1>7, FitsIs
  <2>2. \A v \in Vifs, k \in KeyIds : ~Passed(KeySlot(v, k))'
    BY <1>4, <2>1, BeforeOrders, NamedSlots, SlotOrder
  <2> HIDE DEF F, c
  <2>3. \A v \in Vifs, k \in KeyIds, p \in KeyHolders : F.vif[v].key[k][p] = Unset
    BY <1>7, FreshSlots DEF Effect, VifEffect
  <2> QED BY <2>2, <2>3 DEF KeysBack, KeyBack, F
<1>8. CASE /\ held.id # "RESET" /\ fw.on /\ Passed(ResetSlot)
           /\ Effect(Written, fw, c) /\ Effect(fw', fw, held)
           /\ Effect(F, fw', c) /\ Effect(ideal, ideal, c)
  <2> HIDE DEF Written, Pending
  <2> SUFFICES ASSUME NEW v \in Vifs, NEW k \in KeyIds, Telling(v, k),
                      NEW p \in KeyHolders
               PROVE  /\ F.vif[v].key[k][p] \in {Unset, ideal.vif[v].key[k][p]}
                      /\ Passed(KeySlot(v, k))' =>
                           F.vif[v].key[k][p] = ideal.vif[v].key[k][p]
    BY <1>1 DEF KeysBack, KeyBack, Telling, Resent
  <2> DEFINE o == fw.vif[v]
             g == fw'.vif[v]
             n == F.vif[v]
             w == Written.vif[v]
             i == ideal.vif[v]
             x == KeySlot(v, k)
  <2>1. /\ VifEffect(w, o, c, v) /\ VifEffect(g, o, held, v)
        /\ VifEffect(n, g, c, v) /\ VifEffect(i, i, c, v)
    BY <1>8 DEF Effect
  <2>2. /\ w.key[k][p] \in {Unset, i.key[k][p]}
        /\ Passed(x) => w.key[k][p] = i.key[k][p]
    BY <1>3 DEF KeysBack, KeyBack
  <2>3. /\ recSlot = CtrlSlot(v) <=> held.id = "VIF_CTRL" /\ held.vif = v
        /\ recSlot = x <=> held.id = "SETKEY" /\ held.vif = v /\ held.key = k
        /\ held.id = "SETKEY" => held.ctrl = "ADD"
    BY <1>5, FitsIs
  <2>4. i.mode # NoMode /\ Resent(3, v, 0) /\ Resent(3, v, 3)
    BY DEF Telling, HasVif
  <2>5. /\ o.mode = NoMode => o.key[k][p] = Unset
        /\ g.mode = NoMode => g.key[k][p] = Unset
    BY DEF Bare
  <2>6. ASSUME Passed(x)'
        PROVE  /\ recSlot # CtrlSlot(v) /\ n.mode = i.mode /\ w.mode = i.mode
               /\ x # recSlot => Passed(x)
    <3>1. Before(x, recSlot) \/ x = recSlot
      BY <1>4, <2>6
    <3>2. Before(CtrlSlot(v), recSlot)
      BY <1>5, <3>1, BeforeTransitive, NamedSlots, SlotOrder
    <3>3. Passed(CtrlSlot(v)) /\ Passed(CtrlSlot(v))'
      BY <1>4, <3>2 DEF Passed
    <3>4. recSlot # CtrlSlot(v)
      BY <1>5, <3>2, BeforeOrders
    <3>5. Resent(3, v, 0)'
      BY <1>1, <2>4 DEF Resent
    <3>6. w.mode = i.mode /\ n.mode = i.mode
      BY <1>1, <1>3, <2>4, <3>3, <3>5 DEF Agrees, AgreesVif
    <3> QED BY <1>4, <2>6, <3>4, <3>6
  <2>7. recSlot = x =>
          i.key[k][p] = IF p = held.holder THEN held.val ELSE Unset
    BY <1>1, <1>2 DEF HeldKey, Telling
  <2> DEFINE pass == Passed(x)'
             was == Passed(x)
  <2> HIDE DEF pass, was
  <2>8. pass => /\ recSlot # CtrlSlot(v) /\ n.mode = i.mode /\ w.mode = i.mode
                /\ x # recSlot => was
    BY <2>6 DEF pass, was
  <2>9. was => w.key[k][p] = i.key[k][p]
    BY <2>2 DEF was
  <2> SUFFICES /\ n.key[k][p] \in {Unset, i.key[k][p]}
               /\ pass => n.key[k][p] = i.key[k][p]
    BY DEF pass
  <2> HIDE DEF o, g, n, w, i, c, F, x
  <2>10. CASE c.id = "VIF_CTRL" /\ c.vif = v
    BY <2>1, <2>10 DEF VifEffect
  <2>11. CASE ~(c.id = "VIF_CTRL" /\ c.vif = v)
    <3>1. n.mode = g.mode /\ w.mode = o.mode
      BY <2>1, <2>11 DEF VifEffect
    <3>2. CASE c.id = "SETKEY" /\ c.vif = v /\ c.key = k /\ c.holder = p
      <4>1. i.key[k][p] = IF c.ctrl = "ADD" THEN c.val ELSE Unset
        BY <2>1, <2>4, <2>11, <3>2 DEF VifEffect
      <4>2. n.key[k][p] = IF g.mode # NoMode
                          THEN IF c.ctrl = "ADD" THEN c.val ELSE Unset ELSE Unset
        BY <2>1, <2>5, <2>11, <3>2 DEF VifEffect
      <4> QED BY <2>4, <2>8, <3>1, <4>1, <4>2
    <3>3. CASE ~(c.id = "SETKEY" /\ c.vif = v /\ c.key = k /\ c.holder = p)
      <4>1. n.key[k][p] = g.key[k][p] /\ w.key[k][p] = o.key[k][p]
        BY <2>1, <2>11, <3>3 DEF VifEffect
      <4>2. CASE held.id = "VIF_CTRL" /\ held.vif = v
        <5>1. g.key[k][p] = Unset
          BY <2>1, <4>2 DEF VifEffect
        <5> QED BY <2>3, <2>8, <4>1, <4>2, <5>1
      <4>3. CASE recSlot = x
        <5>1. ~(held.id = "VIF_CTRL" /\ held.vif = v)
          BY <2>3, <4>3
        <5>2. g.key[k][p] = IF o.mode # NoMode /\ held.holder = p THEN held.val
                            ELSE o.key[k][p]
          BY <2>1, <2>3, <4>3, <5>1 DEF VifEffect
        <5>3. CASE held.holder = p
          BY <2>4, <2>5, <2>7, <2>8, <3>1, <4>1, <4>3, <5>2, <5>3
        <5>4. CASE held.holder # p
          <6>1. i.key[k][p] = Unset
            BY <2>7, <4>3, <5>4
          <6> QED BY <2>2, <4>1, <5>2, <5>4, <6>1
        <5> QED BY <5>3, <5>4
      <4>4. CASE recSlot # x /\ ~(held.id = "VIF_CTRL" /\ held.vif = v)
        <5>1. g.key[k][p] = o.key[k][p]
          BY <2>1, <2>3, <4>4 DEF VifEffect
        <5> QED BY <2>2, <2>8, <2>9, <4>1, <4>4, <5>1
      <4> QED BY <4>2, <4>3, <4>4
    <3> QED BY <3>2, <3>3
  <2> QED BY <2>10, <2>11
<1> QED BY <1>2, <1>6, <1>7, <1>8, WriteWritten

LEMMA ReleasedKeys ==
  ASSUME Typed, Worker, KeysReplayed, failures = 0, WorkReleased
  PROVE  KeysReplayed'
<1>1. /\ UNCHANGED <<state, failures, ideal, shared, saved, fw, txPc, txCmd, stale>>
      /\ recPc = "send" /\ recPc' = recPc
  BY DEF WorkReleased, workVars, hostVars, histVars, txVars
<1>2. (Live' => Live) /\ Written' = Written
  BY <1>1 DEF Live, Written
<1> HIDE DEF Written
<1>3. ASSUME NEW v \in Vifs, NEW k \in KeyIds, KeyBack(Written, v, k)
      PROVE  KeyBack(Written, v, k)'
  <2>1. ~Passed(KeySlot(v, k))'
    BY ReleasedOnly, NamedSlots DEF KeySlot, Slot
  <2>2. Telling(v, k)' => Telling(v, k)
    BY <1>1 DEF Telling, Resent
  <2> QED BY <1>1, <1>2, <1>3, <2>1, <2>2 DEF KeyBack
<1> QED BY <1>1, <1>2, <1>3 DEF KeysReplayed, KeysBack, Serving

LEMMA StepKeysBack ==
  Typed /\ Kept /\ SavedTracksIdeal /\ Worker /\ PendingDone /\ HeldAgrees /\ Restored
    /\ Bare(fw) /\ HeldKey /\ KeysReplayed /\ [Next]_vars => KeysReplayed'
<1> SUFFICES ASSUME Typed, Kept, SavedTracksIdeal, Worker, PendingDone, HeldAgrees,
                    Restored, Bare(fw), HeldKey, KeysReplayed, [Next]_vars
             PROVE  KeysReplayed'
  OBVIOUS
<1> SUFFICES ASSUME failures' = 0 PROVE KeysReplayed'
  BY DEF KeysReplayed
<1>0. failures = 0
  BY NoFailure
<1>a. ~WorkSkip
  BY NoFailure
<1>1. CASE /\ UNCHANGED <<ideal, shared, held, recSlot, recPc, stale>>
           /\ Written' = Written /\ (Live' => Live)
  <2>1. \A x : Passed(x)' <=> Passed(x)
    BY <1>1 DEF Passed
  <2>2. \A v \in Vifs, k \in KeyIds : KeyBack(Written, v, k)' <=> KeyBack(Written, v, k)
    <3> SUFFICES ASSUME NEW v \in Vifs, NEW k \in KeyIds
                 PROVE  KeyBack(Written, v, k)' <=> KeyBack(Written, v, k)
      OBVIOUS
    <3>1. Telling(v, k)' <=> Telling(v, k)
      BY <1>1 DEF Telling, Resent
    <3>2. Passed(KeySlot(v, k))' <=> Passed(KeySlot(v, k))
      BY <2>1
    <3>3. Written' = Written /\ ideal' = ideal
      BY <1>1
    <3> QED BY ONLY <3>1, <3>2, <3>3 DEF KeyBack
  <2>3. KeysBack(Written)' <=> KeysBack(Written)
    BY <2>2 DEF KeysBack
  <2> QED BY <1>0, <1>1, <2>3 DEF KeysReplayed, Serving
<1>2. UNCHANGED <<state, ideal, saved>> => (Live' => Live)
  BY DEF Live
<1>3. UNCHANGED <<fw, txPc, txCmd>> => Written' = Written
  BY DEF Written
<1>4. CASE Start \/ StopEnd
  BY <1>4, StartStopNotLive DEF KeysReplayed
<1>5. CASE HostNext /\ ~Start /\ ~StopEnd
  <2>1. /\ UNCHANGED <<ideal, shared, saved, held, recSlot, recPc, stale, fw, txPc, txCmd>>
        /\ state # "off"
    BY <1>5, HostQuiet DEF otherVars, histVars, recVars, txVars
  <2> QED BY <1>1, <1>3, <2>1 DEF Live
<1>6. CASE TxSave
  BY <1>6, SaveKeysBack
<1>7. CASE TxWrite
  <2>1. CASE Serving
    <3>1. alive /\ txPc = "saved"
      BY <1>7, <2>1 DEF Worker, TxWrite
    <3>2. fw' = Apply(fw, txCmd) /\ txPc' = "loop"
      BY <1>7, <3>1 DEF TxWrite
    <3>3. Written' = Written
      BY <3>1, <3>2 DEF Written
    <3> QED BY <1>1, <1>2, <1>7, <3>3 DEF TxWrite, hostVars, recVars, histVars
  <2>2. CASE ~Serving
    BY <1>7, <2>2 DEF TxWrite, recVars, KeysReplayed, Serving
  <2> QED BY <2>1, <2>2
<1>8. CASE TxWake \/ TxRest \/ TxTake
  <2>1. txPc # "saved" /\ txPc' # "saved" /\ fw' = fw
    BY <1>8 DEF TxWake, TxRest, TxTake, envVars
  <2>2. Written' = Written
    BY <2>1 DEF Written
  <2> QED BY <1>1, <1>2, <1>8, <2>2 DEF TxWake, TxRest, TxTake, envVars, hostVars,
                                  histVars
<1>9. CASE FwDie \/ WorkDown
  BY <1>9 DEF FwDie, WorkDown, KeysReplayed, Serving
<1>10. CASE WorkUp
  BY <1>10, UpKeysBack
<1>11. CASE WorkCopy \/ WorkDone
  BY <1>11, PassKeysBack
<1>14. CASE WorkReleased
  BY <1>0, <1>14, ReleasedKeys
<1>12. CASE WorkWrite
  <2>1. Restored' /\ Bare(fw')
    BY <1>12, StepRestored, StepBare DEF Bare
  <2> QED BY <1>12, <2>1, WriteKeysBack
<1>13. CASE UNCHANGED vars
  BY <1>1, <1>2, <1>3, <1>13 DEF vars, hostVars, recVars, histVars, txVars
<1> QED BY <1>a, <1>4, <1>5, <1>6, <1>7, <1>8, <1>9, <1>10, <1>11, <1>12, <1>13, <1>14
        DEF Next

KeysInv ==
  /\ RestoredInv /\ Kept /\ Queued /\ KeyQueue /\ KeySaved
  /\ Bare(fw) /\ HeldKey /\ KeysReplayed

LEMMA InitKeys == Init => KeysInv
<1> SUFFICES ASSUME Init PROVE KeysInv
  OBVIOUS
<1>1. state = "off" /\ held = NoCmd /\ fw = Booted
  BY DEF Init
<1>2. KeySaved /\ HeldKey /\ KeysReplayed /\ Bare(fw)
  BY <1>1, FreshBare DEF KeySaved, HeldKey, KeysReplayed, Live
<1> QED BY <1>2, InitRestored, InitKept, InitQueue DEF KeysInv

LEMMA AlwaysKeys == Spec => []KeysInv
<1>1. KeysInv /\ [Next]_vars => KeysInv'
  <2>1. RestoredInv /\ [Next]_vars => RestoredInv'
    BY StepTracks, StepTyped, StepWorker, StepPending, StepHeld, StepRestored
       DEF RestoredInv
  <2> QED
    BY <2>1, StepKept, StepQueue, StepKeySaved, StepBare, StepHeldKey, StepKeysBack
       DEF KeysInv, RestoredInv
<1> QED BY <1>1, InitKeys, PTL DEF Spec

\* When no allocation has failed, the firmware has exactly the keys of one
\* that never died: those the host has left, and none it has removed, an
\* interface that has gone and come back included (setkey_param of hal.c
\* forgets no key when an interface goes, and need not: the host's removal
\* of each key has been saved before). It is so for the indices that two
\* stations have not used at once.
THEOREM KeysAreRestored == Spec => []KeysRestored
<1>1. ASSUME KeysInv PROVE KeysRestored
  <2> SUFFICES ASSUME Settled, failures = 0, NEW v \in Vifs, NEW k \in KeyIds,
                      Telling(v, k)
               PROVE  fw.vif[v].key[k] = ideal.vif[v].key[k]
    BY DEF KeysRestored, Telling
  <2>1. Live /\ Serving /\ Written = fw /\ Passed(KeySlot(v, k))
    BY DEF Settled, Live, Serving, Written, Passed
  <2>2. \A p \in KeyHolders : fw.vif[v].key[k][p] = ideal.vif[v].key[k][p]
    BY <1>1, <2>1 DEF KeysInv, KeysReplayed, KeysBack, KeyBack
  <2>3. PICK V : fw \in FwType(V) /\ ideal \in FwType(V)
    BY <1>1 DEF KeysInv, RestoredInv, Typed
  <2>4. /\ fw.vif[v].key[k] \in [KeyHolders -> V]
        /\ ideal.vif[v].key[k] \in [KeyHolders -> V]
    BY <2>3 DEF FwType, VifType
  <2> QED BY <2>2, <2>4
<1> QED BY <1>1, AlwaysKeys, PTL

-----------------------------------------------------------------------------
(* The multicast addresses on their way, and those that are saved. s is    *)
(* the saved sequence and K the addresses mac80211 has given last.         *)

IsAdd(c) == c.id = "MCST_ADDR_CFG" /\ c.op = "ADD"
IsRem(c) == c.id = "MCST_ADDR_CFG" /\ c.op = "REM"

Elems(s) == {s[i] : i \in 1 .. Len(s)}

RemovedAfter(q, x, n) ==
  \E m \in 1 .. Len(q) : n < m /\ IsRem(q[m]) /\ q[m].addr = x

\* If anything is going to be removed, all that is saved is, ...
Cleared(q, s) ==
  (\E m \in 1 .. Len(q) : IsRem(q[m])) => \A x \in Elems(s) : RemovedAfter(q, x, 0)

\* ... and all that is added before it.
ClearedLater(q) ==
  \A n, m \in 1 .. Len(q) :
    n < m /\ IsAdd(q[n]) /\ IsRem(q[m]) => RemovedAfter(q, q[n].addr, n)

\* If nothing is, all that is saved is known, ...
Known(q, s, K) == (\A m \in 1 .. Len(q) : ~IsRem(q[m])) => Elems(s) \subseteq K

\* ... and all that is added after the last removal.
KnownLater(q, K) ==
  \A n \in 1 .. Len(q) :
    IsAdd(q[n]) /\ (\A m \in 1 .. Len(q) : n < m => ~IsRem(q[m])) => q[n].addr \in K

\* There is room for the additions that no removal comes before, ...
Room(q, s) ==
  \A p, m \in 1 .. Len(q) :
    p <= m /\ IsAdd(q[p]) /\ IsAdd(q[m]) /\ (\A n \in 1 .. Len(q) : n <= m => ~IsRem(q[n]))
      => Len(s) + (m - p) + 1 <= McstAddrLimit

\* ... and for those that none comes between.
RoomLater(q) ==
  \A p, m \in 1 .. Len(q) :
    p <= m /\ IsAdd(q[p]) /\ IsAdd(q[m])
      /\ (\A n \in 1 .. Len(q) : p <= n /\ n <= m => ~IsRem(q[n]))
      => (m - p) + 1 <= McstAddrLimit

Marked(q) ==
  \A n \in 1 .. Len(q) : q[n].id = "MCST_ADDR_CFG" => q[n].op \in {"ADD", "REM"}

AddrQueue(q, s, K) ==
  /\ Marked(q) /\ Cleared(q, s) /\ ClearedLater(q)
  /\ Known(q, s, K) /\ KnownLater(q, K) /\ Room(q, s) /\ RoomLater(q)

LEMMA NoElems == Elems(<<>>) = {} /\ Len(<<>>) = 0
<1>1. Len(<<>>) = 0
  OBVIOUS
<1>2. \A i \in 1 .. Len(<<>>) : FALSE
  BY <1>1
<1> QED BY <1>1, <1>2 DEF Elems

\* Nothing saved is as good.
LEMMA AddrForget ==
  ASSUME NEW q, Len(q) \in Nat, NEW s, NEW K, AddrQueue(q, s, K)
  PROVE  AddrQueue(q, <<>>, K)
<1>1. Cleared(q, <<>>) /\ Known(q, <<>>, K)
  BY NoElems DEF Cleared, Known
<1>2. Room(q, <<>>)
  <2> SUFFICES ASSUME NEW p \in 1 .. Len(q), NEW m \in 1 .. Len(q),
                      p <= m, IsAdd(q[p]), IsAdd(q[m]),
                      \A n \in 1 .. Len(q) : n <= m => ~IsRem(q[n])
               PROVE  Len(<<>>) + (m - p) + 1 <= McstAddrLimit
    BY DEF Room
  <2>1. (m - p) + 1 <= McstAddrLimit
    BY DEF AddrQueue, RoomLater
  <2>2. m - p \in Int /\ McstAddrLimit \in Nat
    BY CommandsAssumption
  <2> DEFINE d == m - p
  <2>3. d \in Int /\ d + 1 <= McstAddrLimit
    BY <2>1, <2>2
  <2> HIDE DEF d
  <2>4. 0 + d + 1 <= McstAddrLimit
    BY <2>2, <2>3
  <2> QED BY <2>4, NoElems DEF d
<1> QED BY <1>1, <1>2 DEF AddrQueue

\* Commands about other things change nothing.
LEMMA AddrQuiet ==
  ASSUME NEW a, NEW b, Extends(b, a), NEW s, NEW K, AddrQueue(a, s, K),
         \A i \in Len(a) + 1 .. Len(b) : b[i].id # "MCST_ADDR_CFG"
  PROVE  AddrQueue(b, s, K)
<1>1. /\ Len(a) \in Nat /\ Len(b) \in Nat /\ Len(a) <= Len(b)
      /\ \A i \in 1 .. Len(a) : b[i] = a[i]
  BY DEF Extends
<1>2. \A i \in 1 .. Len(b) : i \in 1 .. Len(a) \/ i \in Len(a) + 1 .. Len(b)
  BY <1>1
<1>3. \A i \in 1 .. Len(b) : b[i].id = "MCST_ADDR_CFG" => i \in 1 .. Len(a) /\ b[i] = a[i]
  BY <1>1, <1>2
<1>4. \A i \in 1 .. Len(a) : i \in 1 .. Len(b) /\ b[i] = a[i]
  BY <1>1
<1>5. \A i \in 1 .. Len(b) :
        /\ IsAdd(b[i]) => i \in 1 .. Len(a) /\ IsAdd(a[i]) /\ b[i] = a[i]
        /\ IsRem(b[i]) => i \in 1 .. Len(a) /\ IsRem(a[i]) /\ b[i] = a[i]
  BY <1>3 DEF IsAdd, IsRem
<1>6. \A x, n : RemovedAfter(a, x, n) => RemovedAfter(b, x, n)
  BY <1>4 DEF RemovedAfter
<1>7. Marked(b)
  BY <1>3 DEF AddrQueue, Marked
<1>8. Cleared(b, s)
  BY <1>5, <1>6 DEF AddrQueue, Cleared
<1>9. ClearedLater(b)
  BY <1>5, <1>6 DEF AddrQueue, ClearedLater
<1>10. Known(b, s, K)
  BY <1>4 DEF AddrQueue, Known
<1>11. KnownLater(b, K)
  BY <1>4, <1>5 DEF AddrQueue, KnownLater
<1>12. Room(b, s)
  BY <1>4, <1>5 DEF AddrQueue, Room
<1>13. RoomLater(b)
  BY <1>4, <1>5 DEF AddrQueue, RoomLater
<1> QED BY <1>7, <1>8, <1>9, <1>10, <1>11, <1>12, <1>13 DEF AddrQueue

\* b is a with a call of prepare_multicast at its end: r removals, of all
\* the addresses of K, then the additions of L, no more than there is room for.
Renews(b, a, r, l, K, L) ==
  /\ Extends(b, a) /\ r \in Nat /\ l \in Nat /\ l <= McstAddrLimit
  /\ \A i \in 1 .. Len(b) : \/ i \in 1 .. Len(a)
                            \/ i \in Len(a) + 1 .. Len(a) + r
                            \/ i \in Len(a) + r + 1 .. Len(a) + r + l
  /\ \A i \in Len(a) + 1 .. Len(a) + r : i \in 1 .. Len(b) /\ IsRem(b[i])
  /\ \A x \in K : \E i \in Len(a) + 1 .. Len(a) + r : b[i].addr = x
  /\ \A i \in Len(a) + r + 1 .. Len(a) + r + l : IsAdd(b[i]) /\ b[i].addr \in L

\* Where r is zero nothing was known.
LEMMA RenewsNothing ==
  ASSUME NEW a, NEW b, NEW r, NEW l, NEW K, NEW L, Renews(b, a, r, l, K, L)
  PROVE  K # {} => /\ Len(a) + 1 \in 1 .. Len(b) /\ IsRem(b[Len(a) + 1])
                   /\ Len(a) + 1 \in Len(a) + 1 .. Len(a) + r
<1> DEFINE n == Len(a)
<1>1. /\ n \in Nat /\ r \in Nat
      /\ \A i \in n + 1 .. n + r : i \in 1 .. Len(b) /\ IsRem(b[i])
      /\ \A x \in K : \E i \in n + 1 .. n + r : b[i].addr = x
  BY DEF Renews, Extends
<1> HIDE DEF n
<1>2. ASSUME NEW i \in n + 1 .. n + r PROVE n + 1 \in n + 1 .. n + r
  BY <1>1
<1>3. K # {} => n + 1 \in n + 1 .. n + r
  BY <1>1, <1>2
<1> QED BY <1>1, <1>3 DEF n

\* Additions do not stop being additions.
LEMMA AddIsNotRem == \A c : ~(IsAdd(c) /\ IsRem(c))
  BY DEF IsAdd, IsRem

LEMMA AddrCall ==
  ASSUME NEW a, NEW b, NEW r, NEW l, NEW K, NEW L, Renews(b, a, r, l, K, L),
         NEW s, Len(s) \in Nat, AddrQueue(a, s, K)
  PROVE  AddrQueue(b, s, L)
<1> DEFINE n0 == Len(a)
           n1 == n0 + r
           n2 == n1 + l
           e  == Len(b)
<1>1. /\ n0 \in Nat /\ e \in Nat /\ n0 <= e /\ r \in Nat /\ l \in Nat
      /\ \A i \in 1 .. n0 : i \in 1 .. e /\ b[i] = a[i]
  BY DEF Renews, Extends
<1>2. /\ \A i \in 1 .. e : i \in 1 .. n0 \/ i \in n0 + 1 .. n1 \/ i \in n1 + 1 .. n2
      /\ \A i \in n0 + 1 .. n1 : i \in 1 .. e /\ IsRem(b[i])
      /\ \A x \in K : \E i \in n0 + 1 .. n1 : b[i].addr = x
      /\ \A i \in n1 + 1 .. n2 : IsAdd(b[i]) /\ b[i].addr \in L
      /\ l <= McstAddrLimit
  BY DEF Renews
<1>3. K # {} => n0 + 1 \in 1 .. e /\ IsRem(b[n0 + 1]) /\ n0 + 1 \in n0 + 1 .. n1
  BY RenewsNothing
<1>4. McstAddrLimit \in Nat
  BY CommandsAssumption
<1>m. Marked(a) /\ Cleared(a, s) /\ ClearedLater(a) /\ Known(a, s, K)
      /\ KnownLater(a, K) /\ Room(a, s) /\ RoomLater(a)
  BY DEF AddrQueue
<1>5. \A i \in 1 .. e :
        /\ IsAdd(b[i]) => \/ i \in 1 .. n0 /\ IsAdd(a[i]) /\ b[i] = a[i]
                          \/ i \in n1 + 1 .. n2 /\ b[i].addr \in L
        /\ IsRem(b[i]) => \/ i \in 1 .. n0 /\ IsRem(a[i]) /\ b[i] = a[i]
                          \/ i \in n0 + 1 .. n1
  BY <1>1, <1>2, AddIsNotRem
<1>6. /\ n1 \in Nat /\ n2 \in Nat /\ n2 = n1 + l /\ n0 <= n1
      /\ \A i \in 1 .. n0 : i \in Nat /\ i <= n0
      /\ \A i \in n0 + 1 .. n1 : i \in Nat /\ n0 < i /\ i <= n1
      /\ \A i \in n1 + 1 .. n2 : i \in Nat /\ n1 < i /\ i <= n2 /\ n0 < i
  <2> HIDE DEF n0, e
  <2>1. n1 \in Nat /\ n2 \in Nat /\ n2 = n1 + l /\ n0 <= n1
    BY <1>1
  <2> HIDE DEF n1, n2
  <2> QED BY <1>1, <2>1
<1>7. \A x, n : RemovedAfter(a, x, n) => RemovedAfter(b, x, n)
  BY <1>1 DEF RemovedAfter
<1>8. ASSUME NEW x \in K, NEW n \in Nat, n <= n0 PROVE RemovedAfter(b, x, n)
  <2>1. PICK i \in n0 + 1 .. n1 : b[i].addr = x
    BY <1>2
  <2>2. i \in 1 .. e /\ IsRem(b[i]) /\ n0 < i /\ i \in Nat
    BY <1>2, <1>6
  <2> HIDE DEF n0, n1
  <2>3. n < i
    BY <1>1, <1>8, <2>2
  <2> QED BY <2>1, <2>2, <2>3 DEF RemovedAfter, e
<1> HIDE DEF n0, n1, n2, e
<1>9. Marked(b)
  <2>1. \A i \in 1 .. e : b[i].id = "MCST_ADDR_CFG" => b[i].op \in {"ADD", "REM"}
    BY <1>m, <1>1, <1>2 DEF Marked, IsAdd, IsRem, n0
  <2> QED BY <2>1 DEF Marked, e
<1>10. Cleared(b, s)
  <2>1. ASSUME NEW x \in Elems(s) PROVE RemovedAfter(b, x, 0)
    <3>1. CASE \E m \in 1 .. n0 : IsRem(a[m])
      BY <1>m, <1>7, <3>1 DEF Cleared, n0
    <3>2. CASE ~ \E m \in 1 .. n0 : IsRem(a[m])
      <4>1. x \in K
        BY <1>m, <2>1, <3>2 DEF Known, n0
      <4> QED BY <1>1, <1>8, <4>1
    <3> QED BY <3>1, <3>2
  <2> QED BY <2>1 DEF Cleared
<1>11. ClearedLater(b)
  <2> SUFFICES ASSUME NEW n \in 1 .. e, NEW m \in 1 .. e,
                      n < m, IsAdd(b[n]), IsRem(b[m])
               PROVE  RemovedAfter(b, b[n].addr, n)
    BY DEF ClearedLater, e
  <2>1. n \in 1 .. n0 /\ IsAdd(a[n]) /\ b[n] = a[n]
    <3>1. m <= n1 /\ m \in Nat
      BY <1>1, <1>5, <1>6
    <3> QED BY <1>1, <1>5, <1>6, <3>1
  <2>2. CASE \E i \in 1 .. n0 : n < i /\ IsRem(a[i])
    BY <1>m, <1>7, <2>1, <2>2 DEF ClearedLater, n0
  <2>3. CASE ~ \E i \in 1 .. n0 : n < i /\ IsRem(a[i])
    <3>1. a[n].addr \in K
      BY <1>m, <2>1, <2>3 DEF KnownLater, n0
    <3> QED BY <1>6, <1>8, <2>1, <3>1
  <2> QED BY <2>2, <2>3
<1>12. Known(b, s, L)
  <2> SUFFICES ASSUME \A m \in 1 .. e : ~IsRem(b[m]) PROVE Elems(s) \subseteq L
    BY DEF Known, e
  <2>1. K = {}
    BY <1>3
  <2>2. \A m \in 1 .. n0 : ~IsRem(a[m])
    BY <1>1
  <2> QED BY <1>m, <2>1, <2>2 DEF Known, n0
<1>13. KnownLater(b, L)
  <2> SUFFICES ASSUME NEW n \in 1 .. e, IsAdd(b[n]),
                      \A m \in 1 .. e : n < m => ~IsRem(b[m])
               PROVE  b[n].addr \in L
    BY DEF KnownLater, e
  <2>1. CASE n \in 1 .. n0 /\ IsAdd(a[n])
    <3>1. n < n0 + 1
      BY <1>1, <1>6, <2>1
    <3>2. K = {}
      BY <1>3, <3>1
    <3>3. \A m \in 1 .. n0 : n < m => ~IsRem(a[m])
      BY <1>1
    <3> QED BY <1>m, <2>1, <3>2, <3>3 DEF KnownLater, n0
  <2> QED BY <1>5, <2>1
<1>14. ASSUME NEW p \in n1 + 1 .. n2, NEW m \in n1 + 1 .. n2, p <= m
       PROVE  (m - p) + 1 <= McstAddrLimit /\ m \in Nat /\ p \in Nat
  BY <1>1, <1>2, <1>4, <1>6, <1>14
<1>15. Room(b, s)
  <2> SUFFICES ASSUME NEW p \in 1 .. e, NEW m \in 1 .. e, p <= m, IsAdd(b[p]), IsAdd(b[m]),
                      \A n \in 1 .. e : n <= m => ~IsRem(b[n])
               PROVE  Len(s) + (m - p) + 1 <= McstAddrLimit
    BY DEF Room, e
  <2>1. CASE m \in 1 .. n0 /\ IsAdd(a[m])
    <3>1. p \in 1 .. n0 /\ IsAdd(a[p])
      BY <1>1, <1>5, <1>6, <2>1
    <3>2. \A n \in 1 .. n0 : n <= m => ~IsRem(a[n])
      BY <1>1
    <3> QED BY <1>m, <2>1, <3>1, <3>2 DEF Room, n0
  <2>2. CASE m \in n1 + 1 .. n2
    <3>1. n0 + 1 <= m /\ m \in Nat
      BY <1>1, <1>6, <2>2
    <3>2. K = {}
      BY <1>3, <3>1
    <3>3. \A n \in 1 .. n0 : ~IsRem(a[n])
      <4>1. ASSUME NEW n \in 1 .. n0 PROVE n <= m
        BY <1>1, <1>6, <3>1
      <4> QED BY <1>1, <4>1
    <3>4. p \in n1 + 1 .. n2
      <4>1. ASSUME p \in 1 .. n0, IsAdd(a[p]) PROVE FALSE
        BY <1>m, <3>2, <3>3, <4>1 DEF KnownLater, n0
      <4> QED BY <1>5, <4>1
    <3>5. Elems(s) = {}
      BY <1>m, <3>2, <3>3 DEF Known, n0
    <3>6. Len(s) = 0
      <4>1. Len(s) # 0 => 1 \in 1 .. Len(s)
        OBVIOUS
      <4>2. 1 \notin 1 .. Len(s)
        BY <3>5 DEF Elems
      <4> QED BY <4>1, <4>2
    <3>7. (m - p) + 1 <= McstAddrLimit /\ m \in Nat /\ p \in Nat
      BY <1>14, <2>2, <3>4
    <3> QED BY <3>6, <3>7, <1>4
  <2> QED BY <1>5, <2>1, <2>2
<1>16. RoomLater(b)
  <2> SUFFICES ASSUME NEW p \in 1 .. e, NEW m \in 1 .. e, p <= m, IsAdd(b[p]), IsAdd(b[m]),
                      \A n \in 1 .. e : p <= n /\ n <= m => ~IsRem(b[n])
               PROVE  (m - p) + 1 <= McstAddrLimit
    BY DEF RoomLater, e
  <2>1. CASE m \in 1 .. n0 /\ IsAdd(a[m])
    <3>1. p \in 1 .. n0 /\ IsAdd(a[p])
      BY <1>1, <1>5, <1>6, <2>1
    <3>2. \A n \in 1 .. n0 : p <= n /\ n <= m => ~IsRem(a[n])
      BY <1>1
    <3> QED BY <1>m, <2>1, <3>1, <3>2 DEF RoomLater, n0
  <2>2. CASE m \in n1 + 1 .. n2
    <3>1. n0 + 1 <= m /\ m \in Nat
      BY <1>1, <1>6, <2>2
    <3>2. p \in n1 + 1 .. n2
      <4>1. ASSUME p \in 1 .. n0, IsAdd(a[p]) PROVE FALSE
        <5>1. p <= n0 + 1
          BY <1>1, <1>6, <4>1
        <5>2. K = {}
          BY <1>3, <3>1, <5>1
        <5>3. ASSUME NEW n \in 1 .. n0, p < n PROVE ~IsRem(a[n])
          <6>1. p <= n /\ n <= m
            BY <1>1, <1>6, <3>1, <4>1, <5>3
          <6> QED BY <1>1, <6>1
        <5> QED BY <1>m, <4>1, <5>2, <5>3 DEF KnownLater, n0
      <4> QED BY <1>5, <4>1
    <3> QED BY <1>14, <2>2, <3>2
  <2> QED BY <1>5, <2>1, <2>2
<1> QED BY <1>9, <1>10, <1>11, <1>12, <1>13, <1>15, <1>16 DEF AddrQueue

\* What the save of a command makes of the saved addresses.
McstAfter(old, c) ==
  IF c.id = "RESET" THEN IF c.type = "ENABLE" THEN <<>> ELSE old
  ELSE IF c.id # "MCST_ADDR_CFG" THEN old
  ELSE IF c.op = "REM" THEN <<>>
  ELSE IF Len(old) < McstAddrLimit THEN Append(old, c.addr) ELSE old

LEMMA SavedMcst ==
  ASSUME NEW V, NEW s \in SavedType(V), NEW c
  PROVE  Save(s, c).mcst = McstAfter(s.mcst, c)
<1>1. CASE c.id = "RESET"
  <2>1. [NothingSaved EXCEPT !.reset = TRUE].mcst = <<>>
    BY DEF NothingSaved
  <2> QED BY <1>1, <2>1 DEF Save, SaveReset, McstAfter
<1>2. CASE c.id = "MCST_ADDR_CFG"
  <2>1. Save(s, c) = SaveMcstAddrCfg(s, c)
    BY <1>2 DEF Save
  <2> QED BY <1>2, <2>1 DEF SaveMcstAddrCfg, McstAfter, SavedType
<1>3. CASE c.id \notin {"RESET", "MCST_ADDR_CFG"}
  <2>1. Save(s, c).mcst = s.mcst
    BY <1>3 DEF Save, SaveSetKey, SaveVifCtrl, SaveVifCfg, SaveTxqParams, SavedType
  <2> QED BY <1>3, <2>1 DEF McstAfter
<1> QED BY <1>1, <1>2, <1>3

LEMMA AppendElems ==
  ASSUME NEW V, NEW s \in Seq(V), NEW x \in V
  PROVE  /\ Elems(Append(s, x)) = Elems(s) \cup {x}
         /\ Len(Append(s, x)) = Len(s) + 1 /\ Len(s) \in Nat
         /\ \A i \in 1 .. Len(s) : Append(s, x)[i] = s[i]
         /\ Append(s, x)[Len(s) + 1] = x
<1> DEFINE t == Append(s, x)
<1>1. /\ Len(t) = Len(s) + 1 /\ Len(s) \in Nat
      /\ \A i \in 1 .. Len(s) : t[i] = s[i]
      /\ t[Len(s) + 1] = x
  BY AppendProperties
<1> HIDE DEF t
<1>2. \A i : i \in 1 .. Len(t) <=> i \in 1 .. Len(s) \/ i = Len(s) + 1
  BY <1>1
<1>3. Elems(t) = Elems(s) \cup {x}
  BY <1>1, <1>2 DEF Elems
<1> QED BY <1>1, <1>3 DEF t

LEMMA AddrSave ==
  ASSUME NEW a, NEW b, Shifts(a, b), NEW V, NEW s \in Seq(V), NEW K, AddrQueue(a, s, K)
  PROVE  /\ AddrQueue(b, McstAfter(s, a[1]), K)
         /\ IsAdd(a[1]) => Len(s) < McstAddrLimit
<1> DEFINE d == Len(a)
           e == Len(b)
           c == a[1]
           L == Len(s)
<1>1. /\ d \in Nat /\ e \in Nat /\ d = e + 1
      /\ \A i \in 1 .. e : b[i] = a[i + 1]
  BY DEF Shifts
<1>m. Marked(a) /\ Cleared(a, s) /\ ClearedLater(a) /\ Known(a, s, K)
      /\ KnownLater(a, K) /\ Room(a, s) /\ RoomLater(a)
  BY DEF AddrQueue
<1>k. McstAddrLimit \in Nat /\ L \in Nat
  BY CommandsAssumption
<1> HIDE DEF d, e, c, L
<1>2. /\ 1 \in 1 .. d
      /\ \A i \in 1 .. e : i \in Nat /\ 1 <= i /\ i + 1 \in 1 .. d /\ 1 < i + 1
                           /\ b[i] = a[i + 1]
  BY <1>1
<1>3. \A m \in 1 .. d : m = 1 \/ (m \in Nat /\ 1 < m /\ m - 1 \in 1 .. e /\ b[m - 1] = a[m])
  <2>1. \A m \in 1 .. d : m = 1 \/ (m \in Nat /\ 1 < m /\ m - 1 \in 1 .. e /\ m = (m - 1) + 1)
    BY <1>1
  <2> QED BY <1>1, <2>1
<1>4. ASSUME NEW x, NEW n \in Nat, RemovedAfter(a, x, n + 1) PROVE RemovedAfter(b, x, n)
  <2>1. PICK m \in 1 .. d : n + 1 < m /\ IsRem(a[m]) /\ a[m].addr = x
    BY <1>4 DEF RemovedAfter, d
  <2>2. m - 1 \in 1 .. e /\ b[m - 1] = a[m] /\ n < m - 1
    BY <1>3, <2>1
  <2> QED BY <2>1, <2>2 DEF RemovedAfter, e
<1>5. ASSUME NEW x, RemovedAfter(a, x, 0), ~IsRem(c) PROVE RemovedAfter(b, x, 0)
  <2>1. PICK m \in 1 .. d : IsRem(a[m]) /\ a[m].addr = x
    BY <1>5 DEF RemovedAfter, d
  <2>2. m # 1
    BY <1>5, <2>1 DEF c
  <2>3. m - 1 \in 1 .. e /\ b[m - 1] = a[m] /\ 0 < m - 1
    BY <1>3, <2>1, <2>2
  <2> QED BY <2>1, <2>3 DEF RemovedAfter, e
<1>6. Marked(b)
  BY <1>m, <1>2 DEF Marked, d, e
<1>7. ClearedLater(b)
  <2> SUFFICES ASSUME NEW n \in 1 .. e, NEW m \in 1 .. e,
                      n < m, IsAdd(b[n]), IsRem(b[m])
               PROVE  RemovedAfter(b, b[n].addr, n)
    BY DEF ClearedLater, e
  <2>1. n + 1 < m + 1 /\ IsAdd(a[n + 1]) /\ IsRem(a[m + 1]) /\ n \in Nat
    BY <1>2
  <2>2. RemovedAfter(a, a[n + 1].addr, n + 1)
    BY <1>m, <1>2, <2>1 DEF ClearedLater, d
  <2> QED BY <1>2, <1>4, <2>1, <2>2
<1>8. KnownLater(b, K)
  <2> SUFFICES ASSUME NEW n \in 1 .. e, IsAdd(b[n]),
                      \A m \in 1 .. e : n < m => ~IsRem(b[m])
               PROVE  b[n].addr \in K
    BY DEF KnownLater, e
  <2>1. ASSUME NEW m \in 1 .. d, n + 1 < m PROVE ~IsRem(a[m])
    <3>1. m # 1
      BY <1>2, <2>1
    <3>2. m - 1 \in 1 .. e /\ b[m - 1] = a[m] /\ n < m - 1
      BY <1>2, <1>3, <2>1, <3>1
    <3> QED BY <3>2
  <2> QED BY <1>m, <1>2, <2>1 DEF KnownLater, d
<1>9. RoomLater(b)
  <2> SUFFICES ASSUME NEW p \in 1 .. e, NEW m \in 1 .. e, p <= m, IsAdd(b[p]), IsAdd(b[m]),
                      \A n \in 1 .. e : p <= n /\ n <= m => ~IsRem(b[n])
               PROVE  (m - p) + 1 <= McstAddrLimit
    BY DEF RoomLater, e
  <2>1. ASSUME NEW n \in 1 .. d, p + 1 <= n, n <= m + 1 PROVE ~IsRem(a[n])
    <3>1. n # 1
      BY <1>2, <2>1
    <3>2. n - 1 \in 1 .. e /\ b[n - 1] = a[n] /\ p <= n - 1 /\ n - 1 <= m
      BY <1>2, <1>3, <2>1, <3>1
    <3> QED BY <3>2
  <2>2. ((m + 1) - (p + 1)) + 1 <= McstAddrLimit
    <3>1. p + 1 \in 1 .. d /\ m + 1 \in 1 .. d /\ p + 1 <= m + 1
          /\ IsAdd(a[p + 1]) /\ IsAdd(a[m + 1])
      BY <1>2
    <3> QED BY <1>m, <2>1, <3>1 DEF RoomLater, d
  <2> QED BY <1>2, <2>2
<1>10. ASSUME \A m \in 1 .. e : ~IsRem(b[m]), ~IsRem(c) PROVE \A m \in 1 .. d : ~IsRem(a[m])
  BY <1>3, <1>10 DEF c
<1>11. ASSUME NEW m \in 1 .. e, \A n \in 1 .. e : n <= m => ~IsRem(b[n]), ~IsRem(c)
       PROVE  \A n \in 1 .. d : n <= m + 1 => ~IsRem(a[n])
  <2> SUFFICES ASSUME NEW n \in 1 .. d, n <= m + 1, n # 1 PROVE ~IsRem(a[n])
    BY <1>11 DEF c
  <2>1. n - 1 \in 1 .. e /\ b[n - 1] = a[n] /\ n - 1 <= m
    BY <1>2, <1>3
  <2> QED BY <1>11, <2>1
<1>a. ASSUME ~IsRem(c), NEW m \in 1 .. e, IsRem(b[m]) PROVE \A x \in Elems(s) : RemovedAfter(b, x, 0)
  <2>1. m + 1 \in 1 .. d /\ IsRem(a[m + 1])
    BY <1>2, <1>a
  <2>2. \A x \in Elems(s) : RemovedAfter(a, x, 0)
    BY <1>m, <2>1 DEF Cleared, d
  <2> QED BY <1>5, <1>a, <2>2
<1>12. CASE ~IsAdd(c) /\ ~IsRem(c)
  <2>1. Cleared(b, s)
    BY <1>12, <1>a DEF Cleared, e
  <2>2. Known(b, s, K)
    BY <1>m, <1>10, <1>12 DEF Known, d, e
  <2>3. Room(b, s)
    <3> SUFFICES ASSUME NEW p \in 1 .. e, NEW m \in 1 .. e, p <= m, IsAdd(b[p]), IsAdd(b[m]),
                        \A n \in 1 .. e : n <= m => ~IsRem(b[n])
                 PROVE  L + (m - p) + 1 <= McstAddrLimit
      BY DEF Room, e, L
    <3>1. \A n \in 1 .. d : n <= m + 1 => ~IsRem(a[n])
      BY <1>11, <1>12
    <3>2. L + ((m + 1) - (p + 1)) + 1 <= McstAddrLimit
      <4>1. p + 1 \in 1 .. d /\ m + 1 \in 1 .. d /\ p + 1 <= m + 1
            /\ IsAdd(a[p + 1]) /\ IsAdd(a[m + 1])
        BY <1>2
      <4> QED BY <1>m, <3>1, <4>1 DEF Room, d, L
    <3> QED BY <1>2, <1>k, <3>2
  <2>4. AddrQueue(b, s, K)
    BY <1>6, <1>7, <1>8, <1>9, <2>1, <2>2, <2>3 DEF AddrQueue
  <2>5. AddrQueue(b, <<>>, K)
    BY <1>1, <2>4, AddrForget DEF e
  <2>6. McstAfter(s, c) \in {<<>>, s}
    <3>1. c.id # "MCST_ADDR_CFG"
      BY <1>m, <1>2, <1>12 DEF Marked, IsAdd, IsRem, c, d
    <3> QED BY <3>1 DEF McstAfter
  <2> QED BY <1>12, <2>4, <2>5, <2>6 DEF c
<1>13. CASE IsRem(c)
  <2>1. McstAfter(s, c) = <<>>
    BY <1>13 DEF McstAfter, IsRem
  <2>2. Cleared(b, <<>>) /\ Known(b, <<>>, K)
    BY NoElems DEF Cleared, Known
  <2>3. Room(b, <<>>)
    <3> SUFFICES ASSUME NEW p \in 1 .. e, NEW m \in 1 .. e, p <= m, IsAdd(b[p]), IsAdd(b[m]),
                        \A n \in 1 .. e : n <= m => ~IsRem(b[n])
                 PROVE  0 + (m - p) + 1 <= McstAddrLimit
      BY NoElems DEF Room, e
    <3>1. (m - p) + 1 <= McstAddrLimit
      BY <1>9 DEF RoomLater, e
    <3> QED BY <1>2, <3>1
  <2>4. AddrQueue(b, <<>>, K)
    BY <1>6, <1>7, <1>8, <1>9, <2>2, <2>3 DEF AddrQueue
  <2>5. ~IsAdd(c)
    BY <1>13, AddIsNotRem
  <2> QED BY <2>1, <2>4, <2>5 DEF c
<1>14. CASE IsAdd(c)
  <2> DEFINE t == Append(s, c.addr)
  <2>0. ~IsRem(c)
    BY <1>14, AddIsNotRem
  <2>1. L + 1 <= McstAddrLimit
    <3>1. \A n \in 1 .. d : n <= 1 => ~IsRem(a[n])
      BY <1>1, <2>0 DEF c
    <3>2. L + (1 - 1) + 1 <= McstAddrLimit
      BY <1>m, <1>2, <1>14, <3>1 DEF Room, c, d, L
    <3> QED BY <1>k, <3>2
  <2>2. McstAfter(s, c) = t
    BY <1>14, <1>k, <2>1 DEF McstAfter, IsAdd, L
  <2>3. Elems(t) = Elems(s) \cup {c.addr} /\ Len(t) = L + 1
    <3>1. s \in Seq(V \cup {c.addr})
      BY WidenSeq
    <3> QED BY <3>1, AppendElems DEF L
  <2> HIDE DEF t
  <2>4. Cleared(b, t)
    <3> SUFFICES ASSUME NEW m \in 1 .. e, IsRem(b[m])
                 PROVE  \A x \in Elems(t) : RemovedAfter(b, x, 0)
      BY DEF Cleared, e
    <3>1. \A x \in Elems(s) : RemovedAfter(b, x, 0)
      BY <1>a, <2>0
    <3>2. RemovedAfter(a, c.addr, 0 + 1)
      <4>1. m + 1 \in 1 .. d /\ 1 < m + 1 /\ IsRem(a[m + 1])
        BY <1>2
      <4> QED BY <1>m, <1>2, <1>14, <4>1 DEF ClearedLater, c, d
    <3>3. RemovedAfter(b, c.addr, 0)
      BY <1>4, <3>2
    <3> QED BY <2>3, <3>1, <3>3
  <2>5. Known(b, t, K)
    <3> SUFFICES ASSUME \A m \in 1 .. e : ~IsRem(b[m]) PROVE Elems(t) \subseteq K
      BY DEF Known, e
    <3>1. \A m \in 1 .. d : ~IsRem(a[m])
      BY <1>10, <2>0
    <3>2. Elems(s) \subseteq K
      BY <1>m, <3>1 DEF Known, d
    <3>3. c.addr \in K
      BY <1>m, <1>2, <1>14, <3>1 DEF KnownLater, c, d
    <3> QED BY <2>3, <3>2, <3>3
  <2>6. Room(b, t)
    <3> SUFFICES ASSUME NEW p \in 1 .. e, NEW m \in 1 .. e, p <= m, IsAdd(b[p]), IsAdd(b[m]),
                        \A n \in 1 .. e : n <= m => ~IsRem(b[n])
                 PROVE  (L + 1) + (m - p) + 1 <= McstAddrLimit
      BY <2>3 DEF Room, e
    <3>1. \A n \in 1 .. d : n <= m + 1 => ~IsRem(a[n])
      BY <1>11, <2>0
    <3>2. L + ((m + 1) - 1) + 1 <= McstAddrLimit
      <4>1. m + 1 \in 1 .. d /\ 1 <= m + 1 /\ IsAdd(a[m + 1])
        BY <1>2
      <4> QED BY <1>m, <1>2, <1>14, <3>1, <4>1 DEF Room, c, d, L
    <3> QED BY SMTT(30), <1>2, <1>k, <3>2
  <2>7. L < McstAddrLimit
    BY <1>k, <2>1
  <2>8. AddrQueue(b, t, K)
    BY <1>6, <1>7, <1>8, <1>9, <2>4, <2>5, <2>6 DEF AddrQueue
  <2> QED BY <2>2, <2>7, <2>8 DEF c, L
<1> QED BY <1>12, <1>13, <1>14

\* The list that prepare_multicast sends.
McstList(f, r, list) ==
  [n \in 1 .. r |-> May(McstAddrCfg(f[n], "REM"))]
  \o [n \in DOMAIN list |-> Must(McstAddrCfg(list[n], "ADD"))]

RemovesAndAdds(l, f, r, list) ==
  /\ \E T : l \in Seq(T)
  /\ Len(l) = r + Len(list) /\ Len(list) \in Nat
  /\ \A i \in 1 .. r : l[i].cmd = McstAddrCfg(f[i], "REM")
  /\ \A i \in 1 .. Len(list) : l[r + i].cmd = McstAddrCfg(list[i], "ADD")

LEMMA McstListIs ==
  ASSUME NEW f, NEW r \in Nat, NEW S, NEW list \in Seq(S)
  PROVE  RemovesAndAdds(McstList(f, r, list), f, r, list)
<1> DEFINE u == [n \in 1 .. r |-> May(McstAddrCfg(f[n], "REM"))]
           w == [n \in DOMAIN list |-> Must(McstAddrCfg(list[n], "ADD"))]
           l == u \o w
           k == Len(list)
<1>1. k \in Nat /\ DOMAIN list = 1 .. k
  OBVIOUS
<1>2. DOMAIN u = 1 .. r /\ \A n \in 1 .. r : u[n].cmd = McstAddrCfg(f[n], "REM")
  BY DEF May
<1>3. DOMAIN w = 1 .. k /\ \A n \in 1 .. k : w[n].cmd = McstAddrCfg(list[n], "ADD")
  BY <1>1 DEF Must
<1>4. u = [n \in 1 .. r |-> u[n]]
  BY <1>2
<1>5. w = [n \in 1 .. k |-> w[n]]
  BY <1>3
<1> DEFINE T == {u[n] : n \in 1 .. r} \cup {w[n] : n \in 1 .. k}
<1> HIDE DEF u, w, k
<1>6. u \in [1 .. r -> T] /\ w \in [1 .. k -> T]
  BY <1>4, <1>5
<1> HIDE DEF T
<1>7. u \in Seq(T) /\ w \in Seq(T)
  BY <1>1, <1>6
<1>8. Len(u) = r /\ Len(w) = k
  BY <1>1, <1>2, <1>3, <1>7
<1>9. /\ l \in Seq(T) /\ Len(l) = Len(u) + Len(w)
      /\ \A i \in 1 .. Len(u) + Len(w) :
           l[i] = IF i <= Len(u) THEN u[i] ELSE w[i - Len(u)]
  BY <1>7, ConcatProperties
<1> HIDE DEF l
<1>10. ASSUME NEW i \in 1 .. r PROVE l[i].cmd = McstAddrCfg(f[i], "REM")
  <2>1. i \in 1 .. r + k /\ i <= r
    BY <1>1
  <2> QED BY <1>2, <1>8, <1>9, <2>1
<1>11. ASSUME NEW i \in 1 .. k PROVE l[r + i].cmd = McstAddrCfg(list[i], "ADD")
  <2>1. r + i \in 1 .. r + k /\ ~(r + i <= r) /\ (r + i) - r = i
    BY <1>1
  <2> QED BY <1>3, <1>8, <1>9, <2>1
<1>12. RemovesAndAdds(l, f, r, list)
  BY <1>1, <1>8, <1>9, <1>10, <1>11 DEF RemovesAndAdds, k
<1> QED BY <1>12 DEF McstList, l, u, w

\* The addresses mac80211 has given last.
Given == {mcFilters[i] : i \in 1 .. mcCount}

McstQueue == failures = 0 => AddrQueue(Queue, saved.mcst, Given)

LEMMA InitMcst == Init => McstQueue
<1> SUFFICES ASSUME Init PROVE McstQueue
  OBVIOUS
<1>1. txq = <<>> /\ txPc = "asleep" /\ saved.mcst = <<>>
  BY DEF Init, NothingSaved
<1>2. Queue = <<>>
  BY <1>1 DEF Queue, View
<1>3. \A n \in 1 .. Len(Queue) : FALSE
  BY <1>2, NoElems
<1>4. Elems(saved.mcst) = {}
  BY <1>1, NoElems
<1> QED BY <1>3, <1>4 DEF McstQueue, AddrQueue, Marked, Cleared, ClearedLater,
     Known, KnownLater, Room, RoomLater

LEMMA PrepareMcst ==
  ASSUME Typed, Kept, Queued, McstQueue, failures = 0, failures' = 0,
         NEW list \in McLists, PrepareMulticast(list)
  PROVE  McstQueue'
<1> DEFINE Filters(n) == [i \in DOMAIN mcFilters |->
                            IF i <= n THEN list[i] ELSE mcFilters[i]]
           r == mcCount
           q == McstList(mcFilters, r, list)
           k == Len(list)
<1>1. list \in Seq(Addrs) /\ k \in Nat /\ k <= McstAddrLimit
  BY SavedConfigAssumption DEF PrepareMulticast
<1>2. r \in Nat /\ mcFilters \in [1 .. McstAddrLimit -> Addrs \cup {"none"}]
  BY CommandsAssumption DEF Kept
<1>3. PICK n \in 0 .. r + k :
        /\ Calls(q, n)
        /\ IF n > r THEN mcFilters' = Filters(n - r - 1) /\ mcCount' = mcCount
                    ELSE mcFilters' = Filters(k) /\ mcCount' = k
  BY DEF PrepareMulticast, McstList
<1>4. UNCHANGED <<txVars, saved>>
  BY DEF PrepareMulticast, otherVars
<1>5. n = 0
  <2>1. n # 0 => failures' = 1
    BY <1>3 DEF Calls
  <2> QED BY <2>1
<1>6. mcFilters' = Filters(k) /\ mcCount' = k
  BY <1>2, <1>3, <1>5
<1>7. Given' = {list[i] : i \in 1 .. k}
  <2>1. Given' = {Filters(k)[i] : i \in 1 .. k}
    BY <1>6 DEF Given
  <2>2. \A i \in 1 .. k : i \in 1 .. McstAddrLimit /\ i <= k
    BY <1>1, CommandsAssumption
  <2>3. \A i \in 1 .. k : Filters(k)[i] = list[i]
    BY <1>2, <2>2
  <2> HIDE DEF Filters
  <2> QED BY <2>1, <2>3
<1>8. Appends(q)
  BY <1>3, <1>4, SendsAll DEF Kept, Appends
<1> HIDE DEF Filters, q, k
<1>9. /\ \E T : q \in Seq(T)
      /\ Len(q) = r + k
      /\ \A i \in 1 .. r : q[i].cmd = McstAddrCfg(mcFilters[i], "REM")
      /\ \A i \in 1 .. k : q[r + i].cmd = McstAddrCfg(list[i], "ADD")
  <2>1. RemovesAndAdds(q, mcFilters, r, list)
    BY <1>1, <1>2, McstListIs DEF q
  <2> QED BY <2>1 DEF RemovesAndAdds, k
<1>10. PICK T : q \in Seq(T)
  BY <1>9
<1>11. PICK U : txq \in Seq(U)
  BY DEF Queued
<1> DEFINE a == Queue
           b == Queue'
           d == Len(a)
<1>12. /\ Extends(b, a) /\ Len(b) = d + Len(q)
       /\ \A i \in d + 1 .. Len(b) :
            i - d \in 1 .. Len(q) /\ b[i] = q[i - d].cmd
  BY <1>8, <1>10, <1>11, QueueExtends
<1>13. d \in Nat /\ Len(b) \in Nat
  BY <1>12 DEF Extends
<1> HIDE DEF a, b, d, r
<1>14. Len(b) = d + r + k
  BY <1>1, <1>2, <1>9, <1>12, <1>13
<1>15. ASSUME NEW i \in d + 1 .. d + r
       PROVE  i \in 1 .. Len(b) /\ IsRem(b[i]) /\ b[i].addr = mcFilters[i - d]
              /\ i - d \in 1 .. r
  <2>1. i \in d + 1 .. Len(b) /\ i - d \in 1 .. r /\ i \in 1 .. Len(b)
    BY <1>1, <1>2, <1>13, <1>14
  <2>2. b[i] = McstAddrCfg(mcFilters[i - d], "REM")
    BY <1>9, <1>12, <2>1
  <2> QED BY <2>1, <2>2 DEF McstAddrCfg, IsRem
<1>16. ASSUME NEW i \in d + r + 1 .. d + r + k
       PROVE  IsAdd(b[i]) /\ b[i].addr \in Given'
  <2>1. i \in d + 1 .. Len(b) /\ (i - d) - r \in 1 .. k /\ r + ((i - d) - r) = i - d
    BY <1>1, <1>2, <1>13, <1>14
  <2>2. b[i] = McstAddrCfg(list[(i - d) - r], "ADD")
    BY <1>9, <1>12, <2>1
  <2>3. list[(i - d) - r] \in Given'
    BY <1>7, <2>1
  <2> QED BY <2>2, <2>3 DEF McstAddrCfg, IsAdd
<1>17. ASSUME NEW x \in Given PROVE \E i \in d + 1 .. d + r : b[i].addr = x
  <2>1. PICK j \in 1 .. r : x = mcFilters[j]
    BY DEF Given, r
  <2>2. d + j \in d + 1 .. d + r /\ (d + j) - d = j
    BY <1>2, <1>13
  <2> QED BY <1>15, <2>1, <2>2
<1>18. \A i \in 1 .. Len(b) : i \in 1 .. d \/ i \in d + 1 .. d + r
                              \/ i \in d + r + 1 .. d + r + k
  BY <1>1, <1>2, <1>13, <1>14
<1>19. Renews(b, a, r, k, Given, Given')
  BY <1>1, <1>2, <1>12, <1>15, <1>16, <1>17, <1>18 DEF Renews, d
<1>20. AddrQueue(a, saved.mcst, Given) /\ Len(saved.mcst) \in Nat
  BY DEF McstQueue, Typed, a
<1>21. AddrQueue(b, saved.mcst, Given')
  BY <1>19, <1>20, AddrCall
<1> QED BY <1>4, <1>21 DEF McstQueue, b

\* A call that sends nothing about addresses.
LEMMA OtherMcst ==
  ASSUME Typed, Queued, McstQueue, failures = 0,
         NEW list, NEW T, list \in Seq(T), Appends(list),
         saved' = saved \/ saved' = NothingSaved,
         UNCHANGED <<mcFilters, mcCount>>,
         \A n \in 1 .. Len(list) : list[n].cmd.id # "MCST_ADDR_CFG"
  PROVE  McstQueue'
<1> DEFINE a == Queue
           b == Queue'
<1>1. PICK U : txq \in Seq(U)
  BY DEF Queued
<1>2. /\ Extends(b, a)
      /\ \A i \in Len(a) + 1 .. Len(b) :
           i - Len(a) \in 1 .. Len(list) /\ b[i] = list[i - Len(a)].cmd
  BY <1>1, QueueExtends
<1>3. AddrQueue(a, saved.mcst, Given)
  BY DEF McstQueue
<1>4. Given' = Given
  BY DEF Given
<1> HIDE DEF a, b
<1>5. \A i \in Len(a) + 1 .. Len(b) : b[i].id # "MCST_ADDR_CFG"
  BY <1>2
<1>6. AddrQueue(b, saved.mcst, Given)
  BY <1>2, <1>3, <1>5, AddrQuiet
<1>7. AddrQueue(b, <<>>, Given)
  BY <1>2, <1>6, AddrForget DEF Extends
<1>8. saved'.mcst = saved.mcst \/ saved'.mcst = <<>>
  BY DEF NothingSaved
<1> QED BY <1>4, <1>6, <1>7, <1>8 DEF McstQueue, b

LEMMA SingleList ==
  ASSUME NEW e, e.cmd.id # "MCST_ADDR_CFG"
  PROVE  /\ <<e>> \in Seq({e})
         /\ \A n \in 1 .. Len(<<e>>) : <<e>>[n].cmd.id # "MCST_ADDR_CFG"
<1> DEFINE s == <<e>>
<1>1. s \in Seq({e}) /\ Len(s) = 1 /\ s[1] = e
  OBVIOUS
<1> HIDE DEF s
<1>2. \A n \in 1 .. Len(s) : s[n] = e
  BY <1>1
<1> QED BY <1>1, <1>2 DEF s

LEMMA HostMcst ==
  ASSUME Typed, Kept, Queued, McstQueue, failures' = 0, HostNext
  PROVE  McstQueue'
<1>1. /\ failures = 0
      /\ \/ Quiet
         \/ UNCHANGED <<txq, txVars, keys, mcFilters, mcCount>>
         \/ \E list \in McLists : PrepareMulticast(list)
         \/ \E v \in Vifs, k \in KeyIds, p \in KeyHolders : SetKey(v, k, p)
         \/ \E key \in keys : DisableKey(key)
  BY HostAppends
<1>2. saved' = saved \/ saved' = NothingSaved
  BY HostQuiet DEF Start, StopEnd, otherVars
<1>3. CASE Quiet
  <2>1. PICK list, K : /\ Only(list, K) /\ Appends(list)
                       /\ UNCHANGED <<mcFilters, mcCount>>
    BY <1>3 DEF Quiet
  <2>2. PICK T : list \in Seq(T)
    BY <2>1 DEF Only
  <2>3. \A n \in 1 .. Len(list) : list[n].cmd.id # "MCST_ADDR_CFG"
    BY <2>1 DEF Only
  <2> QED BY <1>1, <1>2, <2>1, <2>2, <2>3, OtherMcst
<1>4. CASE UNCHANGED <<txq, txVars, keys, mcFilters, mcCount>>
  <2>1. Queue' = Queue /\ Given' = Given
    BY <1>4, QueueSame DEF Given
  <2>2. AddrQueue(Queue, saved.mcst, Given) /\ Len(Queue) \in Nat
    <3>1. PICK U : txq \in Seq(U)
      BY <1>1 DEF Queued
    <3>2. Joined(Queue, txPc, txCmd, txq)
      BY <3>1, ViewIs DEF Queue
    <3> QED BY <1>1, <3>2 DEF McstQueue, Joined
  <2>3. AddrQueue(Queue, <<>>, Given)
    BY <2>2, AddrForget
  <2>4. saved'.mcst = saved.mcst \/ saved'.mcst = <<>>
    BY <1>2 DEF NothingSaved
  <2> QED BY <2>1, <2>2, <2>3, <2>4 DEF McstQueue
<1>5. ASSUME NEW list \in McLists, PrepareMulticast(list) PROVE McstQueue'
  BY <1>1, <1>5, PrepareMcst
<1>6. ASSUME NEW e, Sends(<<e>>), e.cmd.id # "MCST_ADDR_CFG",
             UNCHANGED <<txVars, mcFilters, mcCount>>
      PROVE  McstQueue'
  <2>1. Appends(<<e>>)
    BY <1>1, <1>6, SendsAll DEF Appends
  <2> DEFINE l == <<e>>
  <2>2. l \in Seq({e}) /\ \A n \in 1 .. Len(l) : l[n].cmd.id # "MCST_ADDR_CFG"
    BY <1>6, SingleList
  <2>3. Appends(l)
    BY <2>1
  <2> HIDE DEF l
  <2> QED BY <1>1, <1>2, <1>6, <2>2, <2>3, OtherMcst
<1>7. \A v, op, k, p : May(KeyCmd(v, op, k, p)).cmd.id # "MCST_ADDR_CFG"
  BY DEF May, KeyCmd, IfKey, PeerKey
<1>8. ASSUME NEW v \in Vifs, NEW k \in KeyIds, NEW p \in KeyHolders, SetKey(v, k, p)
      PROVE  McstQueue'
  BY <1>6, <1>7, <1>8 DEF SetKey, otherVars
<1>9. ASSUME NEW key \in keys, DisableKey(key) PROVE McstQueue'
  BY <1>6, <1>7, <1>9 DEF DisableKey, otherVars
<1> QED BY <1>1, <1>3, <1>4, <1>5, <1>8, <1>9

LEMMA SaveMcst ==
  ASSUME Typed, Queued, McstQueue, failures = 0, TxSave
  PROVE  McstQueue' /\ (IsAdd(txCmd) => Len(saved.mcst) < McstAddrLimit)
<1>1. PICK U : txq \in Seq(U)
  BY DEF Queued
<1>2. Queue[1] = txCmd /\ Shifts(Queue, Queue')
  BY <1>1, QueueSave
<1>3. saved' = Save(saved, txCmd) /\ UNCHANGED <<mcFilters, mcCount>>
  BY DEF TxSave, envVars, hostVars
<1>4. PICK V : saved \in SavedType(V) /\ saved.mcst \in Seq(V)
  BY DEF Typed
<1>5. saved'.mcst = McstAfter(saved.mcst, txCmd)
  BY <1>3, <1>4, SavedMcst
<1>6. AddrQueue(Queue, saved.mcst, Given) /\ Given' = Given
  BY <1>3 DEF McstQueue, Given
<1> DEFINE a == Queue
           b == Queue'
<1> HIDE DEF a, b
<1>7. a[1] = txCmd /\ Shifts(a, b) /\ AddrQueue(a, saved.mcst, Given)
  BY <1>2, <1>6 DEF a, b
<1>8. /\ AddrQueue(b, McstAfter(saved.mcst, a[1]), Given)
      /\ IsAdd(a[1]) => Len(saved.mcst) < McstAddrLimit
  BY <1>4, <1>7, AddrSave
<1> QED BY <1>5, <1>6, <1>7, <1>8 DEF McstQueue, b

LEMMA StepMcst ==
  Typed /\ Kept /\ Queued /\ McstQueue /\ [Next]_vars => McstQueue'
<1> SUFFICES ASSUME Typed, Kept, Queued, McstQueue, [Next]_vars
             PROVE  McstQueue'
  OBVIOUS
<1> SUFFICES ASSUME failures' = 0 PROVE McstQueue'
  BY DEF McstQueue
<1>1. failures = 0
  BY NoFailure
<1>2. ASSUME Queue' = Queue, UNCHANGED <<saved, mcFilters, mcCount>> PROVE McstQueue'
  BY <1>1, <1>2 DEF McstQueue, Given
<1>3. CASE HostNext
  BY <1>3, HostMcst
<1>4. CASE TxSave
  BY <1>1, <1>4, SaveMcst
<1>5. CASE TxTake
  BY <1>1, <1>2, <1>5, QueueTake DEF Queued, TxTake, envVars, hostVars
<1>6. CASE TxWake \/ TxRest \/ TxWrite
  BY <1>2, <1>6, QueueSame DEF TxWake, TxRest, TxWrite, envVars, hostVars
<1>7. CASE \/ FwDie \/ WorkDown \/ WorkUp \/ WorkCopy \/ WorkSkip
           \/ WorkReleased \/ WorkWrite \/ WorkDone
  <2>1. UNCHANGED <<txq, txVars, saved, mcFilters, mcCount>>
    BY <1>7 DEF FwDie, WorkDown, WorkUp, WorkCopy, WorkSkip, WorkReleased,
       WorkWrite, WorkDone, workVars, hostVars
  <2> QED BY <1>2, <2>1, QueueSame
<1>8. CASE UNCHANGED vars
  <2>1. UNCHANGED <<txq, txVars, saved, mcFilters, mcCount>>
    BY <1>8 DEF vars, hostVars
  <2> QED BY <1>2, <2>1, QueueSame
<1> QED BY <1>3, <1>4, <1>5, <1>6, <1>7, <1>8 DEF Next

-----------------------------------------------------------------------------
(* The addresses that are saved are those the firmware should have, but    *)
(* for those that are going to be removed.                                 *)

McstSaved ==
  Live /\ failures = 0 =>
    /\ Elems(saved.mcst) \subseteq ideal.mcst
    /\ \A x \in ideal.mcst \ Elems(saved.mcst) : RemovedAfter(Queue, x, 0)

LEMMA RemovedExtends ==
  ASSUME NEW a, NEW b, Extends(b, a), NEW x, RemovedAfter(a, x, 0)
  PROVE  RemovedAfter(b, x, 0)
<1>1. \A i \in 1 .. Len(a) : i \in 1 .. Len(b) /\ b[i] = a[i]
  BY DEF Extends
<1> QED BY <1>1 DEF RemovedAfter

LEMMA RemovedShifts ==
  ASSUME NEW a, NEW b, Shifts(a, b), NEW x, RemovedAfter(a, x, 0),
         ~(IsRem(a[1]) /\ a[1].addr = x)
  PROVE  RemovedAfter(b, x, 0)
<1>1. PICK m \in 1 .. Len(a) : IsRem(a[m]) /\ a[m].addr = x
  BY DEF RemovedAfter
<1>2. m # 1
  BY <1>1
<1>3. m - 1 \in 1 .. Len(b) /\ (m - 1) + 1 = m /\ 0 < m - 1
  BY <1>2 DEF Shifts
<1>4. b[m - 1] = a[m]
  BY <1>3 DEF Shifts
<1> QED BY <1>1, <1>3, <1>4 DEF RemovedAfter

\* A call leaves what is in the queue where it is.
LEMMA HostExtends ==
  ASSUME Kept, Queued, failures' = 0, HostNext
  PROVE  Queue' = Queue \/ Extends(Queue', Queue)
<1>1. /\ failures = 0
      /\ \/ Quiet
         \/ UNCHANGED <<txq, txVars, keys, mcFilters, mcCount>>
         \/ \E list \in McLists : PrepareMulticast(list)
         \/ \E v \in Vifs, k \in KeyIds, p \in KeyHolders : SetKey(v, k, p)
         \/ \E key \in keys : DisableKey(key)
  BY HostAppends
<1>2. PICK U : txq \in Seq(U)
  BY <1>1 DEF Queued
<1>3. ASSUME NEW list, NEW T, list \in Seq(T), Appends(list)
      PROVE  Extends(Queue', Queue)
  BY <1>2, <1>3, QueueExtends
<1>4. CASE Quiet
  BY <1>3, <1>4 DEF Quiet, Only
<1>5. CASE UNCHANGED <<txq, txVars, keys, mcFilters, mcCount>>
  BY <1>5, QueueSame
<1>6. ASSUME NEW list \in McLists, PrepareMulticast(list) PROVE Extends(Queue', Queue)
  <2> DEFINE q == McstList(mcFilters, mcCount, list)
  <2>1. \E n : Calls(q, n) /\ UNCHANGED txVars
    BY <1>6 DEF PrepareMulticast, McstList, otherVars
  <2>2. mcCount \in Nat /\ list \in Seq(Addrs)
    BY CommandsAssumption, SavedConfigAssumption DEF Kept
  <2>3. RemovesAndAdds(q, mcFilters, mcCount, list)
    BY <2>2, McstListIs
  <2> HIDE DEF q
  <2>4. Appends(q)
    BY <2>1, SendsAll DEF Kept, Appends
  <2> QED BY <1>3, <2>3, <2>4 DEF RemovesAndAdds
<1>7. ASSUME NEW e, Sends(<<e>>), UNCHANGED txVars PROVE Extends(Queue', Queue)
  <2> DEFINE l == <<e>>
  <2>1. l \in Seq({e})
    OBVIOUS
  <2>2. Appends(l)
    BY <1>1, <1>7, SendsAll DEF Appends, Kept
  <2> HIDE DEF l
  <2> QED BY <1>3, <2>1, <2>2
<1>8. ASSUME NEW v \in Vifs, NEW k \in KeyIds, NEW p \in KeyHolders, SetKey(v, k, p)
      PROVE  Extends(Queue', Queue)
  BY <1>7, <1>8 DEF SetKey, otherVars
<1>9. ASSUME NEW key \in keys, DisableKey(key) PROVE Extends(Queue', Queue)
  BY <1>7, <1>9 DEF DisableKey, otherVars
<1> QED BY <1>1, <1>4, <1>5, <1>6, <1>8, <1>9

LEMMA SaveMcstSaved ==
  ASSUME Typed, Queued, McstQueue, McstSaved, TxSave
  PROVE  McstSaved'
<1> SUFFICES ASSUME Live', failures' = 0
             PROVE  /\ Elems(saved'.mcst) \subseteq ideal'.mcst
                    /\ \A x \in ideal'.mcst \ Elems(saved'.mcst) :
                         RemovedAfter(Queue', x, 0)
  BY DEF McstSaved
<1> DEFINE c == txCmd
           s == saved.mcst
           t == saved'.mcst
<1>1. saved' = Save(saved, c) /\ failures = 0
  BY DEF TxSave, envVars, hostVars
<1>2. PICK V : saved \in SavedType(V) /\ s \in Seq(V)
  BY DEF Typed
<1>3. t = McstAfter(s, c)
  BY <1>1, <1>2, SavedMcst
<1>4. Queue[1] = c /\ Shifts(Queue, Queue')
  BY <1>1, QueueSave DEF Queued
<1>5. AddrQueue(Queue, s, Given) /\ 1 \in 1 .. Len(Queue)
  BY <1>1, <1>4 DEF McstQueue, Shifts
<1>6. IsAdd(c) => Len(s) < McstAddrLimit
  BY <1>1, SaveMcst
<1>7. CASE c.id = "RESET"
  <2>1. ideal'.mcst = {} /\ t = <<>>
    BY <1>3, <1>7, SaveLive, FreshSlots DEF McstAfter
  <2> QED BY <2>1, NoElems
<1>8. CASE c.id # "RESET"
  <2>1. Live /\ Effect(ideal', ideal, c)
    BY <1>8, SaveLive
  <2>2. /\ Elems(s) \subseteq ideal.mcst
        /\ \A x \in ideal.mcst \ Elems(s) : RemovedAfter(Queue, x, 0)
    BY <1>1, <2>1 DEF McstSaved
  <2>3. c.id = "MCST_ADDR_CFG" => IsAdd(c) \/ IsRem(c)
    BY <1>4, <1>5 DEF AddrQueue, Marked, IsAdd, IsRem
  <2>4. ASSUME NEW x, RemovedAfter(Queue, x, 0), ~(IsRem(c) /\ c.addr = x)
        PROVE  RemovedAfter(Queue', x, 0)
    BY <1>4, <2>4, RemovedShifts
  <2> HIDE DEF c, s, t
  <2>5. CASE IsAdd(c)
    <3>1. t = Append(s, c.addr)
      BY <1>3, <1>6, <2>5 DEF McstAfter, IsAdd
    <3>2. s \in Seq(V \cup {c.addr})
      BY <1>2, WidenSeq
    <3>3. Elems(t) = Elems(s) \cup {c.addr}
      BY <3>1, <3>2, AppendElems
    <3>4. ideal'.mcst = ideal.mcst \cup {c.addr}
      BY <2>1, <2>5 DEF Effect, IsAdd
    <3>5. ~IsRem(c)
      BY <2>5, AddIsNotRem
    <3> QED BY <2>2, <2>4, <3>3, <3>4, <3>5 DEF t
  <2>6. CASE IsRem(c)
    <3>1. t = <<>>
      BY <1>3, <2>6 DEF McstAfter, IsRem
    <3>2. ideal'.mcst = ideal.mcst \ {c.addr}
      BY <2>1, <2>6 DEF Effect, IsRem
    <3>3. \A x \in Elems(s) : RemovedAfter(Queue, x, 0)
      BY <1>4, <1>5, <2>6 DEF AddrQueue, Cleared, c
    <3>4. \A x \in ideal.mcst : RemovedAfter(Queue, x, 0)
      BY <2>2, <3>3
    <3> QED BY <2>4, <3>1, <3>2, <3>4, NoElems DEF t
  <2>7. CASE c.id # "MCST_ADDR_CFG"
    <3>1. t = s
      BY <1>3, <1>8, <2>7 DEF McstAfter
    <3>2. ideal'.mcst = ideal.mcst
      BY <2>1, <2>7 DEF Effect
    <3>3. ~IsRem(c)
      BY <2>7 DEF IsRem
    <3> QED BY <2>2, <2>4, <3>1, <3>2, <3>3 DEF t
  <2> QED BY <2>3, <2>5, <2>6, <2>7
<1> QED BY <1>7, <1>8

LEMMA StepMcstSaved ==
  Typed /\ Kept /\ Queued /\ McstQueue /\ McstSaved /\ [Next]_vars => McstSaved'
<1> SUFFICES ASSUME Typed, Kept, Queued, McstQueue, McstSaved, [Next]_vars
             PROVE  McstSaved'
  OBVIOUS
<1> SUFFICES ASSUME failures' = 0 PROVE McstSaved'
  BY DEF McstSaved
<1>1. failures = 0
  BY NoFailure
<1>2. ASSUME Queue' = Queue, UNCHANGED <<state, saved, ideal>> PROVE McstSaved'
  BY <1>1, <1>2 DEF McstSaved, Live
<1>3. CASE Start \/ StopEnd
  BY <1>3, StartStopNotLive DEF McstSaved
<1>4. CASE HostNext /\ ~Start /\ ~StopEnd
  <2>1. UNCHANGED <<ideal, saved>> /\ state # "off"
    BY <1>4, HostQuiet DEF otherVars, histVars
  <2>2. Queue' = Queue \/ Extends(Queue', Queue)
    BY <1>4, HostExtends
  <2>3. \A x : RemovedAfter(Queue, x, 0) => RemovedAfter(Queue', x, 0)
    BY <2>2, RemovedExtends
  <2> QED BY <1>1, <2>1, <2>3 DEF McstSaved, Live
<1>5. CASE TxSave
  BY <1>5, SaveMcstSaved
<1>6. CASE TxTake
  BY <1>1, <1>2, <1>6, QueueTake DEF Queued, TxTake, envVars, hostVars, histVars
<1>7. CASE TxWake \/ TxRest \/ TxWrite
  BY <1>2, <1>7, QueueSame DEF TxWake, TxRest, TxWrite, envVars, hostVars, histVars
<1>8. CASE \/ FwDie \/ WorkDown \/ WorkUp \/ WorkCopy \/ WorkSkip
           \/ WorkReleased \/ WorkWrite \/ WorkDone
  <2>1. UNCHANGED <<txq, txVars, state, saved, ideal>>
    BY <1>8 DEF FwDie, WorkDown, WorkUp, WorkCopy, WorkSkip, WorkReleased,
       WorkWrite, WorkDone, workVars, hostVars, histVars
  <2> QED BY <1>2, <2>1, QueueSame
<1>9. CASE UNCHANGED vars
  <2>1. UNCHANGED <<txq, txVars, state, saved, ideal>>
    BY <1>9 DEF vars, hostVars, histVars
  <2> QED BY <1>2, <2>1, QueueSame
<1> QED BY <1>3, <1>4, <1>5, <1>6, <1>7, <1>8, <1>9 DEF Next

-----------------------------------------------------------------------------
(* The addresses the firmware has.                                         *)

\* The worker's copy is one of the saved addresses, unless the transmit
\* thread has saved a command about them since it was made.
HeldMcst ==
  Live /\ failures = 0 /\ held # NoCmd /\ Resent(5, 0, 0) /\ recSlot[1] = 5 =>
    \E i \in 1 .. Len(saved.mcst) : recSlot = McstSlot(i) /\ held.addr = saved.mcst[i]

LEMMA SaveHeldMcst ==
  ASSUME Typed, Worker, HeldMcst, TxSave
  PROVE  HeldMcst'
<1> SUFFICES ASSUME Live', failures' = 0, held' # NoCmd, Resent(5, 0, 0)', recSlot'[1] = 5
             PROVE  \E i \in 1 .. Len(saved'.mcst) :
                      recSlot' = McstSlot(i) /\ held'.addr = saved'.mcst[i]
  BY DEF HeldMcst
<1> DEFINE c == txCmd
<1>1. /\ stale' = stale \cup ({ItemOfSlot(recSlot)} \cap ItemsOfCommand(c))
      /\ recSlot' = recSlot /\ held' = held /\ held # NoCmd /\ failures = 0
      /\ saved' = Save(saved, c)
  BY SaveRaces DEF TxSave, envVars, hostVars
<1>2. ItemOfSlot(recSlot) = <<5, 0, 0>>
  <2>1. Fits(held, recSlot)
    BY <1>1 DEF Worker
  <2>2. \E i \in Nat : recSlot = McstSlot(i)
    BY <1>1, <2>1 DEF Fits, Slot, ResetSlot, PowerSlot, CtrlSlot, CfgSlot,
       TxqSlot, KeySlot, ChannelSlot, FilterSlot
  <2> QED BY <2>2, SlotItems
<1>3. Resent(5, 0, 0) /\ <<5, 0, 0>> \notin ItemsOfCommand(c)
  BY <1>1, <1>2 DEF Resent
<1>4. c.id \notin {"RESET", "MCST_ADDR_CFG"}
  BY <1>3, CommandItems
<1>5. Live
  BY <1>4, SaveLive
<1>6. saved'.mcst = saved.mcst
  <2>1. PICK V : saved \in SavedType(V)
    BY DEF Typed
  <2> QED BY <1>1, <1>4, <2>1, SavedMcst DEF McstAfter
<1> QED BY <1>1, <1>3, <1>5, <1>6 DEF HeldMcst

LEMMA CopyHeldMcst ==
  ASSUME Typed, Worker, WorkCopy
  PROVE  HeldMcst'
<1> HIDE DEF NextSlot
<1>1. /\ recSlot' = NextSlot /\ held' = Recall(saved, NextSlot) /\ Remaining # {}
      /\ saved' = saved
  BY DEF WorkCopy, Sending, workVars
<1>2. PICK U : saved.mcst \in Seq(U)
  BY DEF Typed
<1>3. NextSlot \in Due(saved, recVif)
  BY <1>1, <1>2, NextIsFirst DEF Remaining, Worker
<1>4. IsDue(saved, recVif, NextSlot)
  BY <1>3, DueIs
<1>5. ASSUME NextSlot[1] = 5
      PROVE  \E i \in DOMAIN saved.mcst : NextSlot = McstSlot(i)
  BY <1>4, <1>5 DEF IsDue, Slot, ResetSlot, PowerSlot, CtrlSlot, CfgSlot,
     TxqSlot, KeySlot, ChannelSlot, FilterSlot
<1>6. \A i : Recall(saved, McstSlot(i)).addr = saved.mcst[i]
  BY DEF Recall, McstSlot, Slot, McstAddrCfg
<1>7. DOMAIN saved.mcst = 1 .. Len(saved.mcst)
  BY <1>2
<1> QED BY <1>1, <1>5, <1>6, <1>7 DEF HeldMcst

LEMMA StepHeldMcst ==
  Typed /\ Kept /\ Worker /\ HeldMcst /\ [Next]_vars => HeldMcst'
<1> SUFFICES ASSUME Typed, Kept, Worker, HeldMcst, [Next]_vars PROVE HeldMcst'
  OBVIOUS
<1> SUFFICES ASSUME failures' = 0 PROVE HeldMcst'
  BY DEF HeldMcst
<1>0. failures = 0
  BY NoFailure
<1>1. CASE UNCHANGED <<saved, held, recSlot, stale>> /\ (Live' => Live)
  BY <1>0, <1>1 DEF HeldMcst, Resent
<1>2. UNCHANGED <<state, ideal, saved>> => (Live' => Live)
  BY DEF Live
<1>3. CASE Start \/ StopEnd
  BY <1>3, StartStopNotLive DEF HeldMcst
<1>4. CASE HostNext /\ ~Start /\ ~StopEnd
  <2>1. UNCHANGED <<ideal, saved, held, recSlot, stale>> /\ state # "off"
    BY <1>4, HostQuiet DEF otherVars, histVars, recVars
  <2> QED BY <1>1, <2>1 DEF Live
<1>5. CASE TxSave
  BY <1>5, SaveHeldMcst
<1>6. CASE TxWake \/ TxRest \/ TxTake \/ TxWrite \/ FwDie \/ WorkDown
  BY <1>1, <1>2, <1>6 DEF TxWake, TxRest, TxTake, TxWrite, FwDie, WorkDown,
     envVars, workVars, hostVars, histVars, recVars
<1>7. CASE WorkUp \/ WorkSkip \/ WorkReleased \/ WorkWrite \/ WorkDone
  <2>1. held' = NoCmd
    BY <1>7 DEF WorkUp, WorkSkip, Sending, WorkReleased, WorkWrite, WorkDone, Worker
  <2> QED BY <2>1 DEF HeldMcst
<1>8. CASE WorkCopy
  BY <1>8, CopyHeldMcst
<1>9. CASE UNCHANGED vars
  BY <1>1, <1>2, <1>9 DEF vars, hostVars, recVars, histVars
<1> QED BY <1>3, <1>4, <1>5, <1>6, <1>7, <1>8, <1>9 DEF Next

McstBack(x) ==
  Resent(5, 0, 0) =>
    /\ x.mcst \subseteq ideal.mcst
    /\ \A i \in 1 .. Len(saved.mcst) : Passed(McstSlot(i)) => saved.mcst[i] \in x.mcst

McstReplayed == Live /\ failures = 0 /\ Serving => McstBack(Written)

\* When nothing is passed a firmware with no addresses will do.
LEMMA NoMcst ==
  Typed /\ recSlot \in Slots /\ ~Passed(ResetSlot)
    => \A i \in 1 .. Len(saved.mcst) : ~Passed(McstSlot(i))
<1> SUFFICES ASSUME Typed, recSlot \in Slots, ~Passed(ResetSlot)
             PROVE  \A i \in 1 .. Len(saved.mcst) : ~Passed(McstSlot(i))
  OBVIOUS
<1>1. Len(saved.mcst) \in Nat
  BY DEF Typed
<1>2. \A i \in 1 .. Len(saved.mcst) : i \in Nat
  BY <1>1
<1> QED BY <1>2, NothingPassed

LEMMA SaveMcstBack ==
  ASSUME Typed, Worker, Restored, Queued, McstQueue, McstReplayed, TxSave
  PROVE  McstReplayed'
<1> SUFFICES ASSUME Live', Serving', failures' = 0, Resent(5, 0, 0)'
             PROVE  /\ Written'.mcst \subseteq ideal'.mcst
                    /\ \A i \in 1 .. Len(saved'.mcst) :
                         Passed(McstSlot(i))' => saved'.mcst[i] \in Written'.mcst
  BY DEF McstReplayed, McstBack
<1> DEFINE c == txCmd
           s == saved.mcst
           t == saved'.mcst
<1>1. /\ txPc = "taken" /\ txCmd' = IF halDisabled THEN NoCmd ELSE txCmd
      /\ txPc' = IF halDisabled THEN "asleep" ELSE "saved"
      /\ UNCHANGED <<state, fw, recPc, recSlot, held, halDisabled, failures>>
      /\ ideal' = Apply(ideal, c) /\ saved' = Save(saved, c)
  BY DEF TxSave, envVars, hostVars
<1>2. Serving /\ ~halDisabled /\ failures = 0
  BY <1>1 DEF Serving, Worker, Live
<1>3. Written = fw /\ Written' = Apply(fw, c)
  BY <1>1, <1>2 DEF Written
<1>4. \A x : Passed(x)' <=> Passed(x)
  BY <1>1 DEF Passed
<1>5. Resent(5, 0, 0)
  BY DEF TxSave, Resent
<1>6. PICK V : ideal \in FwType(V) /\ fw \in FwType(V) /\ saved \in SavedType(V)
               /\ s \in Seq(V)
  BY DEF Typed
<1>7. t = McstAfter(s, c)
  BY <1>1, <1>6, SavedMcst
<1>8. IsAdd(c) => Len(s) < McstAddrLimit
  BY <1>2, SaveMcst
<1>9. c.id = "MCST_ADDR_CFG" => IsAdd(c) \/ IsRem(c)
  <2>1. Queue[1] = c /\ Shifts(Queue, Queue')
    BY <1>2, QueueSave DEF Queued
  <2>2. AddrQueue(Queue, s, Given) /\ 1 \in 1 .. Len(Queue)
    BY <1>2, <2>1 DEF McstQueue, Shifts
  <2> QED BY <2>1, <2>2 DEF AddrQueue, Marked, IsAdd, IsRem
<1>10. CASE c.id = "RESET"
  <2>1. ideal' = Fresh /\ c.type = "ENABLE"
    BY <1>10, SaveLive
  <2>2. Written' = ideal'
    BY <1>3, <1>6, <1>10, <2>1, ApplyReset_
  <2>3. t = <<>>
    BY <1>7, <1>10, <2>1 DEF McstAfter
  <2>4. \A i \in 1 .. Len(t) : FALSE
    BY <2>3, NoElems
  <2> QED BY <2>2, <2>4
<1>11. CASE c.id # "RESET"
  <2>1. Live /\ Effect(ideal', ideal, c)
    BY <1>11, SaveLive
  <2>2. Low(fw) /\ Agrees(fw) /\ McstBack(fw)
    BY <1>2, <1>3, <2>1 DEF Restored, McstReplayed
  <2>3. /\ fw.mcst \subseteq ideal.mcst
        /\ \A i \in 1 .. Len(s) : Passed(McstSlot(i)) => s[i] \in fw.mcst
    BY <1>5, <2>2 DEF McstBack
  <2>4. CASE fw.on
    <3>1. Effect(Written', fw, c)
      BY <1>3, <1>6, <1>11, <2>4, ApplyEffect
    <3> DEFINE w == Written'.mcst
    <3>2. w = IF c.id # "MCST_ADDR_CFG" THEN fw.mcst
              ELSE IF c.op = "ADD" THEN fw.mcst \cup {c.addr} ELSE fw.mcst \ {c.addr}
      BY <3>1 DEF Effect
    <3>3. ideal'.mcst = IF c.id # "MCST_ADDR_CFG" THEN ideal.mcst
                        ELSE IF c.op = "ADD" THEN ideal.mcst \cup {c.addr}
                                             ELSE ideal.mcst \ {c.addr}
      BY <2>1 DEF Effect
    <3> HIDE DEF w, s, t
    <3>4. w \subseteq ideal'.mcst
      BY <2>3, <3>2, <3>3
    <3>5. ASSUME NEW i \in 1 .. Len(t), Passed(McstSlot(i)) PROVE t[i] \in w
      <4>1. CASE IsAdd(c)
        <5>1. t = Append(s, c.addr)
          BY <1>7, <1>8, <4>1 DEF McstAfter, IsAdd
        <5>2. s \in Seq(V \cup {c.addr})
          BY <1>6, WidenSeq
        <5>3. /\ Len(t) = Len(s) + 1 /\ Len(s) \in Nat
              /\ \A n \in 1 .. Len(s) : t[n] = s[n]
              /\ t[Len(s) + 1] = c.addr
          BY <5>1, <5>2, AppendElems
        <5>4. i \in 1 .. Len(s) \/ i = Len(s) + 1
          BY <5>3
        <5> QED BY <2>3, <3>2, <3>5, <4>1, <5>3, <5>4 DEF IsAdd
      <4>2. CASE IsRem(c)
        <5>1. t = <<>>
          BY <1>7, <4>2 DEF McstAfter, IsRem
        <5> QED BY <5>1, NoElems
      <4>3. CASE c.id # "MCST_ADDR_CFG"
        <5>1. t = s
          BY <1>7, <1>11, <4>3 DEF McstAfter
        <5> QED BY <2>3, <3>2, <3>5, <4>3, <5>1
      <4> QED BY <1>9, <4>1, <4>2, <4>3
    <3> QED BY <1>4, <3>4, <3>5 DEF w, t
  <2>5. CASE ~fw.on
    <3>1. fw = Booted /\ Written' = fw
      BY <1>3, <1>11, <2>2, <2>5, ApplyOff DEF Low
    <3>2. ~Passed(ResetSlot) /\ recSlot \in Slots
      BY <2>2, <2>5 DEF Agrees, Worker
    <3>3. \A i \in Nat : ~Passed(McstSlot(i))
      BY <3>2, NothingPassed
    <3>4. \A i \in 1 .. Len(t) : i \in Nat
      <4>1. Typed'
        BY StepTyped DEF Next
      <4>2. Len(t) \in Nat
        BY <4>1 DEF Typed
      <4> HIDE DEF t
      <4> QED BY <4>2
    <3> QED BY <1>4, <3>1, <3>3, <3>4, FreshSlots
  <2> QED BY <2>4, <2>5
<1> QED BY <1>10, <1>11

LEMMA UpMcstBack ==
  ASSUME Typed, Worker, PendingDone, WorkUp
  PROVE  McstReplayed'
<1> SUFFICES ASSUME Live' PROVE McstBack(Written)'
  BY DEF McstReplayed
<1>1. /\ Written' = Booted \/ Written' = ideal'
      /\ recSlot' \in Slots /\ ~Passed(ResetSlot)'
  BY UpWritten
<1>2. (Typed /\ recSlot \in Slots /\ ~Passed(ResetSlot)
         => \A i \in 1 .. Len(saved.mcst) : ~Passed(McstSlot(i)))'
  BY NoMcst, PTL
<1>3. Typed'
  BY StepTyped DEF Next
<1> QED BY <1>1, <1>2, <1>3, FreshSlots DEF McstBack

LEMMA PassMcstBack ==
  ASSUME Typed, Worker, McstReplayed, WorkCopy \/ WorkDone
  PROVE  McstReplayed'
<1> SUFFICES ASSUME Live', failures' = 0 PROVE McstBack(Written)'
  BY DEF McstReplayed
<1>1. /\ UNCHANGED <<state, failures, ideal, saved, fw, txPc, txCmd, stale>>
      /\ recPc = "send" /\ held = NoCmd
  BY DEF WorkCopy, Sending, WorkDone, workVars, hostVars, histVars, txVars
<1>2. Live /\ Written' = Written /\ recSlot \in Slots /\ failures = 0
  BY <1>1 DEF Live, Written, Worker
<1>3. McstBack(Written)
  BY <1>1, <1>2 DEF McstReplayed, Serving
<1> HIDE DEF Written
<1>4. PICK U : saved.mcst \in Seq(U)
  BY DEF Typed
<1>5. \A x \in Slots : Passed(x)' => Passed(x) \/ x \notin Due(saved, recVif)
  BY <1>1, <1>2, <1>4, PassedOver
<1>6. ASSUME NEW i \in 1 .. Len(saved.mcst), Passed(McstSlot(i))'
      PROVE  Passed(McstSlot(i))
  <2>1. DOMAIN saved.mcst = 1 .. Len(saved.mcst) /\ i \in Nat
    BY <1>4
  <2>2. McstSlot(i) \in Slots
    BY <2>1, NamedSlots
  <2>3. McstSlot(i) \in Due(saved, recVif)
    <3>1. IsDue(saved, recVif, McstSlot(i))
      BY <2>1 DEF IsDue
    <3> QED BY <1>2, <3>1, DueIs DEF Live
  <2> QED BY <1>5, <1>6, <2>2, <2>3
<1> QED BY <1>1, <1>2, <1>3, <1>6 DEF McstBack, Resent

LEMMA WriteMcstBack ==
  ASSUME Typed, Worker, PendingDone, Restored, McstSaved, HeldMcst, McstReplayed,
         WorkWrite
  PROVE  McstReplayed'
<1> SUFFICES ASSUME Live', failures' = 0, Resent(5, 0, 0)'
             PROVE  /\ Written'.mcst \subseteq ideal'.mcst
                    /\ \A i \in 1 .. Len(saved'.mcst) :
                         Passed(McstSlot(i))' => saved'.mcst[i] \in Written'.mcst
  BY DEF McstReplayed, McstBack
<1> DEFINE c == Pending
           F == Written'
           s == saved.mcst
<1>1. /\ recPc = "send" /\ held # NoCmd /\ held' = NoCmd
      /\ UNCHANGED <<state, failures, ideal, saved, recSlot, recPc, stale>>
  BY DEF WorkWrite, workVars, hostVars, histVars
<1>2. Live /\ failures = 0 /\ Resent(5, 0, 0)
  BY <1>1 DEF Live, Resent
<1>3. /\ Written.mcst \subseteq ideal.mcst
      /\ \A i \in 1 .. Len(s) : Passed(McstSlot(i)) => s[i] \in Written.mcst
  BY <1>1, <1>2 DEF McstReplayed, McstBack, Serving
<1>4. \A x : Passed(x)' <=> Passed(x) \/ x = recSlot
  BY <1>1 DEF Passed
<1>5. Fits(held, recSlot) /\ recSlot \in Slots
  BY <1>1 DEF Worker
<1>6. \A i \in 1 .. Len(s) : s[i] \in ideal.mcst
  BY <1>2 DEF McstSaved, Elems
<1>7. \A i \in 1 .. Len(s) : i \in Nat
  <2>1. Len(s) \in Nat
    BY DEF Typed
  <2> QED BY <2>1
<1>8. CASE F = ideal
  BY <1>1, <1>6, <1>8
<1>9. CASE held.id = "RESET" /\ Effect(F, Fresh, c) /\ Effect(ideal, ideal, c)
  <2>1. recSlot = ResetSlot
    BY <1>5, <1>9, FitsIs
  <2>2. \A i \in Nat : ~Passed(McstSlot(i))'
    <3>1. ASSUME NEW i \in Nat, Passed(McstSlot(i))' PROVE FALSE
      <4>1. Before(McstSlot(i), recSlot) \/ McstSlot(i) = recSlot
        BY <1>1, <3>1 DEF Passed
      <4> QED BY <2>1, <4>1, BeforeOrders, NamedSlots, SlotOrder
    <3> QED BY <3>1
  <2> HIDE DEF F, c
  <2>3. F.mcst \subseteq ideal.mcst
    <3>1. F.mcst = IF c.id # "MCST_ADDR_CFG" THEN {}
                   ELSE IF c.op = "ADD" THEN {c.addr} ELSE {}
      BY <1>9, FreshSlots DEF Effect
    <3>2. c.id = "MCST_ADDR_CFG" /\ c.op = "ADD" => c.addr \in ideal.mcst
      BY <1>9 DEF Effect
    <3> QED BY <3>1, <3>2
  <2> QED BY <1>1, <1>7, <2>2, <2>3 DEF F
<1>10. CASE /\ held.id # "RESET" /\ fw.on /\ Passed(ResetSlot)
            /\ Effect(Written, fw, c) /\ Effect(fw', fw, held)
            /\ Effect(F, fw', c) /\ Effect(ideal, ideal, c)
  <2> DEFINE o == fw.mcst
             g == fw'.mcst
             n == F.mcst
             w == Written.mcst
             j == ideal.mcst
  <2>1. /\ w = IF c.id # "MCST_ADDR_CFG" THEN o
               ELSE IF c.op = "ADD" THEN o \cup {c.addr} ELSE o \ {c.addr}
        /\ n = IF c.id # "MCST_ADDR_CFG" THEN g
               ELSE IF c.op = "ADD" THEN g \cup {c.addr} ELSE g \ {c.addr}
        /\ j = IF c.id # "MCST_ADDR_CFG" THEN j
               ELSE IF c.op = "ADD" THEN j \cup {c.addr} ELSE j \ {c.addr}
    BY <1>10 DEF Effect
  <2>2. /\ recSlot[1] = 5 <=> held.id = "MCST_ADDR_CFG"
        /\ held.id = "MCST_ADDR_CFG" => held.op = "ADD"
    BY <1>5, FitsIs
  <2>3. g = IF held.id = "MCST_ADDR_CFG" THEN o \cup {held.addr} ELSE o
    BY <1>10, <2>2 DEF Effect
  <2>4. held.id = "MCST_ADDR_CFG" =>
          \E i \in 1 .. Len(s) : recSlot = McstSlot(i) /\ held.addr = s[i]
    BY <1>1, <1>2, <2>2 DEF HeldMcst
  <2>5. held.id = "MCST_ADDR_CFG" => held.addr \in j
    BY <1>6, <2>4
  <2>6. ASSUME NEW i \in 1 .. Len(s), McstSlot(i) = recSlot
        PROVE  held.id = "MCST_ADDR_CFG" /\ held.addr = s[i]
    <3>1. McstSlot(i)[1] = 5
      BY DEF McstSlot, Slot
    <3>2. \A k : McstSlot(k) = McstSlot(i) => k = i
      BY DEF McstSlot, Slot
    <3> QED BY <2>2, <2>4, <2>6, <3>1, <3>2
  <2>7. w \subseteq j
    BY <1>3
  <2> HIDE DEF o, g, n, w, j, c, F, s
  <2>8. n \subseteq j
    BY <2>1, <2>3, <2>5, <2>7
  <2>9. ASSUME NEW i \in 1 .. Len(s), Passed(McstSlot(i))' PROVE s[i] \in n
    <3>1. CASE Passed(McstSlot(i))
      <4>1. s[i] \in w
        BY <1>3, <3>1 DEF w, s
      <4> QED BY <2>1, <2>3, <4>1
    <3>2. CASE McstSlot(i) = recSlot
      <4>1. held.id = "MCST_ADDR_CFG" /\ held.addr = s[i]
        BY <2>6, <3>2
      <4> QED BY <2>1, <2>3, <2>5, <4>1
    <3> QED BY <1>4, <2>9, <3>1, <3>2
  <2> QED BY <1>1, <2>8, <2>9 DEF n, j, s, F
<1> QED BY <1>2, <1>8, <1>9, <1>10, WriteWritten

LEMMA ReleasedMcst ==
  ASSUME Typed, Worker, McstReplayed, failures = 0, WorkReleased
  PROVE  McstReplayed'
<1>1. /\ UNCHANGED <<state, failures, ideal, saved, fw, txPc, txCmd, stale>>
      /\ recPc = "send" /\ recPc' = recPc
  BY DEF WorkReleased, workVars, hostVars, histVars, txVars
<1>2. (Live' => Live) /\ Written' = Written
  BY <1>1 DEF Live, Written
<1> HIDE DEF Written
<1>3. PICK U : saved.mcst \in Seq(U)
  BY DEF Typed
<1>4. ASSUME NEW i \in 1 .. Len(saved.mcst) PROVE ~Passed(McstSlot(i))'
  <2>1. i \in Nat
    BY <1>3
  <2> QED BY <2>1, ReleasedOnly, NamedSlots DEF McstSlot, Slot
<1> QED BY <1>1, <1>2, <1>4 DEF McstReplayed, McstBack, Serving, Resent

LEMMA StepMcstBack ==
  Typed /\ Kept /\ Worker /\ PendingDone /\ Restored /\ Queued /\ McstQueue /\ McstSaved
    /\ HeldMcst /\ McstReplayed /\ [Next]_vars => McstReplayed'
<1> SUFFICES ASSUME Typed, Kept, Worker, PendingDone, Restored, Queued, McstQueue,
                    McstSaved, HeldMcst, McstReplayed, [Next]_vars
             PROVE  McstReplayed'
  OBVIOUS
<1> SUFFICES ASSUME failures' = 0 PROVE McstReplayed'
  BY DEF McstReplayed
<1>0. failures = 0
  BY NoFailure
<1>a. ~WorkSkip
  BY NoFailure
<1>1. CASE /\ UNCHANGED <<ideal, saved, held, recSlot, recPc, stale>>
           /\ Written' = Written /\ (Live' => Live)
  <2>1. \A x : Passed(x)' <=> Passed(x)
    BY <1>1 DEF Passed
  <2>2. McstBack(Written)' <=> McstBack(Written)
    BY <1>1, <2>1 DEF McstBack, Resent
  <2> QED BY <1>0, <1>1, <2>2 DEF McstReplayed, Serving
<1>2. UNCHANGED <<state, ideal, saved>> => (Live' => Live)
  BY DEF Live
<1>3. UNCHANGED <<fw, txPc, txCmd>> => Written' = Written
  BY DEF Written
<1>4. CASE Start \/ StopEnd
  BY <1>4, StartStopNotLive DEF McstReplayed
<1>5. CASE HostNext /\ ~Start /\ ~StopEnd
  <2>1. /\ UNCHANGED <<ideal, saved, held, recSlot, recPc, stale, fw, txPc, txCmd>>
        /\ state # "off"
    BY <1>5, HostQuiet DEF otherVars, histVars, recVars, txVars
  <2> QED BY <1>1, <1>3, <2>1 DEF Live
<1>6. CASE TxSave
  BY <1>6, SaveMcstBack
<1>7. CASE TxWrite
  <2>1. CASE Serving
    <3>1. alive /\ txPc = "saved"
      BY <1>7, <2>1 DEF Worker, TxWrite
    <3>2. fw' = Apply(fw, txCmd) /\ txPc' = "loop"
      BY <1>7, <3>1 DEF TxWrite
    <3>3. Written' = Written
      BY <3>1, <3>2 DEF Written
    <3> QED BY <1>1, <1>2, <1>7, <3>3 DEF TxWrite, hostVars, recVars, histVars
  <2>2. CASE ~Serving
    BY <1>7, <2>2 DEF TxWrite, recVars, McstReplayed, Serving
  <2> QED BY <2>1, <2>2
<1>8. CASE TxWake \/ TxRest \/ TxTake
  <2>1. txPc # "saved" /\ txPc' # "saved" /\ fw' = fw
    BY <1>8 DEF TxWake, TxRest, TxTake, envVars
  <2>2. Written' = Written
    BY <2>1 DEF Written
  <2> QED BY <1>1, <1>2, <1>8, <2>2 DEF TxWake, TxRest, TxTake, envVars, hostVars,
                                  histVars
<1>9. CASE FwDie \/ WorkDown
  BY <1>9 DEF FwDie, WorkDown, McstReplayed, Serving
<1>10. CASE WorkUp
  BY <1>10, UpMcstBack
<1>11. CASE WorkCopy \/ WorkDone
  BY <1>11, PassMcstBack
<1>14. CASE WorkReleased
  BY <1>0, <1>14, ReleasedMcst
<1>12. CASE WorkWrite
  BY <1>12, WriteMcstBack
<1>13. CASE UNCHANGED vars
  BY <1>1, <1>2, <1>3, <1>13 DEF vars, hostVars, recVars, histVars, txVars
<1> QED BY <1>a, <1>4, <1>5, <1>6, <1>7, <1>8, <1>9, <1>10, <1>11, <1>12, <1>13, <1>14
        DEF Next

McstInv ==
  /\ RestoredInv /\ Kept /\ Queued /\ KeyQueue
  /\ McstQueue /\ McstSaved /\ HeldMcst /\ McstReplayed

LEMMA AlwaysMcst == Spec => []McstInv
<1>1. Init => McstInv
  <2> SUFFICES ASSUME Init PROVE McstInv
    OBVIOUS
  <2>1. state = "off"
    BY DEF Init
  <2>2. McstSaved /\ HeldMcst /\ McstReplayed
    BY <2>1 DEF McstSaved, HeldMcst, McstReplayed, Live
  <2> QED BY <2>2, InitRestored, InitKept, InitQueue, InitMcst DEF McstInv
<1>2. McstInv /\ [Next]_vars => McstInv'
  <2>1. RestoredInv /\ [Next]_vars => RestoredInv'
    BY StepTracks, StepTyped, StepWorker, StepPending, StepHeld, StepRestored
       DEF RestoredInv
  <2> QED
    BY <2>1, StepKept, StepQueue, StepMcst, StepMcstSaved, StepHeldMcst,
       StepMcstBack DEF McstInv, RestoredInv
<1> QED BY <1>1, <1>2, PTL DEF Spec

\* When no allocation has failed and no address command is on its way, the
\* firmware has exactly the multicast addresses of one that never died: any
\* removal forgets all the saved addresses (the MCST_ADDR_CFG case of
\* save_fw_recovery_cmd, hal.c), and prepare_multicast removes all it knows of
\* before it adds the new list, so that nothing is forgotten that is not
\* removed and the saved array never overflows.
THEOREM AddressesAreRestored == Spec => []MulticastRestored
<1>1. ASSUME McstInv PROVE MulticastRestored
  <2> SUFFICES ASSUME Settled, failures = 0, ~McstPending, Resent(5, 0, 0)
               PROVE  fw.mcst = ideal.mcst
    BY DEF MulticastRestored
  <2>1. Live /\ Serving /\ Written = fw /\ \A x : Passed(x)
    BY DEF Settled, Live, Serving, Written, Passed
  <2>2. /\ fw.mcst \subseteq ideal.mcst
        /\ \A i \in 1 .. Len(saved.mcst) : saved.mcst[i] \in fw.mcst
    BY <1>1, <2>1 DEF McstInv, McstReplayed, McstBack
  <2>3. \A n \in 1 .. Len(Queue) : Queue[n].id # "MCST_ADDR_CFG"
    <3>1. PICK U : txq \in Seq(U)
      BY <1>1 DEF McstInv, Queued
    <3>2. Joined(Queue, txPc, txCmd, txq)
      BY <3>1, ViewIs DEF Queue
    <3>3. /\ txPc = "taken" => txCmd.id # "MCST_ADDR_CFG"
          /\ \A n \in 1 .. Len(txq) : txq[n].id # "MCST_ADDR_CFG"
      BY <3>1 DEF McstPending
    <3> DEFINE a == Queue
               d == Len(a)
               e == Len(txq)
    <3>4. e \in Nat
      BY <3>1
    <3> HIDE DEF a, d, e
    <3>5. /\ d = e + (IF txPc = "taken" THEN 1 ELSE 0)
          /\ \A i \in 1 .. d : a[i] = IF txPc # "taken" THEN txq[i]
                                      ELSE IF i = 1 THEN txCmd ELSE txq[i - 1]
      BY <3>2 DEF Joined, a, d, e
    <3>6. ASSUME NEW n \in 1 .. d PROVE a[n].id # "MCST_ADDR_CFG"
      <4>1. CASE txPc # "taken"
        <5>1. d = e /\ n \in 1 .. d
          BY <3>4, <3>5, <4>1
        <5>2. n \in 1 .. e
          BY <5>1
        <5> QED BY <3>3, <3>5, <4>1, <5>2 DEF e
      <4>2. CASE txPc = "taken" /\ n = 1
        BY <3>3, <3>5, <4>2
      <4>3. CASE txPc = "taken" /\ n # 1
        <5>1. n - 1 \in 1 .. e
          BY <3>4, <3>5, <4>3
        <5> QED BY <3>3, <3>5, <4>3, <5>1 DEF e
      <4> QED BY <4>1, <4>2, <4>3
    <3> QED BY <3>6 DEF a, d
  <2>4. \A x : ~RemovedAfter(Queue, x, 0)
    BY <2>3 DEF RemovedAfter, IsRem
  <2>5. ideal.mcst \subseteq Elems(saved.mcst)
    BY <1>1, <2>1, <2>4 DEF McstInv, McstSaved
  <2> QED BY <2>2, <2>5 DEF Elems
<1> QED BY <1>1, AlwaysMcst, PTL
=============================================================================
