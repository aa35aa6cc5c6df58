------------------------------ MODULE TxTokens ------------------------------
(***************************************************************************)
(* The transmit token pool of the RK915 driver (drivers/rk915/src/tx.c and *)
(* rpu_prog_tx of rpu_if.c).                                               *)
(*                                                                         *)
(* A frame that mac80211 or a beacon timer submits is queued for its peer  *)
(* and access category.  A token (a firmware transmit descriptor) is then  *)
(* claimed, a batch of pending frames is moved to the token, and the token *)
(* is programmed into the firmware in a second critical section.  When the *)
(* firmware reports the token done, its frames are cut off for reporting   *)
(* and the token either takes the next batch or returns to the pool.       *)
(*                                                                         *)
(* Every action is one critical section of tx.lock, or one unlocked access *)
(* to a shared variable.  The driver is STARTED throughout: mac80211's     *)
(* start and stop are not part of this module.                             *)
(***************************************************************************)
EXTENDS Integers, Sequences, FiniteSets, Functions

CONSTANTS
    NumACs,          \* NUM_ACS: 0 is background, NumACs-2 voice, NumACs-1 beacon
    TokensPerAC,     \* NUM_TX_DESCS_PER_AC, the tokens reserved for each AC
    SpareTokens,     \* NUM_SPARE_TX_DESCS
    MaxFwPkts,       \* MAX_FW_TX_PKGS, frames the firmware is given at once
    MaxTxCmds,       \* params->max_tx_cmds, frames in one command
    MaxTxQueueLen,   \* MAX_TX_QUEUE_LEN, the backlog at which mac80211 is stopped
    EarlyAggChecks,  \* params->enable_early_agg_checks
    NumPeers,        \* MAX_PEND_Q_PER_AC, pending queues of an AC
    Frames,          \* the frames submitted, numbered in order within a flow
    AC,              \* AC[f]: the access category tx_queue_map gives to f
    Peer,            \* Peer[f]: the pending queue of f's station or interface
    HwQueue,         \* HwQueue[f]: mac80211's own queue for f (skb->queue_mapping)
    Ampdu,           \* the QoS frames that mac80211 flags IEEE80211_TX_CTL_AMPDU
    Addr,            \* Addr[f]: addresses 1, 2 and 3 of the header
    MaxBlocks        \* bound on RPU_EVENT_BLOCK_ALL events

ACs     == 0 .. NumACs - 1
BCN     == NumACs - 1                       \* WLAN_AC_BCN
VO      == NumACs - 2                       \* WLAN_AC_VO, also UMAC_ROC_AC
DataACs == 0 .. VO                          \* WLAN_AC_BK .. WLAN_AC_VO
Peers   == 0 .. NumPeers - 1

NumReserved == NumACs * TokensPerAC
NumTokens   == NumReserved + SpareTokens    \* NUM_TX_DESCS
Tokens      == 0 .. NumTokens - 1
Reserved(q) == {q + NumACs * k : k \in 0 .. TokensPerAC - 1}
Spare       == NumReserved .. NumTokens - 1

ASSUME TxConstants ==
    /\ NumACs \in Nat /\ NumACs >= 2
    /\ TokensPerAC \in Nat /\ TokensPerAC >= 1
    /\ SpareTokens \in Nat
    /\ MaxFwPkts \in Nat /\ MaxTxCmds \in Nat /\ MaxTxQueueLen \in Nat
    /\ NumPeers \in Nat /\ NumPeers >= 1
    /\ EarlyAggChecks \in BOOLEAN
    /\ MaxBlocks \in Nat

ASSUME TxFrames ==
    /\ Frames \subseteq Nat /\ IsFiniteSet(Frames) /\ Ampdu \subseteq Frames
    /\ AC \in [Frames -> ACs] /\ Peer \in [Frames -> Peers]
    /\ HwQueue \in [Frames -> DataACs]
    /\ \A f \in Frames : AC[f] # BCN => HwQueue[f] = AC[f]
    /\ DOMAIN Addr = Frames

VARIABLES
    unsent,             \* frames not yet submitted
    pendingPkt,         \* tx->pending_pkt[peer][ac]
    currPeerOpp,        \* tx->curr_peer_opp[ac], the peer to be served next
    bufPool,            \* tx->buf_pool_bmp, the tokens claimed
    outstandingTokens,  \* tx->outstanding_tokens[ac]
    outstandingPkts,    \* tx->outstanding_pkts[token]
    pkt,                \* tx->pkt_info[token].pkt, the batch of a token
    descs,              \* who holds a claimed token, and for which AC; see Desc
    reports,            \* tx_done_lists not yet given to mac80211; see Pile
    reported,           \* frames whose status mac80211 has received
    queueStoppedBmp,    \* tx->queue_stopped_bmp
    hwStopped,          \* mac80211's queues stopped by the driver
    blocked,            \* block_rpu_comm
    blocks,             \* RPU_EVENT_BLOCK_ALL events so far
    unblock             \* where rpu_unblock_all_frames is; see UnblockPC

frameVars == <<pendingPkt, currPeerOpp, outstandingPkts, pkt,
               queueStoppedBmp, hwStopped>>
blockVars == <<blocked, blocks, unblock>>
vars == <<unsent, frameVars, bufPool, outstandingTokens, descs, reports,
          reported, blockVars>>

(***************************************************************************)
(* A claimed token is between rpu_tx_alloc_token (or a refill) and         *)
(* rpu_prog_tx ("prog"), sent to the firmware ("sent"), or was refused by  *)
(* rpu_prog_tx and waits for its synthesised completion ("failed").  The   *)
(* AC travels with the token as an argument and in the command, not in the *)
(* pool.  The thread is a submitter ("tx") or the receive work ("rx"),     *)
(* which handles one firmware event after the other.                       *)
(***************************************************************************)
Desc == [token : Tokens, queue : ACs, at : {"prog", "sent", "failed"},
         by : {"tx", "rx"}]

\* The frames cut off a done token, the thread that will report them, and the
\* token if that thread has refilled it and programs it next (else NumTokens).
Pile == [list : Seq(Frames), by : {"tx", "rx"}, token : Tokens \cup {NumTokens}]

UnblockPC == [pc : {"idle", "wake", "load", "store", "token"},
              i : Nat, bmp : SUBSET ACs]
At(pc, i) == [pc |-> pc, i |-> i, bmp |-> {}]
Idle      == At("idle", 0)

Init ==
    /\ unsent = Frames
    /\ pendingPkt = [p \in Peers |-> [a \in ACs |-> <<>>]]
    /\ currPeerOpp = [a \in ACs |-> 0]
    /\ bufPool = {}
    /\ outstandingTokens = [a \in ACs |-> 0]
    /\ outstandingPkts = [t \in Tokens |-> 0]
    /\ pkt = [t \in Tokens |-> <<>>]
    /\ descs = {} /\ reports = {} /\ reported = {}
    /\ queueStoppedBmp = {} /\ hwStopped = {}
    /\ blocked = FALSE /\ blocks = 0 /\ unblock = Idle

-----------------------------------------------------------------------------
(* Choosing what a token carries: rpu_tx_proc_pend_frms.                   *)

\* check_80211_aggregation: f may join an A-MPDU that starts with g.
Aggregates(f, g) == f \in Ampdu /\ Addr[f] = Addr[g]

\* Mutant of FreePkts: the frames of the other tokens do not count.
FreePktsAlone(t) == MaxFwPkts

\* get_outstanding_pkts subtracted from the firmware's budget.
FreePkts(t) ==
    LET others == SumFunctionOnSet(outstandingPkts, bufPool \ {t})
    IN  IF others >= MaxFwPkts THEN 0 ELSE MaxFwPkts - others

\* Mutant of HasBudget: the budget of the firmware is not looked at.
HasBudgetAlways(t) == TRUE

\* The code compares the token with WLAN_AC_BCN, so of the beacon's tokens
\* only token BCN is served beyond the budget.
HasBudget(t) == FreePkts(t) > 0 \/ t = BCN

Backlogged(pend, acs) == {a \in acs : \E p \in Peers : pend[p][a] # <<>>}

\* Mutant of NextPeer: the index does not wrap.
NextPeerUnwrapped(p) == p + 1

NextPeer(p) == (p + 1) % NumPeers

\* get_curr_peer_opp: p is the first peer with frames, from currPeerOpp on.
IsNextPeer(p, a, pend) ==
    /\ p \in Peers /\ pend[p][a] # <<>>
    /\ \A i \in 0 .. NumPeers - 1 :
         LET r == (currPeerOpp[a] + i) % NumPeers
         IN  pend[r][a] # <<>> =>
               \E j \in 0 .. i : p = (currPeerOpp[a] + j) % NumPeers

\* Mutant of Fits: A-MPDU sessions and destinations may mix.
FitsMixed(n, q, base, t) ==
    base + n =< MaxTxCmds /\ base + n =< FreePkts(t)

\* Moving the first n frames of q keeps the batch, which already has base
\* frames, within every limit.
Fits(n, q, base, t) ==
    /\ base + n =< MaxTxCmds /\ base + n =< FreePkts(t)
    /\ \A i \in 1 .. n : Aggregates(q[i], q[1])

\* Mutant of IsBatchLen: no frame is sent if none fits.
IsBatchLenOrNone(n, q, base, t) ==
    /\ n \in 0 .. Len(q) /\ Fits(n, q, base, t)
    /\ n < Len(q) => ~Fits(n + 1, q, base, t)

\* As many frames as fit, and one if the batch would stay empty.
IsBatchLen(n, q, base, t) ==
    /\ n \in 0 .. Len(q)
    /\ n = 0 => base > 0
    /\ Fits(n, q, base, t) \/ (n = 1 /\ base = 0)
    /\ n < Len(q) => ~Fits(n + 1, q, base, t)

\* Mutant of Rest: the last frame of the batch is not unlinked.
RestLinked(q, n) == SubSeq(q, n, Len(q))

\* What remains of queue q when its first n frames are unlinked.
Rest(q, n) == SubSeq(q, n + 1, Len(q))

\* Mutant of Wakes: the backlog is compared with the wrong limit.
WakesLate(ac, bmp, left) == ac # BCN /\ ac \in bmp /\ left < 0

\* The queue of ac is woken when the peer served has left frames left.
Wakes(ac, bmp, left) == ac # BCN /\ ac \in bmp /\ left < MaxTxQueueLen \div 2

\* rpu_tx_proc_pend_frms returns 0 for every AC of acs.  Without budget it
\* has advanced the peer of each backlogged AC before it gives up.
ProcNone(pend, txq, bmp, hw, acs, t) ==
    LET tried == IF blocked THEN {} ELSE Backlogged(pend, acs)
    IN  /\ tried = {} \/ ~HasBudget(t)
        /\ pendingPkt' = pend
        /\ pkt' = [pkt EXCEPT ![t] = txq]
        /\ queueStoppedBmp' = bmp /\ hwStopped' = hw
        /\ \E next \in [tried -> Peers] :
             /\ \A a \in tried : IsNextPeer(next[a], a, pend)
             /\ currPeerOpp' = [a \in ACs |->
                  IF a \in tried THEN NextPeer(next[a])
                                 ELSE currPeerOpp[a]]

\* It serves ac, the highest AC of acs with a backlog.
ProcServes(pend, txq, bmp, hw, acs, ac, t) ==
    /\ ~blocked /\ HasBudget(t)
    /\ ac \in Backlogged(pend, acs)
    /\ \A a \in Backlogged(pend, acs) : a =< ac
    /\ \E p \in Peers : \E n \in 0 .. Len(pend[p][ac]) :
         LET q    == pend[p][ac]
             wake == Wakes(ac, bmp, Len(q) - n)
         IN  /\ IsNextPeer(p, ac, pend)
             /\ IsBatchLen(n, q, Len(txq), t)
             /\ pendingPkt' = [pend EXCEPT ![p][ac] = Rest(q, n)]
             /\ pkt' = [pkt EXCEPT ![t] = txq \o SubSeq(q, 1, n)]
             /\ outstandingPkts' = [outstandingPkts EXCEPT ![t] = Len(txq) + n]
             /\ currPeerOpp' = [currPeerOpp EXCEPT ![ac] = NextPeer(p)]
             /\ queueStoppedBmp' = IF wake THEN bmp \ {ac} ELSE bmp
             /\ hwStopped' = IF wake THEN hw \ {ac} ELSE hw

-----------------------------------------------------------------------------
(* rpu_tx_frame: a submitter queues a frame and tries to send.             *)

\* Mutant of Queued: the frame is put at the head of its queue.
QueuedFirst(f) == <<f>> \o pendingPkt[Peer[f]][AC[f]]

\* The pending queue of f with f at its tail.
Queued(f) == Append(pendingPkt[Peer[f]][AC[f]], f)

\* Mutant of LeftToAggregate: the AC's tokens need not be busy.
LeftAlways(f, q) == Aggregates(f, q[1]) /\ Len(q) < MaxTxCmds

\* rpu_tx_alloc_token leaves f queued, to encourage aggregation.
LeftToAggregate(f, q) ==
    /\ outstandingTokens[AC[f]] >= TokensPerAC
    /\ Aggregates(f, q[1]) \/ ~EarlyAggChecks
    /\ Len(q) < MaxTxCmds

\* queue_stopped_bmp when a queue is stopped because it is full.
StopBit(ac, full) == IF full THEN queueStoppedBmp \cup {ac} ELSE queueStoppedBmp

\* Mutant of FreeTokens: the bits of the reserved tokens are not tested.
TokensUntested(q) == Reserved(q)

\* get_token: the first free reserved token, else the first free spare.
FreeTokens(q) ==
    LET own   == Reserved(q) \ bufPool
        spare == Spare \ bufPool
    IN  IF own # {} THEN own ELSE IF q # BCN THEN spare ELSE {}

\* free_token's update of outstanding_pkts.
NoPkts(t) == [outstandingPkts EXCEPT ![t] = 0]

IsFirst(t, S) == t \in S /\ \A u \in S : t =< u

\* mac80211 tests its stop flag before it calls the driver and outside
\* tx.lock, so a frame may still arrive after the stop.
TxFrame(f) ==
    LET ac   == AC[f]
        q    == Queued(f)
        pend == [pendingPkt EXCEPT ![Peer[f]][ac] = q]
    IN
    /\ f \in unsent
    /\ \A g \in unsent : AC[g] = ac /\ Peer[g] = Peer[f] => f =< g
    /\ unsent' = unsent \ {f}
    /\ UNCHANGED <<reports, reported, blockVars>>
    /\ \/ /\ LeftToAggregate(f, q)
          /\ pendingPkt' = pend
          /\ UNCHANGED <<currPeerOpp, outstandingPkts, pkt, queueStoppedBmp,
                         hwStopped, bufPool, outstandingTokens, descs>>
       \/ /\ ~LeftToAggregate(f, q)
          /\ \E roc \in BOOLEAN :     \* roc_in_progress
               LET full == Len(q) >= MaxTxQueueLen /\ (roc => ac # VO)
                   bmp  == StopBit(ac, full)
                   hw   == IF full THEN hwStopped \cup {HwQueue[f]}
                                   ELSE hwStopped
               IN
               \/ /\ FreeTokens(ac) = {}
                  /\ pendingPkt' = pend
                  /\ queueStoppedBmp' = bmp /\ hwStopped' = hw
                  /\ UNCHANGED <<currPeerOpp, outstandingPkts, pkt, bufPool,
                                 outstandingTokens, descs>>
               \/ \E t \in FreeTokens(ac) :
                  /\ IsFirst(t, FreeTokens(ac))
                  /\ \/ /\ ProcNone(pend, pkt[t], bmp, hw, {ac}, t)
                        /\ outstandingPkts' = NoPkts(t)
                        /\ UNCHANGED <<bufPool, outstandingTokens, descs>>
                     \/ /\ ProcServes(pend, pkt[t], bmp, hw, {ac}, ac, t)
                        /\ bufPool' = bufPool \cup {t}
                        /\ outstandingTokens' =
                             [outstandingTokens EXCEPT ![ac] = @ + 1]
                        /\ descs' = descs \cup
                             {[token |-> t, queue |-> ac, at |-> "prog",
                               by |-> "tx"]}

\* rpu_prog_tx: the command goes to the HAL, unless its skb cannot be
\* allocated or the token has no frame.  A thread that refilled the token has
\* first reported the token's former frames.
RpuProgTx(d) ==
    /\ d \in descs /\ d.at = "prog"
    /\ \A r \in reports : r.token # d.token
    /\ \E at \in {"sent", "failed"} :
         /\ pkt[d.token] = <<>> => at = "failed"
         /\ descs' = (descs \ {d}) \cup {[d EXCEPT !.at = at]}
    /\ UNCHANGED <<unsent, frameVars, bufPool, outstandingTokens, reports,
                   reported, blockVars>>

-----------------------------------------------------------------------------
(* rpu_tx_complete: a token is done.                                       *)

\* The receive work is not inside rpu_tx_complete or __rpu_tx_frame, nor in
\* rpu_unblock_all_frames.
RxFree == /\ \A d \in descs : d.by = "rx" => d.at = "sent"
          /\ \A r \in reports : r.by = "tx"
RxIdle == RxFree /\ unblock.pc = "idle"

\* The frames of done token t, for the thread by, are added to reports.
CutOff(t, by, refilled) ==
    reports' = IF pkt[t] = <<>> THEN reports
               ELSE reports \cup {[list |-> pkt[t], by |-> by,
                                   token |-> IF refilled THEN t ELSE NumTokens]}

\* Mutant of Serves: a reserved token serves every AC.
ServesAll(t, q) == DataACs \cup {q}

\* The ACs a token may serve: its own if it is reserved, else all but beacon.
Serves(t, q) == IF t < NumReserved THEN {q} ELSE DataACs

\* Mutant of LessOne: the token is taken from the count twice.
LessTwo(n) == n - 2

\* free_token's update of outstanding_tokens.
LessOne(n) == IF n # 0 THEN n - 1 ELSE 0

\* rpu_tx_free_buff_req up to the unlock, on RPU_EVENT_TX_DONE or after
\* rpu_prog_tx failed.
RpuTxFreeBuffReq(d) ==
    LET t   == d.token
        by  == IF d.at = "sent" THEN "rx" ELSE d.by
        acs == Serves(t, d.queue)
    IN
    /\ d \in descs
    /\ d.at = "failed" \/ (d.at = "sent" /\ RxIdle)
    /\ UNCHANGED <<unsent, reported, blockVars>>
    /\ \/ /\ CutOff(t, by, FALSE)
          /\ ProcNone(pendingPkt, <<>>, queueStoppedBmp, hwStopped, acs, t)
          /\ outstandingPkts' = NoPkts(t)
          /\ bufPool' = bufPool \ {t}
          /\ outstandingTokens' =
               [outstandingTokens EXCEPT ![d.queue] = LessOne(@)]
          /\ descs' = descs \ {d}
       \/ \E ac \in acs :
          /\ CutOff(t, by, TRUE)
          /\ ProcServes(pendingPkt, <<>>, queueStoppedBmp, hwStopped, acs, ac, t)
          /\ UNCHANGED bufPool
          /\ outstandingTokens' =
               IF ac = d.queue THEN outstandingTokens
               ELSE [outstandingTokens EXCEPT ![d.queue] = @ - 1, ![ac] = @ + 1]
          /\ descs' = (descs \ {d}) \cup
               {[token |-> t, queue |-> ac, at |-> "prog", by |-> by]}

\* tx_status, for each frame of a list: discarded, acknowledged or not, mac80211
\* has the frame back.
TxStatus(list) == reported \cup Range(list)

\* The rest of rpu_tx_free_buff_req: the status of each frame of the list.
Report(r) ==
    /\ r \in reports
    /\ reports' = reports \ {r}
    /\ reported' = TxStatus(r.list)
    /\ UNCHANGED <<unsent, frameVars, bufPool, outstandingTokens, descs,
                   blockVars>>

-----------------------------------------------------------------------------
(* RPU_EVENT_BLOCK_ALL and RPU_EVENT_UNBLOCK_ALL, in the receive work.     *)

BlockAll ==
    /\ RxIdle /\ blocks < MaxBlocks
    /\ blocked' = TRUE /\ blocks' = blocks + 1
    /\ UNCHANGED <<unsent, frameVars, bufPool, outstandingTokens, descs,
                   reports, reported, unblock>>

UnblockAll ==
    /\ RxIdle /\ blocked
    /\ blocked' = FALSE
    /\ unblock' = At("wake", 0)
    /\ UNCHANGED <<unsent, frameVars, bufPool, outstandingTokens, descs,
                   reports, reported, blocks>>

\* tx_queue_unmap has no entry for the beacon AC and reads past its table:
\* the number it yields may name any of mac80211's queues, or none (BCN).
TxQueueUnmap(i) == IF i = BCN THEN ACs ELSE {i}

\* Mutant of AfterWake: the tokens are not offered afterwards.
AfterWakeDone(i) == IF i + 1 < NumACs THEN At("wake", i + 1) ELSE Idle

\* The next AC of the first loop of rpu_unblock_all_frames, or its second loop.
AfterWake(i) == IF i + 1 < NumACs THEN At("wake", i + 1) ELSE At("token", 0)

\* Test the bit of AC i and wake its queue, without tx.lock.
UnblockWake ==
    /\ unblock.pc = "wake"
    /\ IF unblock.i \in queueStoppedBmp
       THEN /\ \E q \in TxQueueUnmap(unblock.i) : hwStopped' = hwStopped \ {q}
            /\ unblock' = [unblock EXCEPT !.pc = "load"]
       ELSE /\ unblock' = AfterWake(unblock.i)
            /\ UNCHANGED hwStopped
    /\ UNCHANGED <<unsent, pendingPkt, currPeerOpp, outstandingPkts, pkt,
                   queueStoppedBmp, bufPool, outstandingTokens, descs, reports,
                   reported, blocked, blocks>>

\* queue_stopped_bmp &= ~(1 << i) is a load and a store, without tx.lock.
UnblockLoad ==
    /\ unblock.pc = "load"
    /\ unblock' = [unblock EXCEPT !.pc = "store",
                                  !.bmp = queueStoppedBmp \ {unblock.i}]
    /\ UNCHANGED <<unsent, frameVars, bufPool, outstandingTokens, descs,
                   reports, reported, blocked, blocks>>

UnblockStore ==
    /\ unblock.pc = "store"
    /\ queueStoppedBmp' = unblock.bmp
    /\ unblock' = AfterWake(unblock.i)
    /\ UNCHANGED <<unsent, pendingPkt, currPeerOpp, outstandingPkts, pkt,
                   hwStopped, bufPool, outstandingTokens, descs, reports,
                   reported, blocked, blocks>>

IsFree(t) == t \notin bufPool

\* The second loop takes token i if it is free and gives it a batch.  The
\* branch of the code for a free token that still has frames is dead: see
\* FreeTokensEmpty.
UnblockToken ==
    LET t    == unblock.i
        acs  == Serves(t, t % NumACs)
    IN
    /\ unblock.pc = "token" /\ RxFree
    /\ unblock' = IF t + 1 < NumTokens THEN At("token", t + 1) ELSE Idle
    /\ UNCHANGED <<unsent, reports, reported, blocked, blocks>>
    /\ \/ /\ ~IsFree(t)
          /\ UNCHANGED <<frameVars, bufPool, outstandingTokens, descs>>
       \/ /\ IsFree(t)
          /\ ProcNone(pendingPkt, pkt[t], queueStoppedBmp, hwStopped, acs, t)
          /\ UNCHANGED <<outstandingPkts, bufPool, outstandingTokens, descs>>
       \/ /\ IsFree(t)
          /\ \E ac \in acs :
             /\ ProcServes(pendingPkt, pkt[t], queueStoppedBmp, hwStopped, acs, ac, t)
             /\ bufPool' = bufPool \cup {t}
             /\ outstandingTokens' = [outstandingTokens EXCEPT ![ac] = @ + 1]
             /\ descs' = descs \cup {[token |-> t, queue |-> ac, at |-> "prog",
                                      by |-> "rx"]}

-----------------------------------------------------------------------------
\* What the driver's threads and the firmware have begun and will go on with.
Progress ==
    \/ \E d \in descs : RpuProgTx(d) \/ RpuTxFreeBuffReq(d)
    \/ \E r \in reports : Report(r)
    \/ UnblockAll \/ UnblockWake \/ UnblockLoad \/ UnblockStore \/ UnblockToken

Next == (\E f \in Frames : TxFrame(f)) \/ BlockAll \/ Progress

Spec == Init /\ [][Next]_vars

\* The kernel runs every runnable thread and the firmware answers each
\* command and ends each block.
FairSpec == Spec /\ WF_vars(Progress)
-----------------------------------------------------------------------------
(* Properties.                                                             *)

\* The type of every variable.
TypeOK ==
    /\ unsent \subseteq Frames /\ reported \subseteq Frames
    /\ pendingPkt \in [Peers -> [ACs -> Seq(Frames)]]
    /\ currPeerOpp \in [ACs -> Peers]
    /\ bufPool \subseteq Tokens
    /\ outstandingTokens \in [ACs -> Nat]
    /\ outstandingPkts \in [Tokens -> Nat]
    /\ pkt \in [Tokens -> Seq(Frames)]
    /\ descs \subseteq Desc
    /\ reports \subseteq Pile
    /\ queueStoppedBmp \subseteq ACs /\ hwStopped \subseteq DataACs
    /\ blocked \in BOOLEAN /\ blocks \in 0 .. MaxBlocks
    /\ unblock \in UnblockPC
    /\ unblock.pc # "idle" =>
         unblock.i < IF unblock.pc = "token" THEN NumTokens ELSE NumACs

\* A token is claimed in the pool exactly while one thread or one firmware
\* command holds it, and no two of them hold the same token: the bitmap and
\* the hands the token passes through never disagree.
OneHolderPerToken ==
    /\ bufPool = {d.token : d \in descs}
    /\ \A d, e \in descs : d.token = e.token => d = e

\* outstanding_tokens counts, for each AC, the tokens that carry its frames,
\* through claims, refills that move a spare token to another AC, completions
\* and releases.  (The counter gates aggregation in rpu_tx_alloc_token.)
OutstandingExact ==
    \A q \in ACs :
        outstandingTokens[q] = Cardinality({d \in descs : d.queue = q})

\* The counter stays in the range free_token warns about (tx.c:472), which
\* for the code's constants is 4: an AC holds its own and the spare tokens.
OutstandingBounded ==
    \A q \in ACs : outstandingTokens[q] =< TokensPerAC + SpareTokens

\* A reserved token only ever carries frames of its own AC, and the beacon
\* AC never takes a spare one: no AC can exhaust the tokens of another.
ReservationsKept ==
    \A d \in descs : /\ d.token \in Reserved(d.queue) \cup Spare
                     /\ d.queue = BCN => d.token \in Reserved(BCN)

\* A token in the pool has no frames and a claimed one carries as many as
\* outstanding_pkts counts for it; rpu_unblock_all_frames relies on it when
\* it hands out a free token, and so does the budget of get_outstanding_pkts.
FreeTokensEmpty ==
    \A t \in Tokens : /\ outstandingPkts[t] = Len(pkt[t])
                      /\ t \notin bufPool => pkt[t] = <<>>

\* A programmed token has at least one frame, so rpu_prog_tx's "no frame"
\* failure is never taken in this lifecycle.
HeldTokensCarryFrames == \A d \in descs : pkt[d.token] # <<>>

\* The firmware is given at most MAX_FW_TX_PKGS frames at once, and one more
\* only through the token that the budget test exempts.
FwLoadBounded == SumFunction(outstandingPkts) =< MaxFwPkts + 1

\* A batch of several frames is an A-MPDU of one destination within the
\* limit on frames per command.
BatchesAggregate ==
    \A t \in Tokens : Len(pkt[t]) > 1 =>
        /\ Len(pkt[t]) =< MaxTxCmds
        /\ \A i \in 1 .. Len(pkt[t]) : Aggregates(pkt[t][i], pkt[t][1])

\* Every list of frames in the driver, and how often f occurs in them all.
Occurrences(f) ==
    LET In(s) == {i \in 1 .. Len(s) : s[i] = f}
    IN  (UNION { UNION { {<<"pending", p, a, i>> : i \in In(pendingPkt[p][a])} :
                         p \in Peers } : a \in ACs })
        \cup (UNION { {<<"pkt", t, i>> : i \in In(pkt[t])} : t \in Tokens })
        \cup (UNION { {<<"report", r, i>> : i \in In(r.list)} : r \in reports })
        \cup (IF f \in reported THEN {<<"reported">>} ELSE {})

\* A submitted frame is in exactly one place: it is never lost, sent twice or
\* reported twice, whichever way its token is refilled, refused or freed.
FramesConserved ==
    \A f \in Frames : Cardinality(Occurrences(f)) = IF f \in unsent THEN 0 ELSE 1

\* Frames of one peer and AC share a pending queue and keep their order.
Flow           == [f \in Frames |-> <<AC[f], Peer[f]>>]
SameFlow(f, g) == Flow[f] = Flow[g]

\* Frames of one flow leave the pending queue in the order they came: a
\* frame that a token carries is older than any of its flow still queued.
FlowsInOrder ==
    \A p \in Peers, a \in ACs :
        LET q == pendingPkt[p][a]
        IN  \A i \in 1 .. Len(q) :
              /\ AC[q[i]] = a /\ Peer[q[i]] = p
              /\ \A j \in 1 .. i - 1 : q[j] < q[i]
              /\ \A t \in Tokens : \A k \in 1 .. Len(pkt[t]) :
                   SameFlow(pkt[t][k], q[i]) => pkt[t][k] < q[i]

\* A frame is left queued only while a token that will come back to its AC is
\* busy (tx.c:1138: a queued frame "was unable to find a reserved token"), or
\* while the firmware blocks the driver.
QueuedOnlyIfTokensBusy ==
    (~blocked /\ unblock = Idle) =>
        \A p \in Peers, a \in ACs : pendingPkt[p][a] # <<>> =>
            \E d \in descs : d.queue = a \/ (a # BCN /\ d.token \in Spare)

\* How far frame f is, in the terms of TxService.
StageOf(f) ==
    CASE f \in unsent -> "new"
      [] f \in Range(pendingPkt[Peer[f]][AC[f]]) -> "queued"
      [] \E t \in Tokens : f \in Range(pkt[t]) -> "held"
      [] \E r \in reports : f \in Range(r.list) -> "back"
      [] OTHER -> "reported"

Service == INSTANCE TxService
    WITH stage <- [f \in Frames |-> StageOf(f)], Capacity <- MaxFwPkts + 1

\* The token pool implements the transmit service: every critical section is
\* a step of TxService or leaves all frames where they are.
ImplementsService == Service!Spec

\* Every frame that is submitted is reported to mac80211 in the end.
EveryFrameReported == \A f \in Frames : f \notin unsent ~> f \in reported

\* mac80211's queue q is stopped and no bit says so any more. (A beacon that
\* finds its queue full stops q in the name of the beacon AC.)
Forgotten(q) == q \in hwStopped /\ queueStoppedBmp \cap {q, BCN} = {}

\* Every queue that the driver stops is woken again, through blocks too, unless
\* its bit is lost; and no step loses one but the store without tx.lock of
\* rpu_unblock_all_frames, over a stop that came since its load or its wake.
StoppedQueuesWoken ==
    /\ \A q \in DataACs : q \in hwStopped ~> (q \notin hwStopped \/ Forgotten(q))
    /\ [][\A q \in DataACs :
            Forgotten(q)' => Forgotten(q) \/ unblock.pc = "store"]_vars
=============================================================================
