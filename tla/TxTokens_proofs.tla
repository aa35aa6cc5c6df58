--------------------------- MODULE TxTokens_proofs ---------------------------
(***************************************************************************)
(* Theorems about TxTokens, for every value of its constants: first who    *)
(* has a token, what the counters say and how tokens move; then the        *)
(* frames, where they are, in what order they leave and in what batches,   *)
(* the refinement of TxService, and the queues that may wait.              *)
(***************************************************************************)
EXTENDS TxTokens, FiniteSetTheorems, SequenceTheorems,
        WellFoundedInduction, TLAPS

-----------------------------------------------------------------------------
(* The token numbers.                                                      *)

\* Products of natural numbers are monotone, the one fact of nonlinear
\* arithmetic that the numbering of the reserved tokens needs.
LEMMA ProductMonotone ==
    ASSUME NEW n \in Nat, NEW j \in Nat, NEW k \in Nat, j =< k
    PROVE  n * j =< n * k /\ n * j \in Nat
  OBVIOUS

\* There are as many token numbers as the constants say, and at least one.
LEMMA TokenNumbers ==
    /\ NumReserved \in Nat \ {0} /\ NumTokens \in Nat \ {0}
    /\ NumReserved =< NumTokens
    /\ BCN \in ACs /\ VO \in ACs /\ VO # BCN /\ DataACs = ACs \ {BCN}
<1>1. NumACs \in Nat /\ NumACs >= 2 /\ TokensPerAC \in Nat /\ TokensPerAC >= 1
      /\ SpareTokens \in Nat
  BY TxConstants
<1>2. NumACs * 1 =< NumACs * TokensPerAC /\ NumACs * TokensPerAC \in Nat
  <2>1. NumACs * TokensPerAC \in Nat
    BY <1>1
  <2> QED
    BY <1>1, <2>1, ProductMonotone
<1> QED
  BY <1>1, <1>2 DEF NumReserved, NumTokens, BCN, VO, ACs, DataACs

\* The reserved tokens of an AC are tokens and not spare ones.
LEMMA ReservedTokens ==
    ASSUME NEW q \in ACs
    PROVE  Reserved(q) \subseteq 0 .. NumReserved - 1
<1>1. NumACs \in Nat /\ TokensPerAC \in Nat /\ TokensPerAC >= 1
  BY TxConstants
<1> SUFFICES ASSUME NEW k \in 0 .. TokensPerAC - 1
             PROVE  q + NumACs * k \in 0 .. NumReserved - 1
  BY DEF Reserved
<1>2. NumACs * (k + 1) =< NumACs * TokensPerAC
  BY <1>1, ProductMonotone
<1>3. NumACs * (k + 1) = NumACs * k + NumACs /\ NumACs * k \in Nat
  BY <1>1
<1> QED
  BY <1>1, <1>2, <1>3 DEF NumReserved, ACs

\* Token t is reserved for the AC t % NumACs, as rpu_unblock_all_frames has it.
LEMMA ReservedFor ==
    ASSUME NEW t \in 0 .. NumReserved - 1
    PROVE  t % NumACs \in ACs /\ t \in Reserved(t % NumACs)
<1>1. NumACs \in Nat /\ NumACs >= 2 /\ TokensPerAC \in Nat /\ TokensPerAC >= 1
      /\ NumReserved \in Nat
  BY TxConstants, TokenNumbers
<1> DEFINE k == t \div NumACs
<1>2. t % NumACs \in 0 .. NumACs - 1 /\ k \in Nat /\ t = (t % NumACs) + NumACs * k
  BY <1>1
<1>3. k =< TokensPerAC - 1
  <2>1. SUFFICES ASSUME k >= TokensPerAC PROVE FALSE
    BY <1>1, <1>2
  <2>2. NumACs * TokensPerAC =< NumACs * k
    BY <1>1, <1>2, <2>1, ProductMonotone
  <2> QED
    BY <1>1, <1>2, <2>2 DEF NumReserved
<1>4. k \in 0 .. TokensPerAC - 1 /\ t % NumACs \in ACs
  BY <1>1, <1>2, <1>3 DEF ACs
<1> HIDE DEF k
<1> QED
  BY <1>2, <1>4 DEF Reserved

-----------------------------------------------------------------------------
(* Types.                                                                  *)

PendingQueues == [Peers -> [ACs -> Seq(Frames)]]

\* The constants that describe the frames have the types TxFrames gives them.
LEMMA FrameTypes ==
    ASSUME NEW f \in Frames
    PROVE  AC[f] \in ACs /\ Peer[f] \in Peers /\ HwQueue[f] \in DataACs
  BY TxFrames

\* The peer served next is a peer.
LEMMA NextPeerType ==
    ASSUME NEW p \in Peers
    PROVE  NextPeer(p) \in Peers
  BY TxConstants DEF Peers, NextPeer

\* rpu_tx_proc_pend_frms keeps the type of what it changes when it serves no
\* AC.
LEMMA ProcNoneTypes ==
    ASSUME TypeOK, NEW pend \in PendingQueues, NEW txq \in Seq(Frames),
           NEW bmp \in SUBSET ACs, NEW hw \in SUBSET DataACs,
           NEW acs \in SUBSET ACs, NEW t \in Tokens,
           ProcNone(pend, txq, bmp, hw, acs, t)
    PROVE  /\ pendingPkt' \in PendingQueues
           /\ pkt' \in [Tokens -> Seq(Frames)]
           /\ currPeerOpp' \in [ACs -> Peers]
           /\ queueStoppedBmp' \subseteq ACs /\ hwStopped' \subseteq DataACs
<1> DEFINE tried == IF blocked THEN {} ELSE Backlogged(pend, acs)
<1>1. /\ pendingPkt' = pend /\ pkt' = [pkt EXCEPT ![t] = txq]
      /\ queueStoppedBmp' = bmp /\ hwStopped' = hw
  BY DEF ProcNone
<1>2. currPeerOpp' \in [ACs -> Peers]
  <2>1. PICK next \in [tried -> Peers] :
          currPeerOpp' = [a \in ACs |-> IF a \in tried
                                        THEN NextPeer(next[a])
                                        ELSE currPeerOpp[a]]
    BY Zenon DEF ProcNone
  <2> HIDE DEF tried
  <2>2. \A a \in tried : NextPeer(next[a]) \in Peers
    BY NextPeerType
  <2> QED
    BY <2>1, <2>2 DEF TypeOK
<1> QED
  BY <1>1, <1>2 DEF TypeOK

\* Cutting a batch off a queue leaves two sequences of frames.
LEMMA BatchTypes ==
    ASSUME NEW q \in Seq(Frames), NEW n \in 0 .. Len(q)
    PROVE  /\ SubSeq(q, 1, n) \in Seq(Frames) /\ Len(SubSeq(q, 1, n)) = n
           /\ SubSeq(q, n + 1, Len(q)) \in Seq(Frames)
<1>1. Len(q) \in Nat /\ \A i \in 1 .. Len(q) : q[i] \in Frames
  BY LenProperties, ElementOfSeq
<1>2. \A i \in 1 .. n : q[i] \in Frames
  BY <1>1
<1>3. \A i \in n + 1 .. Len(q) : q[i] \in Frames
  BY <1>1
<1>4. SubSeq(q, 1, n) \in Seq(Frames) /\ Len(SubSeq(q, 1, n)) = n
  BY <1>1, <1>2, SubSeqProperties
<1>5. SubSeq(q, n + 1, Len(q)) \in Seq(Frames)
  BY <1>1, <1>3, SubSeqProperties
<1> QED
  BY <1>4, <1>5

\* Token t is given a batch, and its counter the length of it.
Fills(t) ==
    \E b \in Seq(Frames) :
        /\ pkt' = [pkt EXCEPT ![t] = b]
        /\ outstandingPkts' = [outstandingPkts EXCEPT ![t] = Len(b)]
        /\ b # <<>>

\* rpu_tx_proc_pend_frms keeps the type of what it changes when it serves ac,
\* and the counter of the token it fills is the length of the batch.
LEMMA ProcServesTypes ==
    ASSUME TypeOK, NEW pend \in PendingQueues, NEW txq \in Seq(Frames),
           NEW bmp \in SUBSET ACs, NEW hw \in SUBSET DataACs,
           NEW acs \in SUBSET ACs, NEW ac \in ACs, NEW t \in Tokens,
           ProcServes(pend, txq, bmp, hw, acs, ac, t)
    PROVE  /\ pendingPkt' \in PendingQueues
           /\ pkt' \in [Tokens -> Seq(Frames)]
           /\ outstandingPkts' \in [Tokens -> Nat]
           /\ currPeerOpp' \in [ACs -> Peers]
           /\ queueStoppedBmp' \subseteq ACs /\ hwStopped' \subseteq DataACs
           /\ Fills(t)
<1>1. PICK p \in Peers : \E n \in 0 .. Len(pend[p][ac]) :
        LET q == pend[p][ac]
        IN  /\ IsBatchLen(n, q, Len(txq), t)
            /\ pendingPkt' = [pend EXCEPT ![p][ac] = Rest(q, n)]
            /\ pkt' = [pkt EXCEPT ![t] = txq \o SubSeq(q, 1, n)]
            /\ outstandingPkts' = [outstandingPkts EXCEPT ![t] = Len(txq) + n]
            /\ currPeerOpp' = [currPeerOpp EXCEPT ![ac] = NextPeer(p)]
            /\ queueStoppedBmp' \in {bmp, bmp \ {ac}}
            /\ hwStopped' \in {hw, hw \ {ac}}
  BY DEF ProcServes
<1> DEFINE q == pend[p][ac]
<1>10. PICK n \in 0 .. Len(q) :
        /\ IsBatchLen(n, q, Len(txq), t)
        /\ pendingPkt' = [pend EXCEPT ![p][ac] = Rest(q, n)]
        /\ pkt' = [pkt EXCEPT ![t] = txq \o SubSeq(q, 1, n)]
        /\ outstandingPkts' = [outstandingPkts EXCEPT ![t] = Len(txq) + n]
        /\ currPeerOpp' = [currPeerOpp EXCEPT ![ac] = NextPeer(p)]
        /\ queueStoppedBmp' \in {bmp, bmp \ {ac}}
        /\ hwStopped' \in {hw, hw \ {ac}}
  BY <1>1
<1> DEFINE b == txq \o SubSeq(q, 1, n)
<1>2. q \in Seq(Frames)
  BY DEF PendingQueues
<1>3. /\ SubSeq(q, 1, n) \in Seq(Frames) /\ Len(SubSeq(q, 1, n)) = n
      /\ Rest(q, n) \in Seq(Frames)
  BY <1>2, BatchTypes DEF Rest
<1>4. b \in Seq(Frames) /\ Len(b) = Len(txq) + n /\ Len(txq) \in Nat /\ n \in Nat
  BY <1>2, <1>3, ConcatProperties, LenProperties
<1>5. b # <<>>
  <2>1. Len(txq) + n > 0
    BY <1>10, <1>4 DEF IsBatchLen
  <2> QED
    BY <1>4, <2>1, EmptySeq
<1>6. pendingPkt' \in PendingQueues
  BY <1>10, <1>3 DEF PendingQueues
<1>7. currPeerOpp' \in [ACs -> Peers]
  BY <1>10, NextPeerType DEF TypeOK
<1>8. /\ pkt' = [pkt EXCEPT ![t] = b]
      /\ outstandingPkts' = [outstandingPkts EXCEPT ![t] = Len(b)]
  BY <1>10, <1>4
<1>9. pkt' \in [Tokens -> Seq(Frames)] /\ outstandingPkts' \in [Tokens -> Nat]
  BY <1>4, <1>8 DEF TypeOK
<1> HIDE DEF b
<1>11. Fills(t)
  BY <1>4, <1>5, <1>8 DEF Fills
<1> QED
  BY <1>10, <1>6, <1>7, <1>9, <1>11

-----------------------------------------------------------------------------
(* The pool: which tokens are claimed, by whom, and how many per AC.  The  *)
(* invariant is proved for five abstract steps of the pool, and every      *)
(* action is shown to take one of them.                                    *)

Held(D, q) == {d \in D : d.queue = q}

\* The tokens an AC may hold: its own, and the spare ones unless it is beacon.
Allowed(q) == Reserved(q) \cup (IF q = BCN THEN {} ELSE Spare)

PoolInv ==
    /\ bufPool \subseteq Tokens /\ descs \subseteq Desc /\ IsFiniteSet(descs)
    /\ outstandingTokens \in [ACs -> Nat]
    /\ OneHolderPerToken
    /\ \A q \in ACs : outstandingTokens[q] = Cardinality(Held(descs, q))
    /\ \A d \in descs : d.token \in Allowed(d.queue)

\* A free token is claimed for an AC that may hold it.
Claim(d) ==
    /\ d \in Desc /\ d.token \notin bufPool /\ d.token \in Allowed(d.queue)
    /\ bufPool' = bufPool \cup {d.token}
    /\ descs' = descs \cup {d}
    /\ outstandingTokens' = [outstandingTokens EXCEPT ![d.queue] = @ + 1]

\* The holder of a token changes, not the AC.
Pass(d, e) ==
    /\ d \in descs /\ e \in Desc /\ e.token = d.token /\ e.queue = d.queue
    /\ bufPool' = bufPool
    /\ descs' = (descs \ {d}) \cup {e}
    /\ outstandingTokens' = outstandingTokens

\* A token moves to another AC that may hold it.
Move(d, e) ==
    /\ d \in descs /\ e \in Desc /\ e.token = d.token /\ e.queue # d.queue
    /\ e.token \in Allowed(e.queue)
    /\ bufPool' = bufPool
    /\ descs' = (descs \ {d}) \cup {e}
    /\ outstandingTokens' = [outstandingTokens EXCEPT ![d.queue] = @ - 1,
                                                      ![e.queue] = @ + 1]

\* A token is released; the counter is not decremented below 0.
Release(d) ==
    /\ d \in descs
    /\ bufPool' = bufPool \ {d.token}
    /\ descs' = descs \ {d}
    /\ outstandingTokens' = [outstandingTokens EXCEPT ![d.queue] = LessOne(@)]

poolVars == <<bufPool, descs, outstandingTokens>>

PoolStep ==
    \/ \E d \in Desc : Claim(d)
    \/ \E d \in descs, e \in Desc : Pass(d, e) \/ Move(d, e)
    \/ \E d \in descs : Release(d)
    \/ UNCHANGED poolVars

\* Adding a holder adds one to the count of its AC only.
LEMMA CountAdd ==
    ASSUME NEW D, IsFiniteSet(D), NEW d, d \notin D, NEW q
    PROVE  /\ IsFiniteSet(D \cup {d})
           /\ Cardinality(Held(D, q)) \in Nat
           /\ Cardinality(Held(D \cup {d}, q)) =
                IF d.queue = q THEN Cardinality(Held(D, q)) + 1
                               ELSE Cardinality(Held(D, q))
<1>1. IsFiniteSet(D \cup {d})
  BY FS_AddElement
<1>2. IsFiniteSet(Held(D, q))
  <2>1. Held(D, q) \in SUBSET D
    BY DEF Held
  <2> QED
    BY <2>1, FS_Subset
<1>3. Cardinality(Held(D, q)) \in Nat
  BY <1>2, FS_CardinalityType
<1>4. CASE d.queue = q
  <2>1. Held(D \cup {d}, q) = Held(D, q) \cup {d} /\ d \notin Held(D, q)
    BY <1>4 DEF Held
  <2> QED
    BY <1>1, <1>2, <1>3, <1>4, <2>1, FS_AddElement
<1>5. CASE d.queue # q
  <2>1. Held(D \cup {d}, q) = Held(D, q)
    BY <1>5 DEF Held
  <2> QED
    BY <1>1, <1>3, <1>5, <2>1
<1> QED
  BY <1>4, <1>5

\* Removing a holder takes one from the count of its AC only, which was not 0.
LEMMA CountRemove ==
    ASSUME NEW D, IsFiniteSet(D), NEW d \in D, NEW q
    PROVE  /\ IsFiniteSet(D \ {d})
           /\ Cardinality(Held(D, q)) \in Nat /\ Cardinality(Held(D \ {d}, q)) \in Nat
           /\ Cardinality(Held(D, q)) =
                IF d.queue = q THEN Cardinality(Held(D \ {d}, q)) + 1
                               ELSE Cardinality(Held(D \ {d}, q))
<1> DEFINE E == D \ {d}
<1>1. IsFiniteSet(E) /\ d \notin E /\ D = E \cup {d}
  BY FS_RemoveElement
<1> HIDE DEF E
<1>2. /\ IsFiniteSet(E \cup {d})
      /\ Cardinality(Held(E, q)) \in Nat
      /\ Cardinality(Held(E \cup {d}, q)) =
           IF d.queue = q THEN Cardinality(Held(E, q)) + 1
                          ELSE Cardinality(Held(E, q))
  BY <1>1, CountAdd
<1>3. /\ IsFiniteSet(E)
      /\ Cardinality(Held(D, q)) \in Nat /\ Cardinality(Held(E, q)) \in Nat
      /\ Cardinality(Held(D, q)) =
           IF d.queue = q THEN Cardinality(Held(E, q)) + 1
                          ELSE Cardinality(Held(E, q))
  BY <1>1, <1>2
<1> QED
  BY <1>3 DEF E

\* Every step of the pool keeps the invariant.
LEMMA PoolStepKeepsPoolInv ==
    ASSUME PoolInv, PoolStep
    PROVE  PoolInv'
<1>1. ASSUME NEW d \in Desc, Claim(d) PROVE PoolInv'
  <2>1. d \notin descs /\ d.token \in Tokens /\ d.queue \in ACs
    BY <1>1 DEF Claim, PoolInv, OneHolderPerToken, Desc
  <2>2. ASSUME NEW q \in ACs
        PROVE  Cardinality(Held(descs', q)) = IF d.queue = q
                 THEN Cardinality(Held(descs, q)) + 1
                 ELSE Cardinality(Held(descs, q))
    <3>1. IsFiniteSet(descs) /\ descs' = descs \cup {d}
      BY <1>1 DEF Claim, PoolInv
    <3>2. Cardinality(Held(descs \cup {d}, q)) = IF d.queue = q
            THEN Cardinality(Held(descs, q)) + 1
            ELSE Cardinality(Held(descs, q))
      BY <2>1, <3>1, CountAdd
    <3> QED
      BY <3>1, <3>2
  <2>3. outstandingTokens' \in [ACs -> Nat]
    BY <1>1, <2>1 DEF Claim, PoolInv
  <2>4. \A q \in ACs : outstandingTokens'[q] = Cardinality(Held(descs', q))
    BY <1>1, <2>1, <2>2 DEF Claim, PoolInv
  <2>5. IsFiniteSet(descs')
    BY <1>1, FS_AddElement DEF Claim, PoolInv
  <2>6. OneHolderPerToken'
    BY <1>1 DEF Claim, PoolInv, OneHolderPerToken
  <2> QED
    BY <1>1, <2>1, <2>3, <2>4, <2>5, <2>6 DEF Claim, PoolInv
<1>2. ASSUME NEW d \in descs, NEW e \in Desc, Pass(d, e) \/ Move(d, e)
      PROVE  PoolInv'
  <2>1. /\ descs' = (descs \ {d}) \cup {e} /\ bufPool' = bufPool
        /\ e.token = d.token /\ d.queue \in ACs /\ e.queue \in ACs
        /\ e.token \in Allowed(e.queue) /\ IsFiniteSet(descs)
    BY <1>2 DEF Pass, Move, PoolInv, Desc
  <2>2. e \notin descs \ {d}
    BY <2>1 DEF PoolInv, OneHolderPerToken
  <2>3. IsFiniteSet(descs')
    BY <2>1, FS_RemoveElement, FS_AddElement
  <2> DEFINE E == descs \ {d}
  <2>4. ASSUME NEW q \in ACs
        PROVE  /\ Cardinality(Held(descs, q)) \in Nat
               /\ Cardinality(Held(E, q)) \in Nat
               /\ Cardinality(Held(descs, q)) = IF d.queue = q
                    THEN Cardinality(Held(E, q)) + 1 ELSE Cardinality(Held(E, q))
               /\ Cardinality(Held(descs', q)) = IF e.queue = q
                    THEN Cardinality(Held(E, q)) + 1 ELSE Cardinality(Held(E, q))
    <3>1. /\ IsFiniteSet(E)
          /\ Cardinality(Held(descs, q)) \in Nat
          /\ Cardinality(Held(E, q)) \in Nat
          /\ Cardinality(Held(descs, q)) = IF d.queue = q
               THEN Cardinality(Held(E, q)) + 1 ELSE Cardinality(Held(E, q))
      BY <2>1, CountRemove
    <3>2. e \notin E /\ descs' = E \cup {e}
      BY <2>1, <2>2
    <3> HIDE DEF E
    <3>3. Cardinality(Held(E \cup {e}, q)) = IF e.queue = q
            THEN Cardinality(Held(E, q)) + 1 ELSE Cardinality(Held(E, q))
      BY <3>1, <3>2, CountAdd
    <3> QED
      BY <3>1, <3>2, <3>3
  <2> HIDE DEF E
  <2>5. OneHolderPerToken'
    BY <2>1 DEF PoolInv, OneHolderPerToken
  <2>6. /\ outstandingTokens' \in [ACs -> Nat]
        /\ \A q \in ACs : outstandingTokens'[q] = Cardinality(Held(descs', q))
    <3>1. CASE Pass(d, e)
      <4>1. e.queue = d.queue /\ outstandingTokens' = outstandingTokens
        BY <3>1 DEF Pass
      <4>2. \A q \in ACs : Cardinality(Held(descs', q)) = Cardinality(Held(descs, q))
        BY <2>4, <4>1
      <4> QED
        BY <4>1, <4>2 DEF PoolInv
    <3>2. CASE Move(d, e)
      <4>1. outstandingTokens[d.queue] - 1 \in Nat
        BY <2>1, <2>4 DEF PoolInv
      <4>2. outstandingTokens' \in [ACs -> Nat]
        BY <2>1, <3>2, <4>1 DEF Move, PoolInv
      <4>3. \A q \in ACs : outstandingTokens'[q] =
              IF q = d.queue THEN outstandingTokens[q] - 1
              ELSE IF q = e.queue THEN outstandingTokens[q] + 1
              ELSE outstandingTokens[q]
        BY <2>1, <3>2 DEF Move, PoolInv
      <4>4. \A q \in ACs : outstandingTokens[q] = Cardinality(Held(descs, q))
        BY DEF PoolInv
      <4>5. e.queue # d.queue
        BY <3>2 DEF Move
      <4>6. ASSUME NEW q \in ACs
            PROVE  outstandingTokens'[q] = Cardinality(Held(descs', q))
        <5>1. /\ Cardinality(Held(descs, q)) = IF d.queue = q
                    THEN Cardinality(Held(E, q)) + 1 ELSE Cardinality(Held(E, q))
              /\ Cardinality(Held(descs', q)) = IF e.queue = q
                    THEN Cardinality(Held(E, q)) + 1 ELSE Cardinality(Held(E, q))
              /\ Cardinality(Held(E, q)) \in Nat
          BY <2>4
        <5>2. CASE q = d.queue
          BY <4>3, <4>4, <4>5, <5>1, <5>2
        <5>3. CASE q # d.queue
          BY <4>3, <4>4, <5>1, <5>3
        <5> QED
          BY <5>2, <5>3
      <4> QED
        BY <4>2, <4>6
    <3> QED
      BY <1>2, <3>1, <3>2
  <2> QED
    BY <2>1, <2>3, <2>5, <2>6 DEF PoolInv
<1>3. ASSUME NEW d \in descs, Release(d) PROVE PoolInv'
  <2>1. /\ d.queue \in ACs /\ IsFiniteSet(descs)
        /\ \A q \in ACs : /\ outstandingTokens[q] = Cardinality(Held(descs, q))
                          /\ outstandingTokens[q] \in Nat
    BY DEF PoolInv, Desc
  <2>2. ASSUME NEW q \in ACs
        PROVE  /\ Cardinality(Held(descs', q)) \in Nat
               /\ Cardinality(Held(descs, q)) = IF d.queue = q
                    THEN Cardinality(Held(descs', q)) + 1
                    ELSE Cardinality(Held(descs', q))
    <3>1. /\ IsFiniteSet(descs \ {d}) /\ Cardinality(Held(descs, q)) \in Nat
          /\ Cardinality(Held(descs \ {d}, q)) \in Nat
          /\ Cardinality(Held(descs, q)) = IF d.queue = q
               THEN Cardinality(Held(descs \ {d}, q)) + 1
               ELSE Cardinality(Held(descs \ {d}, q))
      BY <2>1, CountRemove
    <3>2. descs' = descs \ {d}
      BY <1>3 DEF Release
    <3> QED
      BY <3>1, <3>2
  <2>3. \A q \in ACs : outstandingTokens'[q] =
          IF q = d.queue THEN LessOne(outstandingTokens[q]) ELSE outstandingTokens[q]
    BY <1>3 DEF Release, PoolInv
  <2>4. \A q \in ACs : outstandingTokens'[q] = Cardinality(Held(descs', q))
    BY <2>1, <2>2, <2>3 DEF LessOne
  <2>5. outstandingTokens' \in [ACs -> Nat]
    <3>1. LessOne(outstandingTokens[d.queue]) \in Nat
      BY <2>1 DEF LessOne
    <3> QED
      BY <1>3, <3>1 DEF Release, PoolInv
  <2>6. IsFiniteSet(descs')
    BY <1>3, <2>1, FS_RemoveElement DEF Release
  <2>7. OneHolderPerToken'
    BY <1>3 DEF Release, PoolInv, OneHolderPerToken
  <2> QED
    BY <1>3, <2>4, <2>5, <2>6, <2>7 DEF Release, PoolInv
<1>4. CASE UNCHANGED poolVars
  BY <1>4 DEF poolVars, PoolInv, OneHolderPerToken
<1> QED
  BY <1>1, <1>2, <1>3, <1>4 DEF PoolStep

-----------------------------------------------------------------------------
(* Every action takes a step of the pool and keeps the types; and a token  *)
(* is claimed exactly while it has frames.                                 *)

TokenInv ==
    \A t \in Tokens : /\ outstandingPkts[t] = Len(pkt[t])
                      /\ t \in bufPool <=> pkt[t] # <<>>

\* The inductive invariant.
IInv == TypeOK /\ PoolInv /\ TokenInv

UnblockInRange(u) ==
    u.pc # "idle" => u.i < IF u.pc = "token" THEN NumTokens ELSE NumACs

\* The part of TypeOK that is not in PoolInv.
OtherTypes ==
    /\ unsent \subseteq Frames /\ reported \subseteq Frames
    /\ pendingPkt \in PendingQueues /\ currPeerOpp \in [ACs -> Peers]
    /\ outstandingPkts \in [Tokens -> Nat]
    /\ pkt \in [Tokens -> Seq(Frames)]
    /\ reports \subseteq Pile
    /\ queueStoppedBmp \subseteq ACs /\ hwStopped \subseteq DataACs
    /\ blocked \in BOOLEAN /\ blocks \in 0 .. MaxBlocks
    /\ unblock \in UnblockPC /\ UnblockInRange(unblock)

\* A step of the pool that keeps the other types keeps all types.
LEMMA TypesFromParts ==
    ASSUME PoolInv, PoolStep, OtherTypes'
    PROVE  TypeOK' /\ PoolInv'
<1>1. PoolInv'
  BY PoolStepKeepsPoolInv
<1> QED
  BY <1>1 DEF PoolInv, OtherTypes, PendingQueues, UnblockInRange, TypeOK

\* A token that get_token finds is free and one the AC may hold.
LEMMA FreeTokenAllowed ==
    ASSUME NEW q \in ACs, NEW t \in FreeTokens(q)
    PROVE  t \in Tokens /\ t \notin bufPool /\ t \in Allowed(q)
<1>1. Reserved(q) \subseteq Tokens /\ Spare \subseteq Tokens
  BY ReservedTokens, TokenNumbers DEF Tokens, Spare
<1> QED
  BY <1>1 DEF FreeTokens, Allowed

\* A done token may be given to every AC that the refill considers.
LEMMA RefillAllowed ==
    ASSUME NEW t \in Tokens, NEW q \in ACs, t \in Allowed(q),
           NEW ac \in Serves(t, q)
    PROVE  ac \in ACs /\ t \in Allowed(ac)
<1>1. CASE t < NumReserved
  BY <1>1 DEF Serves
<1>2. CASE ~(t < NumReserved)
  <2>1. ac \in ACs /\ ac # BCN
    BY <1>2, TokenNumbers DEF Serves
  <2>2. t \in Spare
    BY <1>2, TokenNumbers DEF Tokens, Spare
  <2> QED
    BY <2>1, <2>2 DEF Allowed
<1> QED
  BY <1>1, <1>2

\* The token loop of rpu_unblock_all_frames offers a token to ACs that may
\* hold it.
LEMMA UnblockAllowed ==
    ASSUME NEW t \in Tokens
    PROVE  t % NumACs \in ACs /\ \A ac \in Serves(t, t % NumACs) :
                                   ac \in ACs /\ t \in Allowed(ac)
<1>1. NumACs \in Nat /\ NumACs >= 2 /\ t \in Nat
  BY TxConstants DEF Tokens
<1>2. t % NumACs \in ACs
  BY <1>1 DEF ACs
<1>3. CASE t < NumReserved
  <2>1. t \in 0 .. NumReserved - 1
    BY <1>1, <1>3, TokenNumbers
  <2>2. t \in Reserved(t % NumACs)
    BY <2>1, ReservedFor
  <2> QED
    BY <1>2, <1>3, <2>2 DEF Serves, Allowed
<1>4. CASE ~(t < NumReserved)
  <2>1. t \in Spare
    BY <1>4, TokenNumbers DEF Tokens, Spare
  <2> QED
    BY <1>2, <1>4, <2>1, TokenNumbers DEF Serves, Allowed
<1> QED
  BY <1>3, <1>4

\* Giving token t the batch b and claiming or freeing it accordingly keeps
\* the agreement between the pool and the batches.
LEMMA BatchKeepsTokenInv ==
    ASSUME TypeOK, TokenInv, NEW t \in Tokens, NEW b \in Seq(Frames),
           pkt' = [pkt EXCEPT ![t] = b],
           outstandingPkts' = [outstandingPkts EXCEPT ![t] = Len(b)],
           bufPool' = IF b = <<>> THEN bufPool \ {t} ELSE bufPool \cup {t}
    PROVE  TokenInv'
<1> SUFFICES ASSUME NEW u \in Tokens
             PROVE  /\ outstandingPkts'[u] = Len(pkt'[u])
                    /\ u \in bufPool' <=> pkt'[u] # <<>>
  BY DEF TokenInv
<1>1. CASE u = t
  BY <1>1 DEF TypeOK
<1>2. CASE u # t
  BY <1>2 DEF TypeOK, TokenInv
<1> QED
  BY <1>1, <1>2

\* A frame is submitted: it is queued, and a token may be claimed for it.
LEMMA TxFrameKeepsIInv ==
    ASSUME IInv, NEW f \in Frames, TxFrame(f)
    PROVE  IInv'
<1> DEFINE ac   == AC[f]
           q    == Queued(f)
           pend == [pendingPkt EXCEPT ![Peer[f]][ac] = q]
<1>1. TypeOK /\ PoolInv /\ TokenInv
  BY DEF IInv
<1>2. ac \in ACs /\ Peer[f] \in Peers /\ HwQueue[f] \in DataACs
  BY FrameTypes
<1>3. pend \in PendingQueues
  <2>1. pendingPkt[Peer[f]][ac] \in Seq(Frames)
    BY <1>1, <1>2 DEF TypeOK
  <2>2. q \in Seq(Frames)
    BY <2>1, AppendProperties DEF Queued
  <2> HIDE DEF q
  <2> QED
    BY <1>1, <1>2, <2>2 DEF TypeOK, PendingQueues
<1>4. /\ unsent' = unsent \ {f}
      /\ UNCHANGED <<reports, reported, blockVars>>
  BY DEF TxFrame
<1>5. \/ /\ pendingPkt' = pend
         /\ UNCHANGED <<currPeerOpp, outstandingPkts, pkt, queueStoppedBmp,
                        hwStopped, bufPool, outstandingTokens, descs>>
      \/ \E bmp \in SUBSET ACs, hw \in SUBSET DataACs :
         \/ /\ pendingPkt' = pend
            /\ queueStoppedBmp' = bmp /\ hwStopped' = hw
            /\ UNCHANGED <<currPeerOpp, outstandingPkts, pkt, bufPool,
                           outstandingTokens, descs>>
         \/ \E t \in FreeTokens(ac) :
            \/ /\ ProcNone(pend, pkt[t], bmp, hw, {ac}, t)
               /\ outstandingPkts' = NoPkts(t)
               /\ UNCHANGED <<bufPool, outstandingTokens, descs>>
            \/ /\ ProcServes(pend, pkt[t], bmp, hw, {ac}, ac, t)
               /\ bufPool' = bufPool \cup {t}
               /\ outstandingTokens' = [outstandingTokens EXCEPT ![ac] = @ + 1]
               /\ descs' = descs \cup
                    {[token |-> t, queue |-> ac, at |-> "prog", by |-> "tx"]}
  <2>1. CASE LeftToAggregate(f, q)
    BY <2>1 DEF TxFrame
  <2>2. CASE ~LeftToAggregate(f, q)
    <3>1. PICK roc \in BOOLEAN :
             LET full == Len(q) >= MaxTxQueueLen /\ (roc => ac # VO)
                 bmp  == StopBit(ac, full)
                 hw   == IF full THEN hwStopped \cup {HwQueue[f]}
                                 ELSE hwStopped
             IN
             \/ /\ pendingPkt' = pend
                /\ queueStoppedBmp' = bmp /\ hwStopped' = hw
                /\ UNCHANGED <<currPeerOpp, outstandingPkts, pkt, bufPool,
                               outstandingTokens, descs>>
             \/ \E t \in FreeTokens(ac) :
                \/ /\ ProcNone(pend, pkt[t], bmp, hw, {ac}, t)
                   /\ outstandingPkts' = NoPkts(t)
                   /\ UNCHANGED <<bufPool, outstandingTokens, descs>>
                \/ /\ ProcServes(pend, pkt[t], bmp, hw, {ac}, ac, t)
                   /\ bufPool' = bufPool \cup {t}
                   /\ outstandingTokens' =
                        [outstandingTokens EXCEPT ![ac] = @ + 1]
                   /\ descs' = descs \cup
                        {[token |-> t, queue |-> ac, at |-> "prog",
                          by |-> "tx"]}
      BY <2>2, Zenon DEF TxFrame
    <3> DEFINE full == Len(q) >= MaxTxQueueLen /\ (roc => ac # VO)
               bmp  == StopBit(ac, full)
               hw   == IF full THEN hwStopped \cup {HwQueue[f]}
                               ELSE hwStopped
    <3>2. bmp \in SUBSET ACs /\ hw \in SUBSET DataACs
      BY <1>1, <1>2 DEF TypeOK, StopBit
    <3> QED
      BY <3>1, <3>2, Zenon
  <2> QED
    BY <2>1, <2>2
<1> HIDE DEF pend, q
<1> USE DEF OtherTypes, UnblockInRange
<1>10. {ac} \in SUBSET ACs
  BY <1>2
<1>6. CASE /\ pendingPkt' = pend
           /\ UNCHANGED <<currPeerOpp, outstandingPkts, pkt, queueStoppedBmp,
                          hwStopped, bufPool, outstandingTokens, descs>>
  <2>1. PoolStep
    BY <1>6 DEF PoolStep, poolVars
  <2>2. OtherTypes'
    BY <1>1, <1>3, <1>4, <1>6 DEF TypeOK, blockVars
  <2>3. TokenInv'
    BY <1>1, <1>6 DEF TokenInv
  <2> QED
    BY <1>1, <2>1, <2>2, <2>3, TypesFromParts DEF IInv
<1>7. ASSUME NEW bmp \in SUBSET ACs, NEW hw \in SUBSET DataACs,
             pendingPkt' = pend, queueStoppedBmp' = bmp, hwStopped' = hw,
             UNCHANGED <<currPeerOpp, outstandingPkts, pkt, bufPool,
                         outstandingTokens, descs>>
      PROVE  IInv'
  <2>1. PoolStep
    BY <1>7 DEF PoolStep, poolVars
  <2>2. OtherTypes'
    BY <1>1, <1>3, <1>4, <1>7 DEF TypeOK, blockVars
  <2>3. TokenInv'
    BY <1>1, <1>7 DEF TokenInv
  <2> QED
    BY <1>1, <2>1, <2>2, <2>3, TypesFromParts DEF IInv
<1>8. ASSUME NEW bmp \in SUBSET ACs, NEW hw \in SUBSET DataACs,
             NEW t \in FreeTokens(ac),
             ProcNone(pend, pkt[t], bmp, hw, {ac}, t),
             outstandingPkts' = NoPkts(t),
             UNCHANGED <<bufPool, outstandingTokens, descs>>
      PROVE  IInv'
  <2>1. t \in Tokens /\ t \notin bufPool /\ pkt[t] = <<>> /\ pkt[t] \in Seq(Frames)
    BY <1>1, <1>2, FreeTokenAllowed DEF TokenInv, TypeOK
  <2>2. /\ pendingPkt' \in PendingQueues
        /\ pkt' \in [Tokens -> Seq(Frames)]
        /\ currPeerOpp' \in [ACs -> Peers]
        /\ queueStoppedBmp' \subseteq ACs /\ hwStopped' \subseteq DataACs
    BY <1>1, <1>2, <1>3, <1>8, <1>10, <2>1, ProcNoneTypes, Zenon
  <2>6. pkt' = [pkt EXCEPT ![t] = pkt[t]]
    BY <1>8 DEF ProcNone
  <2>3. PoolStep
    BY <1>8 DEF PoolStep, poolVars
  <2>4. OtherTypes'
    BY <1>1, <1>4, <1>8, <2>1, <2>2 DEF TypeOK, blockVars, NoPkts
  <2>5. TokenInv'
    BY <1>1, <1>8, <2>1, <2>6, BatchKeepsTokenInv DEF NoPkts
  <2> QED
    BY <1>1, <2>3, <2>4, <2>5, TypesFromParts DEF IInv
<1>9. ASSUME NEW bmp \in SUBSET ACs, NEW hw \in SUBSET DataACs,
             NEW t \in FreeTokens(ac),
             ProcServes(pend, pkt[t], bmp, hw, {ac}, ac, t),
             bufPool' = bufPool \cup {t},
             outstandingTokens' = [outstandingTokens EXCEPT ![ac] = @ + 1],
             descs' = descs \cup
               {[token |-> t, queue |-> ac, at |-> "prog", by |-> "tx"]}
      PROVE  IInv'
  <2>1. t \in Tokens /\ t \notin bufPool /\ t \in Allowed(ac) /\ pkt[t] \in Seq(Frames)
    BY <1>1, <1>2, FreeTokenAllowed DEF TypeOK
  <2>2. /\ pendingPkt' \in PendingQueues
        /\ pkt' \in [Tokens -> Seq(Frames)]
        /\ outstandingPkts' \in [Tokens -> Nat]
        /\ currPeerOpp' \in [ACs -> Peers]
        /\ queueStoppedBmp' \subseteq ACs /\ hwStopped' \subseteq DataACs
        /\ Fills(t)
    BY <1>1, <1>2, <1>3, <1>9, <1>10, <2>1, ProcServesTypes
  <2>3. Claim([token |-> t, queue |-> ac, at |-> "prog", by |-> "tx"])
    BY <1>2, <1>9, <2>1 DEF Claim, Desc
  <2>4. PoolStep
    BY <2>3 DEF PoolStep, Claim
  <2>5. OtherTypes'
    BY <1>1, <1>4, <2>2 DEF TypeOK, blockVars
  <2>6. TokenInv'
    BY <1>1, <1>9, <2>1, <2>2, BatchKeepsTokenInv DEF Fills
  <2> QED
    BY <1>1, <2>4, <2>5, <2>6, TypesFromParts DEF IInv
<1> QED
  BY <1>5, <1>6, <1>7, <1>8, <1>9

\* The command of a token goes to the firmware or fails.
LEMMA RpuProgTxKeepsIInv ==
    ASSUME IInv, NEW d, RpuProgTx(d)
    PROVE  IInv'
<1>1. TypeOK /\ PoolInv /\ TokenInv /\ d \in descs
  BY DEF IInv, RpuProgTx
<1>2. PICK at \in {"sent", "failed"} :
        descs' = (descs \ {d}) \cup {[d EXCEPT !.at = at]}
  BY DEF RpuProgTx
<1>3. UNCHANGED <<unsent, frameVars, bufPool, outstandingTokens, reports,
                  reported, blockVars>>
  BY DEF RpuProgTx
<1> DEFINE e == [d EXCEPT !.at = at]
<1>4. e \in Desc /\ e.token = d.token /\ e.queue = d.queue
  BY <1>1 DEF PoolInv, Desc
<1>5. PoolStep
  <2>1. Pass(d, e)
    BY <1>1, <1>2, <1>3, <1>4 DEF Pass
  <2> HIDE DEF e
  <2> QED
    BY <1>1, <1>4, <2>1 DEF PoolStep
<1>6. OtherTypes'
  BY <1>1, <1>3 DEF TypeOK, OtherTypes, UnblockInRange, PendingQueues, frameVars, blockVars
<1>7. TokenInv'
  BY <1>1, <1>3 DEF TokenInv, frameVars
<1> QED
  BY <1>1, <1>5, <1>6, <1>7, TypesFromParts DEF IInv

\* A done token is refilled, perhaps for another AC, or released.
LEMMA RpuTxFreeBuffReqKeepsIInv ==
    ASSUME IInv, NEW d, RpuTxFreeBuffReq(d)
    PROVE  IInv'
<1> DEFINE t   == d.token
           by  == IF d.at = "sent" THEN "rx" ELSE d.by
           acs == Serves(t, d.queue)
<1>1. TypeOK /\ PoolInv /\ TokenInv /\ d \in descs
  BY DEF IInv, RpuTxFreeBuffReq
<1>2. /\ t \in Tokens /\ d.queue \in ACs /\ by \in {"tx", "rx"}
      /\ t \in bufPool /\ t \in Allowed(d.queue)
  BY <1>1 DEF PoolInv, OneHolderPerToken, Desc
<1>3. \A ac \in acs : ac \in ACs /\ t \in Allowed(ac)
  BY <1>2, RefillAllowed
<1>4. acs \in SUBSET ACs
  BY <1>3
<1>5. /\ UNCHANGED <<unsent, reported, blockVars>>
      /\ reports' \subseteq Pile
  <2>1. pkt[t] \in Seq(Frames) /\ reports \subseteq Pile
    BY <1>1, <1>2 DEF TypeOK
  <2>2. PICK refilled \in BOOLEAN : CutOff(t, by, refilled)
    BY DEF RpuTxFreeBuffReq
  <2>3. [list |-> pkt[t], by |-> by, token |-> IF refilled THEN t ELSE NumTokens]
          \in Pile
    BY <1>2, <2>1 DEF Pile
  <2> QED
    BY <2>1, <2>2, <2>3 DEF RpuTxFreeBuffReq, CutOff
<1>6. /\ pendingPkt \in PendingQueues /\ <<>> \in Seq(Frames)
      /\ queueStoppedBmp \in SUBSET ACs /\ hwStopped \in SUBSET DataACs
  BY <1>1, EmptySeq DEF TypeOK, PendingQueues
<1>7. CASE /\ ProcNone(pendingPkt, <<>>, queueStoppedBmp, hwStopped, acs, t)
           /\ outstandingPkts' = NoPkts(t)
           /\ bufPool' = bufPool \ {t}
           /\ outstandingTokens' =
                [outstandingTokens EXCEPT ![d.queue] = LessOne(@)]
           /\ descs' = descs \ {d}
  <2> HIDE DEF acs, t
  <2>1. /\ pendingPkt' \in PendingQueues
        /\ pkt' \in [Tokens -> Seq(Frames)]
        /\ currPeerOpp' \in [ACs -> Peers]
        /\ queueStoppedBmp' \subseteq ACs /\ hwStopped' \subseteq DataACs
    BY <1>1, <1>2, <1>4, <1>6, <1>7, ProcNoneTypes, Zenon
  <2>2. pkt' = [pkt EXCEPT ![t] = <<>>]
    BY <1>7 DEF ProcNone
  <2>3. PoolStep
    BY <1>1, <1>7 DEF PoolStep, Release, t
  <2>4. OtherTypes'
    BY <1>1, <1>5, <1>7, <2>1 DEF TypeOK, OtherTypes, UnblockInRange, blockVars, NoPkts
  <2>5. TokenInv'
    BY <1>1, <1>2, <1>6, <1>7, <2>2, BatchKeepsTokenInv DEF NoPkts
  <2> QED
    BY <1>1, <2>3, <2>4, <2>5, TypesFromParts DEF IInv
<1>8. ASSUME NEW ac \in acs,
             ProcServes(pendingPkt, <<>>, queueStoppedBmp, hwStopped, acs, ac, t),
             bufPool' = bufPool,
             outstandingTokens' =
               IF ac = d.queue THEN outstandingTokens
               ELSE [outstandingTokens EXCEPT ![d.queue] = @ - 1, ![ac] = @ + 1],
             descs' = (descs \ {d}) \cup
               {[token |-> t, queue |-> ac, at |-> "prog", by |-> by]}
      PROVE  IInv'
  <2> DEFINE e == [token |-> t, queue |-> ac, at |-> "prog", by |-> by]
  <2>1. ac \in ACs /\ t \in Allowed(ac)
    BY <1>3, <1>8
  <2>2. e \in Desc /\ e.token = t /\ e.queue = ac
    BY <1>2, <2>1 DEF Desc
  <2>3. PoolStep
    <3>1. CASE ac = d.queue
      <4>1. Pass(d, e)
        BY <1>1, <1>8, <2>2, <3>1 DEF Pass
      <4> QED
        BY <1>1, <2>2, <4>1 DEF PoolStep
    <3>2. CASE ac # d.queue
      <4>1. Move(d, e)
        BY <1>1, <1>8, <2>1, <2>2, <3>2 DEF Move
      <4> QED
        BY <1>1, <2>2, <4>1 DEF PoolStep
    <3> QED
      BY <3>1, <3>2
  <2> HIDE DEF acs, t
  <2>4. /\ pendingPkt' \in PendingQueues
        /\ pkt' \in [Tokens -> Seq(Frames)]
        /\ outstandingPkts' \in [Tokens -> Nat]
        /\ currPeerOpp' \in [ACs -> Peers]
        /\ queueStoppedBmp' \subseteq ACs /\ hwStopped' \subseteq DataACs
        /\ Fills(t)
    BY <1>1, <1>2, <1>4, <1>6, <1>8, <2>1, ProcServesTypes
  <2>5. OtherTypes'
    BY <1>1, <1>5, <2>4 DEF TypeOK, OtherTypes, UnblockInRange, blockVars
  <2>6. bufPool' = bufPool \cup {t}
    BY <1>2, <1>8
  <2>7. TokenInv'
    BY <1>1, <1>2, <2>4, <2>6, BatchKeepsTokenInv DEF Fills
  <2> QED
    BY <1>1, <2>3, <2>5, <2>7, TypesFromParts DEF IInv
<1> QED
  BY <1>7, <1>8 DEF RpuTxFreeBuffReq

\* A list of frames is reported.
LEMMA ReportKeepsIInv ==
    ASSUME IInv, NEW r, Report(r)
    PROVE  IInv'
<1>1. TypeOK /\ PoolInv /\ TokenInv
  BY DEF IInv
<1>2. Range(r.list) \subseteq Frames /\ reports' \subseteq Pile
  <2> DEFINE list == r.list
  <2>1. list \in Seq(Frames) /\ reports' \subseteq Pile
    BY <1>1 DEF Report, TypeOK, Pile
  <2> HIDE DEF list
  <2>2. DOMAIN list = 1 .. Len(list) /\ \A i \in 1 .. Len(list) : list[i] \in Frames
    BY <2>1, LenProperties, ElementOfSeq
  <2>3. Range(list) \subseteq Frames
    BY <2>2 DEF Range
  <2> QED
    BY <2>1, <2>3 DEF list
<1>3. PoolStep
  BY DEF Report, PoolStep, poolVars
<1>4. OtherTypes'
  BY <1>1, <1>2 DEF Report, TxStatus, TypeOK, OtherTypes, UnblockInRange, PendingQueues, frameVars, blockVars
<1>5. TokenInv'
  BY <1>1 DEF Report, TokenInv, frameVars
<1> QED
  BY <1>1, <1>3, <1>4, <1>5, TypesFromParts DEF IInv

\* The values that rpu_unblock_all_frames gives to its position.
LEMMA UnblockRecords ==
    /\ Idle \in UnblockPC /\ UnblockInRange(Idle)
    /\ \A i \in ACs : At("wake", i) \in UnblockPC /\ UnblockInRange(At("wake", i))
    /\ \A t \in Tokens : At("token", t) \in UnblockPC /\ UnblockInRange(At("token", t))
    /\ 0 \in ACs /\ 0 \in Tokens
<1>1. NumACs \in Nat /\ NumACs > 0 /\ NumTokens \in Nat /\ NumTokens > 0
  BY TxConstants, TokenNumbers
<1>2. Idle \in UnblockPC /\ UnblockInRange(Idle)
  BY DEF Idle, At, UnblockPC, UnblockInRange
<1>3. ASSUME NEW i \in ACs
      PROVE  At("wake", i) \in UnblockPC /\ UnblockInRange(At("wake", i))
  BY <1>1 DEF At, UnblockPC, UnblockInRange, ACs
<1>4. ASSUME NEW t \in Tokens
      PROVE  At("token", t) \in UnblockPC /\ UnblockInRange(At("token", t))
  BY <1>1 DEF At, UnblockPC, UnblockInRange, Tokens
<1>5. 0 \in ACs /\ 0 \in Tokens
  BY <1>1 DEF ACs, Tokens
<1> QED
  BY <1>2, <1>3, <1>4, <1>5

\* The events that block and unblock the driver.
LEMMA BlockKeepsIInv ==
    ASSUME IInv, BlockAll \/ UnblockAll
    PROVE  IInv'
<1>1. TypeOK /\ PoolInv /\ TokenInv
  BY DEF IInv
<1>2. /\ UNCHANGED <<unsent, frameVars, bufPool, outstandingTokens, descs,
                     reports, reported>>
      /\ blocked' \in BOOLEAN /\ blocks' \in 0 .. MaxBlocks
  <2>1. CASE BlockAll
    BY <1>1, <2>1, TxConstants DEF BlockAll, TypeOK
  <2>2. CASE UnblockAll
    BY <1>1, <2>2 DEF UnblockAll, TypeOK
  <2> QED
    BY <2>1, <2>2
<1>3. unblock' \in UnblockPC /\ UnblockInRange(unblock')
  <2>1. CASE BlockAll
    BY <1>1, <2>1 DEF BlockAll, TypeOK, UnblockInRange
  <2>2. CASE UnblockAll
    BY <2>2, UnblockRecords DEF UnblockAll
  <2> QED
    BY <2>1, <2>2
<1>4. PoolStep
  BY <1>2 DEF PoolStep, poolVars
<1>5. OtherTypes'
  BY <1>1, <1>2, <1>3 DEF TypeOK, OtherTypes, UnblockInRange, PendingQueues, frameVars
<1>6. TokenInv'
  BY <1>1, <1>2 DEF TokenInv, frameVars
<1> QED
  BY <1>1, <1>4, <1>5, <1>6, TypesFromParts DEF IInv

\* The first loop of rpu_unblock_all_frames goes from AC to AC, and then to
\* the second loop.
LEMMA AfterWakeType ==
    ASSUME NEW i \in ACs
    PROVE  AfterWake(i) \in UnblockPC /\ UnblockInRange(AfterWake(i))
<1>1. CASE i + 1 < NumACs
  <2>1. i + 1 \in ACs /\ AfterWake(i) = At("wake", i + 1)
    BY <1>1, TxConstants DEF AfterWake, ACs
  <2> QED
    BY <2>1, UnblockRecords
<1>2. CASE ~(i + 1 < NumACs)
  BY <1>2, UnblockRecords DEF AfterWake
<1> QED
  BY <1>1, <1>2

\* The first loop of rpu_unblock_all_frames.
LEMMA WakeLoopKeepsIInv ==
    ASSUME IInv, UnblockWake \/ UnblockLoad \/ UnblockStore
    PROVE  IInv'
<1>1. TypeOK /\ PoolInv /\ TokenInv
  BY DEF IInv
<1>2. UNCHANGED <<unsent, pendingPkt, currPeerOpp, outstandingPkts, pkt, bufPool,
                  outstandingTokens, descs, reports, reported, blocked, blocks>>
  BY DEF UnblockWake, UnblockLoad, UnblockStore, frameVars
<1>3. /\ unblock \in UnblockPC /\ unblock.pc # "token" /\ unblock.pc # "idle"
      /\ unblock.i \in ACs /\ unblock.bmp \subseteq ACs
  BY <1>1, TxConstants
     DEF TypeOK, UnblockPC, ACs, UnblockWake, UnblockLoad, UnblockStore
<1>4. queueStoppedBmp' \subseteq ACs /\ hwStopped' \subseteq DataACs
  BY <1>1, <1>3 DEF TypeOK, UnblockWake, UnblockLoad, UnblockStore, frameVars
<1>5. unblock' \in UnblockPC /\ UnblockInRange(unblock')
  <2>1. CASE unblock' = AfterWake(unblock.i)
    BY <1>3, <2>1, AfterWakeType
  <2>2. CASE unblock' = [unblock EXCEPT !.pc = "load"]
    BY <1>3, <2>2, TxConstants DEF UnblockPC, UnblockInRange, ACs
  <2>3. CASE unblock' = [unblock EXCEPT !.pc = "store",
                                        !.bmp = queueStoppedBmp \ {unblock.i}]
    BY <1>1, <1>3, <2>3, TxConstants DEF TypeOK, UnblockPC, UnblockInRange, ACs
  <2> QED
    BY <2>1, <2>2, <2>3 DEF UnblockWake, UnblockLoad, UnblockStore
<1>6. PoolStep
  BY <1>2 DEF PoolStep, poolVars
<1>7. OtherTypes'
  BY <1>1, <1>2, <1>4, <1>5 DEF TypeOK, OtherTypes, UnblockInRange, PendingQueues
<1>8. TokenInv'
  BY <1>1, <1>2 DEF TokenInv
<1> QED
  BY <1>1, <1>6, <1>7, <1>8, TypesFromParts DEF IInv

\* The second loop of rpu_unblock_all_frames.
LEMMA UnblockTokenKeepsIInv ==
    ASSUME IInv, UnblockToken
    PROVE  IInv'
<1> DEFINE t   == unblock.i
           acs == Serves(t, t % NumACs)
<1>1. TypeOK /\ PoolInv /\ TokenInv
  BY DEF IInv
<1>2. t \in Tokens /\ t \in Nat
  BY <1>1, TokenNumbers DEF UnblockToken, TypeOK, UnblockPC, Tokens
<1>3. \A ac \in acs : ac \in ACs /\ t \in Allowed(ac)
  BY <1>2, UnblockAllowed
<1>4. acs \in SUBSET ACs
  BY <1>3
<1>5. UNCHANGED <<unsent, reports, reported, blocked, blocks>>
  BY DEF UnblockToken
<1>6. unblock' \in UnblockPC /\ UnblockInRange(unblock')
  <2>1. CASE t + 1 < NumTokens
    <3>1. t + 1 \in Tokens /\ unblock' = At("token", t + 1)
      BY <1>2, <2>1, TokenNumbers DEF UnblockToken, Tokens
    <3> QED
      BY <3>1, UnblockRecords
  <2>2. CASE ~(t + 1 < NumTokens)
    BY <2>2, UnblockRecords DEF UnblockToken
  <2> QED
    BY <2>1, <2>2
<1>7. /\ pendingPkt \in PendingQueues /\ pkt[t] \in Seq(Frames)
      /\ queueStoppedBmp \in SUBSET ACs /\ hwStopped \in SUBSET DataACs
  BY <1>1, <1>2 DEF TypeOK, PendingQueues
<1>8. CASE UNCHANGED <<frameVars, bufPool, outstandingTokens, descs>>
  <2>1. PoolStep
    BY <1>8 DEF PoolStep, poolVars
  <2>2. OtherTypes'
    BY <1>1, <1>5, <1>6, <1>8 DEF TypeOK, OtherTypes, UnblockInRange, PendingQueues, frameVars
  <2>3. TokenInv'
    BY <1>1, <1>8 DEF TokenInv, frameVars
  <2> QED
    BY <1>1, <2>1, <2>2, <2>3, TypesFromParts DEF IInv
<1>9. CASE /\ ProcNone(pendingPkt, pkt[t], queueStoppedBmp, hwStopped, acs, t)
           /\ UNCHANGED <<outstandingPkts, bufPool, outstandingTokens, descs>>
  <2> HIDE DEF acs, t
  <2>1. /\ pendingPkt' \in PendingQueues
        /\ pkt' \in [Tokens -> Seq(Frames)]
        /\ currPeerOpp' \in [ACs -> Peers]
        /\ queueStoppedBmp' \subseteq ACs /\ hwStopped' \subseteq DataACs
    BY <1>1, <1>2, <1>4, <1>7, <1>9, ProcNoneTypes, Zenon
  <2>2. pkt' = pkt
    BY <1>1, <1>9 DEF ProcNone, TypeOK
  <2>3. PoolStep
    BY <1>9 DEF PoolStep, poolVars
  <2>4. OtherTypes'
    BY <1>1, <1>5, <1>6, <1>9, <2>1 DEF TypeOK, OtherTypes, UnblockInRange
  <2>5. TokenInv'
    BY <1>1, <1>9, <2>2 DEF TokenInv
  <2> QED
    BY <1>1, <2>3, <2>4, <2>5, TypesFromParts DEF IInv
<1>10. ASSUME t \notin bufPool, NEW ac \in acs,
              ProcServes(pendingPkt, pkt[t], queueStoppedBmp, hwStopped, acs, ac, t),
              bufPool' = bufPool \cup {t},
              outstandingTokens' = [outstandingTokens EXCEPT ![ac] = @ + 1],
              descs' = descs \cup
                {[token |-> t, queue |-> ac, at |-> "prog", by |-> "rx"]}
       PROVE  IInv'
  <2>1. ac \in ACs /\ t \in Allowed(ac)
    BY <1>3, <1>10
  <2> HIDE DEF acs, t
  <2>2. Claim([token |-> t, queue |-> ac, at |-> "prog", by |-> "rx"])
    BY <1>2, <1>10, <2>1 DEF Claim, Desc
  <2>3. PoolStep
    BY <2>2 DEF PoolStep, Claim
  <2>4. /\ pendingPkt' \in PendingQueues
        /\ pkt' \in [Tokens -> Seq(Frames)]
        /\ outstandingPkts' \in [Tokens -> Nat]
        /\ currPeerOpp' \in [ACs -> Peers]
        /\ queueStoppedBmp' \subseteq ACs /\ hwStopped' \subseteq DataACs
        /\ Fills(t)
    BY <1>1, <1>2, <1>4, <1>7, <1>10, <2>1, ProcServesTypes
  <2>5. OtherTypes'
    BY <1>1, <1>5, <1>6, <2>4 DEF TypeOK, OtherTypes, UnblockInRange
  <2>6. TokenInv'
    BY <1>1, <1>2, <1>10, <2>4, BatchKeepsTokenInv DEF Fills
  <2> QED
    BY <1>1, <2>3, <2>5, <2>6, TypesFromParts DEF IInv
<1> QED
  BY <1>8, <1>9, <1>10 DEF UnblockToken, IsFree

-----------------------------------------------------------------------------
(* The invariant holds, and what follows from it.                          *)

\* At the start the pool is full and the queues are empty.
LEMMA InitIInv == Init => IInv
<1> SUFFICES ASSUME Init PROVE IInv
  OBVIOUS
<1>1. /\ 0 \in Peers /\ <<>> \in Seq(Frames) /\ Len(<<>>) = 0
  BY TxConstants, EmptySeq DEF Peers
<1>2. PoolInv
  <2>1. \A q \in ACs : Held(descs, q) = {}
    BY DEF Init, Held
  <2>2. \A q \in ACs : outstandingTokens[q] = Cardinality(Held(descs, q))
    BY <2>1, FS_EmptySet DEF Init
  <2>3. IsFiniteSet(descs)
    BY FS_EmptySet DEF Init
  <2> QED
    BY <2>2, <2>3 DEF Init, PoolInv, OneHolderPerToken
<1>3. OtherTypes
  BY <1>1, UnblockRecords, TxConstants DEF Init, OtherTypes, PendingQueues
<1>4. TypeOK
  BY <1>2, <1>3 DEF PoolInv, OtherTypes, PendingQueues, UnblockInRange, TypeOK
<1>5. TokenInv
  BY <1>1 DEF Init, TokenInv
<1> QED
  BY <1>2, <1>4, <1>5 DEF IInv

\* Every step keeps the invariant.
LEMMA NextIInv == IInv /\ [Next]_vars => IInv'
<1> SUFFICES ASSUME IInv, [Next]_vars PROVE IInv'
  OBVIOUS
<1>1. CASE \E f \in Frames : TxFrame(f)
  BY <1>1, TxFrameKeepsIInv
<1>2. CASE BlockAll \/ UnblockAll
  BY <1>2, BlockKeepsIInv
<1>3. CASE \E d \in descs : RpuProgTx(d)
  BY <1>3, RpuProgTxKeepsIInv
<1>4. CASE \E d \in descs : RpuTxFreeBuffReq(d)
  BY <1>4, RpuTxFreeBuffReqKeepsIInv
<1>5. CASE \E r \in reports : Report(r)
  BY <1>5, ReportKeepsIInv
<1>6. CASE UnblockWake \/ UnblockLoad \/ UnblockStore
  BY <1>6, WakeLoopKeepsIInv
<1>7. CASE UnblockToken
  BY <1>7, UnblockTokenKeepsIInv
<1>8. CASE UNCHANGED vars
  <2>1. TypeOK'
    BY <1>8 DEF IInv, TypeOK, vars, frameVars, blockVars
  <2>2. PoolInv'
    BY <1>8 DEF IInv, PoolInv, OneHolderPerToken, vars
  <2>3. TokenInv'
    BY <1>8 DEF IInv, TokenInv, vars, frameVars
  <2> QED
    BY <2>1, <2>2, <2>3 DEF IInv
<1> QED
  BY <1>1, <1>2, <1>3, <1>4, <1>5, <1>6, <1>7, <1>8 DEF Next, Progress

\* The inductive invariant holds in every reachable state.
THEOREM SpecIInv == Spec => []IInv
  BY InitIInv, NextIInv, PTL DEF Spec

\* Every variable keeps its type, through every critical section of tx.c and
\* every unlocked access of rpu_unblock_all_frames; in particular the counter
\* of an AC that a refill decrements is never 0.
THEOREM TypesCorrect == Spec => []TypeOK
<1>1. IInv => TypeOK
  BY DEF IInv
<1> QED
  BY <1>1, SpecIInv, PTL

\* buf_pool_bmp is exact: a token is claimed while one thread or one firmware
\* command holds it, and no token has two holders, whatever the numbers of
\* ACs, tokens and frames.
THEOREM NoTokenHeldTwice == Spec => []OneHolderPerToken
<1>1. IInv => OneHolderPerToken
  BY DEF IInv, PoolInv
<1> QED
  BY <1>1, SpecIInv, PTL

\* outstanding_tokens never drifts from the tokens its AC really holds, so
\* neither free_token's test against 0 nor the refill's decrement loses one.
THEOREM CounterIsExact == Spec => []OutstandingExact
<1>1. IInv => OutstandingExact
  BY DEF IInv, PoolInv, OutstandingExact, Held
<1> QED
  BY <1>1, SpecIInv, PTL

\* No AC takes a token that is reserved for another, not even through the
\* refill of a done token or the token loop of rpu_unblock_all_frames.
THEOREM ReservationsHold == Spec => []ReservationsKept
<1>1. IInv => ReservationsKept
  BY ReservedTokens DEF IInv, PoolInv, Desc, Allowed, ReservationsKept
<1> QED
  BY <1>1, SpecIInv, PTL

\* A free token has no frames and no count, which rpu_unblock_all_frames and
\* get_outstanding_pkts rely on.
THEOREM FreeTokensHaveNoFrames == Spec => []FreeTokensEmpty
<1>1. IInv => FreeTokensEmpty
  BY DEF IInv, TokenInv, FreeTokensEmpty
<1> QED
  BY <1>1, SpecIInv, PTL

\* rpu_prog_tx is never called for a token without frames.
THEOREM ProgrammedTokensHaveFrames == Spec => []HeldTokensCarryFrames
<1>1. IInv => HeldTokensCarryFrames
  BY DEF IInv, PoolInv, TokenInv, OneHolderPerToken, Desc, HeldTokensCarryFrames
<1> QED
  BY <1>1, SpecIInv, PTL

-----------------------------------------------------------------------------
(* How many tokens an AC can have.                                         *)

\* An AC has at most NUM_TX_DESCS_PER_AC reserved tokens, and with the spare
\* ones at most that many more.
LEMMA AllowedCount ==
    ASSUME NEW q \in ACs
    PROVE  /\ IsFiniteSet(Allowed(q))
           /\ Cardinality(Allowed(q)) =< TokensPerAC + SpareTokens
<1>1. TokensPerAC \in Nat /\ TokensPerAC >= 1 /\ SpareTokens \in Nat
      /\ NumReserved \in Nat /\ NumTokens = NumReserved + SpareTokens
  BY TxConstants, TokenNumbers DEF NumTokens
<1>2. IsFiniteSet(Reserved(q)) /\ Cardinality(Reserved(q)) =< TokensPerAC
  <2> DEFINE K == 0 .. TokensPerAC - 1
             g == [k \in K |-> q + NumACs * k]
  <2>1. IsFiniteSet(K) /\ Cardinality(K) = TokensPerAC
    BY <1>1, FS_Interval
  <2>2. g \in Surjection(K, Reserved(q))
    BY DEF Surjection, Reserved
  <2> HIDE DEF K, g
  <2> QED
    BY <2>1, <2>2, FS_Surjection
<1>3. IsFiniteSet(Spare) /\ Cardinality(Spare) = SpareTokens
  BY <1>1, FS_Interval DEF Spare
<1>4. /\ IsFiniteSet(Reserved(q) \cup Spare)
      /\ Cardinality(Reserved(q) \cup Spare) =< TokensPerAC + SpareTokens
  <2>1. Cardinality(Reserved(q) \cap Spare) \in Nat
    <3>1. Reserved(q) \cap Spare \in SUBSET Spare
      OBVIOUS
    <3> QED
      BY <1>3, <3>1, FS_Subset, FS_CardinalityType
  <2>2. Cardinality(Reserved(q)) \in Nat /\ Cardinality(Spare) \in Nat
    BY <1>2, <1>3, FS_CardinalityType
  <2>3. /\ IsFiniteSet(Reserved(q) \cup Spare)
        /\ Cardinality(Reserved(q) \cup Spare) = Cardinality(Reserved(q))
             + Cardinality(Spare) - Cardinality(Reserved(q) \cap Spare)
    BY <1>2, <1>3, FS_Union
  <2> QED
    BY <1>1, <1>2, <1>3, <2>1, <2>2, <2>3
<1>5. CASE q = BCN
  <2>1. Allowed(q) = Reserved(q)
    BY <1>5 DEF Allowed
  <2>2. Cardinality(Reserved(q)) \in Nat
    BY <1>2, FS_CardinalityType
  <2> QED
    BY <1>1, <1>2, <2>1, <2>2
<1>6. CASE q # BCN
  <2>1. Allowed(q) = Reserved(q) \cup Spare
    BY <1>6 DEF Allowed
  <2> QED
    BY <1>4, <2>1
<1> QED
  BY <1>5, <1>6

\* outstanding_tokens never leaves the range that free_token warns about: the
\* warning at tx.c:472 is dead for every size of the pool it is scaled to.
THEOREM CounterIsBounded == Spec => []OutstandingBounded
<1>1. ASSUME IInv PROVE OutstandingBounded
  <2> SUFFICES ASSUME NEW q \in ACs
               PROVE  outstandingTokens[q] =< TokensPerAC + SpareTokens
    BY DEF OutstandingBounded
  <2> DEFINE H == Held(descs, q)
             g == [d \in H |-> d.token]
  <2>1. outstandingTokens[q] = Cardinality(H)
    BY <1>1 DEF IInv, PoolInv
  <2>2. \A d \in H : d.token \in Allowed(q)
    BY <1>1 DEF IInv, PoolInv, Held
  <2>3. \A d, e \in H : d.token = e.token => d = e
    BY <1>1 DEF IInv, PoolInv, OneHolderPerToken, Held
  <2> HIDE DEF H
  <2>4. g \in Injection(H, Allowed(q))
    BY <2>2, <2>3 DEF Injection, IsInjective
  <2> HIDE DEF g
  <2>5. /\ IsFiniteSet(H) /\ Cardinality(H) =< Cardinality(Allowed(q))
        /\ IsFiniteSet(Allowed(q))
        /\ Cardinality(Allowed(q)) =< TokensPerAC + SpareTokens
    BY <2>4, AllowedCount, FS_Injection
  <2>6. Cardinality(H) \in Nat /\ Cardinality(Allowed(q)) \in Nat
    BY <2>5, FS_CardinalityType
  <2> QED
    BY <2>1, <2>5, <2>6, TxConstants
<1> QED
  BY <1>1, SpecIInv, PTL
-----------------------------------------------------------------------------
(* Sums over a finite set, by SumFunctionOnSet.  What holds of the sum over *)
(* every finite set is shown by the principle of the least counterexample. *)

\* A nonempty set of natural numbers has a least member.
LEMMA LeastNumber ==
    ASSUME NEW T, T \subseteq Nat, T # {}
    PROVE  \E x \in T : \A y \in T : x =< y
<1> DEFINE R == OpToRel(<, Nat)
<1>1. IsWellFoundedOn(R, Nat)
  BY NatLessThanWellFounded
<1>2. PICK x \in T : \A y \in T : ~ (<<y, x>> \in R)
  <2> HIDE DEF R
  <2> QED
    BY <1>1, WFMin
<1>3. \A y \in T : ~(y < x)
  <2> SUFFICES ASSUME NEW y \in T, y < x PROVE FALSE
    OBVIOUS
  <2>1. <<y, x>> \in Nat \X Nat /\ <<y,x>>[1] < <<y,x>>[2]
    OBVIOUS
  <2>2. <<y, x>> \in R
    BY <2>1, Zenon DEF OpToRel
  <2> QED
    BY <1>2, <2>2
<1> QED
  BY <1>3

\* The recursion that SumFunctionOnSet is defined by.
Chosen(s) == CHOOSE x \in s : TRUE

SumRule(g, f, s) == IF s = {} THEN 0 ELSE f[Chosen(s)] + g[s \ {Chosen(s)}]

IsSum(g, f, S) == g = [s \in SUBSET S |-> SumRule(g, f, s)]

LEMMA ChosenIn ==
    ASSUME NEW s, s # {}
    PROVE  Chosen(s) \in s
  BY DEF Chosen

\* A subset of a finite set without one of its members.
LEMMA Smaller ==
    ASSUME NEW S, IsFiniteSet(S), NEW s \in SUBSET S
    PROVE  /\ IsFiniteSet(s) /\ Cardinality(s) \in Nat
           /\ Cardinality(s) =< Cardinality(S) /\ Cardinality(S) \in Nat
           /\ \A x \in s : /\ s \ {x} \in SUBSET S
                           /\ Cardinality(s \ {x}) = Cardinality(s) - 1
<1>1. IsFiniteSet(s) /\ Cardinality(s) =< Cardinality(S)
  BY FS_Subset
<1>2. Cardinality(s) \in Nat /\ Cardinality(S) \in Nat
  BY <1>1, FS_CardinalityType
<1>3. ASSUME NEW x \in s
      PROVE  s \ {x} \in SUBSET S /\ Cardinality(s \ {x}) = Cardinality(s) - 1
  BY <1>1, FS_RemoveElement
<1> QED
  BY <1>1, <1>2, <1>3

LEMMA SumExists ==
    ASSUME NEW S, IsFiniteSet(S), NEW f
    PROVE  \E g : IsSum(g, f, S)
<1> DEFINE Upto(n) == \E g : /\ g = [s \in SUBSET S |-> g[s]]
                             /\ \A s \in SUBSET S : Cardinality(s) =< n =>
                                  g[s] = SumRule(g, f, s)
           Bad == {n \in Nat : ~Upto(n)}
<1>1. Bad = {}
  <2> SUFFICES ASSUME Bad # {} PROVE FALSE
    OBVIOUS
  <2>1. PICK n \in Bad : \A m \in Bad : n =< m
    BY LeastNumber
  <2>2. CASE n = 0
    <3> DEFINE g == [s \in SUBSET S |-> 0]
    <3>1. \A s \in SUBSET S : Cardinality(s) =< 0 => g[s] = SumRule(g, f, s)
      <4> TAKE s \in SUBSET S
      <4>1. Cardinality(s) =< 0 => s = {}
        BY Smaller, FS_EmptySet
      <4> QED
        BY <4>1 DEF SumRule
    <3>2. g = [s \in SUBSET S |-> g[s]]
      OBVIOUS
    <3> HIDE DEF g
    <3>3. Upto(0)
      BY <3>1, <3>2
    <3> QED
      BY <2>2, <3>3
  <2>3. CASE n # 0
    <3>1. n - 1 \in Nat /\ Upto(n - 1)
      <4>1. n - 1 \in Nat /\ ~(n =< n - 1)
        BY <2>3
      <4> QED
        BY <2>1, <4>1
    <3>2. PICK g : /\ g = [s \in SUBSET S |-> g[s]]
                   /\ \A s \in SUBSET S : Cardinality(s) =< n - 1 =>
                        g[s] = SumRule(g, f, s)
      BY <3>1
    <3> DEFINE h == [s \in SUBSET S |-> SumRule(g, f, s)]
    <3>3. \A s \in SUBSET S : Cardinality(s) =< n => h[s] = SumRule(h, f, s)
      <4> SUFFICES ASSUME NEW s \in SUBSET S, Cardinality(s) =< n
                   PROVE  SumRule(g, f, s) = SumRule(h, f, s)
        OBVIOUS
      <4>1. CASE s = {}
        BY <4>1 DEF SumRule
      <4>2. CASE s # {}
        <5> DEFINE r == s \ {Chosen(s)}
        <5>1. r \in SUBSET S /\ Cardinality(r) =< n - 1
          BY <4>2, ChosenIn, Smaller
        <5>2. g[r] = SumRule(g, f, r) /\ h[r] = SumRule(g, f, r)
          BY <3>2, <5>1
        <5> HIDE DEF h
        <5> QED
          BY <4>2, <5>2 DEF SumRule
      <4> QED
        BY <4>1, <4>2
    <3>4. h = [s \in SUBSET S |-> h[s]]
      OBVIOUS
    <3> HIDE DEF h
    <3>5. Upto(n)
      BY <3>3, <3>4
    <3> QED
      BY <3>5
  <2> QED
    BY <2>2, <2>3
<1>2. Upto(Cardinality(S))
  BY <1>1, FS_CardinalityType
<1>3. PICK g : /\ g = [s \in SUBSET S |-> g[s]]
               /\ \A s \in SUBSET S : Cardinality(s) =< Cardinality(S) =>
                    g[s] = SumRule(g, f, s)
  BY <1>2
<1>4. \A s \in SUBSET S : g[s] = SumRule(g, f, s)
  BY <1>3, Smaller
<1>5. g = [s \in SUBSET S |-> SumRule(g, f, s)]
  BY <1>3, <1>4
<1> QED
  BY <1>5 DEF IsSum

LEMMA SumIs ==
    ASSUME NEW S, IsFiniteSet(S), NEW f
    PROVE  \E g : IsSum(g, f, S) /\ SumFunctionOnSet(f, S) = g[S]
<1> DEFINE g == CHOOSE h : IsSum(h, f, S)
<1>1. IsSum(g, f, S)
  BY SumExists
<1>2. SumFunctionOnSet(f, S) = g[S]
  BY Zenon DEF SumFunctionOnSet, FoldFunctionOnSet, MapThenFoldSet, IsSum,
     SumRule, Chosen
<1> QED
  BY <1>1, <1>2

\* What is added up does not depend on the order.
LEMMA SumAnyOrder ==
    ASSUME NEW S, IsFiniteSet(S), NEW f, \A x \in S : f[x] \in Nat,
           NEW g, IsSum(g, f, S)
    PROVE  \A s \in SUBSET S : /\ g[s] \in Nat
                               /\ \A x \in s : g[s] = f[x] + g[s \ {x}]
<1> DEFINE Good(s) == g[s] \in Nat /\ \A x \in s : g[s] = f[x] + g[s \ {x}]
           Bad == {n \in Nat : \E s \in SUBSET S : Cardinality(s) = n /\ ~Good(s)}
<1>1. \A s \in SUBSET S : g[s] = SumRule(g, f, s)
  BY DEF IsSum
<1>2. Bad = {}
  <2> SUFFICES ASSUME Bad # {} PROVE FALSE
    OBVIOUS
  <2>1. PICK n \in Bad : \A m \in Bad : n =< m
    BY LeastNumber
  <2>2. PICK s \in SUBSET S : Cardinality(s) = n /\ ~Good(s)
    BY <2>1
  <2>3. ASSUME NEW r \in SUBSET S, Cardinality(r) < n PROVE Good(r)
    BY <2>1, <2>3, Smaller
  <2>4. CASE s = {}
    <3>1. g[s] = 0
      BY <1>1, <2>4 DEF SumRule
    <3> QED
      BY <2>2, <2>4, <3>1
  <2>5. CASE s # {}
    <3> DEFINE c == Chosen(s)
    <3>1. c \in s /\ c \in S /\ g[s] = f[c] + g[s \ {c}]
      BY <1>1, <2>5, ChosenIn DEF SumRule
    <3> HIDE DEF c
    <3>2. \A x \in s : /\ x \in S /\ s \ {x} \in SUBSET S /\ f[x] \in Nat
                       /\ Good(s \ {x})
      <4> TAKE x \in s
      <4>1. s \ {x} \in SUBSET S /\ Cardinality(s \ {x}) < n
        BY <2>2, Smaller
      <4> HIDE DEF Good
      <4> QED
        BY <2>3, <4>1
    <3>3. g[s] \in Nat
      <4>1. f[c] \in Nat /\ g[s \ {c}] \in Nat
        BY <3>1, <3>2
      <4>2. \A m, l \in Nat : m + l \in Nat
        OBVIOUS
      <4> QED
        BY <3>1, <4>1, <4>2, Zenon
    <3>4. ASSUME NEW x \in s PROVE g[s] = f[x] + g[s \ {x}]
      <4>1. CASE x = c
        BY <3>1, <4>1
      <4>2. CASE x # c
        <5>1. g[s \ {c}] = f[x] + g[(s \ {c}) \ {x}]
          BY <3>1, <3>2, <4>2
        <5>2. g[s \ {x}] = f[c] + g[(s \ {x}) \ {c}]
          BY <3>1, <3>2, <4>2
        <5>3. (s \ {c}) \ {x} = (s \ {x}) \ {c}
          OBVIOUS
        <5>4. g[(s \ {x}) \ {c}] \in Nat
          <6>1. (s \ {x}) \ {c} \in SUBSET S /\ Cardinality((s \ {x}) \ {c}) < n
            <7>1. s \ {x} \in SUBSET S /\ c \in s \ {x}
              BY <3>1, <4>2
            <7>2. Cardinality((s \ {x}) \ {c}) = Cardinality(s \ {x}) - 1
                  /\ Cardinality(s \ {x}) = Cardinality(s) - 1
              BY <7>1, Smaller
            <7> QED
              BY <2>2, <7>1, <7>2, Smaller
          <6> QED
            BY <2>3, <6>1
        <5>5. f[c] \in Nat /\ f[x] \in Nat
          BY <3>1, <3>2
        <5>6. \A k, m, l \in Nat : k + (m + l) = m + (k + l)
          OBVIOUS
        <5>7. f[c] + (f[x] + g[(s \ {x}) \ {c}])
                = f[x] + (f[c] + g[(s \ {x}) \ {c}])
          BY <5>4, <5>5, <5>6, Zenon
        <5> QED
          BY <3>1, <5>1, <5>2, <5>3, <5>7, Zenon
      <4> QED
        BY <4>1, <4>2
    <3> QED
      BY <2>2, <3>3, <3>4
  <2> QED
    BY <2>4, <2>5
<1>3. ASSUME NEW s \in SUBSET S PROVE Good(s)
  BY <1>2, Smaller
<1> QED
  BY <1>3

\* The sum over a set does not depend on values elsewhere, nor on the set the
\* recursion began with.
LEMMA SumLocal ==
    ASSUME NEW S, IsFiniteSet(S), NEW f, NEW g, IsSum(g, f, S),
           NEW T, NEW h, NEW k, IsSum(k, h, T), S \subseteq T,
           \A x \in S : f[x] = h[x]
    PROVE  g[S] = k[S]
<1> DEFINE Bad == {n \in Nat : \E s \in SUBSET S : Cardinality(s) = n /\ g[s] # k[s]}
<1>1. \A s \in SUBSET S : g[s] = SumRule(g, f, s) /\ k[s] = SumRule(k, h, s)
  BY DEF IsSum
<1>2. Bad = {}
  <2> SUFFICES ASSUME Bad # {} PROVE FALSE
    OBVIOUS
  <2>1. PICK n \in Bad : \A m \in Bad : n =< m
    BY LeastNumber
  <2>2. PICK s \in SUBSET S : Cardinality(s) = n /\ g[s] # k[s]
    BY <2>1
  <2>3. CASE s = {}
    BY <1>1, <2>2, <2>3 DEF SumRule
  <2>4. CASE s # {}
    <3> DEFINE r == s \ {Chosen(s)}
    <3>1. Chosen(s) \in s /\ r \in SUBSET S /\ Cardinality(r) < n /\ Cardinality(r) \in Nat
      BY <2>2, <2>4, ChosenIn, Smaller
    <3>2. g[r] = k[r]
      <4> HIDE DEF r
      <4>1. Cardinality(r) \notin Bad
        BY <2>1, <3>1
      <4> QED
        BY <3>1, <4>1
    <3>3. f[Chosen(s)] = h[Chosen(s)]
      BY <3>1
    <3> QED
      BY <1>1, <2>2, <2>4, <3>2, <3>3 DEF SumRule
  <2> QED
    BY <2>3, <2>4
<1> QED
  BY <1>2, Smaller

LEMMA SumType ==
    ASSUME NEW S, IsFiniteSet(S), NEW f, \A x \in S : f[x] \in Nat
    PROVE  SumFunctionOnSet(f, S) \in Nat
<1>1. PICK g : IsSum(g, f, S) /\ SumFunctionOnSet(f, S) = g[S]
  BY SumIs
<1> QED
  BY <1>1, SumAnyOrder

\* Functions that agree on a set have the same sum over it.
LEMMA SumAgree ==
    ASSUME NEW S, IsFiniteSet(S), NEW f, NEW h, \A x \in S : f[x] = h[x]
    PROVE  SumFunctionOnSet(f, S) = SumFunctionOnSet(h, S)
<1>1. PICK g : IsSum(g, f, S) /\ SumFunctionOnSet(f, S) = g[S]
  BY SumIs
<1>2. PICK k : IsSum(k, h, S) /\ SumFunctionOnSet(h, S) = k[S]
  BY SumIs
<1> QED
  BY <1>1, <1>2, SumLocal

\* One member of the set can be counted apart.
LEMMA SumSplit ==
    ASSUME NEW S, IsFiniteSet(S), NEW f, \A x \in S : f[x] \in Nat, NEW t \in S
    PROVE  /\ SumFunctionOnSet(f, S) = f[t] + SumFunctionOnSet(f, S \ {t})
           /\ SumFunctionOnSet(f, S \ {t}) \in Nat
<1>1. PICK g : IsSum(g, f, S) /\ SumFunctionOnSet(f, S) = g[S]
  BY SumIs
<1>2. IsFiniteSet(S \ {t})
  BY FS_RemoveElement
<1>3. PICK k : IsSum(k, f, S \ {t}) /\ SumFunctionOnSet(f, S \ {t}) = k[S \ {t}]
  BY <1>2, SumIs
<1>4. k[S \ {t}] = g[S \ {t}]
  BY <1>1, <1>2, <1>3, SumLocal
<1>5. g[S] = f[t] + g[S \ {t}]
  BY <1>1, SumAnyOrder
<1> QED
  BY <1>1, <1>2, <1>3, <1>4, <1>5, SumType

\* Members at which f is 0 add nothing, and a part has no greater sum.
LEMMA SumPart ==
    ASSUME NEW T, IsFiniteSet(T), NEW f, \A x \in T : f[x] \in Nat,
           NEW S \in SUBSET T
    PROVE  /\ SumFunctionOnSet(f, S) =< SumFunctionOnSet(f, T)
           /\ (\A x \in T \ S : f[x] = 0) =>
                SumFunctionOnSet(f, S) = SumFunctionOnSet(f, T)
<1> DEFINE Sum(U) == SumFunctionOnSet(f, U)
           Good(U) == /\ Sum(S) =< Sum(U)
                      /\ (\A x \in U \ S : f[x] = 0) => Sum(S) = Sum(U)
           Bad == {n \in Nat : \E U \in SUBSET T :
                                 S \subseteq U /\ Cardinality(U) = n /\ ~Good(U)}
<1>1. \A U \in SUBSET T : Sum(U) \in Nat
  BY Smaller, SumType
<1>2. Bad = {}
  <2> SUFFICES ASSUME Bad # {} PROVE FALSE
    OBVIOUS
  <2>1. PICK n \in Bad : \A m \in Bad : n =< m
    BY LeastNumber
  <2>2. PICK U \in SUBSET T : S \subseteq U /\ Cardinality(U) = n /\ ~Good(U)
    BY <2>1
  <2>3. CASE U = S
    BY <1>1, <2>2, <2>3
  <2>4. CASE U # S
    <3>1. PICK x \in U : x \notin S
      BY <2>2, <2>4
    <3> DEFINE V == U \ {x}
    <3>2. V \in SUBSET T /\ S \subseteq V /\ Cardinality(V) \in Nat /\ Cardinality(V) < n
      <4>1. V \in SUBSET T /\ S \subseteq V
        BY <2>2, <3>1
      <4>2. Cardinality(V) = Cardinality(U) - 1 /\ Cardinality(U) \in Nat
        BY <3>1, Smaller
      <4>3. Cardinality(V) \in Nat
        BY <4>1, Smaller
      <4> QED
        BY <2>2, <4>1, <4>2, <4>3
    <3>3. Sum(U) = f[x] + Sum(V) /\ f[x] \in Nat
      <4>1. IsFiniteSet(U) /\ \A y \in U : f[y] \in Nat
        BY Smaller
      <4> QED
        BY <4>1, SumSplit
    <3>4. \A y \in V \ S : y \in U \ S
      OBVIOUS
    <3>6. x \in U \ S
      BY <3>1
    <3> HIDE DEF V
    <3>5. Good(V)
      <4> HIDE DEF Good
      <4>1. Cardinality(V) \notin Bad
        BY <2>1, <3>2
      <4> QED
        BY <3>2, <4>1
    <3> HIDE DEF Sum
    <3> QED
      BY <1>1, <2>2, <3>2, <3>3, <3>4, <3>5, <3>6
  <2> QED
    BY <2>3, <2>4
<1>3. Good(T)
  <2> HIDE DEF Good
  <2> QED
    BY <1>2, Smaller
<1> QED
  BY <1>3

-----------------------------------------------------------------------------
(* The frames that the firmware is given at once.                          *)

\* The frames of all tokens but t.
OthersOf(t) == SumFunctionOnSet(outstandingPkts, Tokens \ {t})

\* Only token BCN is ever filled when the others use up the budget, so the
\* other tokens stay within it, and all tokens exceed it by one at most.
LoadInv == /\ OthersOf(BCN) =< MaxFwPkts
           /\ SumFunctionOnSet(outstandingPkts, Tokens) =< MaxFwPkts + 1

\* Token t is given n frames: none, as many as the budget leaves, or one that
\* is exempt from it.
LoadStep(t, n) ==
    /\ outstandingPkts' = [outstandingPkts EXCEPT ![t] = n]
    /\ \/ n = 0
       \/ OthersOf(t) + n =< MaxFwPkts
       \/ t = BCN /\ n = 1

LEMMA TokensFinite ==
    /\ IsFiniteSet(Tokens) /\ BCN \in Tokens
    /\ \A t \in Tokens : IsFiniteSet(Tokens \ {t})
<1>1. IsFiniteSet(Tokens)
  BY TokenNumbers, FS_Interval DEF Tokens
<1>2. BCN \in Tokens
  <2>1. BCN + NumACs * 0 \in Reserved(BCN) /\ BCN + NumACs * 0 = BCN
    BY TxConstants DEF BCN, Reserved
  <2> QED
    BY <2>1, TokenNumbers, ReservedTokens DEF Tokens
<1>3. \A t \in Tokens : IsFiniteSet(Tokens \ {t})
  BY <1>1, FS_RemoveElement
<1> QED
  BY <1>1, <1>2, <1>3

\* Giving a token frames within the budget keeps the bounds.
LEMMA LoadStepKeepsLoadInv ==
    ASSUME TypeOK, LoadInv, NEW t \in Tokens, NEW n \in Nat, LoadStep(t, n)
    PROVE  LoadInv'
<1> DEFINE Sum(f, S) == SumFunctionOnSet(f, S)
           old == outstandingPkts
           new == outstandingPkts'
<1>1. /\ \A u \in Tokens : old[u] \in Nat /\ new[u] \in Nat
      /\ \A u \in Tokens \ {t} : new[u] = old[u]
      /\ new[t] = n
  BY DEF TypeOK, LoadStep
<1> HIDE DEF old, new
<1>2. /\ Sum(new, Tokens) = n + Sum(new, Tokens \ {t})
      /\ Sum(old, Tokens) = old[t] + Sum(old, Tokens \ {t})
      /\ Sum(new, Tokens \ {t}) \in Nat
  BY <1>1, TokensFinite, SumSplit
<1>3. Sum(new, Tokens \ {t}) = Sum(old, Tokens \ {t})
  BY <1>1, TokensFinite, SumAgree
<1>4. /\ Sum(old, Tokens \ {BCN}) =< MaxFwPkts
      /\ Sum(old, Tokens) =< MaxFwPkts + 1 /\ MaxFwPkts \in Nat
  BY TxConstants DEF LoadInv, OthersOf, old
<1>5. CASE n = 0
  <2>1. Sum(new, Tokens) =< MaxFwPkts + 1
    BY <1>1, <1>2, <1>3, <1>4, <1>5
  <2>2. CASE t = BCN
    BY <1>3, <1>4, <2>1, <2>2 DEF LoadInv, OthersOf, new
  <2>3. CASE t # BCN
    <3> DEFINE S == Tokens \ {BCN}
    <3>1. IsFiniteSet(S) /\ t \in S /\ S \subseteq Tokens
      BY <2>3, TokensFinite
    <3> HIDE DEF S
    <3>2. /\ Sum(new, S) = n + Sum(new, S \ {t}) /\ Sum(old, S) = old[t] + Sum(old, S \ {t})
          /\ Sum(old, S \ {t}) \in Nat
      BY <1>1, <3>1, SumSplit
    <3>3. Sum(new, S \ {t}) = Sum(old, S \ {t})
      <4>1. IsFiniteSet(S \ {t}) /\ \A u \in S \ {t} : new[u] = old[u]
        BY <1>1, <3>1, FS_RemoveElement
      <4> QED
        BY <4>1, SumAgree
    <3>4. old[t] \in Nat
      BY <1>1
    <3>5. Sum(old, S) =< MaxFwPkts
      BY <1>4 DEF S
    <3> HIDE DEF Sum
    <3>6. Sum(new, S) =< MaxFwPkts
      BY <1>4, <1>5, <3>2, <3>3, <3>4, <3>5
    <3> QED
      BY <2>1, <3>6 DEF LoadInv, OthersOf, new, S, Sum
  <2> QED
    BY <2>2, <2>3
<1>6. CASE OthersOf(t) + n =< MaxFwPkts
  <2>1. Sum(new, Tokens) =< MaxFwPkts
    BY <1>2, <1>3, <1>6 DEF OthersOf, old
  <2>2. /\ Sum(new, Tokens \ {BCN}) =< Sum(new, Tokens)
        /\ Sum(new, Tokens \ {BCN}) \in Nat /\ Sum(new, Tokens) \in Nat
    BY <1>1, TokensFinite, SumPart, SumType
  <2>3. Sum(new, Tokens \ {BCN}) =< MaxFwPkts /\ Sum(new, Tokens) =< MaxFwPkts + 1
    <3> HIDE DEF Sum
    <3> QED
      BY <1>4, <2>1, <2>2
  <2> QED
    BY <2>3 DEF LoadInv, OthersOf, new
<1>7. CASE t = BCN /\ n = 1
  <2>1. Sum(new, Tokens \ {BCN}) =< MaxFwPkts
    BY <1>3, <1>4, <1>7
  <2>2. Sum(new, Tokens) =< MaxFwPkts + 1
    <3> HIDE DEF Sum
    <3> QED
      BY <1>2, <1>4, <1>7, <2>1
  <2> QED
    BY <2>1, <2>2 DEF LoadInv, OthersOf, new
<1> QED
  BY <1>5, <1>6, <1>7 DEF LoadStep

\* What IsBatchLen allows for an empty token that passed HasBudget is within
\* the budget, or the one exempt frame: get_outstanding_pkts adds up the
\* claimed tokens only, and the others have no frames.
LEMMA BatchWithinBudget ==
    ASSUME TypeOK, TokenInv, NEW t \in Tokens, NEW q \in Seq(Frames),
           NEW n \in 0 .. Len(q), HasBudget(t), IsBatchLen(n, q, 0, t)
    PROVE  OthersOf(t) + n =< MaxFwPkts \/ (t = BCN /\ n = 1)
<1> DEFINE others == SumFunctionOnSet(outstandingPkts, bufPool \ {t})
<1>1. others = OthersOf(t) /\ others \in Nat
  <2>1. \A u \in Tokens \ {t} : outstandingPkts[u] \in Nat
    BY DEF TypeOK
  <2>2. bufPool \ {t} \in SUBSET (Tokens \ {t})
    BY DEF TypeOK
  <2>3. \A u \in (Tokens \ {t}) \ (bufPool \ {t}) : outstandingPkts[u] = 0
    BY EmptySeq DEF TokenInv
  <2>4. others = OthersOf(t)
    BY <2>1, <2>2, <2>3, TokensFinite, SumPart DEF OthersOf
  <2> QED
    BY <2>1, <2>4, TokensFinite, SumType DEF OthersOf
<1>2. FreePkts(t) = IF others >= MaxFwPkts THEN 0 ELSE MaxFwPkts - others
  BY DEF FreePkts
<1> HIDE DEF others
<1>3. n \in Nat /\ MaxFwPkts \in Nat
  BY LenProperties, TxConstants
<1>4. 0 + n =< FreePkts(t) \/ n = 1
  BY DEF IsBatchLen, Fits
<1>5. n > 0
  BY <1>3 DEF IsBatchLen
<1> QED
  BY <1>1, <1>2, <1>3, <1>4, <1>5 DEF HasBudget

\* A token without frames that rpu_tx_proc_pend_frms serves takes such a step.
LEMMA ServedWithinBudget ==
    ASSUME TypeOK, TokenInv, NEW pend \in PendingQueues, NEW bmp, NEW hw,
           NEW acs \in SUBSET ACs, NEW ac \in acs, NEW t \in Tokens,
           ProcServes(pend, <<>>, bmp, hw, acs, ac, t)
    PROVE  \E n \in Nat : LoadStep(t, n)
<1>1. HasBudget(t) /\ Len(<<>>) = 0
  BY EmptySeq DEF ProcServes
<1>2. PICK p \in Peers : \E n \in 0 .. Len(pend[p][ac]) :
        /\ IsBatchLen(n, pend[p][ac], Len(<<>>), t)
        /\ outstandingPkts' = [outstandingPkts EXCEPT ![t] = Len(<<>>) + n]
  BY Zenon DEF ProcServes
<1>3. PICK n \in 0 .. Len(pend[p][ac]) :
        /\ IsBatchLen(n, pend[p][ac], Len(<<>>), t)
        /\ outstandingPkts' = [outstandingPkts EXCEPT ![t] = Len(<<>>) + n]
  BY <1>2
<1>4. pend[p][ac] \in Seq(Frames) /\ n \in Nat /\ Len(<<>>) + n = n
  <2>1. pend[p][ac] \in Seq(Frames)
    BY DEF PendingQueues
  <2> QED
    BY <1>1, <2>1, LenProperties
<1>5. OthersOf(t) + n =< MaxFwPkts \/ (t = BCN /\ n = 1)
  BY <1>1, <1>3, <1>4, BatchWithinBudget
<1> QED
  BY <1>3, <1>4, <1>5 DEF LoadStep

Loads ==
    \/ \E t \in Tokens : \E n \in Nat : LoadStep(t, n)
    \/ UNCHANGED outstandingPkts

\* Every step of TxTokens fills or empties one token so, or none.
LEMMA NextLoadStep ==
    ASSUME IInv, [Next]_vars
    PROVE  Loads
<1>1. TypeOK /\ PoolInv /\ TokenInv /\ pendingPkt \in PendingQueues
  BY DEF IInv, TypeOK, PendingQueues
<1>2. ASSUME NEW t \in Tokens, outstandingPkts' = NoPkts(t) PROVE Loads
  BY <1>2 DEF NoPkts, LoadStep, Loads
<1>3. ASSUME NEW f \in Frames, TxFrame(f) PROVE Loads
  <2> DEFINE ac   == AC[f]
             q    == Queued(f)
             pend == [pendingPkt EXCEPT ![Peer[f]][ac] = q]
  <2>1. ac \in ACs /\ {ac} \in SUBSET ACs /\ pend \in PendingQueues
    <3>1. ac \in ACs /\ Peer[f] \in Peers
      BY FrameTypes
    <3>2. q \in Seq(Frames)
      <4>1. pendingPkt[Peer[f]][ac] \in Seq(Frames)
        BY <1>1, <3>1 DEF TypeOK
      <4> QED
        BY <4>1, AppendProperties DEF Queued
    <3> HIDE DEF q
    <3> QED
      BY <1>1, <3>1, <3>2 DEF PendingQueues
  <2>2. \/ UNCHANGED outstandingPkts
        \/ \E t \in FreeTokens(ac) : outstandingPkts' = NoPkts(t)
        \/ \E t \in FreeTokens(ac) : \E bmp, hw :
              ProcServes(pend, pkt[t], bmp, hw, {ac}, ac, t)
    BY <1>3, Zenon DEF TxFrame
  <2> HIDE DEF pend
  <2>3. \A t \in FreeTokens(ac) : t \in Tokens /\ pkt[t] = <<>>
    BY <1>1, <2>1, FreeTokenAllowed DEF TokenInv
  <2>4. ASSUME NEW t \in FreeTokens(ac), NEW bmp, NEW hw,
               ProcServes(pend, pkt[t], bmp, hw, {ac}, ac, t)
        PROVE  Loads
    <3>1. ac \in {ac} /\ ProcServes(pend, <<>>, bmp, hw, {ac}, ac, t)
      BY <2>3, <2>4 DEF Loads
    <3>2. \E n \in Nat : LoadStep(t, n)
      BY <1>1, <2>1, <2>3, <3>1, ServedWithinBudget
    <3> QED
      BY <2>3, <3>2 DEF Loads
  <2>5. CASE \E t \in FreeTokens(ac) : outstandingPkts' = NoPkts(t)
    BY <1>2, <2>3, <2>5
  <2>6. CASE UNCHANGED outstandingPkts
    BY <2>6 DEF Loads
  <2> QED
    BY <2>2, <2>4, <2>5, <2>6
<1>4. ASSUME NEW d \in descs, RpuTxFreeBuffReq(d) PROVE Loads
  <2> DEFINE t   == d.token
             acs == Serves(t, d.queue)
  <2>1. t \in Tokens /\ acs \in SUBSET ACs
    BY <1>1, RefillAllowed DEF PoolInv, Desc
  <2>2. \/ outstandingPkts' = NoPkts(t)
        \/ \E ac \in acs : ProcServes(pendingPkt, <<>>, queueStoppedBmp,
                                      hwStopped, acs, ac, t)
    BY <1>4, Zenon DEF RpuTxFreeBuffReq
  <2> HIDE DEF t, acs
  <2>3. ASSUME NEW ac \in acs,
               ProcServes(pendingPkt, <<>>, queueStoppedBmp, hwStopped, acs, ac, t)
        PROVE  Loads
    BY <1>1, <2>1, <2>3, ServedWithinBudget DEF Loads
  <2> QED
    BY <1>2, <2>1, <2>2, <2>3
<1>5. CASE UnblockToken
  <2> DEFINE t   == unblock.i
             acs == Serves(t, t % NumACs)
  <2>1. t \in Tokens
    BY <1>1, <1>5, TokenNumbers DEF UnblockToken, TypeOK, UnblockPC, Tokens
  <2>2. acs \in SUBSET ACs
    BY <2>1, UnblockAllowed
  <2>3. \/ UNCHANGED outstandingPkts
        \/ /\ t \notin bufPool
           /\ \E ac \in acs : ProcServes(pendingPkt, pkt[t], queueStoppedBmp,
                                         hwStopped, acs, ac, t)
    BY <1>5, Zenon DEF UnblockToken, IsFree, frameVars
  <2> HIDE DEF t, acs
  <2>4. ASSUME NEW ac \in acs, t \notin bufPool,
               ProcServes(pendingPkt, pkt[t], queueStoppedBmp, hwStopped, acs, ac, t)
        PROVE  Loads
    <3>1. pkt[t] = <<>>
      BY <1>1, <2>1, <2>4 DEF TokenInv
    <3>2. ProcServes(pendingPkt, <<>>, queueStoppedBmp, hwStopped, acs, ac, t)
      BY <2>4, <3>1
    <3> QED
      BY <1>1, <2>1, <2>2, <3>2, ServedWithinBudget DEF Loads
  <2> QED
    BY <2>3, <2>4 DEF Loads
<1>6. CASE \/ BlockAll \/ UnblockAll \/ UnblockWake \/ UnblockLoad \/ UnblockStore
           \/ (\E d \in descs : RpuProgTx(d)) \/ (\E r \in reports : Report(r))
           \/ UNCHANGED vars
  BY <1>6 DEF BlockAll, UnblockAll, UnblockWake, UnblockLoad, UnblockStore,
     RpuProgTx, Report, vars, frameVars, Loads
<1>7. CASE \E d \in descs : RpuTxFreeBuffReq(d)
  BY <1>4, <1>7
<1>8. CASE \E f \in Frames : TxFrame(f)
  BY <1>3, <1>8
<1> QED
  BY <1>5, <1>6, <1>7, <1>8 DEF Next, Progress

\* No token has frames at the start.
LEMMA InitLoadInv == Init => LoadInv
<1> SUFFICES ASSUME Init PROVE LoadInv
  OBVIOUS
<1> DEFINE f == outstandingPkts
<1>1. \A t \in Tokens : f[t] = 0
  BY DEF Init
<1>2. SumFunctionOnSet(f, {}) = 0
  <2>1. PICK g : IsSum(g, f, {}) /\ SumFunctionOnSet(f, {}) = g[{}]
    BY FS_EmptySet, SumIs
  <2> QED
    BY <2>1 DEF IsSum, SumRule
<1> HIDE DEF f
<1>3. ASSUME NEW S \in SUBSET Tokens PROVE SumFunctionOnSet(f, S) = 0
  <2>1. IsFiniteSet(S) /\ {} \in SUBSET S
    BY TokensFinite, FS_Subset
  <2>2. \A t \in S : f[t] \in Nat /\ f[t] = 0
    BY <1>1
  <2> QED
    BY <1>2, <2>1, <2>2, SumPart
<1>4. OthersOf(BCN) = 0 /\ SumFunctionOnSet(outstandingPkts, Tokens) = 0
  BY <1>3 DEF OthersOf, f
<1> QED
  BY <1>4, TxConstants DEF LoadInv

\* Both invariants hold in every reachable state.
THEOREM SpecLoadInv == Spec => [](IInv /\ LoadInv)
<1>1. Init => IInv /\ LoadInv
  BY InitIInv, InitLoadInv
<1>2. (IInv /\ LoadInv) /\ [Next]_vars => (IInv /\ LoadInv)'
  <2> SUFFICES ASSUME IInv, LoadInv, [Next]_vars PROVE LoadInv'
    BY NextIInv
  <2>1. CASE \E t \in Tokens : \E n \in Nat : LoadStep(t, n)
    BY <2>1, LoadStepKeepsLoadInv DEF IInv
  <2>2. CASE UNCHANGED outstandingPkts
    BY <2>2 DEF LoadInv, OthersOf
  <2> QED
    BY <2>1, <2>2, NextLoadStep DEF Loads
<1> QED
  BY <1>1, <1>2, PTL DEF Spec

\* The firmware never holds more frames than MAX_FW_TX_PKGS and the one the
\* budget exempts: the limit is tested token by token, over claimed tokens
\* only, and yet bounds the sum over all tokens, for any number of them.
THEOREM FirmwareBudgetKept == Spec => []FwLoadBounded
<1>1. IInv /\ LoadInv => FwLoadBounded
  BY DEF IInv, LoadInv, TypeOK, FwLoadBounded, SumFunction
<1> QED
  BY <1>1, SpecLoadInv, PTL

-----------------------------------------------------------------------------
(* The frames: where they are, in what order they leave, in what batches.  *)

Batches == [Tokens -> Seq(Frames)]

-----------------------------------------------------------------------------
(* What a step does to the frames.                                         *)

\* Token t is given a batch off one of the queues of pend, or none has one.
Fill(pend, pk, t) ==
    \/ pendingPkt' = pend /\ pkt' = pk
    \/ \E p \in Peers, a \in ACs : \E n \in 1 .. Len(pend[p][a]) :
         LET q == pend[p][a]
         IN  /\ pendingPkt' = [pend EXCEPT ![p][a] = Rest(q, n)]
             /\ pkt' = [pk EXCEPT ![t] = SubSeq(q, 1, n)]
             /\ n > 1 => /\ n =< MaxTxCmds
                         /\ \A i \in 1 .. n : Aggregates(q[i], q[1])

\* The queues with f at the tail of its own.
Entered(f) == [pendingPkt EXCEPT ![Peer[f]][AC[f]] = Queued(f)]

\* The batches without that of token t.
Emptied(t) == [pkt EXCEPT ![t] = <<>>]

FrameStep ==
    \/ \E f \in unsent :
         /\ \A g \in unsent : SameFlow(f, g) => f =< g
         /\ unsent' = unsent \ {f} /\ UNCHANGED <<reports, reported>>
         /\ \/ pendingPkt' = Entered(f) /\ pkt' = pkt
            \/ \E t \in Tokens : pkt[t] = <<>> /\ Fill(Entered(f), pkt, t)
    \/ \E t \in Tokens, by \in {"tx", "rx"}, refilled \in BOOLEAN :
         /\ CutOff(t, by, refilled) /\ UNCHANGED <<unsent, reported>>
         /\ Fill(pendingPkt, Emptied(t), t)
    \/ \E t \in Tokens :
         /\ pkt[t] = <<>> /\ UNCHANGED <<unsent, reports, reported>>
         /\ Fill(pendingPkt, pkt, t)
    \/ \E r \in reports :
         /\ reports' = reports \ {r} /\ reported' = TxStatus(r.list)
         /\ UNCHANGED <<unsent, pendingPkt, pkt>>
    \/ UNCHANGED <<unsent, pendingPkt, pkt, reports, reported>>

\* rpu_tx_proc_pend_frms gives an empty token a batch or leaves it empty.
LEMMA ProcFills ==
    ASSUME NEW pend \in PendingQueues, NEW bmp, NEW hw,
           NEW acs \in SUBSET ACs, NEW t \in Tokens, pkt \in Batches
    PROVE  /\ ProcNone(pend, <<>>, bmp, hw, acs, t) => Fill(pend, Emptied(t), t)
           /\ \A ac \in acs : ProcServes(pend, <<>>, bmp, hw, acs, ac, t) =>
                                Fill(pend, Emptied(t), t)
<1>1. ASSUME ProcNone(pend, <<>>, bmp, hw, acs, t)
      PROVE  Fill(pend, Emptied(t), t)
  BY <1>1 DEF ProcNone, Fill, Emptied
<1>2. ASSUME NEW ac \in acs, ProcServes(pend, <<>>, bmp, hw, acs, ac, t)
      PROVE  Fill(pend, Emptied(t), t)
  <2>1. PICK p \in Peers : \E n \in 0 .. Len(pend[p][ac]) :
          /\ IsBatchLen(n, pend[p][ac], Len(<<>>), t)
          /\ pendingPkt' = [pend EXCEPT ![p][ac] = Rest(pend[p][ac], n)]
          /\ pkt' = [pkt EXCEPT ![t] = <<>> \o SubSeq(pend[p][ac], 1, n)]
    BY <1>2, Zenon DEF ProcServes
  <2> DEFINE q == pend[p][ac]
  <2>2. PICK n \in 0 .. Len(q) :
          /\ IsBatchLen(n, q, Len(<<>>), t)
          /\ pendingPkt' = [pend EXCEPT ![p][ac] = Rest(q, n)]
          /\ pkt' = [pkt EXCEPT ![t] = <<>> \o SubSeq(q, 1, n)]
    BY <2>1
  <2>3. ac \in ACs /\ q \in Seq(Frames)
    BY DEF PendingQueues
  <2>4. Len(<<>>) = 0 /\ Len(q) \in Nat
    BY <2>3, LenProperties
  <2>5. SubSeq(q, 1, n) \in Seq(Frames) /\ <<>> \o SubSeq(q, 1, n) = SubSeq(q, 1, n)
    BY <2>3, BatchTypes, ConcatEmptySeq
  <2>6. pkt' = [Emptied(t) EXCEPT ![t] = SubSeq(q, 1, n)]
    BY <2>2, <2>5 DEF Emptied, Batches
  <2> HIDE DEF q
  <2>7. /\ n \in 1 .. Len(q)
        /\ n > 1 => /\ n =< MaxTxCmds
                    /\ \A i \in 1 .. n : Aggregates(q[i], q[1])
    BY <2>2, <2>4, TxConstants DEF IsBatchLen, Fits
  <2> QED
    BY <2>2, <2>3, <2>6, <2>7 DEF Fill, q
<1> QED
  BY <1>1, <1>2

\* A token that is empty already stays what it is.
LEMMA EmptiedAlready ==
    ASSUME pkt \in Batches, NEW t \in Tokens, pkt[t] = <<>>
    PROVE  Emptied(t) = pkt
  BY DEF Emptied, Batches

LEMMA TxFrameSteps ==
    ASSUME IInv, NEW f \in Frames, TxFrame(f)
    PROVE  FrameStep
<1> DEFINE ac   == AC[f]
           q    == Queued(f)
           pend == [pendingPkt EXCEPT ![Peer[f]][ac] = q]
<1>1. TypeOK /\ TokenInv /\ pkt \in Batches
  BY DEF IInv, TypeOK, Batches
<1>2. /\ f \in unsent /\ unsent' = unsent \ {f} /\ UNCHANGED <<reports, reported>>
      /\ \A g \in unsent : AC[g] = ac /\ Peer[g] = Peer[f] => f =< g
  BY DEF TxFrame
<1>3. \A g \in unsent : SameFlow(f, g) => f =< g
  <2> SUFFICES ASSUME NEW g \in unsent, SameFlow(f, g) PROVE f =< g
    OBVIOUS
  <2>1. g \in Frames
    BY <1>1 DEF TypeOK
  <2>2. <<AC[f], Peer[f]>> = <<AC[g], Peer[g]>>
    BY <2>1 DEF SameFlow, Flow
  <2> QED
    BY <1>2, <2>2
<1>4. ac \in ACs /\ {ac} \in SUBSET ACs /\ pend = Entered(f) /\ pend \in PendingQueues
  <2>1. ac \in ACs /\ Peer[f] \in Peers
    BY FrameTypes
  <2>2. pendingPkt[Peer[f]][ac] \in Seq(Frames)
    BY <1>1, <2>1 DEF TypeOK
  <2>3. q \in Seq(Frames)
    BY <2>2, AppendProperties DEF Queued
  <2> HIDE DEF q
  <2>4. pend \in PendingQueues
    BY <1>1, <2>1, <2>3 DEF TypeOK, PendingQueues
  <2> QED
    BY <2>1, <2>4 DEF Entered, q
<1>5. \/ pendingPkt' = pend /\ pkt' = pkt
      \/ \E t \in FreeTokens(ac) : \E bmp, hw : ProcNone(pend, pkt[t], bmp, hw, {ac}, t)
      \/ \E t \in FreeTokens(ac) : \E bmp, hw :
            ProcServes(pend, pkt[t], bmp, hw, {ac}, ac, t)
  BY Zenon DEF TxFrame
<1>7. CASE pendingPkt' = pend /\ pkt' = pkt
  <2> HIDE DEF pend
  <2> QED
    BY <1>2, <1>3, <1>4, <1>7, Zenon DEF FrameStep
<1>8. ASSUME NEW t \in FreeTokens(ac), NEW bmp, NEW hw,
             \/ ProcNone(pend, pkt[t], bmp, hw, {ac}, t)
             \/ ProcServes(pend, pkt[t], bmp, hw, {ac}, ac, t)
      PROVE  FrameStep
  <2>1. t \in Tokens /\ pkt[t] = <<>>
    BY <1>1, <1>4, FreeTokenAllowed DEF TokenInv
  <2>2. Fill(pend, Emptied(t), t)
    <3> HIDE DEF pend
    <3> QED
      BY <1>1, <1>4, <1>8, <2>1, ProcFills
  <2>3. Fill(Entered(f), pkt, t)
    BY <1>1, <1>4, <2>1, <2>2, EmptiedAlready
  <2> QED
    BY <1>2, <1>3, <2>1, <2>3, Zenon DEF FrameStep
<1> QED
  BY <1>5, <1>7, <1>8, Zenon

LEMMA RpuTxFreeBuffReqSteps ==
    ASSUME IInv, NEW d, RpuTxFreeBuffReq(d)
    PROVE  FrameStep
<1> DEFINE t   == d.token
           by  == IF d.at = "sent" THEN "rx" ELSE d.by
           acs == Serves(t, d.queue)
<1>1. TypeOK /\ PoolInv /\ d \in descs /\ pkt \in Batches
      /\ pendingPkt \in PendingQueues
  BY DEF IInv, RpuTxFreeBuffReq, TypeOK, Batches, PendingQueues
<1>2. t \in Tokens /\ by \in {"tx", "rx"} /\ d.queue \in ACs
      /\ t \in Allowed(d.queue)
  BY <1>1 DEF PoolInv, Desc
<1>3. acs \in SUBSET ACs
  BY <1>2, RefillAllowed
<1>4. UNCHANGED <<unsent, reported>>
  BY DEF RpuTxFreeBuffReq
<1>5. \/ /\ CutOff(t, by, FALSE)
         /\ ProcNone(pendingPkt, <<>>, queueStoppedBmp, hwStopped, acs, t)
      \/ \E ac \in acs :
         /\ CutOff(t, by, TRUE)
         /\ ProcServes(pendingPkt, <<>>, queueStoppedBmp, hwStopped, acs, ac, t)
  BY Zenon DEF RpuTxFreeBuffReq
<1> HIDE DEF t, by, acs
<1>6. Fill(pendingPkt, Emptied(t), t)
  BY <1>1, <1>2, <1>3, <1>5, ProcFills
<1>7. \E refilled \in BOOLEAN : CutOff(t, by, refilled)
  BY <1>5
<1> QED
  BY <1>2, <1>4, <1>6, <1>7 DEF FrameStep

LEMMA UnblockTokenSteps ==
    ASSUME IInv, UnblockToken
    PROVE  FrameStep
<1> DEFINE t   == unblock.i
           acs == Serves(t, t % NumACs)
<1>1. TypeOK /\ TokenInv /\ pkt \in Batches /\ pendingPkt \in PendingQueues
  BY DEF IInv, TypeOK, Batches, PendingQueues
<1>2. t \in Tokens
  BY <1>1, TokenNumbers DEF UnblockToken, TypeOK, UnblockPC, Tokens
<1>3. acs \in SUBSET ACs
  BY <1>2, UnblockAllowed
<1>4. UNCHANGED <<unsent, reports, reported>>
  BY DEF UnblockToken
<1>5. \/ UNCHANGED <<pendingPkt, pkt>>
      \/ /\ t \notin bufPool
         /\ \/ ProcNone(pendingPkt, pkt[t], queueStoppedBmp, hwStopped, acs, t)
            \/ \E ac \in acs : ProcServes(pendingPkt, pkt[t], queueStoppedBmp,
                                          hwStopped, acs, ac, t)
  BY Zenon DEF UnblockToken, IsFree, frameVars
<1> HIDE DEF t, acs
<1>6. CASE UNCHANGED <<pendingPkt, pkt>>
  BY <1>4, <1>6 DEF FrameStep
<1>7. CASE t \notin bufPool
           /\ \/ ProcNone(pendingPkt, pkt[t], queueStoppedBmp, hwStopped, acs, t)
              \/ \E ac \in acs : ProcServes(pendingPkt, pkt[t], queueStoppedBmp,
                                            hwStopped, acs, ac, t)
  <2>1. pkt[t] = <<>>
    BY <1>1, <1>2, <1>7 DEF TokenInv
  <2>2. Fill(pendingPkt, Emptied(t), t)
    BY <1>1, <1>2, <1>3, <1>7, <2>1, ProcFills
  <2> QED
    BY <1>1, <1>2, <1>4, <2>1, <2>2, EmptiedAlready DEF FrameStep
<1> QED
  BY <1>5, <1>6, <1>7

\* Every step of TxTokens does one of these things to the frames.
LEMMA NextFrameStep == IInv /\ [Next]_vars => FrameStep
<1> SUFFICES ASSUME IInv, [Next]_vars PROVE FrameStep
  OBVIOUS
<1>1. CASE \E f \in Frames : TxFrame(f)
  BY <1>1, TxFrameSteps
<1>2. CASE \E d \in descs : RpuTxFreeBuffReq(d)
  BY <1>2, RpuTxFreeBuffReqSteps
<1>3. CASE \E r \in reports : Report(r)
  BY <1>3 DEF Report, FrameStep, frameVars
<1>4. CASE UnblockToken
  BY <1>4, UnblockTokenSteps
<1>5. CASE \/ BlockAll \/ UnblockAll \/ UnblockWake \/ UnblockLoad \/ UnblockStore
           \/ \E d \in descs : RpuProgTx(d)
           \/ UNCHANGED vars
  BY <1>5 DEF BlockAll, UnblockAll, UnblockWake, UnblockLoad, UnblockStore,
     RpuProgTx, vars, frameVars, FrameStep
<1> QED
  BY <1>1, <1>2, <1>3, <1>4, <1>5 DEF Next, Progress

-----------------------------------------------------------------------------
(* The order within a flow, and what a batch may hold.                     *)

\* The frames of a queue come in order, after those that tokens carry and
\* before those not submitted.
QueueInOrder(uns, pend, pk, p, a) ==
    LET q == pend[p][a]
    IN  \A i \in 1 .. Len(q) :
          /\ AC[q[i]] = a /\ Peer[q[i]] = p
          /\ \A j \in 1 .. i - 1 : q[j] < q[i]
          /\ \A t \in Tokens : \A k \in 1 .. Len(pk[t]) :
               SameFlow(pk[t][k], q[i]) => pk[t][k] < q[i]
          /\ \A u \in uns : SameFlow(q[i], u) => q[i] < u

Ordered(uns, pend, pk) ==
    /\ \A p \in Peers, a \in ACs : QueueInOrder(uns, pend, pk, p, a)
    /\ \A t \in Tokens : \A k \in 1 .. Len(pk[t]) : \A u \in uns :
         SameFlow(pk[t][k], u) => pk[t][k] < u

BatchOK(b) ==
    Len(b) > 1 => /\ Len(b) =< MaxTxCmds
                  /\ \A i \in 1 .. Len(b) : Aggregates(b[i], b[1])

\* Cutting n frames off q: the lengths and the members of the two parts.
LEMMA CutParts ==
    ASSUME NEW q \in Seq(Frames), NEW n \in 1 .. Len(q)
    PROVE  /\ SubSeq(q, 1, n) \in Seq(Frames) /\ Rest(q, n) \in Seq(Frames)
           /\ Len(q) \in Nat /\ n \in Nat
           /\ Len(SubSeq(q, 1, n)) = n /\ Len(Rest(q, n)) = Len(q) - n
           /\ \A i \in 1 .. n : SubSeq(q, 1, n)[i] = q[i]
           /\ \A i \in 1 .. Len(q) - n : Rest(q, n)[i] = q[n + i]
<1>1. Len(q) \in Nat /\ \A i \in 1 .. Len(q) : q[i] \in Frames
  BY LenProperties, ElementOfSeq
<1>2. (\A i \in 1 .. n : q[i] \in Frames) /\ (\A i \in n + 1 .. Len(q) : q[i] \in Frames)
  BY <1>1
<1>3. /\ SubSeq(q, 1, n) \in Seq(Frames) /\ Len(SubSeq(q, 1, n)) = n
      /\ \A i \in 1 .. n : SubSeq(q, 1, n)[i] = q[i]
  BY <1>1, <1>2, SubSeqProperties
<1>4. /\ SubSeq(q, n + 1, Len(q)) \in Seq(Frames)
      /\ Len(SubSeq(q, n + 1, Len(q))) = Len(q) - n
      /\ \A i \in 1 .. Len(q) - n : SubSeq(q, n + 1, Len(q))[i] = q[n + i]
  BY <1>1, <1>2, SubSeqProperties
<1> QED
  BY <1>1, <1>3, <1>4 DEF Rest

\* A batch is cut off the front of a queue whose frames are in order.
LEMMA FillKeepsOrder ==
    ASSUME NEW uns \in SUBSET Frames, NEW pend \in PendingQueues,
           NEW pk \in Batches, NEW t \in Tokens, pk[t] = <<>>,
           Ordered(uns, pend, pk), Fill(pend, pk, t)
    PROVE  Ordered(uns, pendingPkt', pkt')
<1>1. CASE pendingPkt' = pend /\ pkt' = pk
  BY <1>1 DEF Ordered, QueueInOrder
<1>2. ASSUME NEW p \in Peers, NEW a \in ACs, NEW n \in 1 .. Len(pend[p][a]),
             pendingPkt' = [pend EXCEPT ![p][a] = Rest(pend[p][a], n)],
             pkt' = [pk EXCEPT ![t] = SubSeq(pend[p][a], 1, n)]
      PROVE  Ordered(uns, pendingPkt', pkt')
  <2> DEFINE q == pend[p][a]
             b == SubSeq(q, 1, n)
             r == Rest(q, n)
  <2>1. /\ q \in Seq(Frames) /\ n \in 1 .. Len(q)
    BY DEF PendingQueues
  <2>2. /\ Len(q) \in Nat /\ n \in Nat /\ Len(b) = n /\ Len(r) = Len(q) - n
        /\ \A i \in 1 .. n : b[i] = q[i]
        /\ \A i \in 1 .. Len(q) - n : r[i] = q[n + i]
    BY <2>1, CutParts
  <2>3. /\ pkt'[t] = b /\ \A u \in Tokens \ {t} : pkt'[u] = pk[u]
    BY <1>2 DEF Batches
  <2>4. \A p1 \in Peers, a1 \in ACs :
           pendingPkt'[p1][a1] = IF p1 = p /\ a1 = a THEN r ELSE pend[p1][a1]
    BY <1>2 DEF PendingQueues
  <2>5. QueueInOrder(uns, pend, pk, p, a)
    BY DEF Ordered
  <2> HIDE DEF b, r, q
  <2>6. \A i \in 1 .. Len(q) :
          /\ AC[q[i]] = a /\ Peer[q[i]] = p
          /\ \A j \in 1 .. i - 1 : q[j] < q[i]
          /\ \A u \in Tokens : \A k \in 1 .. Len(pk[u]) :
               SameFlow(pk[u][k], q[i]) => pk[u][k] < q[i]
          /\ \A u \in uns : SameFlow(q[i], u) => q[i] < u
    BY <2>5 DEF QueueInOrder, q
  <2>7. QueueInOrder(uns, pendingPkt', pkt', p, a)
    <3>1. pendingPkt'[p][a] = r
      BY <2>4
    <3> SUFFICES ASSUME NEW i \in 1 .. Len(r)
                 PROVE  /\ AC[r[i]] = a /\ Peer[r[i]] = p
                        /\ \A j \in 1 .. i - 1 : r[j] < r[i]
                        /\ \A u \in Tokens : \A k \in 1 .. Len(pkt'[u]) :
                             SameFlow(pkt'[u][k], r[i]) => pkt'[u][k] < r[i]
                        /\ \A u \in uns : SameFlow(r[i], u) => r[i] < u
      BY <3>1 DEF QueueInOrder
    <3>2. r[i] = q[n + i] /\ n + i \in 1 .. Len(q)
      BY <2>2
    <3>3. \A j \in 1 .. i - 1 : r[j] < r[i]
      <4> TAKE j \in 1 .. i - 1
      <4>1. r[j] = q[n + j] /\ n + j \in 1 .. (n + i) - 1
        BY <2>2
      <4> QED
        BY <2>6, <3>2, <4>1
    <3>4. \A u \in Tokens : \A k \in 1 .. Len(pkt'[u]) :
             SameFlow(pkt'[u][k], r[i]) => pkt'[u][k] < r[i]
      <4> TAKE u \in Tokens
      <4>1. CASE u = t
        <5> SUFFICES ASSUME NEW k \in 1 .. n PROVE b[k] < r[i]
          BY <2>2, <2>3, <4>1
        <5>1. b[k] = q[k] /\ k \in 1 .. (n + i) - 1
          BY <2>2
        <5> QED
          BY <2>6, <3>2, <5>1
      <4>2. CASE u # t
        BY <2>3, <2>6, <3>2, <4>2
      <4> QED
        BY <4>1, <4>2
    <3> QED
      BY <2>6, <3>2, <3>3, <3>4
  <2>8. ASSUME NEW p1 \in Peers, NEW a1 \in ACs, p1 # p \/ a1 # a
        PROVE  QueueInOrder(uns, pendingPkt', pkt', p1, a1)
    <3> DEFINE q1 == pend[p1][a1]
    <3>1. pendingPkt'[p1][a1] = q1 /\ q1 \in Seq(Frames)
      BY <2>4, <2>8 DEF PendingQueues
    <3>2. QueueInOrder(uns, pend, pk, p1, a1)
      BY DEF Ordered
    <3> HIDE DEF q1
    <3> SUFFICES ASSUME NEW i \in 1 .. Len(q1)
                 PROVE  /\ AC[q1[i]] = a1 /\ Peer[q1[i]] = p1
                        /\ \A j \in 1 .. i - 1 : q1[j] < q1[i]
                        /\ \A u \in Tokens : \A k \in 1 .. Len(pkt'[u]) :
                             SameFlow(pkt'[u][k], q1[i]) => pkt'[u][k] < q1[i]
                        /\ \A u \in uns : SameFlow(q1[i], u) => q1[i] < u
      BY <3>1 DEF QueueInOrder
    <3>3. /\ AC[q1[i]] = a1 /\ Peer[q1[i]] = p1
          /\ \A j \in 1 .. i - 1 : q1[j] < q1[i]
          /\ \A u \in Tokens : \A k \in 1 .. Len(pk[u]) :
               SameFlow(pk[u][k], q1[i]) => pk[u][k] < q1[i]
          /\ \A u \in uns : SameFlow(q1[i], u) => q1[i] < u
      BY <3>2 DEF QueueInOrder, q1
    <3>4. q1[i] \in Frames
      BY <3>1, ElementOfSeq
    <3>5. \A k \in 1 .. n : ~SameFlow(b[k], q1[i])
      <4> TAKE k \in 1 .. n
      <4>1. b[k] = q[k] /\ AC[q[k]] = a /\ Peer[q[k]] = p /\ q[k] \in Frames
        BY <2>1, <2>2, <2>6, ElementOfSeq DEF q
      <4>2. Flow[b[k]] = <<a, p>> /\ Flow[q1[i]] = <<a1, p1>>
        BY <3>3, <3>4, <4>1 DEF Flow
      <4> QED
        BY <2>8, <4>2 DEF SameFlow
    <3>6. \A u \in Tokens : \A k \in 1 .. Len(pkt'[u]) :
             SameFlow(pkt'[u][k], q1[i]) => pkt'[u][k] < q1[i]
      BY ZenonT(30), <2>2, <2>3, <3>3, <3>5
    <3> QED
      BY <3>3, <3>6
  <2>9. \A u \in Tokens : \A k \in 1 .. Len(pkt'[u]) : \A v \in uns :
           SameFlow(pkt'[u][k], v) => pkt'[u][k] < v
    <3> TAKE u \in Tokens
    <3>1. CASE u = t
      BY SMTT(30), <2>2, <2>3, <2>6, <3>1
    <3>2. CASE u # t
      BY <2>3, <3>2 DEF Ordered
    <3> QED
      BY <3>1, <3>2
  <2> QED
    BY <2>7, <2>8, <2>9 DEF Ordered
<1> QED
  BY <1>1, <1>2 DEF Fill

\* A submitted frame is the next of its flow and goes to the end of its queue.
LEMMA EnteredKeepsOrder ==
    ASSUME TypeOK, Ordered(unsent, pendingPkt, pkt), NEW f \in unsent,
           \A g \in unsent : SameFlow(f, g) => f =< g
    PROVE  /\ Ordered(unsent \ {f}, Entered(f), pkt)
           /\ Entered(f) \in PendingQueues
<1> DEFINE p == Peer[f]
           a == AC[f]
           q == pendingPkt[p][a]
           r == Queued(f)
<1>1. /\ f \in Frames /\ p \in Peers /\ a \in ACs /\ q \in Seq(Frames)
      /\ Frames \subseteq Nat /\ unsent \subseteq Frames
  BY FrameTypes, TxFrames DEF TypeOK
<1>2. /\ r \in Seq(Frames) /\ Len(q) \in Nat /\ Len(r) = Len(q) + 1
      /\ \A i \in 1 .. Len(q) : r[i] = q[i]
      /\ r[Len(q) + 1] = f
  <2>1. r = Append(q, f)
    BY DEF Queued
  <2> HIDE DEF q, r
  <2>2. Len(q) \in Nat
    BY <1>1, LenProperties
  <2> QED
    BY <1>1, <2>1, <2>2, AppendProperties
<1> HIDE DEF r
<1>3. /\ \A p1 \in Peers, a1 \in ACs :
           Entered(f)[p1][a1] = IF p1 = p /\ a1 = a THEN r ELSE pendingPkt[p1][a1]
      /\ Entered(f) \in PendingQueues
  BY <1>1, <1>2 DEF Entered, PendingQueues, TypeOK, r
<1>4. QueueInOrder(unsent, pendingPkt, pkt, p, a)
  BY <1>1 DEF Ordered
<1> HIDE DEF q, p, a
<1>5. \A i \in 1 .. Len(q) :
        /\ AC[q[i]] = a /\ Peer[q[i]] = p
        /\ \A j \in 1 .. i - 1 : q[j] < q[i]
        /\ \A u \in Tokens : \A k \in 1 .. Len(pkt[u]) :
             SameFlow(pkt[u][k], q[i]) => pkt[u][k] < q[i]
        /\ \A u \in unsent : SameFlow(q[i], u) => q[i] < u
  BY <1>4 DEF QueueInOrder, q
<1>6. QueueInOrder(unsent \ {f}, Entered(f), pkt, p, a)
  <2>1. Entered(f)[p][a] = r
    BY <1>1, <1>3
  <2> SUFFICES ASSUME NEW i \in 1 .. Len(r)
               PROVE  /\ AC[r[i]] = a /\ Peer[r[i]] = p
                      /\ \A j \in 1 .. i - 1 : r[j] < r[i]
                      /\ \A u \in Tokens : \A k \in 1 .. Len(pkt[u]) :
                           SameFlow(pkt[u][k], r[i]) => pkt[u][k] < r[i]
                      /\ \A u \in unsent \ {f} : SameFlow(r[i], u) => r[i] < u
    BY <2>1 DEF QueueInOrder
  <2>2. CASE i \in 1 .. Len(q)
    BY <1>2, <1>5, <2>2
  <2>3. CASE i = Len(q) + 1
    <3>1. r[i] = f /\ AC[f] = a /\ Peer[f] = p
      BY <1>2, <2>3 DEF a, p
    <3>2. \A j \in 1 .. i - 1 : r[j] < f
      <4> TAKE j \in 1 .. i - 1
      <4>1. j \in 1 .. Len(q) /\ r[j] = q[j] /\ q[j] \in Frames
        BY <1>1, <1>2, <2>3, ElementOfSeq
      <4>2. SameFlow(q[j], f)
        BY <1>1, <1>5, <4>1 DEF SameFlow, Flow, a, p
      <4> QED
        BY <1>5, <4>1, <4>2
    <3>3. \A u \in Tokens : \A k \in 1 .. Len(pkt[u]) :
             SameFlow(pkt[u][k], f) => pkt[u][k] < f
      BY DEF Ordered
    <3>4. \A u \in unsent \ {f} : SameFlow(f, u) => f < u
      BY <1>1
    <3> QED
      BY <3>1, <3>2, <3>3, <3>4
  <2> QED
    BY <1>2, <2>2, <2>3
<1>7. ASSUME NEW p1 \in Peers, NEW a1 \in ACs, p1 # p \/ a1 # a
      PROVE  QueueInOrder(unsent \ {f}, Entered(f), pkt, p1, a1)
  <2>1. Entered(f)[p1][a1] = pendingPkt[p1][a1]
    BY <1>3, <1>7
  <2>2. QueueInOrder(unsent, pendingPkt, pkt, p1, a1)
    BY DEF Ordered
  <2> QED
    BY <2>1, <2>2 DEF QueueInOrder
<1> QED
  BY <1>3, <1>6, <1>7 DEF Ordered

\* A done token gives its batch up.
LEMMA EmptiedKeepsOrder ==
    ASSUME NEW uns, NEW pend, pkt \in Batches, NEW t \in Tokens,
           Ordered(uns, pend, pkt)
    PROVE  Ordered(uns, pend, Emptied(t)) /\ Emptied(t) \in Batches
<1>1. Emptied(t) \in Batches
  BY EmptySeq DEF Emptied, Batches
<1>2. \A u \in Tokens : /\ u # t => Emptied(t)[u] = pkt[u]
                        /\ u = t => Emptied(t)[u] = <<>>
  BY DEF Emptied, Batches
<1>3. \A u \in Tokens : \A k \in 1 .. Len(Emptied(t)[u]) :
         k \in 1 .. Len(pkt[u]) /\ Emptied(t)[u][k] = pkt[u][k]
  <2> TAKE u \in Tokens
  <2>1. CASE u = t
    <3>1. Emptied(t)[u] = <<>>
      BY <1>2, <2>1
    <3>2. Len(<<>>) = 0
      BY EmptySeq
    <3> QED
      BY <3>1, <3>2
  <2>2. CASE u # t
    <3>1. Emptied(t)[u] = pkt[u]
      BY <1>2, <2>2
    <3> QED
      BY <3>1, Zenon
  <2> QED
    BY <2>1, <2>2
<1> QED
  BY SMTT(60), <1>1, <1>3 DEF Ordered, QueueInOrder

\* Every step keeps the order.
LEMMA StepKeepsOrder ==
    ASSUME TypeOK, FrameStep, Ordered(unsent, pendingPkt, pkt)
    PROVE  Ordered(unsent, pendingPkt, pkt)'
<1>1. /\ pkt \in Batches /\ pendingPkt \in PendingQueues
      /\ unsent \in SUBSET Frames
  BY DEF TypeOK, Batches, PendingQueues
<1>2. ASSUME NEW f \in unsent, \A g \in unsent : SameFlow(f, g) => f =< g,
             unsent' = unsent \ {f},
             \/ pendingPkt' = Entered(f) /\ pkt' = pkt
             \/ \E t \in Tokens : pkt[t] = <<>> /\ Fill(Entered(f), pkt, t)
      PROVE  Ordered(unsent', pendingPkt', pkt')
  <2>1. /\ Ordered(unsent', Entered(f), pkt) /\ unsent' \in SUBSET Frames
        /\ Entered(f) \in PendingQueues
    BY <1>1, <1>2, EnteredKeepsOrder
  <2> QED
    BY <1>1, <1>2, <2>1, FillKeepsOrder
<1>3. ASSUME NEW t \in Tokens, UNCHANGED unsent, Fill(pendingPkt, Emptied(t), t)
      PROVE  Ordered(unsent', pendingPkt', pkt')
  <2>1. /\ Ordered(unsent, pendingPkt, Emptied(t)) /\ Emptied(t) \in Batches
        /\ Emptied(t)[t] = <<>>
    BY <1>1, EmptiedKeepsOrder DEF Emptied, Batches
  <2> QED
    BY <1>1, <1>3, <2>1, FillKeepsOrder
<1>4. ASSUME NEW t \in Tokens, pkt[t] = <<>>, UNCHANGED unsent,
             Fill(pendingPkt, pkt, t)
      PROVE  Ordered(unsent', pendingPkt', pkt')
  BY <1>1, <1>4, FillKeepsOrder
<1>5. CASE UNCHANGED <<unsent, pendingPkt, pkt>>
  BY <1>5
<1>6. Ordered(unsent', pendingPkt', pkt')
  BY <1>2, <1>3, <1>4, <1>5, Zenon DEF FrameStep
<1> QED
  BY <1>6 DEF Ordered, QueueInOrder

\* Every step keeps the batches.
LEMMA StepKeepsBatches ==
    ASSUME TypeOK, FrameStep, \A t \in Tokens : BatchOK(pkt[t])
    PROVE  \A t \in Tokens : BatchOK(pkt'[t])
<1>1. pkt \in Batches /\ pendingPkt \in PendingQueues
  BY DEF TypeOK, Batches, PendingQueues
<1>2. ASSUME NEW pend \in PendingQueues, NEW pk \in Batches, NEW t \in Tokens,
             \A u \in Tokens : BatchOK(pk[u]), Fill(pend, pk, t)
      PROVE  \A u \in Tokens : BatchOK(pkt'[u])
  <2>1. CASE pkt' = pk
    BY <1>2, <2>1
  <2>2. ASSUME NEW p \in Peers, NEW a \in ACs, NEW n \in 1 .. Len(pend[p][a]),
               pkt' = [pk EXCEPT ![t] = SubSeq(pend[p][a], 1, n)],
               n > 1 => /\ n =< MaxTxCmds
                        /\ \A i \in 1 .. n : Aggregates(pend[p][a][i], pend[p][a][1])
        PROVE  \A u \in Tokens : BatchOK(pkt'[u])
    <3> DEFINE q == pend[p][a]
               b == SubSeq(q, 1, n)
    <3>1. q \in Seq(Frames)
      BY DEF PendingQueues
    <3>2. Len(b) = n /\ \A i \in 1 .. n : b[i] = q[i]
      BY <3>1, CutParts
    <3>3. pkt' = [pk EXCEPT ![t] = b]
      BY <2>2
    <3> HIDE DEF b
    <3>4. BatchOK(b)
      BY <2>2, <3>2 DEF BatchOK
    <3> QED
      BY <1>2, <3>3, <3>4 DEF Batches
  <2> QED
    BY <1>2, <2>1, <2>2, Zenon DEF Fill
<1>3. ASSUME NEW t \in Tokens, NEW pend \in PendingQueues,
             Fill(pend, pkt, t) \/ Fill(pend, Emptied(t), t)
      PROVE  \A u \in Tokens : BatchOK(pkt'[u])
  <2>1. Emptied(t) \in Batches /\ \A u \in Tokens : BatchOK(Emptied(t)[u])
    <3>1. Len(<<>>) = 0 /\ <<>> \in Seq(Frames)
      BY EmptySeq
    <3> QED
      BY <1>1, <3>1 DEF Emptied, Batches, BatchOK
  <2> QED
    BY <1>1, <1>2, <1>3, <2>1
<1>4. ASSUME NEW f \in unsent PROVE Entered(f) \in PendingQueues
  <2>1. Peer[f] \in Peers /\ AC[f] \in ACs /\ f \in Frames
    BY FrameTypes DEF TypeOK
  <2>2. Queued(f) \in Seq(Frames)
    BY <1>1, <2>1, AppendProperties DEF PendingQueues, Queued
  <2> QED
    BY <1>1, <2>1, <2>2 DEF Entered, PendingQueues
<1> QED
  BY <1>1, <1>3, <1>4, Zenon DEF FrameStep

-----------------------------------------------------------------------------
(* Where a frame is.  A step renames the places of a frame: the lemmas     *)
(* give the renaming of each part of a step and show that it maps the      *)
(* places before it onto the places after it.                              *)

\* Occurrences(f), with the lists as arguments.
Places(pend, pk, rep, repd, f) ==
    LET In(s) == {i \in 1 .. Len(s) : s[i] = f}
    IN  (UNION { UNION { {<<"pending", p, a, i>> : i \in In(pend[p][a])} :
                         p \in Peers } : a \in ACs })
        \cup (UNION { {<<"pkt", t, i>> : i \in In(pk[t])} : t \in Tokens })
        \cup (UNION { {<<"report", r, i>> : i \in In(r.list)} : r \in rep })
        \cup (IF f \in repd THEN {<<"reported">>} ELSE {})

InQueue(x, pend, f) ==
    \E p \in Peers, a \in ACs : \E i \in 1 .. Len(pend[p][a]) :
        x = <<"pending", p, a, i>> /\ pend[p][a][i] = f

InBatch(x, pk, f) ==
    \E t \in Tokens : \E i \in 1 .. Len(pk[t]) : x = <<"pkt", t, i>> /\ pk[t][i] = f

InReport(x, rep, f) ==
    \E r \in rep : \E i \in 1 .. Len(r.list) :
        x = <<"report", r, i>> /\ r.list[i] = f

LEMMA InPlaces ==
    ASSUME NEW pend, NEW pk, NEW rep, NEW repd, NEW f, NEW x
    PROVE  x \in Places(pend, pk, rep, repd, f) <=>
             \/ InQueue(x, pend, f) \/ InBatch(x, pk, f) \/ InReport(x, rep, f)
             \/ x = <<"reported">> /\ f \in repd
<1> DEFINE In(s) == {i \in 1 .. Len(s) : s[i] = f}
           Q == UNION { UNION { {<<"pending", p, a, i>> : i \in In(pend[p][a])} :
                                p \in Peers } : a \in ACs }
           K == UNION { {<<"pkt", t, i>> : i \in In(pk[t])} : t \in Tokens }
           R == UNION { {<<"report", r, i>> : i \in In(r.list)} : r \in rep }
<1>1. x \in Q <=> InQueue(x, pend, f)
  BY DEF InQueue
<1>2. x \in K <=> InBatch(x, pk, f)
  BY DEF InBatch
<1>3. x \in R <=> InReport(x, rep, f)
  BY DEF InReport
<1>4. x \in (IF f \in repd THEN {<<"reported">>} ELSE {})
        <=> x = <<"reported">> /\ f \in repd
  OBVIOUS
<1>5. Places(pend, pk, rep, repd, f)
        = Q \cup K \cup R \cup (IF f \in repd THEN {<<"reported">>} ELSE {})
  BY Zenon DEF Places
<1> HIDE DEF Q, K, R
<1> QED
  BY <1>1, <1>2, <1>3, <1>4, <1>5, Zenon

\* A set with exactly one member.
One(S) == \E x \in S : S = {x}

\* What is onto a set of one member or none leaves one member or none.
LEMMA RenamedOnto ==
    ASSUME NEW A, NEW B, NEW M \in [A -> B], \A y \in B : \E x \in A : M[x] = y
    PROVE  (A = {} => B = {}) /\ (One(A) => One(B))
<1>1. A = {} => B = {}
  OBVIOUS
<1>2. ASSUME NEW x, A = {x} PROVE B = {M[x]}
  BY <1>2
<1> QED
  BY <1>1, <1>2 DEF One

\* A batch is cut off a queue for token t, which has none.
FillRename(p, a, n, t, x) ==
    IF x[1] = "pending" /\ x[2] = p /\ x[3] = a
    THEN IF x[4] =< n THEN <<"pkt", t, x[4]>> ELSE <<"pending", p, a, x[4] - n>>
    ELSE x

LEMMA FillKeepsPlaces ==
    ASSUME NEW pend \in PendingQueues, NEW pk \in Batches, NEW t \in Tokens,
           pk[t] = <<>>, NEW rep, NEW repd, NEW f, Fill(pend, pk, t)
    PROVE  LET A == Places(pend, pk, rep, repd, f)
               B == Places(pendingPkt', pkt', rep, repd, f)
           IN  (A = {} => B = {}) /\ (One(A) => One(B))
<1> DEFINE A == Places(pend, pk, rep, repd, f)
           B == Places(pendingPkt', pkt', rep, repd, f)
<1>1. CASE pendingPkt' = pend /\ pkt' = pk
  BY <1>1
<1>2. ASSUME NEW p \in Peers, NEW a \in ACs, NEW n \in 1 .. Len(pend[p][a]),
             pendingPkt' = [pend EXCEPT ![p][a] = Rest(pend[p][a], n)],
             pkt' = [pk EXCEPT ![t] = SubSeq(pend[p][a], 1, n)]
      PROVE  (A = {} => B = {}) /\ (One(A) => One(B))
  <2> DEFINE q == pend[p][a]
             b == SubSeq(q, 1, n)
             r == Rest(q, n)
             M == [x \in A |-> FillRename(p, a, n, t, x)]
  <2>1. /\ q \in Seq(Frames) /\ n \in 1 .. Len(q)
    BY DEF PendingQueues
  <2>2. /\ Len(q) \in Nat /\ n \in Nat /\ Len(b) = n /\ Len(r) = Len(q) - n
        /\ \A i \in 1 .. n : b[i] = q[i]
        /\ \A i \in 1 .. Len(q) - n : r[i] = q[n + i]
    BY <2>1, CutParts
  <2>3. /\ pkt'[t] = b /\ \A u \in Tokens \ {t} : pkt'[u] = pk[u]
    BY <1>2 DEF Batches
  <2>4. \A p1 \in Peers, a1 \in ACs :
           pendingPkt'[p1][a1] = IF p1 = p /\ a1 = a THEN r ELSE pend[p1][a1]
    BY <1>2 DEF PendingQueues
  <2>5. Len(pk[t]) = 0
    BY EmptySeq
  <2> HIDE DEF b, r
  <2>6. ASSUME NEW x \in A PROVE FillRename(p, a, n, t, x) \in B
    <3>1. CASE InQueue(x, pend, f)
      <4>1. PICK p1 \in Peers, a1 \in ACs : \E i \in 1 .. Len(pend[p1][a1]) :
              x = <<"pending", p1, a1, i>> /\ pend[p1][a1][i] = f
        BY <3>1 DEF InQueue
      <4>2. PICK i \in 1 .. Len(pend[p1][a1]) :
              x = <<"pending", p1, a1, i>> /\ pend[p1][a1][i] = f
        BY <4>1
      <4>3. x[1] = "pending" /\ x[2] = p1 /\ x[3] = a1 /\ x[4] = i
        BY <4>2
      <4>4. CASE p1 = p /\ a1 = a /\ i =< n
        <5>1. FillRename(p, a, n, t, x) = <<"pkt", t, i>>
          BY <4>3, <4>4 DEF FillRename
        <5>2. i \in 1 .. Len(pkt'[t]) /\ pkt'[t][i] = f
          BY <2>2, <2>3, <4>2, <4>4
        <5>3. InBatch(<<"pkt", t, i>>, pkt', f)
          BY <5>2 DEF InBatch
        <5> QED
          BY <5>1, <5>3, InPlaces
      <4>5. CASE p1 = p /\ a1 = a /\ ~(i =< n)
        <5>1. FillRename(p, a, n, t, x) = <<"pending", p, a, i - n>>
          BY <4>3, <4>5 DEF FillRename
        <5>2. i \in 1 .. Len(q) /\ q[i] = f
          BY <4>2, <4>5
        <5>4. i - n \in 1 .. Len(q) - n /\ n + (i - n) = i
          BY <2>2, <4>5, <5>2
        <5>5. i - n \in 1 .. Len(r) /\ r[i - n] = f
          BY <2>2, <5>2, <5>4
        <5>3. InQueue(<<"pending", p, a, i - n>>, pendingPkt', f)
          BY <2>4, <5>5 DEF InQueue
        <5> QED
          BY <5>1, <5>3, InPlaces
      <4>6. CASE ~(p1 = p /\ a1 = a)
        <5>1. FillRename(p, a, n, t, x) = x
          BY <4>3, <4>6 DEF FillRename
        <5>2. InQueue(x, pendingPkt', f)
          BY <2>4, <4>2, <4>6 DEF InQueue
        <5> QED
          BY <5>1, <5>2, InPlaces
      <4> QED
        BY <4>4, <4>5, <4>6
    <3>2. CASE InBatch(x, pk, f)
      <4>1. PICK u \in Tokens : \E i \in 1 .. Len(pk[u]) :
              x = <<"pkt", u, i>> /\ pk[u][i] = f
        BY <3>2 DEF InBatch
      <4>2. x[1] = "pkt" /\ u # t
        BY <2>5, <4>1
      <4>3. FillRename(p, a, n, t, x) = x
        BY <4>2 DEF FillRename
      <4>4. InBatch(x, pkt', f)
        BY <2>3, <4>1, <4>2 DEF InBatch
      <4> QED
        BY <4>3, <4>4, InPlaces
    <3>3. CASE InReport(x, rep, f) \/ (x = <<"reported">> /\ f \in repd)
      <4>1. x[1] # "pending"
        BY <3>3 DEF InReport
      <4>2. FillRename(p, a, n, t, x) = x
        BY <4>1 DEF FillRename
      <4> QED
        BY <3>3, <4>2, InPlaces
    <3> QED
      BY <3>1, <3>2, <3>3, InPlaces
  <2>7. ASSUME NEW y \in B PROVE \E x \in A : FillRename(p, a, n, t, x) = y
    <3>1. CASE InQueue(y, pendingPkt', f)
      <4>1. PICK p1 \in Peers, a1 \in ACs : \E i \in 1 .. Len(pendingPkt'[p1][a1]) :
              y = <<"pending", p1, a1, i>> /\ pendingPkt'[p1][a1][i] = f
        BY <3>1 DEF InQueue
      <4>2. PICK i \in 1 .. Len(pendingPkt'[p1][a1]) :
              y = <<"pending", p1, a1, i>> /\ pendingPkt'[p1][a1][i] = f
        BY <4>1
      <4>3. CASE p1 = p /\ a1 = a
        <5> DEFINE x == <<"pending", p, a, n + i>>
        <5>1. i \in 1 .. Len(r) /\ r[i] = f
          BY <2>4, <4>2, <4>3
        <5>2. /\ n + i \in 1 .. Len(q) /\ ~(n + i =< n) /\ (n + i) - n = i
              /\ q[n + i] = f
          BY <2>2, <5>1
        <5>3. InQueue(x, pend, f)
          BY <5>2 DEF InQueue
        <5>4. FillRename(p, a, n, t, x) = y
          BY <4>2, <4>3, <5>2 DEF FillRename
        <5> QED
          BY <5>3, <5>4, InPlaces
      <4>4. CASE ~(p1 = p /\ a1 = a)
        <5>1. InQueue(y, pend, f)
          BY <2>4, <4>2, <4>4 DEF InQueue
        <5>2. FillRename(p, a, n, t, y) = y
          BY <4>2, <4>4 DEF FillRename
        <5> QED
          BY <5>1, <5>2, InPlaces
      <4> QED
        BY <4>3, <4>4
    <3>2. CASE InBatch(y, pkt', f)
      <4>1. PICK u \in Tokens : \E i \in 1 .. Len(pkt'[u]) :
              y = <<"pkt", u, i>> /\ pkt'[u][i] = f
        BY <3>2 DEF InBatch
      <4>2. CASE u = t
        <5>1. PICK i \in 1 .. n : y = <<"pkt", t, i>> /\ q[i] = f
          BY <2>2, <2>3, <4>1, <4>2
        <5>2. i \in 1 .. Len(q) /\ i =< n
          BY <2>2
        <5> DEFINE x == <<"pending", p, a, i>>
        <5>3. InQueue(x, pend, f)
          BY <5>1, <5>2 DEF InQueue
        <5>4. FillRename(p, a, n, t, x) = y
          BY <5>1, <5>2 DEF FillRename
        <5> QED
          BY <5>3, <5>4, InPlaces
      <4>3. CASE u # t
        <5>1. InBatch(y, pk, f)
          BY <2>3, <4>1, <4>3 DEF InBatch
        <5>2. y[1] = "pkt"
          BY <4>1
        <5>3. FillRename(p, a, n, t, y) = y
          BY <5>2 DEF FillRename
        <5> QED
          BY <5>1, <5>3, InPlaces
      <4> QED
        BY <4>2, <4>3
    <3>3. CASE InReport(y, rep, f) \/ (y = <<"reported">> /\ f \in repd)
      <4>1. y[1] # "pending"
        BY <3>3 DEF InReport
      <4>2. FillRename(p, a, n, t, y) = y
        BY <4>1 DEF FillRename
      <4> QED
        BY <3>3, <4>2, InPlaces
    <3> QED
      BY <3>1, <3>2, <3>3, InPlaces
  <2> HIDE DEF A, B
  <2>8. M \in [A -> B] /\ \A y \in B : \E x \in A : M[x] = y
    BY <2>6, <2>7
  <2> HIDE DEF M
  <2> QED
    BY <2>8, RenamedOnto
<1> HIDE DEF A, B
<1>3. (A = {} => B = {}) /\ (One(A) => One(B))
  BY <1>1, <1>2, Zenon DEF Fill, A, B
<1> QED
  BY <1>3 DEF A, B

\* The batch of done token t becomes a list r to be reported.
CutRename(t, r, x) ==
    IF x[1] = "pkt" /\ x[2] = t THEN <<"report", r, x[3]>> ELSE x

LEMMA CutKeepsPlaces ==
    ASSUME pkt \in Batches, NEW t \in Tokens, NEW pend, NEW by, NEW refilled,
           NEW repd, NEW f, CutOff(t, by, refilled)
    PROVE  LET A == Places(pend, pkt, reports, repd, f)
               B == Places(pend, Emptied(t), reports', repd, f)
           IN  (A = {} => B = {}) /\ (One(A) => One(B))
<1> DEFINE A == Places(pend, pkt, reports, repd, f)
           B == Places(pend, Emptied(t), reports', repd, f)
           r == [list |-> pkt[t], by |-> by,
                 token |-> IF refilled THEN t ELSE NumTokens]
           M == [x \in A |-> CutRename(t, r, x)]
<1>1. CASE pkt[t] = <<>>
  <2>1. Emptied(t) = pkt /\ reports' = reports
    BY <1>1, EmptiedAlready DEF CutOff
  <2> QED
    BY <2>1
<1>2. CASE pkt[t] # <<>>
  <2>1. reports' = reports \cup {r} /\ r.list = pkt[t]
    BY <1>2 DEF CutOff
  <2>2. /\ \A u \in Tokens \ {t} : Emptied(t)[u] = pkt[u]
        /\ Emptied(t)[t] = <<>> /\ Len(<<>>) = 0
    BY EmptySeq DEF Emptied, Batches
  <2> HIDE DEF r
  <2>3. ASSUME NEW x \in A PROVE CutRename(t, r, x) \in B
    <3>1. CASE InBatch(x, pkt, f)
      <4>1. PICK u \in Tokens : \E i \in 1 .. Len(pkt[u]) :
              x = <<"pkt", u, i>> /\ pkt[u][i] = f
        BY <3>1 DEF InBatch
      <4>2. PICK i \in 1 .. Len(pkt[u]) : x = <<"pkt", u, i>> /\ pkt[u][i] = f
        BY <4>1
      <4>3. x[1] = "pkt" /\ x[2] = u /\ x[3] = i
        BY <4>2
      <4>4. CASE u = t
        <5>1. CutRename(t, r, x) = <<"report", r, i>>
          BY <4>3, <4>4 DEF CutRename
        <5>2. InReport(<<"report", r, i>>, reports', f)
          BY <2>1, <4>2, <4>4 DEF InReport
        <5> QED
          BY <5>1, <5>2, InPlaces
      <4>5. CASE u # t
        <5>1. CutRename(t, r, x) = x
          BY <4>3, <4>5 DEF CutRename
        <5>2. InBatch(x, Emptied(t), f)
          BY <2>2, <4>2, <4>5 DEF InBatch
        <5> QED
          BY <5>1, <5>2, InPlaces
      <4> QED
        BY <4>4, <4>5
    <3>2. CASE InQueue(x, pend, f) \/ InReport(x, reports, f)
               \/ (x = <<"reported">> /\ f \in repd)
      <4>1. x[1] # "pkt"
        BY <3>2 DEF InQueue, InReport
      <4>2. CutRename(t, r, x) = x
        BY <4>1 DEF CutRename
      <4>3. InReport(x, reports, f) => InReport(x, reports', f)
        BY <2>1 DEF InReport
      <4> QED
        BY <3>2, <4>2, <4>3, InPlaces
    <3> QED
      BY <3>1, <3>2, InPlaces
  <2>4. ASSUME NEW y \in B PROVE \E x \in A : CutRename(t, r, x) = y
    <3>1. CASE InBatch(y, Emptied(t), f)
      <4>1. PICK u \in Tokens : \E i \in 1 .. Len(Emptied(t)[u]) :
              y = <<"pkt", u, i>> /\ Emptied(t)[u][i] = f
        BY <3>1 DEF InBatch
      <4>2. u # t
        BY <2>2, <4>1
      <4>3. InBatch(y, pkt, f)
        BY <2>2, <4>1, <4>2 DEF InBatch
      <4>4. y[1] = "pkt" /\ y[2] = u
        BY <4>1
      <4>5. CutRename(t, r, y) = y
        BY <4>2, <4>4 DEF CutRename
      <4> QED
        BY <4>3, <4>5, InPlaces
    <3>2. CASE InReport(y, reports', f)
      <4>1. PICK r1 \in reports' : \E i \in 1 .. Len(r1.list) :
              y = <<"report", r1, i>> /\ r1.list[i] = f
        BY <3>2 DEF InReport
      <4>2. PICK i \in 1 .. Len(r1.list) :
              y = <<"report", r1, i>> /\ r1.list[i] = f
        BY <4>1
      <4>3. CASE r1 \in reports
        <5>1. InReport(y, reports, f)
          BY <4>2, <4>3 DEF InReport
        <5>2. y[1] = "report"
          BY <4>2
        <5>3. CutRename(t, r, y) = y
          BY <5>2 DEF CutRename
        <5> QED
          BY <5>1, <5>3, InPlaces
      <4>4. CASE r1 = r
        <5> DEFINE x == <<"pkt", t, i>>
        <5>1. InBatch(x, pkt, f)
          BY <2>1, <4>2, <4>4 DEF InBatch
        <5>2. CutRename(t, r, x) = y
          BY <4>2, <4>4 DEF CutRename
        <5> QED
          BY <5>1, <5>2, InPlaces
      <4> QED
        BY <2>1, <4>3, <4>4
    <3>3. CASE InQueue(y, pend, f) \/ (y = <<"reported">> /\ f \in repd)
      <4>1. y[1] # "pkt"
        BY <3>3 DEF InQueue
      <4>2. CutRename(t, r, y) = y
        BY <4>1 DEF CutRename
      <4> QED
        BY <3>3, <4>2, InPlaces
    <3> QED
      BY <3>1, <3>2, <3>3, InPlaces
  <2> HIDE DEF A, B
  <2>5. M \in [A -> B] /\ \A y \in B : \E x \in A : M[x] = y
    BY <2>3, <2>4
  <2> HIDE DEF M
  <2>6. (A = {} => B = {}) /\ (One(A) => One(B))
    BY <2>5, RenamedOnto
  <2> QED
    BY <2>6 DEF A, B
<1> QED
  BY <1>1, <1>2

\* The frames of list r are reported.
ReportRename(r, x) == IF x[1] = "report" /\ x[2] = r THEN <<"reported">> ELSE x

LEMMA ReportKeepsPlaces ==
    ASSUME NEW r \in reports, NEW pend, NEW pk, NEW f,
           r.list \in Seq(Frames)
    PROVE  LET A == Places(pend, pk, reports, reported, f)
               B == Places(pend, pk, reports \ {r}, TxStatus(r.list), f)
           IN  (A = {} => B = {}) /\ (One(A) => One(B))
<1> DEFINE A == Places(pend, pk, reports, reported, f)
           B == Places(pend, pk, reports \ {r}, TxStatus(r.list), f)
           M == [x \in A |-> ReportRename(r, x)]
<1>1. f \in TxStatus(r.list) <=>
        f \in reported \/ \E i \in 1 .. Len(r.list) : r.list[i] = f
  <2>1. DOMAIN r.list = 1 .. Len(r.list)
    BY LenProperties
  <2> QED
    BY <2>1 DEF TxStatus, Range
<1>2. ASSUME NEW x \in A PROVE ReportRename(r, x) \in B
  <2>1. CASE InReport(x, reports, f)
    <3>1. PICK r1 \in reports : \E i \in 1 .. Len(r1.list) :
            x = <<"report", r1, i>> /\ r1.list[i] = f
      BY <2>1 DEF InReport
    <3>2. x[1] = "report" /\ x[2] = r1
      BY <3>1
    <3>3. CASE r1 = r
      <4>1. ReportRename(r, x) = <<"reported">> /\ f \in TxStatus(r.list)
        BY <1>1, <3>1, <3>2, <3>3 DEF ReportRename
      <4> QED
        BY <4>1, InPlaces
    <3>4. CASE r1 # r
      <4>1. ReportRename(r, x) = x
        BY <3>2, <3>4 DEF ReportRename
      <4>2. InReport(x, reports \ {r}, f)
        BY <3>1, <3>4 DEF InReport
      <4> QED
        BY <4>1, <4>2, InPlaces
    <3> QED
      BY <3>3, <3>4
  <2>2. CASE InQueue(x, pend, f) \/ InBatch(x, pk, f)
             \/ (x = <<"reported">> /\ f \in reported)
    <3>1. x[1] # "report"
      BY <2>2 DEF InQueue, InBatch
    <3>2. ReportRename(r, x) = x
      BY <3>1 DEF ReportRename
    <3> QED
      BY <1>1, <2>2, <3>2, InPlaces
  <2> QED
    BY <2>1, <2>2, InPlaces
<1>3. ASSUME NEW y \in B PROVE \E x \in A : ReportRename(r, x) = y
  <2>1. CASE InReport(y, reports \ {r}, f)
    <3>1. PICK r1 \in reports \ {r} : \E i \in 1 .. Len(r1.list) :
            y = <<"report", r1, i>> /\ r1.list[i] = f
      BY <2>1 DEF InReport
    <3>2. y[1] = "report" /\ y[2] = r1 /\ r1 # r
      BY <3>1
    <3>3. ReportRename(r, y) = y
      BY <3>2 DEF ReportRename
    <3>4. InReport(y, reports, f)
      BY <3>1 DEF InReport
    <3> QED
      BY <3>3, <3>4, InPlaces
  <2>2. CASE InQueue(y, pend, f) \/ InBatch(y, pk, f)
             \/ (y = <<"reported">> /\ f \in reported)
    <3>1. y[1] # "report"
      BY <2>2 DEF InQueue, InBatch
    <3>2. ReportRename(r, y) = y
      BY <3>1 DEF ReportRename
    <3> QED
      BY <2>2, <3>2, InPlaces
  <2>3. CASE y = <<"reported">> /\ f \in TxStatus(r.list) /\ f \notin reported
    <3>1. PICK i \in 1 .. Len(r.list) : r.list[i] = f
      BY <1>1, <2>3
    <3> DEFINE x == <<"report", r, i>>
    <3>2. InReport(x, reports, f)
      BY <3>1 DEF InReport
    <3>3. ReportRename(r, x) = y
      BY <2>3 DEF ReportRename
    <3> QED
      BY <3>2, <3>3, InPlaces
  <2> QED
    BY <2>1, <2>2, <2>3, InPlaces
<1> HIDE DEF A, B
<1>4. M \in [A -> B] /\ \A y \in B : \E x \in A : M[x] = y
  BY <1>2, <1>3
<1> HIDE DEF M
<1>5. (A = {} => B = {}) /\ (One(A) => One(B))
  BY <1>4, RenamedOnto
<1> QED
  BY <1>5 DEF A, B

\* A submitted frame gets a place; the others keep theirs.
LEMMA EnteredPlaces ==
    ASSUME TypeOK, NEW g \in unsent, NEW f
    PROVE  Places(Entered(g), pkt, reports, reported, f) =
             Places(pendingPkt, pkt, reports, reported, f) \cup
               IF f = g THEN {<<"pending", Peer[g], AC[g],
                                Len(pendingPkt[Peer[g]][AC[g]]) + 1>>}
               ELSE {}
<1> DEFINE p == Peer[g]
           a == AC[g]
           q == pendingPkt[p][a]
           r == Queued(g)
           z == <<"pending", p, a, Len(q) + 1>>
<1>1. /\ g \in Frames /\ p \in Peers /\ a \in ACs /\ q \in Seq(Frames)
  BY FrameTypes DEF TypeOK
<1>2. /\ Len(q) \in Nat /\ Len(r) = Len(q) + 1
      /\ \A i \in 1 .. Len(q) : r[i] = q[i]
      /\ r[Len(q) + 1] = g /\ r \in Seq(Frames)
  <2>1. r = Append(q, g)
    BY DEF Queued
  <2> HIDE DEF q, r
  <2>2. Len(q) \in Nat
    BY <1>1, LenProperties
  <2> QED
    BY <1>1, <2>1, <2>2, AppendProperties
<1>3. \A p1 \in Peers, a1 \in ACs :
         Entered(g)[p1][a1] = IF p1 = p /\ a1 = a THEN r ELSE pendingPkt[p1][a1]
  BY <1>1, <1>2 DEF Entered, TypeOK
<1> HIDE DEF r
<1>4. ASSUME NEW x
      PROVE  InQueue(x, Entered(g), f) <=>
               InQueue(x, pendingPkt, f) \/ (f = g /\ x = z)
  <2>1. ASSUME InQueue(x, Entered(g), f)
        PROVE  InQueue(x, pendingPkt, f) \/ (f = g /\ x = z)
    <3>1. PICK p1 \in Peers, a1 \in ACs : \E i \in 1 .. Len(Entered(g)[p1][a1]) :
            x = <<"pending", p1, a1, i>> /\ Entered(g)[p1][a1][i] = f
      BY <2>1 DEF InQueue
    <3>2. CASE p1 = p /\ a1 = a
      <4>1. PICK i \in 1 .. Len(r) : x = <<"pending", p, a, i>> /\ r[i] = f
        BY <1>1, <1>3, <3>1, <3>2
      <4>2. CASE i \in 1 .. Len(q)
        BY <1>1, <1>2, <4>1, <4>2 DEF InQueue
      <4>3. CASE i = Len(q) + 1
        BY <1>2, <4>1, <4>3
      <4>4. i \in 1 .. Len(q) \/ i = Len(q) + 1
        BY <1>2
      <4> QED
        BY <4>2, <4>3, <4>4
    <3>3. CASE ~(p1 = p /\ a1 = a)
      BY <1>3, <3>1, <3>3 DEF InQueue
    <3> QED
      BY <3>2, <3>3
  <2>2. ASSUME InQueue(x, pendingPkt, f)
        PROVE  InQueue(x, Entered(g), f)
    <3>1. PICK p1 \in Peers, a1 \in ACs : \E i \in 1 .. Len(pendingPkt[p1][a1]) :
            x = <<"pending", p1, a1, i>> /\ pendingPkt[p1][a1][i] = f
      BY <2>2 DEF InQueue
    <3>2. CASE p1 = p /\ a1 = a
      <4>1. PICK i \in 1 .. Len(q) : x = <<"pending", p, a, i>> /\ q[i] = f
        BY <3>1, <3>2
      <4>2. i \in 1 .. Len(r) /\ r[i] = f
        BY SMTT(30), <1>2, <4>1
      <4> QED
        BY <1>1, <1>3, <4>1, <4>2 DEF InQueue
    <3>3. CASE ~(p1 = p /\ a1 = a)
      BY <1>3, <3>1, <3>3 DEF InQueue
    <3> QED
      BY <3>2, <3>3
  <2>3. ASSUME f = g PROVE InQueue(z, Entered(g), f)
    <3>1. Len(q) + 1 \in 1 .. Len(r) /\ r[Len(q) + 1] = f
      BY <1>2, <2>3
    <3> QED
      BY <1>1, <1>3, <3>1 DEF InQueue
  <2> QED
    BY <2>1, <2>2, <2>3
<1> HIDE DEF z
<1>5. \A x : x \in Places(Entered(g), pkt, reports, reported, f) <=>
               x \in Places(pendingPkt, pkt, reports, reported, f)
               \/ (f = g /\ x = z)
  BY <1>4, InPlaces, Zenon
<1>6. Places(Entered(g), pkt, reports, reported, f) =
        Places(pendingPkt, pkt, reports, reported, f) \cup
          IF f = g THEN {z} ELSE {}
  BY <1>5
<1> QED
  BY <1>6 DEF z

\* A submitted frame has one place, another none.
Located(f) == IF f \in unsent THEN Occurrences(f) = {} ELSE One(Occurrences(f))

LEMMA OccurrencesArePlaces ==
    ASSUME NEW f
    PROVE  /\ Occurrences(f) = Places(pendingPkt, pkt, reports, reported, f)
           /\ Occurrences(f)' = Places(pendingPkt', pkt', reports', reported', f)
  BY Zenon DEF Occurrences, Places

\* Every step keeps the one place of each frame.
LEMMA StepKeepsLocated ==
    ASSUME TypeOK, FrameStep, NEW f \in Frames, Located(f)
    PROVE  Located(f)'
<1> DEFINE A == Places(pendingPkt, pkt, reports, reported, f)
           B == Places(pendingPkt', pkt', reports', reported', f)
<1>1. /\ pkt \in Batches /\ pendingPkt \in PendingQueues /\ reports \subseteq Pile
  BY DEF TypeOK, Batches, PendingQueues
<1>2. IF f \in unsent THEN A = {} ELSE One(A)
  BY OccurrencesArePlaces DEF Located
<1>3. ASSUME IF f \in unsent' THEN B = {} ELSE One(B)
      PROVE  Located(f)'
  BY <1>3, OccurrencesArePlaces DEF Located
<1>4. ASSUME unsent' = unsent, (A = {} => B = {}) /\ (One(A) => One(B))
      PROVE  Located(f)'
  BY <1>2, <1>3, <1>4
<1>5. ASSUME NEW g \in unsent, unsent' = unsent \ {g},
             UNCHANGED <<reports, reported>>,
             \/ pendingPkt' = Entered(g) /\ pkt' = pkt
             \/ \E t \in Tokens : pkt[t] = <<>> /\ Fill(Entered(g), pkt, t)
      PROVE  Located(f)'
  <2> DEFINE C == Places(Entered(g), pkt, reports, reported, f)
             z == <<"pending", Peer[g], AC[g], Len(pendingPkt[Peer[g]][AC[g]]) + 1>>
  <2>1. C = A \cup IF f = g THEN {z} ELSE {}
    BY EnteredPlaces
  <2>2. Entered(g) \in PendingQueues
    <3>1. Peer[g] \in Peers /\ AC[g] \in ACs /\ g \in Frames
      BY FrameTypes DEF TypeOK
    <3>2. Queued(g) \in Seq(Frames)
      BY <1>1, <3>1, AppendProperties DEF PendingQueues, Queued
    <3> QED
      BY <1>1, <3>1, <3>2 DEF Entered, PendingQueues
  <2>3. (C = {} => B = {}) /\ (One(C) => One(B))
    <3>1. CASE pendingPkt' = Entered(g) /\ pkt' = pkt
      BY <1>5, <3>1
    <3>2. ASSUME NEW t \in Tokens, pkt[t] = <<>>, Fill(Entered(g), pkt, t)
          PROVE  (C = {} => B = {}) /\ (One(C) => One(B))
      BY <1>1, <1>5, <2>2, <3>2, FillKeepsPlaces
    <3> QED
      BY <1>5, <3>1, <3>2
  <2> HIDE DEF A, B, C, z
  <2>4. CASE f = g
    <3>1. C = {z}
      BY <1>2, <2>1, <2>4
    <3>2. One(B)
      BY <2>3, <3>1 DEF One
    <3> QED
      BY <1>3, <1>5, <2>4, <3>2
  <2>5. CASE f # g
    <3>1. C = A /\ (f \in unsent' <=> f \in unsent)
      BY <1>5, <2>1, <2>5
    <3> QED
      BY <1>2, <1>3, <2>3, <3>1
  <2> QED
    BY <2>4, <2>5
<1>6. ASSUME NEW t \in Tokens, NEW by, NEW refilled, CutOff(t, by, refilled),
             UNCHANGED <<unsent, reported>>, Fill(pendingPkt, Emptied(t), t)
      PROVE  Located(f)'
  <2> DEFINE C == Places(pendingPkt, Emptied(t), reports', reported, f)
  <2>1. (A = {} => C = {}) /\ (One(A) => One(C))
    BY <1>1, <1>6, CutKeepsPlaces
  <2>2. Emptied(t) \in Batches /\ Emptied(t)[t] = <<>>
    BY <1>1, EmptySeq DEF Emptied, Batches
  <2>3. (C = {} => B = {}) /\ (One(C) => One(B))
    <3>1. reported' = reported
      BY <1>6
    <3>2. LET X == Places(pendingPkt, Emptied(t), reports', reported, f)
              Y == Places(pendingPkt', pkt', reports', reported, f)
          IN  (X = {} => Y = {}) /\ (One(X) => One(Y))
      BY <1>1, <1>6, <2>2, FillKeepsPlaces
    <3> QED
      BY <3>1, <3>2
  <2> HIDE DEF A, B, C
  <2> QED
    BY <1>4, <1>6, <2>1, <2>3
<1>7. ASSUME NEW t \in Tokens, pkt[t] = <<>>, UNCHANGED <<unsent, reports, reported>>,
             Fill(pendingPkt, pkt, t)
      PROVE  Located(f)'
  <2>1. (A = {} => B = {}) /\ (One(A) => One(B))
    BY <1>1, <1>7, FillKeepsPlaces
  <2> QED
    BY <1>4, <1>7, <2>1
<1>8. ASSUME NEW r \in reports, reports' = reports \ {r},
             reported' = TxStatus(r.list), UNCHANGED <<unsent, pendingPkt, pkt>>
      PROVE  Located(f)'
  <2>1. r.list \in Seq(Frames)
    BY <1>1 DEF Pile
  <2>2. (A = {} => B = {}) /\ (One(A) => One(B))
    BY <1>8, <2>1, ReportKeepsPlaces
  <2> QED
    BY <1>4, <1>8, <2>2
<1>9. CASE UNCHANGED <<unsent, pendingPkt, pkt, reports, reported>>
  <2>1. A = B
    BY <1>9
  <2> QED
    BY <1>4, <1>9, <2>1
<1> QED
  BY <1>5, <1>6, <1>7, <1>8, <1>9, Zenon DEF FrameStep

-----------------------------------------------------------------------------
(* The invariant and the theorems.                                         *)

FrameInv ==
    /\ \A f \in Frames : Located(f)
    /\ Ordered(unsent, pendingPkt, pkt)
    /\ \A t \in Tokens : BatchOK(pkt[t])

LEMMA InitFrameInv == Init => FrameInv
<1> SUFFICES ASSUME Init PROVE FrameInv
  OBVIOUS
<1>1. Len(<<>>) = 0
  BY EmptySeq
<1>2. /\ \A p \in Peers, a \in ACs : pendingPkt[p][a] = <<>>
      /\ \A t \in Tokens : pkt[t] = <<>>
      /\ unsent = Frames /\ reports = {} /\ reported = {}
  BY DEF Init
<1>3. ASSUME NEW f \in Frames PROVE Located(f)
  <2>1. \A x : x \notin Places(pendingPkt, pkt, reports, reported, f)
    <3> TAKE x
    <3>1. ~InQueue(x, pendingPkt, f) /\ ~InBatch(x, pkt, f)
          /\ ~InReport(x, reports, f)
      BY <1>1, <1>2 DEF InQueue, InBatch, InReport
    <3> QED
      BY <1>2, <3>1, InPlaces
  <2>2. Places(pendingPkt, pkt, reports, reported, f) = {}
    BY <2>1
  <2> QED
    BY <1>2, <2>2, OccurrencesArePlaces DEF Located
<1>4. Ordered(unsent, pendingPkt, pkt)
  BY <1>1, <1>2 DEF Ordered, QueueInOrder
<1>5. \A t \in Tokens : BatchOK(pkt[t])
  BY <1>1, <1>2 DEF BatchOK
<1> QED
  BY <1>3, <1>4, <1>5 DEF FrameInv

LEMMA StepFrameInv == IInv /\ FrameInv /\ [Next]_vars => FrameInv'
<1> SUFFICES ASSUME IInv, FrameInv, [Next]_vars PROVE FrameInv'
  OBVIOUS
<1>1. FrameStep /\ TypeOK
  BY NextFrameStep DEF IInv
<1>2. (\A f \in Frames : Located(f))'
  BY <1>1, StepKeepsLocated DEF FrameInv
<1>3. Ordered(unsent, pendingPkt, pkt)'
  BY <1>1, StepKeepsOrder DEF FrameInv
<1>4. (\A t \in Tokens : BatchOK(pkt[t]))'
  BY <1>1, StepKeepsBatches DEF FrameInv, BatchOK
<1> QED
  BY <1>2, <1>3, <1>4 DEF FrameInv

\* Frames, batches and queues keep these invariants through every step.
THEOREM SpecFrameInv == Spec => [](IInv /\ FrameInv)
<1>1. Init => IInv /\ FrameInv
  BY InitIInv, InitFrameInv
<1>2. (IInv /\ FrameInv) /\ [Next]_vars => (IInv /\ FrameInv)'
  BY NextIInv, StepFrameInv
<1> QED
  BY <1>1, <1>2, PTL DEF Spec

\* A submitted frame is in exactly one list of the driver or reported, in every
\* state: no claim, batch, refill, refusal, release or report loses a frame or
\* doubles it, for any number of frames, tokens and ACs.
THEOREM NoFrameLostOrDoubled == Spec => []FramesConserved
<1>1. FrameInv => FramesConserved
  BY FS_EmptySet, FS_Singleton DEF FrameInv, FramesConserved, Located, One
<1> QED
  BY <1>1, SpecFrameInv, PTL

\* Whatever tokens serve a flow, and however often its queue is refilled in
\* between, its frames leave the pending queue in the order of submission.
THEOREM FlowsKeepOrder == Spec => []FlowsInOrder
<1>1. FrameInv => FlowsInOrder
  BY DEF FrameInv, Ordered, QueueInOrder, FlowsInOrder
<1> QED
  BY <1>1, SpecFrameInv, PTL

\* Every batch of several frames that any of the three callers of
\* rpu_tx_proc_pend_frms builds can be sent as one A-MPDU.
THEOREM BatchesCanAggregate == Spec => []BatchesAggregate
<1>1. FrameInv => BatchesAggregate
  BY DEF FrameInv, BatchOK, BatchesAggregate
<1> QED
  BY <1>1, SpecFrameInv, PTL
-----------------------------------------------------------------------------
(* The token pool implements TxService: where a frame is, in its terms.     *)

Waits(pend, f) == f \in Range(pend[Peer[f]][AC[f]])
Carries(pk, f) == \E t \in Tokens : f \in Range(pk[t])
Returned(rep, f) == \E r \in rep : f \in Range(r.list)

\* Service stands at stage s exactly for the frames at the place it names.
StageIs(f) ==
    /\ StageOf(f) \in Service!Stages
    /\ StageOf(f) = "new" <=> f \in unsent
    /\ StageOf(f) = "queued" <=> Waits(pendingPkt, f)
    /\ StageOf(f) = "held" <=> Carries(pkt, f)
    /\ StageOf(f) = "back" <=> Returned(reports, f)
    /\ StageOf(f) = "reported" <=> f \in reported

LEMMA MemberAt ==
    \A s \in Seq(Frames) : \A x : x \in Range(s) <=> \E i \in 1 .. Len(s) : s[i] = x
<1> TAKE s \in Seq(Frames)
<1>1. DOMAIN s = 1 .. Len(s)
  BY LenProperties
<1> QED
  BY <1>1 DEF Range

\* The one place of a frame decides its stage.
LEMMA PlaceGivesStage ==
    TypeOK /\ FrameInv => \A f \in Frames : StageIs(f)
<1> SUFFICES ASSUME TypeOK, FrameInv, NEW f \in Frames PROVE StageIs(f)
  OBVIOUS
<1> DEFINE A == Places(pendingPkt, pkt, reports, reported, f)
           Q(x) == InQueue(x, pendingPkt, f)
           B(x) == InBatch(x, pkt, f)
           R(x) == InReport(x, reports, f)
           D(x) == x = <<"reported">> /\ f \in reported
<1>1. /\ \A p \in Peers, a \in ACs : pendingPkt[p][a] \in Seq(Frames)
      /\ \A t \in Tokens : pkt[t] \in Seq(Frames)
      /\ \A r \in reports : r.list \in Seq(Frames)
      /\ Peer[f] \in Peers /\ AC[f] \in ACs
  BY FrameTypes DEF TypeOK, Pile
<1>2. IF f \in unsent THEN A = {} ELSE One(A)
  BY OccurrencesArePlaces DEF FrameInv, Located
<1>3. \A x : x \in A <=> Q(x) \/ B(x) \/ R(x) \/ D(x)
  BY InPlaces
<1>4. Waits(pendingPkt, f) <=> \E x : Q(x)
  <2>1. ASSUME Waits(pendingPkt, f) PROVE \E x : Q(x)
    <3>1. PICK i \in 1 .. Len(pendingPkt[Peer[f]][AC[f]]) :
            pendingPkt[Peer[f]][AC[f]][i] = f
      BY <1>1, <2>1, MemberAt DEF Waits
    <3>2. Q(<<"pending", Peer[f], AC[f], i>>)
      BY <1>1, <3>1 DEF InQueue
    <3> QED
      BY <3>2
  <2>2. ASSUME NEW p \in Peers, NEW a \in ACs, NEW i \in 1 .. Len(pendingPkt[p][a]),
               pendingPkt[p][a][i] = f
        PROVE  Waits(pendingPkt, f)
    <3>1. AC[f] = a /\ Peer[f] = p
      BY <2>2 DEF FrameInv, Ordered, QueueInOrder
    <3> QED
      BY <1>1, <2>2, <3>1, MemberAt DEF Waits
  <2> QED
    BY <2>1, <2>2 DEF InQueue
<1>5. Carries(pkt, f) <=> \E x : B(x)
  <2>1. ASSUME NEW t \in Tokens, f \in Range(pkt[t]) PROVE \E x : B(x)
    <3>1. PICK i \in 1 .. Len(pkt[t]) : pkt[t][i] = f
      BY <1>1, <2>1, MemberAt
    <3>2. B(<<"pkt", t, i>>)
      BY <3>1 DEF InBatch
    <3> QED
      BY <3>2
  <2>2. ASSUME NEW x, B(x) PROVE Carries(pkt, f)
    BY <1>1, <2>2, MemberAt DEF Carries, InBatch
  <2> QED
    BY <2>1, <2>2 DEF Carries
<1>6. Returned(reports, f) <=> \E x : R(x)
  <2>1. ASSUME NEW r \in reports, f \in Range(r.list) PROVE \E x : R(x)
    <3>1. PICK i \in 1 .. Len(r.list) : r.list[i] = f
      BY <1>1, <2>1, MemberAt
    <3>2. R(<<"report", r, i>>)
      BY <3>1 DEF InReport
    <3> QED
      BY <3>2
  <2>2. ASSUME NEW x, R(x) PROVE Returned(reports, f)
    BY <1>1, <2>2, MemberAt DEF Returned, InReport
  <2> QED
    BY <2>1, <2>2 DEF Returned
<1>7. f \in reported <=> \E x : D(x)
  OBVIOUS
<1>8. \A x : /\ Q(x) => x[1] = "pending"
             /\ B(x) => x[1] = "pkt"
             /\ R(x) => x[1] = "report"
             /\ D(x) => x[1] = "reported"
  BY DEF InQueue, InBatch, InReport
<1> HIDE DEF Q, B, R, D, A
<1>9. /\ f \in unsent => \A x : ~Q(x) /\ ~B(x) /\ ~R(x) /\ ~D(x)
      /\ f \notin unsent => \E y : \A x : Q(x) \/ B(x) \/ R(x) \/ D(x) <=> x = y
  BY <1>2, <1>3 DEF One
<1>10. /\ f \in unsent => /\ ~Waits(pendingPkt, f) /\ ~Carries(pkt, f)
                          /\ ~Returned(reports, f) /\ f \notin reported
       /\ Waits(pendingPkt, f) => /\ ~Carries(pkt, f) /\ ~Returned(reports, f)
                                  /\ f \notin reported
       /\ Carries(pkt, f) => ~Returned(reports, f) /\ f \notin reported
       /\ Returned(reports, f) => f \notin reported
       /\ f \in unsent \/ Waits(pendingPkt, f) \/ Carries(pkt, f)
          \/ Returned(reports, f) \/ f \in reported
  <2>1. CASE f \in unsent
    BY <1>4, <1>5, <1>6, <1>7, <1>9, <2>1
  <2>2. CASE f \notin unsent
    <3>1. PICK y : \A x : Q(x) \/ B(x) \/ R(x) \/ D(x) <=> x = y
      BY <1>9, <2>2
    <3>2. /\ Waits(pendingPkt, f) <=> Q(y)
          /\ Carries(pkt, f) <=> B(y)
          /\ Returned(reports, f) <=> R(y)
          /\ f \in reported <=> D(y)
      BY <1>4, <1>5, <1>6, <1>7, <3>1
    <3> QED
      BY <1>8, <2>2, <3>1, <3>2
  <2> QED
    BY <2>1, <2>2
<1>11. StageOf(f) = IF f \in unsent THEN "new"
                    ELSE IF Waits(pendingPkt, f) THEN "queued"
                    ELSE IF Carries(pkt, f) THEN "held"
                    ELSE IF Returned(reports, f) THEN "back" ELSE "reported"
  BY <1>10 DEF StageOf, Waits, Carries, Returned
<1> QED
  BY <1>10, <1>11 DEF StageIs, Service!Stages

\* Cutting a batch off a queue: what waited waits on or is carried, and what
\* other tokens carry stays.
LEMMA FillMoves ==
    ASSUME NEW pend \in PendingQueues, NEW pk \in Batches, NEW t \in Tokens,
           pk[t] = <<>>, Fill(pend, pk, t), NEW f \in Frames
    PROVE  /\ Waits(pend, f) => Waits(pendingPkt', f) \/ Carries(pkt', f)
           /\ Carries(pk, f) => Carries(pkt', f)
<1>1. CASE pendingPkt' = pend /\ pkt' = pk
  BY <1>1
<1>2. ASSUME NEW p \in Peers, NEW a \in ACs, NEW n \in 1 .. Len(pend[p][a]),
             pendingPkt' = [pend EXCEPT ![p][a] = Rest(pend[p][a], n)],
             pkt' = [pk EXCEPT ![t] = SubSeq(pend[p][a], 1, n)]
      PROVE  /\ Waits(pend, f) => Waits(pendingPkt', f) \/ Carries(pkt', f)
             /\ Carries(pk, f) => Carries(pkt', f)
  <2> DEFINE q == pend[p][a]
             b == SubSeq(q, 1, n)
             r == Rest(q, n)
  <2>1. q \in Seq(Frames) /\ n \in 1 .. Len(q) /\ Peer[f] \in Peers /\ AC[f] \in ACs
    BY FrameTypes DEF PendingQueues
  <2>2. /\ b \in Seq(Frames) /\ r \in Seq(Frames)
        /\ Len(q) \in Nat /\ n \in Nat /\ Len(b) = n /\ Len(r) = Len(q) - n
        /\ \A i \in 1 .. n : b[i] = q[i]
        /\ \A i \in 1 .. Len(q) - n : r[i] = q[n + i]
    BY <2>1, CutParts
  <2>3. /\ pkt'[t] = b /\ \A u \in Tokens \ {t} : pkt'[u] = pk[u]
        /\ pendingPkt'[p][a] = r
        /\ \A s \in Peers, c \in ACs : <<s, c>> # <<p, a>> =>
             pendingPkt'[s][c] = pend[s][c]
    BY <1>2 DEF Batches, PendingQueues
  <2> HIDE DEF q, b, r
  <2>4. ASSUME Waits(pend, f) PROVE Waits(pendingPkt', f) \/ Carries(pkt', f)
    <3>1. CASE <<Peer[f], AC[f]>> # <<p, a>>
      BY <2>1, <2>3, <2>4, <3>1 DEF Waits
    <3>2. CASE <<Peer[f], AC[f]>> = <<p, a>>
      <4>1. f \in Range(q)
        BY <2>4, <3>2 DEF Waits, q
      <4>2. PICK i \in 1 .. Len(q) : q[i] = f
        BY <2>1, <4>1, MemberAt
      <4>3. CASE i =< n
        <5>1. i \in 1 .. Len(b) /\ b[i] = f
          BY <2>2, <4>2, <4>3
        <5>2. f \in Range(b)
          BY <2>2, <5>1, MemberAt
        <5> QED
          BY <2>3, <5>2 DEF Carries
      <4>4. CASE i > n
        <5>1. i - n \in 1 .. Len(r) /\ r[i - n] = f
          <6>1. i - n \in 1 .. Len(q) - n /\ n + (i - n) = i
            BY <2>2, <4>4
          <6> QED
            BY <2>2, <4>2, <6>1
        <5>2. f \in Range(r)
          BY <2>2, <5>1, MemberAt
        <5> QED
          BY <2>3, <3>2, <5>2 DEF Waits
      <4> QED
        BY <2>2, <4>3, <4>4
    <3> QED
      BY <3>1, <3>2
  <2>5. ASSUME NEW u \in Tokens, f \in Range(pk[u]) PROVE Carries(pkt', f)
    <3>1. u # t
      <4>1. pk[u] \in Seq(Frames)
        BY DEF Batches
      <4>2. PICK i \in 1 .. Len(pk[u]) : pk[u][i] = f
        BY <2>5, <4>1, MemberAt
      <4>3. Len(pk[t]) = 0
        BY EmptySeq
      <4> QED
        BY <4>2, <4>3
    <3> QED
      BY <2>3, <2>5, <3>1 DEF Carries
  <2> QED
    BY <2>4, <2>5 DEF Carries
<1>3. CASE \E p \in Peers, a \in ACs : \E n \in 1 .. Len(pend[p][a]) :
             /\ pendingPkt' = [pend EXCEPT ![p][a] = Rest(pend[p][a], n)]
             /\ pkt' = [pk EXCEPT ![t] = SubSeq(pend[p][a], 1, n)]
  BY <1>2, <1>3
<1> QED
  BY <1>1, <1>3 DEF Fill

\* What a batch leaves waiting is no older than what it takes of the flow.
LEMMA FillTakesFirst ==
    ASSUME NEW uns \in SUBSET Frames, NEW pend \in PendingQueues,
           NEW pk \in Batches, NEW t \in Tokens, Fill(pend, pk, t),
           Ordered(uns, pend, pk), NEW f \in Frames, NEW g \in Frames,
           SameFlow(f, g), f < g,
           Waits(pend, g), ~Waits(pendingPkt', g)
    PROVE  f \notin uns /\ ~Waits(pendingPkt', f)
<1>1. PICK p \in Peers, a \in ACs : \E n \in 1 .. Len(pend[p][a]) :
         pendingPkt' = [pend EXCEPT ![p][a] = Rest(pend[p][a], n)]
  BY DEF Fill
<1> DEFINE q == pend[p][a]
<1>2. PICK n \in 1 .. Len(q) : pendingPkt' = [pend EXCEPT ![p][a] = Rest(q, n)]
  BY <1>1
<1> DEFINE r == Rest(q, n)
<1>3. /\ q \in Seq(Frames) /\ Peer[f] = Peer[g] /\ AC[f] = AC[g]
      /\ Peer[g] \in Peers /\ AC[g] \in ACs /\ Frames \subseteq Nat
  BY FrameTypes, TxFrames DEF PendingQueues, SameFlow, Flow
<1>4. /\ r \in Seq(Frames) /\ Len(q) \in Nat /\ n \in Nat /\ Len(r) = Len(q) - n
      /\ \A i \in 1 .. Len(q) - n : r[i] = q[n + i]
  BY <1>3, CutParts
<1>5. /\ pendingPkt'[p][a] = r
      /\ \A s \in Peers, c \in ACs : <<s, c>> # <<p, a>> =>
           pendingPkt'[s][c] = pend[s][c]
  BY <1>2 DEF PendingQueues
<1>6. /\ \A i \in 1 .. Len(q) : \A j \in 1 .. i - 1 : q[j] < q[i]
      /\ \A i \in 1 .. Len(q) : \A u \in uns : SameFlow(q[i], u) => q[i] < u
  BY DEF Ordered, QueueInOrder
<1> HIDE DEF q, r
<1>7. Peer[g] = p /\ AC[g] = a
  BY <1>3, <1>5 DEF Waits
<1>8. PICK j \in 1 .. Len(q) : q[j] = g
  <2>1. g \in Range(q)
    BY <1>7 DEF Waits, q
  <2> QED
    BY <1>3, <2>1, MemberAt
<1>9. ASSUME j > n PROVE FALSE
  <2>1. j - n \in 1 .. Len(q) - n /\ n + (j - n) = j
    BY <1>4, <1>9
  <2>2. j - n \in 1 .. Len(r) /\ r[j - n] = g
    BY <1>4, <1>8, <2>1
  <2>3. g \in Range(r)
    BY <1>4, <2>2, MemberAt
  <2> QED
    BY <1>5, <1>7, <2>3 DEF Waits
<1>10. ~Waits(pendingPkt', f)
  <2> SUFFICES ASSUME f \in Range(r) PROVE FALSE
    BY <1>3, <1>5, <1>7 DEF Waits
  <2>1. PICK i \in 1 .. Len(r) : r[i] = f
    BY <1>4, MemberAt
  <2>2. n + i \in 1 .. Len(q) /\ j \in 1 .. (n + i) - 1 /\ q[n + i] = f
    BY <1>4, <1>9, <2>1
  <2>3. g < f
    BY <1>6, <1>8, <2>2
  <2> QED
    BY <1>3, <2>3
<1>11. f \notin uns
  <2> SUFFICES ASSUME f \in uns PROVE FALSE
    OBVIOUS
  <2>1. SameFlow(g, f)
    BY DEF SameFlow
  <2>2. g < f
    BY <1>6, <1>8, <2>1
  <2> QED
    BY <1>3, <2>2
<1> QED
  BY <1>10, <1>11

\* A frame that enters its queue waits there, and so do those before it.
LEMMA EnteredWaits ==
    ASSUME pendingPkt \in PendingQueues, NEW f \in Frames, NEW g \in Frames
    PROVE  /\ Waits(Entered(f), f)
           /\ Waits(pendingPkt, g) => Waits(Entered(f), g)
<1> DEFINE q == pendingPkt[Peer[f]][AC[f]]
           r == Queued(f)
<1>1. /\ q \in Seq(Frames)
      /\ Peer[f] \in Peers /\ AC[f] \in ACs /\ Peer[g] \in Peers /\ AC[g] \in ACs
  BY FrameTypes DEF PendingQueues
<1>2. /\ r \in Seq(Frames) /\ Len(q) \in Nat /\ Len(r) = Len(q) + 1
      /\ \A i \in 1 .. Len(q) : r[i] = q[i]
      /\ r[Len(q) + 1] = f
  <2>1. r = Append(q, f)
    BY DEF Queued
  <2> HIDE DEF q, r
  <2>2. Len(q) \in Nat
    BY <1>1, LenProperties
  <2> QED
    BY <1>1, <2>1, <2>2, AppendProperties
<1>3. /\ Entered(f)[Peer[f]][AC[f]] = r
      /\ \A s \in Peers, c \in ACs : <<s, c>> # <<Peer[f], AC[f]>> =>
           Entered(f)[s][c] = pendingPkt[s][c]
  BY <1>1 DEF Entered, PendingQueues
<1> HIDE DEF q, r
<1>4. Waits(Entered(f), f)
  <2>1. Len(q) + 1 \in 1 .. Len(r)
    BY <1>2
  <2>2. f \in Range(r)
    BY <1>2, <2>1, MemberAt
  <2> QED
    BY <1>3, <2>2 DEF Waits
<1>5. ASSUME Waits(pendingPkt, g) PROVE Waits(Entered(f), g)
  <2>1. CASE <<Peer[g], AC[g]>> # <<Peer[f], AC[f]>>
    BY <1>1, <1>3, <1>5, <2>1 DEF Waits
  <2>2. CASE <<Peer[g], AC[g]>> = <<Peer[f], AC[f]>>
    <3>1. g \in Range(q)
      BY <1>5, <2>2 DEF Waits, q
    <3>2. PICK i \in 1 .. Len(q) : q[i] = g
      BY <1>1, <3>1, MemberAt
    <3>3. i \in 1 .. Len(r) /\ r[i] = g
      BY <1>2, <3>2
    <3>4. g \in Range(r)
      BY <1>2, <3>3, MemberAt
    <3> QED
      BY <1>3, <2>2, <3>4 DEF Waits
  <2> QED
    BY <2>1, <2>2
<1> QED
  BY <1>4, <1>5

\* The moves of a frame: its place in the next state, for each place now.
GoesForward(f) ==
    /\ f \in unsent => \/ f \in unsent' \/ Waits(pendingPkt', f)
                       \/ Carries(pkt', f)
    /\ Waits(pendingPkt, f) => Waits(pendingPkt', f) \/ Carries(pkt', f)
    /\ Carries(pkt, f) => Carries(pkt', f) \/ Returned(reports', f)
    /\ Returned(reports, f) => Returned(reports', f) \/ f \in reported'
    /\ f \in reported => f \in reported'

\* No step takes a frame backwards or past a place.
LEMMA StepForward ==
    ASSUME TypeOK, FrameStep, NEW f \in Frames
    PROVE  GoesForward(f)
<1>1. /\ pkt \in Batches /\ pendingPkt \in PendingQueues /\ unsent \subseteq Frames
  BY DEF TypeOK, Batches, PendingQueues
<1>2. ASSUME NEW h \in unsent, \A g \in unsent : SameFlow(h, g) => h =< g,
             unsent' = unsent \ {h}, UNCHANGED <<reports, reported>>,
             \/ pendingPkt' = Entered(h) /\ pkt' = pkt
             \/ \E t \in Tokens : pkt[t] = <<>> /\ Fill(Entered(h), pkt, t)
      PROVE  GoesForward(f)
  <2>1. /\ Waits(Entered(h), h) /\ (Waits(pendingPkt, f) => Waits(Entered(h), f))
    BY <1>1, EnteredWaits
  <2>2. CASE pendingPkt' = Entered(h) /\ pkt' = pkt
    BY <1>2, <2>1, <2>2 DEF GoesForward
  <2>3. ASSUME NEW t \in Tokens, pkt[t] = <<>>, Fill(Entered(h), pkt, t) PROVE GoesForward(f)
    <3>1. Entered(h) \in PendingQueues
      <4>1. h \in Frames /\ Peer[h] \in Peers /\ AC[h] \in ACs
        BY <1>1, FrameTypes
      <4>2. Queued(h) \in Seq(Frames)
        BY <1>1, <4>1, AppendProperties DEF Queued, PendingQueues
      <4> QED
        BY <1>1, <4>1, <4>2 DEF Entered, PendingQueues
    <3>2. /\ Waits(Entered(h), f) => Waits(pendingPkt', f) \/ Carries(pkt', f)
          /\ Carries(pkt, f) => Carries(pkt', f)
      BY <1>1, <2>3, <3>1, FillMoves
    <3> QED
      BY <1>2, <2>1, <3>2 DEF GoesForward
  <2> QED
    BY <1>2, <2>2, <2>3
<1>3. ASSUME NEW t \in Tokens, NEW by \in {"tx", "rx"}, NEW refilled \in BOOLEAN,
             CutOff(t, by, refilled), UNCHANGED <<unsent, reported>>,
             Fill(pendingPkt, Emptied(t), t)
      PROVE  GoesForward(f)
  <2>1. Emptied(t) \in Batches /\ Emptied(t)[t] = <<>>
        /\ \A u \in Tokens \ {t} : Emptied(t)[u] = pkt[u]
    BY <1>1 DEF Emptied, Batches
  <2>2. /\ Waits(pendingPkt, f) => Waits(pendingPkt', f) \/ Carries(pkt', f)
        /\ Carries(Emptied(t), f) => Carries(pkt', f)
    BY <1>1, <1>3, <2>1, FillMoves
  <2>3. Returned(reports, f) => Returned(reports', f)
    BY <1>3 DEF CutOff, Returned
  <2>4. f \in Range(pkt[t]) => Returned(reports', f)
    <3> SUFFICES ASSUME f \in Range(pkt[t]) PROVE Returned(reports', f)
      OBVIOUS
    <3>1. pkt[t] # <<>>
      <4>1. PICK i \in 1 .. Len(pkt[t]) : pkt[t][i] = f
        BY <1>1, MemberAt DEF Batches
      <4> QED
        BY <4>1, EmptySeq
    <3> DEFINE r == [list |-> pkt[t], by |-> by,
                     token |-> IF refilled THEN t ELSE NumTokens]
    <3>2. r \in reports' /\ r.list = pkt[t]
      BY <1>3, <3>1 DEF CutOff
    <3> QED
      BY <3>2 DEF Returned
  <2>5. Carries(pkt, f) => Carries(Emptied(t), f) \/ f \in Range(pkt[t])
    BY <2>1 DEF Carries
  <2> QED
    BY <1>3, <2>2, <2>3, <2>4, <2>5 DEF GoesForward
<1>4. ASSUME NEW t \in Tokens, pkt[t] = <<>>, UNCHANGED <<unsent, reports, reported>>,
             Fill(pendingPkt, pkt, t)
      PROVE  GoesForward(f)
  BY <1>1, <1>4, FillMoves DEF GoesForward
<1>5. ASSUME NEW r \in reports, reports' = reports \ {r}, reported' = TxStatus(r.list),
             UNCHANGED <<unsent, pendingPkt, pkt>>
      PROVE  GoesForward(f)
  BY <1>5 DEF TxStatus, Returned, GoesForward
<1>6. CASE UNCHANGED <<unsent, pendingPkt, pkt, reports, reported>>
  BY <1>6 DEF GoesForward
<1> QED
  BY <1>2, <1>3, <1>4, <1>5, <1>6, Zenon DEF FrameStep

\* Not yet taken by a token.
Waiting(f) == f \in unsent \/ Waits(pendingPkt, f)

\* A flow is taken from its oldest frame on.
OldestFirst ==
    \A f, g \in Frames : SameFlow(f, g) /\ f < g /\ Waiting(f) => Waiting(g)

LEMMA StepTakesOldest ==
    ASSUME TypeOK, FrameInv, FrameStep, OldestFirst,
           \A f \in Frames : Waiting(f)' => Waiting(f)
    PROVE  OldestFirst'
<1>1. /\ pkt \in Batches /\ pendingPkt \in PendingQueues /\ unsent \in SUBSET Frames
      /\ Ordered(unsent, pendingPkt, pkt)
  BY DEF TypeOK, Batches, PendingQueues, FrameInv
<1> SUFFICES ASSUME NEW f \in Frames, NEW g \in Frames, SameFlow(f, g), f < g,
                    Waiting(f)', ~Waiting(g)'
             PROVE  FALSE
  BY DEF OldestFirst, SameFlow, Flow
<1>2. Waiting(g)
  BY DEF OldestFirst
<1>3. ASSUME NEW uns \in SUBSET Frames, NEW pend \in PendingQueues,
             NEW pk \in Batches, NEW t \in Tokens, Fill(pend, pk, t),
             Ordered(uns, pend, pk), unsent' = uns, Waits(pend, g)
      PROVE  FALSE
  <2>1. f \notin uns /\ ~Waits(pendingPkt', f)
    BY <1>3, FillTakesFirst DEF Waiting
  <2> QED
    BY <1>3, <2>1 DEF Waiting
<1>4. ASSUME NEW h \in unsent, \A k \in unsent : SameFlow(h, k) => h =< k,
             unsent' = unsent \ {h},
             \/ pendingPkt' = Entered(h) /\ pkt' = pkt
             \/ \E t \in Tokens : pkt[t] = <<>> /\ Fill(Entered(h), pkt, t)
      PROVE  FALSE
  <2>1. /\ Ordered(unsent \ {h}, Entered(h), pkt) /\ Entered(h) \in PendingQueues
    BY <1>1, <1>4, EnteredKeepsOrder
  <2>2. Waits(Entered(h), g)
    BY <1>1, <1>2, <1>4, EnteredWaits DEF Waiting
  <2>3. CASE pendingPkt' = Entered(h) /\ pkt' = pkt
    BY <2>2, <2>3 DEF Waiting
  <2>4. CASE \E t \in Tokens : pkt[t] = <<>> /\ Fill(Entered(h), pkt, t)
    BY <1>1, <1>3, <1>4, <2>1, <2>2, <2>4
  <2> QED
    BY <1>4, <2>3, <2>4
<1>5. ASSUME NEW t \in Tokens, UNCHANGED unsent, Fill(pendingPkt, Emptied(t), t)
      PROVE  FALSE
  <2>1. /\ Ordered(unsent, pendingPkt, Emptied(t)) /\ Emptied(t) \in Batches
    BY <1>1, EmptiedKeepsOrder DEF Emptied, Batches
  <2>2. Waits(pendingPkt, g)
    BY <1>2, <1>5 DEF Waiting
  <2> QED
    BY <1>1, <1>3, <1>5, <2>1, <2>2
<1>6. ASSUME NEW t \in Tokens, UNCHANGED unsent, Fill(pendingPkt, pkt, t)
      PROVE  FALSE
  <2>1. Waits(pendingPkt, g)
    BY <1>2, <1>6 DEF Waiting
  <2> QED
    BY <1>1, <1>3, <1>6, <2>1
<1>7. CASE UNCHANGED <<unsent, pendingPkt, pkt>>
  BY <1>2, <1>7 DEF Waiting
<1> QED
  BY <1>4, <1>5, <1>6, <1>7, Zenon DEF FrameStep

\* A sequence has no more members than places.
LEMMA RangeCount ==
    ASSUME NEW s \in Seq(Frames)
    PROVE  IsFiniteSet(Range(s)) /\ Cardinality(Range(s)) =< Len(s)
<1>1. Len(s) \in Nat /\ DOMAIN s = 1 .. Len(s)
  BY LenProperties
<1>2. IsFiniteSet(1 .. Len(s)) /\ Cardinality(1 .. Len(s)) = Len(s)
  BY SMTT(30), <1>1, FS_Interval
<1>3. s \in Surjection(1 .. Len(s), Range(s))
  <2>1. s \in [1 .. Len(s) -> Range(s)]
    BY <1>1 DEF Range
  <2>2. \A x \in Range(s) : \E i \in 1 .. Len(s) : s[i] = x
    BY MemberAt
  <2> QED
    BY <2>1, <2>2 DEF Surjection
<1> QED
  BY <1>2, <1>3, FS_Surjection

\* The frames that the tokens of U carry.
Carried(U) == UNION {Range(pkt[t]) : t \in U}

\* The tokens carry no more frames than their counters add up to.
LEMMA CarriedCount ==
    TypeOK /\ TokenInv =>
        /\ IsFiniteSet(Carried(Tokens))
        /\ Cardinality(Carried(Tokens)) =< SumFunctionOnSet(outstandingPkts, Tokens)
<1> SUFFICES ASSUME TypeOK, TokenInv
             PROVE  /\ IsFiniteSet(Carried(Tokens))
                    /\ Cardinality(Carried(Tokens))
                          =< SumFunctionOnSet(outstandingPkts, Tokens)
  OBVIOUS
<1> DEFINE f == outstandingPkts
           Sum(U) == SumFunctionOnSet(f, U)
           Good(U) == /\ IsFiniteSet(Carried(U))
                      /\ Cardinality(Carried(U)) =< Sum(U)
           Bad == {n \in Nat : \E U \in SUBSET Tokens : Cardinality(U) = n /\ ~Good(U)}
<1>1. IsFiniteSet(Tokens) /\ \A t \in Tokens : f[t] \in Nat
  BY TokensFinite DEF TypeOK
<1>2. Bad = {}
  <2> SUFFICES ASSUME Bad # {} PROVE FALSE
    OBVIOUS
  <2>1. PICK n \in Bad : \A m \in Bad : n =< m
    BY LeastNumber
  <2>2. PICK U \in SUBSET Tokens : Cardinality(U) = n /\ ~Good(U)
    BY <2>1
  <2>3. /\ IsFiniteSet(U) /\ \A t \in U : f[t] \in Nat
        /\ Sum(U) \in Nat
    <3>1. IsFiniteSet(U) /\ \A t \in U : f[t] \in Nat
      BY <1>1, Smaller
    <3> QED
      BY <3>1, SumType
  <2>4. CASE U = {}
    <3>1. Carried(U) = {}
      BY <2>4 DEF Carried
    <3>2. IsFiniteSet({}) /\ Cardinality({}) = 0
      BY FS_EmptySet
    <3> HIDE DEF Sum
    <3> QED
      BY <2>2, <2>3, <3>1, <3>2
  <2>5. CASE U # {}
    <3>1. PICK t \in U : TRUE
      BY <2>5
    <3> DEFINE V == U \ {t}
    <3>2. V \in SUBSET Tokens /\ Cardinality(V) \in Nat /\ Cardinality(V) < n
      <4>1. V \in SUBSET Tokens /\ V \in SUBSET U
        OBVIOUS
      <4>2. Cardinality(V) = Cardinality(U) - 1 /\ Cardinality(U) \in Nat
        BY <1>1, <3>1, Smaller
      <4>3. Cardinality(V) \in Nat
        BY <1>1, <4>1, Smaller
      <4> QED
        BY <2>2, <4>1, <4>2, <4>3
    <3>3. Sum(U) = f[t] + Sum(V) /\ Sum(V) \in Nat
      BY <2>3, SumSplit
    <3>4. Carried(U) = Carried(V) \cup Range(pkt[t])
      BY DEF Carried
    <3>5. /\ IsFiniteSet(Range(pkt[t])) /\ Cardinality(Range(pkt[t])) =< f[t]
          /\ Cardinality(Range(pkt[t])) \in Nat /\ f[t] \in Nat
      <4>1. t \in Tokens /\ pkt[t] \in Seq(Frames) /\ f[t] = Len(pkt[t])
        BY DEF TypeOK, TokenInv
      <4>2. IsFiniteSet(Range(pkt[t])) /\ Cardinality(Range(pkt[t])) =< f[t]
        BY <4>1, RangeCount
      <4> QED
        BY <1>1, <4>1, <4>2, FS_CardinalityType
    <3> HIDE DEF V
    <3>6. Good(V)
      <4> HIDE DEF Good
      <4>1. Cardinality(V) \notin Bad
        BY <2>1, <3>2
      <4> QED
        BY <3>2, <4>1
    <3> HIDE DEF Sum, f
    <3>7. /\ IsFiniteSet(Carried(U))
          /\ Cardinality(Carried(U)) =<
               Cardinality(Carried(V)) + Cardinality(Range(pkt[t]))
      <4> DEFINE A == Carried(V)
                 B == Range(pkt[t])
      <4>1. IsFiniteSet(A) /\ IsFiniteSet(B) /\ A \cap B \in SUBSET A
        BY <3>5, <3>6
      <4> HIDE DEF A, B
      <4>2. /\ IsFiniteSet(A \cup B)
            /\ Cardinality(A \cup B)
                 = Cardinality(A) + Cardinality(B) - Cardinality(A \cap B)
        BY <4>1, FS_Union
      <4>3. IsFiniteSet(A \cap B)
        BY <4>1, FS_Subset
      <4>4. Cardinality(A \cap B) \in Nat /\ Cardinality(A) \in Nat
            /\ Cardinality(B) \in Nat
        BY <4>1, <4>3, FS_CardinalityType
      <4>5. Cardinality(A \cup B) =< Cardinality(A) + Cardinality(B)
        BY <4>2, <4>4
      <4> QED
        BY <3>4, <4>2, <4>5 DEF A, B
    <3>8. Cardinality(Carried(V)) \in Nat /\ Cardinality(Carried(V)) =< Sum(V)
          /\ Cardinality(Carried(U)) \in Nat
      BY <3>6, <3>7, FS_CardinalityType
    <3>9. Cardinality(Carried(U)) =< Sum(U)
      BY <3>3, <3>5, <3>7, <3>8
    <3> QED
      BY <2>2, <3>7, <3>9
  <2> QED
    BY <2>4, <2>5
<1>3. Good(Tokens)
  <2> HIDE DEF Good
  <2> QED
    BY <1>1, <1>2, Smaller
<1> QED
  BY <1>3

ServiceInv == IInv /\ FrameInv /\ LoadInv /\ OldestFirst

\* Every step of the token pool is a step of TxService, or it leaves every
\* frame at its stage.
LEMMA StepIsServiceStep ==
    ASSUME ServiceInv, ServiceInv', [Next]_vars
    PROVE  Service!Next
<1> DEFINE stage == [f \in Frames |-> StageOf(f)]
           held  == {f \in Frames : stage'[f] = "held"}
<1>1. (\A f \in Frames : StageIs(f)) /\ (\A f \in Frames : StageIs(f))'
  <2>1. (TypeOK /\ FrameInv)' => (\A f \in Frames : StageIs(f))'
    BY PlaceGivesStage, PTL
  <2> QED
    BY <2>1, PlaceGivesStage DEF ServiceInv, IInv
<1>2. \A f \in Frames : GoesForward(f)
  BY NextFrameStep, StepForward DEF ServiceInv, IInv
<1>3. \A f \in Frames : stage[f] = StageOf(f) /\ stage'[f] = StageOf(f)'
  OBVIOUS
<1>4. stage' \in [Frames -> Service!Stages]
  BY <1>1 DEF StageIs
<1>5. \A f \in Frames : stage'[f] = stage[f] \/ <<stage[f], stage'[f]>> \in Service!Moves
  <2> SUFFICES ASSUME NEW f \in Frames
               PROVE  stage'[f] = stage[f] \/ <<stage[f], stage'[f]>> \in Service!Moves
    OBVIOUS
  <2> HIDE DEF stage
  <2>1. StageIs(f) /\ StageIs(f)' /\ GoesForward(f)
    BY <1>1, <1>2
  <2>2. CASE StageOf(f) = "new"
    <3>1. StageOf(f)' \in {"new", "queued", "held"}
      BY <2>1, <2>2 DEF StageIs, GoesForward
    <3> QED
      BY <1>3, <2>2, <3>1 DEF Service!Moves
  <2>3. CASE StageOf(f) = "queued"
    <3>1. StageOf(f)' \in {"queued", "held"}
      BY <2>1, <2>3 DEF StageIs, GoesForward
    <3> QED
      BY <1>3, <2>3, <3>1 DEF Service!Moves
  <2>4. CASE StageOf(f) = "held"
    <3>1. StageOf(f)' \in {"held", "back"}
      BY <2>1, <2>4 DEF StageIs, GoesForward
    <3> QED
      BY <1>3, <2>4, <3>1 DEF Service!Moves
  <2>5. CASE StageOf(f) = "back"
    <3>1. StageOf(f)' \in {"back", "reported"}
      BY <2>1, <2>5 DEF StageIs, GoesForward
    <3> QED
      BY <1>3, <2>5, <3>1 DEF Service!Moves
  <2>6. CASE StageOf(f) = "reported"
    <3>1. StageOf(f)' = "reported"
      BY <2>1, <2>6 DEF StageIs, GoesForward
    <3> QED
      BY <1>3, <2>6, <3>1
  <2> QED
    BY <2>1, <2>2, <2>3, <2>4, <2>5, <2>6 DEF StageIs, Service!Stages
<1>6. \A f \in Frames : Service!Taken(stage'[f]) <=> ~Waiting(f)'
  BY <1>1, <1>3 DEF StageIs, Waiting, Service!Taken
<1>7. \A f, g \in Frames : (f < g /\ Flow[f] = Flow[g] /\ Service!Taken(stage'[g]))
                             => Service!Taken(stage'[f])
  <2> HIDE DEF stage
  <2> QED
    BY <1>6 DEF ServiceInv, OldestFirst, SameFlow
<1>8. Cardinality(held) =< MaxFwPkts + 1
  <2>1. (TypeOK /\ TokenInv)' =>
           (/\ IsFiniteSet(Carried(Tokens))
            /\ Cardinality(Carried(Tokens)) =< SumFunctionOnSet(outstandingPkts, Tokens))'
    BY CarriedCount, PTL
  <2>2. held \subseteq Carried(Tokens)'
    <3> SUFFICES ASSUME NEW f \in Frames, stage'[f] = "held"
                 PROVE  f \in Carried(Tokens)'
      OBVIOUS
    <3>1. Carries(pkt', f)
      BY <1>1, <1>3 DEF StageIs
    <3> QED
      BY <3>1 DEF Carries, Carried
  <2> DEFINE all  == Carried(Tokens)'
             load == SumFunctionOnSet(outstandingPkts, Tokens)'
  <2>3. IsFiniteSet(all) /\ Cardinality(all) =< load /\ load =< MaxFwPkts + 1
    BY <2>1 DEF ServiceInv, IInv, LoadInv
  <2>4. load \in Nat
    <3>1. \A t \in Tokens : outstandingPkts'[t] \in Nat
      BY DEF ServiceInv, IInv, TypeOK
    <3> QED
      BY <3>1, TokensFinite, SumType
  <2> HIDE DEF all, load, held
  <2>5. IsFiniteSet(held) /\ Cardinality(held) =< Cardinality(all)
    BY <2>2, <2>3, FS_Subset DEF all
  <2>6. Cardinality(held) \in Nat /\ Cardinality(all) \in Nat
    BY <2>3, <2>5, FS_CardinalityType
  <2> QED
    BY <2>3, <2>4, <2>5, <2>6, TxConstants
<1>9. Service!Cardinality(held) = Cardinality(held)
  BY Zenon DEF Service!Cardinality, Cardinality
<1> HIDE DEF held
<1>10. Service!Cardinality(held) =< MaxFwPkts + 1
  BY <1>8, <1>9
<1> QED
  BY <1>4, <1>5, <1>7, <1>10, Zenon DEF Service!Next, held

LEMMA InitService == Init => OldestFirst /\ Service!Init
<1> SUFFICES ASSUME Init PROVE OldestFirst /\ Service!Init
  OBVIOUS
<1>1. ASSUME NEW f \in Frames PROVE Waiting(f) /\ StageOf(f) = "new"
  <2>1. TypeOK /\ FrameInv /\ f \in unsent
    BY InitIInv, InitFrameInv DEF IInv, Init
  <2> QED
    BY <2>1, PlaceGivesStage DEF StageIs, Waiting
<1> QED
  BY <1>1 DEF OldestFirst, Service!Init

LEMMA StepServiceInv == ServiceInv /\ [Next]_vars => OldestFirst'
<1> SUFFICES ASSUME ServiceInv, [Next]_vars PROVE OldestFirst'
  OBVIOUS
<1>1. FrameStep /\ IInv' /\ FrameInv' /\ TypeOK
  BY NextFrameStep, NextIInv, StepFrameInv DEF ServiceInv, IInv
<1>2. (\A f \in Frames : StageIs(f)) /\ (\A f \in Frames : StageIs(f))'
  <2>1. (TypeOK /\ FrameInv)' => (\A f \in Frames : StageIs(f))'
    BY PlaceGivesStage, PTL
  <2> QED
    BY <1>1, <2>1, PlaceGivesStage DEF ServiceInv, IInv
<1>3. \A f \in Frames : Waiting(f)' => Waiting(f)
  <2> SUFFICES ASSUME NEW f \in Frames, Waiting(f)' PROVE Waiting(f)
    OBVIOUS
  <2>1. StageIs(f) /\ StageIs(f)' /\ GoesForward(f)
    BY <1>1, <1>2, StepForward
  <2>2. StageOf(f)' \in {"new", "queued"}
    BY <2>1 DEF StageIs, Waiting
  <2>3. ~Carries(pkt', f) /\ ~Returned(reports', f) /\ f \notin reported'
    BY <2>1, <2>2 DEF StageIs
  <2>4. ~Carries(pkt, f) /\ ~Returned(reports, f) /\ f \notin reported
    BY <2>1, <2>3 DEF GoesForward
  <2> QED
    BY <2>1, <2>4 DEF StageIs, Waiting, Service!Stages
<1> QED
  BY <1>1, <1>3, StepTakesOldest DEF ServiceInv

\* The token pool implements the transmit service, for any number of frames,
\* flows, ACs and tokens: no critical section of tx.c loses a frame, sends it
\* back or past the firmware, takes it before an older one of its flow, or
\* gives the firmware more than its budget and one.
THEOREM PoolImplementsService == Spec => ImplementsService
<1>1. Init => OldestFirst /\ Service!Init
  BY InitService
<1>2. IInv /\ FrameInv /\ LoadInv /\ OldestFirst /\ [Next]_vars => OldestFirst'
  BY StepServiceInv DEF ServiceInv
<1>3. Spec => []ServiceInv
  BY <1>1, <1>2, SpecFrameInv, SpecLoadInv, PTL DEF Spec, ServiceInv
<1>4. ServiceInv /\ ServiceInv' /\ [Next]_vars => [Service!Next]_([f \in Frames |-> StageOf(f)])
  BY StepIsServiceStep
<1> QED
  BY <1>1, <1>3, <1>4, PTL DEF Spec, ImplementsService, Service!Spec

-----------------------------------------------------------------------------
(* A frame does not stay queued beside free tokens, if the firmware's      *)
(* budget suffices for a full command in each token. For the code's 12     *)
(* tokens and 32 frames that is so without aggregation, and with it when   *)
(* max_tx_cmds is 1 or 2.                                                  *)

LongestBatch == IF Ampdu = {} THEN 1 ELSE MaxTxCmds

AmpleBudget == LongestBatch >= 1 /\ (NumTokens - 1) * LongestBatch < MaxFwPkts

\* A sum of terms that are at most m.
LEMMA SumBounded ==
    ASSUME NEW S, IsFiniteSet(S), NEW f, NEW m \in Nat,
           \A x \in S : f[x] \in Nat /\ f[x] =< m
    PROVE  SumFunctionOnSet(f, S) =< Cardinality(S) * m
<1> DEFINE Sum(U) == SumFunctionOnSet(f, U)
           Bad == {n \in Nat : \E U \in SUBSET S : Cardinality(U) = n /\ ~(Sum(U) =< n * m)}
<1>1. Bad = {}
  <2> SUFFICES ASSUME Bad # {} PROVE FALSE
    OBVIOUS
  <2>1. PICK n \in Bad : \A k \in Bad : n =< k
    BY LeastNumber
  <2>2. PICK U \in SUBSET S : Cardinality(U) = n /\ ~(Sum(U) =< n * m)
    BY <2>1
  <2>3. IsFiniteSet(U) /\ n \in Nat /\ n * m \in Nat
    BY <2>1, <2>2, Smaller
  <2>4. CASE U = {}
    <3>1. Sum(U) = 0
      <4>1. PICK g : IsSum(g, f, U) /\ Sum(U) = g[U]
        BY <2>3, SumIs
      <4> QED
        BY <2>4, <4>1 DEF IsSum, SumRule
    <3> QED
      BY <2>2, <2>3, <3>1
  <2>5. CASE U # {}
    <3>1. PICK x \in U : TRUE
      BY <2>5
    <3> DEFINE V == U \ {x}
    <3>2. V \in SUBSET S /\ Cardinality(V) = n - 1 /\ Cardinality(V) \in Nat
      BY <2>2, <2>3, <3>1, Smaller
    <3>3. Sum(U) = f[x] + Sum(V) /\ Sum(V) \in Nat /\ f[x] \in Nat /\ f[x] =< m
      BY <2>3, SumSplit
    <3> HIDE DEF V
    <3>4. Sum(V) =< (n - 1) * m
      <4> HIDE DEF Sum
      <4>1. Cardinality(V) \notin Bad
        BY <2>1, <2>3, <3>2
      <4> QED
        BY <3>2, <4>1
    <3>5. (n - 1) * m + m = n * m /\ (n - 1) * m \in Nat
      BY <2>3, <3>2
    <3> HIDE DEF Sum
    <3> QED
      BY <2>2, <2>3, <3>3, <3>4, <3>5
  <2> QED
    BY <2>4, <2>5
<1>2. Cardinality(S) \in Nat
  BY Smaller
<1> QED
  BY <1>1, <1>2

\* The other tokens never use the budget up.
LEMMA BudgetLeft ==
    ASSUME AmpleBudget, TypeOK, TokenInv, \A u \in Tokens : BatchOK(pkt[u]),
           NEW t \in Tokens
    PROVE  HasBudget(t)
<1> DEFINE S == Tokens \ {t}
           others == SumFunctionOnSet(outstandingPkts, bufPool \ {t})
<1>0. LongestBatch \in Nat /\ LongestBatch >= 1
  BY TxConstants DEF LongestBatch, AmpleBudget
<1>1. \A u \in S : outstandingPkts[u] \in Nat /\ outstandingPkts[u] =< LongestBatch
  <2> SUFFICES ASSUME NEW u \in S
               PROVE  outstandingPkts[u] \in Nat /\ outstandingPkts[u] =< LongestBatch
    OBVIOUS
  <2>1. outstandingPkts[u] = Len(pkt[u]) /\ BatchOK(pkt[u]) /\ outstandingPkts[u] \in Nat
    BY DEF TypeOK, TokenInv
  <2>2. outstandingPkts[u] > 1 => Ampdu # {} /\ outstandingPkts[u] =< MaxTxCmds
    BY <2>1 DEF BatchOK, Aggregates
  <2> QED
    BY <1>0, <2>1, <2>2, TxConstants DEF LongestBatch
<1>2. IsFiniteSet(S) /\ Cardinality(S) = NumTokens - 1
  <2>1. IsFiniteSet(Tokens) /\ Cardinality(Tokens) = NumTokens
    BY TokenNumbers, FS_Interval DEF Tokens
  <2> QED
    BY <2>1, FS_RemoveElement
<1> HIDE DEF S
<1>3. SumFunctionOnSet(outstandingPkts, S) =< (NumTokens - 1) * LongestBatch
  BY <1>0, <1>1, <1>2, SumBounded
<1>4. bufPool \ {t} \in SUBSET S
  BY DEF TypeOK, S
<1>5. others =< SumFunctionOnSet(outstandingPkts, S) /\ others \in Nat
      /\ SumFunctionOnSet(outstandingPkts, S) \in Nat
  <2>1. IsFiniteSet(bufPool \ {t}) /\ \A u \in bufPool \ {t} : outstandingPkts[u] \in Nat
    BY <1>1, <1>2, <1>4, Smaller
  <2> QED
    BY <1>1, <1>2, <1>4, <2>1, SumPart, SumType
<1>6. FreePkts(t) = IF others >= MaxFwPkts THEN 0 ELSE MaxFwPkts - others
  BY DEF FreePkts
<1> HIDE DEF others
<1>7. (NumTokens - 1) * LongestBatch \in Nat /\ MaxFwPkts \in Nat
  BY <1>0, TxConstants, TokenNumbers
<1>8. FreePkts(t) > 0
  BY <1>3, <1>5, <1>6, <1>7 DEF AmpleBudget
<1> QED
  BY <1>8 DEF HasBudget

Backlog(pend, a) == \E p \in Peers : pend[p][a] # <<>>

\* A token that will come back to AC a is busy.
Busy(D, a) == \E d \in D : d.queue = a \/ (a # BCN /\ d.token \in Spare)

\* rpu_unblock_all_frames will still look at a token of AC a.
Offered(u, a) == \/ u.pc \in {"wake", "load", "store"}
                 \/ u.pc = "token" /\ \E t \in Reserved(a) : t >= u.i

\* The frames of AC a do not wait in vain.
Attended(a) == Backlog(pendingPkt, a) =>
                 blocked \/ Busy(descs, a) \/ Offered(unblock, a)

WaitInv == \A a \in ACs : Attended(a)

\* What rpu_tx_proc_pend_frms leaves queued, given a budget.
LEMMA ProcLeaves ==
    ASSUME NEW pend \in PendingQueues, NEW txq, NEW bmp, NEW hw,
           NEW acs \in SUBSET ACs, NEW t \in Tokens, HasBudget(t)
    PROVE  /\ ProcNone(pend, txq, bmp, hw, acs, t) =>
                /\ pendingPkt' = pend
                /\ blocked \/ \A a \in acs : ~Backlog(pend, a)
           /\ \A ac \in acs : ProcServes(pend, txq, bmp, hw, acs, ac, t) =>
                \A a \in ACs \ {ac} : Backlog(pendingPkt', a) => Backlog(pend, a)
<1>1. ASSUME ProcNone(pend, txq, bmp, hw, acs, t)
      PROVE  pendingPkt' = pend /\ (blocked \/ \A a \in acs : ~Backlog(pend, a))
  BY <1>1 DEF ProcNone, Backlogged, Backlog
<1>2. ASSUME NEW ac \in acs, ProcServes(pend, txq, bmp, hw, acs, ac, t),
             NEW a \in ACs \ {ac}
      PROVE  Backlog(pendingPkt', a) => Backlog(pend, a)
  <2>1. PICK p \in Peers : \E n \in 0 .. Len(pend[p][ac]) :
          pendingPkt' = [pend EXCEPT ![p][ac] = Rest(pend[p][ac], n)]
    BY <1>2, Zenon DEF ProcServes
  <2>2. PICK r : pendingPkt' = [pend EXCEPT ![p][ac] = r]
    BY <2>1
  <2>3. \A u \in Peers : pendingPkt'[u][a] = pend[u][a]
    BY <2>2 DEF PendingQueues
  <2> QED
    BY <2>3 DEF Backlog
<1> QED
  BY <1>1, <1>2

\* A reserved token is reserved for one AC.
LEMMA ReservedOnce ==
    ASSUME NEW a \in ACs, NEW b \in ACs, NEW t \in Reserved(a), t \in Reserved(b)
    PROVE  a = b
<1>1. NumACs \in Nat /\ a \in 0 .. NumACs - 1 /\ b \in 0 .. NumACs - 1
  BY TxConstants DEF ACs
<1>2. PICK j \in 0 .. TokensPerAC - 1 : t = a + NumACs * j
  BY DEF Reserved
<1>3. PICK k \in 0 .. TokensPerAC - 1 : t = b + NumACs * k
  BY DEF Reserved
<1>4. /\ j \in Nat /\ k \in Nat /\ NumACs * j \in Nat /\ NumACs * k \in Nat
      /\ NumACs * (j + 1) = NumACs * j + NumACs
      /\ NumACs * (k + 1) = NumACs * k + NumACs
  BY <1>1, TxConstants
<1>5. CASE j < k
  <2>1. NumACs * (j + 1) =< NumACs * k
    BY <1>1, <1>4, <1>5, ProductMonotone
  <2> QED
    BY <1>1, <1>2, <1>3, <1>4, <2>1
<1>6. CASE k < j
  <2>1. NumACs * (k + 1) =< NumACs * j
    BY <1>1, <1>4, <1>6, ProductMonotone
  <2> QED
    BY <1>1, <1>2, <1>3, <1>4, <2>1
<1>7. CASE j = k
  BY <1>1, <1>2, <1>3, <1>4, <1>7
<1> QED
  BY <1>4, <1>5, <1>6, <1>7

\* A frame that finds no token, or is left to aggregate, has a busy one.
LEMMA NoTokenMeansBusy ==
    ASSUME PoolInv, NEW a \in ACs
    PROVE  /\ FreeTokens(a) = {} => Busy(descs, a)
           /\ outstandingTokens[a] >= TokensPerAC => Busy(descs, a)
<1>1. ASSUME FreeTokens(a) = {} PROVE Busy(descs, a)
  <2>1. a + NumACs * 0 \in Reserved(a)
    BY TxConstants DEF Reserved
  <2>2. PICK t \in Reserved(a) : t \in bufPool
    BY <1>1, <2>1 DEF FreeTokens
  <2>3. PICK d \in descs : d.token = t
    BY <2>2 DEF PoolInv, OneHolderPerToken
  <2>4. d.queue \in ACs /\ t \in Allowed(d.queue)
    BY <2>3 DEF PoolInv, Desc
  <2>5. t \notin Spare
    BY <2>2, ReservedTokens, TokenNumbers DEF Spare
  <2>6. d.queue = a
    BY <2>2, <2>4, <2>5, ReservedOnce DEF Allowed
  <2> QED
    BY <2>3, <2>6 DEF Busy
<1>2. ASSUME outstandingTokens[a] >= TokensPerAC PROVE Busy(descs, a)
  <2>1. Cardinality(Held(descs, a)) >= 1
    BY <1>2, TxConstants DEF PoolInv
  <2>2. Held(descs, a) # {}
    BY <2>1, FS_EmptySet
  <2> QED
    BY <2>2 DEF Held, Busy
<1> QED
  BY <1>1, <1>2

\* A frame comes.
LEMMA TxFrameAttended ==
    ASSUME IInv, \A t \in Tokens : HasBudget(t), WaitInv,
           NEW f \in Frames, TxFrame(f)
    PROVE  WaitInv'
<1> DEFINE ac   == AC[f]
           q    == Queued(f)
           pend == [pendingPkt EXCEPT ![Peer[f]][ac] = q]
           new(t) == [token |-> t, queue |-> ac, at |-> "prog", by |-> "tx"]
<1>1. TypeOK /\ PoolInv /\ ac \in ACs /\ {ac} \in SUBSET ACs /\ Peer[f] \in Peers
  BY FrameTypes DEF IInv
<1>2. UNCHANGED <<blocked, unblock>>
  BY DEF TxFrame, blockVars
<1>3. /\ pend \in PendingQueues /\ Backlog(pend, ac)
      /\ \A a \in ACs \ {ac} : Backlog(pend, a) => Backlog(pendingPkt, a)
  <2>1. pendingPkt \in PendingQueues /\ pendingPkt[Peer[f]][ac] \in Seq(Frames)
    BY <1>1 DEF TypeOK, PendingQueues
  <2>2. q \in Seq(Frames) /\ q # <<>>
    BY <2>1, AppendProperties, EmptySeq DEF Queued
  <2> HIDE DEF q
  <2>3. pend \in PendingQueues /\ pend[Peer[f]][ac] = q
    BY <1>1, <2>1, <2>2 DEF PendingQueues
  <2>4. \A a \in ACs \ {ac} : \A p \in Peers : pend[p][a] = pendingPkt[p][a]
    BY <1>1, <2>1 DEF PendingQueues
  <2> QED
    BY <1>1, <2>2, <2>3, <2>4 DEF Backlog
<1>4. \/ /\ outstandingTokens[ac] >= TokensPerAC \/ FreeTokens(ac) = {}
         /\ pendingPkt' = pend /\ UNCHANGED descs
      \/ \E t \in FreeTokens(ac) : \E bmp, hw :
           /\ ProcNone(pend, pkt[t], bmp, hw, {ac}, t) /\ UNCHANGED descs
      \/ \E t \in FreeTokens(ac) : \E bmp, hw :
           /\ ProcServes(pend, pkt[t], bmp, hw, {ac}, ac, t)
           /\ descs' = descs \cup {new(t)}
  BY Zenon DEF TxFrame, LeftToAggregate
<1> HIDE DEF pend
<1>5. \A t \in FreeTokens(ac) : t \in Tokens
  BY <1>1, FreeTokenAllowed
\* What is to show, from what becomes of ac.
<1>6. ASSUME descs \subseteq descs', blocked \/ Busy(descs', ac),
             \A a \in ACs \ {ac} : Backlog(pendingPkt', a) => Backlog(pend, a)
      PROVE  WaitInv'
  BY <1>2, <1>3, <1>6 DEF WaitInv, Attended, Busy, Offered
<1>7. CASE /\ outstandingTokens[ac] >= TokensPerAC \/ FreeTokens(ac) = {}
           /\ pendingPkt' = pend /\ UNCHANGED descs
  <2>1. Busy(descs, ac)
    BY <1>1, <1>7, NoTokenMeansBusy
  <2> QED
    BY <1>6, <1>7, <2>1
<1>8. ASSUME NEW t \in FreeTokens(ac), NEW bmp, NEW hw,
             ProcNone(pend, pkt[t], bmp, hw, {ac}, t), UNCHANGED descs
      PROVE  WaitInv'
  <2>1. pendingPkt' = pend /\ (blocked \/ ~Backlog(pend, ac))
    BY <1>1, <1>3, <1>5, <1>8, ProcLeaves
  <2> QED
    BY <1>3, <1>6, <1>8, <2>1
<1>9. ASSUME NEW t \in FreeTokens(ac), NEW bmp, NEW hw,
             ProcServes(pend, pkt[t], bmp, hw, {ac}, ac, t),
             descs' = descs \cup {new(t)}
      PROVE  WaitInv'
  <2>1. \A a \in ACs \ {ac} : Backlog(pendingPkt', a) => Backlog(pend, a)
    BY <1>1, <1>3, <1>5, <1>9, ProcLeaves
  <2>2. new(t) \in descs' /\ new(t).queue = ac /\ descs \subseteq descs'
    BY <1>9
  <2>3. Busy(descs', ac)
    BY <2>2, Zenon DEF Busy
  <2> QED
    BY <1>6, <2>1, <2>2, <2>3
<1> QED
  BY <1>4, <1>7, <1>8, <1>9

\* A token is done: it serves an AC of those it may, or they have no frames.
LEMMA DoneAttended ==
    ASSUME IInv, \A t \in Tokens : HasBudget(t), WaitInv,
           NEW d, RpuTxFreeBuffReq(d)
    PROVE  WaitInv'
<1> DEFINE t   == d.token
           acs == Serves(t, d.queue)
           new(ac, who) == [token |-> t, queue |-> ac, at |-> "prog", by |-> who]
<1>1. PoolInv /\ d \in descs /\ pendingPkt \in PendingQueues
  BY DEF IInv, TypeOK, RpuTxFreeBuffReq, PendingQueues
<1>2. t \in Tokens /\ d.queue \in ACs /\ t \in Allowed(d.queue)
  BY <1>1 DEF PoolInv, Desc
<1>3. acs \in SUBSET ACs
  BY <1>2, RefillAllowed
<1>4. UNCHANGED <<blocked, unblock>>
  BY DEF RpuTxFreeBuffReq, blockVars
<1>5. \/ /\ ProcNone(pendingPkt, <<>>, queueStoppedBmp, hwStopped, acs, t)
         /\ descs' = descs \ {d}
      \/ \E ac \in acs : \E who :
         /\ ProcServes(pendingPkt, <<>>, queueStoppedBmp, hwStopped, acs, ac, t)
         /\ descs' = (descs \ {d}) \cup {new(ac, who)}
  BY Zenon DEF RpuTxFreeBuffReq
\* The ACs that the token was going to come back to are those it may serve.
<1>6. \A a \in ACs : d.queue = a \/ (a # BCN /\ t \in Spare) =>
        a \in acs /\ (acs = {a} \/ (a # BCN /\ t \in Spare))
  <2>1. CASE t < NumReserved
    <3>1. t \notin Spare /\ acs = {d.queue}
      BY <1>2, <2>1, TokenNumbers DEF Spare, Tokens, Serves
    <3> QED
      BY <3>1
  <2>2. CASE ~(t < NumReserved)
    <3>1. t \in Spare /\ acs = DataACs /\ t \notin Reserved(d.queue)
      BY <1>2, <2>2, TokenNumbers, ReservedTokens DEF Spare, Tokens, Serves
    <3>2. d.queue # BCN
      BY <1>2, <3>1 DEF Allowed
    <3>3. \A a \in ACs : a # BCN => a \in DataACs
      BY TxConstants DEF ACs, BCN, DataACs, VO
    <3> QED
      BY <3>1, <3>2, <3>3
  <2> QED
    BY <2>1, <2>2
<1> HIDE DEF acs
<1>7. CASE /\ ProcNone(pendingPkt, <<>>, queueStoppedBmp, hwStopped, acs, t)
           /\ descs' = descs \ {d}
  <2>1. pendingPkt' = pendingPkt /\ (blocked \/ \A a \in acs : ~Backlog(pendingPkt, a))
    BY <1>1, <1>2, <1>3, <1>7, ProcLeaves
  <2> SUFFICES ASSUME NEW a \in ACs, Backlog(pendingPkt, a), ~blocked,
                      ~Offered(unblock, a)
               PROVE  Busy(descs', a)
    BY <1>4, <2>1 DEF WaitInv, Attended
  <2>2. PICK e \in descs : e.queue = a \/ (a # BCN /\ e.token \in Spare)
    BY DEF WaitInv, Attended, Busy
  <2>3. e # d
    BY <1>6, <2>1, <2>2
  <2> QED
    BY <1>7, <2>2, <2>3 DEF Busy
<1>8. ASSUME NEW ac \in acs, NEW who,
             ProcServes(pendingPkt, <<>>, queueStoppedBmp, hwStopped, acs, ac, t),
             descs' = (descs \ {d}) \cup {new(ac, who)}
      PROVE  WaitInv'
  <2>1. \A a \in ACs \ {ac} : Backlog(pendingPkt', a) => Backlog(pendingPkt, a)
    BY <1>1, <1>2, <1>3, <1>8, ProcLeaves
  <2>2. new(ac, who) \in descs' /\ new(ac, who).queue = ac /\ new(ac, who).token = t
    BY <1>8
  <2>3. \A a \in ACs : Busy(descs, a) => Busy(descs', a)
    <3> SUFFICES ASSUME NEW a \in ACs, NEW e \in descs,
                        e.queue = a \/ (a # BCN /\ e.token \in Spare)
                 PROVE  Busy(descs', a)
      BY DEF Busy
    <3>1. CASE e = d
      BY <1>6, <1>8, <2>2, <3>1 DEF Busy
    <3>2. CASE e # d
      BY <1>8, <3>2 DEF Busy
    <3> QED
      BY <3>1, <3>2
  <2>4. Busy(descs', ac)
    BY <2>2 DEF Busy
  <2> QED
    BY <1>4, <2>1, <2>3, <2>4 DEF WaitInv, Attended
<1> QED
  BY <1>5, <1>7, <1>8

\* rpu_unblock_all_frames looks at its next token.
LEMMA UnblockTokenAttended ==
    ASSUME IInv, \A t \in Tokens : HasBudget(t), WaitInv, UnblockToken
    PROVE  WaitInv'
<1> DEFINE t   == unblock.i
           acs == Serves(t, t % NumACs)
           new(ac) == [token |-> t, queue |-> ac, at |-> "prog", by |-> "rx"]
<1>1. TypeOK /\ PoolInv /\ pendingPkt \in PendingQueues
  BY DEF IInv, TypeOK, PendingQueues
<1>2. t \in Tokens /\ t \in Nat
  BY <1>1, TokenNumbers DEF UnblockToken, TypeOK, UnblockPC, Tokens
<1>3. acs \in SUBSET ACs
  BY <1>2, UnblockAllowed
<1>4. /\ blocked' = blocked /\ unblock.pc = "token"
      /\ unblock' = IF t + 1 < NumTokens THEN At("token", t + 1) ELSE Idle
  BY DEF UnblockToken
<1>5. \/ t \in bufPool /\ UNCHANGED <<pendingPkt, descs>>
      \/ /\ ProcNone(pendingPkt, pkt[t], queueStoppedBmp, hwStopped, acs, t)
         /\ UNCHANGED descs
      \/ \E ac \in acs :
         /\ ProcServes(pendingPkt, pkt[t], queueStoppedBmp, hwStopped, acs, ac, t)
         /\ descs' = descs \cup {new(ac)}
  BY Zenon DEF UnblockToken, IsFree, frameVars
\* The one AC of a reserved token.
<1>6. ASSUME NEW a \in ACs, t \in Reserved(a) PROVE acs = {a}
  <2>1. t \in 0 .. NumReserved - 1
    BY <1>6, ReservedTokens
  <2>2. t % NumACs \in ACs /\ t \in Reserved(t % NumACs)
    BY <2>1, ReservedFor
  <2>3. t % NumACs = a
    BY <1>6, <2>2, ReservedOnce
  <2> QED
    BY <2>1, <2>3, TokenNumbers DEF Serves
<1>7. ASSUME NEW a \in ACs, t \notin Reserved(a), Offered(unblock, a)
      PROVE  Offered(unblock', a)
  <2>1. PICK u \in Reserved(a) : u >= t
    BY <1>4, <1>7 DEF Offered
  <2>2. u \in Nat /\ u < NumTokens /\ NumTokens \in Nat
    BY ReservedTokens, TokenNumbers
  <2>3. u >= t + 1 /\ t + 1 < NumTokens
    BY <1>2, <1>7, <2>1, <2>2
  <2> QED
    BY <1>4, <2>1, <2>3 DEF Offered, At
<1> HIDE DEF acs
\* What is to show, from what becomes of the AC of a reserved token.
<1>8. ASSUME descs \subseteq descs',
             \A a \in ACs : Backlog(pendingPkt', a) =>
               Backlog(pendingPkt, a) \/ Busy(descs', a),
             \A a \in ACs : t \in Reserved(a) =>
               blocked \/ Busy(descs', a) \/ ~Backlog(pendingPkt', a)
      PROVE  WaitInv'
  <2>1. \A a \in ACs : Busy(descs, a) => Busy(descs', a)
    BY <1>8 DEF Busy
  <2> SUFFICES ASSUME NEW a \in ACs, Backlog(pendingPkt', a), ~blocked,
                      ~Busy(descs', a)
               PROVE  Offered(unblock', a)
    BY <1>4 DEF WaitInv, Attended
  <2>2. Offered(unblock, a)
    BY <1>8, <2>1 DEF WaitInv, Attended
  <2> QED
    BY <1>7, <1>8, <2>2
<1>9. CASE t \in bufPool /\ UNCHANGED <<pendingPkt, descs>>
  <2>1. PICK d \in descs : d.token = t
    BY <1>1, <1>9 DEF PoolInv, OneHolderPerToken
  <2>2. d.queue \in ACs /\ t \in Allowed(d.queue)
    BY <1>1, <2>1 DEF PoolInv, Desc
  <2>3. ASSUME NEW a \in ACs, t \in Reserved(a) PROVE Busy(descs, a)
    <3>1. t \notin Spare
      BY <2>3, ReservedTokens, TokenNumbers DEF Spare
    <3>2. d.queue = a
      BY <2>2, <2>3, <3>1, ReservedOnce DEF Allowed
    <3> QED
      BY <2>1, <3>2 DEF Busy
  <2> QED
    BY <1>8, <1>9, <2>3
<1>10. CASE /\ ProcNone(pendingPkt, pkt[t], queueStoppedBmp, hwStopped, acs, t)
            /\ UNCHANGED descs
  <2>1. pendingPkt' = pendingPkt /\ (blocked \/ \A a \in acs : ~Backlog(pendingPkt, a))
    BY <1>1, <1>2, <1>3, <1>10, ProcLeaves
  <2>2. \A a \in ACs : t \in Reserved(a) => a \in acs
    BY <1>6
  <2> QED
    BY <1>8, <1>10, <2>1, <2>2
<1>11. ASSUME NEW ac \in acs,
              ProcServes(pendingPkt, pkt[t], queueStoppedBmp, hwStopped, acs, ac, t),
              descs' = descs \cup {new(ac)}
       PROVE  WaitInv'
  <2>1. \A a \in ACs \ {ac} : Backlog(pendingPkt', a) => Backlog(pendingPkt, a)
    BY <1>1, <1>2, <1>3, <1>11, ProcLeaves
  <2>2. new(ac) \in descs' /\ new(ac).queue = ac /\ descs \subseteq descs'
    BY <1>11
  <2>3. Busy(descs', ac)
    BY <2>2, Zenon DEF Busy
  <2>4. \A a \in ACs : t \in Reserved(a) => a = ac
    BY <1>6
  <2> QED
    BY <1>8, <2>1, <2>2, <2>3, <2>4
<1> QED
  BY <1>5, <1>9, <1>10, <1>11

\* Blocks, and the part of an unblock before its loop over the tokens.
LEMMA OthersAttended ==
    ASSUME IInv, WaitInv,
           \/ BlockAll \/ UnblockAll \/ UnblockWake \/ UnblockLoad \/ UnblockStore
           \/ (\E d \in descs : RpuProgTx(d)) \/ (\E r \in reports : Report(r))
           \/ UNCHANGED vars
    PROVE  WaitInv'
<1>1. CASE BlockAll
  BY <1>1 DEF BlockAll, WaitInv, Attended
<1>2. CASE UnblockAll
  BY <1>2 DEF UnblockAll, At, WaitInv, Attended, Offered
<1>3. \A i : \A a \in ACs : Offered(AfterWake(i), a)
  <2> SUFFICES ASSUME NEW i, NEW a \in ACs PROVE Offered(AfterWake(i), a)
    OBVIOUS
  <2>1. a + NumACs * 0 \in Reserved(a) /\ a + NumACs * 0 >= 0
    BY TxConstants DEF Reserved, ACs
  <2> QED
    BY <2>1 DEF AfterWake, At, Offered
<1>4. CASE UnblockWake \/ UnblockLoad \/ UnblockStore
  <2>1. \A a \in ACs : Offered(unblock', a)
    <3>1. UnblockWake \/ UnblockStore =>
            unblock' = AfterWake(unblock.i) \/ unblock' = [unblock EXCEPT !.pc = "load"]
      BY DEF UnblockWake, UnblockStore
    <3>2. unblock \in UnblockPC
      BY DEF IInv, TypeOK
    <3>3. UnblockLoad => unblock'.pc = "store"
      BY <3>2 DEF UnblockLoad, UnblockPC
    <3>4. [unblock EXCEPT !.pc = "load"].pc = "load"
      BY <3>2 DEF UnblockPC
    <3>5. unblock'.pc \in {"load", "store"} => \A a \in ACs : Offered(unblock', a)
      BY DEF Offered
    <3>6. CASE UnblockWake \/ UnblockStore
      <4>1. CASE unblock' = AfterWake(unblock.i)
        BY <1>3, <4>1, Zenon
      <4>2. CASE unblock' = [unblock EXCEPT !.pc = "load"]
        BY <3>4, <3>5, <4>2
      <4> QED
        BY <3>1, <3>6, <4>1, <4>2
    <3>7. CASE UnblockLoad
      BY <3>3, <3>5, <3>7
    <3> QED
      BY <1>4, <3>6, <3>7
  <2> QED
    BY <2>1 DEF WaitInv, Attended
<1>5. ASSUME NEW d \in descs, RpuProgTx(d) PROVE WaitInv'
  <2>1. UNCHANGED <<pendingPkt, blocked, unblock>>
    BY <1>5 DEF RpuProgTx, frameVars, blockVars
  <2>2. PICK at : descs' = (descs \ {d}) \cup {[d EXCEPT !.at = at]}
    BY <1>5 DEF RpuProgTx
  <2>3. d \in Desc
    BY DEF IInv, TypeOK
  <2>4. [d EXCEPT !.at = at].queue = d.queue /\ [d EXCEPT !.at = at].token = d.token
    BY <2>3 DEF Desc
  <2>5. \A a \in ACs : Busy(descs, a) => Busy(descs', a)
    BY <2>2, <2>4 DEF Busy
  <2> QED
    BY <2>1, <2>5 DEF WaitInv, Attended
<1>6. CASE (\E r \in reports : Report(r)) \/ UNCHANGED vars
  BY <1>6 DEF Report, vars, frameVars, blockVars, WaitInv, Attended
<1> QED
  BY <1>1, <1>2, <1>4, <1>5, <1>6

\* With an ample budget no frame waits in vain: a frame is queued only while a
\* token that will come back to its AC is busy, while the firmware blocks the
\* driver, or while the unblocking thread has still to offer a token.
THEOREM QueuedFramesGetAToken ==
    ASSUME AmpleBudget
    PROVE  Spec => []QueuedOnlyIfTokensBusy
<1>1. Init => WaitInv
  BY DEF Init, WaitInv, Attended, Backlog
<1>2. IInv /\ FrameInv /\ WaitInv /\ [Next]_vars => WaitInv'
  <2> SUFFICES ASSUME IInv, FrameInv, WaitInv, [Next]_vars PROVE WaitInv'
    OBVIOUS
  <2>1. \A t \in Tokens : HasBudget(t)
    BY AmpleBudget, BudgetLeft DEF IInv, FrameInv
  <2>2. CASE \E f \in Frames : TxFrame(f)
    BY <2>1, <2>2, TxFrameAttended
  <2>3. CASE \E d \in descs : RpuTxFreeBuffReq(d)
    BY <2>1, <2>3, DoneAttended
  <2>4. CASE UnblockToken
    BY <2>1, <2>4, UnblockTokenAttended
  <2> QED
    BY <2>2, <2>3, <2>4, OthersAttended DEF Next, Progress
<1>3. WaitInv => QueuedOnlyIfTokensBusy
  BY DEF WaitInv, Attended, Backlog, Busy, Offered, QueuedOnlyIfTokensBusy, Idle, At
<1> QED
  BY <1>1, <1>2, <1>3, SpecFrameInv, PTL DEF Spec
=============================================================================
