-------------------------- MODULE FwRecovery_proofs --------------------------
(***************************************************************************)
(* Theorems about FwRecovery, for every value of its constants.            *)
(***************************************************************************)
EXTENDS FwRecovery, SequenceTheorems, FiniteSetTheorems, TLAPS

-----------------------------------------------------------------------------
(* Queues.                                                                 *)

\* The members of a queue keep their type.
LEMMA QueueTypes ==
    ASSUME NEW S
    PROVE  /\ <<>> \in Seq(S)
           /\ \A q \in Seq(S), e \in S : Append(q, e) \in Seq(S)
           /\ \A q \in Seq(S) : q # <<>> => Head(q) \in S /\ Tail(q) \in Seq(S)
  OBVIOUS

\* What is appended is in the queue, with all that was in it.
LEMMA InAppend ==
    ASSUME NEW q \in Seq(Tokens), NEW u \in Tokens, NEW t,
           t = u \/ IsIn(t, q)
    PROVE  IsIn(t, Append(q, u))
<1>1. /\ Len(Append(q, u)) = Len(q) + 1 /\ Append(q, u)[Len(q) + 1] = u
      /\ \A i \in 1 .. Len(q) : Append(q, u)[i] = q[i]
      /\ Len(q) \in Nat
  OBVIOUS
<1> QED
  BY <1>1 DEF IsIn

\* What leaves a queue at its head is the head.
LEMMA InTail ==
    ASSUME NEW q \in Seq(Tokens), q # <<>>, NEW t, IsIn(t, q), t # Head(q)
    PROVE  IsIn(t, Tail(q))
<1>1. /\ Len(Tail(q)) = Len(q) - 1 /\ Len(q) \in Nat /\ Len(q) >= 1
      /\ \A i \in 1 .. Len(q) - 1 : Tail(q)[i] = q[i + 1]
      /\ Head(q) = q[1]
  OBVIOUS
<1>2. PICK i \in 1 .. Len(q) : q[i] = t
  BY DEF IsIn
<1>3. i # 1 /\ i - 1 \in 1 .. Len(q) - 1 /\ (i - 1) + 1 = i
  BY <1>1, <1>2
<1>4. Tail(q)[i - 1] = t /\ i - 1 \in 1 .. Len(Tail(q))
  BY <1>1, <1>2, <1>3
<1> QED
  BY <1>4 DEF IsIn

-----------------------------------------------------------------------------
(* Types.                                                                  *)

LEMMA EventKinds ==
    ASSUME NEW e \in Events
    PROVE  e.id = "TX_DONE" => e.token \in Tokens
  BY DEF Events, Done, Event

\* The parts of the state that the actions of one thread share, as the
\* conjuncts of TypeOK speak of them.
PoolTypes == claimed \subseteq Tokens /\ hadSend \subseteq Tokens

TxTypes ==
    /\ txq \in Seq(Tokens) /\ sema \in Nat
    /\ \/ tx \in {TxAt(pc, <<>>) : pc \in {"down", "loop"}}
       \/ \E pc \in {"save", "test", "write"}, t \in Tokens :
             tx = TxAt(pc, <<t>>)

RxTypes ==
    /\ rxq \in Seq(Events)
    /\ rxHeld = <<>> \/ \E e \in Events : rxHeld = <<e>>
    /\ rxEvent = <<>> \/ \E e \in Events : rxEvent = <<e>>
    /\ blocked \in BOOLEAN
    /\ rxPassed \in BOOLEAN /\ (rxPassed => rxHeld # <<>>)

WorkTypes ==
    /\ errProcessing \in BOOLEAN /\ halDisabled \in BOOLEAN
    /\ resetComp \in BOOLEAN /\ workPending \in BOOLEAN
    /\ signalling \subseteq {"tx", "rx"}
    /\ was \in [raced : BOOLEAN, ended : BOOLEAN, left : Nat]
    /\ \E pc \in WorkSteps, i \in Tokens : errWork = WorkAt(pc, i)

FwTypes ==
    /\ fwEvents \in Seq(Events)
    /\ fw \in {"up", "dead", "off"} /\ fwHas \subseteq Tokens
    /\ fwReset \in BOOLEAN /\ fwBlocks \in BOOLEAN

Bounded ==
    /\ sends \in 0 .. MaxSends /\ errors \in 0 .. MaxErrors
    /\ blocks \in 0 .. MaxBlocks

LEMMA Parts ==
    TypeOK <=> /\ PoolTypes /\ TxTypes /\ RxTypes /\ WorkTypes /\ FwTypes
               /\ Bounded
  BY DEF TypeOK, PoolTypes, TxTypes, RxTypes, WorkTypes, FwTypes, Bounded

LEMMA PartsNext ==
    TypeOK' <=> /\ PoolTypes' /\ TxTypes' /\ RxTypes' /\ WorkTypes' /\ FwTypes'
                /\ Bounded'
  BY DEF TypeOK, PoolTypes, TxTypes, RxTypes, WorkTypes, FwTypes, Bounded

\* A part keeps its type when none of its variables changes.
LEMMA Unchanged ==
    /\ PoolTypes /\ UNCHANGED poolVars => PoolTypes'
    /\ TxTypes /\ UNCHANGED txVars => TxTypes'
    /\ RxTypes /\ UNCHANGED rxVars => RxTypes'
    /\ WorkTypes /\ UNCHANGED workVars => WorkTypes'
    /\ FwTypes /\ UNCHANGED fwVars => FwTypes'
    /\ Bounded /\ UNCHANGED bounds => Bounded'
<1>1. /\ PoolTypes /\ UNCHANGED poolVars => PoolTypes'
      /\ TxTypes /\ UNCHANGED txVars => TxTypes'
      /\ Bounded /\ UNCHANGED bounds => Bounded'
  BY DEF PoolTypes, TxTypes, Bounded, poolVars, txVars, bounds
<1>2. RxTypes /\ UNCHANGED rxVars => RxTypes'
  BY DEF RxTypes, rxVars
<1>3. WorkTypes /\ UNCHANGED workVars => WorkTypes'
  BY DEF WorkTypes, workVars
<1>4. FwTypes /\ UNCHANGED fwVars => FwTypes'
  BY DEF FwTypes, fwVars
<1> QED
  BY <1>1, <1>2, <1>3, <1>4

-----------------------------------------------------------------------------
(* The steps that several actions take.                                    *)

LEMMA HalSendTypes ==
    ASSUME TxTypes, Bounded, NEW t \in Tokens, HalSend(t)
    PROVE  TxTypes' /\ Bounded'
<1>1. txq' \in Seq(Tokens)
  BY QueueTypes DEF HalSend, TxTypes
<1>2. sema' \in Nat /\ UNCHANGED <<tx, errors, blocks>>
  BY DEF HalSend, Posted, TxTypes
<1>3. sends' \in 0 .. MaxSends
  BY FwConstants DEF HalSend, Bounded
<1> QED
  BY <1>1, <1>2, <1>3 DEF TxTypes, Bounded

LEMMA CompleteTypes ==
    ASSUME PoolTypes, TxTypes, Bounded, NEW t \in Tokens, Complete(t)
    PROVE  PoolTypes' /\ TxTypes' /\ Bounded'
<1>1. PoolTypes'
  BY DEF PoolTypes, Complete
<1>2. CASE HalSend(t)
  BY <1>1, <1>2, HalSendTypes
<1>3. CASE UNCHANGED <<txVars, bounds>>
  BY <1>1, <1>3, Unchanged
<1> QED
  BY <1>2, <1>3 DEF Complete

-----------------------------------------------------------------------------
(* Every step keeps the types, one lemma for each thread.  What a step      *)
(* leaves alone is left to Unchanged.                                      *)

LEMMA TxThreadTypes ==
    ASSUME TypeOK, TxThread
    PROVE  TypeOK'
<1>0. PoolTypes /\ TxTypes /\ RxTypes /\ WorkTypes /\ FwTypes /\ Bounded
  BY Parts
<1>1. CASE TxDown
  <2>1. TxTypes' /\ UNCHANGED <<poolVars, rxVars, workVars, fwVars, bounds>>
    BY <1>0, <1>1 DEF TxDown, TxAt, TxTypes
  <2> QED
    BY <1>0, <2>1, Unchanged, PartsNext
<1>2. CASE TxDequeue
  <2>1. TxTypes' /\ UNCHANGED <<poolVars, rxVars, workVars, fwVars, bounds>>
    BY <1>0, <1>2 DEF TxDequeue, TxAt, TxTypes
  <2> QED
    BY <1>0, <2>1, Unchanged, PartsNext
<1>3. CASE TxSave
  <2>1. PoolTypes' /\ TxTypes' /\ UNCHANGED <<rxVars, workVars, fwVars, bounds>>
    BY <1>0, <1>3 DEF TxSave, TxAt, Noted, PoolTypes, TxTypes
  <2> QED
    BY <1>0, <2>1, Unchanged, PartsNext
<1>4. CASE TxTest
  <2>1. TxTypes' /\ UNCHANGED <<poolVars, rxVars, workVars, fwVars, bounds>>
    BY <1>0, <1>4 DEF TxTest, TxAt, TxTypes
  <2> QED
    BY <1>0, <2>1, Unchanged, PartsNext
<1>5. CASE TxWrite
  <2>1. PICK t \in Tokens : tx = TxAt("write", <<t>>)
    BY <1>0, <1>5 DEF TxWrite, TxAt, TxTypes
  <2>2. TxTypes' /\ UNCHANGED <<poolVars, rxVars, bounds>>
    BY <1>0, <1>5 DEF TxWrite, TxAt, TxTypes
  <2>3. tx.cmd[1] = t
    BY <2>1 DEF TxAt
  <2>4. fwHas' \subseteq Tokens
    BY <1>0, <1>5, <2>3 DEF TxWrite, FwTypes
  <2>5. FwTypes'
    BY <1>0, <1>5, <2>4 DEF TxWrite, FwTypes
  <2>6. signalling' \subseteq {"tx", "rx"}
    BY <1>0, <1>5 DEF TxWrite, SignalTest, WorkTypes
  <2>7. WorkTypes'
    BY <1>0, <1>5, <2>6 DEF TxWrite, WorkTypes
  <2> QED
    BY <1>0, <2>2, <2>5, <2>7, Unchanged, PartsNext
<1> QED
  BY <1>1, <1>2, <1>3, <1>4, <1>5 DEF TxThread

LEMMA RxThreadTypes ==
    ASSUME TypeOK, RxThread \/ RxFails
    PROVE  TypeOK'
<1>0. PoolTypes /\ TxTypes /\ RxTypes /\ WorkTypes /\ FwTypes /\ Bounded
  BY Parts
<1>1. CASE RxRead
  <2>1. Head(fwEvents) \in Events /\ Tail(fwEvents) \in Seq(Events)
    BY <1>0, <1>1, QueueTypes DEF RxRead, FwTypes
  <2>2. FwTypes' /\ UNCHANGED <<poolVars, txVars, workVars, bounds>>
    BY <1>0, <1>1, <2>1 DEF RxRead, FwTypes
  <2>3. RxTypes'
    BY <1>0, <1>1, <2>1 DEF RxRead, RxTypes
  <2> QED
    BY <1>0, <2>2, <2>3, Unchanged, PartsNext
<1>2. CASE RxTest
  <2>1. RxTypes' /\ UNCHANGED <<poolVars, txVars, fwVars, bounds>>
    BY <1>0, <1>2 DEF RxTest, RxTypes
  <2>2. resetComp' \in BOOLEAN
    BY <1>0, <1>2 DEF RxTest, IsAnswer, WorkTypes
  <2>3. WorkTypes'
    BY <1>0, <1>2, <2>2 DEF RxTest, WorkTypes
  <2> QED
    BY <1>0, <2>1, <2>3, Unchanged, PartsNext
<1>3. CASE RxEnqueue
  <2>1. /\ rxHeld' = <<>> /\ ~rxPassed' /\ rxq' = Append(rxq, rxHeld[1])
        /\ UNCHANGED <<rxEvent, blocked, poolVars, txVars, workVars, fwVars,
                       bounds>>
    BY <1>3 DEF RxEnqueue
  <2>2. PICK e \in Events : rxHeld = <<e>>
    BY <1>0, <1>3 DEF RxEnqueue, RxTypes
  <2>3. rxq' \in Seq(Events)
    BY <1>0, <2>1, <2>2, QueueTypes DEF RxTypes
  <2>4. RxTypes'
    <3>1. UNCHANGED <<rxEvent, blocked>>
      BY <2>1
    <3>2. rxHeld' = <<>> /\ rxPassed' = FALSE
      BY <1>3 DEF RxEnqueue
    <3> QED
      BY <1>0, <2>3, <3>1, <3>2 DEF RxTypes
  <2> QED
    BY <1>0, <2>1, <2>4, Unchanged, PartsNext
<1>4. CASE RxFails
  <2>1. WorkTypes' /\ UNCHANGED <<poolVars, txVars, rxVars, fwVars, bounds>>
    BY <1>0, <1>4 DEF RxFails, SignalTest, WorkTypes
  <2> QED
    BY <1>0, <2>1, Unchanged, PartsNext
<1> QED
  BY <1>1, <1>2, <1>3, <1>4 DEF RxThread

LEMMA RxWorkTypes ==
    ASSUME TypeOK, RxWork
    PROVE  TypeOK'
<1>0. PoolTypes /\ TxTypes /\ RxTypes /\ WorkTypes /\ FwTypes /\ Bounded
  BY Parts
<1>1. CASE RxWorkTake
  <2>1. RxTypes' /\ UNCHANGED <<poolVars, txVars, workVars, fwVars, bounds>>
    BY <1>0, <1>1 DEF RxWorkTake, RxTypes
  <2> QED
    BY <1>0, <2>1, Unchanged, PartsNext
<1>2. CASE RxWorkHandle
  <2>1. PICK e \in Events : rxEvent = <<e>>
    BY <1>0, <1>2 DEF RxWorkHandle, RxTypes
  <2>2. RxTypes' /\ UNCHANGED <<workVars, fwVars>>
    BY <1>0, <1>2 DEF RxWorkHandle, RxTypes
  <2>3. CASE e.id = "TX_DONE"
    <3>1. e.token \in Tokens /\ Complete(e.token)
      BY <1>2, <2>1, <2>3, EventKinds DEF RxWorkHandle
    <3> QED
      BY <1>0, <2>2, <3>1, CompleteTypes, Unchanged, PartsNext
  <2>4. CASE e.id # "TX_DONE"
    <3>1. UNCHANGED <<poolVars, txVars, bounds>>
      BY <1>2, <2>1, <2>4 DEF RxWorkHandle
    <3> QED
      BY <1>0, <2>2, <3>1, Unchanged, PartsNext
  <2> QED
    BY <2>3, <2>4
<1> QED
  BY <1>1, <1>2 DEF RxWork

LEMMA NextTokenWork ==
    ASSUME NEW i \in Tokens
    PROVE  \E pc \in WorkSteps, j \in Tokens : NextToken(i) = WorkAt(pc, j)
<1>1. NumTokens \in Nat \ {0} /\ i \in 0 .. NumTokens - 1
  BY FwConstants DEF Tokens
<1>2. 0 \in Tokens /\ (i + 1 < NumTokens => i + 1 \in Tokens)
  BY <1>1 DEF Tokens
<1> QED
  BY <1>2 DEF NextToken, WorkSteps

LEMMA ErrWorkTypes ==
    ASSUME TypeOK, ErrWork
    PROVE  TypeOK'
<1>0. PoolTypes /\ TxTypes /\ RxTypes /\ WorkTypes /\ FwTypes /\ Bounded
  BY Parts
<1>a. 0 \in Tokens
  BY FwConstants DEF Tokens
<1>1. CASE WorkStart
  <2>1. WorkTypes' /\ UNCHANGED <<poolVars, txVars, rxVars, fwVars, bounds>>
    BY <1>0, <1>a, <1>1 DEF WorkStart, WorkSteps, WorkTypes
  <2> QED
    BY <1>0, <2>1, Unchanged, PartsNext
<1>2. CASE WorkTearDown
  <2>1. FwTypes' /\ UNCHANGED <<poolVars, txVars, rxVars, bounds>>
    BY <1>0, <1>2, QueueTypes DEF WorkTearDown, FwTypes
  <2>2. Len(rxq) \in Nat
    BY <1>0 DEF RxTypes
  <2>3. was' \in [raced : BOOLEAN, ended : BOOLEAN, left : Nat]
    BY <1>0, <1>2, <2>2 DEF WorkTearDown, WorkTypes
  <2>4. \E pc \in WorkSteps, i \in Tokens : errWork' = WorkAt(pc, i)
    BY <1>a, <1>2 DEF WorkTearDown, WorkSteps
  <2>5. WorkTypes'
    BY <1>0, <1>2, <2>3, <2>4 DEF WorkTearDown, WorkTypes
  <2> QED
    BY <1>0, <2>1, <2>5, Unchanged, PartsNext
<1>3. CASE WorkDisable
  <2>1. WorkTypes' /\ UNCHANGED <<poolVars, txVars, rxVars, fwVars, bounds>>
    BY <1>0, <1>a, <1>3 DEF WorkDisable, WorkSteps, WorkTypes
  <2> QED
    BY <1>0, <2>1, Unchanged, PartsNext
<1>4. CASE WorkBringUp
  <2>1. WorkTypes' /\ FwTypes' /\ UNCHANGED <<poolVars, txVars, rxVars, bounds>>
    BY <1>0, <1>a, <1>4 DEF WorkBringUp, WorkSteps, WorkTypes, FwTypes
  <2> QED
    BY <1>0, <2>1, Unchanged, PartsNext
<1>5. CASE WorkEnable
  <2>1. WorkTypes' /\ UNCHANGED <<poolVars, txVars, rxVars, fwVars, bounds>>
    BY <1>0, <1>a, <1>5 DEF WorkEnable, WorkSteps, WorkTypes
  <2> QED
    BY <1>0, <2>1, Unchanged, PartsNext
<1>6. CASE WorkReset
  <2>1. WorkTypes' /\ FwTypes' /\ UNCHANGED <<poolVars, txVars, rxVars, bounds>>
    BY <1>0, <1>a, <1>6 DEF WorkReset, WorkSteps, WorkTypes, FwTypes
  <2> QED
    BY <1>0, <2>1, Unchanged, PartsNext
<1>7. CASE WorkReplay
  <2>1. WorkTypes' /\ UNCHANGED <<poolVars, txVars, rxVars, fwVars, bounds>>
    BY <1>0, <1>a, <1>7 DEF WorkReplay, WorkSteps, WorkTypes
  <2> QED
    BY <1>0, <2>1, Unchanged, PartsNext
<1>8. CASE WorkClear
  <2>1. WorkTypes' /\ UNCHANGED <<poolVars, txVars, rxVars, fwVars, bounds>>
    BY <1>0, <1>a, <1>8 DEF WorkClear, WorkSteps, WorkTypes
  <2> QED
    BY <1>0, <2>1, Unchanged, PartsNext
<1>b. PICK pc \in WorkSteps, i \in Tokens : errWork = WorkAt(pc, i)
  BY <1>0 DEF WorkTypes
<1>c. errWork.pc = pc /\ errWork.i = i
  BY <1>b DEF WorkAt
<1>9. CASE WorkUnfiTest
  <2>1. errWork' = WorkAt("complete", i) \/ errWork' = NextToken(i)
    BY <1>9, <1>c DEF WorkUnfiTest
  <2>2. \E qc \in WorkSteps, j \in Tokens : errWork' = WorkAt(qc, j)
    BY <2>1, NextTokenWork DEF WorkSteps
  <2>3. WorkTypes' /\ UNCHANGED <<poolVars, txVars, rxVars, fwVars, bounds>>
    BY <1>0, <1>9, <2>2 DEF WorkUnfiTest, WorkTypes
  <2> QED
    BY <1>0, <2>3, Unchanged, PartsNext
<1>10. CASE WorkUnfiComplete
  <2>1. errWork' = NextToken(i) /\ Complete(i)
    BY <1>10, <1>c DEF WorkUnfiComplete
  <2>2. WorkTypes' /\ UNCHANGED <<rxVars, fwVars>>
    BY <1>0, <1>10, <2>1, NextTokenWork DEF WorkUnfiComplete, WorkTypes
  <2> QED
    BY <1>0, <2>1, <2>2, CompleteTypes, Unchanged, PartsNext
<1> QED
  BY <1>1, <1>2, <1>3, <1>4, <1>5, <1>6, <1>7, <1>8, <1>9, <1>10 DEF ErrWork

LEMMA FirmwareTypes ==
    ASSUME TypeOK, Firmware \/ FwBlockAll \/ FwDies
    PROVE  TypeOK'
<1>0. PoolTypes /\ TxTypes /\ RxTypes /\ WorkTypes /\ FwTypes /\ Bounded
  BY Parts
<1>a. /\ \A t \in Tokens : Done(t) \in Events
      /\ Event("RESET_COMPLETE") \in Events /\ Event("BLOCK_ALL") \in Events
      /\ Event("UNBLOCK_ALL") \in Events
  BY DEF Events
<1>1. CASE FwResetDone
  <2>1. FwTypes' /\ UNCHANGED <<poolVars, txVars, rxVars, workVars, bounds>>
    BY <1>0, <1>a, FwConstants, <1>1, QueueTypes DEF FwResetDone, FwTypes
  <2> QED
    BY <1>0, <2>1, Unchanged, PartsNext
<1>2. CASE FwUnblockAll
  <2>1. FwTypes' /\ UNCHANGED <<poolVars, txVars, rxVars, workVars, bounds>>
    BY <1>0, <1>a, FwConstants, <1>2, QueueTypes DEF FwUnblockAll, FwTypes
  <2> QED
    BY <1>0, <2>1, Unchanged, PartsNext
<1>3. CASE FwBlockAll
  <2>1. FwTypes' /\ Bounded' /\ UNCHANGED <<poolVars, txVars, rxVars, workVars>>
    BY <1>0, <1>a, FwConstants, <1>3 DEF FwBlockAll, FwTypes, Bounded
  <2> QED
    BY <1>0, <2>1, Unchanged, PartsNext
<1>4. CASE FwDies
  <2>1. FwTypes' /\ UNCHANGED <<poolVars, txVars, rxVars, workVars>>
    BY <1>0, <1>4, QueueTypes DEF FwDies, FwTypes
  <2>2. Bounded'
    BY <1>0, <1>4, FwConstants DEF FwDies, Bounded
  <2> QED
    BY <1>0, <2>1, <2>2, Unchanged, PartsNext
<1>5. ASSUME NEW t \in Tokens, FwTxDone(t)
      PROVE  TypeOK'
  <2>1. FwTypes' /\ UNCHANGED <<poolVars, txVars, rxVars, workVars, bounds>>
    BY <1>0, <1>a, <1>5 DEF FwTxDone, FwTypes
  <2> QED
    BY <1>0, <2>1, Unchanged, PartsNext
<1> QED
  BY <1>1, <1>2, <1>3, <1>4, <1>5 DEF Firmware

LEMMA InitTypes == Init => TypeOK
<1>1. 0 \in Tokens /\ MaxSends \in Nat /\ MaxErrors \in Nat /\ MaxBlocks \in Nat
  BY FwConstants DEF Tokens
<1> SUFFICES ASSUME Init PROVE TypeOK
  OBVIOUS
<1>2. PoolTypes /\ TxTypes /\ RxTypes
  BY QueueTypes DEF Init, PoolTypes, TxTypes, RxTypes
<1>3. WorkTypes
  BY <1>1 DEF Init, WorkTypes, WorkSteps, Was
<1>4. FwTypes
  BY QueueTypes DEF Init, FwTypes
<1>5. Bounded
  BY <1>1 DEF Init, Bounded
<1> QED
  BY <1>2, <1>3, <1>4, <1>5, Parts

LEMMA TypeStep ==
    ASSUME TypeOK, [Next]_vars
    PROVE  TypeOK'
<1>0. PoolTypes /\ TxTypes /\ RxTypes /\ WorkTypes /\ FwTypes /\ Bounded
  BY Parts
<1>1. ASSUME NEW t \in Tokens, SendFrame(t)
      PROVE  TypeOK'
  <2>1. TxTypes' /\ Bounded' /\ UNCHANGED <<rxVars, workVars, fwVars>>
    BY <1>0, <1>1, HalSendTypes DEF SendFrame
  <2>2. PoolTypes'
    BY <1>0, <1>1 DEF SendFrame, PoolTypes
  <2> QED
    BY <1>0, <2>1, <2>2, Unchanged, PartsNext
<1>2. ASSUME NEW thread \in {"tx", "rx"}, SignalSet(thread)
      PROVE  TypeOK'
  <2>1. WorkTypes' /\ UNCHANGED <<poolVars, txVars, rxVars, fwVars, bounds>>
    BY <1>0, <1>2 DEF SignalSet, WorkTypes
  <2> QED
    BY <1>0, <2>1, Unchanged, PartsNext
<1>3. CASE UNCHANGED vars
  BY <1>0, <1>3, Unchanged, PartsNext DEF vars
<1> QED
  BY <1>1, <1>2, <1>3, TxThreadTypes, RxThreadTypes, RxWorkTypes, ErrWorkTypes,
     FirmwareTypes DEF Next, Progress

\* Every variable keeps its type, for any number of tokens, sends, firmware
\* deaths and blocks, whatever threads race in rk915_signal_io_error.
THEOREM TypesCorrect == Spec => []TypeOK
<1>1. TypeOK /\ [Next]_vars => TypeOK'
  BY TypeStep
<1> QED
  BY <1>1, InitTypes, PTL DEF Spec

-----------------------------------------------------------------------------
(* Every claimed token is accounted for.                                   *)

\* Where a claimed token can be.  In tx_thread it must still be on its way to
\* save_fw_recovery_cmd, for from then on a completion takes the mark away.
Accounted(t) ==
    \/ IsIn(t, txq)
    \/ t \in hadSend
    \/ tx.pc = "save" /\ tx.cmd = <<t>>

AllAccounted == \A t \in claimed : Accounted(t)

\* A command queued for t accounts for t, and takes nothing from the others.
LEMMA HalSendAccounts ==
    ASSUME txq \in Seq(Tokens), NEW u \in Tokens, HalSend(u), NEW t,
           t = u \/ IsIn(t, txq) \/ (tx.pc = "save" /\ tx.cmd = <<t>>)
    PROVE  Accounted(t)'
<1>1. txq' = Append(txq, u) /\ UNCHANGED tx
  BY DEF HalSend
<1>2. CASE t = u \/ IsIn(t, txq)
  BY <1>1, <1>2, InAppend DEF Accounted, IsIn
<1> QED
  BY <1>1, <1>2 DEF Accounted

\* A token that is completed is refilled or leaves the pool.
LEMMA CompleteAccounts ==
    ASSUME txq \in Seq(Tokens), AllAccounted, NEW u \in Tokens, Complete(u)
    PROVE  AllAccounted'
<1> SUFFICES ASSUME NEW t \in claimed'
             PROVE  Accounted(t)'
  BY DEF AllAccounted
<1>1. hadSend' = hadSend \ {u} /\ t \in claimed /\ Accounted(t)
  BY DEF Complete, AllAccounted
<1>2. CASE t # u /\ t \in hadSend
  BY <1>1, <1>2 DEF Accounted
<1>3. CASE t = u \/ t \notin hadSend
  <2>1. CASE HalSend(u)
    BY <1>1, <1>3, <2>1, HalSendAccounts DEF Accounted
  <2>2. CASE claimed' = claimed \ {u} /\ UNCHANGED <<txVars, bounds>>
    <3>1. t # u /\ UNCHANGED <<txq, tx>>
      BY <2>2 DEF txVars
    <3> QED
      BY <1>1, <1>3, <3>1 DEF Accounted, IsIn
  <2> QED
    BY <2>1, <2>2 DEF Complete
<1> QED
  BY <1>2, <1>3

\* tx_thread takes a token from the queue to the mark.
LEMMA TxThreadAccounts ==
    ASSUME TypeOK, AllAccounted, TxThread
    PROVE  AllAccounted'
<1>0. txq \in Seq(Tokens)
  BY DEF TypeOK
<1>1. UNCHANGED claimed
  BY DEF TxThread, TxDown, TxDequeue, TxSave, TxTest, TxWrite, poolVars
<1> SUFFICES ASSUME NEW t \in claimed, Accounted(t)
             PROVE  Accounted(t)'
  BY <1>1 DEF AllAccounted
<1>2. CASE UNCHANGED <<txq, hadSend>> /\ tx.pc # "save"
  BY <1>2 DEF Accounted, IsIn
<1>3. CASE TxDown
  BY <1>2, <1>3 DEF TxDown, poolVars
<1>4. CASE TxDequeue
  <2>1. CASE UNCHANGED txq
    BY <1>2, <1>4, <2>1 DEF TxDequeue, poolVars
  <2>2. CASE txq # <<>> /\ tx' = TxAt("save", <<Head(txq)>>) /\ txq' = Tail(txq)
    <3>1. CASE t = Head(txq)
      BY <2>2, <3>1 DEF Accounted, TxAt
    <3>2. CASE t # Head(txq) /\ IsIn(t, txq)
      <4>1. IsIn(t, Tail(txq))
        BY <1>0, <2>2, <3>2, InTail
      <4> QED
        BY <2>2, <4>1 DEF Accounted, IsIn
    <3>3. CASE t \in hadSend
      BY <1>4, <3>3 DEF TxDequeue, poolVars, Accounted
    <3>4. tx.pc # "save"
      BY <1>4 DEF TxDequeue
    <3> QED
      BY <3>1, <3>2, <3>3, <3>4 DEF Accounted
  <2> QED
    BY <1>4, <2>1, <2>2 DEF TxDequeue
<1>5. CASE TxSave
  <2>1. hadSend' = hadSend \cup {tx.cmd[1]} /\ UNCHANGED txq
    BY <1>5 DEF TxSave, Noted
  <2>2. tx.cmd = <<t>> => tx.cmd[1] = t
    OBVIOUS
  <2> QED
    BY <2>1, <2>2 DEF Accounted, IsIn
<1>6. CASE TxTest
  BY <1>2, <1>6 DEF TxTest, poolVars
<1>7. CASE TxWrite
  BY <1>2, <1>7 DEF TxWrite, poolVars
<1> QED
  BY <1>3, <1>4, <1>5, <1>6, <1>7 DEF TxThread

LEMMA AccountedStep ==
    ASSUME TypeOK, AllAccounted, [Next]_vars
    PROVE  AllAccounted'
<1>0. txq \in Seq(Tokens)
  BY DEF TypeOK
<1>1. CASE UNCHANGED <<poolVars, txVars>>
  <2>1. UNCHANGED <<claimed, hadSend, txq, tx>>
    BY <1>1 DEF poolVars, txVars
  <2> QED
    BY <2>1 DEF AllAccounted, Accounted, IsIn
<1>2. ASSUME NEW u \in Tokens, SendFrame(u)
      PROVE  AllAccounted'
  <2>1. /\ claimed' = claimed \cup {u} /\ hadSend' = hadSend \ {u}
        /\ HalSend(u)
    BY <1>2 DEF SendFrame
  <2> SUFFICES ASSUME NEW t \in claimed'
               PROVE  Accounted(t)'
    BY DEF AllAccounted
  <2>2. CASE t = u
    BY <1>0, <2>1, <2>2, HalSendAccounts
  <2>3. CASE t # u
    <3>1. Accounted(t)
      BY <2>1, <2>3 DEF AllAccounted
    <3>2. CASE t \in hadSend
      BY <2>1, <2>3, <3>2 DEF Accounted
    <3> QED
      BY <1>0, <2>1, <3>1, <3>2, HalSendAccounts DEF Accounted
  <2> QED
    BY <2>2, <2>3
<1>3. CASE RxWorkHandle
  <2>1. PICK e \in Events : rxEvent = <<e>>
    BY <1>3 DEF RxWorkHandle, TypeOK
  <2>2. CASE e.id = "TX_DONE"
    <3>1. e.token \in Tokens /\ Complete(e.token)
      BY <1>3, <2>1, <2>2, EventKinds DEF RxWorkHandle
    <3> QED
      BY <1>0, <3>1, CompleteAccounts
  <2>3. CASE e.id # "TX_DONE"
    BY <1>1, <1>3, <2>1, <2>3 DEF RxWorkHandle
  <2> QED
    BY <2>2, <2>3
<1>4. CASE WorkUnfiComplete
  <2>1. errWork.i \in Tokens
    BY DEF TypeOK, WorkAt
  <2> QED
    BY <1>0, <1>4, <2>1, CompleteAccounts DEF WorkUnfiComplete
<1>5. CASE \/ RxThread \/ RxFails \/ RxWorkTake \/ Firmware \/ FwBlockAll
           \/ FwDies
  BY <1>1, <1>5 DEF RxThread, RxRead, RxTest, RxEnqueue, RxFails, RxWorkTake,
     Firmware, FwUnblockAll, FwResetDone, FwTxDone, FwBlockAll, FwDies
<1>6. CASE ErrWork
  BY <1>1, <1>4, <1>6 DEF ErrWork, WorkStart, WorkTearDown, WorkDisable,
     WorkBringUp, WorkEnable, WorkReset, WorkReplay, WorkClear, WorkUnfiTest
<1>7. CASE \E thread \in {"tx", "rx"} : SignalSet(thread)
  BY <1>1, <1>7 DEF SignalSet
<1>8. CASE UNCHANGED vars
  BY <1>1, <1>8 DEF vars
<1> QED
  BY <1>2, <1>3, <1>5, <1>6, <1>7, <1>8, TxThreadAccounts
     DEF Next, Progress, RxWork

\* No claimed token is ever leaked: whenever the firmware dies, each token's
\* command is still to be handled or the recovery will find its mark.
THEOREM NoTokenLeaked == Spec => []TokensAccounted
<1> DEFINE IInv == TypeOK /\ AllAccounted
<1>1. Init => IInv
  BY InitTypes DEF Init, AllAccounted
<1>2. IInv /\ [Next]_vars => IInv'
  BY TypeStep, AccountedStep
<1>3. IInv => TokensAccounted
  BY DEF AllAccounted, Accounted, TokensAccounted
<1> QED
  BY <1>1, <1>2, <1>3, PTL DEF Spec

-----------------------------------------------------------------------------
(* Stale events.                                                           *)

Powered == {"disable", "bring_up", "enable", "reset", "wait_reset", "clear"}

\* As long as no thread sets fw_error_processing while the work runs, the flag
\* spans the work from its scheduling to its step "clear", and the work is not
\* scheduled again in between.
FlagSpansWork ==
    /\ workPending => errProcessing /\ ~Recovering
    /\ Recovering => errProcessing

\* Of the events that passed the test, one at most is not among those that the
\* wait left on rxq.
FewStale ==
    errWork.pc \in Powered =>
        /\ Len(rxq) =< was.left + 1
        /\ rxPassed => Len(rxq) =< was.left

LEMMA FlagStep ==
    ASSUME TypeOK, ~was.raced => FlagSpansWork, [Next]_vars
    PROVE  (~was.raced => FlagSpansWork)'
<1>0. /\ \E pc \in WorkSteps, i \in Tokens : errWork = WorkAt(pc, i)
      /\ was \in [raced : BOOLEAN, ended : BOOLEAN, left : Nat]
  BY DEF TypeOK
<1>1. CASE UNCHANGED <<errProcessing, workPending, errWork, was>>
  BY <1>1 DEF FlagSpansWork, Recovering
<1>2. ASSUME NEW thread \in {"tx", "rx"}, SignalSet(thread)
      PROVE  (~was.raced => FlagSpansWork)'
  <2>1. was'.raced = (was.raced \/ Recovering) /\ errProcessing' /\ UNCHANGED errWork
    BY <1>0, <1>2 DEF SignalSet
  <2>2. Recovering' = Recovering
    BY <2>1 DEF Recovering
  <2> QED
    BY <2>1, <2>2 DEF FlagSpansWork
<1>3. CASE TxThread \/ RxThread \/ RxFails
  BY <1>1, <1>3 DEF TxThread, TxDown, TxDequeue, TxSave, TxTest, TxWrite,
     RxThread, RxRead, RxTest, RxEnqueue, RxFails, workVars
<1>4. CASE ErrWork
  <2>1. CASE WorkStart
    BY <2>1 DEF WorkStart, FlagSpansWork, Recovering, WorkAt
  <2>2. CASE \/ WorkTearDown \/ WorkDisable \/ WorkBringUp
             \/ WorkEnable \/ WorkReset \/ WorkReplay
    <3>1. /\ Recovering /\ Recovering' /\ was'.raced = was.raced
          /\ UNCHANGED <<errProcessing, workPending>>
      BY <1>0, <2>2 DEF WorkTearDown, WorkDisable, WorkBringUp, WorkEnable,
         WorkReset, WorkReplay, WorkAt, Recovering
    <3> QED
      BY <3>1 DEF FlagSpansWork
  <2>3. CASE WorkClear
    <3>1. Recovering /\ ~Recovering' /\ was'.raced = was.raced /\ UNCHANGED workPending
      BY <1>0, <2>3 DEF WorkClear, WorkAt, Recovering
    <3> QED
      BY <3>1 DEF FlagSpansWork
  <2>4. CASE WorkUnfiTest \/ WorkUnfiComplete
    <3>1. ~Recovering' /\ UNCHANGED <<errProcessing, workPending, was>>
      BY <2>4 DEF WorkUnfiTest, WorkUnfiComplete, NextToken, WorkAt, Recovering
    <3>2. ~Recovering
      BY <2>4 DEF WorkUnfiTest, WorkUnfiComplete, Recovering
    <3> QED
      BY <3>1, <3>2 DEF FlagSpansWork
  <2> QED
    BY <1>4, <2>1, <2>2, <2>3, <2>4 DEF ErrWork
<1>5. CASE \/ RxWork \/ Firmware \/ FwBlockAll \/ FwDies
           \/ (\E t \in Tokens : SendFrame(t)) \/ UNCHANGED vars
  BY <1>1, <1>5 DEF RxWork, RxWorkTake, RxWorkHandle, Firmware, FwUnblockAll,
     FwResetDone, FwTxDone, FwBlockAll, FwDies, SendFrame, workVars, vars
<1> QED
  BY <1>2, <1>3, <1>4, <1>5 DEF Next, Progress

LEMMA StaleStep ==
    ASSUME TypeOK, ~was.raced => FlagSpansWork /\ FewStale, [Next]_vars
    PROVE  (~was.raced => FewStale)'
<1>0. /\ rxq \in Seq(Events) /\ rxPassed \in BOOLEAN /\ Len(rxq) \in Nat
      /\ was \in [raced : BOOLEAN, ended : BOOLEAN, left : Nat]
      /\ \E pc \in WorkSteps, i \in Tokens : errWork = WorkAt(pc, i)
  BY DEF TypeOK
<1> SUFFICES ASSUME errWork'.pc \in Powered, ~was'.raced
             PROVE  /\ Len(rxq') =< was'.left + 1
                    /\ rxPassed' => Len(rxq') =< was'.left
  BY DEF FewStale
<1>1. ASSUME UNCHANGED <<rxPassed, rxq>>, errWork.pc \in Powered,
             was'.left = was.left, ~was.raced
      PROVE  /\ Len(rxq') =< was'.left + 1
             /\ rxPassed' => Len(rxq') =< was'.left
  BY <1>1 DEF FewStale
<1>2. CASE ErrWork
  <2>1. CASE WorkTearDown
    BY <1>0, <2>1 DEF WorkTearDown, rxVars
  <2>2. CASE WorkDisable \/ WorkBringUp \/ WorkEnable \/ WorkReset \/ WorkReplay
    BY <1>1, <2>2 DEF WorkDisable, WorkBringUp, WorkEnable, WorkReset,
       WorkReplay, rxVars, Powered
  <2>3. CASE \/ WorkStart \/ WorkClear \/ WorkUnfiTest \/ WorkUnfiComplete
    BY <2>3 DEF WorkStart, WorkClear, WorkUnfiTest, WorkUnfiComplete, NextToken,
       WorkAt, Powered
  <2> QED
    BY <1>2, <2>1, <2>2, <2>3 DEF ErrWork
<1>3. CASE UNCHANGED errWork
  <2>a. was'.left = was.left /\ ~was.raced
    BY <1>0, <1>3 DEF Next, Progress, TxThread, TxDown, TxDequeue, TxSave,
       TxTest, TxWrite, RxThread, RxRead, RxTest, RxEnqueue, RxFails, RxWork,
       RxWorkTake, RxWorkHandle, Firmware, FwUnblockAll, FwResetDone, FwTxDone,
       FwBlockAll, FwDies, SendFrame, SignalSet, ErrWork, WorkStart,
       WorkTearDown, WorkDisable, WorkBringUp, WorkEnable, WorkReset, WorkReplay,
       WorkClear, WorkUnfiTest, WorkUnfiComplete, workVars, vars, WorkAt
  <2>0. errWork.pc \in Powered /\ errProcessing
    BY <1>3, <2>a DEF FlagSpansWork, Recovering, Powered
  <2>1. CASE UNCHANGED <<rxPassed, rxq>>
    BY <1>1, <2>a, <2>0, <2>1
  <2>2. CASE RxRead
    BY <2>1, <2>2 DEF RxRead
  <2>3. CASE RxTest
    BY <2>0, <2>1, <2>3 DEF RxTest, Swallowed
  <2>4. CASE RxEnqueue
    <3>1. rxPassed /\ ~rxPassed' /\ rxq' = Append(rxq, rxHeld[1])
      BY <2>4 DEF RxEnqueue
    <3>2. Len(rxq') = Len(rxq) + 1
      BY <1>0, <3>1
    <3> QED
      BY <1>0, <2>a, <2>0, <3>1, <3>2 DEF FewStale
  <2>5. CASE RxWorkTake
    <3>1. rxq # <<>> /\ rxq' = Tail(rxq) /\ UNCHANGED rxPassed
      BY <2>5 DEF RxWorkTake
    <3>2. Len(rxq') = Len(rxq) - 1
      BY <1>0, <3>1
    <3> QED
      BY <1>0, <2>a, <2>0, <3>1, <3>2 DEF FewStale
  <2>6. CASE \/ TxThread \/ RxFails \/ RxWorkHandle \/ Firmware
             \/ FwBlockAll \/ FwDies \/ (\E t \in Tokens : SendFrame(t))
             \/ (\E thread \in {"tx", "rx"} : SignalSet(thread))
             \/ UNCHANGED vars
    BY <2>1, <2>6 DEF TxThread, TxDown, TxDequeue, TxSave, TxTest, TxWrite,
       RxFails, RxWorkHandle, Firmware, FwUnblockAll, FwResetDone, FwTxDone,
       FwBlockAll, FwDies, SendFrame, SignalSet, rxVars, vars
  <2>7. CASE ErrWork
    BY <1>2, <2>7
  <2> QED
    BY <2>2, <2>3, <2>4, <2>5, <2>6, <2>7 DEF Next, Progress, RxThread, RxWork
<1>4. CASE ~UNCHANGED errWork
  <2>1. ErrWork
    BY <1>4 DEF Next, Progress, TxThread, TxDown, TxDequeue, TxSave, TxTest,
       TxWrite, RxThread, RxRead, RxTest, RxEnqueue, RxFails, RxWork, RxWorkTake,
       RxWorkHandle, Firmware, FwUnblockAll, FwResetDone, FwTxDone, FwBlockAll,
       FwDies, SendFrame, SignalSet, workVars, vars
  <2> QED
    BY <1>2, <2>1
<1> QED
  BY <1>3, <1>4

\* Of the firmware that a recovery has powered down the driver gets at most
\* one event more than the wait for an empty queue left on rxq, however long
\* the recovery takes, and none of the answers to the recovery's commands;
\* unless a thread that tested the flag before the recovery set it again, and
\* scheduled the work a second time, while the work ran.
THEOREM StaleEventsBounded == Spec => []OneStaleEvent
<1> DEFINE IInv == TypeOK /\ (~was.raced => FlagSpansWork /\ FewStale)
<1>1. Init => IInv
  <2>1. Init => FlagSpansWork /\ FewStale
    BY DEF Init, FlagSpansWork, FewStale, WorkAt, Powered, Recovering
  <2> QED
    BY <2>1, InitTypes
<1>2. IInv /\ [Next]_vars => IInv'
  BY TypeStep, FlagStep, StaleStep
<1>3. IInv => OneStaleEvent
  <2> SUFFICES ASSUME IInv, errWork.pc \in Powered, ~was.raced
               PROVE  Len(Through) =< was.left + 1
    BY DEF OneStaleEvent, Powered
  <2>1. /\ rxq \in Seq(Events) /\ Len(rxq) \in Nat /\ was.left \in Nat
        /\ rxHeld = <<>> \/ \E e \in Events : rxHeld = <<e>>
        /\ rxPassed => rxHeld # <<>>
    BY DEF TypeOK
  <2>2. CASE ~rxPassed
    <3>1. Through = rxq
      BY <2>1, <2>2 DEF Through
    <3> QED
      BY <3>1 DEF FewStale
  <2>3. CASE rxPassed
    <3>1. PICK e \in Events : rxHeld = <<e>>
      BY <2>1, <2>3
    <3>2. Through = <<e>> \o rxq /\ Len(<<e>> \o rxq) = 1 + Len(rxq)
      BY <2>1, <2>3, <3>1 DEF Through
    <3>3. Len(rxq) =< was.left
      BY <2>3 DEF FewStale
    <3> QED
      BY <2>1, <3>2, <3>3
  <2> QED
    BY <2>2, <2>3
<1> QED
  BY <1>1, <1>2, <1>3, PTL DEF Spec

-----------------------------------------------------------------------------
(* One command for each token.  How often a queue has a member x.          *)

Of(q, x) == {i \in 1 .. Len(q) : q[i] = x}
Count(q, x) == Cardinality(Of(q, x))
If(b) == IF b THEN 1 ELSE 0

LEMMA CountNat ==
    ASSUME NEW S, NEW q \in Seq(S), NEW x
    PROVE  IsFiniteSet(Of(q, x)) /\ Count(q, x) \in Nat
<1>1. IsFiniteSet(1 .. Len(q))
  BY FS_Interval
<1> QED
  BY <1>1, FS_Subset, FS_CardinalityType DEF Of, Count

LEMMA CountEmpty == \A x : Count(<<>>, x) = 0
<1>1. \A x : Of(<<>>, x) = {}
  BY DEF Of
<1> QED
  BY <1>1, FS_EmptySet DEF Count

LEMMA CountAppend ==
    ASSUME NEW S, NEW q \in Seq(S), NEW e \in S, NEW x
    PROVE  Count(Append(q, e), x) = Count(q, x) + If(e = x)
<1>1. /\ Len(Append(q, e)) = Len(q) + 1 /\ Len(q) \in Nat
      /\ \A i \in 1 .. Len(q) : Append(q, e)[i] = q[i]
      /\ Append(q, e)[Len(q) + 1] = e
  OBVIOUS
<1>2. IsFiniteSet(Of(q, x)) /\ Count(q, x) \in Nat
  BY CountNat
<1>3. Len(q) + 1 \notin Of(q, x)
  BY <1>1 DEF Of
<1>4. CASE e = x
  <2>1. Of(Append(q, e), x) = Of(q, x) \cup {Len(q) + 1}
    BY <1>1, <1>4 DEF Of
  <2> QED
    BY <1>2, <1>3, <1>4, <2>1, FS_AddElement DEF Count, If
<1>5. CASE e # x
  <2>1. Of(Append(q, e), x) = Of(q, x)
    BY <1>1, <1>5 DEF Of
  <2> QED
    BY <1>2, <1>5, <2>1 DEF Count, If
<1> QED
  BY <1>4, <1>5

LEMMA CountOne == \A e, x : Count(<<e>>, x) = If(e = x)
<1> SUFFICES ASSUME NEW e, NEW x PROVE Count(<<e>>, x) = If(e = x)
  OBVIOUS
<1>1. Len(<<e>>) = 1 /\ <<e>>[1] = e /\ 1 .. 1 = {1}
  OBVIOUS
<1>2. CASE e = x
  <2>1. Of(<<e>>, x) = {1}
    BY <1>1, <1>2 DEF Of
  <2> QED
    BY <1>2, <2>1, FS_Singleton DEF Count, If
<1>3. CASE e # x
  <2>1. Of(<<e>>, x) = {}
    BY <1>1, <1>3 DEF Of
  <2> QED
    BY <1>3, <2>1, FS_EmptySet DEF Count, If
<1> QED
  BY <1>2, <1>3

\* The head is counted apart from the rest: the members of the rest are those
\* of the queue but the first, one place further on.
LEMMA CountTail ==
    ASSUME NEW S, NEW q \in Seq(S), q # <<>>, NEW x
    PROVE  Count(q, x) = Count(Tail(q), x) + If(Head(q) = x)
<1>1. /\ Len(Tail(q)) = Len(q) - 1 /\ Len(q) \in Nat /\ Len(q) >= 1
      /\ \A i \in 1 .. Len(q) - 1 : Tail(q)[i] = q[i + 1]
      /\ Head(q) = q[1] /\ Tail(q) \in Seq(S)
  OBVIOUS
<1> DEFINE T == Of(Tail(q), x)
           R == Of(q, x) \ {1}
           f == [i \in T |-> i + 1]
<1>2. IsFiniteSet(T) /\ IsFiniteSet(Of(q, x))
  BY <1>1, CountNat
<1>3. f \in Bijection(T, R)
  <2>1. \A i \in T : i \in 1 .. Len(q) - 1 /\ f[i] = i + 1 /\ f[i] \in R
    BY <1>1 DEF Of
  <2>2. \A i, j \in T : f[i] = f[j] => i = j
    BY <2>1
  <2>3. ASSUME NEW j \in R PROVE \E i \in T : f[i] = j
    <3>1. j - 1 \in T /\ (j - 1) + 1 = j
      BY <1>1 DEF Of
    <3> QED
      BY <3>1
  <2>4. f \in [T -> R]
    BY <2>1
  <2> QED
    BY <2>1, <2>2, <2>3, <2>4 DEF Bijection, Injection, Surjection, IsInjective
<1>4. Cardinality(T) = Cardinality(R)
  BY <1>2, <1>3, FS_Bijection DEF ExistsBijection
<1>5. Count(Tail(q), x) \in Nat /\ Count(q, x) \in Nat
  BY <1>1, CountNat
<1>a. Count(Tail(q), x) = Cardinality(T) /\ Count(q, x) = Cardinality(Of(q, x))
  BY DEF Count
<1> HIDE DEF T, f
<1>6. CASE Head(q) = x
  <2>1. 1 \in Of(q, x)
    BY <1>1, <1>6 DEF Of
  <2>2. Cardinality(R) = Cardinality(Of(q, x)) - 1
    BY <1>2, <2>1, FS_RemoveElement
  <2> QED
    BY <1>4, <1>5, <1>a, <1>6, <2>2 DEF If
<1>7. CASE Head(q) # x
  <2>1. R = Of(q, x)
    BY <1>1, <1>7 DEF Of
  <2>2. Count(q, x) = Count(Tail(q), x)
    BY <1>4, <1>a, <2>1
  <2> QED
    BY <1>5, <1>7, <2>2 DEF If
<1> QED
  BY <1>6, <1>7

-----------------------------------------------------------------------------
(* Until the first recovery completes tokens.                              *)

\* The loop over the tokens begins only after the work's step "clear".
BeforeUnfi == ~was.ended => errWork.pc \notin {"unfi", "complete"}

LEMMA BeforeUnfiStep ==
    ASSUME TypeOK, BeforeUnfi, [Next]_vars
    PROVE  BeforeUnfi' /\ (was.ended => was'.ended)
<1>0. was \in [raced : BOOLEAN, ended : BOOLEAN, left : Nat]
  BY DEF TypeOK
<1>1. CASE UNCHANGED <<errWork, was>>
  BY <1>1 DEF BeforeUnfi
<1>2. CASE \E thread \in {"tx", "rx"} : SignalSet(thread)
  BY <1>0, <1>2 DEF SignalSet, BeforeUnfi
<1>3. CASE \/ WorkStart \/ WorkTearDown \/ WorkDisable \/ WorkBringUp
           \/ WorkEnable \/ WorkReset \/ WorkReplay
  BY <1>0, <1>3 DEF WorkStart, WorkTearDown, WorkDisable, WorkBringUp, WorkEnable,
     WorkReset, WorkReplay, WorkAt, BeforeUnfi
<1>4. CASE WorkClear
  BY <1>0, <1>4 DEF WorkClear, WorkAt, BeforeUnfi
<1>5. CASE WorkUnfiTest \/ WorkUnfiComplete
  BY <1>5 DEF WorkUnfiTest, WorkUnfiComplete, BeforeUnfi
<1>6. CASE \/ TxThread \/ RxThread \/ RxFails \/ RxWork \/ Firmware
           \/ FwBlockAll \/ FwDies \/ (\E t \in Tokens : SendFrame(t))
           \/ UNCHANGED vars
  BY <1>1, <1>6 DEF TxThread, TxDown, TxDequeue, TxSave, TxTest, TxWrite,
     RxThread, RxRead, RxTest, RxEnqueue, RxFails, RxWork, RxWorkTake,
     RxWorkHandle, Firmware, FwUnblockAll, FwResetDone, FwTxDone, FwBlockAll,
     FwDies, SendFrame, workVars, vars
<1> QED
  BY <1>2, <1>3, <1>4, <1>5, <1>6 DEF Next, Progress, ErrWork

-----------------------------------------------------------------------------
(* Places(t) as a sum of seven numbers.                                    *)

Sum(t) == Count(txq, t) + Count(tx.cmd, t) + If(t \in fwHas)
          + Count(fwEvents, Done(t)) + Count(rxq, Done(t))
          + Count(rxHeld, Done(t)) + Count(rxEvent, Done(t))

LEMMA PlacesSum == \A t : Places(t) = Sum(t)
  BY DEF Places, Sum, Count, Of, If

Single(t) == Sum(t) =< If(t \in claimed)

LEMMA SequenceTypes ==
    ASSUME TypeOK
    PROVE  /\ txq \in Seq(Tokens) /\ tx.cmd \in Seq(Tokens)
           /\ fwEvents \in Seq(Events) /\ rxq \in Seq(Events)
           /\ rxHeld \in Seq(Events) /\ rxEvent \in Seq(Events)
           /\ tx.pc \in {"down", "loop"} => tx.cmd = <<>>
<1>1. /\ txq \in Seq(Tokens) /\ fwEvents \in Seq(Events) /\ rxq \in Seq(Events)
      /\ rxHeld = <<>> \/ \E e \in Events : rxHeld = <<e>>
      /\ rxEvent = <<>> \/ \E e \in Events : rxEvent = <<e>>
      /\ \/ tx \in {TxAt(pc, <<>>) : pc \in {"down", "loop"}}
         \/ \E pc \in {"save", "test", "write"}, t \in Tokens : tx = TxAt(pc, <<t>>)
  BY DEF TypeOK
<1>2. \A S : <<>> \in Seq(S) /\ \A e \in S : <<e>> \in Seq(S)
  OBVIOUS
<1>3. rxHeld \in Seq(Events) /\ rxEvent \in Seq(Events)
  BY <1>1, <1>2
<1>4. CASE tx \in {TxAt(pc, <<>>) : pc \in {"down", "loop"}}
  <2>1. tx.cmd = <<>>
    BY <1>4 DEF TxAt
  <2> QED
    BY <1>1, <1>2, <1>3, <2>1
<1>5. ASSUME NEW pc \in {"save", "test", "write"}, NEW t \in Tokens,
             tx = TxAt(pc, <<t>>)
      PROVE  tx.cmd \in Seq(Tokens) /\ tx.pc \notin {"down", "loop"}
  BY <1>2, <1>5 DEF TxAt
<1> QED
  BY <1>1, <1>3, <1>4, <1>5

\* The seven terms are numbers.
Numbers(t) ==
    /\ Count(txq, t) \in Nat /\ Count(tx.cmd, t) \in Nat
    /\ If(t \in fwHas) \in Nat /\ Count(fwEvents, Done(t)) \in Nat
    /\ Count(rxq, Done(t)) \in Nat /\ Count(rxHeld, Done(t)) \in Nat
    /\ Count(rxEvent, Done(t)) \in Nat /\ If(t \in claimed) \in Nat

LEMMA Terms == TypeOK => \A t \in Tokens : Numbers(t)
  BY SequenceTypes, CountNat DEF If, Numbers

LEMMA TermsNext == (TypeOK => \A t \in Tokens : Numbers(t))'
  BY Terms, PTL

\* The completions of different tokens differ from each other and from the
\* other events.
LEMMA Completions ==
    /\ \A t, u : Done(t) = Done(u) <=> t = u
    /\ \A t, id : id # "TX_DONE" => Event(id) # Done(t)
    /\ \A e \in Events : e.id = "TX_DONE" => e = Done(e.token)
    /\ \A t : \A e \in Events : e.id # "TX_DONE" => e # Done(t)
  BY DEF Done, Event, Events

-----------------------------------------------------------------------------
(* No step but a claim and a completion makes the places of a token more.   *)

Fewer(t) == UNCHANGED claimed /\ Sum(t)' =< Sum(t)

LEMMA FewerKeeps ==
    ASSUME TypeOK, TypeOK', NEW t \in Tokens, Single(t), Fewer(t)
    PROVE  Single(t)'
<1>1. Sum(t) \in Nat /\ If(t \in claimed) \in Nat
  BY Terms DEF Numbers, Sum
<1>2. Numbers(t)'
  BY TermsNext
<1>3. Sum(t)' \in Nat /\ If(t \in claimed)' = If(t \in claimed)
  BY <1>2 DEF Numbers, Sum, If, Fewer
<1> QED
  BY <1>1, <1>3 DEF Fewer, Single

\* The seven terms after a step.
LEMMA SumNext ==
    \A t : Sum(t)' = Count(txq', t) + Count(tx'.cmd, t) + If(t \in fwHas')
             + Count(fwEvents', Done(t)) + Count(rxq', Done(t))
             + Count(rxHeld', Done(t)) + Count(rxEvent', Done(t))
  BY DEF Sum, Count, Of, If

LEMMA TxThreadFewer ==
    ASSUME TypeOK, TxThread, NEW t \in Tokens
    PROVE  Fewer(t)
<1>n. Numbers(t)
  BY Terms
<1>0. Numbers(t) /\ Count(<<>>, t) = 0 /\ \A u : Count(<<u>>, t) = If(u = t)
  BY <1>n, CountEmpty, CountOne
<1>1. UNCHANGED <<claimed, fwEvents, rxq, rxHeld, rxEvent>>
  BY DEF TxThread, TxDown, TxDequeue, TxSave, TxTest, TxWrite, poolVars, rxVars,
     fwVars
<1>2. CASE UNCHANGED <<txq, fwHas>> /\ (tx'.cmd = tx.cmd \/ tx'.cmd = <<>>)
  <2>1. Count(tx'.cmd, t) =< Count(tx.cmd, t) /\ Count(tx'.cmd, t) \in Nat
    BY <1>0, <1>2 DEF Numbers
  <2> QED
    BY SMTT(30), <1>0, <1>1, <1>2, <2>1, SumNext DEF Fewer, Sum, Numbers
<1>3. CASE TxDown \/ TxSave \/ TxTest
  BY <1>2, <1>3 DEF TxDown, TxSave, TxTest, TxAt, fwVars
<1>4. CASE TxDequeue
  <2>1. tx.cmd = <<>> /\ txq \in Seq(Tokens) /\ UNCHANGED fwHas
    BY <1>4, SequenceTypes DEF TxDequeue, fwVars
  <2>2. CASE tx' = TxAt("down", <<>>) /\ UNCHANGED txq
    BY <1>2, <2>1, <2>2 DEF TxAt
  <2>3. CASE txq # <<>> /\ tx' = TxAt("save", <<Head(txq)>>) /\ txq' = Tail(txq)
    <3>1. tx'.cmd = <<Head(txq)>>
      BY <2>3 DEF TxAt
    <3>2. Count(txq, t) = Count(txq', t) + If(Head(txq) = t)
      BY <2>1, <2>3, CountTail
    <3>3. Count(txq', t) \in Nat /\ If(Head(txq) = t) \in Nat
      BY <2>1, <2>3, CountNat, QueueTypes DEF If
    <3>4. Count(txq', t) + Count(tx'.cmd, t) = Count(txq, t) + Count(tx.cmd, t)
      BY <1>0, <2>1, <3>1, <3>2, <3>3
    <3>5. Count(tx'.cmd, t) \in Nat
      BY <1>0, <3>1, <3>3
    <3>6. fwHas' = fwHas
      BY <2>1
    <3> QED
      BY <1>n, <1>1, <3>3, <3>4, <3>5, <3>6, SumNext DEF Fewer, Sum, Numbers
  <2> QED
    BY <1>4, <2>2, <2>3 DEF TxDequeue
<1>5. CASE TxWrite
  <2>1. tx'.cmd = <<>> /\ UNCHANGED txq
    BY <1>5 DEF TxWrite, TxAt
  <2>2. PICK u \in Tokens : tx.cmd = <<u>>
    BY <1>5 DEF TxWrite, TypeOK, TxAt
  <2>3. CASE UNCHANGED fwHas
    BY <1>2, <2>1, <2>3
  <2>4. CASE fwHas' = fwHas \cup {u}
    <3>1. If(t \in fwHas') =< If(t \in fwHas) + If(u = t) /\ If(t \in fwHas') \in Nat
      BY <2>4 DEF If
    <3>2. If(t \in fwHas') + Count(tx'.cmd, t) =< If(t \in fwHas) + Count(tx.cmd, t)
      BY <1>0, <2>1, <2>2, <3>1 DEF Numbers
    <3>3. Count(tx'.cmd, t) \in Nat
      BY <1>0, <2>1
    <3>4. txq' = txq /\ If(t \in fwHas') \in Nat
      BY <2>1, <3>1
    <3> QED
      BY <1>n, <1>1, <3>2, <3>3, <3>4, SumNext DEF Fewer, Sum, Numbers
  <2> QED
    BY <1>5, <2>2, <2>3, <2>4 DEF TxWrite
<1> QED
  BY <1>3, <1>4, <1>5 DEF TxThread

LEMMA RxFewer ==
    ASSUME TypeOK, RxThread \/ RxFails \/ RxWorkTake, NEW t \in Tokens
    PROVE  Fewer(t)
<1> DEFINE d == Done(t)
<1>n. Numbers(t)
  BY Terms
<1>0. Numbers(t) /\ Count(<<>>, d) = 0 /\ \A e : Count(<<e>>, d) = If(e = d)
  BY <1>n, CountEmpty, CountOne
<1>1. UNCHANGED <<claimed, txq, tx, fwHas>>
  BY DEF RxThread, RxRead, RxTest, RxEnqueue, RxFails, RxWorkTake, poolVars,
     txVars, fwVars
<1>2. /\ rxq \in Seq(Events) /\ fwEvents \in Seq(Events)
      /\ rxHeld = <<>> \/ \E e \in Events : rxHeld = <<e>>
      /\ rxPassed => rxHeld # <<>>
  BY DEF TypeOK
<1>3. CASE RxRead
  <2>1. /\ fwEvents # <<>> /\ fwEvents' = Tail(fwEvents) /\ rxHeld = <<>>
        /\ rxHeld' = <<Head(fwEvents)>>
        /\ UNCHANGED <<rxq, rxEvent>>
    BY <1>3 DEF RxRead
  <2>2. Count(fwEvents, d) = Count(fwEvents', d) + If(Head(fwEvents) = d)
    BY <1>2, <2>1, CountTail
  <2>3. Count(fwEvents', d) \in Nat /\ If(Head(fwEvents) = d) \in Nat
    BY <1>2, <2>1, CountNat, QueueTypes DEF If
  <2>4. Count(rxHeld', d) \in Nat /\ Count(rxHeld', d) =< If(Head(fwEvents) = d)
    BY <1>0, <2>1, <2>3
  <2>5. /\ Count(fwEvents', d) + Count(rxHeld', d)
              =< Count(fwEvents, d) + Count(rxHeld, d)
        /\ UNCHANGED <<rxq, rxEvent>>
    BY <1>0, <2>1, <2>2, <2>3, <2>4
  <2> QED
    BY <1>n, <1>1, <2>3, <2>4, <2>5, SumNext DEF Fewer, Sum, Numbers
<1>a. CASE RxTest
  <2>1. /\ rxHeld' = rxHeld \/ rxHeld' = <<>>
        /\ UNCHANGED <<rxq, rxEvent, fwEvents>>
    BY <1>a DEF RxTest, fwVars
  <2>2. Count(rxHeld', d) \in Nat /\ Count(rxHeld', d) =< Count(rxHeld, d)
    BY <1>0, <2>1 DEF Numbers
  <2> QED
    BY <1>n, <1>1, <2>1, <2>2, SumNext DEF Fewer, Sum, Numbers
<1>4. CASE RxEnqueue
  <2>1. PICK e \in Events : rxHeld = <<e>>
    BY <1>2, <1>4 DEF RxEnqueue
  <2>2. /\ rxHeld' = <<>> /\ rxq' = Append(rxq, e)
        /\ UNCHANGED <<fwEvents, rxEvent>>
    BY <1>4, <2>1 DEF RxEnqueue, fwVars
  <2>3. Count(rxq', d) = Count(rxq, d) + If(e = d) /\ If(e = d) \in Nat
    BY <1>2, <2>2, CountAppend DEF If
  <2>4. Count(rxHeld', d) = 0 /\ Count(rxHeld, d) = If(e = d)
    BY <1>0, <2>1, <2>2
  <2>5. UNCHANGED <<fwEvents, rxEvent>>
    BY <2>2
  <2> QED
    BY <1>n, <1>1, <2>3, <2>4, <2>5, SumNext DEF Fewer, Sum, Numbers
<1>5. CASE RxFails
  <2>1. UNCHANGED <<rxHeld, rxq, rxEvent, fwEvents>>
    BY <1>5 DEF RxFails, rxVars, fwVars
  <2> QED
    BY <1>0, <1>1, <2>1, SumNext DEF Fewer, Sum, Numbers
<1>6. CASE RxWorkTake
  <2>1. /\ rxEvent = <<>> /\ rxq # <<>> /\ rxEvent' = <<Head(rxq)>>
        /\ rxq' = Tail(rxq) /\ UNCHANGED <<rxHeld, fwEvents>>
    BY <1>6 DEF RxWorkTake, fwVars
  <2>2. Count(rxq, d) = Count(rxq', d) + If(Head(rxq) = d)
    BY <1>2, <2>1, CountTail
  <2>3. Count(rxq', d) \in Nat /\ If(Head(rxq) = d) \in Nat
    BY <1>2, <2>1, CountNat, QueueTypes DEF If
  <2>4. Count(rxEvent, d) = 0 /\ Count(rxEvent', d) = If(Head(rxq) = d)
    BY <1>0, <2>1
  <2>5. UNCHANGED <<fwEvents, rxHeld>>
    BY <2>1
  <2> QED
    BY <1>n, <1>1, <2>2, <2>3, <2>4, <2>5, SumNext DEF Fewer, Sum, Numbers
<1> QED
  BY <1>3, <1>a, <1>4, <1>5, <1>6 DEF RxThread

LEMMA FirmwareFewer ==
    ASSUME TypeOK, Firmware \/ FwBlockAll \/ FwDies \/ WorkTearDown,
           NEW t \in Tokens
    PROVE  Fewer(t)
<1> DEFINE d == Done(t)
<1>n. Numbers(t)
  BY Terms
<1>0. /\ Count(<<>>, d) = 0 /\ fwEvents \in Seq(Events)
      /\ \A e \in Events : Count(Append(fwEvents, e), d) = Count(fwEvents, d) + If(e = d)
  BY CountEmpty, CountAppend DEF TypeOK
<1>1. UNCHANGED <<claimed, txq, tx, rxq, rxHeld, rxEvent>>
  BY DEF Firmware, FwUnblockAll, FwResetDone, FwTxDone, FwBlockAll, FwDies,
     WorkTearDown, poolVars, txVars, rxVars
<1>2. ASSUME If(t \in fwHas') + Count(fwEvents', d) =< If(t \in fwHas) + Count(fwEvents, d),
             If(t \in fwHas') \in Nat, Count(fwEvents', d) \in Nat
      PROVE  Fewer(t)
  BY <1>n, <1>1, <1>2, SumNext DEF Fewer, Sum, Numbers
<1>3. CASE fwHas' = {} /\ fwEvents' = <<>>
  BY <1>0, <1>2, <1>3, <1>n DEF If, Numbers
<1>4. ASSUME NEW id \in {"RESET_COMPLETE", "BLOCK_ALL", "UNBLOCK_ALL"},
             fwHas' \subseteq fwHas, fwEvents' = Append(fwEvents, Event(id))
      PROVE  Fewer(t)
  <2>1. Event(id) \in Events /\ Event(id) # d
    BY Completions DEF Events
  <2>2. Count(fwEvents', d) = Count(fwEvents, d)
    BY <1>0, <1>4, <1>n, <2>1 DEF If, Numbers
  <2>3. If(t \in fwHas') =< If(t \in fwHas) /\ If(t \in fwHas') \in Nat
    BY <1>4 DEF If
  <2> QED
    BY <1>2, <1>n, <2>2, <2>3 DEF Numbers
<1>5. ASSUME NEW u \in Tokens, FwTxDone(u)
      PROVE  Fewer(t)
  <2>1. u \in fwHas /\ fwHas' = fwHas \ {u} /\ fwEvents' = Append(fwEvents, Done(u))
    BY <1>5 DEF FwTxDone
  <2>2. Done(u) \in Events /\ (Done(u) = d <=> t = u)
    BY Completions DEF Events
  <2>3. Count(fwEvents', d) = Count(fwEvents, d) + If(Done(u) = d)
    BY <1>0, <2>1, <2>2
  <2>4. CASE t = u
    <3>1. If(t \in fwHas) = 1 /\ If(t \in fwHas') = 0 /\ If(Done(u) = d) = 1
      BY <2>1, <2>2, <2>4 DEF If
    <3> QED
      BY <1>2, <1>n, <2>3, <3>1 DEF Numbers
  <2>5. CASE t # u
    <3>1. If(t \in fwHas') = If(t \in fwHas) /\ If(Done(u) = d) = 0
      BY <2>1, <2>2, <2>5 DEF If
    <3> QED
      BY <1>2, <1>n, <2>3, <3>1 DEF Numbers
  <2> QED
    BY <2>4, <2>5
<1>6. CASE FwDies \/ WorkTearDown
  BY <1>3, <1>6 DEF FwDies, WorkTearDown
<1>7. CASE FwResetDone
  BY <1>4, <1>7 DEF FwResetDone
<1>8. CASE FwUnblockAll
  BY <1>4, <1>8 DEF FwUnblockAll
<1>9. CASE FwBlockAll
  BY <1>4, <1>9 DEF FwBlockAll
<1> QED
  BY <1>5, <1>6, <1>7, <1>8, <1>9 DEF Firmware

-----------------------------------------------------------------------------
(* A claim, and a completion before any recovery.                          *)

LEMMA HalSendSum ==
    ASSUME TypeOK, NEW u \in Tokens, HalSend(u), NEW t \in Tokens
    PROVE  UNCHANGED tx /\ Count(txq', t) = Count(txq, t) + If(u = t)
<1>1. txq' = Append(txq, u) /\ UNCHANGED tx /\ txq \in Seq(Tokens)
  BY DEF HalSend, TypeOK
<1> QED
  BY <1>1, CountAppend

LEMMA SendFrameSingle ==
    ASSUME TypeOK, NEW u \in Tokens, SendFrame(u), NEW t \in Tokens, Single(t)
    PROVE  Single(t)'
<1>1. /\ u \notin claimed /\ claimed' = claimed \cup {u} /\ HalSend(u)
      /\ UNCHANGED <<rxHeld, rxq, rxEvent, fwHas, fwEvents>>
  BY DEF SendFrame, IsFree, rxVars, fwVars
<1>2. UNCHANGED tx /\ Count(txq', t) = Count(txq, t) + If(u = t)
  BY <1>1, HalSendSum
<1>n. Numbers(t)
  BY Terms
<1>3. Sum(t)' = Sum(t) + If(u = t)
  <2>1. If(u = t) \in Nat
    BY DEF If
  <2> QED
    BY <1>n, <1>1, <1>2, <2>1, SumNext DEF Sum, Numbers
<1>4. Sum(t) \in Nat
  BY <1>n DEF Sum, Numbers
<1>5. Sum(t)' =< If(t \in claimed')
  <2>1. CASE t = u
    BY <1>1, <1>3, <1>4, <2>1 DEF Single, If
  <2>2. CASE t # u
    BY <1>1, <1>3, <1>4, <2>2 DEF Single, If
  <2> QED
    BY <2>1, <2>2
<1> QED
  BY <1>5 DEF Single, If

LEMMA HandleSingle ==
    ASSUME TypeOK, RxWorkHandle, NEW t \in Tokens, Single(t)
    PROVE  Single(t)'
<1> DEFINE d == Done(t)
<1>n. Numbers(t)
  BY Terms
<1>1. PICK e \in Events : rxEvent = <<e>>
  BY DEF RxWorkHandle, TypeOK
<1>2. rxEvent' = <<>> /\ UNCHANGED <<rxHeld, rxq, fwHas, fwEvents>>
  BY DEF RxWorkHandle, fwVars
<1>3. Count(rxEvent', d) = 0 /\ Count(rxEvent, d) = If(e = d)
  BY <1>1, <1>2, CountEmpty, CountOne
<1>4. Sum(t) \in Nat /\ If(e = d) \in Nat
  BY <1>n DEF Sum, Numbers, If
<1>5. CASE e.id # "TX_DONE"
  <2>1. UNCHANGED <<claimed, txq, tx>>
    BY <1>1, <1>5 DEF RxWorkHandle, poolVars, txVars
  <2>2. Sum(t)' =< Sum(t)
    BY <1>n, <1>2, <1>3, <1>4, <2>1, SumNext DEF Sum, Numbers
  <2>3. Sum(t)' \in Nat
    BY <1>n, <1>2, <1>3, <2>1, SumNext DEF Numbers
  <2>4. Sum(t)' =< If(t \in claimed')
    BY <1>n, <1>4, <2>1, <2>2, <2>3 DEF Single, Numbers
  <2> QED
    BY <2>4 DEF Single, If
<1>6. CASE e.id = "TX_DONE"
  <2> DEFINE u == e.token
  <2>1. u \in Tokens /\ e = Done(u) /\ Complete(u) /\ (e = d <=> u = t)
    BY <1>1, <1>6, EventKinds, Completions DEF RxWorkHandle
  <2> HIDE DEF u
  <2>2. CASE HalSend(u) /\ UNCHANGED claimed
    <3>1. UNCHANGED tx /\ Count(txq', t) = Count(txq, t) + If(u = t)
      BY <2>1, <2>2, HalSendSum
    <3>2. If(u = t) = If(e = d)
      BY <2>1 DEF If
    <3>3. /\ Count(rxEvent', d) = 0 /\ Count(rxEvent, d) = If(u = t)
          /\ If(u = t) \in Nat
      BY <1>3, <1>4, <3>2
    <3>4. UNCHANGED <<rxHeld, rxq, fwHas, fwEvents>>
      BY <1>2
    <3>5. Sum(t)' = Sum(t)
      BY <1>n, <3>1, <3>3, <3>4, SumNext DEF Sum, Numbers
    <3> QED
      BY <2>2, <3>5 DEF Single, If
  <2>3. CASE claimed' = claimed \ {u} /\ UNCHANGED <<txVars, bounds>>
    <3>1. UNCHANGED <<txq, tx>>
      BY <2>3 DEF txVars
    <3>2. Sum(t)' = Sum(t) - If(e = d)
      BY <1>n, <1>2, <1>3, <1>4, <3>1, SumNext DEF Sum, Numbers
    <3>3. Sum(t)' \in Nat
      BY <1>n, <1>2, <1>3, <3>1, SumNext DEF Numbers
    <3>4. Sum(t)' =< If(t \in claimed')
      <4>1. CASE t = u
        BY <1>4, <2>1, <3>2, <3>3, <4>1 DEF Single, If
      <4>2. CASE t # u
        BY <1>4, <2>1, <2>3, <3>2, <3>3, <4>2 DEF Single, If
      <4> QED
        BY <4>1, <4>2
    <3> QED
      BY <3>4 DEF Single, If
  <2> QED
    BY <2>1, <2>2, <2>3 DEF Complete
<1> QED
  BY <1>5, <1>6

-----------------------------------------------------------------------------
(* Every step, until the first recovery completes tokens.                  *)

AllSingle == \A t \in Tokens : Single(t)

\* A step that changes none of the seven places.
LEMMA ElsewhereFewer ==
    ASSUME TypeOK, UNCHANGED <<claimed, txq, tx, rxVars, fwHas, fwEvents>>,
           NEW t \in Tokens
    PROVE  Fewer(t)
<1>1. /\ UNCHANGED <<txq, tx, fwHas, fwEvents, rxq, rxHeld, rxEvent>>
      /\ UNCHANGED claimed
  BY DEF rxVars
<1>2. Sum(t)' = Sum(t)
  BY <1>1, SumNext DEF Sum
<1>3. Sum(t) \in Nat
  BY Terms DEF Sum, Numbers
<1> QED
  BY <1>1, <1>2, <1>3 DEF Fewer

LEMMA SingleStep ==
    ASSUME TypeOK, BeforeUnfi, ~was.ended => AllSingle, [Next]_vars
    PROVE  (~was.ended => AllSingle)'
<1> SUFFICES ASSUME ~was'.ended, NEW t \in Tokens
             PROVE  Single(t)'
  BY DEF AllSingle
<1>1. ~was.ended /\ errWork.pc \notin {"unfi", "complete"}
  BY BeforeUnfiStep DEF BeforeUnfi
<1>2. Single(t)
  BY <1>1 DEF AllSingle
<1>3. TypeOK'
  BY TypeStep
<1>4. ASSUME Fewer(t)
      PROVE  Single(t)'
  BY <1>2, <1>3, <1>4, FewerKeeps
<1>5. ASSUME NEW u \in Tokens, SendFrame(u)
      PROVE  Single(t)'
  BY <1>2, <1>5, SendFrameSingle
<1>6. CASE TxThread
  BY <1>4, <1>6, TxThreadFewer
<1>7. CASE RxThread \/ RxFails
  BY <1>4, <1>7, RxFewer
<1>8. CASE RxWork
  BY <1>2, <1>4, <1>8, RxFewer, HandleSingle DEF RxWork
<1>9. CASE Firmware \/ FwBlockAll \/ FwDies
  BY <1>4, <1>9, FirmwareFewer
<1>10. CASE ErrWork
  <2>1. CASE WorkTearDown
    BY <1>4, <2>1, FirmwareFewer
  <2>2. CASE \/ WorkStart \/ WorkDisable \/ WorkBringUp \/ WorkEnable
             \/ WorkReset \/ WorkReplay \/ WorkClear
    <3>1. UNCHANGED <<claimed, txq, tx, rxVars, fwHas, fwEvents>>
      BY <2>2 DEF WorkStart, WorkDisable, WorkBringUp, WorkEnable, WorkReset,
         WorkReplay, WorkClear, poolVars, txVars, fwVars
    <3> QED
      BY <1>4, <3>1, ElsewhereFewer
  <2> QED
    BY <1>1, <1>10, <2>1, <2>2 DEF ErrWork, WorkUnfiTest, WorkUnfiComplete
<1>11. CASE (\E thread \in {"tx", "rx"} : SignalSet(thread)) \/ UNCHANGED vars
  <2>1. UNCHANGED <<claimed, txq, tx, rxVars, fwHas, fwEvents>>
    BY <1>11 DEF SignalSet, vars, poolVars, txVars, fwVars
  <2> QED
    BY <1>4, <2>1, ElsewhereFewer
<1> QED
  BY <1>5, <1>6, <1>7, <1>8, <1>9, <1>10, <1>11 DEF Next, Progress

\* Until the first recovery completes tokens on the firmware's behalf, a
\* claimed token has one command or one completion at most between hal_send and
\* rpu_msg_handler, and a free token has none; whatever threads race in
\* rk915_signal_io_error.
THEOREM OneCommandEach == Spec => []OneCommandBeforeUnfi
<1> DEFINE IInv == TypeOK /\ BeforeUnfi /\ (~was.ended => AllSingle)
<1>1. Init => IInv
  <2> SUFFICES ASSUME Init
               PROVE  IInv
    OBVIOUS
  <2>1. BeforeUnfi
    BY DEF Init, BeforeUnfi, WorkAt
  <2>2. /\ txq = <<>> /\ tx.cmd = <<>> /\ fwHas = {} /\ fwEvents = <<>>
        /\ rxq = <<>> /\ rxHeld = <<>> /\ rxEvent = <<>> /\ claimed = {}
    BY DEF Init, TxAt
  <2>3. ASSUME NEW t \in Tokens
        PROVE  Single(t)
    <3>1. Count(<<>>, t) = 0 /\ Count(<<>>, Done(t)) = 0
      BY CountEmpty
    <3>2. Sum(t) = 0
      BY <2>2, <3>1 DEF Sum, If
    <3> QED
      BY <2>2, <3>2 DEF Single, If
  <2> QED
    BY <2>1, <2>3, InitTypes DEF AllSingle
<1>2. IInv /\ [Next]_vars => IInv'
  BY TypeStep, BeforeUnfiStep, SingleStep
<1>3. IInv => OneCommandBeforeUnfi
  BY PlacesSum DEF OneCommandBeforeUnfi, OneCommandPerToken, AllSingle,
     Single, If
<1> QED
  BY <1>1, <1>2, <1>3, PTL DEF Spec
=============================================================================
