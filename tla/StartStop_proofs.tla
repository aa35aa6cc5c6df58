---------------------------- MODULE StartStop_proofs ----------------------------
(***************************************************************************)
(* Theorems about StartStop, for every value of its constants.             *)
(***************************************************************************)
EXTENDS StartStop, SequenceTheorems, TLAPS

-----------------------------------------------------------------------------
(* Types.                                                                  *)

Downs == {"off", "open", "reset", "wait_enable", "fail"}
Ups   == {"on", "drain", "wait_disable", "stop_fail", "await_recovery", "close"}

Macs == [pc : Downs \cup Ups, starts : Nat]
Drvs == [state : {"STOPPED", "STARTED"}, rpuIf : BOOLEAN, resetDone : BOOLEAN, loaded : BOOLEAN]
Hals == [disabled : BOOLEAN, error : BOOLEAN, processing : BOOLEAN,
         reason : {"SDIO", "RESET_CMD"}, cmdDone : BOOLEAN, saved : BOOLEAN,
         status : {"none", "wait", "comp"}]
Holders == [claimed : BOOLEAN, frame : Frames \cup {NoFrame}, sent : BOOLEAN]
Commands == {m \in [id : {"ENABLE", "DISABLE", "CONFIG", "TX"}, t : Tokens \cup {NoFrame},
                    session : Nat] : m.id = "TX" => m.t \in Tokens}
Reports  == {e \in [id : {"RESET_COMPLETE", "TX_DONE"}, t : Tokens \cup {NoFrame},
                    session : Nat] : e.id = "TX_DONE" => e.t \in Tokens}
Fws   == [on : BOOLEAN, doing : SUBSET {m \in Commands : m.id = "TX"}, resets : Nat]
Txqs  == [q : Seq(Commands), woken : BOOLEAN]
Lines == [q : Seq(Reports), woken : BOOLEAN]
Recs  == {"idle", "called", "off", "up", "reset", "wait", "clear", "judge", "unfinished",
          "operates"}
Pasts == [crossed : BOOLEAN, early : BOOLEAN, failed : BOOLEAN]

\* The type of every variable.
TypeOK ==
    /\ mac \in Macs /\ drv \in Drvs /\ hal \in Hals
    /\ tok \in [Tokens -> Holders]
    /\ frames \in [Frames -> {"mac", "driver", "freed", "reported", "lost"}]
    /\ txq \in Txqs /\ rxq \in Seq(Reports) /\ fw \in Fws /\ line \in Lines
    /\ rec \in Recs /\ faults \in Nat /\ was \in Pasts

-----------------------------------------------------------------------------
(* Invariants.                                                             *)

\* A frame is in the driver on a token only while it is STARTED, between the end
\* of start and the purge of stop.
FrameInv ==
    /\ mac.pc \in Downs => drv.state = "STOPPED"
    /\ mac.pc \in Ups => drv.state = "STARTED"
    /\ mac.pc \notin {"on", "drain"} => \A t \in Tokens : tok[t].frame = NoFrame
    /\ \A t \in Tokens : ~tok[t].claimed => tok[t].frame = NoFrame
    /\ \A f \in Frames : /\ frames[f] # "lost"
                         /\ frames[f] = "driver" => \E t \in Tokens : tok[t].frame = f

\* The worker has the firmware to itself, from the tear-down to the end of the
\* recovery.
Owned == rec \in {"off", "up", "reset", "wait", "clear"}

\* What the firmware does then is the worker's own reset, whose answer it has
\* read when it goes on.
WorkerInv ==
    /\ rec = "called" \/ Owned => hal.processing
    /\ Owned => fw.doing = {}
    /\ rec \in {"off", "up", "reset", "clear"} => fw.resets = 0 /\ line.q = <<>>
    /\ rec = "reset" => hal.status # "comp"
    /\ rec = "wait" =>
         fw.resets + Len(line.q) <= (IF hal.status = "comp" THEN 0 ELSE 1)

\* The resets among the messages of a queue.
ResetIds == {"ENABLE", "DISABLE", "RESET_COMPLETE"}
Has(s) == \E i \in DOMAIN s : s[i].id \in ResetIds
AtMostOne(s) == \A i, j \in DOMAIN s : s[i].id \in ResetIds /\ s[j].id \in ResetIds => i = j

\* No reset of a start or a stop is under way, or at most one is.
Quiet ==
    /\ ~Has(txq.q) /\ ~Has(rxq)
    /\ ~Owned => fw.resets = 0 /\ ~Has(line.q)

OneReset ==
    /\ AtMostOne(txq.q) /\ AtMostOne(rxq) /\ ~(Has(txq.q) /\ Has(rxq))
    /\ ~Owned => /\ fw.resets <= 1 /\ AtMostOne(line.q)
                 /\ fw.resets = 1 => ~Has(txq.q) /\ ~Has(rxq) /\ ~Has(line.q)
                 /\ Has(line.q) => ~Has(txq.q) /\ ~Has(rxq)

\* Unless a wait has ended early: a start or a stop that waits for its reset has
\* one under way until reset_complete is set, and otherwise there is none.
Waits == {"wait_enable", "wait_disable"}

AskInv ==
    ~was.early =>
      /\ mac.pc \notin {"fail", "stop_fail"}
      /\ mac.pc = "reset" => ~drv.resetDone
      /\ mac.pc \notin Waits => Quiet
      /\ mac.pc \in Waits => OneReset /\ (drv.resetDone => Quiet)

-----------------------------------------------------------------------------
(* Every step keeps the types.                                               *)

LEMMA MessageTypes ==
    ASSUME TypeOK
    PROVE  /\ \A id \in {"ENABLE", "DISABLE", "CONFIG"} : Msg(id, NoFrame) \in Commands
           /\ \A t \in Tokens : Msg("TX", t) \in Commands
           /\ Msg("RESET_COMPLETE", NoFrame) \in Reports
  BY DEF TypeOK, Macs, Msg, Commands, Reports

\* The firmware and the line after a tear-down, and a reset of the firmware.
LEMMA DeadTypes ==
    /\ [on |-> FALSE, doing |-> {}, resets |-> 0] \in Fws
    /\ [q |-> <<>>, woken |-> FALSE] \in Lines
    /\ \A d \in Fws : [d EXCEPT !.doing = {}, !.resets = @ + 1] \in Fws
<1>1. {} \in SUBSET {m \in Commands : m.id = "TX"}
  OBVIOUS
<1>2. <<>> \in Seq(Reports)
  OBVIOUS
<1>3. [on |-> FALSE, doing |-> {}, resets |-> 0] \in Fws
  BY <1>1 DEF Fws
<1>4. ASSUME NEW d \in Fws PROVE [d EXCEPT !.doing = {}, !.resets = @ + 1] \in Fws
  <2> DEFINE S == {m \in Commands : m.id = "TX"}
  <2>1. d \in [on : BOOLEAN, doing : SUBSET S, resets : Nat]
    BY DEF Fws
  <2> HIDE DEF S
  <2>2. {} \in SUBSET S
    OBVIOUS
  <2>3. [d EXCEPT !.doing = {}, !.resets = @ + 1] \in [on : BOOLEAN, doing : SUBSET S, resets : Nat]
    <3>1. ASSUME NEW T, NEW R, NEW x \in T, NEW r \in R,
                 d \in [on : BOOLEAN, doing : T, resets : R]
          PROVE  [d EXCEPT !.doing = x, !.resets = r] \in [on : BOOLEAN, doing : T, resets : R]
      BY <3>1
    <3>2. d.resets + 1 \in Nat
      BY <2>1
    <3> QED
      BY <2>1, <2>2, <3>1, <3>2, Zenon
  <2> QED
    BY <2>3 DEF S, Fws
<1> QED
  BY <1>2, <1>3, <1>4 DEF Lines

LEMMA SentType ==
    ASSUME TypeOK, NEW m \in Commands
    PROVE  Sent(m) \in Txqs
<1>1. Append(txq.q, m) \in Seq(Commands)
  BY AppendProperties DEF TypeOK, Txqs
<1> QED
  BY <1>1 DEF TypeOK, Txqs, Hals, Sent

LEMMA SignalType ==
    ASSUME TypeOK, NEW why \in {"SDIO", "RESET_CMD"}
    PROVE  Signalled(why) \in Hals /\ WorkerCalled \in Recs
<1>1. hal \in Hals /\ (IF hal.processing THEN hal.reason ELSE why) \in {"SDIO", "RESET_CMD"}
  BY DEF TypeOK, Hals
<1>2. \A r \in {"SDIO", "RESET_CMD"} :
        [hal EXCEPT !.error = TRUE, !.processing = TRUE, !.reason = r] \in Hals
  BY <1>1 DEF Hals
<1> QED
  BY <1>1, <1>2 DEF Signalled, WorkerCalled, TypeOK, Recs

LEMMA CrossesType ==
    ASSUME TypeOK, Crosses
    PROVE  was' \in Pasts /\ was'.early = was.early
  BY DEF TypeOK, Crosses, Pasts

LEMMA FaultType ==
    ASSUME TypeOK, Fault \/ UNCHANGED faults
    PROVE  faults' \in Nat
  BY DEF TypeOK, Fault

LEMMA StartTypes ==
    ASSUME TypeOK, StartBegin \/ StartOpen \/ StartReset \/ StartEnd \/ StartFails
    PROVE  TypeOK'
<1>1. mac \in Macs /\ drv \in Drvs /\ hal \in Hals /\ fw \in Fws
  BY DEF TypeOK
<1>2. CASE StartBegin
  <2>1. hal' \in Hals
    BY <1>1, <1>2 DEF StartBegin, Hals
  <2>2. mac' \in Macs
    BY <1>1, <1>2 DEF StartBegin, Macs, Downs
  <2>3. fw' \in Fws /\ drv' \in Drvs
    BY <1>1, <1>2 DEF StartBegin, Fws, Drvs
  <2>4. was' \in Pasts
    BY <1>2, CrossesType DEF StartBegin
  <2>5. faults' \in Nat
    BY <1>2, FaultType DEF StartBegin
  <2> QED
    BY <1>2, <2>1, <2>2, <2>3, <2>4, <2>5 DEF StartBegin, TypeOK
<1>3. CASE StartOpen
  <2>1. mac' \in Macs
    BY <1>1, <1>3 DEF StartOpen, Goto, Macs, Downs
  <2>2. drv' \in Drvs
    BY <1>1, <1>3 DEF StartOpen, Opened, Drvs
  <2>3. hal' \in Hals
    BY <1>1, <1>3 DEF StartOpen, HalStart, Hals
  <2>4. was' \in Pasts
    BY <1>3, CrossesType DEF StartOpen
  <2> QED
    BY <1>3, <2>1, <2>2, <2>3, <2>4 DEF StartOpen, TypeOK
<1>4. CASE StartReset
  <2>1. mac' \in Macs
    BY <1>1, <1>4 DEF StartReset, Goto, Macs, Downs
  <2>2. txq' \in Txqs
    BY <1>4, SentType, MessageTypes DEF StartReset
  <2> QED
    BY <1>4, <2>1, <2>2 DEF StartReset, TypeOK
<1>5. CASE StartEnd
  <2>1. mac' \in Macs
    BY <1>1, <1>5 DEF StartEnd, Goto, Macs, Ups
  <2>2. txq' \in Txqs
    BY <1>5, SentType, MessageTypes DEF StartEnd
  <2>3. drv' \in Drvs
    BY <1>1, <1>5 DEF StartEnd, Drvs
  <2>4. tok' \in [Tokens -> Holders]
    BY <1>5 DEF StartEnd, Free, Holders
  <2> QED
    BY <1>5, <2>1, <2>2, <2>3, <2>4 DEF StartEnd, TypeOK
<1>6. CASE StartFails
  <2>1. mac' \in Macs
    BY <1>1, <1>6 DEF StartFails, Goto, Macs, Downs
  <2>2. drv' \in Drvs /\ hal' \in Hals
    BY <1>1, <1>6 DEF StartFails, HalStop, Drvs, Hals
  <2>3. was' \in Pasts /\ faults' \in Nat
    BY <1>6, CrossesType, FaultType DEF StartFails, CmdDone
  <2> QED
    BY <1>6, <2>1, <2>2, <2>3 DEF StartFails, TypeOK
<1> QED
  BY <1>2, <1>3, <1>4, <1>5, <1>6

LEMMA TimeOutTypes ==
    ASSUME TypeOK, StartTimesOut \/ StopTimesOut
    PROVE  TypeOK'
<1>1. PICK next \in {"fail", "stop_fail"} : TimesOut(next)
  BY DEF StartTimesOut, StopTimesOut
<1>2. mac' \in Macs
  BY <1>1 DEF TimesOut, Goto, TypeOK, Macs, Downs, Ups
<1>3. hal' \in Hals /\ rec' \in Recs
  BY <1>1, SignalType DEF TimesOut
<1>4. was' \in Pasts /\ faults' \in Nat
  BY <1>1, FaultType DEF TimesOut, TypeOK, Pasts
<1> QED
  BY <1>1, <1>2, <1>3, <1>4 DEF TimesOut, TypeOK

LEMMA StopTypes ==
    ASSUME TypeOK, \/ Stop \/ StopDrained \/ StopDisabled \/ StopFails \/ StopHal \/ StopEnd
    PROVE  TypeOK'
<1>1. mac \in Macs /\ drv \in Drvs /\ hal \in Hals /\ fw \in Fws /\ line \in Lines
      /\ tok \in [Tokens -> Holders]
  BY DEF TypeOK
<1>2. mac' \in Macs
  <2>1. \E x \in Downs \cup Ups : mac' = [mac EXCEPT !.pc = x]
    BY DEF Stop, StopDrained, StopDisabled, StopFails, StopHal, StopEnd, Goto, Downs, Ups
  <2> QED
    BY <1>1, <2>1 DEF Macs
<1>3. CASE Stop \/ StopDisabled
  BY <1>2, <1>3 DEF Stop, StopDisabled, TypeOK
<1>4. CASE StopDrained
  <2>1. drv' \in Drvs
    BY <1>1, <1>4 DEF StopDrained, Drvs
  <2>2. txq' \in Txqs
    BY <1>4, SentType, MessageTypes DEF StopDrained, TypeOK
  <2>3. \A t \in Tokens : Purged(t) \in Holders
    BY <1>1 DEF Purged, Holders
  <2>4. tok' \in [Tokens -> Holders]
    BY <1>4, <2>3 DEF StopDrained
  <2>5. frames' \in [Frames -> {"mac", "driver", "freed", "reported", "lost"}]
    BY <1>4 DEF StopDrained, TypeOK
  <2>6. faults' \in Nat
    BY <1>4, FaultType DEF StopDrained
  <2> QED
    BY <1>2, <1>4, <2>1, <2>2, <2>4, <2>5, <2>6 DEF StopDrained, TypeOK
<1>5. CASE StopFails
  <2>1. faults' \in Nat
    BY <1>5, FaultType DEF StopFails, CmdDone
  <2> QED
    BY <1>2, <1>5, <2>1 DEF StopFails, TypeOK
<1>6. CASE StopHal
  <2>1. faults' \in Nat /\ was' \in Pasts
    BY <1>6, FaultType, CrossesType DEF StopHal
  <2>2. hal' \in Hals
    BY <1>1, <1>6 DEF StopHal, HalStop, Hals
  <2> QED
    BY <1>2, <1>6, <2>1, <2>2 DEF StopHal, TypeOK
<1>7. CASE StopEnd
  <2>1. drv' \in Drvs
    BY <1>1, <1>7 DEF StopEnd, Drvs, Hals
  <2>2. fw' \in Fws /\ line' \in Lines
    BY <1>1, <1>7, DeadTypes DEF StopEnd
  <2>3. was' \in Pasts
    BY <1>7, CrossesType DEF StopEnd
  <2> QED
    BY <1>2, <1>7, <2>1, <2>2, <2>3 DEF StopEnd, TypeOK
<1> QED
  BY <1>3, <1>4, <1>5, <1>6, <1>7

LEMMA CompletedType ==
    ASSUME TypeOK, NEW t \in Tokens, Completed(t)
    PROVE  /\ tok' \in [Tokens -> Holders]
           /\ frames' \in [Frames -> {"mac", "driver", "freed", "reported", "lost"}]
<1>1. Free \in Holders
  BY DEF Free, Holders
<1>2. tok' \in [Tokens -> Holders]
  BY <1>1 DEF Completed, TypeOK
<1>3. frames' \in [Frames -> {"mac", "driver", "freed", "reported", "lost"}]
  BY DEF Completed, TypeOK
<1> QED
  BY <1>2, <1>3

LEMMA ThreadTypes ==
    ASSUME TypeOK, Threads \/ (\E f \in Frames : Tx(f))
    PROVE  TypeOK'
<1>1. hal \in Hals /\ fw \in Fws /\ tok \in [Tokens -> Holders] /\ txq \in Txqs
      /\ line \in Lines /\ drv \in Drvs
  BY DEF TypeOK
<1>2. CASE TxSleeps
  <2>1. txq' \in Txqs
    BY <1>1, <1>2 DEF TxSleeps, Txqs
  <2> QED
    BY <1>2, <2>1 DEF TxSleeps, TypeOK
<1>3. CASE TxWrites
  <2> DEFINE m == Head(txq.q)
  <2>1. m \in Commands /\ Tail(txq.q) \in Seq(Commands)
    BY <1>1, <1>3, HeadTailProperties DEF TxWrites, Txqs
  <2>2. txq' = [q |-> Tail(txq.q), woken |-> ~hal.disabled]
        /\ hal' = [hal EXCEPT !.saved = hal.saved \/ m.id = "ENABLE"]
        /\ tok' = (IF m.id = "TX" THEN [tok EXCEPT ![m.t].sent = TRUE] ELSE tok)
        /\ fw' = (IF hal.disabled \/ ~fw.on THEN fw
                  ELSE IF IsReset(m) THEN [fw EXCEPT !.doing = {}, !.resets = @ + 1]
                  ELSE IF m.id = "TX" THEN [fw EXCEPT !.doing = @ \cup {m}] ELSE fw)
    BY <1>3 DEF TxWrites
  <2> HIDE DEF m
  <2>3. txq' \in Txqs
    BY <1>1, <2>1, <2>2 DEF Txqs, Hals
  <2>4. hal' \in Hals
    BY <1>1, <2>2 DEF Hals
  <2>5. tok' \in [Tokens -> Holders]
    BY <1>1, <2>1, <2>2 DEF Holders, Commands
  <2>6. fw' \in Fws
    <3>1. [fw EXCEPT !.doing = {}, !.resets = @ + 1] \in Fws
      BY <1>1, DeadTypes
    <3>2. m.id = "TX" => [fw EXCEPT !.doing = @ \cup {m}] \in Fws
      BY <1>1, <2>1 DEF Fws
    <3> QED
      BY <1>1, <2>2, <3>1, <3>2
  <2> QED
    BY <1>3, <2>3, <2>4, <2>5, <2>6 DEF TxWrites, TypeOK
<1>4. CASE RxReads
  <2> DEFINE e == Head(line.q)
  <2>1. e \in Reports /\ Tail(line.q) \in Seq(Reports)
    BY <1>1, <1>4, HeadTailProperties DEF RxReads, Lines
  <2>2. line' \in Lines
    BY <1>4, <2>1 DEF RxReads, Lines
  <2>3. hal' = hal \/ \E x \in {"comp", hal.status} :
                        hal' = [hal EXCEPT !.cmdDone = TRUE, !.status = x]
    BY <1>4 DEF RxReads
  <2>4. hal' \in Hals
    BY <1>1, <2>3 DEF Hals
  <2>5. rxq' \in Seq(Reports)
    <3>1. rxq' = rxq \/ rxq' = Append(rxq, e)
      BY <1>4 DEF RxReads
    <3> HIDE DEF e
    <3> QED
      BY <2>1, <3>1, AppendProperties DEF TypeOK
  <2> QED
    BY <1>4, <2>2, <2>4, <2>5 DEF RxReads, TypeOK
<1>5. CASE RxHandles
  <2>1. Head(rxq) \in Reports /\ Tail(rxq) \in Seq(Reports) /\ rxq' = Tail(rxq)
    BY <1>5, HeadTailProperties DEF RxHandles, TypeOK
  <2>2. \/ UNCHANGED <<drv, tok, frames>>
        \/ drv' = [drv EXCEPT !.resetDone = TRUE] /\ UNCHANGED <<tok, frames>>
        \/ Head(rxq).id = "TX_DONE" /\ Completed(Head(rxq).t) /\ UNCHANGED drv
    BY <1>5, <2>1 DEF RxHandles, Reports, Heard, Drvs
  <2>3. drv' \in Drvs
    BY <1>1, <2>2 DEF Drvs
  <2>4. /\ tok' \in [Tokens -> Holders]
        /\ frames' \in [Frames -> {"mac", "driver", "freed", "reported", "lost"}]
    BY <1>1, <2>1, <2>2, CompletedType DEF Reports, TypeOK
  <2> QED
    BY <1>5, <2>1, <2>3, <2>4 DEF RxHandles, TypeOK
<1>6. ASSUME NEW f \in Frames, Tx(f) PROVE TypeOK'
  <2>1. CASE hal.processing
    BY <1>6, <2>1 DEF Tx, TypeOK
  <2>2. CASE ~hal.processing
    <3>1. PICK t \in Tokens :
            /\ tok' = [tok EXCEPT ![t] = [Free EXCEPT !.claimed = TRUE, !.frame = f]]
            /\ frames' = [frames EXCEPT ![f] = "driver"] /\ txq' = Sent(Msg("TX", t))
      BY <1>6, <2>2 DEF Tx
    <3>2. [Free EXCEPT !.claimed = TRUE, !.frame = f] \in Holders
      BY DEF Free, Holders
    <3>3. tok' \in [Tokens -> Holders]
      BY <1>1, <3>1, <3>2
    <3>4. txq' \in Txqs
      BY <3>1, SentType, MessageTypes
    <3>5. frames' \in [Frames -> {"mac", "driver", "freed", "reported", "lost"}]
      BY <3>1 DEF TypeOK
    <3> QED
      BY <1>6, <3>3, <3>4, <3>5 DEF Tx, TypeOK
  <2> QED
    BY <2>1, <2>2
<1> QED
  BY <1>2, <1>3, <1>4, <1>5, <1>6 DEF Threads

LEMMA TellsType ==
    ASSUME TypeOK, NEW e \in Reports, Tells(e)
    PROVE  line' \in Lines
<1>1. Append(line.q, e) \in Seq(Reports)
  BY AppendProperties DEF TypeOK, Lines
<1> QED
  BY <1>1 DEF TypeOK, Lines, Hals, Tells

LEMMA RecoveryTypes ==
    ASSUME TypeOK, Recovery
    PROVE  TypeOK'
<1>1. hal \in Hals /\ fw \in Fws /\ drv \in Drvs /\ line \in Lines
  BY DEF TypeOK
<1>2. rec' \in Recs
  BY DEF Recovery, RecTearDown, RecBringUp, RecReset, RecWrites, RecAnswered, RecClear,
     RecJudges, RecUnfinished, RecOperates, RecStep, Recs, TypeOK
<1>3. CASE RecTearDown
  <2>1. hal' \in Hals
    BY <1>1, <1>3 DEF RecTearDown, Hals
  <2>2. fw' \in Fws /\ line' \in Lines
    BY <1>3, DeadTypes DEF RecTearDown
  <2>3. faults' \in Nat
    BY <1>3, FaultType DEF RecTearDown
  <2> QED
    BY <1>2, <1>3, <2>1, <2>2, <2>3 DEF RecTearDown, TypeOK
<1>4. CASE RecBringUp
  <2>1. hal' \in Hals
    BY <1>1, <1>4 DEF RecBringUp, Enabled, Hals
  <2>2. fw' \in Fws
    BY <1>1, <1>4 DEF RecBringUp, Fws
  <2>3. was' \in Pasts
    BY <1>4 DEF RecBringUp, TypeOK, Pasts
  <2>4. faults' \in Nat
    BY <1>4, FaultType DEF RecBringUp
  <2> QED
    BY <1>2, <1>4, <2>1, <2>2, <2>3, <2>4 DEF RecBringUp, TypeOK
<1>5. CASE RecReset \/ RecClear
  <2>1. hal' \in Hals
    BY <1>1, <1>5 DEF RecReset, RecClear, Hals
  <2> QED
    BY <1>2, <1>5, <2>1 DEF RecReset, RecClear, TypeOK
<1>6. CASE RecWrites
  <2>1. hal' \in Hals
    BY <1>1, <1>6 DEF RecWrites, Hals
  <2>2. fw' \in Fws
    BY <1>1, <1>6 DEF RecWrites, Fws
  <2> QED
    BY <1>2, <1>6, <2>1, <2>2 DEF RecWrites, TypeOK
<1>7. CASE RecAnswered \/ RecJudges
  BY <1>2, <1>7 DEF RecAnswered, RecJudges, TypeOK
<1>8. CASE RecUnfinished
  <2>1. UNCHANGED <<tok, frames>> \/ \E t \in Tokens : Completed(t)
    BY <1>8 DEF RecUnfinished, Claimed
  <2>2. /\ tok' \in [Tokens -> Holders]
        /\ frames' \in [Frames -> {"mac", "driver", "freed", "reported", "lost"}]
    BY <2>1, CompletedType DEF TypeOK
  <2> QED
    BY <1>2, <1>8, <2>2 DEF RecUnfinished, TypeOK
<1>9. CASE RecOperates
  <2>1. drv' \in Drvs
    BY <1>1, <1>9 DEF RecOperates, Drvs
  <2>2. was' \in Pasts
    BY <1>9 DEF RecOperates, TypeOK, Pasts
  <2> QED
    BY <1>2, <1>9, <2>1, <2>2 DEF RecOperates, TypeOK
<1> QED
  BY <1>3, <1>4, <1>5, <1>6, <1>7, <1>8, <1>9 DEF Recovery

LEMMA FirmwareTypes ==
    ASSUME TypeOK, FwResets \/ FwTxDone \/ FwDies
    PROVE  TypeOK'
<1>1. fw \in Fws /\ mac \in Macs
  BY DEF TypeOK
<1>2. CASE FwResets
  <2>1. fw' \in Fws
    BY <1>1, <1>2 DEF FwResets, Fws
  <2>2. line' \in Lines
    BY <1>2, TellsType, MessageTypes DEF FwResets
  <2> QED
    BY <1>2, <2>1, <2>2 DEF FwResets, fwFrame, TypeOK
<1>3. CASE FwTxDone
  <2>1. PICK m \in fw.doing : fw' = [fw EXCEPT !.doing = @ \ {m}]
                              /\ Tells([m EXCEPT !.id = "TX_DONE"])
    BY <1>3 DEF FwTxDone
  <2>2. m \in Commands /\ m.id = "TX"
    BY <1>1, <2>1 DEF Fws
  <2>3. [m EXCEPT !.id = "TX_DONE"] \in Reports
    BY <2>2 DEF Commands, Reports
  <2>4. fw' \in Fws
    BY <1>1, <2>1 DEF Fws
  <2>5. line' \in Lines
    BY <2>1, <2>3, TellsType
  <2> QED
    BY <1>3, <2>4, <2>5 DEF FwTxDone, fwFrame, TypeOK
<1>4. CASE FwDies
  <2>1. fw' \in Fws /\ faults' \in Nat
    BY <1>4, DeadTypes, FaultType DEF FwDies
  <2>2. hal' \in Hals /\ rec' \in Recs
    BY <1>4, SignalType DEF FwDies, TypeOK
  <2>3. was' \in Pasts
    BY <1>4, CrossesType DEF FwDies
  <2> QED
    BY <1>4, <2>1, <2>2, <2>3 DEF FwDies, fwFrame, TypeOK
<1> QED
  BY <1>2, <1>3, <1>4

LEMMA InitTypes == Init => TypeOK
<1> SUFFICES ASSUME Init PROVE TypeOK
  OBVIOUS
<1>1. fw \in Fws /\ line \in Lines /\ txq \in Txqs /\ rxq \in Seq(Reports)
  <2>1. <<>> \in Seq(Commands) /\ <<>> \in Seq(Reports)
    OBVIOUS
  <2> QED
    BY <2>1, DeadTypes DEF Init, Txqs
<1>2. tok \in [Tokens -> Holders]
  BY DEF Init, Free, Holders
<1> QED
  BY <1>1, <1>2 DEF Init, TypeOK, Macs, Downs, Drvs, Hals, Recs, Pasts

LEMMA StepTypes == TypeOK /\ [Next]_vars => TypeOK'
<1> SUFFICES ASSUME TypeOK, [Next]_vars PROVE TypeOK'
  OBVIOUS
<1>1. CASE UNCHANGED vars
  BY <1>1 DEF vars, TypeOK
<1>2. CASE Next
  BY <1>2, StartTypes, TimeOutTypes, StopTypes, ThreadTypes, RecoveryTypes, FirmwareTypes
     DEF Next, Progress, MacProgress
<1> QED
  BY <1>1, <1>2

LEMMA SpecTypes == Spec => []TypeOK
  BY InitTypes, StepTypes, PTL DEF Spec

\* Every variable keeps its type.
THEOREM TypesCorrect == Spec => []TypeOK
  BY SpecTypes

-----------------------------------------------------------------------------
(* Where the frames are.                                                     *)

\* A step that neither starts nor stops the driver and moves no frame.
LEMMA FramesStay ==
    ASSUME TypeOK, FrameInv, frames' = frames, drv'.state = drv.state,
           \/ mac'.pc = mac.pc
           \/ {mac.pc, mac'.pc} \subseteq Downs
           \/ {mac.pc, mac'.pc} \subseteq Ups \ {"on", "drain"}
           \/ {mac.pc, mac'.pc} \subseteq {"on", "drain"},
           \A t \in Tokens : tok'[t].frame = tok[t].frame /\ tok'[t].claimed = tok[t].claimed
    PROVE  FrameInv'
  BY DEF FrameInv, Downs, Ups

LEMMA CompletedFrames ==
    ASSUME TypeOK, FrameInv, NEW t \in Tokens, Completed(t), mac' = mac, drv'.state = drv.state
    PROVE  FrameInv'
<1>1. /\ tok' = [tok EXCEPT ![t] = Free]
      /\ frames' = IF tok[t].frame = NoFrame THEN frames
                   ELSE [frames EXCEPT ![tok[t].frame] =
                           IF drv.state = "STARTED" THEN "reported" ELSE "lost"]
  BY DEF Completed
<1>2. tok'[t].frame = NoFrame /\ ~tok'[t].claimed /\ (\A u \in Tokens \ {t} : tok'[u] = tok[u])
  BY <1>1 DEF TypeOK, Free
<1>3. \A f \in Frames : f # NoFrame
  BY DEF Frames, NoFrame
<1>4. tok[t].frame # NoFrame => drv.state = "STARTED" /\ tok[t].frame \in Frames
  <2>1. tok[t].frame \in Frames \cup {NoFrame} /\ mac.pc \in Downs \cup Ups
    BY DEF TypeOK, Holders, Macs
  <2> QED
    BY <2>1 DEF FrameInv, Ups
<1>5. ASSUME NEW f \in Frames
      PROVE  frames'[f] # "lost" /\ (frames'[f] = "driver" => \E u \in Tokens : tok'[u].frame = f)
  <2>1. CASE tok[t].frame = f
    <3>1. frames'[f] = "reported"
      BY <1>1, <1>3, <1>4, <2>1 DEF TypeOK
    <3> QED
      BY <3>1
  <2>2. CASE tok[t].frame # f
    <3>1. frames'[f] = frames[f]
      BY <1>1, <1>4, <2>2 DEF TypeOK
    <3> QED
      BY <1>2, <2>2, <3>1 DEF FrameInv
  <2> QED
    BY <2>1, <2>2
<1> QED
  BY <1>2, <1>5 DEF FrameInv

LEMMA StartFrames ==
    ASSUME TypeOK, FrameInv,
           \/ StartBegin \/ StartOpen \/ StartReset \/ StartTimesOut \/ StartEnd \/ StartFails
    PROVE  FrameInv'
<1>1. mac \in Macs /\ drv \in Drvs
  BY DEF TypeOK
<1>2. CASE StartBegin \/ StartOpen \/ StartReset \/ StartTimesOut \/ StartFails
  <2>1. mac.pc \in Downs /\ mac'.pc \in Downs
    <3>1. mac.pc \in Downs
      BY <1>2 DEF StartBegin, StartOpen, StartReset, StartTimesOut, StartFails, At, Downs
    <3>2. \/ mac' = [mac EXCEPT !.starts = @ + 1]
          \/ mac' = [pc |-> "open", starts |-> mac.starts + 1]
          \/ \E x \in Downs : mac' = [mac EXCEPT !.pc = x]
      BY <1>2 DEF StartBegin, StartOpen, StartReset, StartTimesOut, StartFails, TimesOut, Goto,
         Downs
    <3> QED
      BY <1>1, <3>1, <3>2 DEF Macs, Downs
  <2>2. drv'.state = drv.state
    BY <1>1, <1>2 DEF StartBegin, StartOpen, StartReset, StartTimesOut, StartFails, TimesOut,
       Opened, Drvs
  <2>3. tok' = tok /\ frames' = frames
    BY <1>2 DEF StartBegin, StartOpen, StartReset, StartTimesOut, StartFails, TimesOut
  <2> QED
    BY <2>1, <2>2, <2>3, FramesStay
<1>3. CASE StartEnd
  <2>1. mac.pc = "wait_enable" /\ mac'.pc = "on" /\ drv'.state = "STARTED" /\ frames' = frames
        /\ tok' = [t \in Tokens |-> Free]
    BY <1>1, <1>3 DEF StartEnd, At, Goto, Macs, Drvs
  <2>2. \A t \in Tokens : tok[t].frame = NoFrame /\ tok'[t].frame = NoFrame
    BY <2>1 DEF FrameInv, Free
  <2>3. \A f \in Frames : f # NoFrame
    BY DEF Frames, NoFrame
  <2>4. \A f \in Frames : frames'[f] # "lost" /\ frames'[f] # "driver"
    BY <2>1, <2>2, <2>3 DEF FrameInv
  <2> QED
    BY <2>1, <2>2, <2>4 DEF FrameInv, Downs
<1> QED
  BY <1>2, <1>3

LEMMA StopFrames ==
    ASSUME TypeOK, FrameInv,
           \/ Stop \/ StopDrained \/ StopDisabled \/ StopTimesOut \/ StopFails \/ StopHal
           \/ StopEnd
    PROVE  FrameInv'
<1>1. mac \in Macs /\ drv \in Drvs /\ tok \in [Tokens -> Holders]
  BY DEF TypeOK
<1>2. CASE Stop \/ StopDisabled \/ StopTimesOut \/ StopFails \/ StopHal
  <2>1. /\ tok' = tok /\ frames' = frames /\ drv' = drv
        /\ \/ mac.pc = "on" /\ mac' = [mac EXCEPT !.pc = "drain"]
           \/ /\ mac.pc \in Ups \ {"on", "drain"}
              /\ \E x \in Ups \ {"on", "drain"} : mac' = [mac EXCEPT !.pc = x]
    BY <1>2 DEF Stop, StopDisabled, StopTimesOut, StopFails, StopHal, TimesOut, At, Goto, Ups
  <2>2. \/ mac.pc = "on" /\ mac'.pc = "drain"
        \/ {mac.pc, mac'.pc} \subseteq Ups \ {"on", "drain"}
    BY <1>1, <2>1 DEF Macs
  <2> QED
    BY <2>1, <2>2, FramesStay
<1>3. CASE StopDrained
  <2>1. /\ mac.pc = "drain" /\ mac'.pc \in {"await_recovery", "wait_disable"}
        /\ drv'.state = drv.state
        /\ tok' = [t \in Tokens |-> Purged(t)]
        /\ frames' = [f \in Frames |->
             IF \E t \in Tokens : tok[t].frame = f /\ tok'[t].frame = NoFrame
             THEN "freed" ELSE frames[f]]
    BY <1>1, <1>3 DEF StopDrained, At, Goto, Macs, Drvs
  <2>2. \A t \in Tokens : tok'[t].frame = NoFrame
    BY <1>1, <2>1 DEF Purged, Holders
  <2>3. \A f \in Frames : frames'[f] # "lost" /\ frames'[f] # "driver"
    BY <2>1, <2>2 DEF FrameInv
  <2> QED
    BY <2>1, <2>2, <2>3 DEF FrameInv, Downs, Ups
<1>4. CASE StopEnd
  <2>1. mac.pc = "close" /\ mac'.pc = "off" /\ drv'.state = "STOPPED" /\ tok' = tok
        /\ frames' = frames
    BY <1>1, <1>4 DEF StopEnd, At, Goto, Macs, Drvs
  <2> QED
    BY <2>1 DEF FrameInv, Ups
<1> QED
  BY <1>2, <1>3, <1>4

LEMMA OtherFrames ==
    ASSUME TypeOK, FrameInv,
           \/ Threads \/ Recovery \/ FwResets \/ FwTxDone \/ FwDies
           \/ \E f \in Frames : Tx(f)
    PROVE  FrameInv'
<1>1. mac \in Macs /\ drv \in Drvs /\ tok \in [Tokens -> Holders] /\ txq \in Txqs
      /\ rxq \in Seq(Reports)
  BY DEF TypeOK
<1>2. CASE TxWrites
  <2> DEFINE m == Head(txq.q)
  <2>1. m \in Commands
    BY <1>1, <1>2, HeadTailProperties DEF TxWrites, Txqs
  <2>2. tok' = (IF m.id = "TX" THEN [tok EXCEPT ![m.t].sent = TRUE] ELSE tok)
        /\ UNCHANGED <<mac, drv, frames>>
    BY <1>2 DEF TxWrites
  <2> HIDE DEF m
  <2>3. \A t \in Tokens : tok'[t].frame = tok[t].frame /\ tok'[t].claimed = tok[t].claimed
    BY <1>1, <2>1, <2>2 DEF Holders, Commands
  <2> QED
    BY <2>2, <2>3, FramesStay
<1>3. CASE RxHandles
  <2>1. Head(rxq) \in Reports
    BY <1>1, <1>3, HeadTailProperties DEF RxHandles
  <2>2. \/ UNCHANGED <<tok, frames>> /\ (drv' = drv \/ drv' = [drv EXCEPT !.resetDone = TRUE])
        \/ Head(rxq).id = "TX_DONE" /\ Completed(Head(rxq).t) /\ UNCHANGED drv
    BY <1>1, <1>3, <2>1 DEF RxHandles, Reports, Heard, Drvs
  <2>3. drv'.state = drv.state /\ mac' = mac
    BY <1>1, <1>3, <2>2 DEF Drvs, RxHandles
  <2> QED
    BY <2>1, <2>2, <2>3, FramesStay, CompletedFrames DEF Reports
<1>4. CASE RecUnfinished
  <2>1. (UNCHANGED <<tok, frames>> \/ \E t \in Tokens : Completed(t)) /\ UNCHANGED <<mac, drv>>
    BY <1>4 DEF RecUnfinished, Claimed
  <2> QED
    BY <2>1, FramesStay, CompletedFrames
<1>5. CASE RecOperates
  <2>1. UNCHANGED <<mac, tok, frames>> /\ drv' = [drv EXCEPT !.resetDone = TRUE]
    BY <1>5 DEF RecOperates
  <2>2. drv'.state = drv.state
    BY <1>1, <2>1 DEF Drvs
  <2> QED
    BY <2>1, <2>2, FramesStay
<1>6. ASSUME NEW f \in Frames, Tx(f) PROVE FrameInv'
  <2>1. CASE hal.processing
    <3>1. frames' = [frames EXCEPT ![f] = "freed"] /\ UNCHANGED <<mac, drv, tok>>
      BY <1>6, <2>1 DEF Tx
    <3> QED
      BY <3>1 DEF FrameInv, TypeOK
  <2>2. CASE ~hal.processing
    <3>1. PICK t \in Tokens :
            /\ ~tok[t].claimed
            /\ tok' = [tok EXCEPT ![t] = [Free EXCEPT !.claimed = TRUE, !.frame = f]]
            /\ frames' = [frames EXCEPT ![f] = "driver"]
      BY <1>6, <2>2 DEF Tx
    <3>2. tok'[t].frame = f /\ tok'[t].claimed /\ (\A u \in Tokens \ {t} : tok'[u] = tok[u])
      BY <1>1, <3>1 DEF Free
    <3>3. mac.pc = "on" /\ UNCHANGED <<mac, drv>> /\ tok[t].frame = NoFrame
      BY <1>6, <3>1 DEF Tx, At, FrameInv
    <3>4. \A g \in Frames : g # NoFrame
      BY DEF Frames, NoFrame
    <3>5. ASSUME NEW g \in Frames
          PROVE  frames'[g] # "lost"
                 /\ (frames'[g] = "driver" => \E u \in Tokens : tok'[u].frame = g)
      BY <3>1, <3>2, <3>3, <3>4 DEF FrameInv, TypeOK
    <3> QED
      BY <3>2, <3>3, <3>5 DEF FrameInv
  <2> QED
    BY <2>1, <2>2
<1>7. CASE UNCHANGED <<mac, drv, tok, frames>>
  BY <1>7, FramesStay
<1> QED
  BY <1>2, <1>3, <1>4, <1>5, <1>6, <1>7 DEF Threads, TxSleeps, RxReads, Recovery, RecTearDown,
     RecBringUp, RecReset, RecWrites, RecAnswered, RecClear, RecJudges, FwResets, FwTxDone,
     FwDies, fwFrame

LEMMA InitFrames == Init => FrameInv
  BY DEF Init, FrameInv, Free, Downs, Ups

LEMMA StepFrames == TypeOK /\ FrameInv /\ [Next]_vars => FrameInv'
<1> SUFFICES ASSUME TypeOK, FrameInv, [Next]_vars PROVE FrameInv'
  OBVIOUS
<1>1. CASE UNCHANGED vars
  BY <1>1, FramesStay DEF vars
<1>2. CASE Next
  BY <1>2, StartFrames, StopFrames, OtherFrames DEF Next, Progress, MacProgress
<1> QED
  BY <1>1, <1>2

\* For any number of tokens, frames, starts and faults: the driver drops no frame
\* (as rpu_tx_free_buff_req would in a driver that is not STARTED), and what it was given is
\* reported or freed before stop returns (rpu_tx_deinit), whatever the firmware
\* and its recovery do meanwhile.
THEOREM NoFrameLeftBehind == Spec => []FramesAccounted
<1>1. FrameInv /\ TypeOK => FramesAccounted
  <2>1. \A f \in Frames : f # NoFrame
    BY DEF Frames, NoFrame
  <2> QED
    BY <2>1 DEF FrameInv, FramesAccounted, TypeOK, Macs, Ups
<1> QED
  BY <1>1, SpecTypes, InitFrames, StepFrames, PTL DEF Spec

-----------------------------------------------------------------------------
(* The worker and its reset.                                                 *)

\* A step that leaves the firmware and its events alone, or destroys them, and at
\* most calls the worker or forgets an answer.
LEMMA WorkerStays ==
    ASSUME TypeOK, WorkerInv,
           rec' = rec \/ (rec = "idle" /\ rec' = "called" /\ hal'.processing),
           hal.processing => hal'.processing,
           hal'.status \in {hal.status, "none"},
           \/ fw'.resets = fw.resets /\ fw'.doing = fw.doing /\ line'.q = line.q
           \/ fw'.resets = 0 /\ fw'.doing = {} /\ line'.q \in {<<>>, line.q}
    PROVE  WorkerInv'
<1>1. fw.resets \in Nat /\ Len(line.q) \in Nat /\ Len(<<>>) = 0
  BY DEF TypeOK, Fws, Lines
<1>2. rec' = "wait" =>
        fw'.resets + Len(line'.q) <= (IF hal'.status = "comp" THEN 0 ELSE 1)
  BY <1>1 DEF WorkerInv
<1>3. /\ rec' = "called" \/ Owned' => hal'.processing
      /\ Owned' => fw'.doing = {}
      /\ rec' \in {"off", "up", "reset", "clear"} => fw'.resets = 0 /\ line'.q = <<>>
      /\ rec' = "reset" => hal'.status # "comp"
  BY DEF WorkerInv, Owned
<1> QED
  BY <1>2, <1>3 DEF WorkerInv

LEMMA SignalFields ==
    ASSUME TypeOK, NEW why \in {"SDIO", "RESET_CMD"}
    PROVE  /\ Signalled(why).processing /\ Signalled(why).status = hal.status
           /\ WorkerCalled = rec \/ (rec = "idle" /\ WorkerCalled = "called")
  BY DEF TypeOK, Hals, Signalled, WorkerCalled

LEMMA MacWorker ==
    ASSUME TypeOK, WorkerInv, MacProgress \/ StartBegin \/ Stop \/ FwDies
    PROVE  WorkerInv'
<1>1. hal \in Hals /\ fw \in Fws /\ line \in Lines
  BY DEF TypeOK
<1>2. CASE StartTimesOut \/ StopTimesOut
  <2>1. hal' = Signalled("RESET_CMD") /\ rec' = WorkerCalled /\ UNCHANGED <<fw, line>>
    BY <1>2 DEF StartTimesOut, StopTimesOut, TimesOut
  <2>2. hal'.processing /\ hal'.status = hal.status
        /\ (rec' = rec \/ (rec = "idle" /\ rec' = "called"))
    BY <2>1, SignalFields
  <2> QED
    BY <2>1, <2>2, WorkerStays
<1>3. CASE FwDies
  <2>1. /\ \/ hal' = Signalled("SDIO") /\ rec' = WorkerCalled
           \/ UNCHANGED <<hal, rec>>
        /\ fw' = [on |-> FALSE, doing |-> {}, resets |-> 0] /\ line' = line
    BY <1>3 DEF FwDies, fwFrame
  <2>2. (hal.processing => hal'.processing) /\ hal'.status = hal.status
        /\ (rec' = rec \/ (rec = "idle" /\ rec' = "called" /\ hal'.processing))
    BY <2>1, SignalFields
  <2>3. fw'.resets = 0 /\ fw'.doing = {}
    BY <2>1
  <2> QED
    BY <2>1, <2>2, <2>3, WorkerStays
<1>4. CASE ~(StartTimesOut \/ StopTimesOut \/ FwDies)
  <2>1. /\ rec' = rec
        /\ \/ hal' = hal \/ hal' = [hal EXCEPT !.error = FALSE]
           \/ hal' = [hal EXCEPT !.disabled = FALSE, !.saved = FALSE, !.status = "none"]
           \/ hal' = [hal EXCEPT !.disabled = TRUE]
        /\ \/ (fw' = fw \/ fw' = [fw EXCEPT !.on = TRUE]) /\ line' = line
           \/ /\ fw' = [on |-> FALSE, doing |-> {}, resets |-> 0]
              /\ line' = [q |-> <<>>, woken |-> FALSE]
    BY <1>4 DEF MacProgress, StartBegin, StartOpen, StartReset, StartEnd, StartFails, Stop,
       StopDrained, StopDisabled, StopFails, StopHal, StopEnd, HalStart, HalStop
  <2>2. hal'.processing = hal.processing /\ hal'.status \in {hal.status, "none"}
    BY <1>1, <2>1 DEF Hals
  <2>3. \/ fw'.resets = fw.resets /\ fw'.doing = fw.doing /\ line'.q = line.q
        \/ fw'.resets = 0 /\ fw'.doing = {} /\ line'.q = <<>>
    BY <1>1, <2>1 DEF Fws
  <2> QED
    BY <2>1, <2>2, <2>3, WorkerStays
<1> QED
  BY <1>2, <1>3, <1>4

LEMMA ThreadWorker ==
    ASSUME TypeOK, WorkerInv,
           Threads \/ FwResets \/ FwTxDone \/ (\E f \in Frames : Tx(f))
    PROVE  WorkerInv'
<1>1. hal \in Hals /\ fw \in Fws /\ line \in Lines /\ line.q \in Seq(Reports)
      /\ fw.resets \in Nat /\ Len(line.q) \in Nat
  BY DEF TypeOK, Fws, Lines
<1>2. CASE TxWrites
  <2>1. ~hal.processing /\ rec' = rec
    BY <1>2 DEF TxWrites
  <2>2. rec \notin {"called", "off", "up", "reset", "wait", "clear"}
    BY <2>1 DEF WorkerInv, Owned
  <2> QED
    BY <2>1, <2>2 DEF WorkerInv, Owned
<1>3. CASE RxReads
  <2>1. line.q # <<>> /\ line'.q = Tail(line.q) /\ UNCHANGED <<fw, rec>>
        /\ \/ ~hal.processing /\ hal' = hal
           \/ \E x \in {"comp", hal.status} :
                hal' = [hal EXCEPT !.cmdDone = TRUE, !.status = x]
    BY <1>3 DEF RxReads
  <2>2. hal'.processing = hal.processing /\ hal'.status \in {"comp", hal.status}
    BY <1>1, <2>1 DEF Hals
  <2>3. Len(line.q) > 0 /\ Len(line'.q) = Len(line.q) - 1
    BY <1>1, <2>1, HeadTailProperties, EmptySeq
  <2>4. rec \notin {"off", "up", "reset", "clear"}
    BY <2>1 DEF WorkerInv
  <2>5. rec = "wait" => fw'.resets + Len(line'.q) <= (IF hal'.status = "comp" THEN 0 ELSE 1)
    BY <1>1, <2>1, <2>3 DEF WorkerInv
  <2> QED
    BY <2>1, <2>2, <2>4, <2>5 DEF WorkerInv, Owned
<1>4. CASE FwResets
  <2>1. fw.resets > 0 /\ fw' = [fw EXCEPT !.resets = @ - 1] /\ UNCHANGED <<hal, rec>>
        /\ line'.q = Append(line.q, Msg("RESET_COMPLETE", NoFrame))
    BY <1>4 DEF FwResets, Tells
  <2>2. fw'.resets = fw.resets - 1 /\ fw'.doing = fw.doing
        /\ Len(line'.q) = Len(line.q) + 1
    BY <1>1, <2>1, MessageTypes, AppendProperties DEF Fws
  <2>3. rec \notin {"off", "up", "reset", "clear"}
    BY <1>1, <2>1 DEF WorkerInv
  <2>4. rec = "wait" => fw'.resets + Len(line'.q) <= (IF hal'.status = "comp" THEN 0 ELSE 1)
    BY <1>1, <2>1, <2>2 DEF WorkerInv
  <2> QED
    BY <2>1, <2>2, <2>3, <2>4 DEF WorkerInv, Owned
<1>5. CASE FwTxDone
  <2>1. fw.doing # {} /\ UNCHANGED <<hal, rec>>
    BY <1>5 DEF FwTxDone
  <2>2. rec \notin {"off", "up", "reset", "wait", "clear"}
    BY <2>1 DEF WorkerInv, Owned
  <2> QED
    BY <2>1, <2>2 DEF WorkerInv, Owned
<1>6. CASE TxSleeps \/ RxHandles \/ \E f \in Frames : Tx(f)
  <2>1. UNCHANGED <<hal, fw, line, rec>>
    BY <1>6 DEF TxSleeps, RxHandles, Tx
  <2> QED
    BY <2>1, WorkerStays
<1> QED
  BY <1>2, <1>3, <1>4, <1>5, <1>6 DEF Threads

LEMMA RecoveryWorker ==
    ASSUME TypeOK, WorkerInv, Recovery
    PROVE  WorkerInv'
<1>1. hal \in Hals /\ fw \in Fws /\ line.q \in Seq(Reports)
      /\ fw.resets \in Nat /\ Len(line.q) \in Nat /\ Len(<<>>) = 0
  BY DEF TypeOK, Fws, Lines
<1>2. CASE RecTearDown
  <2>1. rec = "called" /\ rec' = "off" /\ hal' = [hal EXCEPT !.disabled = TRUE]
        /\ fw' = [on |-> FALSE, doing |-> {}, resets |-> 0]
        /\ line' = [q |-> <<>>, woken |-> FALSE]
    BY <1>2 DEF RecTearDown, RecStep
  <2>2. hal'.processing
    BY <1>1, <2>1 DEF WorkerInv, Hals
  <2> QED
    BY <2>1, <2>2 DEF WorkerInv, Owned
<1>3. CASE RecBringUp
  <2>1. rec = "off" /\ rec' = "up" /\ hal' = [hal EXCEPT !.disabled = FALSE]
        /\ fw' \in {fw, [fw EXCEPT !.on = TRUE]} /\ line' = line
    BY <1>3 DEF RecBringUp, RecStep, Enabled
  <2>2. hal'.processing = hal.processing /\ fw'.resets = fw.resets /\ fw'.doing = fw.doing
    BY <1>1, <2>1 DEF Hals, Fws
  <2> QED
    BY <2>1, <2>2 DEF WorkerInv, Owned
<1>4. CASE RecReset
  <2>1. /\ rec = "up" /\ UNCHANGED <<fw, line>>
        /\ \/ rec' = "reset" /\ hal' = [hal EXCEPT !.status = "wait"]
           \/ rec' = "clear" /\ hal' = hal
    BY <1>4 DEF RecReset
  <2>2. hal'.processing = hal.processing /\ (rec' = "reset" => hal'.status = "wait")
    BY <1>1, <2>1 DEF Hals
  <2> QED
    BY <2>1, <2>2 DEF WorkerInv, Owned
<1>5. CASE RecWrites
  <2>1. rec = "reset" /\ rec' = "wait" /\ hal' = [hal EXCEPT !.cmdDone = FALSE]
        /\ fw' \in {fw, [fw EXCEPT !.resets = @ + 1]} /\ line' = line
    BY <1>5 DEF RecWrites, RecStep
  <2>2. hal'.processing = hal.processing /\ hal'.status = hal.status
        /\ fw'.resets \in {fw.resets, fw.resets + 1} /\ fw'.doing = fw.doing
    BY <1>1, <2>1 DEF Hals, Fws
  <2>3. fw.resets = 0 /\ line.q = <<>> /\ hal.status # "comp" /\ hal.processing
        /\ fw.doing = {}
    BY <2>1 DEF WorkerInv, Owned
  <2>4. fw'.resets + Len(line'.q) <= 1
    BY <1>1, <2>1, <2>2, <2>3
  <2> QED
    BY <2>1, <2>2, <2>3, <2>4 DEF WorkerInv, Owned
<1>6. CASE RecAnswered
  <2>1. rec = "wait" /\ rec' = "clear" /\ hal.status = "comp" /\ UNCHANGED <<hal, fw, line>>
    BY <1>6 DEF RecAnswered, RecStep
  <2>2. fw.resets = 0 /\ Len(line.q) = 0
    BY <1>1, <2>1 DEF WorkerInv
  <2>3. line.q = <<>>
    BY <1>1, <2>2, EmptySeq
  <2> QED
    BY <2>1, <2>2, <2>3 DEF WorkerInv, Owned
<1>7. CASE RecClear \/ RecJudges \/ RecUnfinished
  <2>1. rec' \in {"judge", "operates", "unfinished"}
    BY <1>7 DEF RecClear, RecJudges, RecUnfinished, RecStep
  <2> QED
    BY <2>1 DEF WorkerInv, Owned
<1>8. CASE RecOperates
  <2>1. rec' = (IF hal.processing THEN "called" ELSE "idle") /\ hal' = hal
    BY <1>8 DEF RecOperates
  <2> QED
    BY <2>1 DEF WorkerInv, Owned
<1> QED
  BY <1>2, <1>3, <1>4, <1>5, <1>6, <1>7, <1>8 DEF Recovery

LEMMA StepWorker == TypeOK /\ WorkerInv /\ [Next]_vars => WorkerInv'
<1> SUFFICES ASSUME TypeOK, WorkerInv, [Next]_vars PROVE WorkerInv'
  OBVIOUS
<1>1. CASE UNCHANGED vars
  BY <1>1, WorkerStays DEF vars
<1>2. CASE Next
  BY <1>2, MacWorker, ThreadWorker, RecoveryWorker DEF Next, Progress, MacProgress
<1> QED
  BY <1>1, <1>2

LEMMA InitWorker == Init => WorkerInv
  BY DEF Init, WorkerInv, Owned

-----------------------------------------------------------------------------
(* Where the resets of start and stop are.                                   *)

LEMMA AppendResets ==
    ASSUME NEW S, NEW s \in Seq(S), NEW m \in S
    PROVE  /\ Has(Append(s, m)) <=> Has(s) \/ m.id \in ResetIds
           /\ AtMostOne(s) /\ (m.id \in ResetIds => ~Has(s)) => AtMostOne(Append(s, m))
<1> DEFINE t == Append(s, m)
           L == Len(s)
<1>1. L \in Nat /\ DOMAIN s = 1 .. L
  OBVIOUS
<1>2. DOMAIN t = 1 .. L + 1 /\ t[L + 1] = m /\ \A i \in 1 .. L : t[i] = s[i]
  BY AppendProperties
<1>3. DOMAIN t = DOMAIN s \cup {L + 1} /\ (\A i \in DOMAIN s : t[i] = s[i])
  BY <1>1, <1>2
<1> HIDE DEF t, L
<1>4. Has(t) <=> Has(s) \/ m.id \in ResetIds
  BY <1>2, <1>3 DEF Has
<1>5. AtMostOne(s) /\ (m.id \in ResetIds => ~Has(s)) => AtMostOne(t)
  BY <1>2, <1>3 DEF Has, AtMostOne
<1> QED
  BY <1>4, <1>5 DEF t

LEMMA TailResets ==
    ASSUME NEW S, NEW s \in Seq(S), s # <<>>
    PROVE  /\ Has(s) <=> Head(s).id \in ResetIds \/ Has(Tail(s))
           /\ AtMostOne(s) => AtMostOne(Tail(s))
           /\ AtMostOne(s) /\ Head(s).id \in ResetIds => ~Has(Tail(s))
<1> DEFINE t == Tail(s)
           L == Len(s)
<1>1. L \in Nat /\ L > 0 /\ DOMAIN s = 1 .. L /\ Head(s) = s[1]
  BY EmptySeq
<1>2. DOMAIN t = 1 .. L - 1 /\ \A i \in 1 .. L - 1 : t[i] = s[i + 1]
  BY <1>1, HeadTailProperties
<1> HIDE DEF t, L
<1>3. 1 \in DOMAIN s /\ (\A i \in DOMAIN t : i + 1 \in DOMAIN s /\ i + 1 # 1 /\ t[i] = s[i + 1])
  BY <1>1, <1>2
<1>4. \A i \in DOMAIN s : i = 1 \/ (i - 1 \in DOMAIN t /\ i - 1 + 1 = i)
  BY <1>1, <1>2
<1>5. \A i, j \in DOMAIN t : i + 1 = j + 1 => i = j
  BY <1>1, <1>2
<1>6. Has(s) <=> s[1].id \in ResetIds \/ Has(t)
  <2>1. ASSUME Has(s) PROVE s[1].id \in ResetIds \/ Has(t)
    BY <1>3, <1>4, <2>1 DEF Has
  <2>2. ASSUME s[1].id \in ResetIds \/ Has(t) PROVE Has(s)
    BY <1>3, <2>2 DEF Has
  <2> QED
    BY <2>1, <2>2
<1>7. AtMostOne(s) => AtMostOne(t)
  BY <1>3, <1>5 DEF AtMostOne
<1>8. AtMostOne(s) /\ s[1].id \in ResetIds => ~Has(t)
  BY <1>3 DEF Has, AtMostOne
<1> QED
  BY <1>1, <1>6, <1>7, <1>8 DEF t

LEMMA EmptyResets == ~Has(<<>>) /\ AtMostOne(<<>>)
  BY DEF Has, AtMostOne

\* The resets of the next state, as the lemmas speak of them.
LEMMA NextResets ==
    /\ Quiet' <=> /\ ~Has(txq'.q) /\ ~Has(rxq')
                  /\ ~Owned' => fw'.resets = 0 /\ ~Has(line'.q)
    /\ OneReset' <=>
         /\ AtMostOne(txq'.q) /\ AtMostOne(rxq') /\ ~(Has(txq'.q) /\ Has(rxq'))
         /\ ~Owned' => /\ fw'.resets <= 1 /\ AtMostOne(line'.q)
                       /\ fw'.resets = 1 => ~Has(txq'.q) /\ ~Has(rxq') /\ ~Has(line'.q)
                       /\ Has(line'.q) => ~Has(txq'.q) /\ ~Has(rxq')
  BY DEF Quiet, OneReset, Has, AtMostOne

\* A step that starts no reset.
Keeps == (Quiet => Quiet') /\ (OneReset => OneReset')

LEMMA QueuesLose ==
    ASSUME TypeOK, rxq' \in {rxq, <<>>}, txq' = txq,
           Owned' = Owned \/ (Owned' /\ ~Owned),
           \/ fw'.resets = fw.resets /\ line'.q = line.q
           \/ fw'.resets = 0 /\ line'.q \in {<<>>, line.q}
    PROVE  Keeps
  BY EmptyResets, NextResets DEF Keeps, Quiet, OneReset

\* Sending a message that is not a reset.
LEMMA SentResets ==
    ASSUME TypeOK, NEW m \in Commands, txq' = Sent(m), UNCHANGED <<rxq, fw, line, rec>>
    PROVE  /\ m.id \notin ResetIds => Keeps
           /\ m.id \in ResetIds => (Quiet => OneReset')
<1>1. txq'.q = Append(txq.q, m) /\ txq.q \in Seq(Commands) /\ Owned' = Owned
  BY DEF Sent, TypeOK, Txqs, Owned
<1>2. /\ Has(txq'.q) <=> Has(txq.q) \/ m.id \in ResetIds
      /\ AtMostOne(txq.q) /\ (m.id \in ResetIds => ~Has(txq.q)) => AtMostOne(txq'.q)
  BY <1>1, AppendResets
<1>3. ~Has(txq.q) => AtMostOne(txq.q)
  BY DEF Has, AtMostOne
<1>4. (~Has(rxq) => AtMostOne(rxq)) /\ (~Has(line.q) => AtMostOne(line.q))
  BY DEF Has, AtMostOne
<1> QED
  BY <1>1, <1>2, <1>3, <1>4, NextResets DEF Keeps, Quiet, OneReset

\* tx_thread, the firmware and rx_thread move a reset on, or lose it.
LEMMA ThreadResets ==
    ASSUME TypeOK, WorkerInv, TxWrites \/ FwResets \/ RxReads
    PROVE  Keeps
<1>1. fw \in Fws /\ txq.q \in Seq(Commands) /\ rxq \in Seq(Reports) /\ line.q \in Seq(Reports)
      /\ fw.resets \in Nat
  BY DEF TypeOK, Txqs, Lines, Fws
<1>2. CASE TxWrites
  <2> DEFINE m == Head(txq.q)
  <2>1. txq.q # <<>> /\ txq'.q = Tail(txq.q) /\ UNCHANGED <<rxq, line, rec>>
        /\ fw' = (IF hal.disabled \/ ~fw.on THEN fw
                  ELSE IF IsReset(m) THEN [fw EXCEPT !.doing = {}, !.resets = @ + 1]
                  ELSE IF m.id = "TX" THEN [fw EXCEPT !.doing = @ \cup {m}] ELSE fw)
    BY <1>2 DEF TxWrites
  <2>2. Owned' = Owned
    BY <2>1 DEF Owned
  <2> HIDE DEF m
  <2>3. fw'.resets = fw.resets \/ (m.id \in ResetIds /\ fw'.resets = fw.resets + 1)
    BY <1>1, <2>1 DEF Fws, IsReset, ResetIds
  <2>4. /\ Has(txq.q) <=> m.id \in ResetIds \/ Has(txq'.q)
        /\ AtMostOne(txq.q) => AtMostOne(txq'.q)
        /\ AtMostOne(txq.q) /\ m.id \in ResetIds => ~Has(txq'.q)
    BY <1>1, <2>1, TailResets DEF m
  <2> QED
    BY <1>1, <2>1, <2>2, <2>3, <2>4, NextResets DEF Keeps, Quiet, OneReset
<1>3. CASE FwResets
  <2> DEFINE e == Msg("RESET_COMPLETE", NoFrame)
  <2>1. fw.resets > 0 /\ fw' = [fw EXCEPT !.resets = @ - 1] /\ UNCHANGED <<txq, rxq, rec>>
        /\ line'.q = Append(line.q, e)
    BY <1>3 DEF FwResets, Tells, fwFrame
  <2>2. e \in Reports
    BY MessageTypes
  <2> HIDE DEF e
  <2>3. fw'.resets = fw.resets - 1 /\ Owned' = Owned
    BY <1>1, <2>1 DEF Fws, Owned
  <2>4. AtMostOne(line.q) /\ ~Has(line.q) => AtMostOne(line'.q)
    BY <1>1, <2>1, <2>2, AppendResets
  <2> QED
    BY <1>1, <2>1, <2>3, <2>4, NextResets DEF Keeps, Quiet, OneReset
<1>4. CASE RxReads
  <2> DEFINE e == Head(line.q)
  <2>1. line.q # <<>> /\ line'.q = Tail(line.q) /\ UNCHANGED <<txq, fw, rec>>
        /\ rxq' = (IF hal.processing THEN rxq ELSE Append(rxq, e))
    BY <1>4 DEF RxReads
  <2>2. Owned' = Owned /\ (~hal.processing => ~Owned) /\ e \in Reports
    BY <1>1, <2>1, HeadTailProperties DEF Owned, WorkerInv
  <2> HIDE DEF e
  <2>3. /\ Has(line.q) <=> e.id \in ResetIds \/ Has(line'.q)
        /\ AtMostOne(line.q) => AtMostOne(line'.q)
        /\ AtMostOne(line.q) /\ e.id \in ResetIds => ~Has(line'.q)
    BY <1>1, <2>1, TailResets DEF e
  <2>4. CASE hal.processing
    BY <2>1, <2>2, <2>3, <2>4, NextResets DEF Keeps, Quiet, OneReset
  <2>5. CASE ~hal.processing
    <3>1. /\ Has(rxq') <=> Has(rxq) \/ e.id \in ResetIds
          /\ AtMostOne(rxq) /\ (e.id \in ResetIds => ~Has(rxq)) => AtMostOne(rxq')
      BY <1>1, <2>1, <2>2, <2>5, AppendResets
    <3> QED
      BY <2>1, <2>2, <2>3, <2>5, <3>1, NextResets DEF Keeps, Quiet, OneReset
  <2> QED
    BY <2>4, <2>5
<1> QED
  BY <1>2, <1>3, <1>4

-----------------------------------------------------------------------------
(* A start or a stop waits for its own reset.                                *)

LEMMA AskKept ==
    ASSUME AskInv, Keeps, was.early => was'.early,
           \/ mac'.pc = mac.pc
           \/ {mac.pc, mac'.pc} \cap ({"reset", "fail", "stop_fail"} \cup Waits) = {},
           drv'.resetDone = drv.resetDone \/ mac.pc \notin {"reset"} \cup Waits
    PROVE  AskInv'
  BY DEF AskInv, Keeps, Waits

LEMMA EarlyStays == TypeOK /\ [Next]_vars => (was.early => was'.early)
<1> SUFFICES ASSUME TypeOK, [Next]_vars, was.early PROVE was'.early
  OBVIOUS
<1>1. was' = was \/ Crosses \/ was' = [was EXCEPT !.early = TRUE]
      \/ was' = [was EXCEPT !.early = @ \/ mac.pc \in ResetWaits]
      \/ was' = [was EXCEPT !.failed = TRUE]
  BY DEF Next, Progress, MacProgress, Threads, Recovery, StartBegin, StartOpen, StartReset,
     StartTimesOut, StartEnd, StartFails, TimesOut, Tx, Stop, StopDrained, StopDisabled,
     StopTimesOut, StopFails, StopHal, StopEnd, TxSleeps, TxWrites, RxReads, RxHandles,
     RecTearDown, RecBringUp, RecReset, RecWrites, RecAnswered, RecClear, RecJudges,
     RecUnfinished, RecOperates, FwResets, FwTxDone, FwDies, vars
<1> QED
  BY <1>1, CrossesType DEF TypeOK, Pasts

LEMMA MacAsks ==
    ASSUME TypeOK, AskInv, MacProgress \/ StartBegin \/ Stop, was.early => was'.early
    PROVE  AskInv'
<1>1. mac \in Macs /\ drv \in Drvs /\ fw \in Fws /\ was \in Pasts
  BY DEF TypeOK
<1>2. CASE StartBegin
  <2>1. mac.pc = "off" /\ mac'.pc \in {"off", "open"} /\ UNCHANGED <<txq, rxq, line, rec>>
        /\ (fw' = fw \/ fw' = [fw EXCEPT !.on = TRUE])
    BY <1>1, <1>2 DEF StartBegin, At, Macs
  <2>2. Owned' = Owned /\ fw'.resets = fw.resets
    BY <1>1, <2>1 DEF Owned, Fws
  <2>3. Keeps
    BY <2>1, <2>2, QueuesLose
  <2> QED
    BY <2>1, <2>3, AskKept DEF Waits
<1>3. CASE StartOpen
  <2>1. mac.pc = "open" /\ mac'.pc = "reset" /\ ~drv'.resetDone
        /\ UNCHANGED <<txq, rxq, fw, line, rec>>
    BY <1>1, <1>3 DEF StartOpen, At, Goto, Opened, Macs, Drvs
  <2>2. Keeps
    BY <2>1, QueuesLose DEF Owned
  <2> QED
    BY <2>1, <2>2 DEF AskInv, Keeps, Waits
<1>4. CASE StartReset
  <2>1. mac.pc = "reset" /\ mac'.pc = "wait_enable" /\ UNCHANGED <<drv, rxq, fw, line, rec>>
        /\ txq' = Sent(Msg("ENABLE", NoFrame))
    BY <1>1, <1>4 DEF StartReset, At, Goto, Macs
  <2>2. Msg("ENABLE", NoFrame) \in Commands /\ Msg("ENABLE", NoFrame).id \in ResetIds
    BY MessageTypes DEF Msg, ResetIds
  <2>3. Quiet => OneReset'
    BY <2>1, <2>2, SentResets
  <2> QED
    BY <2>1, <2>3 DEF AskInv, Waits
<1>5. CASE StartEnd
  <2>1. mac.pc = "wait_enable" /\ mac'.pc = "on" /\ drv.resetDone
        /\ UNCHANGED <<rxq, fw, line, rec>> /\ txq' = Sent(Msg("CONFIG", NoFrame))
    BY <1>1, <1>5 DEF StartEnd, At, Goto, Macs
  <2>2. Msg("CONFIG", NoFrame) \in Commands /\ Msg("CONFIG", NoFrame).id \notin ResetIds
    BY MessageTypes DEF Msg, ResetIds
  <2>3. Keeps
    BY <2>1, <2>2, SentResets
  <2> QED
    BY <2>1, <2>3 DEF AskInv, Keeps, Waits
<1>6. CASE StartFails \/ StopFails
  <2>1. mac.pc \in {"fail", "stop_fail"}
    BY <1>6 DEF StartFails, StopFails, At
  <2> QED
    BY <2>1 DEF AskInv
<1>7. CASE StartTimesOut \/ StopTimesOut
  <2>1. was'.early
    BY <1>1, <1>7 DEF StartTimesOut, StopTimesOut, TimesOut, Pasts
  <2> QED
    BY <2>1 DEF AskInv
<1>8. CASE StopDrained
  <2>1. CASE hal.error
    <3>1. mac.pc = "drain" /\ mac'.pc = "await_recovery"
          /\ UNCHANGED <<drv, txq, rxq, fw, line, rec>>
      BY <1>1, <1>8, <2>1 DEF StopDrained, At, Goto, Macs
    <3>2. Keeps
      BY <3>1, QueuesLose DEF Owned
    <3> QED
      BY <3>1, <3>2, AskKept DEF Waits
  <2>2. CASE ~hal.error
    <3>1. mac.pc = "drain" /\ mac'.pc = "wait_disable" /\ ~drv'.resetDone
          /\ UNCHANGED <<rxq, fw, line, rec>> /\ txq' = Sent(Msg("DISABLE", NoFrame))
      BY <1>1, <1>8, <2>2 DEF StopDrained, At, Goto, Macs, Drvs
    <3>2. Msg("DISABLE", NoFrame) \in Commands /\ Msg("DISABLE", NoFrame).id \in ResetIds
      BY MessageTypes DEF Msg, ResetIds
    <3>3. Quiet => OneReset'
      BY <3>1, <3>2, SentResets
    <3> QED
      BY <3>1, <3>3 DEF AskInv, Waits
  <2> QED
    BY <2>1, <2>2
<1>9. CASE StopDisabled
  <2>1. mac.pc = "wait_disable" /\ mac'.pc = "await_recovery" /\ drv.resetDone
        /\ UNCHANGED <<drv, txq, rxq, fw, line, rec>>
    BY <1>1, <1>9 DEF StopDisabled, At, Goto, Macs
  <2>2. Keeps
    BY <2>1, QueuesLose DEF Owned
  <2> QED
    BY <2>1, <2>2 DEF AskInv, Keeps, Waits
<1>10. CASE Stop \/ StopHal \/ StopEnd
  <2>1. mac.pc \in {"on", "await_recovery", "close"} /\ mac'.pc \in {"drain", "close", "off"}
        /\ UNCHANGED <<txq, rxq, rec>>
    BY <1>1, <1>10 DEF Stop, StopHal, StopEnd, At, Goto, Macs
  <2>2. \/ fw' = fw /\ line' = line
        \/ /\ fw' = [on |-> FALSE, doing |-> {}, resets |-> 0]
           /\ line' = [q |-> <<>>, woken |-> FALSE]
    BY <1>10 DEF Stop, StopHal, StopEnd
  <2>3. Keeps
    BY <2>1, <2>2, QueuesLose DEF Owned
  <2> QED
    BY <2>1, <2>3, AskKept DEF Waits
<1> QED
  BY <1>2, <1>3, <1>4, <1>5, <1>6, <1>7, <1>8, <1>9, <1>10 DEF MacProgress

LEMMA OtherAsks ==
    ASSUME TypeOK, WorkerInv, AskInv, was.early => was'.early,
           \/ Threads \/ Recovery \/ FwResets \/ FwTxDone \/ FwDies
           \/ \E f \in Frames : Tx(f)
    PROVE  AskInv'
<1>1. mac \in Macs /\ drv \in Drvs /\ fw \in Fws /\ rxq \in Seq(Reports) /\ line \in Lines
      /\ txq \in Txqs /\ was \in Pasts
  BY DEF TypeOK
<1>2. CASE TxWrites \/ FwResets \/ RxReads
  <2>1. UNCHANGED <<mac, drv>>
    BY <1>2 DEF TxWrites, FwResets, RxReads, fwFrame
  <2> QED
    BY <1>2, <2>1, ThreadResets, AskKept
<1>3. CASE TxSleeps
  <2>1. txq'.q = txq.q /\ UNCHANGED <<mac, drv, rxq, fw, line, rec>>
    BY <1>1, <1>3 DEF TxSleeps, Txqs
  <2>2. Keeps
    BY <2>1, NextResets DEF Keeps, Quiet, OneReset, Owned
  <2> QED
    BY <2>1, <2>2, AskKept
<1>4. CASE RxHandles
  <2> DEFINE e == Head(rxq)
  <2>1. rxq # <<>> /\ rxq' = Tail(rxq) /\ e \in Reports /\ UNCHANGED <<mac, txq, fw, line, rec>>
    BY <1>1, <1>4, HeadTailProperties DEF RxHandles
  <2>2. \/ drv' = drv
        \/ e.id = "RESET_COMPLETE" /\ drv' = [drv EXCEPT !.resetDone = TRUE]
    BY <1>4, <2>1 DEF RxHandles, Reports, Heard
  <2> HIDE DEF e
  <2>3. /\ Has(rxq) <=> e.id \in ResetIds \/ Has(rxq')
        /\ AtMostOne(rxq) => AtMostOne(rxq')
        /\ AtMostOne(rxq) /\ e.id \in ResetIds => ~Has(rxq')
    BY <1>1, <2>1, TailResets DEF e
  <2>4. Keeps
    BY <2>1, <2>3, NextResets DEF Keeps, Quiet, OneReset, Owned
  <2>5. CASE e.id \in ResetIds
    <3>1. OneReset => Quiet'
      <4>1. fw.resets \in Nat
        BY <1>1 DEF Fws
      <4> QED
        BY <2>1, <2>3, <2>5, <4>1, NextResets DEF Quiet, OneReset, Owned
    <3>2. ~was.early => mac.pc \in Waits
      BY <2>3, <2>5 DEF AskInv, Quiet
    <3> QED
      BY <2>1, <2>4, <3>1, <3>2 DEF AskInv, Keeps, Waits
  <2>6. CASE e.id \notin ResetIds
    <3>1. drv' = drv
      BY <2>2, <2>6 DEF ResetIds
    <3> QED
      BY <2>1, <2>4, <3>1, AskKept
  <2> QED
    BY <2>5, <2>6
<1>5. ASSUME NEW f \in Frames, Tx(f) PROVE AskInv'
  <2>1. UNCHANGED <<mac, drv, rxq, fw, line, rec>>
        /\ (txq' = txq \/ \E t \in Tokens : txq' = Sent(Msg("TX", t)))
    BY <1>5 DEF Tx
  <2>2. \A t \in Tokens : Msg("TX", t) \in Commands /\ Msg("TX", t).id \notin ResetIds
    BY MessageTypes DEF Msg, ResetIds
  <2>3. Keeps
    BY <2>1, <2>2, QueuesLose, SentResets DEF Owned
  <2> QED
    BY <2>1, <2>3, AskKept
<1>6. CASE FwTxDone
  <2>7. PICK m \in fw.doing : fw' = [fw EXCEPT !.doing = @ \ {m}]
                              /\ Tells([m EXCEPT !.id = "TX_DONE"])
    BY <1>6 DEF FwTxDone
  <2> DEFINE e == [m EXCEPT !.id = "TX_DONE"]
  <2>1. fw' = [fw EXCEPT !.doing = @ \ {m}] /\ line'.q = Append(line.q, e)
    BY <2>7 DEF Tells
  <2>2. m \in Commands /\ m.id = "TX"
    BY <1>1, <2>7 DEF Fws
  <2>3. e \in Reports /\ e.id \notin ResetIds
    BY <2>2 DEF Commands, Reports, ResetIds
  <2> HIDE DEF e
  <2>4. (Has(line'.q) <=> Has(line.q)) /\ (AtMostOne(line.q) => AtMostOne(line'.q))
    BY <1>1, <2>1, <2>3, AppendResets DEF Lines
  <2>5. fw'.resets = fw.resets /\ UNCHANGED <<mac, drv, txq, rxq, rec>>
    BY <1>1, <1>6, <2>1 DEF Fws, FwTxDone, fwFrame
  <2>6. Keeps
    BY <2>4, <2>5, NextResets DEF Keeps, Quiet, OneReset, Owned
  <2> QED
    BY <2>5, <2>6, AskKept
<1>7. CASE FwDies
  <2>1. fw'.resets = 0 /\ UNCHANGED <<mac, drv, txq, rxq, line>>
        /\ (rec' = rec \/ (rec = "idle" /\ rec' = "called"))
    BY <1>7 DEF FwDies, fwFrame, WorkerCalled
  <2>2. Keeps
    BY <2>1, QueuesLose DEF Owned
  <2> QED
    BY <2>1, <2>2, AskKept
<1>8. CASE RecTearDown \/ RecUnfinished \/ RecJudges
  <2>1. /\ UNCHANGED <<mac, drv, txq, rxq>>
        /\ \/ rec' = "off" /\ fw'.resets = 0 /\ line'.q = <<>>
           \/ /\ rec \in {"judge", "unfinished"} /\ rec' \in {"judge", "unfinished", "operates"}
              /\ UNCHANGED <<fw, line>>
    BY <1>8 DEF RecTearDown, RecUnfinished, RecJudges, RecStep
  <2>2. Keeps
    BY <2>1, QueuesLose DEF Owned
  <2> QED
    BY <2>1, <2>2, AskKept
<1>9. CASE RecBringUp \/ RecReset \/ RecWrites \/ RecAnswered
  <2>1. UNCHANGED <<mac, drv, txq, rxq>> /\ Owned'
    BY <1>9 DEF RecBringUp, RecReset, RecWrites, RecAnswered, RecStep, Owned
  <2>2. Owned
    BY <1>9 DEF RecBringUp, RecReset, RecWrites, RecAnswered, RecStep, Owned
  <2>3. Keeps
    BY <2>1, <2>2, NextResets DEF Keeps, Quiet, OneReset
  <2> QED
    BY <2>1, <2>3, AskKept
<1>10. CASE RecClear
  <2>1. UNCHANGED <<mac, drv, txq, rxq, fw, line>> /\ rec = "clear"
    BY <1>10 DEF RecClear, RecStep
  <2>2. fw.resets = 0 /\ line.q = <<>>
    BY <2>1 DEF WorkerInv
  <2>3. Keeps
    BY <2>1, <2>2, EmptyResets, NextResets DEF Keeps, Quiet, OneReset
  <2> QED
    BY <2>1, <2>3, AskKept
<1>11. CASE RecOperates
  <2>1. UNCHANGED <<mac, txq, rxq, fw, line>> /\ rec = "operates" /\ rec' \in {"called", "idle"}
        /\ was' = [was EXCEPT !.early = @ \/ mac.pc \in ResetWaits]
    BY <1>11 DEF RecOperates
  <2>2. Keeps
    BY <2>1, QueuesLose DEF Owned
  <2>3. was'.early \/ mac.pc \notin {"reset"} \cup Waits
    BY <1>1, <2>1 DEF ResetWaits, Waits, Pasts
  <2> QED
    BY <2>1, <2>2, <2>3, AskKept DEF AskInv
<1> QED
  BY <1>2, <1>3, <1>4, <1>5, <1>6, <1>7, <1>8, <1>9, <1>10, <1>11 DEF Threads, Recovery

LEMMA StepAsks == TypeOK /\ WorkerInv /\ AskInv /\ [Next]_vars => AskInv'
<1> SUFFICES ASSUME TypeOK, WorkerInv, AskInv, [Next]_vars PROVE AskInv'
  OBVIOUS
<1>1. CASE UNCHANGED vars
  <2>1. Keeps
    BY <1>1, QueuesLose DEF vars, Owned
  <2> QED
    BY <1>1, <2>1, AskKept DEF vars
<1>2. CASE Next
  BY <1>2, EarlyStays, MacAsks, OtherAsks DEF Next, Progress
<1> QED
  BY <1>1, <1>2

LEMMA InitAsks == Init => AskInv
  BY EmptyResets DEF Init, AskInv, Quiet, Waits

\* For any number of starts, stops, faults and recoveries, unless a wait for a
\* reset has ended early: rpu_core_init takes no other answer for that of its own
\* reset, neither that of the stop before it nor that of a recovery, so a driver
\* that has started has had its own reset taken from the queue of tx_thread.
THEOREM StartTakesItsOwnAnswer == Spec => []StartedAfterReset
<1>1. TypeOK /\ AskInv => StartedAfterReset
  BY DEF AskInv, StartedAfterReset, At, Quiet, Has, ResetIds, Waits
<1> QED
  BY <1>1, SpecTypes, InitWorker, StepWorker, InitAsks, StepAsks, PTL DEF Spec
=============================================================================
