--------------------------- MODULE CmdQueue_proofs ---------------------------
(***************************************************************************)
(* Theorems about CmdQueue, for every value of its constants.              *)
(***************************************************************************)
EXTENDS CmdQueue, SequenceTheorems, TLAPS

-----------------------------------------------------------------------------
(* The inductive invariant.                                                *)

\* s followed by q is 1, 2, ..., n, said of the positions of the two.
Ordered(s, q, n) ==
    /\ s \in Seq(1 .. MaxCmds) /\ q \in Seq(1 .. MaxCmds)
    /\ Len(s) + Len(q) = n
    /\ \A i \in 1 .. Len(s) : s[i] = i
    /\ \A i \in 1 .. Len(q) : q[i] = Len(s) + i

\* Nothing has taken from the counter but the commands themselves.
Calm == ages = 0 /\ blocks = 0 /\ fwErrors = 0

\* The command an event has just released and rpu_process_pending_cmd has not
\* yet taken off the counter.
Released == IF rx = "pending" THEN 1 ELSE 0

\* The commands that hold one of the MAX_OUTSTANDING_CTRL_REQ places.
Places == InFlight + lost + Released

\* In a calm session no command is old, the driver is never blocked, the
\* counter is the places taken and the queue together, and a command is queued
\* only while every place is taken.
CalmInv ==
    Calm => /\ ~blocked /\ aged = 0 /\ rx \in {"idle", "pending"}
            /\ outstandingCtrlReq = Places + Len(outstandingCmd)
            /\ Places =< MaxOutstanding
            /\ outstandingCmd # <<>> => Places = MaxOutstanding

IInv == TypeOK /\ Ordered(sent, outstandingCmd, issued) /\ CalmInv

-----------------------------------------------------------------------------
(* Queues.                                                                 *)

\* What Drop leaves of a queue and what is cut off its front.
LEMMA Cut ==
    ASSUME NEW S, NEW q \in Seq(S), NEW m \in 0 .. Len(q)
    PROVE  /\ Drop(q, m) \in Seq(S) /\ SubSeq(q, 1, m) \in Seq(S)
           /\ Len(Drop(q, m)) = Len(q) - m /\ Len(SubSeq(q, 1, m)) = m
           /\ \A i \in 1 .. Len(q) - m : Drop(q, m)[i] = q[m + i]
           /\ \A i \in 1 .. m : SubSeq(q, 1, m)[i] = q[i]
<1>1. Len(q) \in Nat /\ \A i \in 1 .. Len(q) : q[i] \in S
  BY LenProperties, ElementOfSeq
<1>2. (\A i \in 1 .. m : q[i] \in S) /\ (\A i \in m + 1 .. Len(q) : q[i] \in S)
  BY <1>1
<1>3. /\ SubSeq(q, 1, m) \in Seq(S) /\ Len(SubSeq(q, 1, m)) = m
      /\ \A i \in 1 .. m : SubSeq(q, 1, m)[i] = q[i]
  BY <1>1, <1>2, SubSeqProperties
<1>4. /\ SubSeq(q, m + 1, Len(q)) \in Seq(S)
      /\ Len(SubSeq(q, m + 1, Len(q))) = Len(q) - m
      /\ \A i \in 1 .. Len(q) - m : SubSeq(q, m + 1, Len(q))[i] = q[m + i]
  BY <1>1, <1>2, SubSeqProperties
<1> QED
  BY <1>3, <1>4 DEF Drop

\* Sending from the front of the queue keeps the order.
LEMMA MovedInOrder ==
    ASSUME NEW s, NEW q, NEW n \in Nat, Ordered(s, q, n), NEW m \in 0 .. Len(q)
    PROVE  /\ Ordered(s \o SubSeq(q, 1, m), Drop(q, m), n)
           /\ Len(s \o SubSeq(q, 1, m)) = Len(s) + m
           /\ Len(Drop(q, m)) = Len(q) - m
<1> DEFINE f == SubSeq(q, 1, m)
           d == Drop(q, m)
<1>1. /\ s \in Seq(1 .. MaxCmds) /\ q \in Seq(1 .. MaxCmds)
      /\ Len(s) + Len(q) = n /\ Len(s) \in Nat /\ Len(q) \in Nat
      /\ \A i \in 1 .. Len(s) : s[i] = i
      /\ \A i \in 1 .. Len(q) : q[i] = Len(s) + i
  BY LenProperties DEF Ordered
<1>2. /\ d \in Seq(1 .. MaxCmds) /\ f \in Seq(1 .. MaxCmds)
      /\ Len(d) = Len(q) - m /\ Len(f) = m
      /\ \A i \in 1 .. Len(q) - m : d[i] = q[m + i]
      /\ \A i \in 1 .. m : f[i] = q[i]
  BY ZenonT(30), <1>1, Cut
<1> HIDE DEF f, d
<1>3. /\ s \o f \in Seq(1 .. MaxCmds) /\ Len(s \o f) = Len(s) + Len(f)
      /\ \A i \in 1 .. Len(s) + Len(f) :
            (s \o f)[i] = IF i =< Len(s) THEN s[i] ELSE f[i - Len(s)]
  BY ZenonT(30), <1>1, <1>2, ConcatProperties
<1>4. \A i \in 1 .. Len(s) + m : (s \o f)[i] = i
  <2> TAKE i \in 1 .. Len(s) + m
  <2>1. CASE i =< Len(s)
    BY <1>1, <1>2, <1>3, <2>1
  <2>2. CASE i > Len(s)
    <3>1. i - Len(s) \in 1 .. m /\ i - Len(s) \in 1 .. Len(q)
      BY <1>1, <2>2
    <3>2. (s \o f)[i] = f[i - Len(s)] /\ f[i - Len(s)] = q[i - Len(s)]
      BY <1>1, <1>2, <1>3, <2>2, <3>1
    <3> QED
      BY <1>1, <3>1, <3>2
  <2>3. i =< Len(s) \/ i > Len(s)
    BY <1>1
  <2> QED
    BY <2>1, <2>2, <2>3
<1>5. \A i \in 1 .. Len(d) : d[i] = Len(s) + m + i
  BY <1>1, <1>2
<1>6. Len(s \o f) = Len(s) + m /\ Len(d) = Len(q) - m
  BY <1>2, <1>3
<1>7. Len(s \o f) + Len(d) = n
  <2>1. m \in Nat /\ Len(s) \in Nat /\ Len(q) \in Nat
    BY <1>1
  <2>2. (Len(s) + m) + (Len(q) - m) = Len(s) + Len(q)
    BY <2>1
  <2> QED
    BY <1>1, <1>6, <2>2
<1>8. /\ \A i \in 1 .. Len(s \o f) : (s \o f)[i] = i
      /\ \A i \in 1 .. Len(d) : d[i] = Len(s \o f) + i
  BY <1>4, <1>5, <1>6
<1>9. Ordered(s \o f, d, n)
  BY <1>2, <1>3, <1>7, <1>8 DEF Ordered
<1> QED
  BY <1>6, <1>9 DEF f, d

\* The next command goes to the end of the queue.
LEMMA QueuedInOrder ==
    ASSUME NEW s, NEW q, NEW n \in Nat, Ordered(s, q, n), n < MaxCmds
    PROVE  /\ Ordered(s, q \o <<n + 1>>, n + 1)
           /\ Len(q \o <<n + 1>>) = Len(q) + 1
<1>1. /\ s \in Seq(1 .. MaxCmds) /\ q \in Seq(1 .. MaxCmds)
      /\ Len(s) + Len(q) = n /\ Len(s) \in Nat /\ Len(q) \in Nat
      /\ \A i \in 1 .. Len(q) : q[i] = Len(s) + i
  BY LenProperties DEF Ordered
<1>2. MaxCmds \in Nat
  BY CmdConstants
<1>3. n + 1 \in 1 .. MaxCmds
  BY <1>2
<1>4. /\ <<n + 1>> \in Seq(1 .. MaxCmds) /\ Len(<<n + 1>>) = 1
      /\ <<n + 1>>[1] = n + 1
  BY <1>3
<1>5. /\ q \o <<n + 1>> \in Seq(1 .. MaxCmds)
      /\ Len(q \o <<n + 1>>) = Len(q) + 1
      /\ \A i \in 1 .. Len(q) + 1 :
           (q \o <<n + 1>>)[i] = IF i =< Len(q) THEN q[i]
                                 ELSE <<n + 1>>[i - Len(q)]
  BY <1>1, <1>4, ConcatProperties
<1>6. \A i \in 1 .. Len(q) + 1 : (q \o <<n + 1>>)[i] = Len(s) + i
  <2> TAKE i \in 1 .. Len(q) + 1
  <2>1. CASE i =< Len(q)
    BY <1>1, <1>5, <2>1
  <2>2. CASE i = Len(q) + 1
    BY <1>1, <1>4, <1>5, <2>2
  <2> QED
    BY <1>1, <2>1, <2>2
<1> QED
  BY <1>1, <1>5, <1>6 DEF Ordered

\* A command that goes to the firmware at once finds the queue empty.
LEMMA SentInOrder ==
    ASSUME NEW s, NEW q, NEW n \in Nat, Ordered(s, q, n), Len(q) = 0,
           n < MaxCmds
    PROVE  /\ Ordered(s \o <<n + 1>>, q, n + 1)
           /\ Len(s \o <<n + 1>>) = Len(s) + 1
<1>1. /\ s \in Seq(1 .. MaxCmds) /\ q = <<>> /\ Len(s) = n
  BY EmptySeq DEF Ordered
<1>2. Ordered(<<>>, s, n)
  BY <1>1 DEF Ordered
<1>3. /\ Ordered(<<>>, s \o <<n + 1>>, n + 1)
      /\ Len(s \o <<n + 1>>) = Len(s) + 1
  BY <1>2, QueuedInOrder
<1> QED
  BY <1>1, <1>3, EmptySeq DEF Ordered

\* Ordered says of the positions what CommandsInOrder says of the sequences.
LEMMA OrderedCommands ==
    ASSUME NEW s, NEW q, NEW n \in Nat, Ordered(s, q, n)
    PROVE  s \o q = [i \in 1 .. n |-> i]
<1>1. /\ s \in Seq(1 .. MaxCmds) /\ q \in Seq(1 .. MaxCmds)
      /\ Len(q) \in Nat /\ SubSeq(q, 1, Len(q)) = q
  BY LenProperties DEF Ordered
<1>2. Len(q) \in 0 .. Len(q)
  BY <1>1
<1>3. /\ Ordered(s \o SubSeq(q, 1, Len(q)), Drop(q, Len(q)), n)
      /\ Len(s \o SubSeq(q, 1, Len(q))) = Len(s) + Len(q)
  BY <1>2, MovedInOrder
<1>4. Ordered(s \o q, Drop(q, Len(q)), n) /\ Len(s \o q) = Len(s) + Len(q)
  BY <1>1, <1>3, Zenon
<1>5. /\ s \o q \in Seq(1 .. MaxCmds) /\ Len(s \o q) = n
      /\ \A i \in 1 .. n : (s \o q)[i] = i
  BY <1>4 DEF Ordered
<1> HIDE DEF Ordered
<1>6. DOMAIN (s \o q) = 1 .. n
  BY <1>5, LenProperties
<1>7. s \o q = [i \in DOMAIN (s \o q) |-> (s \o q)[i]]
  BY <1>5, LenProperties
<1> QED
  BY <1>5, <1>6, <1>7
-----------------------------------------------------------------------------
(* Every step keeps the invariant.                                         *)

\* What the constants, the types and the order say of the lengths.
LEMMA Sizes ==
    ASSUME TypeOK
    PROVE  /\ Len(sent) \in Nat /\ Len(outstandingCmd) \in Nat
           /\ MaxOutstanding \in Nat \ {0} /\ MaxCmds \in Nat
           /\ issued \in Nat /\ lost \in Nat /\ aged \in 0 .. Len(outstandingCmd)
           /\ outstandingCtrlReq \in Nat /\ answered \in 0 .. Len(sent)
           /\ InFlight \in Nat /\ Released \in {0, 1} /\ Places \in Nat
  BY CmdConstants, LenProperties DEF TypeOK, InFlight, Released, Places

\* How many commands k calls of rpu_process_pending_cmd send.
LEMMA MovedBounds ==
    ASSUME NEW k \in Nat, NEW c \in Nat, NEW q \in Seq(1 .. MaxCmds),
           blocked' \in BOOLEAN
    PROVE  /\ Moved(k, c, q) \in 0 .. Len(q) /\ Moved(k, c, q) =< k
           /\ Monus(c, k) \in Nat
           /\ ~blocked' /\ k = 1 /\ c > 0 /\ Len(q) > 0 => Moved(k, c, q) = 1
<1>1. Len(q) \in Nat
  BY LenProperties
<1>2. Least(c, Len(q)) \in 0 .. Len(q) /\ Least(c, Len(q)) \in Nat
  BY <1>1 DEF Least
<1>3. Moved(k, c, q) \in 0 .. Len(q) /\ Moved(k, c, q) =< k
  BY <1>1, <1>2 DEF Moved, Least
<1>4. ~blocked' /\ k = 1 /\ c > 0 /\ Len(q) > 0 => Moved(k, c, q) = 1
  BY <1>1 DEF Moved, Least
<1> QED
  BY <1>3, <1>4 DEF Monus

\* The calls keep the order.
LEMMA ProcessPendingInOrder ==
    ASSUME NEW k \in Nat, NEW c \in Nat, NEW s, NEW q, NEW n \in Nat,
           Ordered(s, q, n), blocked' \in BOOLEAN, ProcessPending(k, c, q, s)
    PROVE  /\ Ordered(sent', outstandingCmd', n)
           /\ Len(sent') = Len(s) + Moved(k, c, q)
           /\ Len(outstandingCmd') = Len(q) - Moved(k, c, q)
           /\ outstandingCtrlReq' \in Nat /\ outstandingCtrlReq' = Monus(c, k)
<1>1. /\ q \in Seq(1 .. MaxCmds) /\ Moved(k, c, q) \in 0 .. Len(q)
      /\ Monus(c, k) \in Nat
  BY MovedBounds DEF Ordered
<1>2. /\ sent' = s \o SubSeq(q, 1, Moved(k, c, q))
      /\ outstandingCmd' = Drop(q, Moved(k, c, q))
      /\ outstandingCtrlReq' = Monus(c, k)
  BY DEF ProcessPending
<1> QED
  BY SMTT(30), <1>1, <1>2, MovedInOrder

\* What rpu_send has drained, and what it has sent and queued before it looks
\* for commands that waited too long.
Drained == IF HasRoom THEN Least(Len(outstandingCmd), MaxOutstanding) ELSE 0

Holds == ~HasRoom \/ Drained = MaxOutstanding

SendQueue == Drop(outstandingCmd, Drained)
             \o (IF Holds THEN <<issued + 1>> ELSE <<>>)

SendSent == sent \o SubSeq(outstandingCmd, 1, Drained)
                 \o (IF Holds THEN <<>> ELSE <<issued + 1>>)

LEMMA RpuSendSteps ==
    ASSUME RpuSend
    PROVE  /\ issued < MaxCmds /\ issued' = issued + 1 /\ aged' = 0
           /\ UNCHANGED <<answered, blocked, rx, count, blocks, lost, ages,
                          fwErrors>>
           /\ ProcessPending(Monus(aged, Drained),
                             Monus(outstandingCtrlReq, Drained) + 1,
                             SendQueue, SendSent)
  BY DEF RpuSend, Drained, Holds, SendQueue, SendSent

\* rpu_send sends from the front of the queue, and puts the new command at the
\* end of it, or sends it when it has emptied the queue.
LEMMA SendPrepared ==
    ASSUME IInv, issued < MaxCmds
    PROVE  /\ Ordered(SendSent, SendQueue, issued + 1)
           /\ Drained \in 0 .. Len(outstandingCmd)
           /\ Len(SendSent) = Len(sent) + Drained + (IF Holds THEN 0 ELSE 1)
           /\ Len(SendQueue) = Len(outstandingCmd) - Drained
                                + (IF Holds THEN 1 ELSE 0)
<1> DEFINE s == sent \o SubSeq(outstandingCmd, 1, Drained)
           q == Drop(outstandingCmd, Drained)
<1>1. /\ Len(outstandingCmd) \in Nat /\ Len(sent) \in Nat
      /\ MaxOutstanding \in Nat /\ issued \in Nat
      /\ Ordered(sent, outstandingCmd, issued)
  BY Sizes DEF IInv
<1>2. Drained \in 0 .. Len(outstandingCmd)
  BY <1>1 DEF Drained, Least
<1>3. /\ Ordered(s, q, issued) /\ Len(s) = Len(sent) + Drained
      /\ Len(q) = Len(outstandingCmd) - Drained
  BY <1>1, <1>2, MovedInOrder
<1>4. SendQueue = q \o (IF Holds THEN <<issued + 1>> ELSE <<>>)
      /\ SendSent = s \o (IF Holds THEN <<>> ELSE <<issued + 1>>)
  BY DEF SendQueue, SendSent
<1> HIDE DEF s, q
<1>5. ~Holds => Len(q) = 0
  <2>1. ~Holds => Drained = Len(outstandingCmd)
    BY <1>1 DEF Holds, Drained, Least
  <2> QED
    BY <1>1, <1>3, <2>1
<1>6. s \in Seq(1 .. MaxCmds) /\ q \in Seq(1 .. MaxCmds)
  BY <1>3 DEF Ordered
<1>7. CASE Holds
  <2>1. SendQueue = q \o <<issued + 1>> /\ SendSent = s
    BY <1>4, <1>6, <1>7, ConcatEmptySeq
  <2>2. Ordered(s, q \o <<issued + 1>>, issued + 1)
        /\ Len(q \o <<issued + 1>>) = Len(q) + 1
    BY <1>1, <1>3, QueuedInOrder
  <2> QED
    BY <1>1, <1>2, <1>3, <1>7, <2>1, <2>2
<1>8. CASE ~Holds
  <2>1. SendSent = s \o <<issued + 1>> /\ SendQueue = q
    BY <1>4, <1>6, <1>8, ConcatEmptySeq
  <2>2. Ordered(s \o <<issued + 1>>, q, issued + 1)
        /\ Len(s \o <<issued + 1>>) = Len(s) + 1
    BY <1>1, <1>3, <1>5, <1>8, SentInOrder
  <2> QED
    BY <1>1, <1>2, <1>3, <1>8, <2>1, <2>2
<1> QED
  BY <1>7, <1>8

\* In a calm session rpu_send sends only when the queue is empty: it drains
\* nothing, and nothing is old enough to be released.
LEMMA CalmSend ==
    ASSUME IInv, Calm
    PROVE  /\ Drained = 0 /\ Monus(aged, Drained) = 0
           /\ Holds <=> Places = MaxOutstanding
           /\ Holds \/ outstandingCmd = <<>>
<1>1. /\ Len(outstandingCmd) \in Nat /\ MaxOutstanding \in Nat \ {0}
      /\ Places \in Nat
  BY Sizes DEF IInv
<1>2. /\ ~blocked /\ aged = 0 /\ Places =< MaxOutstanding
      /\ outstandingCtrlReq = Places + Len(outstandingCmd)
      /\ outstandingCmd # <<>> => Places = MaxOutstanding
  BY DEF IInv, CalmInv
<1>3. outstandingCmd = <<>> <=> Len(outstandingCmd) = 0
  BY EmptySeq DEF IInv, TypeOK
<1>4. HasRoom => Len(outstandingCmd) = 0 /\ Places < MaxOutstanding
  BY <1>1, <1>2, <1>3 DEF HasRoom
<1>5. ~HasRoom => Places = MaxOutstanding
  BY <1>1, <1>2, <1>3 DEF HasRoom
<1>6. Drained = 0
  BY <1>1, <1>4 DEF Drained, Least
<1>7. Holds <=> ~HasRoom
  BY <1>1, <1>6 DEF Holds
<1> QED
  BY <1>1, <1>2, <1>3, <1>4, <1>5, <1>6, <1>7 DEF Monus

LEMMA RpuSendKeepsIInv ==
    ASSUME IInv, RpuSend
    PROVE  IInv'
<1> DEFINE k == Monus(aged, Drained)
           c == Monus(outstandingCtrlReq, Drained) + 1
<1>1. /\ issued < MaxCmds /\ issued' = issued + 1 /\ aged' = 0
      /\ UNCHANGED <<answered, blocked, rx, count, blocks, lost, ages, fwErrors>>
      /\ ProcessPending(k, c, SendQueue, SendSent)
  BY RpuSendSteps
<1>2. /\ Ordered(SendSent, SendQueue, issued + 1)
      /\ Drained \in 0 .. Len(outstandingCmd)
      /\ Len(SendSent) = Len(sent) + Drained + (IF Holds THEN 0 ELSE 1)
      /\ Len(SendQueue) = Len(outstandingCmd) - Drained + (IF Holds THEN 1 ELSE 0)
  BY <1>1, SendPrepared
<1>3. /\ Len(outstandingCmd) \in Nat /\ Len(sent) \in Nat /\ issued \in Nat
      /\ MaxCmds \in Nat /\ MaxOutstanding \in Nat \ {0}
      /\ aged \in 0 .. Len(outstandingCmd) /\ outstandingCtrlReq \in Nat
      /\ answered \in 0 .. Len(sent) /\ Places \in Nat
  BY Sizes DEF IInv
<1>4. k \in Nat /\ c \in Nat /\ c >= 1 /\ blocked' \in BOOLEAN
  BY SMTT(30), <1>1, <1>2, <1>3 DEF Monus, IInv, TypeOK
<1> DEFINE m == Moved(k, c, SendQueue)
<1> HIDE DEF k, c
<1>5. /\ Ordered(sent', outstandingCmd', issued + 1)
      /\ Len(sent') = Len(SendSent) + m
      /\ Len(outstandingCmd') = Len(SendQueue) - m
      /\ outstandingCtrlReq' \in Nat
      /\ outstandingCtrlReq' = Monus(c, k)
  <2>1. issued + 1 \in Nat
    BY <1>3
  <2> QED
    BY <1>1, <1>2, <1>4, <2>1, ProcessPendingInOrder
<1>6. m \in 0 .. Len(SendQueue) /\ m =< k
  BY <1>2, <1>4, MovedBounds DEF Ordered
<1> HIDE DEF m
<1>7. TypeOK'
  <2>1. sent' \in Seq(1 .. MaxCmds) /\ outstandingCmd' \in Seq(1 .. MaxCmds)
    BY <1>5 DEF Ordered
  <2>2. Len(sent') >= Len(sent) /\ Len(sent') \in Nat
        /\ Len(outstandingCmd') \in Nat
    BY SMTT(30), <1>2, <1>3, <1>5, <1>6, <2>1, LenProperties
  <2>3. issued' \in 0 .. MaxCmds /\ answered' \in 0 .. Len(sent')
        /\ aged' \in 0 .. Len(outstandingCmd')
    BY <1>1, <1>3, <2>2
  <2> QED
    BY <1>1, <1>5, <2>1, <2>3 DEF IInv, TypeOK
<1>8. CalmInv'
  <2> SUFFICES ASSUME Calm PROVE CalmInv'
    BY <1>1 DEF CalmInv, Calm
  <2>1. /\ Drained = 0 /\ k = 0 /\ (Holds <=> Places = MaxOutstanding)
        /\ Holds \/ outstandingCmd = <<>>
    BY CalmSend DEF k
  <2>2. /\ ~blocked /\ rx \in {"idle", "pending"} /\ Places =< MaxOutstanding
        /\ outstandingCtrlReq = Places + Len(outstandingCmd)
    BY DEF IInv, CalmInv
  <2>3. c = outstandingCtrlReq + 1 /\ m = 0
    BY <1>3, <1>6, <2>1 DEF c, Monus
  <2>4. outstandingCtrlReq' = c
    BY <1>4, <1>5, <2>1 DEF Monus
  <2>5. Places' = Places + (IF Holds THEN 0 ELSE 1)
    <3>1. Len(sent') = Len(sent) + (IF Holds THEN 0 ELSE 1)
      BY <1>2, <1>3, <1>5, <2>1, <2>3
    <3>2. Released' = Released /\ lost' = lost /\ answered' = answered
      BY <1>1 DEF Released
    <3>3. lost \in Nat /\ Released \in Nat
      BY Sizes DEF IInv
    <3> QED
      BY <1>3, <3>1, <3>2, <3>3 DEF Places, InFlight
  <2>6. Len(outstandingCmd') = Len(outstandingCmd) + (IF Holds THEN 1 ELSE 0)
    BY <1>2, <1>3, <1>5, <2>1, <2>3
  <2>7. outstandingCmd' # <<>> <=> Len(outstandingCmd') # 0
    BY <1>5, EmptySeq DEF Ordered
  <2>8. /\ outstandingCtrlReq' = Places' + Len(outstandingCmd')
        /\ Places' =< MaxOutstanding
        /\ outstandingCmd' # <<>> => Places' = MaxOutstanding
    <3>1. CASE Holds
      BY <1>3, <2>1, <2>2, <2>3, <2>4, <2>5, <2>6, <3>1
    <3>2. CASE ~Holds
      <4>1. Len(outstandingCmd) = 0
        BY <2>1, <3>2, EmptySeq
      <4> QED
        BY <1>3, <2>1, <2>2, <2>3, <2>4, <2>5, <2>6, <2>7, <3>2, <4>1
    <3> QED
      BY <3>1, <3>2
  <2> QED
    BY <1>1, <2>2, <2>8 DEF CalmInv
<1> QED
  BY <1>1, <1>5, <1>7, <1>8 DEF IInv

\* rpu_process_pending_cmd sends at most one command, in order, and in a calm
\* session it passes the place it frees on to the queue.
LEMMA RpuProcessPendingCmdKeepsIInv ==
    ASSUME IInv, RpuProcessPendingCmd
    PROVE  IInv'
<1> DEFINE m == Moved(1, outstandingCtrlReq, outstandingCmd)
<1>1. /\ rx = "pending" /\ rx' = "idle"
      /\ UNCHANGED <<issued, answered, blocked, count, blocks, lost, ages,
                     fwErrors>>
      /\ ProcessPending(1, outstandingCtrlReq, outstandingCmd, sent)
      /\ aged' = Monus(aged, Len(outstandingCmd) - Len(outstandingCmd'))
  BY DEF RpuProcessPendingCmd
<1>2. /\ Len(outstandingCmd) \in Nat /\ Len(sent) \in Nat /\ issued \in Nat
      /\ MaxOutstanding \in Nat \ {0} /\ lost \in Nat
      /\ aged \in 0 .. Len(outstandingCmd) /\ outstandingCtrlReq \in Nat
      /\ answered \in 0 .. Len(sent) /\ Places \in Nat /\ InFlight \in Nat
      /\ blocked' \in BOOLEAN /\ Ordered(sent, outstandingCmd, issued)
      /\ outstandingCmd \in Seq(1 .. MaxCmds)
  BY <1>1, Sizes DEF IInv, TypeOK
<1>3. /\ Ordered(sent', outstandingCmd', issued)
      /\ Len(sent') = Len(sent) + m
      /\ Len(outstandingCmd') = Len(outstandingCmd) - m
      /\ outstandingCtrlReq' \in Nat
      /\ outstandingCtrlReq' = Monus(outstandingCtrlReq, 1)
  BY <1>1, <1>2, ProcessPendingInOrder
<1>4. /\ m \in 0 .. Len(outstandingCmd) /\ m =< 1
      /\ ~blocked' /\ outstandingCtrlReq > 0 /\ Len(outstandingCmd) > 0 => m = 1
  BY <1>2, MovedBounds
<1> HIDE DEF m
<1>5. TypeOK'
  <2>1. sent' \in Seq(1 .. MaxCmds) /\ outstandingCmd' \in Seq(1 .. MaxCmds)
    BY <1>3 DEF Ordered
  <2>2. answered' \in 0 .. Len(sent') /\ aged' \in 0 .. Len(outstandingCmd')
    BY <1>1, <1>2, <1>3, <1>4 DEF Monus
  <2> QED
    BY <1>1, <1>3, <2>1, <2>2 DEF IInv, TypeOK
<1>6. CalmInv'
  <2> SUFFICES ASSUME Calm PROVE CalmInv'
    BY <1>1 DEF CalmInv, Calm
  <2>1. /\ ~blocked /\ aged = 0 /\ Places =< MaxOutstanding
        /\ outstandingCtrlReq = Places + Len(outstandingCmd)
        /\ outstandingCmd # <<>> => Places = MaxOutstanding
    BY DEF IInv, CalmInv
  <2>2. Places = InFlight + lost + 1
    BY <1>1 DEF Places, Released
  <2>3. Places' = Places - 1 + m
    <3>1. Places' = (Len(sent') - answered) + lost + 0
      BY <1>1 DEF Places, InFlight, Released
    <3> QED
      BY <1>2, <1>3, <1>4, <2>2, <3>1 DEF InFlight
  <2>4. outstandingCtrlReq' = outstandingCtrlReq - 1 /\ outstandingCtrlReq > 0
    BY <1>2, <1>3, <2>1, <2>2 DEF Monus
  <2>5. m = 1 \/ (m = 0 /\ Len(outstandingCmd) = 0)
    BY <1>1, <1>2, <1>4, <2>1, <2>4
  <2>6. outstandingCmd # <<>> <=> Len(outstandingCmd) # 0
    BY <1>2, EmptySeq
  <2>7. outstandingCmd' # <<>> <=> Len(outstandingCmd') # 0
    BY <1>3, EmptySeq DEF Ordered
  <2>8. /\ outstandingCtrlReq' = Places' + Len(outstandingCmd')
        /\ Places' =< MaxOutstanding
        /\ outstandingCmd' # <<>> => Places' = MaxOutstanding
    BY SMTT(60), <1>2, <1>3, <2>1, <2>3, <2>4, <2>5, <2>6, <2>7
  <2>9. aged' = 0
    BY <1>1, <1>2, <1>3, <1>4, <2>1 DEF Monus
  <2> QED
    BY <1>1, <2>1, <2>8, <2>9 DEF CalmInv
<1> QED
  BY <1>1, <1>3, <1>5, <1>6 DEF IInv

\* The other steps leave the commands where they are.
LEMMA OthersKeepOrder ==
    ASSUME IInv, UNCHANGED <<sent, outstandingCmd, issued>>
    PROVE  Ordered(sent, outstandingCmd, issued)'
  BY DEF IInv, Ordered

LEMMA AgeKeepsIInv ==
    ASSUME IInv, Age
    PROVE  IInv'
<1>1. TypeOK'
  BY Sizes, CmdConstants DEF Age, IInv, TypeOK
<1>2. CalmInv'
  BY Sizes DEF Age, CalmInv, Calm, IInv, TypeOK
<1>3. Ordered(sent, outstandingCmd, issued)'
  BY OthersKeepOrder DEF Age
<1> QED
  BY <1>1, <1>2, <1>3 DEF IInv

\* An answer turns a command in flight into one the receive work releases.
LEMMA AnsweredKeepsIInv ==
    ASSUME IInv, CommandProcDone \/ ResetComplete
    PROVE  IInv'
<1>1. /\ rx = "idle" /\ rx' = "pending" /\ InFlight > 0
      /\ answered' = answered + 1 /\ blocked' \in {blocked, FALSE}
      /\ UNCHANGED <<issued, outstandingCmd, aged, outstandingCtrlReq, sent,
                     count, blocks, lost, ages, fwErrors>>
  BY DEF CommandProcDone, ResetComplete, AfterEvent
<1>2. TypeOK'
  <2>1. answered' \in 0 .. Len(sent')
    BY <1>1, Sizes DEF IInv, InFlight
  <2>2. blocked' \in BOOLEAN
    BY <1>1 DEF IInv, TypeOK
  <2> QED
    BY <1>1, <2>1, <2>2 DEF IInv, TypeOK
<1>3. Places' = Places
  BY SMTT(60), <1>1, Sizes DEF IInv, Places, InFlight, Released
<1>4. CalmInv'
  BY <1>1, <1>3 DEF IInv, CalmInv, Calm
<1>5. Ordered(sent, outstandingCmd, issued)'
  BY <1>1, OthersKeepOrder
<1> QED
  BY <1>2, <1>4, <1>5 DEF IInv

\* A lost answer keeps its place.
LEMMA ProcDoneLostKeepsIInv ==
    ASSUME IInv, ProcDoneLost
    PROVE  IInv'
<1>1. TypeOK'
  BY Sizes, CmdConstants DEF ProcDoneLost, IInv, TypeOK, InFlight
<1>2. Places' = Places
  <2>1. /\ answered' = answered + 1 /\ lost' = lost + 1
        /\ sent' = sent /\ rx' = rx
    BY DEF ProcDoneLost
  <2>2. Released' = Released /\ Released \in {0, 1} /\ lost \in Nat
        /\ answered \in Nat /\ Len(sent) \in Nat
    BY <2>1, Sizes DEF IInv, Released
  <2> QED
    BY <2>1, <2>2 DEF Places, InFlight
<1>3. CalmInv'
  BY <1>2 DEF ProcDoneLost, IInv, CalmInv, Calm
<1>4. Ordered(sent, outstandingCmd, issued)'
  BY OthersKeepOrder DEF ProcDoneLost
<1> QED
  BY <1>1, <1>3, <1>4 DEF IInv

LEMMA BlockAllKeepsIInv ==
    ASSUME IInv, BlockAll
    PROVE  IInv'
<1>1. TypeOK' /\ ~Calm'
  BY CmdConstants DEF BlockAll, IInv, TypeOK, Calm
<1>2. Ordered(sent, outstandingCmd, issued)'
  BY OthersKeepOrder DEF BlockAll
<1> QED
  BY <1>1, <1>2 DEF IInv, CalmInv

LEMMA UnblockAllKeepsIInv ==
    ASSUME IInv, UnblockAll
    PROVE  IInv'
<1>1. TypeOK' /\ ~Calm'
  BY DEF UnblockAll, AfterEvent, IInv, TypeOK, CalmInv, Calm
<1>2. Ordered(sent, outstandingCmd, issued)'
  BY OthersKeepOrder DEF UnblockAll
<1> QED
  BY <1>1, <1>2 DEF IInv, CalmInv

LEMMA FwErrorKeepsIInv ==
    ASSUME IInv, FwError
    PROVE  IInv'
<1>1. TypeOK' /\ ~Calm'
  BY CmdConstants, LenProperties DEF FwError, IInv, TypeOK, Calm
<1>2. Ordered(sent, outstandingCmd, issued)'
  BY OthersKeepOrder DEF FwError
<1> QED
  BY <1>1, <1>2 DEF IInv, CalmInv

LEMMA RpuProcessPendingOperatesKeepsIInv ==
    ASSUME IInv, RpuProcessPendingOperates
    PROVE  IInv'
<1>1. TypeOK' /\ ~Calm'
  BY DEF RpuProcessPendingOperates, IInv, TypeOK, CalmInv, Calm
<1>2. Ordered(sent, outstandingCmd, issued)'
  BY OthersKeepOrder DEF RpuProcessPendingOperates
<1> QED
  BY <1>1, <1>2 DEF IInv, CalmInv

LEMMA InitIInv == Init => IInv
<1> SUFFICES ASSUME Init PROVE IInv
  OBVIOUS
<1>1. TypeOK
  <2>1. Len(<<>>) = 0 /\ <<>> \in Seq(1 .. MaxCmds)
    OBVIOUS
  <2>2. /\ outstandingCmd \in Seq(1 .. MaxCmds) /\ aged \in 0 .. Len(outstandingCmd)
        /\ sent \in Seq(1 .. MaxCmds) /\ answered \in 0 .. Len(sent)
    BY <2>1 DEF Init
  <2>3. /\ issued \in 0 .. MaxCmds /\ outstandingCtrlReq \in Nat /\ count \in Nat
        /\ blocks \in 0 .. MaxBlocks /\ lost \in 0 .. MaxLost
        /\ ages \in 0 .. MaxAges /\ fwErrors \in 0 .. MaxFwErrors
    BY CmdConstants DEF Init
  <2>4. blocked \in BOOLEAN /\ rx \in {"idle", "counted", "pending"}
    BY DEF Init
  <2> QED
    BY <2>2, <2>3, <2>4 DEF TypeOK
<1>2. Ordered(sent, outstandingCmd, issued)
  BY DEF Init, Ordered
<1>3. CalmInv
  BY CmdConstants DEF Init, CalmInv, Places, InFlight, Released
<1> QED
  BY <1>1, <1>2, <1>3 DEF IInv

LEMMA StepIInv == IInv /\ [Next]_vars => IInv'
<1> SUFFICES ASSUME IInv, [Next]_vars PROVE IInv'
  OBVIOUS
<1>1. CASE RpuSend
  BY <1>1, RpuSendKeepsIInv
<1>2. CASE Age
  BY <1>2, AgeKeepsIInv
<1>3. CASE ProcDoneLost
  BY <1>3, ProcDoneLostKeepsIInv
<1>4. CASE BlockAll
  BY <1>4, BlockAllKeepsIInv
<1>5. CASE FwError
  BY <1>5, FwErrorKeepsIInv
<1>6. CASE CommandProcDone \/ ResetComplete
  BY <1>6, AnsweredKeepsIInv
<1>7. CASE UnblockAll
  BY <1>7, UnblockAllKeepsIInv
<1>8. CASE RpuProcessPendingOperates
  BY <1>8, RpuProcessPendingOperatesKeepsIInv
<1>9. CASE RpuProcessPendingCmd
  BY <1>9, RpuProcessPendingCmdKeepsIInv
<1>10. CASE UNCHANGED vars
  BY <1>10 DEF vars, IInv, TypeOK, Ordered, CalmInv, Calm, Places, InFlight,
     Released
<1> QED
  BY <1>1, <1>2, <1>3, <1>4, <1>5, <1>6, <1>7, <1>8, <1>9, <1>10
     DEF Next, Progress

LEMMA Invariance == Spec => []IInv
  BY InitIInv, StepIInv, PTL DEF Spec

-----------------------------------------------------------------------------
(* The theorems.                                                           *)

\* The queue, the counter and the HAL's commands have their types in every
\* state: of the commands sent, the firmware has answered no more than there
\* are, and no more are old than are queued.
THEOREM TypesCorrect == Spec => []TypeOK
<1>1. IInv => TypeOK
  BY DEF IInv
<1> QED
  BY <1>1, Invariance, PTL

\* Whatever rpu_send drains, rpu_process_pending_cmd releases, the firmware
\* loses or a recovery repeats, commands reach the HAL in the order they were
\* issued, each exactly once, for any number of places and commands.
THEOREM SentInIssueOrder == Spec => []CommandsInOrder
<1>1. IInv => CommandsInOrder
  BY OrderedCommands, Sizes DEF IInv, CommandsInOrder
<1> QED
  BY <1>1, Invariance, PTL

\* In a session without blocks, errors and 300 ms expiries the counter of
\* cmd_info is the commands in flight, lost and queued whenever the receive
\* work is between events.
THEOREM CounterCorrect == Spec => []CounterExact
<1>1. IInv => CounterExact
  BY Sizes DEF IInv, CounterExact, CalmInv, Calm, Places, Released
<1> QED
  BY <1>1, Invariance, PTL

\* In such a session the firmware never has more than
\* MAX_OUTSTANDING_CTRL_REQ commands.
THEOREM FirmwareNotFlooded == Spec => []InFlightBounded
<1>1. IInv => InFlightBounded
  BY Sizes, CmdConstants DEF IInv, InFlightBounded, CalmInv, Calm, Places
<1> QED
  BY <1>1, Invariance, PTL

\* A send on an unblocked driver that finds queued commands over 300 ms old
\* sends at least one of the commands: with room it drains the queue, and
\* without room the counter is not 0, so rpu_process_pending_cmd takes one.
THEOREM OldCommandsReleased == Spec => AgedCommandsReleased
<1>1. ASSUME IInv, Next, issued' > issued, aged > 0, ~blocked
      PROVE  Len(sent') > Len(sent)
  <2> DEFINE k == Monus(aged, Drained)
             c == Monus(outstandingCtrlReq, Drained) + 1
             m == Moved(k, c, SendQueue)
  <2>1. RpuSend
    BY <1>1, Sizes DEF Next, Progress, Age, ProcDoneLost, BlockAll, FwError,
       CommandProcDone, ResetComplete, UnblockAll, RpuProcessPendingOperates,
       RpuProcessPendingCmd, IInv
  <2>2. /\ issued < MaxCmds /\ ~blocked' /\ blocked' \in BOOLEAN
        /\ ProcessPending(k, c, SendQueue, SendSent)
    BY <1>1, <2>1, RpuSendSteps DEF IInv, TypeOK
  <2>3. /\ Ordered(SendSent, SendQueue, issued + 1)
        /\ Drained \in 0 .. Len(outstandingCmd)
        /\ Len(SendSent) = Len(sent) + Drained + (IF Holds THEN 0 ELSE 1)
        /\ Len(SendQueue) = Len(outstandingCmd) - Drained
                             + (IF Holds THEN 1 ELSE 0)
    BY <1>1, <2>2, SendPrepared
  <2>4. /\ Len(outstandingCmd) \in Nat /\ Len(sent) \in Nat /\ issued \in Nat
        /\ MaxOutstanding \in Nat \ {0} /\ aged \in 0 .. Len(outstandingCmd)
        /\ outstandingCtrlReq \in Nat
    BY <1>1, Sizes DEF IInv
  <2>5. k \in Nat /\ c \in Nat
    BY <2>3, <2>4 DEF Monus
  <2>6. Len(sent') = Len(SendSent) + m
    <3>1. issued + 1 \in Nat
      BY <2>4
    <3>2. blocked' \in BOOLEAN /\ ProcessPending(k, c, SendQueue, SendSent)
      BY <2>2
    <3>3. Ordered(SendSent, SendQueue, issued + 1)
      BY <2>3
    <3> HIDE DEF k, c
    <3> QED
      BY <2>5, <3>1, <3>2, <3>3, ProcessPendingInOrder DEF m
  <2>7. m \in 0 .. Len(SendQueue)
    BY <2>2, <2>3, <2>5, MovedBounds DEF Ordered
  <2>8. CASE HasRoom
    <3>1. Drained >= 1
      BY <1>1, <2>4, <2>8 DEF Drained, Least
    <3> QED
      BY <2>3, <2>4, <2>6, <2>7, <3>1
  <2>9. CASE ~HasRoom
    <3>1. Drained = 0 /\ Holds
      BY <2>9 DEF Drained, Holds
    <3>2. k >= 1 /\ c >= 1 /\ Len(SendQueue) >= 1
      BY <1>1, <2>3, <2>4, <3>1 DEF Monus
    <3>3. m >= 1
      BY <2>2, <2>3, <2>4, <2>5, <3>2 DEF Moved, Least
    <3> HIDE DEF m
    <3>4. Len(SendSent) = Len(sent)
      BY <2>3, <2>4, <3>1
    <3> QED
      BY <2>4, <2>6, <2>7, <3>3, <3>4
  <2> QED
    BY <2>8, <2>9
<1>2. IInv /\ [Next]_vars =>
        [(issued' > issued /\ aged > 0 /\ ~blocked) => Len(sent') > Len(sent)]_vars
  BY <1>1
<1> QED
  BY <1>2, Invariance, PTL DEF Spec, AgedCommandsReleased
=============================================================================
