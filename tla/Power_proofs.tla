---------------------------- MODULE Power_proofs ----------------------------
(***************************************************************************)
(* Theorems about Power, for every number of commands, suspends and        *)
(* faults: no command is on its way when the firmware is told to sleep.    *)
(***************************************************************************)
EXTENDS Power, SequenceTheorems, TLAPS

-----------------------------------------------------------------------------
(* Types.                                                                  *)

Cmds   == {"config", "csr"}
Values == SUBSET {"busy", "ready"}
Events == [what : {"csr", "done"}, value : Values]

Places == {"awake", "commands", "read", "answer", "notify_ready", "notify",
           "suspended", "frozen", "resumed"}

TypeOK ==
  /\ sus \in [pc : Places, assoc : BOOLEAN, reads : Nat, early : BOOLEAN]
  /\ csr \in [complete : BOOLEAN, value : Values]
  /\ ctl \in [outstanding : Nat, txq : Seq(Cmds)]
  /\ hand \in Seq(Cmds) /\ Len(hand) =< 1
  /\ fw \in [q : Seq(Cmds), asleep : BOOLEAN, events : Seq(Events)]

\* The report of a command that was processed.
Done(lost) == IF lost THEN <<>> ELSE <<[what |-> "done", value |-> {}]>>

LEMMA DoneTypes ==
    ASSUME NEW lost \in BOOLEAN
    PROVE  /\ Done(lost) \in Seq(Events)
           /\ \A i \in 1 .. Len(Done(lost)) : Done(lost)[i].what = "done"
<1> DEFINE e == [what |-> "done", value |-> {}]
<1>1. e \in Events /\ e.what = "done"
  BY DEF Events, Values
<1>2. Done(lost) = IF lost THEN <<>> ELSE <<e>>
  BY DEF Done
<1> HIDE DEF e
<1> QED
  BY <1>1, <1>2

\* With what a command is answered: one answer if it was a read.
LEMMA AnswerTypes ==
    ASSUME NEW answer \in Answers, NEW lost \in BOOLEAN
    PROVE  LET more == answer \o Done(lost)
           IN  /\ answer \in Seq(Events) /\ more \in Seq(Events)
               /\ \A i, j \in 1 .. Len(more) :
                    more[i].what = "csr" /\ more[j].what = "csr" => i = j
               /\ Head(fw.q) # "csr" => \A i \in 1 .. Len(more) : more[i].what # "csr"
<1> DEFINE done == Done(lost)
           more == answer \o done
<1>1. done \in Seq(Events) /\ \A i \in 1 .. Len(done) : done[i].what = "done"
  BY DoneTypes
<1>2. /\ answer \in Seq(Events) /\ Len(answer) =< 1
      /\ Head(fw.q) # "csr" => answer = <<>>
  <2>1. CASE answer = <<>>
    BY <2>1
  <2>2. CASE answer # <<>>
    <3>1. Head(fw.q) = "csr" /\ \E v \in Values : answer = <<[what |-> "csr", value |-> v]>>
      BY <2>2 DEF Answers, Values
    <3>2. PICK e \in Events : answer = <<e>>
      BY <3>1 DEF Events
    <3> QED
      BY <3>1, <3>2
  <2> QED
    BY <2>1, <2>2
<1> HIDE DEF done
<1>3. /\ more \in Seq(Events) /\ Len(more) = Len(answer) + Len(done)
      /\ \A i \in 1 .. Len(more) : i > Len(answer) =>
           more[i] = done[i - Len(answer)] /\ i - Len(answer) \in 1 .. Len(done)
  BY <1>1, <1>2
<1>4. \A i \in 1 .. Len(more) : more[i].what = "csr" => i =< Len(answer)
  BY <1>1, <1>2, <1>3
<1>5. Len(answer) \in Nat
  BY <1>2
<1> HIDE DEF more
<1>6. \A i, j \in 1 .. Len(more) :
        more[i].what = "csr" /\ more[j].what = "csr" => i = j
  BY <1>2, <1>4, <1>5
<1>7. Head(fw.q) # "csr" => \A i \in 1 .. Len(more) : more[i].what # "csr"
  BY <1>2, <1>4, <1>5
<1> QED
  BY <1>2, <1>3, <1>6, <1>7 DEF more, done

\* Every action keeps the types.
LEMMA NextTypes == TypeOK /\ [Next]_vars => TypeOK'
<1> SUFFICES ASSUME TypeOK, [Next]_vars PROVE TypeOK'
  OBVIOUS
<1> DEFINE Sus == [pc : Places, assoc : BOOLEAN, reads : Nat, early : BOOLEAN]
           Csr == [complete : BOOLEAN, value : Values]
           Ctl == [outstanding : Nat, txq : Seq(Cmds)]
           Fw  == [q : Seq(Cmds), asleep : BOOLEAN, events : Seq(Events)]
<1>0. /\ sus \in Sus /\ csr \in Csr /\ ctl \in Ctl /\ fw \in Fw
      /\ hand \in Seq(Cmds) /\ Len(hand) =< 1
  BY DEF TypeOK
<1>a. \A pc \in Places : [sus EXCEPT !.pc = pc] \in Sus
  BY <1>0
<1>b. \A c \in Cmds : Sent(c) \in Ctl
  BY <1>0 DEF Sent
<1>c. ASSUME UNCHANGED sus \/ sus' \in Sus, UNCHANGED csr \/ csr' \in Csr,
             UNCHANGED ctl \/ ctl' \in Ctl, UNCHANGED fw \/ fw' \in Fw,
             UNCHANGED hand \/ (hand' \in Seq(Cmds) /\ Len(hand') =< 1)
      PROVE  TypeOK'
  BY <1>0, <1>c DEF TypeOK
<1>d. "csr" \in Cmds /\ "config" \in Cmds /\ \A v \in Values : v \subseteq {"busy", "ready"}
  BY DEF Cmds, Values
<1>e. /\ "commands" \in Places /\ "read" \in Places /\ "answer" \in Places
      /\ "notify_ready" \in Places /\ "notify" \in Places /\ "awake" \in Places
      /\ "suspended" \in Places /\ "frozen" \in Places /\ "resumed" \in Places
  BY DEF Places
<1> HIDE DEF Sus, Csr, Ctl, Fw
<1>1. CASE Config
  BY <1>b, <1>c, <1>d, <1>1 DEF Config
<1>2. CASE SuspendRefused \/ CommandsDone \/ CommandsTimeOut \/ UNCHANGED vars
  BY <1>a, <1>c, <1>e, <1>2 DEF SuspendRefused, CommandsDone, CommandsTimeOut, Goto, vars
<1>3. CASE Suspend
  <2>1. AnswerDue \in BOOLEAN
    BY DEF AnswerDue
  <2>2. sus' \in Sus
    BY <1>e, <1>3, <2>1 DEF Suspend, Sus
  <2> QED
    BY <1>c, <1>3, <2>2 DEF Suspend
<1>4. CASE ReadCsr
  <2>1. sus' \in Sus
    <3>1. \A s \in Sus : [s EXCEPT !.reads = s.reads + 1] \in Sus
      BY DEF Sus
    <3>2. PICK s \in Sus : s = [sus EXCEPT !.pc = "answer"]
      BY <1>a, <1>e
    <3>3. sus' = [s EXCEPT !.reads = s.reads + 1]
      BY <1>0, <1>4, <3>2 DEF ReadCsr, Sus
    <3> QED
      BY <3>1, <3>3
  <2>2. csr' \in Csr
    <3>1. {} \in Values
      BY DEF Values
    <3> QED
      BY <1>4, <3>1 DEF ReadCsr, Cleared, Csr
  <2> QED
    BY <1>b, <1>c, <1>d, <1>4, <2>1, <2>2 DEF ReadCsr
<1>5. CASE Answered \/ AnswerTimesOut
  <2>1. AfterAnswer \in Places
    BY <1>e DEF AfterAnswer
  <2>2. sus' \in Sus
    BY <1>0, <1>5, <2>1 DEF Answered, AnswerTimesOut, Goto, Sus
  <2> QED
    BY <1>c, <1>5, <2>2 DEF Answered, AnswerTimesOut
<1>6. CASE NotifySleep
  <2>1. fw' \in Fw
    BY <1>0, <1>6 DEF NotifySleep, Fw
  <2> QED
    BY <1>a, <1>c, <1>e, <1>6, <2>1 DEF NotifySleep, Goto
<1>7. CASE Resumes
  <2>1. fw' \in Fw
    BY <1>0, <1>7 DEF Resumes, SdioSuspend, SdioResume, Resume, PostSuspend, Fw
  <2> QED
    BY <1>a, <1>c, <1>e, <1>7, <2>1
       DEF Resumes, SdioSuspend, SdioResume, Resume, PostSuspend, Goto
<1>8. CASE TxTake
  <2>1. ctl.txq \in Seq(Cmds) /\ ctl.txq # <<>>
    BY <1>0, <1>8 DEF TxTake, Ctl
  <2>2. Head(ctl.txq) \in Cmds /\ Tail(ctl.txq) \in Seq(Cmds)
    BY <2>1
  <2>3. ctl' \in Ctl
    BY <1>0, <1>8, <2>2 DEF TxTake, Ctl
  <2>4. hand' \in Seq(Cmds) /\ Len(hand') =< 1
    BY <1>8, <2>2 DEF TxTake
  <2> QED
    BY <1>c, <1>8, <2>3, <2>4 DEF TxTake
<1>9. CASE TxWrite
  <2>1. fw.q \o hand \in Seq(Cmds) /\ <<>> \in Seq(Cmds) /\ Len(<<>>) = 0
    BY <1>0 DEF Fw
  <2>2. fw' \in Fw
    <3>1. fw' = fw \/ fw' = [fw EXCEPT !.q = fw.q \o hand]
      BY <1>9 DEF TxWrite
    <3> QED
      BY <1>0, <2>1, <3>1 DEF Fw
  <2> QED
    BY <1>c, <1>9, <2>1, <2>2 DEF TxWrite
<1>10. CASE FwProcess
  <2>1. PICK answer \in Answers, lost \in BOOLEAN :
          fw' = [fw EXCEPT !.q = Tail(@),
                   !.events = @ \o answer
                     \o IF lost THEN <<>> ELSE <<[what |-> "done", value |-> {}]>>]
    BY <1>10 DEF FwProcess
  <2>2. fw.q \in Seq(Cmds) /\ fw.q # <<>> /\ fw.events \in Seq(Events)
    BY <1>0, <1>10 DEF FwProcess, Fw
  <2>3. answer \in Seq(Events) /\ answer \o Done(lost) \in Seq(Events)
    BY AnswerTypes
  <2>4. Tail(fw.q) \in Seq(Cmds) /\ fw.events \o answer \o Done(lost) \in Seq(Events)
    BY <2>2, <2>3, DoneTypes
  <2>5. fw' = [fw EXCEPT !.q = Tail(fw.q), !.events = fw.events \o answer \o Done(lost)]
    BY <2>1 DEF Done
  <2>6. fw' \in Fw
    BY <1>0, <2>4, <2>5 DEF Fw
  <2> QED
    BY <1>c, <1>10, <2>6 DEF FwProcess
<1>11. CASE RxHandle
  <2>1. fw.events \in Seq(Events) /\ fw.events # <<>>
    BY <1>0, <1>11 DEF RxHandle, Fw
  <2>2. Head(fw.events) \in Events /\ Tail(fw.events) \in Seq(Events)
    BY <2>1
  <2>3. fw' \in Fw
    BY <1>0, <1>11, <2>2 DEF RxHandle, Fw
  <2>4. UNCHANGED csr \/ csr' \in Csr
    <3>1. \/ UNCHANGED csr
          \/ csr' = [complete |-> TRUE, value |-> Head(fw.events).value]
      BY <1>11 DEF RxHandle
    <3>2. Head(fw.events).value \in Values
      BY <2>2 DEF Events
    <3>3. \A v \in Values : [complete |-> TRUE, value |-> v] \in Csr
      BY DEF Csr
    <3> QED
      BY <3>1, <3>2, <3>3
  <2>5. UNCHANGED ctl \/ ctl' \in Ctl
    BY <1>0, <1>11 DEF RxHandle, Ctl
  <2> QED
    BY <1>c, <1>11, <2>3, <2>4, <2>5 DEF RxHandle
<1>12. CASE FwDies
  <2>1. fw' \in Fw
    BY <1>12 DEF FwDies, Fw
  <2> QED
    BY <1>c, <1>12, <2>1 DEF FwDies
<1>13. CASE Recovered
  <2>1. ctl' \in Ctl
    BY <1>0, <1>13 DEF Recovered, Ctl
  <2> QED
    BY <1>c, <1>13, <2>1 DEF Recovered
<1> QED
  BY <1>1, <1>2, <1>3, <1>4, <1>5, <1>6, <1>7, <1>8, <1>9, <1>10, <1>11,
     <1>12, <1>13 DEF Next, Suspends

-----------------------------------------------------------------------------
(* Where the read of a suspend is, and that nothing is behind it.          *)

HasRead(s) == \E i \in 1 .. Len(s) : s[i] = "csr"

\* A read is the last command of s.
ReadLast(s) == \A i \in 1 .. Len(s) : s[i] = "csr" => i = Len(s)

ReadAnswered == \E i \in 1 .. Len(fw.events) : fw.events[i].what = "csr"

\* Nobody's answer is due.
NoneDue == /\ ~HasRead(ctl.txq) /\ ~HasRead(hand) /\ ~HasRead(fw.q)
           /\ ~ReadAnswered

\* No command is on its way to the firmware.
Drained == ctl.txq = <<>> /\ hand = <<>> /\ fw.q = <<>>

\* While the suspend waits for its answer: nothing is behind its read, and
\* there is one.
Waiting ==
  /\ ReadLast(ctl.txq) /\ ReadLast(fw.q)
  /\ HasRead(hand) => ctl.txq = <<>>
  /\ HasRead(fw.q) => ctl.txq = <<>> /\ hand = <<>>
  /\ ReadAnswered => Drained
  /\ \A i, j \in 1 .. Len(fw.events) :
       fw.events[i].what = "csr" /\ fw.events[j].what = "csr" => i = j
  /\ csr.complete => Drained /\ ~ReadAnswered

SleepInv ==
  ~sus.early =>
    /\ sus.pc \in {"commands", "read"} => NoneDue
    /\ sus.pc = "answer" => Waiting
    /\ sus.pc \in {"notify_ready", "notify"} => Drained

\* What is not due is nowhere.
LEMMA NotDue == TypeOK /\ ~AnswerDue => NoneDue
<1> SUFFICES ASSUME TypeOK, ~AnswerDue PROVE NoneDue
  OBVIOUS
<1>1. /\ ctl.txq \in Seq(Cmds) /\ hand \in Seq(Cmds) /\ fw.q \in Seq(Cmds)
      /\ fw.events \in Seq(Events)
  BY DEF TypeOK
<1>2. ASSUME NEW S, NEW s \in Seq(S), NEW i \in 1 .. Len(s) PROVE s[i] \in ToSet(s)
  BY DEF ToSet
<1>3. /\ "csr" \notin ToSet(ctl.txq) /\ "csr" \notin ToSet(hand)
      /\ "csr" \notin ToSet(fw.q) /\ \A e \in ToSet(fw.events) : e.what # "csr"
  BY DEF AnswerDue
<1>4. ~HasRead(ctl.txq) /\ ~HasRead(hand) /\ ~HasRead(fw.q)
  BY <1>1, <1>2, <1>3 DEF HasRead
<1>5. ~ReadAnswered
  BY <1>1, <1>2, <1>3 DEF ReadAnswered
<1> QED
  BY <1>4, <1>5 DEF NoneDue

\* Taking the head of a sequence.
LEMMA HeadOff ==
    ASSUME NEW S, NEW s \in Seq(S), s # <<>>
    PROVE  /\ Head(s) = s[1] /\ Tail(s) \in Seq(S) /\ 1 \in 1 .. Len(s)
           /\ Len(Tail(s)) = Len(s) - 1 /\ Len(s) \in Nat
           /\ \A i \in 1 .. Len(Tail(s)) : Tail(s)[i] = s[i + 1] /\ i + 1 \in 1 .. Len(s)
           /\ Len(s) = 1 => Tail(s) = <<>>
<1>1. s \in Seq(S) /\ s # <<>> /\ Len(s) \in Nat /\ Len(s) > 0
  OBVIOUS
<1>2. Tail(s) \in Seq(S) /\ Len(Tail(s)) = Len(s) - 1 /\ Head(s) = s[1]
      /\ \A i \in 1 .. Len(s) - 1 : Tail(s)[i] = s[i + 1]
  BY <1>1
<1>3. Len(s) = 1 => Tail(s) = <<>>
  <2> SUFFICES ASSUME Len(s) = 1 PROVE Tail(s) = <<>>
    OBVIOUS
  <2>1. Tail(s) \in Seq(S) /\ Len(Tail(s)) = 0
    BY <1>2
  <2> QED
    BY <2>1, EmptySeq
<1> QED
  BY <1>1, <1>2, <1>3

LEMMA ReadTail ==
    ASSUME NEW s \in Seq(Cmds), s # <<>>
    PROVE  /\ HasRead(Tail(s)) => HasRead(s)
           /\ ReadLast(s) => ReadLast(Tail(s))
           /\ ReadLast(s) /\ Head(s) = "csr" => Tail(s) = <<>>
           /\ Head(s) = "csr" => HasRead(s)
<1>1. /\ Head(s) = s[1] /\ Tail(s) \in Seq(Cmds) /\ 1 \in 1 .. Len(s)
      /\ Len(Tail(s)) = Len(s) - 1 /\ Len(s) \in Nat
      /\ \A i \in 1 .. Len(Tail(s)) : Tail(s)[i] = s[i + 1] /\ i + 1 \in 1 .. Len(s)
      /\ Len(s) = 1 => Tail(s) = <<>>
  BY HeadOff
<1>2. HasRead(Tail(s)) => HasRead(s)
  BY <1>1 DEF HasRead
<1>3. ASSUME ReadLast(s) PROVE ReadLast(Tail(s))
  <2> SUFFICES ASSUME NEW i \in 1 .. Len(Tail(s)), Tail(s)[i] = "csr"
               PROVE  i = Len(Tail(s))
    BY DEF ReadLast
  <2>1. s[i + 1] = "csr" /\ i + 1 \in 1 .. Len(s)
    BY <1>1
  <2>2. i + 1 = Len(s)
    BY <1>3, <2>1 DEF ReadLast
  <2>3. \A l \in Nat : i + 1 = l => i = l - 1
    OBVIOUS
  <2> QED
    BY <1>1, <2>2, <2>3
<1>4. ReadLast(s) /\ Head(s) = "csr" => Tail(s) = <<>>
  BY <1>1 DEF ReadLast
<1>5. Head(s) = "csr" => HasRead(s)
  BY <1>1 DEF HasRead
<1> QED
  BY <1>2, <1>3, <1>4, <1>5

\* The actions of the suspending thread.
LEMMA SuspendKeepsSleepInv ==
    ASSUME TypeOK, SleepInv, Suspends \/ Resumes
    PROVE  SleepInv'
<1>1. sus \in [pc : Places, assoc : BOOLEAN, reads : Nat, early : BOOLEAN]
  BY DEF TypeOK
<1>2. CASE Suspend
  <2>1. sus'.early = AnswerDue /\ sus'.pc \in {"commands", "read"}
        /\ UNCHANGED <<ctl, hand, fw>>
    BY <1>2 DEF Suspend
  <2>2. ~AnswerDue => NoneDue'
    BY <2>1, NotDue DEF NoneDue, HasRead, ReadAnswered
  <2> QED
    BY <2>1, <2>2 DEF SleepInv
<1>3. CASE SuspendRefused
  BY <1>3 DEF SuspendRefused, At, SleepInv
<1>4. CASE CommandsDone
  <2>1. UNCHANGED <<ctl, hand, fw>> /\ sus' = [sus EXCEPT !.pc = "read"]
        /\ sus.pc = "commands"
    BY <1>4 DEF CommandsDone, At, Goto
  <2>2. sus'.pc = "read" /\ sus'.early = sus.early
    BY <1>1, <2>1
  <2>3. NoneDue => NoneDue'
    BY <2>1 DEF NoneDue, HasRead, ReadAnswered
  <2> QED
    BY <2>1, <2>2, <2>3 DEF SleepInv
<1>5. CASE CommandsTimeOut \/ Resumes
  <2>1. sus'.pc \in {"awake", "suspended", "frozen", "resumed"}
    BY <1>1, <1>5 DEF CommandsTimeOut, Resumes, SdioSuspend, SdioResume, Resume,
                      PostSuspend, Goto
  <2> QED
    BY <2>1 DEF SleepInv
<1>6. CASE ReadCsr
  <2>1. /\ sus'.pc = "answer" /\ sus'.early = sus.early /\ sus.pc = "read"
        /\ UNCHANGED <<hand, fw>> /\ csr'.complete = FALSE
    BY <1>1, <1>6 DEF ReadCsr, At, Cleared
  <2>2. ctl'.txq = Append(ctl.txq, "csr") /\ ctl.txq \in Seq(Cmds)
    BY <1>6 DEF ReadCsr, Sent, TypeOK
  <2>3. ASSUME NoneDue PROVE Waiting'
    <3>1. ReadLast(ctl.txq)'
      <4>1. "csr" \in Cmds
        BY DEF Cmds
      <4>2. /\ Len(ctl'.txq) = Len(ctl.txq) + 1
            /\ \A i \in 1 .. Len(ctl.txq) : ctl'.txq[i] = ctl.txq[i]
            /\ Len(ctl.txq) \in Nat
        BY <2>2, <4>1, AppendProperties
      <4>3. \A i \in 1 .. Len(ctl.txq) : ctl.txq[i] # "csr"
        BY <2>3 DEF NoneDue, HasRead
      <4>4. \A i \in 1 .. Len(ctl'.txq) : i \in 1 .. Len(ctl.txq) \/ i = Len(ctl'.txq)
        BY <4>2
      <4> QED
        BY <4>2, <4>3, <4>4 DEF ReadLast
    <3>2. ~HasRead(hand)' /\ ~HasRead(fw.q)' /\ ~ReadAnswered'
      BY <2>1, <2>3 DEF NoneDue, HasRead, ReadAnswered
    <3>3. ReadLast(fw.q)'
      BY <3>2 DEF HasRead, ReadLast
    <3>4. \A i, j \in 1 .. Len(fw'.events) :
            fw'.events[i].what = "csr" /\ fw'.events[j].what = "csr" => i = j
      BY <3>2 DEF ReadAnswered
    <3> QED
      BY <2>1, <3>1, <3>2, <3>3, <3>4 DEF Waiting
  <2> QED
    BY <2>1, <2>3 DEF SleepInv
<1>7. CASE Answered
  <2>1. /\ sus'.pc \in {"read", "notify_ready", "notify"} /\ sus'.early = sus.early
        /\ sus.pc = "answer" /\ csr.complete /\ UNCHANGED <<ctl, hand, fw>>
    BY <1>1, <1>7 DEF Answered, AfterAnswer, At, Goto
  <2>2. ASSUME Waiting PROVE Drained' /\ NoneDue'
    <3>1. Drained /\ ~ReadAnswered
      BY <2>1, <2>2 DEF Waiting
    <3>2. Drained' /\ ~ReadAnswered'
      BY <2>1, <3>1 DEF Drained, ReadAnswered
    <3>3. ~HasRead(<<>>)
      BY EmptySeq DEF HasRead
    <3> QED
      BY <3>2, <3>3 DEF Drained, NoneDue
  <2> QED
    BY <2>1, <2>2 DEF SleepInv
<1>8. CASE AnswerTimesOut
  <2>1. sus'.early
    BY <1>1, <1>8 DEF AnswerTimesOut
  <2> QED
    BY <2>1 DEF SleepInv
<1>9. CASE NotifySleep
  <2>1. /\ sus.pc \in {"notify_ready", "notify"} /\ sus'.pc \in {"notify", "suspended"}
        /\ sus'.early = sus.early /\ UNCHANGED <<ctl, hand>> /\ fw'.q = fw.q
    BY <1>1, <1>9 DEF NotifySleep, At, Goto, TypeOK
  <2>2. Drained => Drained'
    BY <2>1 DEF Drained
  <2> QED
    BY <2>1, <2>2 DEF SleepInv
<1> QED
  BY <1>2, <1>3, <1>4, <1>5, <1>6, <1>7, <1>8, <1>9 DEF Suspends

\* The other threads and the firmware: a suspend that has not yet had its
\* answer goes on in the same place.
LEMMA OthersKeepSleepInv ==
    ASSUME TypeOK, UNCHANGED sus,
           NoneDue => NoneDue', Waiting => Waiting', Drained => Drained'
    PROVE  SleepInv => SleepInv'
  BY DEF SleepInv

\* tx_thread.
LEMMA ThreadKeepsSleepInv ==
    ASSUME TypeOK, SleepInv, TxTake \/ TxWrite
    PROVE  SleepInv'
<1>1. /\ ctl.txq \in Seq(Cmds) /\ hand \in Seq(Cmds) /\ Len(hand) =< 1
      /\ fw.q \in Seq(Cmds) /\ fw \in [q : Seq(Cmds), asleep : BOOLEAN, events : Seq(Events)]
      /\ ctl \in [outstanding : Nat, txq : Seq(Cmds)]
  BY DEF TypeOK
<1>2. ~HasRead(<<>>) /\ ReadLast(<<>>)
  BY EmptySeq DEF HasRead, ReadLast
<1>3. CASE TxTake
  <2>1. /\ hand = <<>> /\ ctl.txq # <<>> /\ hand' = <<Head(ctl.txq)>>
        /\ ctl'.txq = Tail(ctl.txq) /\ UNCHANGED <<sus, csr, fw>>
    BY <1>1, <1>3 DEF TxTake
  <2>2. /\ HasRead(ctl'.txq) => HasRead(ctl.txq)
        /\ ReadLast(ctl.txq) => ReadLast(ctl'.txq)
        /\ ReadLast(ctl.txq) /\ Head(ctl.txq) = "csr" => ctl'.txq = <<>>
        /\ Head(ctl.txq) = "csr" => HasRead(ctl.txq)
    BY <1>1, <2>1, ReadTail
  <2>3. HasRead(hand') => Head(ctl.txq) = "csr"
    BY <2>1 DEF HasRead
  <2>4. NoneDue => NoneDue'
    BY <2>1, <2>2, <2>3 DEF NoneDue, HasRead, ReadAnswered
  <2>5. ~Drained
    BY <2>1 DEF Drained
  <2>6. ASSUME Waiting PROVE Waiting'
    <3>1. ~HasRead(fw.q) /\ ~ReadAnswered /\ ~csr.complete
      BY <2>1, <2>5, <2>6 DEF Waiting
    <3>2. ~HasRead(fw.q)' /\ ~ReadAnswered' /\ ~csr'.complete /\ ReadLast(fw.q)'
      BY <2>1, <2>6, <3>1 DEF Waiting, HasRead, ReadAnswered, ReadLast
    <3>3. ReadLast(ctl.txq)' /\ (HasRead(hand)' => ctl'.txq = <<>>)
      BY <2>2, <2>3, <2>6 DEF Waiting, ReadLast, HasRead
    <3>4. \A i, j \in 1 .. Len(fw'.events) :
            fw'.events[i].what = "csr" /\ fw'.events[j].what = "csr" => i = j
      BY <3>2 DEF ReadAnswered
    <3> QED
      BY <3>2, <3>3, <3>4 DEF Waiting
  <2> QED
    BY <2>1, <2>4, <2>5, <2>6, OthersKeepSleepInv
<1>4. CASE TxWrite
  <2>1. /\ hand # <<>> /\ hand' = <<>> /\ UNCHANGED <<sus, csr, ctl>>
        /\ fw'.events = fw.events /\ fw'.q \in {fw.q, fw.q \o hand}
    BY <1>1, <1>4 DEF TxWrite
  <2>2. /\ HasRead(fw.q \o hand) => HasRead(fw.q) \/ HasRead(hand)
        /\ ~HasRead(fw.q) => ReadLast(fw.q \o hand)
    <3>1. Len(hand) = 1
      <4>1. Len(hand) \in Nat /\ Len(hand) # 0
        BY <1>1, <2>1, LenProperties, EmptySeq
      <4>2. Len(hand) =< 1
        BY <1>1
      <4>3. \A n \in Nat : n # 0 /\ n =< 1 => n = 1
        OBVIOUS
      <4> QED
        BY <4>1, <4>2, <4>3
    <3>2. /\ Len(fw.q \o hand) = Len(fw.q) + 1 /\ Len(fw.q) \in Nat
          /\ \A i \in 1 .. Len(fw.q) + 1 :
               (fw.q \o hand)[i] = IF i =< Len(fw.q) THEN fw.q[i] ELSE hand[i - Len(fw.q)]
      <4> DEFINE q == fw.q
      <4>1. q \in Seq(Cmds) /\ hand \in Seq(Cmds)
        BY <1>1
      <4> HIDE DEF q
      <4>2. /\ Len(q \o hand) = Len(q) + Len(hand) /\ Len(q) \in Nat
            /\ \A i \in 1 .. Len(q) + Len(hand) :
                 (q \o hand)[i] = IF i =< Len(q) THEN q[i] ELSE hand[i - Len(q)]
        BY <4>1, ConcatProperties, LenProperties
      <4>3. /\ Len(q \o hand) = Len(q) + 1 /\ Len(q) \in Nat
            /\ \A i \in 1 .. Len(q) + 1 :
                 (q \o hand)[i] = IF i =< Len(q) THEN q[i] ELSE hand[i - Len(q)]
        BY <3>1, <4>2
      <4> QED
        BY <4>3 DEF q
    <3>3. \A i \in 1 .. Len(fw.q) + 1 : i > Len(fw.q) => i = Len(fw.q) + 1 /\ i - Len(fw.q) = 1
      BY <3>2
    <3>4. \A i \in 1 .. Len(fw.q) + 1 : i =< Len(fw.q) => i \in 1 .. Len(fw.q)
      BY <3>2
    <3>5. 1 \in 1 .. Len(hand)
      BY <3>1
    <3>6. \A i \in 1 .. Len(fw.q) + 1 : i =< Len(fw.q) \/ i > Len(fw.q)
      BY <3>2
    <3> QED
      BY <3>2, <3>3, <3>4, <3>5, <3>6 DEF HasRead, ReadLast
  <2>3. NoneDue => NoneDue'
    BY <1>2, <2>1, <2>2 DEF NoneDue, HasRead, ReadAnswered
  <2>4. ~Drained
    BY <2>1 DEF Drained
  <2>5. ASSUME Waiting PROVE Waiting'
    <3>1. ~HasRead(fw.q) /\ ~ReadAnswered /\ ~csr.complete
      BY <2>1, <2>4, <2>5 DEF Waiting
    <3>2. ~ReadAnswered' /\ ~csr'.complete /\ ReadLast(ctl.txq)' /\ ~HasRead(hand)'
      BY <1>2, <2>1, <2>5, <3>1 DEF Waiting, ReadAnswered, ReadLast, HasRead
    <3>3. ReadLast(fw.q)'
      BY <2>1, <2>2, <2>5, <3>1 DEF Waiting, ReadLast
    <3>4. HasRead(fw.q)' => ctl'.txq = <<>> /\ hand' = <<>>
      <4>1. HasRead(fw.q)' => HasRead(hand)
        BY <2>1, <2>2, <3>1 DEF HasRead
      <4> QED
        BY <2>1, <2>5, <4>1 DEF Waiting
    <3>5. \A i, j \in 1 .. Len(fw'.events) :
            fw'.events[i].what = "csr" /\ fw'.events[j].what = "csr" => i = j
      BY <3>2 DEF ReadAnswered
    <3> QED
      BY <3>2, <3>3, <3>4, <3>5 DEF Waiting
  <2> QED
    BY <2>1, <2>3, <2>4, <2>5, OthersKeepSleepInv
<1> QED
  BY <1>3, <1>4

\* The firmware answers the first command it has.
LEMMA FwKeepsSleepInv ==
    ASSUME TypeOK, SleepInv, FwProcess
    PROVE  SleepInv'
<1>1. PICK answer \in Answers, lost \in BOOLEAN :
        fw' = [fw EXCEPT !.q = Tail(@),
                 !.events = @ \o answer
                   \o IF lost THEN <<>> ELSE <<[what |-> "done", value |-> {}]>>]
  BY DEF FwProcess
<1>2. /\ fw \in [q : Seq(Cmds), asleep : BOOLEAN, events : Seq(Events)]
      /\ fw.q # <<>> /\ UNCHANGED <<sus, csr, ctl, hand>>
  BY DEF FwProcess, TypeOK
<1> DEFINE old == fw.events
           q == fw.q
           more == answer \o Done(lost)
<1>3. q \in Seq(Cmds) /\ old \in Seq(Events) /\ q # <<>>
  BY <1>2
<1>4. /\ more \in Seq(Events) /\ answer \in Seq(Events)
      /\ \A i, j \in 1 .. Len(more) :
           more[i].what = "csr" /\ more[j].what = "csr" => i = j
      /\ Head(q) # "csr" => \A i \in 1 .. Len(more) : more[i].what # "csr"
  BY AnswerTypes
<1>5. fw'.q = Tail(q) /\ fw'.events = old \o more
  <2>1. fw'.q = Tail(fw.q) /\ fw'.events = (fw.events \o answer) \o Done(lost)
    BY <1>1, <1>2 DEF Done
  <2>2. (fw.events \o answer) \o Done(lost) = fw.events \o (answer \o Done(lost))
    <3>1. fw.events \in Seq(Events) /\ answer \in Seq(Events)
          /\ Done(lost) \in Seq(Events)
      BY <1>2, <1>4, DoneTypes
    <3>2. \A s, t, u \in Seq(Events) : (s \o t) \o u = s \o (t \o u)
      BY ConcatAssociative, SMT
    <3> QED
      BY <3>1, <3>2, Zenon
  <2> QED
    BY <2>1, <2>2
<1> HIDE DEF old, q, more
<1>6. /\ Len(old \o more) = Len(old) + Len(more) /\ Len(old) \in Nat /\ Len(more) \in Nat
      /\ \A i \in 1 .. Len(old) + Len(more) :
           (old \o more)[i] = IF i =< Len(old) THEN old[i] ELSE more[i - Len(old)]
  BY <1>3, <1>4, ConcatProperties, LenProperties
\* Where no answer was due to be read, those there are now are the new ones.
<1>7. ASSUME ~ReadAnswered
      PROVE  \A i \in 1 .. Len(fw'.events) : fw'.events[i].what = "csr" =>
               i > Len(old) /\ i - Len(old) \in 1 .. Len(more)
                 /\ more[i - Len(old)].what = "csr"
  <2> SUFFICES ASSUME NEW i \in 1 .. Len(old) + Len(more), (old \o more)[i].what = "csr"
               PROVE  i > Len(old) /\ i - Len(old) \in 1 .. Len(more)
                        /\ more[i - Len(old)].what = "csr"
    BY <1>5, <1>6
  <2>1. CASE i =< Len(old)
    <3>1. i \in 1 .. Len(old) /\ old[i].what = "csr"
      BY <1>6, <2>1
    <3> QED
      BY <1>7, <3>1 DEF ReadAnswered, old
  <2>2. CASE i > Len(old)
    BY <1>6, <2>2
  <2> QED
    BY <1>6, <2>1, <2>2
<1>8. /\ HasRead(Tail(q)) => HasRead(q)
      /\ ReadLast(q) => ReadLast(Tail(q))
      /\ ReadLast(q) /\ Head(q) = "csr" => Tail(q) = <<>>
      /\ Head(q) = "csr" => HasRead(q)
  BY <1>3, ReadTail
<1>9. ~ReadAnswered /\ ReadAnswered' => Head(q) = "csr"
  BY <1>4, <1>7 DEF ReadAnswered
<1>10. NoneDue => NoneDue'
  <2> SUFFICES ASSUME NoneDue PROVE NoneDue'
    OBVIOUS
  <2>1. ~HasRead(q) /\ ~ReadAnswered
    BY DEF NoneDue, q
  <2>2. ~HasRead(Tail(q)) /\ ~ReadAnswered'
    BY <1>8, <1>9, <2>1
  <2>3. ~HasRead(fw.q)' /\ ~HasRead(ctl.txq)' /\ ~HasRead(hand)'
    BY <1>2, <1>5, <2>2 DEF NoneDue, HasRead
  <2> QED
    BY <2>2, <2>3 DEF NoneDue
<1>11. ~Drained
  BY <1>3 DEF Drained, q
<1>12. Waiting => Waiting'
  <2> SUFFICES ASSUME Waiting PROVE Waiting'
    OBVIOUS
  <2>1. ~ReadAnswered /\ ~csr.complete /\ ReadLast(q)
        /\ (HasRead(q) => ctl.txq = <<>> /\ hand = <<>>)
    BY <1>11 DEF Waiting, q
  <2>2. ReadLast(ctl.txq)' /\ (HasRead(hand) => ctl.txq = <<>>)' /\ ~csr'.complete
    BY <1>2, <2>1 DEF Waiting, ReadLast, HasRead
  <2>3. ReadLast(fw.q)' /\ (HasRead(fw.q)' => ctl'.txq = <<>> /\ hand' = <<>>)
    BY <1>2, <1>5, <1>8, <2>1 DEF ReadLast, HasRead
  <2>4. ReadAnswered' => Drained'
    <3> SUFFICES ASSUME ReadAnswered' PROVE Drained'
      OBVIOUS
    <3>1. Head(q) = "csr"
      BY <1>9, <2>1
    <3>2. Tail(q) = <<>> /\ ctl.txq = <<>> /\ hand = <<>>
      BY <1>8, <2>1, <3>1
    <3> QED
      BY <1>2, <1>5, <3>2 DEF Drained
  <2>5. \A i, j \in 1 .. Len(fw'.events) :
          fw'.events[i].what = "csr" /\ fw'.events[j].what = "csr" => i = j
    <3> SUFFICES ASSUME NEW i \in 1 .. Len(fw'.events), NEW j \in 1 .. Len(fw'.events),
                        fw'.events[i].what = "csr", fw'.events[j].what = "csr"
                 PROVE  i = j
      OBVIOUS
    <3>1. /\ i - Len(old) \in 1 .. Len(more) /\ more[i - Len(old)].what = "csr"
          /\ j - Len(old) \in 1 .. Len(more) /\ more[j - Len(old)].what = "csr"
      BY <1>7, <2>1
    <3>2. i - Len(old) = j - Len(old)
      BY <1>4, <3>1
    <3>3. i \in Int /\ j \in Int /\ Len(old) \in Int
      BY <1>6
    <3> QED
      BY <3>2, <3>3
  <2> QED
    BY <2>2, <2>3, <2>4, <2>5 DEF Waiting
<1> QED
  BY <1>2, <1>10, <1>11, <1>12, OthersKeepSleepInv

\* The receive work.
LEMMA RxKeepsSleepInv ==
    ASSUME TypeOK, SleepInv, RxHandle
    PROVE  SleepInv'
<1>1. /\ fw \in [q : Seq(Cmds), asleep : BOOLEAN, events : Seq(Events)]
      /\ ctl \in [outstanding : Nat, txq : Seq(Cmds)]
      /\ fw.events # <<>> /\ UNCHANGED <<sus, hand>>
      /\ fw' = [fw EXCEPT !.events = Tail(@)]
  BY DEF RxHandle, TypeOK
<1> DEFINE ev == fw.events
<1>2. /\ fw'.q = fw.q /\ fw'.events = Tail(ev) /\ ev \in Seq(Events)
  BY <1>1
<1>3. ctl'.txq = ctl.txq
  BY <1>1 DEF RxHandle
<1>4. csr' = csr \/ Head(ev).what = "csr"
  BY DEF RxHandle
<1>5. /\ Head(ev) = ev[1] /\ 1 \in 1 .. Len(ev)
      /\ \A i \in 1 .. Len(Tail(ev)) : Tail(ev)[i] = ev[i + 1] /\ i + 1 \in 1 .. Len(ev)
  BY <1>1, <1>2, HeadOff
<1>6. Drained' <=> Drained
  BY <1>1, <1>2, <1>3 DEF Drained
<1> HIDE DEF ev
<1>7. ReadAnswered' => ReadAnswered
  BY <1>2, <1>5 DEF ReadAnswered, ev
<1>8. NoneDue => NoneDue'
  BY <1>1, <1>2, <1>3, <1>7 DEF NoneDue, HasRead
<1>9. Waiting => Waiting'
  <2> SUFFICES ASSUME Waiting PROVE Waiting'
    OBVIOUS
  <2>1. /\ ReadLast(ctl.txq)' /\ ReadLast(fw.q)' /\ (HasRead(hand) => ctl.txq = <<>>)'
        /\ (HasRead(fw.q) => ctl.txq = <<>> /\ hand = <<>>)'
    BY <1>1, <1>2, <1>3 DEF Waiting, ReadLast, HasRead
  <2>2. ReadAnswered' => Drained'
    BY <1>6, <1>7 DEF Waiting
  <2>3. \A i, j \in 1 .. Len(ev) : ev[i].what = "csr" /\ ev[j].what = "csr" => i = j
    BY DEF Waiting, ev
  <2>4. \A i, j \in 1 .. Len(fw'.events) :
          fw'.events[i].what = "csr" /\ fw'.events[j].what = "csr" => i = j
    <3> SUFFICES ASSUME NEW i \in 1 .. Len(Tail(ev)), NEW j \in 1 .. Len(Tail(ev)),
                        Tail(ev)[i].what = "csr", Tail(ev)[j].what = "csr"
                 PROVE  i = j
      BY <1>2
    <3>1. i + 1 = j + 1
      BY <1>5, <2>3
    <3> QED
      BY <3>1
  <2>5. csr'.complete => Drained' /\ ~ReadAnswered'
    <3>1. CASE csr' = csr
      BY <1>6, <1>7, <3>1 DEF Waiting
    <3>2. CASE Head(ev).what = "csr"
      <4>1. ReadAnswered
        BY <1>5, <3>2 DEF ReadAnswered, ev
      <4>2. ASSUME NEW i \in 1 .. Len(Tail(ev)) PROVE Tail(ev)[i].what # "csr"
        <5>1. i + 1 # 1
          OBVIOUS
        <5> QED
          BY <1>5, <2>3, <3>2, <5>1
      <4>3. ~ReadAnswered'
        BY <1>2, <4>2 DEF ReadAnswered
      <4> QED
        BY <1>6, <4>1, <4>3 DEF Waiting
    <3> QED
      BY <1>4, <3>1, <3>2
  <2> QED
    BY <2>1, <2>2, <2>4, <2>5 DEF Waiting
<1> QED
  BY <1>1, <1>6, <1>8, <1>9, OthersKeepSleepInv

\* Every step keeps the invariant; a death takes commands and answers away.
LEMMA NextSleepInv == TypeOK /\ SleepInv /\ [Next]_vars => SleepInv'
<1> SUFFICES ASSUME TypeOK, SleepInv, [Next]_vars PROVE SleepInv'
  OBVIOUS
<1>1. CASE Suspends \/ Resumes
  BY <1>1, SuspendKeepsSleepInv
<1>2. CASE TxTake \/ TxWrite
  BY <1>2, ThreadKeepsSleepInv
<1>3. CASE FwProcess
  BY <1>3, FwKeepsSleepInv
<1>4. CASE RxHandle
  BY <1>4, RxKeepsSleepInv
<1>5. CASE Config
  BY <1>5 DEF Config, SleepInv
<1>6. CASE FwDies
  <2>1. UNCHANGED <<sus, csr, ctl, hand>> /\ fw'.q = <<>> /\ fw'.events = <<>>
    BY <1>6 DEF FwDies
  <2>2. ~HasRead(fw.q)' /\ ReadLast(fw.q)' /\ ~ReadAnswered'
    BY <2>1, EmptySeq DEF HasRead, ReadLast, ReadAnswered
  <2>3. \A i, j \in 1 .. Len(fw'.events) :
          fw'.events[i].what = "csr" /\ fw'.events[j].what = "csr" => i = j
    BY <2>2 DEF ReadAnswered
  <2>4. Drained => Drained'
    BY <2>1 DEF Drained
  <2>5. NoneDue => NoneDue'
    BY <2>1, <2>2 DEF NoneDue, HasRead
  <2>6. Waiting => Waiting'
    <3> SUFFICES ASSUME Waiting PROVE Waiting'
      OBVIOUS
    <3>1. ReadLast(ctl.txq)' /\ (HasRead(hand) => ctl.txq = <<>>)'
      BY <2>1 DEF Waiting, ReadLast, HasRead
    <3>2. csr'.complete => Drained'
      BY <2>1, <2>4 DEF Waiting
    <3> QED
      BY <2>2, <2>3, <3>1, <3>2 DEF Waiting
  <2> QED
    BY <2>1, <2>4, <2>5, <2>6, OthersKeepSleepInv
<1>7. CASE Recovered \/ UNCHANGED vars
  <2>1. UNCHANGED <<sus, csr, hand, fw>> /\ ctl'.txq = ctl.txq
    BY <1>7 DEF Recovered, vars, TypeOK
  <2>2. (NoneDue => NoneDue') /\ (Waiting => Waiting') /\ (Drained => Drained')
    BY <2>1 DEF NoneDue, Waiting, Drained, HasRead, ReadLast, ReadAnswered
  <2> QED
    BY <2>1, <2>2, OthersKeepSleepInv
<1> QED
  BY <1>1, <1>2, <1>3, <1>4, <1>5, <1>6, <1>7 DEF Next

LEMMA InitSleepInv == Init => TypeOK /\ SleepInv
<1> SUFFICES ASSUME Init PROVE TypeOK /\ SleepInv
  OBVIOUS
<1>1. TypeOK
  <2>1. <<>> \in Seq(Cmds) /\ <<>> \in Seq(Events) /\ Len(<<>>) = 0
    BY EmptySeq
  <2>2. {} \in Values /\ "awake" \in Places
    BY DEF Values, Places
  <2> QED
    BY <2>1, <2>2 DEF Init, TypeOK
<1>2. SleepInv
  BY DEF Init, SleepInv
<1> QED
  BY <1>1, <1>2

-----------------------------------------------------------------------------
\* The answer that img_suspend waits for comes behind all that was sent before
\* the suspend, and nothing is sent after: whenever the firmware is told to
\* sleep, it has processed every command, unless a wait ended early.
THEOREM NothingSentBeforeSleep == Spec => CommandsBeforeSleep
<1> DEFINE Inv == TypeOK /\ SleepInv
           Asleep == fw'.asleep /\ ~fw.asleep /\ ~sus.early
                       => ctl.txq = <<>> /\ hand = <<>> /\ fw.q = <<>>
<1>1. Inv /\ [Next]_vars => Inv'
  BY NextTypes, NextSleepInv
<1>2. Inv /\ [Next]_vars => [Asleep]_vars
  <2> SUFFICES ASSUME TypeOK, SleepInv, Next, fw'.asleep, ~fw.asleep, ~sus.early
               PROVE  Drained
    BY DEF Drained
  <2>1. CASE NotifySleep
    BY <2>1 DEF NotifySleep, At, SleepInv
  <2>2. CASE ~NotifySleep
    <3>1. fw'.asleep = fw.asleep \/ fw'.asleep = FALSE
      <4>0. fw \in [q : Seq(Cmds), asleep : BOOLEAN, events : Seq(Events)]
        BY DEF TypeOK
      <4>1. CASE Config \/ SuspendRefused \/ Suspend \/ CommandsDone
                   \/ CommandsTimeOut \/ ReadCsr \/ Answered \/ AnswerTimesOut
        BY <4>1 DEF Config, Suspend, SuspendRefused, CommandsDone,
           CommandsTimeOut, ReadCsr, Answered, AnswerTimesOut
      <4>2. CASE SdioSuspend \/ SdioResume \/ PostSuspend \/ TxTake \/ Recovered
        BY <4>2 DEF SdioSuspend, SdioResume, PostSuspend, TxTake, Recovered
      <4>3. CASE Resume
        BY <4>0, <4>3 DEF Resume
      <4>4. CASE TxWrite
        <5>1. fw' = fw \/ fw' = [fw EXCEPT !.q = fw.q \o hand]
          BY <4>4 DEF TxWrite
        <5> QED
          BY <4>0, <5>1
      <4>5. CASE RxHandle
        <5>1. fw' = [fw EXCEPT !.events = Tail(fw.events)]
          BY <4>5 DEF RxHandle
        <5> QED
          BY <4>0, <5>1
      <4>6. CASE FwProcess
        <5>1. \E events : fw' = [fw EXCEPT !.q = Tail(fw.q), !.events = events]
          BY <4>6 DEF FwProcess
        <5> QED
          BY <4>0, <5>1
      <4>7. CASE FwDies
        BY <4>7 DEF FwDies
      <4> QED
        BY <2>2, <4>1, <4>2, <4>3, <4>4, <4>5, <4>6, <4>7
           DEF Next, Suspends, Resumes
    <3> QED
      BY <3>1
  <2> QED
    BY <2>1, <2>2
<1>3. Init => Inv
  BY InitSleepInv
<1>4. CommandsBeforeSleep <=> [][Asleep]_vars
  BY PTL DEF CommandsBeforeSleep
<1> HIDE DEF Inv, Asleep
<1> QED
  BY <1>1, <1>2, <1>3, <1>4, PTL DEF Spec
=============================================================================
