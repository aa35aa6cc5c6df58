------------------------------ MODULE CmdQueue ------------------------------
(***************************************************************************)
(* The control path of the RK915 driver (drivers/rk915/src/rpu_if.c):      *)
(* rpu_send admits at most MAX_OUTSTANDING_CTRL_REQ commands to the        *)
(* firmware and queues the others; each COMMAND_PROC_DONE event releases   *)
(* one; BLOCK_ALL and UNBLOCK_ALL, a reset and a firmware error interfere. *)
(*                                                                         *)
(* Commands are numbered in the order rpu_send is called.  Every action is *)
(* one critical section of control_path_lock or one unlocked access by the *)
(* receive work.  Commands that bypass the queue                           *)
(* (rpu_send_cmd_without_delay) change none of this state.                 *)
(***************************************************************************)
EXTENDS Integers, Sequences

CONSTANTS
    MaxOutstanding,   \* MAX_OUTSTANDING_CTRL_REQ
    MaxCmds,          \* bound on the commands issued
    ResetCmds,        \* the commands that are RPU_CMD_RESET
    MaxBlocks,        \* bound on RPU_EVENT_BLOCK_ALL events
    MaxLost,          \* bound on lost COMMAND_PROC_DONE events
    MaxAges,          \* bound on expiries of the 300 ms of queued commands
    MaxFwErrors       \* bound on RPU_EVENT_FW_ERROR events

ASSUME CmdConstants ==
    /\ MaxOutstanding \in Nat \ {0} /\ MaxCmds \in Nat
    /\ ResetCmds \subseteq 1 .. MaxCmds
    /\ MaxBlocks \in Nat /\ MaxLost \in Nat /\ MaxAges \in Nat
    /\ MaxFwErrors \in Nat

VARIABLES
    issued,             \* calls of rpu_send so far
    outstandingCmd,     \* cmd_info.outstanding_cmd, the commands held back
    aged,               \* how many of them, from the head, are over 300 ms old
    outstandingCtrlReq, \* cmd_info.outstanding_ctrl_req
    sent,               \* the commands given to the HAL, in order
    answered,           \* how many of them the firmware is done with
    blocked,            \* block_rpu_comm
    rx,                 \* the receive work is "idle", has counted the queue
                        \* after a firmware error ("counted"), or is about to
                        \* call rpu_process_pending_cmd ("pending")
    count,              \* the queue length it has counted
    blocks, lost, ages, fwErrors   \* bounded events so far

vars == <<issued, outstandingCmd, aged, outstandingCtrlReq, sent, answered,
          blocked, rx, count, blocks, lost, ages, fwErrors>>

Init ==
    /\ issued = 0 /\ outstandingCmd = <<>> /\ aged = 0
    /\ outstandingCtrlReq = 0
    /\ sent = <<>> /\ answered = 0
    /\ blocked = FALSE /\ rx = "idle" /\ count = 0
    /\ blocks = 0 /\ lost = 0 /\ ages = 0 /\ fwErrors = 0

InFlight == Len(sent) - answered

\* Mutant of Monus: nothing is taken.
MonusNone(m, n) == m

\* n taken one by one from m while it is not 0.
Monus(m, n) == IF m > n THEN m - n ELSE 0

\* Mutant of Drop: the last of the commands sent is not unlinked.
DropLess(q, n) == IF n = 0 THEN q ELSE SubSeq(q, n, Len(q))

Drop(q, n)  == SubSeq(q, n + 1, Len(q))
Least(m, n) == IF m < n THEN m ELSE n

\* Mutant of Moved: the counter is taken down and nothing is sent.
MovedNone(k, c, q) == 0

\* How many commands of q are sent in k calls of rpu_process_pending_cmd, with
\* the counter at c: each call finds a counter that is not 0 and an unblocked
\* driver, or does nothing to the queue.
Moved(k, c, q) == IF blocked' THEN 0 ELSE Least(k, Least(c, Len(q)))

\* k calls of rpu_process_pending_cmd with the counter at c, queue q and the
\* commands s sent so far.
ProcessPending(k, c, q, s) ==
    /\ outstandingCtrlReq' = Monus(c, k)
    /\ outstandingCmd' = Drop(q, Moved(k, c, q))
    /\ sent' = s \o SubSeq(q, 1, Moved(k, c, q))

\* Mutant of HasRoom: one command too many.
HasRoomForMore == ~blocked /\ outstandingCtrlReq =< MaxOutstanding

\* rpu_send may send.
HasRoom == ~blocked /\ outstandingCtrlReq < MaxOutstanding

-----------------------------------------------------------------------------
\* rpu_send: drain up to MaxOutstanding queued commands if there is room,
\* then send or queue the new one, then release what has waited 300 ms.
RpuSend ==
    LET cmd  == issued + 1
        n    == IF HasRoom THEN Least(Len(outstandingCmd), MaxOutstanding) ELSE 0
        hold == ~HasRoom \/ n = MaxOutstanding
        q    == Drop(outstandingCmd, n) \o (IF hold THEN <<cmd>> ELSE <<>>)
        s    == sent \o SubSeq(outstandingCmd, 1, n)
                     \o (IF hold THEN <<>> ELSE <<cmd>>)
    IN  /\ issued < MaxCmds
        /\ issued' = cmd /\ aged' = 0
        /\ UNCHANGED <<answered, blocked, rx, count, blocks, lost, ages, fwErrors>>
        /\ ProcessPending(Monus(aged, n), Monus(outstandingCtrlReq, n) + 1, q, s)

\* 300 ms pass since the first m queued commands were queued or refreshed.
Age ==
    /\ ages < MaxAges /\ ages' = ages + 1
    /\ \E m \in aged + 1 .. Len(outstandingCmd) : aged' = m
    /\ UNCHANGED <<issued, outstandingCmd, outstandingCtrlReq, sent, answered,
                   blocked, rx, count, blocks, lost, fwErrors>>

-----------------------------------------------------------------------------
(* rpu_msg_handler, in the receive work: one event after the other.        *)

\* Mutant of AfterEvent: the queue is not processed after the event.
AfterEventIdle == "idle"

\* An event that releases a command goes on to rpu_process_pending_cmd.
AfterEvent == "pending"

\* The firmware answers the oldest command it has: RESET_COMPLETE for a reset,
\* which also lifts a block, COMMAND_PROC_DONE for any other.
CommandProcDone ==
    /\ rx = "idle" /\ InFlight > 0 /\ sent[answered + 1] \notin ResetCmds
    /\ answered' = answered + 1 /\ rx' = AfterEvent
    /\ UNCHANGED <<issued, outstandingCmd, aged, outstandingCtrlReq, sent,
                   blocked, count, blocks, lost, ages, fwErrors>>

ResetComplete ==
    /\ rx = "idle" /\ InFlight > 0 /\ sent[answered + 1] \in ResetCmds
    /\ answered' = answered + 1 /\ rx' = AfterEvent /\ blocked' = FALSE
    /\ UNCHANGED <<issued, outstandingCmd, aged, outstandingCtrlReq, sent,
                   count, blocks, lost, ages, fwErrors>>

\* The event is lost on its way to the driver.
ProcDoneLost ==
    /\ InFlight > 0 /\ lost < MaxLost
    /\ answered' = answered + 1 /\ lost' = lost + 1
    /\ UNCHANGED <<issued, outstandingCmd, aged, outstandingCtrlReq, sent,
                   blocked, rx, count, blocks, ages, fwErrors>>

BlockAll ==
    /\ rx = "idle" /\ blocks < MaxBlocks
    /\ blocked' = TRUE /\ blocks' = blocks + 1
    /\ UNCHANGED <<issued, outstandingCmd, aged, outstandingCtrlReq, sent,
                   answered, rx, count, lost, ages, fwErrors>>

UnblockAll ==
    /\ rx = "idle" /\ blocked
    /\ blocked' = FALSE /\ rx' = AfterEvent
    /\ UNCHANGED <<issued, outstandingCmd, aged, outstandingCtrlReq, sent,
                   answered, count, blocks, lost, ages, fwErrors>>

\* RPU_EVENT_FW_ERROR: the firmware has forgotten its commands and is patched
\* again; rpu_process_pending_operates counts the queued ones afresh.  It
\* takes no lock: it reads the length and then writes the counter.
FwError ==
    /\ rx = "idle" /\ fwErrors < MaxFwErrors
    /\ fwErrors' = fwErrors + 1
    /\ answered' = Len(sent)
    /\ count' = Len(outstandingCmd) /\ rx' = "counted"
    /\ UNCHANGED <<issued, outstandingCmd, aged, outstandingCtrlReq, sent,
                   blocked, blocks, lost, ages>>

RpuProcessPendingOperates ==
    /\ rx = "counted" /\ rx' = "pending"
    /\ outstandingCtrlReq' = count /\ count' = 0
    /\ UNCHANGED <<issued, outstandingCmd, aged, sent, answered, blocked,
                   blocks, lost, ages, fwErrors>>

RpuProcessPendingCmd ==
    /\ rx = "pending" /\ rx' = "idle"
    /\ UNCHANGED <<issued, answered, blocked, count, blocks, lost, ages,
                   fwErrors>>
    /\ ProcessPending(1, outstandingCtrlReq, outstandingCmd, sent)
    /\ aged' = Monus(aged, Len(outstandingCmd) - Len(outstandingCmd'))

-----------------------------------------------------------------------------
Progress == CommandProcDone \/ ResetComplete \/ UnblockAll
            \/ RpuProcessPendingOperates \/ RpuProcessPendingCmd

Next == RpuSend \/ Age \/ ProcDoneLost \/ BlockAll \/ FwError \/ Progress

Spec == Init /\ [][Next]_vars

\* The firmware answers commands and ends blocks, and the receive work runs;
\* no further command is assumed.
FairSpec == Spec /\ WF_vars(Progress)

-----------------------------------------------------------------------------
(* Properties.                                                             *)

TypeOK ==
    /\ issued \in 0 .. MaxCmds
    /\ outstandingCmd \in Seq(1 .. MaxCmds) /\ aged \in 0 .. Len(outstandingCmd)
    /\ outstandingCtrlReq \in Nat
    /\ sent \in Seq(1 .. MaxCmds) /\ answered \in 0 .. Len(sent)
    /\ blocked \in BOOLEAN /\ rx \in {"idle", "counted", "pending"}
    /\ count \in Nat
    /\ blocks \in 0 .. MaxBlocks /\ lost \in 0 .. MaxLost
    /\ ages \in 0 .. MaxAges /\ fwErrors \in 0 .. MaxFwErrors

\* Commands reach the HAL in the order they were issued, each exactly once,
\* through drains, releases, blocks and recoveries: what was sent and what is
\* queued are all commands in order.
CommandsInOrder == sent \o outstandingCmd = [i \in 1 .. issued |-> i]

\* The counter is what rpu_send says it is (rpu_if.c:807): the commands "sent
\* but still no proc_done / unsent due to pending requests".  A lost event
\* leaves its command counted, as the comment at rpu_if.c:812 fears; so it is
\* until the 300 ms check has run, in a session without blocks and errors.
CounterExact ==
    (rx = "idle" /\ ages = 0 /\ blocks = 0 /\ fwErrors = 0) =>
        outstandingCtrlReq = InFlight + lost + Len(outstandingCmd)

\* The firmware never has more commands than MAX_OUTSTANDING_CTRL_REQ, unless
\* the 300 ms check, a block or a firmware error has taken from the counter.
InFlightBounded ==
    (ages = 0 /\ blocks = 0 /\ fwErrors = 0) => InFlight =< MaxOutstanding

\* After lost events, a send finds the commands that waited over 300 ms and
\* releases at least one: the check mechanism of rpu_if.c:812-832 works.
AgedCommandsReleased ==
    [][(issued' > issued /\ aged > 0 /\ ~blocked) => Len(sent') > Len(sent)]_vars

\* No event was lost and the firmware made no error.
Undisturbed == lost = 0 /\ ages = 0 /\ fwErrors = 0

\* Every command issued is sent to the firmware in the end, also
\* when the firmware blocks the driver once and a reset or UNBLOCK_ALL ends it.
EveryCommandSent ==
    \A i \in 1 .. MaxCmds : issued >= i ~> (Len(sent) >= i \/ ~Undisturbed)
=============================================================================
