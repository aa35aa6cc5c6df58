----------------------------- MODULE MCCmdQueue -----------------------------
(***************************************************************************)
(* Small instances of CmdQueue.                                            *)
(***************************************************************************)
EXTENDS CmdQueue

\* A later command is a reset: the interface is taken down.
FourthIsReset == {4}
=============================================================================
