----------------------------- MODULE MCTxTokens -----------------------------
(***************************************************************************)
(* Small instances of TxTokens: the access categories background (0),      *)
(* voice (1) and beacon (2), one token reserved for each and one spare.    *)
(***************************************************************************)
EXTENDS TxTokens, TLC

\* Three voice frames of an A-MPDU session with station 0, the third to
\* another destination, a voice frame to station 1, and a background and a
\* beacon frame.
MixFrames  == 0 .. 5
MixAC      == <<1, 1, 1, 0, 2>> @@ (0 :> 1)
MixPeer    == [f \in MixFrames |-> IF f \in {3, 5} THEN 1 ELSE 0]
MixHwQueue == [f \in MixFrames |-> IF f = 4 THEN 0 ELSE 1]
MixAmpdu   == {0, 1, 2}
MixAddr    == [f \in MixFrames |-> IF f \in {3, 5} THEN "b"
                                   ELSE IF f = 2 THEN "c" ELSE "a"]

\* Three voice frames of an A-MPDU session and two background frames of one
\* station, for the run in which the firmware blocks the driver: a background
\* frame may hold the spare token, and voice is stopped until a token is done.
BlkFrames  == 0 .. 4
BlkAC      == [f \in BlkFrames |-> IF f > 2 THEN 0 ELSE 1]
BlkPeer    == [f \in BlkFrames |-> 0]
BlkHwQueue == BlkAC
BlkAmpdu   == {0, 1, 2}
BlkAddr    == [f \in BlkFrames |-> "a"]
=============================================================================
