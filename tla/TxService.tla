----------------------------- MODULE TxService -----------------------------
(***************************************************************************)
(* What the transmit path promises mac80211, whatever tokens it uses: a    *)
(* submitted frame waits, is held by the firmware path, comes back and is  *)
(* reported, and never goes back or skips the firmware; frames of one flow *)
(* are taken in the order they came; the firmware path never holds more    *)
(* than Capacity frames.                                                   *)
(***************************************************************************)
EXTENDS Integers, FiniteSets

CONSTANTS Frames,    \* numbered in order of arrival within a flow
          Flow,      \* Flow[f]: the flow of a frame
          Capacity   \* frames held at once

VARIABLE stage       \* stage[f]: how far the frame is

Stages == {"new", "queued", "held", "back", "reported"}

\* The moves of one frame in one step; a new frame may be taken at once.
Moves == {<<"new", "queued">>, <<"new", "held">>, <<"queued", "held">>,
          <<"held", "back">>, <<"back", "reported">>}

Taken(s) == s \notin {"new", "queued"}

TypeOK == stage \in [Frames -> Stages]

Init == stage = [f \in Frames |-> "new"]

\* Several frames may move in one step: a finished token is refilled at once.
Next ==
    /\ stage' \in [Frames -> Stages]
    /\ \A f \in Frames : stage'[f] = stage[f] \/ <<stage[f], stage'[f]>> \in Moves
    /\ \A f, g \in Frames : (f < g /\ Flow[f] = Flow[g] /\ Taken(stage'[g]))
                              => Taken(stage'[f])
    /\ Cardinality({f \in Frames : stage'[f] = "held"}) =< Capacity

Spec == Init /\ [][Next]_stage
=============================================================================
