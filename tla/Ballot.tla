------------------------------ MODULE Ballot ------------------------------
(***************************************************************************)
(* What stable storage promises about votes.  Every voter stands in one    *)
(* ballot and has made at most one choice in it.  It may move to a later   *)
(* ballot, with any choice or none, or make its first choice in the one it *)
(* stands in.  It never goes back, and never makes a second choice.        *)
(***************************************************************************)
EXTENDS Naturals

CONSTANTS Voter, NoChoice
VARIABLES ballot, choice

Init ==
    /\ ballot = [v \in Voter |-> 0]
    /\ choice = [v \in Voter |-> NoChoice]

Advance(v) == ballot'[v] > ballot[v]

Choose(v) == ballot'[v] = ballot[v] /\ choice[v] = NoChoice

OthersStay(v) ==
    \A u \in Voter \ {v} : ballot'[u] = ballot[u] /\ choice'[u] = choice[u]

Next == \E v \in Voter : (Advance(v) \/ Choose(v)) /\ OthersStay(v)

Spec == Init /\ [][Next]_<<ballot, choice>>
===========================================================================
