--------------------------- MODULE UpdateProposals ---------------------------
(***************************************************************************)
(* What the pull request stage promises the people of a repository, about  *)
(* the updates of one target: an update is proposed once, and the stage    *)
(* withdraws a proposal only after it made one that supersedes it.         *)
(* Everything else that happens to a proposal is somebody's doing.         *)
(* PullRequests implements this, whatever crashes, is lost or is refused.  *)
(***************************************************************************)
EXTENDS Integers, Sequences

CONSTANTS
    Updates,    \* the updates of the target
    Supersedes  \* <<v, u>>: a proposal of v makes one of u needless

VARIABLES
    proposals,  \* proposals[u]: the states of the pull requests opened for u
    people      \* what people did so far, counted

vars == <<proposals, people>>

Init == proposals = [u \in Updates |-> <<>>] /\ people = 0

Propose(u) ==
    /\ proposals[u] = <<>>
    /\ proposals' = [proposals EXCEPT ![u] = <<"open">>]
    /\ people' = people

Withdraw(u) ==
    /\ proposals[u] = <<"open">>
    /\ \E v \in Updates : <<v, u>> \in Supersedes /\ proposals[v] # <<>>
    /\ proposals' = [proposals EXCEPT ![u] = <<"closed">>]
    /\ people' = people

(* Someone merges, closes or reopens, or does something else.               *)
Touch(u) ==
    /\ people' = people + 1
    /\ \/ proposals' = proposals
       \/ proposals[u] = <<"open">> /\ \E st \in {"merged", "closed"} : proposals' = [proposals EXCEPT ![u] = <<st>>]
       \/ proposals[u] = <<"closed">> /\ proposals' = [proposals EXCEPT ![u] = <<"open">>]

Next == \E u \in Updates : Propose(u) \/ Withdraw(u) \/ Touch(u)

Spec == Init /\ [][Next]_vars

=============================================================================
