--------------------------- MODULE RecordConsensus ---------------------------
(***************************************************************************)
(* What ADR 0021 promises of a record: people cast and withdraw votes, and  *)
(* the record's status changes in one indivisible step, only along the      *)
(* transition matrix, only when the standing votes meet a threshold of that *)
(* matrix, consuming the votes that triggered it; a record hidden for       *)
(* privacy does not come back before the cooldown has elapsed.              *)
(*                                                                         *)
(* There are no requests, reads or writes here: CommunityActions is the     *)
(* handler that has to provide this.                                        *)
(***************************************************************************)
EXTENDS Integers, FiniteSets, FiniteSetsExt

CONSTANTS Cameras, Contributors, NoVote, Start, Weights,
          Matrix,           \* sequence of rules [from, trigger, to, sum, distinct]
          Cooldown, Never

Actions == {"like", "confirm", "gone", "problem", "privacy"}

VARIABLES
    status,       \* status of each record
    votes,        \* votes[cam][c]: the vote of c standing on cam, or NoVote
    withdrawnAt,  \* when cam was last hidden, if that was for privacy; or Never
    now

vars == <<status, votes, withdrawnAt, now>>

Voters(cam, t) == {c \in Contributors : votes[cam][c] # NoVote /\ votes[cam][c].type = t}
Sum(cam, t) == SumFunction([c \in Voters(cam, t) |-> votes[cam][c].weight])

Init ==
    /\ status = Start
    /\ votes = [cam \in Cameras |-> [c \in Contributors |-> NoVote]]
    /\ withdrawnAt = [cam \in Cameras |-> Never]
    /\ now = 0

Vote(cam, c) ==
    /\ status[cam] # "demo"
    /\ \E t \in Actions, w \in Weights :
         votes' = [votes EXCEPT ![cam][c] = [type |-> t, weight |-> w]]
    /\ UNCHANGED <<status, withdrawnAt, now>>

Withdraw(cam, c) ==
    /\ votes' = [votes EXCEPT ![cam][c] = NoVote]
    /\ UNCHANGED <<status, withdrawnAt, now>>

Forget(c) ==
    /\ votes' = [cam \in Cameras |-> [votes[cam] EXCEPT ![c] = NoVote]]
    /\ UNCHANGED <<status, withdrawnAt, now>>

\* A transition is dated when the vote that completed it was cast.
Settle(cam, rule, at) ==
    /\ status[cam] = rule.from
    /\ Cardinality(Voters(cam, rule.trigger)) >= rule.distinct
    /\ Sum(cam, rule.trigger) >= rule.sum
    /\ rule.from = "hidden" /\ rule.to = "active" =>
         withdrawnAt[cam] = Never \/ at - withdrawnAt[cam] >= Cooldown
    /\ status' = [status EXCEPT ![cam] = rule.to]
    /\ votes' = [votes EXCEPT ![cam] =
                   [c \in Contributors |->
                      IF c \in Voters(cam, rule.trigger) THEN NoVote ELSE @[c]]]
    /\ withdrawnAt' = [withdrawnAt EXCEPT ![cam] =
                         IF rule.to # "hidden" THEN @
                         ELSE IF rule.trigger = "privacy" THEN at ELSE Never]
    /\ UNCHANGED now

Pass == now' = now + 1 /\ UNCHANGED <<status, votes, withdrawnAt>>

Next ==
    \/ \E cam \in Cameras, c \in Contributors : Vote(cam, c) \/ Withdraw(cam, c)
    \/ \E c \in Contributors : Forget(c)
    \/ \E cam \in Cameras, i \in DOMAIN Matrix, at \in 0..now : Settle(cam, Matrix[i], at)
    \/ Pass

Spec == Init /\ [][Next]_vars
=============================================================================
