----------------------------- MODULE MCApiKeys -----------------------------
(* Instances of ApiKeys for TLC.                                           *)
EXTENDS ApiKeys, TLC

CONSTANTS ann, bob, gh

NewLink(p, purpose) == [of |-> p, purpose |-> purpose, state |-> "live"]
Ask(p, id) == [of |-> p, identity |-> id, live |-> TRUE, by |-> NoPerson]
NewCode(p) == [of |-> p, state |-> "live"]

\* ann has a reset link in her mailbox, a merge pending and a recovery code;
\* bob has not verified his address yet.
Mailed == <<NewLink(ann, "reset"), NewLink(bob, "verify")>>
Asked == <<Ask(ann, gh)>>
OneCode == <<NewCode(ann)>>
NoKeys == <<>>

Slots == Permutations(Callers) \cup Permutations(Writers)
=============================================================================
