----------------------------- MODULE MCAuthMail -----------------------------
\* Instances of AuthMail for TLC.
EXTENDS AuthMail, TLC

CONSTANTS ann, bob, s1, s2

Slots == Permutations({s1, s2})
=============================================================================
