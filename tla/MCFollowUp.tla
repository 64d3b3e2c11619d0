----------------------------- MODULE MCFollowUp -----------------------------
\* The instance of FollowUp that TLC checks.
EXTENDS FollowUp, TLC

Perms == Permutations(Worker)
=============================================================================
