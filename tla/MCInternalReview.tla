-------------------------- MODULE MCInternalReview --------------------------
\* The instance of InternalReview that TLC checks: items and workers are
\* interchangeable.
EXTENDS InternalReview, TLC

Symmetry == Permutations(Item) \union Permutations(Worker)
=============================================================================
