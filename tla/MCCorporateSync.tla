--------------------------- MODULE MCCorporateSync ---------------------------
\* The instances of CorporateSync that TLC checks: two directorates, a
\* department of the first and its unit, all active, with codes of their own.
\* The runners are interchangeable.
EXTENDS CorporateSync, TLC

CONSTANTS d1, d2, p1, u1, a, b

Active(code, under) == [code |-> code, under |-> under, active |-> TRUE]
OneLoad == {[r \in Record |-> CASE r = d1 -> Active(a, None)
                                [] r = d2 -> Active(b, None)
                                [] r = p1 -> Active(a, d1)
                                [] r = u1 -> Active(a, p1)]}

Symmetry == Permutations(Runner)
=============================================================================
