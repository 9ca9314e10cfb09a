------------------------- MODULE MCTenantLifecycle -------------------------
EXTENDS TenantLifecycle, TLC
CONSTANTS t1, w1, r1, r2
OneTenant == {t1}
OneWorker == {w1}
TwoRequests == {r1, r2}
\* A PUT may ask for any number, a control message only for a positive one.
MinusOneAndOne == {-1, 1}
\* No property tells one request from another.
Symmetry == Permutations(TwoRequests)
=============================================================================
