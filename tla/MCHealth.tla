------------------------------- MODULE MCHealth -------------------------------
(* A small instance of the health monitor for TLC. *)
EXTENDS HealthMonitor, TLC

CONSTANTS e1, e2

TwoEndpoints == {e1, e2}

\* A head from the future, and one that is stale a moment after it was fetched.
Ages == {-1, 1}

Interchangeable == Permutations(Endpoints)

=============================================================================
