------------------------------ MODULE MCAudit -------------------------------
(* Instance of Audit for TLC. *)
EXTENDS Audit

CONSTANTS t1, t2, k1, k2

\* A trail in which entry 1 and entry 2 are both first, as two concurrent
\* appends left it before the chain lock.
Forked == <<0, 0>>
=============================================================================
