---------------------------- MODULE MCWorkerLease ----------------------------
(* Small instances of WorkerLease for TLC. *)
EXTENDS WorkerLease

\* A tick within the lease, and one that lasts longer than it.
ShortAndLong == {1, TTL + 1}
===============================================================================
