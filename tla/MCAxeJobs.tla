----------------------------- MODULE MCAxeJobs -----------------------------
(* Small instances of AxeJobs for TLC.                                     *)
EXTENDS AxeJobs

(* One extension that is longer than the lifetime, as in TestQueueExtend.  *)
MCExtensions == {[timeout |-> 5, lifetime |-> 2]}

=============================================================================
