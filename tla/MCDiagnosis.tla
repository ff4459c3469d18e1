---------------------------- MODULE MCDiagnosis ----------------------------
(* Two targets that share a job number and one tool besides Jenkins's.     *)
EXTENDS Diagnosis, TLC

CONSTANT job

Colliding == [t \in Target |-> job]
Symmetry  == Permutations(Call)
=============================================================================
