-------------------------- MODULE MCRollingDeploy --------------------------
(* A small roll-out for TLC.                                               *)
EXTENDS RollingDeploy


Plain    == [newIssue |-> FALSE, retry |-> FALSE, tokens |-> {}]
NewIssue == [newIssue |-> TRUE,  retry |-> FALSE, tokens |-> {}]

PlainOrNew == {Plain, NewIssue}
NoPlace    == {Field!Nothing}
Overlap    == {"expire", "get", "duplicate", "sender"}
=============================================================================
