------------------------------ MODULE MCBrain ------------------------------
(* Small instances of Brain for TLC.                                       *)
EXTENDS BrainClaims

Plain    == [newIssue |-> FALSE, retry |-> FALSE, tokens |-> {}]
NewIssue == [newIssue |-> TRUE,  retry |-> FALSE, tokens |-> {}]
Retry    == [newIssue |-> FALSE, retry |-> TRUE,  tokens |-> {}]
SaysProd == [newIssue |-> FALSE, retry |-> FALSE, tokens |-> {"production"}]

Staging == [blank |-> FALSE, tokens |-> {"staging"}]

JustPlain     == {Plain}
PlainOrNew    == {Plain, NewIssue}
EveryText     == {Plain, NewIssue, Retry, SaysProd}
NoPlace       == {Nothing}
SomePlace     == {Nothing, Staging}
NoFaults      == {}
EveryFault    == FaultKind
Restarts      == {"crash"}
Redeliveries  == {"duplicate", "lock", "settle"}
Setbacks      == {"crash", "lock", "settle", "sender"}

Symmetry == Permutations(Message)
=============================================================================
