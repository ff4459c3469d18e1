---------------------------- MODULE AtLeastOnce ----------------------------
(***************************************************************************)
(* What the relay, the queue and the brain promise together about an       *)
(* activity that was accepted: it is replied to at least once before it    *)
(* leaves the queue as handled, it may be replied to again at any time     *)
(* after, and it does not stay in the queue for ever.  How often it is     *)
(* delivered, to whom, and what happens to the process is left out.        *)
(***************************************************************************)
CONSTANTS Message, None

VARIABLES
    phase,    \* where each message is
    owed,     \* the activity each message asks a reply to, None if to none
    replied   \* the activities replied to

vars == <<phase, owed, replied>>

Init ==
    /\ phase = [m \in Message |-> "unposted"]
    /\ owed = [m \in Message |-> None]
    /\ replied = {}

(* A message enters the queue, and stands for an activity that needs a     *)
(* reply or for one that does not.                                         *)
Post(m, a) ==
    /\ phase[m] = "unposted"
    /\ phase' = [phase EXCEPT ![m] = "pending"]
    /\ owed' = [owed EXCEPT ![m] = a]
    /\ UNCHANGED replied

Reply(m) ==
    /\ owed[m] # None
    /\ replied' = replied \cup {owed[m]}
    /\ UNCHANGED <<phase, owed>>

(* It is taken off the queue as handled.                                   *)
Settle(m) ==
    /\ phase[m] = "pending"
    /\ owed[m] \in replied \cup {None}
    /\ phase' = [phase EXCEPT ![m] = "done"]
    /\ UNCHANGED <<owed, replied>>

(* It is given up.                                                         *)
DeadLetter(m) ==
    /\ phase[m] = "pending"
    /\ phase' = [phase EXCEPT ![m] = "dead"]
    /\ UNCHANGED <<owed, replied>>

Next ==
    \E m \in Message :
        \/ \E a \in Message \cup {None} : Post(m, a)
        \/ Reply(m) \/ Settle(m) \/ DeadLetter(m)

Spec ==
    /\ Init
    /\ [][Next]_vars
    /\ \A m \in Message : WF_vars(Settle(m) \/ DeadLetter(m))
=============================================================================
