---------------------------- MODULE RelayProofs ----------------------------
(***************************************************************************)
(* Proofs about Relay, for any number of attempts.                         *)
(***************************************************************************)
EXTENDS Relay, TLAPS

(* What the relay may have let through.                                    *)
Admissible == Authentic(shape) /\ shape.message

(* A request is past the relay's checks, or its message was put on the     *)
(* queue, only if the activity passed them.                                *)
RInv ==
    /\ TypeOK
    /\ \A a \in Attempt : stage[a] = "admitted" => Admissible
    /\ \A a \in Attempt : phase[a] # "unposted" => Admissible

(* Where the relay's reading of the tenant is ours, the brain's is too.    *)
LEMMA SameTenant ==
    ASSUME NEW s \in Shape, TenantId(s) = "ours"
    PROVE  BrainTenantId(s) = "ours"
<1>1. CASE s.channelTenant = "none"
  BY <1>1 DEF TenantId, BrainTenantId
<1>2. CASE s.channelTenant # "none"
  <2>1. s.channelTenant = "ours"
    BY <1>2 DEF TenantId
  <2> QED
    BY <2>1 DEF BrainTenantId
<1> QED
  BY <1>1, <1>2

(* Of what the relay lets through, the brain drops only what has no sender.*)
LEMMA AdmissibleIsKept ==
    ASSUME shape \in Shape, Admissible, BrainDrops(shape)
    PROVE  ~ shape.sender
<1>1. shape.token /\ TenantId(shape) = "ours" /\ shape.teams /\ shape.message
  BY DEF Admissible, Authentic
<1>2. BrainTenantId(shape) = "ours"
  BY <1>1, SameTenant
<1> QED
  BY <1>1, <1>2 DEF BrainDrops

(* Nothing is posted at first.                                             *)
LEMMA InitInv == Init => RInv
<1> SUFFICES ASSUME Init PROVE RInv
  OBVIOUS
<1>1. TypeOK
  BY DEF Init, Queue!Init, TypeOK, Stage
<1> QED
  BY <1>1 DEF Init, Queue!Init, RInv

(* The activity a message stands for is one of the messages that carried   *)
(* it, or none.                                                            *)
LEMMA OwesType ==
    ASSUME TypeOK, NEW a \in Attempt
    PROVE  Owes(a) \in Attempt \cup {None}
<1>1. CASE BrainDrops(shape)
  BY <1>1 DEF Owes
<1>2. CASE ~ BrainDrops(shape) /\ ~ \E b \in Attempt : owed[b] # None
  BY <1>2 DEF Owes
<1>3. CASE ~ BrainDrops(shape) /\ \E b \in Attempt : owed[b] # None
  <2>1. PICK c \in Attempt : owed[c] # None
    BY <1>3
  <2>2. owed[c] \in Attempt
    BY <2>1 DEF TypeOK
  <2>3. \E b \in Attempt : \E d \in Attempt : owed[d] = b
    BY <2>2
  <2> QED
    BY <1>3, <2>3 DEF Owes
<1> QED
  BY <1>1, <1>2, <1>3

(* Every step keeps the invariant.  Only Admit lets a request past the     *)
(* checks, and only an admitted request puts a message on the queue.       *)
LEMMA StepInv == RInv /\ [Next]_vars => RInv'
<1> SUFFICES ASSUME RInv, [Next]_vars PROVE RInv'
  OBVIOUS
<1> USE DEF RInv, TypeOK, Stage, relayVars, queueVars
<1>1. ASSUME NEW a \in Attempt, Post(a) \/ Refuse(a) PROVE RInv'
  <2>1. shape' = shape /\ phase' = phase
    BY <1>1 DEF Post, Refuse
  <2>2. Admissible' = Admissible
    BY <2>1 DEF Admissible, Authentic
  <2> QED
    BY <1>1, <2>1, <2>2 DEF Post, Refuse, Moves
<1>2. ASSUME NEW a \in Attempt, Admit(a) PROVE RInv'
  <2>1. shape' = shape /\ phase' = phase
    BY <1>2 DEF Admit
  <2>2. Admissible' = Admissible
    BY <2>1 DEF Admissible, Authentic
  <2>3. stage' = [stage EXCEPT ![a] = IF shape.message THEN "admitted" ELSE "answering"]
    BY <1>2 DEF Admit, Moves
  <2>4. stage' \in [Attempt -> Stage]
    BY <2>3
  <2>5. ASSUME NEW b \in Attempt, stage'[b] = "admitted" PROVE Admissible
    <3>1. CASE b = a
      BY <1>2, <2>3, <2>5, <3>1 DEF Admit, Admissible
    <3>2. CASE b # a
      BY <2>3, <2>5, <3>2
    <3> QED
      BY <3>1, <3>2
  <2> QED
    BY <1>2, <2>1, <2>2, <2>4, <2>5 DEF Admit
<1>3. ASSUME NEW a \in Attempt, Enqueue(a) \/ EnqueueFails(a) PROVE RInv'
  <2>1. shape' = shape /\ accepted' = accepted
    BY <1>3 DEF Enqueue, EnqueueFails
  <2>2. Admissible' = Admissible
    BY <2>1 DEF Admissible, Authentic
  <2>3. /\ stage[a] = "admitted"
        /\ \E to \in {"answering", "refused"} : stage' = [stage EXCEPT ![a] = to]
    BY <1>3 DEF Enqueue, EnqueueFails, Moves
  <2>4. Admissible
    BY <2>3
  <2>5. Queue!Post(a, Owes(a)) \/ UNCHANGED queueVars
    BY <1>3 DEF Enqueue, EnqueueFails
  <2>6. /\ phase' \in [Attempt -> {"unposted", "pending", "done", "dead"}]
        /\ owed' \in [Attempt -> Attempt \cup {None}]
        /\ replied' \in SUBSET Attempt
    BY <2>5, OwesType DEF Queue!Post
  <2> QED
    BY <2>1, <2>2, <2>3, <2>4, <2>6
<1>4. ASSUME NEW a \in Attempt, Answer(a) \/ AnswerLost(a) PROVE RInv'
  <2>1. shape' = shape /\ phase' = phase
    BY <1>4 DEF Answer, AnswerLost
  <2>2. Admissible' = Admissible
    BY <2>1 DEF Admissible, Authentic
  <2> QED
    BY <1>4, <2>1, <2>2 DEF Answer, AnswerLost, Moves
<1>5. ASSUME NEW a \in Attempt, Queue!Reply(a) \/ Handled(a), UNCHANGED relayVars PROVE RInv'
  <2>1. Admissible' = Admissible
    BY <1>5 DEF Admissible, Authentic
  <2>2. /\ owed' = owed
        /\ \A b \in Attempt : phase[b] = "unposted" => phase'[b] = "unposted"
        /\ phase' \in [Attempt -> {"unposted", "pending", "done", "dead"}]
        /\ replied' \in SUBSET Attempt
    BY <1>5 DEF Handled, Queue!Reply, Queue!Settle, Queue!DeadLetter
  <2> QED
    BY <1>5, <2>1, <2>2
<1>6. CASE Crash
  <2>1. shape' = shape /\ phase' = phase
    BY <1>6 DEF Crash
  <2>2. Admissible' = Admissible
    BY <2>1 DEF Admissible, Authentic
  <2> QED
    BY <1>6, <2>1, <2>2 DEF Crash
<1>7. CASE UNCHANGED vars
  <2>1. Admissible' = Admissible
    BY <1>7 DEF vars, Admissible, Authentic
  <2> QED
    BY <1>7, <2>1 DEF vars
<1> QED
  BY <1>1, <1>2, <1>3, <1>4, <1>5, <1>6, <1>7 DEF Next

(* However often the Connector posts an activity and wherever the relay    *)
(* fails, a message it put on the queue is one the brain does not drop,    *)
(* unless it has no sender (relay/auth.py:48, brain/app.py:290-308).       *)
THEOREM RelayAndBrainAgree == Spec => []BrainAgrees
<1>1. RInv => BrainAgrees
  BY AdmissibleIsKept DEF RInv, TypeOK, BrainAgrees
<1>2. Spec => []RInv
  BY InitInv, StepInv, PTL DEF Spec
<1> QED
  BY <1>1, <1>2, PTL
-----------------------------------------------------------------------------
(* A 202 is on its way, or has arrived.                                    *)
Accepting == accepted \/ \E a \in Attempt : stage[a] = "answering"

(* The 202 for a message comes after the message was put on the queue,     *)
(* which stands for an activity to be replied to, and is only settled once *)
(* that was.                                                               *)
KInv ==
    /\ RInv
    /\ Accepting /\ shape.message => \E a \in Attempt : phase[a] # "unposted"
    /\ shape.sender => \A a \in Attempt : phase[a] # "unposted" => owed[a] # None
    /\ \A a \in Attempt : phase[a] = "done" => owed[a] \in replied \cup {None}

LEMMA OwesSomething ==
    ASSUME TypeOK, NEW a \in Attempt, ~ BrainDrops(shape)
    PROVE  Owes(a) # None
<1>1. CASE \E b \in Attempt : owed[b] # None
  <2>1. \E b \in Attempt : \E c \in Attempt : owed[c] = b
    BY <1>1 DEF TypeOK
  <2> QED
    BY <1>1, <2>1, RelayAssumption DEF Owes
<1>2. CASE ~ \E b \in Attempt : owed[b] # None
  BY <1>2, RelayAssumption DEF Owes
<1> QED
  BY <1>1, <1>2

LEMMA KeptInit == Init => KInv
BY InitInv DEF Init, Queue!Init, KInv, Accepting

(* A message put on the queue, by a send that was seen to succeed or not.  *)
LEMMA KeptPost ==
    ASSUME KInv, NEW a \in Attempt, stage[a] = "admitted", Queue!Post(a, Owes(a)),
           UNCHANGED shape
    PROVE  /\ phase'[a] # "unposted"
           /\ shape.sender => \A b \in Attempt : phase'[b] # "unposted" => owed'[b] # None
           /\ \A b \in Attempt : phase'[b] = "done" => owed'[b] \in replied' \cup {None}
<1>1. /\ phase' = [phase EXCEPT ![a] = "pending"] /\ replied' = replied
      /\ owed' = [owed EXCEPT ![a] = Owes(a)]
  BY DEF Queue!Post
<1>2. TypeOK /\ Admissible
  BY DEF KInv, RInv
<1>3. shape.sender => Owes(a) # None
  BY <1>2, AdmissibleIsKept, OwesSomething DEF TypeOK
<1> QED
  BY <1>1, <1>2, <1>3 DEF KInv, TypeOK

LEMMA KeptNext == KInv /\ [Next]_vars => KInv'
<1> SUFFICES ASSUME KInv, [Next]_vars PROVE KInv'
  OBVIOUS
<1>1. RInv /\ RInv' /\ TypeOK
  BY StepInv DEF KInv, RInv
<1>2. ASSUME UNCHANGED queueVars, UNCHANGED shape, Accepting' /\ shape.message => Accepting
      PROVE  KInv'
  BY <1>1, <1>2 DEF KInv, queueVars
<1>3. ASSUME NEW a \in Attempt, Post(a) \/ Refuse(a) PROVE KInv'
  <2>1. Accepting' => Accepting
    BY <1>1, <1>3 DEF Post, Refuse, Moves, Accepting, TypeOK
  <2> QED
    BY <1>2, <1>3, <2>1 DEF Post, Refuse
<1>4. ASSUME NEW a \in Attempt, Admit(a) PROVE KInv'
  <2>1. shape.message => stage' = [stage EXCEPT ![a] = "admitted"]
    BY <1>4 DEF Admit, Moves
  <2>2. Accepting' /\ shape.message => Accepting
    BY <1>1, <1>4, <2>1 DEF Admit, Accepting, TypeOK
  <2> QED
    BY <1>2, <1>4, <2>2 DEF Admit
<1>5. ASSUME NEW a \in Attempt, Enqueue(a) PROVE KInv'
  <2>1. stage[a] = "admitted" /\ Queue!Post(a, Owes(a)) /\ UNCHANGED shape
    BY <1>5 DEF Enqueue, Moves
  <2> QED
    BY <1>1, <2>1, KeptPost DEF KInv
<1>6. ASSUME NEW a \in Attempt, EnqueueFails(a) PROVE KInv'
  <2>1. /\ stage[a] = "admitted" /\ stage' = [stage EXCEPT ![a] = "refused"]
        /\ UNCHANGED <<shape, accepted>>
    BY <1>6 DEF EnqueueFails, Moves
  <2>2. Accepting' => Accepting
    BY <1>1, <2>1 DEF Accepting, TypeOK
  <2>3. CASE UNCHANGED queueVars
    BY <1>2, <2>1, <2>2, <2>3
  <2>4. CASE Queue!Post(a, Owes(a))
    BY <1>1, <2>1, <2>4, KeptPost DEF KInv
  <2> QED
    BY <1>6, <2>3, <2>4 DEF EnqueueFails
<1>7. ASSUME NEW a \in Attempt, Answer(a) \/ AnswerLost(a) PROVE KInv'
  <2>1. Accepting' => Accepting
    BY <1>1, <1>7 DEF Answer, AnswerLost, Moves, Accepting, TypeOK
  <2> QED
    BY <1>2, <1>7, <2>1 DEF Answer, AnswerLost
<1>8. ASSUME NEW a \in Attempt, Queue!Reply(a) \/ Handled(a), UNCHANGED relayVars PROVE KInv'
  <2>1. UNCHANGED <<shape, stage, accepted>> /\ Accepting' = Accepting
    BY <1>8 DEF relayVars, Accepting
  <2>2. /\ owed' = owed /\ replied \subseteq replied'
        /\ \A b \in Attempt : (phase'[b] = "unposted") <=> (phase[b] = "unposted")
    BY <1>1, <1>8 DEF Handled, Queue!Reply, Queue!Settle, Queue!DeadLetter, TypeOK
  <2>3. \A b \in Attempt : phase'[b] = "done" => phase[b] = "done" \/ owed[b] \in replied \cup {None}
    BY <1>1, <1>8 DEF Handled, Queue!Reply, Queue!Settle, Queue!DeadLetter, TypeOK
  <2> QED
    BY <1>1, <2>1, <2>2, <2>3 DEF KInv
<1>9. CASE Crash
  <2>1. Accepting' => Accepting
    BY <1>1, <1>9 DEF Crash, Accepting, TypeOK
  <2> QED
    BY <1>2, <1>9, <2>1 DEF Crash
<1>10. CASE UNCHANGED vars
  BY <1>2, <1>10 DEF vars, relayVars, Accepting
<1> QED
  BY <1>3, <1>4, <1>5, <1>6, <1>7, <1>8, <1>9, <1>10 DEF Next

(* What the Connector was told is accepted is never lost, however many     *)
(* attempts there were and whatever became of each: it was replied to, or  *)
(* waits in the queue, or was dead-lettered (relay/app.py:42-44).          *)
THEOREM AcceptedIsNeverLost == Spec => []AcceptedIsKept
<1>1. KInv => AcceptedIsKept
  BY DEF KInv, RInv, TypeOK, AcceptedIsKept, Accepting
<1> QED
  BY <1>1, KeptInit, KeptNext, PTL DEF Spec
=============================================================================
