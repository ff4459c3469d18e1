------------------------------- MODULE Relay -------------------------------
(***************************************************************************)
(* The way of one activity from the Bot Connector through the relay into   *)
(* the queue: relay/app.py, relay/auth.py, relay/queue_client.py.  The     *)
(* relay handles requests concurrently and keeps nothing between them, so  *)
(* that activities do not meet in it; several attempts to deliver the same *)
(* activity do.                                                            *)
(*                                                                         *)
(* Behind the queue is the brain, of which nothing is used but what it     *)
(* promises (AtLeastOnce, which Brain is shown to implement) and its own   *)
(* re-validation.  An attempt puts at most one message on the queue, which *)
(* bears its name.                                                         *)
(***************************************************************************)
EXTENDS Naturals

CONSTANTS
    Attempt,  \* requests the Connector may send for the activity
    None

ASSUME RelayAssumption == None \notin Attempt

VARIABLES
    shape,    \* the activity, as far as it is looked at
    stage,    \* where each request is
    accepted, \* whether the Connector was told 202
    phase, owed, replied  \* queue and brain, as in AtLeastOnce

relayVars == <<shape, stage, accepted>>
queueVars == <<phase, owed, replied>>
vars      == <<relayVars, queueVars>>

Queue == INSTANCE AtLeastOnce WITH Message <- Attempt

Tenant == {"ours", "theirs", "none"}

(* What an activity looks like to the checks: whether the body is an       *)
(* activity at all, whether its token proves the Connector sent it to this *)
(* bot, the tenants named in channelData and in the conversation, whether  *)
(* it came through Teams, whether it is a message, and whether it has a    *)
(* sender.                                                                 *)
Shape ==
    [ json: BOOLEAN, token: BOOLEAN, channelTenant: Tenant, conversationTenant: Tenant,
      teams: BOOLEAN, message: BOOLEAN, sender: BOOLEAN ]

Stage == {"unsent", "received", "admitted", "answering", "refused", "over"}

(* The tenant a claim is checked against: channelData's, if it names one.  *)
TenantId(s) == IF s.channelTenant # "none" THEN s.channelTenant ELSE s.conversationTenant

(* Mutant of Authentic: a conversation's tenant is not looked at.          *)
AuthenticByChannelData(s) == s.token /\ s.channelTenant # "theirs" /\ s.teams

(* authenticate: the SDK accepts the token, and the activity is pinned to  *)
(* the tenant and the channel.                                             *)
Authentic(s) == s.token /\ TenantId(s) = "ours" /\ s.teams

(* handle_envelope's _activity_tenant_id, which looks at the same fields.  *)
BrainTenantId(s) ==
    CASE s.channelTenant \in {"ours", "theirs"} -> s.channelTenant
      [] s.channelTenant = "none"               -> s.conversationTenant

(* What handle_envelope drops.  The claims it finds in the envelope are    *)
(* those of a token the SDK accepted, whose audience is this bot.          *)
BrainDrops(s) ==
    ~ s.token \/ BrainTenantId(s) # "ours" \/ ~ s.teams \/ ~ s.message \/ ~ s.sender

Init ==
    /\ shape \in Shape
    /\ stage = [a \in Attempt |-> "unsent"]
    /\ accepted = FALSE
    /\ Queue!Init

Moves(a, from, to) ==
    /\ stage[a] = from
    /\ stage' = [stage EXCEPT ![a] = to]
-----------------------------------------------------------------------------
(* The Connector posts the activity, and again when it got no answer in    *)
(* time or another than 202; an earlier request may still be running.      *)
Post(a) ==
    /\ ~ accepted
    /\ Moves(a, "unsent", "received")
    /\ UNCHANGED <<shape, accepted, queueVars>>

(* messages: a malformed body is 400; a failed validation, of the token's  *)
(* signature as of anything else, for a reason of the activity's or of the *)
(* network's, is 401.                                                      *)
Refuse(a) ==
    /\ Moves(a, "received", "refused")
    /\ UNCHANGED <<shape, accepted, queueVars>>

(* Mutant of Admit: a message is accepted before it is enqueued.           *)
AdmitAtOnce(a) ==
    /\ shape.json /\ Authentic(shape)
    /\ Moves(a, "received", "answering")
    /\ UNCHANGED <<shape, accepted, queueVars>>

(* Anything but a message is acknowledged and dropped.                     *)
Admit(a) ==
    /\ shape.json /\ Authentic(shape)
    /\ Moves(a, "received", IF shape.message THEN "admitted" ELSE "answering")
    /\ UNCHANGED <<shape, accepted, queueVars>>

(* The activity a message stands for bears the name of the first message   *)
(* that carried it.                                                        *)
Owes(a) ==
    IF BrainDrops(shape) THEN None
    ELSE IF \E b \in Attempt : owed[b] # None
         THEN CHOOSE b \in Attempt : \E c \in Attempt : owed[c] = b
         ELSE a

Enqueue(a) ==
    /\ Moves(a, "admitted", "answering")
    /\ Queue!Post(a, Owes(a))
    /\ UNCHANGED <<shape, accepted>>

(* Mutant of EnqueueFails: the exception is logged and 202 answered.       *)
EnqueueFailsUnnoticed(a) ==
    /\ Moves(a, "admitted", "answering")
    /\ Queue!Post(a, Owes(a)) \/ UNCHANGED queueVars
    /\ UNCHANGED <<shape, accepted>>

(* send_messages raises, and aiohttp answers 500: the message may be in    *)
(* the queue.                                                              *)
EnqueueFails(a) ==
    /\ Moves(a, "admitted", "refused")
    /\ Queue!Post(a, Owes(a)) \/ UNCHANGED queueVars
    /\ UNCHANGED <<shape, accepted>>

(* A 202 reaches the Connector.                                            *)
Answer(a) ==
    /\ Moves(a, "answering", "over")
    /\ accepted' = TRUE
    /\ UNCHANGED <<shape, queueVars>>

(* An answer does not get through, or is none that ends the delivery.      *)
AnswerLost(a) ==
    /\ stage[a] \in {"answering", "refused"}
    /\ Moves(a, stage[a], "over")
    /\ UNCHANGED <<shape, accepted, queueVars>>

(* The relay's pod is replaced, and every request it was handling is lost. *)
Crash ==
    /\ stage' = [a \in Attempt |-> IF stage[a] = "unsent" THEN "unsent" ELSE "over"]
    /\ UNCHANGED <<shape, accepted, queueVars>>

(* Queue and brain do what they promise.                                   *)
Handled(a) == Queue!Settle(a) \/ Queue!DeadLetter(a)

Next ==
    \/ \E a \in Attempt :
          \/ Post(a) \/ Refuse(a) \/ Admit(a) \/ Enqueue(a) \/ EnqueueFails(a)
          \/ Answer(a) \/ AnswerLost(a)
          \/ Queue!Reply(a) /\ UNCHANGED relayVars
          \/ Handled(a) /\ UNCHANGED relayVars
    \/ Crash

(* AtLeastOnce's own fairness; nothing is assumed of the relay, which may  *)
(* stop anywhere, or of the Connector.                                     *)
Fairness == \A a \in Attempt : WF_vars(Handled(a) /\ UNCHANGED relayVars)

Spec     == Init /\ [][Next]_vars
FairSpec == Spec /\ Fairness
-----------------------------------------------------------------------------
(* Properties.                                                             *)

TypeOK ==
    /\ shape \in Shape
    /\ stage \in [Attempt -> Stage]
    /\ accepted \in BOOLEAN
    /\ phase \in [Attempt -> {"unposted", "pending", "done", "dead"}]
    /\ owed \in [Attempt -> Attempt \cup {None}]
    /\ replied \in SUBSET Attempt

(* The relay and the brain judge an activity by rules written twice, in    *)
(* different processes.  They agree: what the relay enqueues the brain     *)
(* does not drop, unless it has no sender, which only the brain asks for   *)
(* (relay/auth.py:50-53, brain/app.py:290-308).                            *)
BrainAgrees ==
    BrainDrops(shape) /\ (\E a \in Attempt : phase[a] # "unposted") => ~ shape.sender

(* What the Connector was told is accepted, and will not post again, is    *)
(* never lost, though the answers to some attempts were, the sends of      *)
(* others failed, and the relay died among them: it was replied to, or a   *)
(* message of it is in the queue or dead-lettered (relay/app.py:42-44).    *)
AcceptedIsKept ==
    accepted /\ shape.message /\ shape.sender =>
        replied # {} \/ \E a \in Attempt : phase[a] \in {"pending", "dead"}

(* A message the Connector was told is accepted, and will not post again,  *)
(* is answered in the end or dead-lettered, wherever the relay failed      *)
(* before and however often the message was queued.                        *)
AcceptedIsHandled ==
    accepted /\ shape.message /\ shape.sender
        ~> replied # {} \/ \E a \in Attempt : phase[a] = "dead"
=============================================================================
