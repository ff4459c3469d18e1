------------------------------- MODULE Brain -------------------------------
(***************************************************************************)
(* The brain: one process that takes activities from a Service Bus queue   *)
(* under a peek lock, runs the interview and the investigation for the     *)
(* user who sent them, keeps one row per user in Table Storage, and sends  *)
(* replies to Teams (brain/app.py, brain/state_store.py).                  *)
(*                                                                         *)
(* An action runs from one await of the code to the next, so that a crash, *)
(* a lost lock, an expiry or a newly queued message can fall between any   *)
(* two of the process's steps.  Texts, environments and users are members  *)
(* of small sets; what the model (the LLM) answers is any of its outcomes. *)
(***************************************************************************)
EXTENDS Naturals, SequencesExt, Lifecycle

CONSTANTS
    Message,      \* Service Bus messages; an activity bears the name of the
                  \* first message that carried it
    User,         \* users, hence rows of the interview table
    Text,         \* what users write
    Place,        \* values of the environment field, Nothing among them
    None,         \* Python's None
    MaxDelivery,  \* deliveries before Service Bus dead-letters (10)
    SeenMax,      \* _SEEN_ACTIVITY_IDS_MAX (4096)
    Faults        \* the faults that may happen, some of FaultKind

FaultKind ==
    { "sender",     \* a message activity has a sender without any id
      "crash",      \* the pod is killed or restarted
      "send",       \* a call to the Bot Connector raises
      "get",        \* reading the row raises
      "put",        \* writing the row raises
      "model",      \* a model call raises what its caller does not catch
      "settle",     \* completing or abandoning the message raises
      "lock",       \* the peek lock is lost under a running handler
      "expire",     \* the row outlives its TTL
      "duplicate" } \* the Connector posts an activity a second time

ASSUME BrainAssumption ==
    /\ None \notin Message
    /\ None \notin Place
    /\ Nothing \in Place
    /\ Place \subseteq Environment
    /\ Text \subseteq FreeText
    /\ MaxDelivery \in Nat \ {0}
    /\ SeenMax \in Nat \ {0}
    /\ Faults \subseteq FaultKind

VARIABLES
    body,       \* what each message carries, None before it is posted
    queue,      \* where each message is
    deliveries, \* Service Bus's delivery count of each message
    row,        \* the interview table
    sent,       \* the kinds of reply that reached Teams, per activity
    pc,         \* what the process does next
    cur,        \* the message it is handling
    try,        \* which delivery of cur that is: it stands for the lock token
    st,         \* its copy of the user's InterviewState
    seen        \* _seen_activity_ids, oldest first

queueVars   == <<body, queue, deliveries>>
processVars == <<pc, cur, try, st, seen>>
vars        == <<body, queue, deliveries, row, sent, pc, cur, try, st, seen>>

-----------------------------------------------------------------------------
(* Activities and interview states.                                        *)

(* An activity that passes the brain's re-validation is a text or a        *)
(* submitted form; "form" is the incident whose card was filled in.  One   *)
(* that passes it although its sender has no id is nameless.  Any other    *)
(* envelope is foreign: another audience, tenant, channel or type, or no   *)
(* sender at all.                                                          *)
TextBody    == [kind: {"text"}, id: Message, user: User, text: Text]
CardBody    == [kind: {"card"}, id: Message, user: User, form: Message, place: Place]
ForeignBody == [kind: {"foreign", "nameless"}, id: Message]
Body        == TextBody \cup CardBody \cup ForeignBody

Ours(m) == body[m].kind \in {"text", "card"}

Terminal == {"complete", "investigated"}

(* An InterviewState.  "inc" and "forms" are what the model adds to the    *)
(* code's fields: the activity that opened the incident, and the incidents *)
(* whose card answers were merged into this one.                           *)
Turn  == [role: {"user", "bot"}, act: Message]
State ==
    [ status:    {"absent", "interviewing"} \cup Terminal,
      turns:     Seq(Turn),
      place:     Place,
      summary:   Place \cup {None},
      cardSent:  BOOLEAN,
      started:   Message \cup {None},
      completed: Message \cup {None},
      inc:       Message \cup {None},
      forms:     SUBSET Message ]

(* No row, or one that has expired.                                        *)
Absent ==
    [ status |-> "absent", turns |-> <<>>, place |-> Nothing, summary |-> None,
      cardSent |-> FALSE, started |-> None, completed |-> None,
      inc |-> None, forms |-> {} ]

(* InterviewState(user_id), opened by activity a.                          *)
Fresh(a) == [Absent EXCEPT !.status = "interviewing", !.inc = a]

SummaryPlace(s) == IF s.summary = None THEN Nothing ELSE s.summary

-----------------------------------------------------------------------------
(* The replies the process sends, each at the step of its name, the        *)
(* writes of the row between them, and where each leads.                   *)

AfterSend ==
    [ intro         |-> "card",
      card          |-> "putCard",
      snag          |-> "finish",
      ask           |-> "putAsk",
      closing       |-> "summary",
      summary       |-> "putComplete",
      investigating |-> "investigate",
      invfail       |-> "finish",
      report        |-> "putReport",
      answer        |-> "finish",
      nudge         |-> "finish",
      stale         |-> "finish" ]

AfterPut ==
    [ putCard     |-> "finish",
      putSnag     |-> "snag",
      putAsk      |-> "finish",
      putComplete |-> "investigating",
      putReport   |-> "finish" ]

Kind == DOMAIN AfterSend
Step == Kind \cup DOMAIN AfterPut
        \cup {"idle", "check", "model", "investigate", "finish", "settle", "abandon"}

(* The reply that ends a turn: an activity has been answered when one of   *)
(* these was sent for it.                                                  *)
FinalKind == {"card", "snag", "ask", "invfail", "report", "answer", "nudge", "stale"}

Reply == [act: Message, kind: Kind]

Id       == body[cur].id
Stored   == row[body[cur].user]
Answered == {a \in Message : \E k \in FinalKind : [act |-> a, kind |-> k] \in sent}

(* The incidents whose intake card was shown to user u.                    *)
CardsShown(u) ==
    {a \in Message : [act |-> a, kind |-> "card"] \in sent /\ body[a].user = u}

HoldsLock == cur # None /\ queue[cur] = "locked" /\ deliveries[cur] = try

(* Where a message goes when its lock is given up.                         *)
Released(m) == IF deliveries[m] >= MaxDelivery THEN "dead" ELSE "ready"

(* _mark_seen: to the newest end, and the oldest falls out over the cap.   *)
MarkSeen(ids, a) ==
    LET kept  == IF a \in ToSet(ids)
                 THEN RemoveAt(ids, CHOOSE i \in DOMAIN ids : ids[i] = a)
                 ELSE ids
        moved == Append(kept, a)
    IN  IF Len(moved) > SeenMax THEN Tail(moved) ELSE moved

Goto(step) == pc' = step /\ UNCHANGED <<cur, try>>

(* store.put: an unconditional upsert.                                     *)
Put(s) == row' = [row EXCEPT ![body[cur].user] = s]

Init ==
    /\ body = [m \in Message |-> None]
    /\ queue = [m \in Message |-> "unposted"]
    /\ deliveries = [m \in Message |-> 0]
    /\ row = [u \in User |-> Absent]
    /\ sent = {}
    /\ pc = "idle"
    /\ cur = None
    /\ try = 0
    /\ st = Absent
    /\ seen = <<>>
-----------------------------------------------------------------------------
(* The queue and the table's clock.                                        *)

Post(m, b) ==
    /\ queue[m] = "unposted"
    /\ body' = [body EXCEPT ![m] = b]
    /\ queue' = [queue EXCEPT ![m] = "ready"]
    /\ UNCHANGED <<deliveries, row, sent, processVars>>

PostText(m, u, t) ==
    Post(m, [kind |-> "text", id |-> m, user |-> u, text |-> t])

(* A form may be submitted at any time after its card was shown, and more  *)
(* than once; Nothing stands for an environment left empty.                *)
PostCard(m, u, f, p) ==
    /\ f \in CardsShown(u)
    /\ Post(m, [kind |-> "card", id |-> m, user |-> u, form |-> f, place |-> p])

PostForeign(m) == Post(m, [kind |-> "foreign", id |-> m])

PostNameless(m) ==
    /\ "sender" \in Faults
    /\ Post(m, [kind |-> "nameless", id |-> m])

(* The relay's enqueue succeeded but its answer was lost: the Connector    *)
(* posts the activity again and the relay enqueues it again.               *)
PostAgain(m, n) ==
    /\ "duplicate" \in Faults
    /\ queue[n] # "unposted"
    /\ Post(m, body[n])

(* The lock of a message nobody handles any more, because the process died *)
(* or could not abandon it, runs out.                                      *)
OrphanLockExpires(m) ==
    /\ queue[m] = "locked"
    /\ ~ (cur = m /\ HoldsLock)
    /\ queue' = [queue EXCEPT ![m] = Released(m)]
    /\ UNCHANGED <<body, deliveries, row, sent, processVars>>

(* The lock is lost while the handler runs: renewal stopped after 600 s,   *)
(* or did not get through.                                                 *)
LockLost ==
    /\ "lock" \in Faults
    /\ HoldsLock
    /\ queue' = [queue EXCEPT ![cur] = Released(cur)]
    /\ UNCHANGED <<body, deliveries, row, sent, processVars>>

(* The row outlives expires_at: the next get treats it as absent.          *)
Expire(u) ==
    /\ "expire" \in Faults
    /\ row[u] # Absent
    /\ row' = [row EXCEPT ![u] = Absent]
    /\ UNCHANGED <<queueVars, sent, processVars>>
-----------------------------------------------------------------------------
(* The receive loop of main().                                             *)

Receive(m) ==
    /\ pc = "idle"
    /\ queue[m] = "ready"
    /\ queue' = [queue EXCEPT ![m] = "locked"]
    /\ deliveries' = [deliveries EXCEPT ![m] = @ + 1]
    /\ pc' = "check"
    /\ cur' = m
    /\ try' = deliveries'[m]
    /\ UNCHANGED <<body, row, sent, st, seen>>

(* Mutant of NextMessage: the locals of one message leak into the next.    *)
NextMessageKeepsLocals == pc' = "idle" /\ UNCHANGED <<cur, try, st>>

(* Back to the top of the loop; handle_envelope's locals are gone.         *)
NextMessage ==
    /\ pc' = "idle"
    /\ cur' = None
    /\ try' = 0
    /\ st' = Absent

Complete ==
    /\ pc = "settle"
    /\ HoldsLock
    /\ queue' = [queue EXCEPT ![cur] = "done"]
    /\ NextMessage
    /\ UNCHANGED <<body, deliveries, row, sent, seen>>

(* Mutant of CompleteFails: completing is tried again until it succeeds.   *)
CompleteFailsRetries ==
    /\ pc = "settle"
    /\ ~ HoldsLock
    /\ UNCHANGED vars

(* complete_message raises: the lock is lost, or the call failed before or *)
(* after it took effect.                                                   *)
CompleteFails ==
    /\ pc = "settle"
    /\ \/ ~ HoldsLock /\ UNCHANGED queue
       \/ /\ "settle" \in Faults
          /\ HoldsLock
          /\ queue' \in {queue, [queue EXCEPT ![cur] = "done"]}
    /\ Goto("abandon")
    /\ UNCHANGED <<body, deliveries, row, sent, st, seen>>

Abandon ==
    /\ pc = "abandon"
    /\ HoldsLock
    /\ queue' = [queue EXCEPT ![cur] = Released(cur)]
    /\ NextMessage
    /\ UNCHANGED <<body, deliveries, row, sent, seen>>

(* abandon_message raises too; main() logs it and goes on.                 *)
AbandonFails ==
    /\ pc = "abandon"
    /\ \/ ~ HoldsLock /\ UNCHANGED queue
       \/ /\ "settle" \in Faults
          /\ HoldsLock
          /\ queue' \in {queue, [queue EXCEPT ![cur] = Released(cur)]}
    /\ NextMessage
    /\ UNCHANGED <<body, deliveries, row, sent, seen>>

(* The pod dies and its replacement starts with an empty LRU.              *)
Crash ==
    /\ "crash" \in Faults
    /\ pc # "idle" \/ seen # <<>>
    /\ seen' = <<>>
    /\ NextMessage
    /\ UNCHANGED <<queueVars, row, sent>>
-----------------------------------------------------------------------------
(* handle_envelope: re-validation, deduplication, routing.                 *)

Drop ==
    /\ pc = "check"
    /\ body[cur].kind = "foreign"
    /\ Goto("settle")
    /\ UNCHANGED <<queueVars, row, sent, st, seen>>

(* _activity_user_id returns None: the table cannot look None up, and with *)
(* the in-memory store InterviewState(None) raises; the message is         *)
(* abandoned, each time it comes back.                                     *)
SenderUnknown ==
    /\ pc = "check"
    /\ body[cur].kind = "nameless"
    /\ Goto("abandon")
    /\ UNCHANGED <<queueVars, row, sent, st, seen>>

SkipSeen ==
    /\ pc = "check"
    /\ Ours(cur)
    /\ Id \in ToSet(seen)
    /\ Goto("settle")
    /\ UNCHANGED <<queueVars, row, sent, st, seen>>

Loading == pc = "check" /\ Ours(cur) /\ Id \notin ToSet(seen)

(* Mutant of GetFails: a failed read is taken for an absent row.           *)
GetFailsAsAbsent ==
    /\ "get" \in Faults
    /\ Loading
    /\ st' = [Fresh(Id) EXCEPT !.started = Id, !.turns = <<[role |-> "user", act |-> Id]>>]
    /\ Goto("intro")
    /\ UNCHANGED <<queueVars, row, sent, seen>>

GetFails ==
    /\ "get" \in Faults
    /\ Loading
    /\ Goto("abandon")
    /\ UNCHANGED <<queueVars, row, sent, st, seen>>

(* Mutants of CompletedBefore: it asks for the activity that was started,  *)
(* or the durable marker is not looked at.                                 *)
StartedBefore  == Stored # Absent /\ Stored.started = Id
NeverCompleted == FALSE

CompletedBefore == Stored # Absent /\ Stored.completed = Id

SkipCompleted ==
    /\ Loading
    /\ CompletedBefore
    /\ seen' = MarkSeen(seen, Id)
    /\ Goto("settle")
    /\ UNCHANGED <<queueVars, row, sent, st>>

IsCard == body[cur].kind = "card"

(* Mutant of StartsNewIncident: an unfinished interview is replaced too.   *)
StartsNewIncidentAnytime ==
    /\ ~ IsCard
    /\ IsNewIncident(body[cur].text, SummaryPlace(Stored), Stored.place)

StartsNewIncident ==
    /\ ~ IsCard
    /\ Stored.status \in Terminal
    /\ IsNewIncident(body[cur].text, SummaryPlace(Stored), Stored.place)

(* The state handle_envelope goes on with.                                 *)
Opened == IF Stored = Absent \/ StartsNewIncident THEN Fresh(Id) ELSE Stored

Handling == Loading /\ ~ CompletedBefore

(* The activity goes to the branch that begins at step, with s as state.   *)
Route(s, step) ==
    /\ st' = s
    /\ Goto(step)
    /\ UNCHANGED <<queueVars, row, sent, seen>>

RouteStale ==
    /\ Handling
    /\ IsCard
    /\ Opened.status \in Terminal
    /\ Route(Opened, "stale")

(* run_followup reads the state and changes nothing; a FollowupError only  *)
(* changes the wording of the answer.                                      *)
RouteFollowup ==
    /\ Handling
    /\ ~ IsCard
    /\ Opened.status = "investigated"
    /\ Route(Opened, "answer")

RouteRetry ==
    /\ Handling
    /\ ~ IsCard
    /\ Opened.status = "complete"
    /\ IsRetryRequest(body[cur].text)
    /\ Opened.summary # None
    /\ Route(Opened, "investigating")

RouteNudge ==
    /\ Handling
    /\ ~ IsCard
    /\ Opened.status = "complete"
    /\ ~ (IsRetryRequest(body[cur].text) /\ Opened.summary # None)
    /\ Route(Opened, "nudge")

(* The activity's user turn, and what a form fills in, added to the state. *)
Incorporate(s) ==
    LET turns == Append(s.turns, [role |-> "user", act |-> Id])
    IN  IF IsCard
        THEN [s EXCEPT !.started = Id,
                       !.turns = turns,
                       !.cardSent = TRUE,
                       !.place = IF body[cur].place = Nothing THEN @ ELSE body[cur].place,
                       !.forms = @ \cup {body[cur].form}]
        ELSE [s EXCEPT !.started = Id, !.turns = turns]

(* Mutant of Turned: a redelivered activity is incorporated once more.     *)
TurnedAgain == Incorporate(Opened)

(* What the turn works on: a redelivery of the last started activity       *)
(* resumes it, anything else is incorporated first.                        *)
Turned == IF Opened.started = Id THEN Opened ELSE Incorporate(Opened)

RouteInterview ==
    /\ Handling
    /\ Opened.status = "interviewing"
    /\ Route(Turned, IF Turned.cardSent THEN "model" ELSE "intro")
-----------------------------------------------------------------------------
(* _run_interview_turn, _run_investigation_step and _reply_once.           *)

Replied == sent' = sent \cup {[act |-> Id, kind |-> pc]}

Send ==
    /\ pc \in Kind
    /\ Replied
    /\ st' = IF pc = "card" THEN [st EXCEPT !.cardSent = TRUE] ELSE st
    /\ Goto(AfterSend[pc])
    /\ UNCHANGED <<queueVars, row, seen>>

(* The exception leaves process_proactive; Teams may have had the message. *)
SendFails ==
    /\ "send" \in Faults
    /\ pc \in Kind
    /\ Replied \/ UNCHANGED sent
    /\ Goto("abandon")
    /\ UNCHANGED <<queueVars, row, st, seen>>

Save ==
    /\ pc \in DOMAIN AfterPut
    /\ Put(st)
    /\ Goto(AfterPut[pc])
    /\ UNCHANGED <<queueVars, sent, st, seen>>

(* The durable marker of _reply_once, on top of whatever the turn left.    *)
Marked == [st EXCEPT !.completed = Id]

(* Mutant of Finish: the activity is not entered in the LRU.               *)
FinishUnseen ==
    /\ pc = "finish"
    /\ Put(Marked)
    /\ st' = Marked
    /\ Goto("settle")
    /\ UNCHANGED <<queueVars, sent, seen>>

Finish ==
    /\ pc = "finish"
    /\ Put(Marked)
    /\ seen' = MarkSeen(seen, Id)
    /\ st' = Marked
    /\ Goto("settle")
    /\ UNCHANGED <<queueVars, sent>>

(* A put raises; the table may have been written.                          *)
PutFails ==
    /\ "put" \in Faults
    /\ pc \in DOMAIN AfterPut \cup {"finish"}
    /\ \/ UNCHANGED row
       \/ Put(IF pc = "finish" THEN Marked ELSE st)
    /\ Goto("abandon")
    /\ UNCHANGED <<queueVars, sent, st, seen>>

(* run_turn raises InterviewerError: keep the turn, apologise once.        *)
ModelFails ==
    /\ pc = "model"
    /\ Goto("putSnag")
    /\ UNCHANGED <<queueVars, row, sent, st, seen>>

(* run_turn answers: it returns the whole intake form, and its own words   *)
(* join the transcript.                                                    *)
Answer(p) ==
    [st EXCEPT !.place = p, !.turns = Append(@, [role |-> "bot", act |-> Id])]

ModelAsks(p) ==
    /\ pc = "model"
    /\ st' = Answer(p)
    /\ Goto("ask")
    /\ UNCHANGED <<queueVars, row, sent, seen>>

(* Mutant of ModelCompletes: the row is written before the user is told.   *)
ModelCompletesSavesFirst(p, q) ==
    /\ pc = "model"
    /\ st' = [Answer(p) EXCEPT !.status = "complete", !.summary = q]
    /\ Goto("putComplete")
    /\ UNCHANGED <<queueVars, row, sent, seen>>

ModelCompletes(p, q) ==
    /\ pc = "model"
    /\ st' = [Answer(p) EXCEPT !.status = "complete", !.summary = q]
    /\ Goto("closing")
    /\ UNCHANGED <<queueVars, row, sent, seen>>

(* run_investigation raises InvestigationError: one apology, no write.     *)
InvestigationFails ==
    /\ pc = "investigate"
    /\ Goto("invfail")
    /\ UNCHANGED <<queueVars, row, sent, st, seen>>

InvestigationReports ==
    /\ pc = "investigate"
    /\ st' = [st EXCEPT !.status = "investigated"]
    /\ Goto("report")
    /\ UNCHANGED <<queueVars, row, sent, seen>>

(* Anything else that running the interview, the investigation or the      *)
(* answer to a follow-up raises leaves the callback.                       *)
ModelRaises ==
    /\ "model" \in Faults
    /\ pc \in {"model", "investigate", "answer"}
    /\ Goto("abandon")
    /\ UNCHANGED <<queueVars, row, sent, st, seen>>
-----------------------------------------------------------------------------
Environ ==
    \/ \E m \in Message :
          \/ \E u \in User, t \in Text : PostText(m, u, t)
          \/ \E u \in User, f \in Message, p \in Place : PostCard(m, u, f, p)
          \/ PostForeign(m) \/ PostNameless(m)
          \/ \E n \in Message : PostAgain(m, n)
          \/ OrphanLockExpires(m)
    \/ LockLost
    \/ \E u \in User : Expire(u)

Process ==
    \/ \E m \in Message : Receive(m)
    \/ Complete \/ CompleteFails \/ Abandon \/ AbandonFails
    \/ Drop \/ SenderUnknown \/ SkipSeen \/ GetFails \/ SkipCompleted
    \/ RouteStale \/ RouteFollowup \/ RouteRetry \/ RouteNudge \/ RouteInterview
    \/ Send \/ SendFails \/ Save \/ Finish \/ PutFails
    \/ ModelFails \/ ModelRaises
    \/ \E p \in Place : ModelAsks(p) \/ \E q \in Place : ModelCompletes(p, q)
    \/ InvestigationFails \/ InvestigationReports

(* Every message settled, and the receiver waits for the next.             *)
Quiet ==
    /\ pc = "idle"
    /\ \A m \in Message : queue[m] \in {"done", "dead"}
    /\ UNCHANGED vars

Next == Environ \/ Process \/ Crash \/ Quiet

(* The process goes on as long as its pod lives, and Service Bus frees the *)
(* locks nobody holds.  Nothing is assumed of users, of crashes, of lost   *)
(* locks or of expiries.                                                   *)
Fairness == WF_vars(Process) /\ \A m \in Message : WF_vars(OrphanLockExpires(m))

Spec     == Init /\ [][Next]_vars
FairSpec == Spec /\ Fairness
-----------------------------------------------------------------------------
(* Properties.                                                             *)

TypeOK ==
    /\ body \in [Message -> Body \cup {None}]
    /\ queue \in [Message -> {"unposted", "ready", "locked", "done", "dead"}]
    /\ deliveries \in [Message -> Nat]
    /\ row \in [User -> State]
    /\ sent \in SUBSET Reply
    /\ pc \in Step
    /\ cur \in Message \cup {None}
    /\ try \in Nat
    /\ st \in State
    /\ seen \in Seq(Message)
    /\ \A m \in Message : queue[m] # "unposted" => body[m] \in Body
    /\ pc = "idle" <=> cur = None
    /\ cur # None => queue[cur] # "unposted"

(* No message leaves the queue as handled unless its activity was          *)
(* answered: what the peek lock is for (app.py:153, "redelivered rather    *)
(* than lost"), whatever fails, and whichever duplicate is skipped as      *)
(* already seen or already completed.                                      *)
SettledIsAnswered ==
    \A m \in Message : queue[m] = "done" /\ Ours(m) => body[m].id \in Answered

(* The table never claims what the user was not told: a row exists only    *)
(* once its user was shown the form, or had submitted one; a complete      *)
(* interview's summary reached them in the turn that ends the transcript;  *)
(* an investigated one's report reached them.                              *)
ToldBeforeRecorded ==
    \A u \in User :
        /\ row[u] # Absent =>
              row[u].cardSent /\ (row[u].forms # {} \/ row[u].inc \in CardsShown(u))
        /\ row[u].status \in Terminal =>
              [act |-> Last(row[u].turns).act, kind |-> "summary"] \in sent
        /\ row[u].status = "investigated" =>
              \E r \in sent : r.kind = "report" /\ body[r.act].user = u

UserTurns(s) == {i \in DOMAIN s.turns : s.turns[i].role = "user"}

(* The transcript a redelivery resumes from is sound: its first turn is    *)
(* the activity that opened the incident, last_started is the newest of    *)
(* its user turns, and no activity's turn is repeated unless another       *)
(* activity's came in between (app.py:389-394).                            *)
ResumeSound ==
    \A u \in User : row[u] # Absent =>
        LET s == row[u] IN
        /\ s.turns # <<>> /\ s.turns[1] = [role |-> "user", act |-> s.inc]
        /\ \E i \in UserTurns(s) : /\ s.turns[i].act = s.started
                                   /\ \A j \in UserTurns(s) : j <= i
        /\ \A i, j \in UserTurns(s) : i < j /\ s.turns[i].act = s.turns[j].act =>
              \E k \in UserTurns(s) : i < k /\ k < j /\ s.turns[k].act # s.turns[i].act

Rank(s) == CASE s.status = "interviewing" -> 1
             [] s.status = "complete"     -> 2
             [] s.status = "investigated" -> 3

(* s2 is s1 further on in the same incident.                               *)
Continues(s1, s2) ==
    /\ s2.inc = s1.inc
    /\ IsPrefix(s1.turns, s2.turns)
    /\ Rank(s1) <= Rank(s2)
    /\ s1.status \in Terminal => s2.summary = s1.summary /\ s2.place = s1.place
    /\ s1.forms \subseteq s2.forms

(* What a handled activity may do to a row: move it on within its         *)
(* incident, or, by a text that names a new incident, replace one that is  *)
(* finished.                                                               *)
MovesOn(u) ==
    \/ Continues(row[u], row'[u])
    \/ /\ row[u].status \in Terminal
       /\ body[cur].kind = "text"
       /\ IsNewIncident(body[cur].text, SummaryPlace(row[u]), row[u].place)
       /\ row'[u].inc = Id
       /\ Len(row'[u].turns) = 1

(* Nothing of an interview is lost or overwritten, and its status never    *)
(* goes back: a durable row only moves on, or its TTL runs out             *)
(* (app.py:334-347).                                                       *)
RowEvolves ==
    [][\A u \in User : row'[u] # row[u] =>
          row[u] = Absent \/ row'[u] = Absent \/ MovesOn(u)]_vars

(* While a row's durable marker names an activity, no delivery of that     *)
(* activity sends anything (app.py:327-332, 271-272).                      *)
MarkerHonoured == pc \in Kind => Stored.completed # Id

(* Without a restart, a failed call or an eviction, a user gets each reply *)
(* to an activity once, though its lock be lost, its completion fail, or   *)
(* the Connector post it twice.                                            *)
SentOnce == pc \in Kind => [act |-> Id, kind |-> pc] \notin sent

(* The brain and its queue keep the promise of AtLeastOnce: every message  *)
(* posted is in the end settled, and then its activity was answered, or    *)
(* dead-lettered; none is redelivered forever, and none is left to a lock  *)
(* nobody holds.                                                           *)
Promise == INSTANCE AtLeastOnce WITH
    phase   <- [m \in Message |-> IF queue[m] \in {"ready", "locked"}
                                  THEN "pending" ELSE queue[m]],
    owed    <- [m \in Message |-> IF queue[m] # "unposted" /\ Ours(m)
                                  THEN body[m].id ELSE None],
    replied <- Answered

KeepsPromise == Promise!Spec
=============================================================================
