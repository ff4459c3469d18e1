---------------------------- MODULE BrainProofs ----------------------------
(***************************************************************************)
(* Proofs about Brain, for every number of messages and users, every cap   *)
(* and every set of faults: its types, that nothing leaves the queue       *)
(* unanswered, that the durable marker is honoured, and that every step is *)
(* one that AtLeastOnce allows.  That a message is settled in the end      *)
(* needs fairness, and is left to TLC.                                     *)
(***************************************************************************)
EXTENDS Brain, SequenceTheorems, TLAPS

(* What _mark_seen leaves in the LRU: ids that were there, and the new one *)
(* (app.py:161-165).                                                       *)
LEMMA MarkSeenType ==
    ASSUME NEW ids \in Seq(Message), NEW a \in Message
    PROVE  /\ MarkSeen(ids, a) \in Seq(Message)
           /\ ToSet(MarkSeen(ids, a)) \subseteq ToSet(ids) \cup {a}
<1> DEFINE at    == CHOOSE i \in DOMAIN ids : ids[i] = a
           front == SubSeq(ids, 1, at - 1)
           back  == SubSeq(ids, at + 1, Len(ids))
           kept  == IF a \in ToSet(ids) THEN RemoveAt(ids, at) ELSE ids
           moved == Append(kept, a)
<1>1. kept \in Seq(Message) /\ ToSet(kept) \subseteq ToSet(ids)
  <2>1. CASE a \notin ToSet(ids)
    BY <2>1
  <2>2. CASE a \in ToSet(ids)
    <3>1. at \in 1 .. Len(ids)
      BY <2>2 DEF ToSet
    <3> HIDE DEF at
    <3>2. at \in Nat \ {0} /\ at <= Len(ids) /\ Len(ids) \in Nat
      BY <3>1
    <3>3. \A i \in 1 .. Len(ids) : ids[i] \in Message
      OBVIOUS
    <3>4. front \in Seq(Message) /\ Len(front) = at - 1
      <4>1. \A i \in 1 .. at - 1 : ids[i] \in Message
        BY <3>2, <3>3
      <4>2. at - 1 \in Int /\ 1 \in Int
        BY <3>2
      <4> QED
        BY <3>2, <4>1, <4>2, SubSeqProperties
    <3>5. \A i \in 1 .. at - 1 : front[i] = ids[i]
      BY <3>2, <3>3
    <3>6. back \in Seq(Message) /\ Len(back) = Len(ids) - at
      <4>1. \A i \in at + 1 .. Len(ids) : ids[i] \in Message
        BY <3>2, <3>3
      <4>2. at + 1 \in Int /\ Len(ids) \in Int
        BY <3>2
      <4> QED
        BY <3>2, <4>1, <4>2, SubSeqProperties
    <3>7. \A i \in 1 .. Len(ids) - at : back[i] = ids[at + i]
      BY <3>2, <3>3
    <3> HIDE DEF front, back
    <3>8. kept = front \o back
      BY <2>2 DEF RemoveAt, front, back
    <3>9. /\ front \o back \in Seq(Message)
          /\ Len(front \o back) = Len(front) + Len(back)
          /\ \A i \in 1 .. Len(front) + Len(back) :
                (front \o back)[i] = IF i <= Len(front) THEN front[i] ELSE back[i - Len(front)]
      BY <3>4, <3>6, ConcatProperties
    <3>10. \A i \in 1 .. Len(ids) : ids[i] \in ToSet(ids)
      BY DEF ToSet
    <3>11. ASSUME NEW i \in 1 .. Len(front \o back)
           PROVE  (front \o back)[i] \in ToSet(ids)
      <4>1. CASE i <= Len(front)
        BY <4>1, <3>2, <3>4, <3>5, <3>6, <3>9, <3>10
      <4>2. CASE i > Len(front)
        <5>1. i - Len(front) \in 1 .. Len(ids) - at
          BY <4>2, <3>2, <3>4, <3>6, <3>9
        <5>2. at + (i - Len(front)) \in 1 .. Len(ids)
          BY <5>1, <3>2
        <5>3. (front \o back)[i] = ids[at + (i - Len(front))]
          BY <4>2, <5>1, <3>4, <3>6, <3>7, <3>9
        <5> QED
          BY <5>2, <5>3, <3>10
      <4> QED
        BY <4>1, <4>2, <3>4
    <3>12. DOMAIN (front \o back) = 1 .. Len(front \o back)
      BY <3>9
    <3>13. ToSet(front \o back) \subseteq ToSet(ids)
      BY <3>11, <3>12 DEF ToSet
    <3> QED
      BY <3>8, <3>9, <3>13
  <2> QED
    BY <2>1, <2>2
<1> HIDE DEF kept
<1>2. moved \in Seq(Message) /\ ToSet(moved) \subseteq ToSet(ids) \cup {a}
  BY <1>1 DEF ToSet
<1>3. Len(moved) > 0
  BY <1>1
<1> HIDE DEF moved
<1>4. Tail(moved) \in Seq(Message) /\ ToSet(Tail(moved)) \subseteq ToSet(moved)
  BY <1>2, <1>3 DEF ToSet
<1>5. MarkSeen(ids, a) = IF Len(moved) > SeenMax THEN Tail(moved) ELSE moved
  BY DEF MarkSeen, moved, kept
<1> QED
  BY <1>2, <1>4, <1>5

-----------------------------------------------------------------------------
(* The states handle_envelope works on are InterviewStates.                *)

LEMMA AbsentType == Absent \in State
<1>1. Nothing \in Place /\ <<>> \in Seq(Turn)
  BY BrainAssumption
<1> QED
  BY <1>1 DEF Absent, State, Terminal

LEMMA FreshType == ASSUME NEW a \in Message PROVE Fresh(a) \in State
BY AbsentType DEF Fresh, State

(* What the activity in hand is, in a state that is well typed.            *)
LEMMA InHand ==
    ASSUME TypeOK, pc # "idle"
    PROVE  /\ cur \in Message
           /\ body[cur] \in Body
           /\ Id \in Message
           /\ Ours(cur) => /\ body[cur].user \in User
                           /\ Stored \in State
                           /\ body[cur].kind \in {"text", "card"}
           /\ body[cur].kind = "text" => body[cur].text \in Text
           /\ body[cur].kind = "card" => /\ body[cur].form \in Message
                                         /\ body[cur].place \in Place
<1>1. cur \in Message /\ body[cur] \in Body
  BY DEF TypeOK
<1> QED
  BY <1>1 DEF TypeOK, Body, TextBody, CardBody, ForeignBody, Id, Ours, Stored

LEMMA OpenedType ==
    ASSUME TypeOK, pc # "idle", Ours(cur)
    PROVE  Opened \in State
BY InHand, FreshType DEF Opened

LEMMA TurnType ==
    ASSUME NEW a \in Message, NEW turns \in Seq(Turn), NEW who \in {"user", "bot"}
    PROVE  Append(turns, [role |-> who, act |-> a]) \in Seq(Turn)
BY DEF Turn

LEMMA TurnedType ==
    ASSUME TypeOK, pc # "idle", Ours(cur)
    PROVE  Turned \in State
<1>1. Opened \in State /\ Id \in Message
  BY OpenedType, InHand
<1>2. Append(Opened.turns, [role |-> "user", act |-> Id]) \in Seq(Turn)
  BY <1>1, TurnType DEF State
<1>3. Incorporate(Opened) \in State
  <2>1. CASE IsCard
    <3>1. body[cur].form \in Message /\ body[cur].place \in Place
      BY <2>1, InHand DEF IsCard
    <3> DEFINE place == IF body[cur].place = Nothing THEN Opened.place ELSE body[cur].place
               forms == Opened.forms \cup {body[cur].form}
               turns == Append(Opened.turns, [role |-> "user", act |-> Id])
    <3>2. place \in Place /\ forms \in SUBSET Message
      BY <1>1, <3>1 DEF State
    <3>3. Incorporate(Opened) =
            [Opened EXCEPT !.started = Id, !.turns = turns, !.cardSent = TRUE,
                           !.place = place, !.forms = forms]
      BY <2>1 DEF Incorporate
    <3> HIDE DEF place, forms, turns
    <3>4. turns \in Seq(Turn)
      BY <1>2 DEF turns
    <3> QED
      BY <1>1, <3>2, <3>3, <3>4 DEF State
  <2>2. CASE ~ IsCard
    BY <2>2, <1>1, <1>2 DEF Incorporate, State
  <2> QED
    BY <2>1, <2>2
<1> QED
  BY <1>1, <1>3 DEF Turned

LEMMA AnswerType ==
    ASSUME TypeOK, pc # "idle", NEW p \in Place
    PROVE  Answer(p) \in State
<1>1. st \in State /\ Id \in Message
  BY InHand DEF TypeOK
<1>2. Append(st.turns, [role |-> "bot", act |-> Id]) \in Seq(Turn)
  BY <1>1, TurnType DEF State
<1> QED
  BY <1>1, <1>2 DEF Answer, State

-----------------------------------------------------------------------------
(* Type correctness.                                                       *)

LEMMA InitType == Init => TypeOK
BY AbsentType DEF Init, TypeOK, Step, Kind

(* Every step the process can be at, written out.                          *)
LEMMA Steps ==
    /\ Kind = {"intro", "card", "snag", "ask", "closing", "summary", "investigating",
               "invfail", "report", "answer", "nudge", "stale"}
    /\ DOMAIN AfterPut = {"putCard", "putSnag", "putAsk", "putComplete", "putReport"}
    /\ \A k \in Kind : AfterSend[k] \in Step \ {"idle"}
    /\ \A k \in DOMAIN AfterPut : AfterPut[k] \in Step \ {"idle"}
    /\ {"check", "model", "investigate", "finish", "settle", "abandon"} \subseteq Step
BY DEF Kind, AfterSend, AfterPut, Step

(* The actions of the queue and of the clock keep the types.               *)
LEMMA EnvironType == ASSUME TypeOK, Environ PROVE TypeOK'
<1>1. ASSUME NEW m \in Message, NEW b \in Body, Post(m, b) PROVE TypeOK'
  <2>1. queue' \in [Message -> {"unposted", "ready", "locked", "done", "dead"}]
    BY <1>1 DEF TypeOK, Post
  <2>2. body' \in [Message -> Body \cup {None}]
    BY <1>1 DEF TypeOK, Post
  <2>3. \A n \in Message : queue'[n] # "unposted" => body'[n] \in Body
    BY <1>1 DEF TypeOK, Post
  <2>4. cur # None => queue'[cur] # "unposted"
    BY <1>1 DEF TypeOK, Post
  <2> QED
    BY <1>1, <2>1, <2>2, <2>3, <2>4 DEF TypeOK, Post, processVars
<1>2. ASSUME NEW m \in Message, NEW u \in User, NEW t \in Text, PostText(m, u, t)
      PROVE  TypeOK'
  <2>1. [kind |-> "text", id |-> m, user |-> u, text |-> t] \in Body
    BY DEF Body, TextBody
  <2> QED
    BY <1>1, <1>2, <2>1 DEF PostText
<1>3. ASSUME NEW m \in Message, NEW u \in User, NEW f \in Message, NEW p \in Place,
             PostCard(m, u, f, p)
      PROVE  TypeOK'
  <2>1. [kind |-> "card", id |-> m, user |-> u, form |-> f, place |-> p] \in Body
    BY DEF Body, CardBody
  <2> QED
    BY <1>1, <1>3, <2>1 DEF PostCard
<1>4. ASSUME NEW m \in Message, PostForeign(m) \/ PostNameless(m) PROVE TypeOK'
  <2>1. /\ [kind |-> "foreign", id |-> m] \in Body
        /\ [kind |-> "nameless", id |-> m] \in Body
    BY DEF Body, ForeignBody
  <2> QED
    BY <1>1, <1>4, <2>1 DEF PostForeign, PostNameless
<1>5. ASSUME NEW m \in Message, NEW n \in Message, PostAgain(m, n) PROVE TypeOK'
  <2>1. body[n] \in Body
    BY <1>5 DEF TypeOK, PostAgain
  <2> QED
    BY <1>1, <1>5, <2>1 DEF PostAgain
<1>6. ASSUME NEW m \in Message, OrphanLockExpires(m) PROVE TypeOK'
  BY <1>6 DEF TypeOK, OrphanLockExpires, Released, processVars
<1>7. CASE LockLost
  BY <1>7 DEF TypeOK, LockLost, HoldsLock, Released, processVars
<1>8. ASSUME NEW u \in User, Expire(u) PROVE TypeOK'
  BY <1>8, AbsentType DEF TypeOK, Expire, queueVars, processVars
<1> QED
  BY <1>2, <1>3, <1>4, <1>5, <1>6, <1>7, <1>8 DEF Environ

LEMMA PutType ==
    ASSUME TypeOK, NEW s \in State, Put(s)
    PROVE  row' \in [User -> State]
BY DEF TypeOK, Put, State

LEMMA MarkedType == ASSUME TypeOK, pc # "idle" PROVE Marked \in State
BY InHand DEF TypeOK, Marked, State

(* Every action of the process keeps the types.                            *)
LEMMA ProcessType == ASSUME TypeOK, Process PROVE TypeOK'
<1> USE DEF queueVars
<1>1. ASSUME NEW m \in Message, Receive(m) PROVE TypeOK'
  <2>1. try' \in Nat /\ deliveries' \in [Message -> Nat]
    BY <1>1 DEF TypeOK, Receive
  <2>2. queue' \in [Message -> {"unposted", "ready", "locked", "done", "dead"}]
    BY <1>1 DEF TypeOK, Receive
  <2>3. \A n \in Message : queue'[n] # "unposted" => queue[n] # "unposted"
    BY <1>1 DEF TypeOK, Receive
  <2>4. cur' \in Message /\ queue'[cur'] # "unposted" /\ cur' # None
    BY <1>1, BrainAssumption DEF TypeOK, Receive
  <2> QED
    BY <1>1, <2>1, <2>2, <2>3, <2>4, Steps DEF TypeOK, Receive
<1>2. CASE Complete
  BY <1>2, AbsentType DEF TypeOK, Complete, NextMessage, HoldsLock, Step
<1>3. CASE CompleteFails
  BY <1>3, Steps DEF TypeOK, CompleteFails, Goto, HoldsLock
<1>4. CASE Abandon
  BY <1>4, AbsentType DEF TypeOK, Abandon, NextMessage, HoldsLock, Released, Step
<1>5. CASE AbandonFails
  BY <1>5, AbsentType DEF TypeOK, AbandonFails, NextMessage, HoldsLock, Released, Step
<1>6. CASE Drop \/ SenderUnknown
  BY <1>6, Steps DEF TypeOK, Drop, SenderUnknown, Goto
<1>7. CASE SkipSeen
  BY <1>7, Steps DEF TypeOK, SkipSeen, Goto
<1>8. CASE GetFails
  BY <1>8, Steps DEF TypeOK, GetFails, Loading, Goto
<1>9. CASE SkipCompleted
  <2>1. seen' \in Seq(Message)
    BY <1>9, InHand, MarkSeenType DEF TypeOK, SkipCompleted, Loading
  <2> QED
    BY <1>9, <2>1, Steps DEF TypeOK, SkipCompleted, Loading, Goto
<1>10. ASSUME NEW s \in State, NEW step \in Step \ {"idle"}, Handling, Route(s, step)
       PROVE  TypeOK'
  BY <1>10 DEF TypeOK, Route, Handling, Loading, Goto
<1>11. CASE RouteStale
  BY <1>11, <1>10, OpenedType, Steps DEF RouteStale, Handling, Loading, Step
<1>12. CASE RouteFollowup
  BY <1>12, <1>10, OpenedType, Steps DEF RouteFollowup, Handling, Loading, Step
<1>13. CASE RouteRetry
  BY <1>13, <1>10, OpenedType, Steps DEF RouteRetry, Handling, Loading, Step
<1>14. CASE RouteNudge
  BY <1>14, <1>10, OpenedType, Steps DEF RouteNudge, Handling, Loading, Step
<1>15. CASE RouteInterview
  BY <1>15, <1>10, TurnedType, Steps DEF RouteInterview, Handling, Loading, Step
<1>16. CASE Send
  <2>1. st' \in State
    BY <1>16 DEF TypeOK, Send, State
  <2>2. sent' \in SUBSET Reply
    BY <1>16, InHand, Steps DEF TypeOK, Send, Replied, Reply
  <2>3. pc' \in Step \ {"idle"} /\ pc # "idle"
    BY <1>16, Steps DEF Send, Goto
  <2> QED
    BY <1>16, <2>1, <2>2, <2>3 DEF TypeOK, Send, Goto
<1>17. CASE SendFails
  <2>1. sent' \in SUBSET Reply
    BY <1>17, InHand, Steps DEF TypeOK, SendFails, Replied, Reply
  <2> QED
    BY <1>17, <2>1, Steps DEF TypeOK, SendFails, Goto
<1>18. CASE Save
  <2>1. row' \in [User -> State]
    BY <1>18, PutType DEF TypeOK, Save
  <2>2. pc' \in Step \ {"idle"} /\ pc # "idle"
    BY <1>18, Steps DEF Save, Goto
  <2> QED
    BY <1>18, <2>1, <2>2 DEF TypeOK, Save, Goto
<1>19. CASE Finish
  <2>1. Marked \in State
    BY <1>19, MarkedType DEF Finish
  <2>2. row' \in [User -> State]
    BY <1>19, <2>1, PutType DEF Finish
  <2>3. seen' \in Seq(Message)
    BY <1>19, InHand, MarkSeenType DEF TypeOK, Finish
  <2> QED
    BY <1>19, <2>1, <2>2, <2>3, Steps DEF TypeOK, Finish, Goto
<1>20. CASE PutFails
  <2>1. pc # "idle"
    BY <1>20, Steps DEF PutFails
  <2>2. (IF pc = "finish" THEN Marked ELSE st) \in State
    BY <2>1, MarkedType DEF TypeOK
  <2>3. row' \in [User -> State]
    BY <1>20, <2>2, PutType DEF TypeOK, PutFails
  <2> QED
    BY <1>20, <2>1, <2>3, Steps DEF TypeOK, PutFails, Goto
<1>21. CASE ModelFails
  BY <1>21, Steps DEF TypeOK, ModelFails, Goto, Step
<1>22. CASE ModelRaises
  BY <1>22, Steps DEF TypeOK, ModelRaises, Goto
<1>23. ASSUME NEW p \in Place, ModelAsks(p) PROVE TypeOK'
  BY <1>23, AnswerType, Steps DEF TypeOK, ModelAsks, Goto, Step
<1>24. ASSUME NEW p \in Place, NEW q \in Place, ModelCompletes(p, q) PROVE TypeOK'
  <2>1. st' \in State
    BY <1>24, AnswerType DEF TypeOK, ModelCompletes, State, Terminal
  <2> QED
    BY <1>24, <2>1, Steps DEF TypeOK, ModelCompletes, Goto, Step
<1>25. CASE InvestigationFails
  BY <1>25, Steps DEF TypeOK, InvestigationFails, Goto, Step
<1>26. CASE InvestigationReports
  <2>1. st' \in State
    BY <1>26 DEF TypeOK, InvestigationReports, State, Terminal
  <2> QED
    BY <1>26, <2>1, Steps DEF TypeOK, InvestigationReports, Goto, Step
<1> QED
  BY <1>1, <1>2, <1>3, <1>4, <1>5, <1>6, <1>7, <1>8, <1>9, <1>11, <1>12, <1>13, <1>14,
     <1>15, <1>16, <1>17, <1>18, <1>19, <1>20, <1>21, <1>22, <1>23, <1>24, <1>25, <1>26
     DEF Process

LEMMA NextType == ASSUME TypeOK, [Next]_vars PROVE TypeOK'
<1>1. CASE Crash
  BY <1>1, AbsentType DEF TypeOK, Crash, NextMessage, queueVars, Step
<1>2. CASE UNCHANGED vars
  BY <1>2 DEF TypeOK, vars
<1> QED
  BY <1>1, <1>2, EnvironType, ProcessType DEF Next, Quiet

(* Whatever the caps and the faults, every variable keeps its type: the    *)
(* process handles one posted message at a time, and the states it loads,  *)
(* changes and writes back are InterviewStates.                            *)
THEOREM TypeCorrect == Spec => []TypeOK
BY InitType, NextType, PTL DEF Spec

-----------------------------------------------------------------------------
(* No message is settled unanswered.  Whatever lets a later delivery skip  *)
(* an activity (the LRU, the durable marker, the copy of the row that will *)
(* be written back) names answered activities only; and so does the        *)
(* process's place in a turn, once its last reply is out.                  *)

ToldSteps == {"putCard", "putAsk", "putReport", "finish"}

AnsweredInv ==
    /\ TypeOK
    /\ pc \in ToldSteps => Id \in Answered
    /\ pc = "settle" /\ Ours(cur) => Id \in Answered
    /\ ToSet(seen) \subseteq Answered
    /\ \A u \in User : row[u].completed \in Answered \cup {None}
    /\ st.completed \in Answered \cup {None}
    /\ SettledIsAnswered

LEMMA AbsentCompleted == Absent.completed = None /\ Absent.status = "absent"
BY DEF Absent

LEMMA FreshCompleted == ASSUME NEW a PROVE Fresh(a).completed = None
BY DEF Fresh, Absent

(* Which steps follow the last reply of a turn.                            *)
LEMMA Replies ==
    /\ FinalKind \subseteq Kind
    /\ \A k \in Kind : AfterSend[k] \in ToldSteps => k \in FinalKind
    /\ \A k \in DOMAIN AfterPut : AfterPut[k] \in ToldSteps => k \in ToldSteps
    /\ \A k \in Kind : AfterSend[k] # "settle"
    /\ \A k \in DOMAIN AfterPut : AfterPut[k] # "settle"
    /\ ToldSteps \cap Kind = {}
BY DEF FinalKind, Kind, AfterSend, AfterPut, ToldSteps

(* What Incorporate and Opened leave of the durable marker.                *)
LEMMA OpenedCompleted ==
    ASSUME AnsweredInv, pc # "idle", Ours(cur)
    PROVE  /\ Opened.completed \in Answered \cup {None}
           /\ Turned.completed \in Answered \cup {None}
<1>1. Opened \in State /\ body[cur].user \in User
  BY OpenedType, InHand DEF AnsweredInv
<1>2. Opened.completed \in Answered \cup {None}
  BY <1>1, FreshCompleted DEF Opened, Stored, AnsweredInv
<1>3. Turned.completed = Opened.completed
  BY <1>1 DEF Turned, Incorporate, State
<1> QED
  BY <1>2, <1>3

LEMMA AnsweredInit == Init => AnsweredInv
<1> SUFFICES ASSUME Init PROVE AnsweredInv
  OBVIOUS
<1>1. ToSet(seen) = {}
  BY DEF Init, ToSet
<1> QED
  BY <1>1, InitType, AbsentCompleted
     DEF Init, AnsweredInv, SettledIsAnswered, ToldSteps

(* A step that sends nothing, ends nothing and writes nothing keeps it.    *)
LEMMA AnsweredQuiet ==
    ASSUME AnsweredInv, TypeOK', UNCHANGED <<sent, row, seen>>,
           \A m \in Message : queue'[m] = "done" /\ queue[m] # "done" =>
                                  m = cur /\ pc = "settle" /\ cur # None,
           \A m \in Message : queue[m] # "unposted" => body'[m] = body[m],
           \A m \in Message : queue'[m] = "done" => queue[m] # "unposted",
           st'.completed \in Answered \cup {None},
           \/ pc' \notin ToldSteps \cup {"settle"}
           \/ UNCHANGED <<pc, cur>>
           \/ pc' = "settle" /\ (Ours(cur) => Id \in Answered) /\ cur' = cur /\ cur \in Message
    PROVE  AnsweredInv'
<1>1. Answered' = Answered
  BY DEF Answered
<1>2. cur \in Message => body'[cur] = body[cur]
  BY BrainAssumption DEF AnsweredInv, TypeOK
<1>3. SettledIsAnswered'
  <2> SUFFICES ASSUME NEW m \in Message, queue'[m] = "done", Ours(m)'
               PROVE  body'[m].id \in Answered'
    BY DEF SettledIsAnswered
  <2>1. body'[m] = body[m]
    OBVIOUS
  <2>2. CASE queue[m] = "done"
    BY <2>1, <2>2, <1>1 DEF AnsweredInv, SettledIsAnswered, Ours
  <2>3. CASE queue[m] # "done"
    BY <2>1, <2>3, <1>1 DEF AnsweredInv, Ours, Id
  <2> QED
    BY <2>2, <2>3
<1>4. /\ pc' \in ToldSteps => Id' \in Answered'
      /\ pc' = "settle" /\ Ours(cur)' => Id' \in Answered'
  <2>1. CASE pc' \notin ToldSteps \cup {"settle"}
    BY <2>1
  <2>2. CASE UNCHANGED <<pc, cur>>
    <3>1. pc \in ToldSteps \cup {"settle"} => cur \in Message
      BY DEF AnsweredInv, TypeOK, ToldSteps
    <3> QED
      BY <2>2, <3>1, <1>1, <1>2 DEF AnsweredInv, Id, Ours, ToldSteps
  <2>3. CASE pc' = "settle" /\ (Ours(cur) => Id \in Answered) /\ cur' = cur /\ cur \in Message
    BY <2>3, <1>1, <1>2 DEF Id, Ours, ToldSteps
  <2> QED
    BY <2>1, <2>2, <2>3
<1> QED
  BY <1>1, <1>3, <1>4 DEF AnsweredInv

(* A reply adds to what was answered, and its turn may end with it.        *)
LEMMA AnsweredGrows == sent \subseteq sent' => Answered \subseteq Answered'
BY DEF Answered

LEMMA AnsweredSend ==
    ASSUME AnsweredInv, TypeOK', Send \/ SendFails
    PROVE  AnsweredInv'
<1>1. Answered \subseteq Answered'
  BY AnsweredGrows DEF Send, SendFails, Replied
<1>2. pc # "idle" /\ cur' = cur /\ body' = body /\ queue' = queue
  BY Steps DEF Send, SendFails, Goto, queueVars
<1>3. Id' = Id /\ Id \in Message
  BY <1>2, InHand DEF Id, AnsweredInv
<1>4. pc' \in ToldSteps => Id' \in Answered'
  <2>1. CASE Send
    <3>1. pc' \in ToldSteps => pc \in FinalKind
      BY <2>1, Replies DEF Send, Goto
    <3>2. [act |-> Id, kind |-> pc] \in sent'
      BY <2>1 DEF Send, Replied
    <3> QED
      BY <3>1, <3>2, <1>3 DEF Answered
  <2>2. CASE SendFails
    BY <2>2 DEF SendFails, Goto, ToldSteps
  <2> QED
    BY <2>1, <2>2
<1>5. pc' # "settle"
  BY Replies DEF Send, SendFails, Goto
<1>6. st'.completed = st.completed
  BY DEF Send, SendFails, AnsweredInv, TypeOK, State
<1>7. SettledIsAnswered'
  BY <1>1, <1>2 DEF AnsweredInv, SettledIsAnswered, Ours
<1> QED
  BY <1>1, <1>4, <1>5, <1>6, <1>7 DEF Send, SendFails, AnsweredInv

(* A write stores a marker that names an answered activity.                *)
LEMMA AnsweredPut ==
    ASSUME AnsweredInv, NEW s \in State, s.completed \in Answered \cup {None},
           UNCHANGED sent, Put(s) \/ UNCHANGED row
    PROVE  \A u \in User : row'[u].completed \in Answered' \cup {None}
<1>1. Answered' = Answered
  BY DEF Answered
<1>2. row \in [User -> State]
  BY DEF AnsweredInv, TypeOK
<1> QED
  BY <1>1, <1>2 DEF AnsweredInv, Put

LEMMA AnsweredSave ==
    ASSUME AnsweredInv, TypeOK', Save \/ Finish \/ PutFails
    PROVE  AnsweredInv'
<1>1. Answered' = Answered /\ cur' = cur /\ body' = body /\ queue' = queue
  BY DEF Answered, Save, Finish, PutFails, Goto, queueVars
<1>2. pc # "idle" /\ Id' = Id /\ Id \in Message
  BY <1>1, Steps, InHand DEF Id, AnsweredInv, Save, Finish, PutFails
<1>3. SettledIsAnswered'
  BY <1>1 DEF AnsweredInv, SettledIsAnswered, Ours
<1>4. pc = "finish" => Marked \in State /\ Marked.completed \in Answered
  BY <1>2, MarkedType DEF AnsweredInv, TypeOK, State, Marked, ToldSteps
<1>5. st \in State /\ st.completed \in Answered \cup {None}
  BY DEF AnsweredInv, TypeOK
<1>6. CASE Save
  <2>1. pc' \in ToldSteps => pc \in ToldSteps
    BY <1>6, Replies DEF Save, Goto
  <2>2. pc' # "settle"
    BY <1>6, Replies DEF Save, Goto
  <2> QED
    BY <1>1, <1>2, <1>3, <1>5, <1>6, <2>1, <2>2, AnsweredPut DEF Save, AnsweredInv
<1>7. CASE Finish
  <2>1. Id \in Answered /\ pc' = "settle"
    BY <1>7 DEF Finish, AnsweredInv, ToldSteps, Goto
  <2>2. ToSet(seen') \subseteq Answered'
    BY <1>1, <1>2, <1>7, <2>1, MarkSeenType DEF Finish, AnsweredInv, TypeOK
  <2>3. st'.completed \in Answered'
    BY <1>1, <1>4, <1>7 DEF Finish
  <2>4. \A u \in User : row'[u].completed \in Answered' \cup {None}
    BY <1>4, <1>7, AnsweredPut DEF Finish
  <2> QED
    BY <1>1, <1>2, <1>3, <2>1, <2>2, <2>3, <2>4 DEF AnsweredInv, ToldSteps
<1>8. CASE PutFails
  <2>1. pc' = "abandon" /\ st' = st /\ seen' = seen /\ sent' = sent
    BY <1>8 DEF PutFails, Goto
  <2>2. \A u \in User : row'[u].completed \in Answered' \cup {None}
    BY <1>4, <1>5, <1>8, <2>1, AnsweredPut DEF PutFails
  <2> QED
    BY <1>1, <1>3, <1>5, <2>1, <2>2 DEF AnsweredInv, ToldSteps
<1> QED
  BY <1>6, <1>7, <1>8

LEMMA AnsweredEnviron == ASSUME AnsweredInv, TypeOK', Environ PROVE AnsweredInv'
<1> USE DEF AnsweredInv
<1>1. ASSUME NEW m \in Message, NEW b, Post(m, b) PROVE AnsweredInv'
  BY <1>1, AnsweredQuiet DEF Post, processVars, TypeOK
<1>2. ASSUME NEW m \in Message, OrphanLockExpires(m) PROVE AnsweredInv'
  BY <1>2, AnsweredQuiet DEF OrphanLockExpires, Released, processVars, TypeOK
<1>3. CASE LockLost
  BY <1>3, AnsweredQuiet DEF LockLost, HoldsLock, Released, processVars, TypeOK
<1>4. ASSUME NEW u \in User, Expire(u) PROVE AnsweredInv'
  <2>1. Answered' = Answered /\ Id' = Id /\ (Ours(cur) <=> Ours(cur)')
    BY <1>4 DEF Expire, Answered, Id, Ours, queueVars, processVars
  <2>2. \A v \in User : row'[v].completed \in Answered' \cup {None}
    BY <1>4, <2>1, AbsentCompleted DEF Expire, TypeOK
  <2>3. SettledIsAnswered'
    BY <1>4, <2>1 DEF Expire, SettledIsAnswered, Ours, queueVars
  <2> QED
    BY <1>4, <2>1, <2>2, <2>3 DEF Expire, processVars
<1> QED
  BY <1>1, <1>2, <1>3, <1>4
     DEF Environ, PostText, PostCard, PostForeign, PostNameless, PostAgain

LEMMA HoldsLockPosted ==
    ASSUME AnsweredInv, Complete \/ CompleteFails \/ Abandon \/ AbandonFails
    PROVE  \A m \in Message : queue'[m] = "done" => queue[m] # "unposted"
BY DEF Complete, CompleteFails, Abandon, AbandonFails, Released, HoldsLock,
       AnsweredInv, TypeOK

LEMMA AnsweredRoute ==
    ASSUME AnsweredInv, TypeOK', Handling, NEW s, NEW step, Route(s, step),
           s.completed \in Answered \cup {None}, step \notin ToldSteps \cup {"settle"}
    PROVE  AnsweredInv'
BY AnsweredQuiet DEF Route, Goto, queueVars, AnsweredInv, TypeOK

LEMMA AnsweredProcess == ASSUME AnsweredInv, TypeOK', Process PROVE AnsweredInv'
<1> USE DEF queueVars
<1>1. ASSUME NEW m \in Message, Receive(m) PROVE AnsweredInv'
  BY <1>1, AnsweredQuiet DEF Receive, ToldSteps, AnsweredInv, TypeOK
<1>2. CASE Complete \/ CompleteFails \/ Abandon \/ AbandonFails
  <2>1. cur # None /\ cur \in Message
    BY <1>2 DEF Complete, CompleteFails, Abandon, AbandonFails, AnsweredInv, TypeOK
  <2>2. \A m \in Message : queue'[m] = "done" /\ queue[m] # "done" => m = cur /\ pc = "settle"
    BY <1>2 DEF Complete, CompleteFails, Abandon, AbandonFails, Released, AnsweredInv, TypeOK
  <2>3. \A m \in Message : queue'[m] = "done" => queue[m] # "unposted"
    BY <1>2, HoldsLockPosted
  <2>4. pc' \notin ToldSteps \cup {"settle"}
    BY <1>2 DEF Complete, CompleteFails, Abandon, AbandonFails, NextMessage, Goto, ToldSteps
  <2>5. st'.completed \in Answered \cup {None}
    BY <1>2, AbsentCompleted
       DEF Complete, CompleteFails, Abandon, AbandonFails, NextMessage, AnsweredInv
  <2>6. UNCHANGED <<sent, row, seen, body>>
    BY <1>2 DEF Complete, CompleteFails, Abandon, AbandonFails
  <2> QED
    BY <2>1, <2>2, <2>3, <2>4, <2>5, <2>6, AnsweredQuiet
<1>3. CASE Drop
  <2>1. ~ Ours(cur)
    BY <1>3 DEF Drop, Ours
  <2> QED
    BY <1>3, <2>1, AnsweredQuiet DEF Drop, Goto, AnsweredInv, TypeOK
<1>4. CASE SkipSeen
  BY <1>4, AnsweredQuiet DEF SkipSeen, Goto, AnsweredInv, TypeOK
<1>5. CASE GetFails \/ SenderUnknown
  BY <1>5, AnsweredQuiet DEF GetFails, SenderUnknown, Goto, ToldSteps, AnsweredInv, TypeOK
<1>6. CASE SkipCompleted
  <2>1. pc # "idle" /\ Ours(cur) /\ CompletedBefore
    BY <1>6 DEF SkipCompleted, Loading
  <2>2. Id \in Message /\ body[cur].user \in User /\ cur \in Message
    BY <2>1, InHand DEF AnsweredInv
  <2>3. Id \in Answered
    BY <2>1, <2>2, BrainAssumption DEF CompletedBefore, Stored, AnsweredInv
  <2>4. Answered' = Answered /\ Id' = Id /\ (Ours(cur) <=> Ours(cur)')
    BY <1>6 DEF SkipCompleted, Goto, Answered, Id, Ours
  <2>5. ToSet(seen') \subseteq Answered'
    BY <1>6, <2>2, <2>3, <2>4, MarkSeenType DEF SkipCompleted, AnsweredInv, TypeOK
  <2>6. SettledIsAnswered'
    BY <1>6, <2>4 DEF SkipCompleted, AnsweredInv, SettledIsAnswered, Ours
  <2> QED
    BY <1>6, <2>3, <2>4, <2>5, <2>6 DEF SkipCompleted, Goto, AnsweredInv, ToldSteps
<1>7. CASE RouteStale \/ RouteFollowup \/ RouteRetry \/ RouteNudge \/ RouteInterview
  <2>1. Handling /\ pc # "idle" /\ Ours(cur)
    BY <1>7 DEF RouteStale, RouteFollowup, RouteRetry, RouteNudge, RouteInterview,
                Handling, Loading
  <2> QED
    BY <1>7, <2>1, OpenedCompleted, AnsweredRoute
       DEF RouteStale, RouteFollowup, RouteRetry, RouteNudge, RouteInterview, ToldSteps
<1>8. CASE ModelFails \/ ModelRaises \/ InvestigationFails
  BY <1>8, AnsweredQuiet
     DEF ModelFails, ModelRaises, InvestigationFails, Goto, ToldSteps, AnsweredInv, TypeOK
<1>9. ASSUME NEW p \in Place, ModelAsks(p) \/ \E q \in Place : ModelCompletes(p, q)
      PROVE  AnsweredInv'
  <2>1. st'.completed = st.completed
    BY <1>9 DEF ModelAsks, ModelCompletes, Answer, AnsweredInv, TypeOK, State
  <2> QED
    BY <1>9, <2>1, AnsweredQuiet
       DEF ModelAsks, ModelCompletes, Goto, ToldSteps, AnsweredInv, TypeOK
<1>10. CASE InvestigationReports
  <2>1. st'.completed = st.completed
    BY <1>10 DEF InvestigationReports, AnsweredInv, TypeOK, State
  <2> QED
    BY <1>10, <2>1, AnsweredQuiet
       DEF InvestigationReports, Goto, ToldSteps, AnsweredInv, TypeOK
<1> QED
  BY <1>1, <1>2, <1>3, <1>4, <1>5, <1>6, <1>7, <1>8, <1>9, <1>10,
     AnsweredSend, AnsweredSave DEF Process

LEMMA AnsweredNext == AnsweredInv /\ [Next]_vars => AnsweredInv'
<1> SUFFICES ASSUME AnsweredInv, [Next]_vars PROVE AnsweredInv'
  OBVIOUS
<1>1. TypeOK'
  BY NextType DEF AnsweredInv
<1>2. CASE Crash
  <2>1. Answered' = Answered /\ ToSet(seen') = {}
    BY <1>2 DEF Crash, Answered, ToSet
  <2>2. SettledIsAnswered'
    BY <1>2, <2>1 DEF Crash, AnsweredInv, SettledIsAnswered, Ours, queueVars
  <2> QED
    BY <1>1, <1>2, <2>1, <2>2, AbsentCompleted DEF Crash, NextMessage, AnsweredInv, ToldSteps
<1>3. CASE UNCHANGED vars
  BY <1>1, <1>3, AnsweredQuiet DEF vars, AnsweredInv, TypeOK
<1> QED
  BY <1>1, <1>2, <1>3, AnsweredEnviron, AnsweredProcess DEF Next, Quiet

(* Under every set of faults the model knows (a crash between any two      *)
(* awaits, a call that raises before or after it took effect, a lost lock, *)
(* an expired row, a duplicate), a message of ours that left the queue as  *)
(* handled was answered (app.py:150-156, 268-279, 310-332, 427-437).       *)
THEOREM SettledAreAnswered == Spec => []SettledIsAnswered
<1>1. AnsweredInv => SettledIsAnswered
  BY DEF AnsweredInv
<1> QED
  BY <1>1, AnsweredInit, AnsweredNext, PTL DEF Spec
-----------------------------------------------------------------------------
(* An activity is worked on from its routing to its marker.                *)
Working == Kind \cup DOMAIN AfterPut \cup {"model", "investigate", "finish"}

(* What is worked on is an activity of ours, and neither its user's row    *)
(* nor the process's copy of it says that it is completed.                 *)
Unmarked ==
    pc \in Working =>
        /\ Ours(cur)
        /\ Stored.completed # Id
        /\ st.completed # Id

(* Only our activities are worked on.                                      *)
WorksOnOurs == pc \in Working => Ours(cur)

LEMMA WorkingSteps ==
    /\ \A k \in DOMAIN AfterPut : AfterPut[k] \in Working
    /\ "idle" \notin Working /\ "check" \notin Working
    /\ "settle" \notin Working /\ "abandon" \notin Working
BY DEF Working, Kind, AfterSend, AfterPut

(* Whatever else a step does, as long as the row gets nothing but the      *)
(* copy's marker.                                                          *)
LEMMA StaysUnmarked ==
    ASSUME TypeOK, Unmarked,
           pc' \in Working =>
              /\ pc \in Working
              /\ cur' = cur
              /\ body'[cur] = body[cur]
              /\ st'.completed = st.completed
              /\ row'[body[cur].user].completed
                    \in {Stored.completed, st.completed, None}
    PROVE  Unmarked'
<1> SUFFICES ASSUME pc' \in Working
             PROVE  Ours(cur)' /\ Stored'.completed # Id' /\ st'.completed # Id'
  BY DEF Unmarked
<1>1. pc \in Working /\ pc # "idle"
  BY WorkingSteps
<1>2. Id \in Message /\ Id # None
  BY <1>1, InHand, BrainAssumption
<1>3. Id' = Id /\ body'[cur'] = body[cur] /\ Stored' = row'[body[cur].user]
  BY DEF Id, Stored
<1> QED
  BY <1>1, <1>2, <1>3 DEF Unmarked, Ours

(* A put of the copy gives the row the copy's marker, or fails to.         *)
LEMMA PutUnmarked ==
    ASSUME TypeOK, Unmarked, pc \in Working, Put(st) \/ row' = row
    PROVE  row'[body[cur].user].completed \in {Stored.completed, st.completed, None}
<1>1. body[cur].user \in User /\ row \in [User -> State]
  BY WorkingSteps, InHand DEF Unmarked, TypeOK
<1> QED
  BY <1>1 DEF Put, Stored

LEMMA UnmarkedProcess == ASSUME TypeOK, Unmarked, Process PROVE Unmarked'
<1> USE DEF queueVars
<1>1. CASE \/ \E m \in Message : Receive(m)
           \/ Complete \/ CompleteFails \/ Abandon \/ AbandonFails
           \/ Drop \/ SenderUnknown \/ SkipSeen \/ GetFails \/ SkipCompleted
           \/ SendFails \/ Finish \/ PutFails \/ ModelRaises
  <2>1. pc' \in {"idle", "check", "settle", "abandon"}
    BY <1>1 DEF Receive, Complete, CompleteFails, Abandon, AbandonFails, Drop, SenderUnknown,
       SkipSeen, GetFails, SkipCompleted, SendFails, Finish, PutFails, ModelRaises,
       NextMessage, Goto
  <2> QED
    BY <2>1, WorkingSteps DEF Unmarked
<1>2. ASSUME Handling, NEW s \in State, NEW step, Route(s, step), s.completed # Id
      PROVE  Unmarked'
  <2>1. Ours(cur) /\ Stored.completed # Id
    <3>1. Ours(cur) /\ pc # "idle" /\ ~ CompletedBefore
      BY <1>2 DEF Handling, Loading
    <3>2. Id \in Message
      BY <3>1, InHand
    <3> QED
      BY <3>1, <3>2, AbsentCompleted, BrainAssumption DEF CompletedBefore
  <2>2. /\ st' = s /\ cur' = cur /\ body' = body /\ row' = row
    BY <1>2 DEF Route, Goto
  <2> QED
    BY <1>2, <2>1, <2>2 DEF Unmarked, Ours, Id, Stored
<1>3. CASE RouteStale \/ RouteFollowup \/ RouteRetry \/ RouteNudge \/ RouteInterview
  <2>1. Handling /\ pc # "idle" /\ Ours(cur)
    BY <1>3 DEF RouteStale, RouteFollowup, RouteRetry, RouteNudge, RouteInterview,
                Handling, Loading
  <2>2. Id \in Message /\ Opened \in State /\ Turned \in State
    BY <2>1, InHand, OpenedType, TurnedType
  <2>3. Opened.completed # Id
    BY <2>1, <2>2, FreshCompleted, BrainAssumption DEF Opened, Handling, CompletedBefore
  <2>4. Turned.completed = Opened.completed
    BY <2>2 DEF Turned, Incorporate, State
  <2> QED
    BY <1>2, <1>3, <2>1, <2>2, <2>3, <2>4
       DEF RouteStale, RouteFollowup, RouteRetry, RouteNudge, RouteInterview
<1>4. CASE Send
  <2>1. pc \in Working /\ cur' = cur /\ body' = body /\ row' = row
    BY <1>4 DEF Send, Goto, Working
  <2>2. st'.completed = st.completed
    BY <1>4 DEF Send, TypeOK, State
  <2> QED
    BY <2>1, <2>2, StaysUnmarked DEF Stored
<1>5. CASE Save
  <2>1. pc \in Working /\ cur' = cur /\ body' = body /\ st' = st /\ Put(st)
    BY <1>5 DEF Save, Goto, Working
  <2> QED
    BY <2>1, PutUnmarked, StaysUnmarked
<1>6. CASE ModelFails \/ InvestigationFails \/ InvestigationReports
           \/ \E p \in Place : ModelAsks(p) \/ \E q \in Place : ModelCompletes(p, q)
  <2>1. pc \in Working /\ cur' = cur /\ body' = body /\ row' = row
    BY <1>6 DEF ModelFails, InvestigationFails, InvestigationReports, ModelAsks,
       ModelCompletes, Goto, Working
  <2>2. st'.completed = st.completed
    BY <1>6 DEF ModelFails, InvestigationFails, InvestigationReports, ModelAsks,
       ModelCompletes, Answer, TypeOK, State
  <2> QED
    BY <2>1, <2>2, StaysUnmarked DEF Stored
<1> QED
  BY <1>1, <1>3, <1>4, <1>5, <1>6 DEF Process

LEMMA UnmarkedNext == TypeOK /\ Unmarked /\ [Next]_vars => Unmarked'
<1> SUFFICES ASSUME TypeOK, Unmarked, [Next]_vars PROVE Unmarked'
  OBVIOUS
<1>1. cur # None => body[cur] \in Body /\ queue[cur] # "unposted" /\ cur \in Message
  BY DEF TypeOK
<1>2. pc \in Working => cur # None
  BY WorkingSteps DEF TypeOK
<1>3. ASSUME NEW m \in Message, NEW b, Post(m, b) PROVE Unmarked'
  <2>1. UNCHANGED <<pc, cur, st, row>> /\ (pc \in Working => body'[cur] = body[cur])
    BY <1>1, <1>2, <1>3 DEF Post, processVars, TypeOK
  <2> QED
    BY <2>1, StaysUnmarked DEF Stored
<1>4. CASE LockLost \/ (\E m \in Message : OrphanLockExpires(m)) \/ UNCHANGED vars
  <2>1. UNCHANGED <<pc, cur, st, row, body>>
    BY <1>4 DEF LockLost, OrphanLockExpires, processVars, vars
  <2> QED
    BY <2>1, StaysUnmarked DEF Stored
<1>5. ASSUME NEW u \in User, Expire(u) PROVE Unmarked'
  <2>1. UNCHANGED <<pc, cur, st, body>> /\ row' = [row EXCEPT ![u] = Absent]
    BY <1>5 DEF Expire, queueVars, processVars
  <2>2. pc \in Working => body[cur].user \in User
    BY WorkingSteps, InHand DEF Unmarked
  <2>3. pc \in Working => row'[body[cur].user].completed \in {Stored.completed, None}
    BY <2>1, <2>2, AbsentCompleted DEF Stored, TypeOK
  <2> QED
    BY <2>1, <2>3, StaysUnmarked
<1>6. CASE Crash
  BY <1>6, WorkingSteps DEF Crash, NextMessage, Unmarked
<1> QED
  BY <1>3, <1>4, <1>5, <1>6, UnmarkedProcess
     DEF Next, Quiet, Environ, PostText, PostCard, PostForeign, PostNameless, PostAgain

(* No activity that its user's row marks as completed is worked on again,  *)
(* whatever was redelivered, expired or lost meanwhile (app.py:310-332).   *)
THEOREM MarkersAreHonoured == Spec => []MarkerHonoured
<1>1. Init => Unmarked
  BY WorkingSteps DEF Init, Unmarked
<1>2. Unmarked => MarkerHonoured
  BY DEF Unmarked, MarkerHonoured, Working
<1>3. Spec => []Unmarked
  BY <1>1, UnmarkedNext, TypeCorrect, PTL DEF Spec
<1> QED
  BY <1>2, <1>3, PTL
-----------------------------------------------------------------------------
(* Every step of Brain is one of AtLeastOnce, or none of its steps.        *)

(* Where AtLeastOnce sees a message, and what it sees it owe.              *)
Phase == [m \in Message |-> IF queue[m] \in {"ready", "locked"} THEN "pending" ELSE queue[m]]
Owed  == [m \in Message |-> IF queue[m] # "unposted" /\ Ours(m) THEN body[m].id ELSE None]

(* A step that posts nothing and replies nothing.                          *)
LEMMA OnlyMoves ==
    ASSUME AnsweredInv, UNCHANGED <<body, sent>>,
           \/ UNCHANGED queue
           \/ \E m \in Message, to \in {"ready", "locked", "done", "dead"} :
                 /\ queue[m] \in {"ready", "locked"}
                 /\ queue' = [queue EXCEPT ![m] = to]
                 /\ to = "done" => (Ours(m) => body[m].id \in Answered)
    PROVE  [Promise!Next]_(Promise!vars)
<1>1. Answered' = Answered
  BY DEF Answered
<1>2. queue \in [Message -> {"unposted", "ready", "locked", "done", "dead"}]
  BY DEF AnsweredInv, TypeOK
<1>3. CASE UNCHANGED queue
  <2>1. Phase' = Phase /\ Owed' = Owed
    BY <1>3 DEF Phase, Owed, Ours
  <2> QED
    BY <1>1, <2>1 DEF Promise!vars, Phase, Owed
<1>4. ASSUME NEW m \in Message, NEW to \in {"ready", "locked", "done", "dead"},
             queue[m] \in {"ready", "locked"},
             queue' = [queue EXCEPT ![m] = to],
             to = "done" => (Ours(m) => body[m].id \in Answered)
      PROVE  [Promise!Next]_(Promise!vars)
  <2>1. Owed' = Owed
    BY <1>2, <1>4 DEF Owed, Ours
  <2>2. Phase[m] = "pending"
    BY <1>4 DEF Phase
  <2>3. CASE to \in {"ready", "locked"}
    <3>1. Phase' = Phase
      BY <1>2, <1>4, <2>3 DEF Phase
    <3> QED
      BY <1>1, <2>1, <3>1 DEF Promise!vars, Phase, Owed
  <2>4. CASE to \in {"done", "dead"}
    <3>1. Phase' = [Phase EXCEPT ![m] = to]
      BY <1>2, <1>4, <2>4 DEF Phase
    <3>2. to = "done" => Owed[m] \in Answered \cup {None}
      BY <1>4 DEF Owed
    <3>3. Promise!Settle(m) \/ Promise!DeadLetter(m)
      BY <1>1, <2>1, <2>2, <2>4, <3>1, <3>2
         DEF Promise!Settle, Promise!DeadLetter, Phase, Owed
    <3> QED
      BY <3>3 DEF Promise!Next
  <2> QED
    BY <1>4, <2>3, <2>4
<1> QED
  BY <1>3, <1>4

LEMMA PostAllowed ==
    ASSUME AnsweredInv, NEW m \in Message, NEW b \in Body, Post(m, b)
    PROVE  [Promise!Next]_(Promise!vars)
<1> DEFINE a == IF b.kind \in {"text", "card"} THEN b.id ELSE None
<1>1. a \in Message \cup {None}
  BY DEF Body, TextBody, CardBody, ForeignBody
<1>2. /\ queue[m] = "unposted" /\ sent' = sent
      /\ body' = [body EXCEPT ![m] = b] /\ queue' = [queue EXCEPT ![m] = "ready"]
      /\ body \in [Message -> Body \cup {None}]
      /\ queue \in [Message -> {"unposted", "ready", "locked", "done", "dead"}]
  BY DEF Post, AnsweredInv, TypeOK
<1>3. Phase[m] = "unposted" /\ Phase' = [Phase EXCEPT ![m] = "pending"]
  BY <1>2 DEF Phase
<1>4. Owed' = [Owed EXCEPT ![m] = a]
  <2>1. ASSUME NEW n \in Message \ {m} PROVE Owed'[n] = Owed[n]
    BY <1>2 DEF Owed, Ours
  <2>2. Owed'[m] = a
    BY <1>2 DEF Owed, Ours
  <2> QED
    BY <2>1, <2>2 DEF Owed
<1>5. Answered' = Answered
  BY <1>2 DEF Answered
<1>6. Promise!Post(m, a)
  BY <1>3, <1>4, <1>5 DEF Promise!Post, Phase, Owed
<1> QED
  BY <1>1, <1>6 DEF Promise!Next

LEMMA SendAllowed ==
    ASSUME AnsweredInv, WorksOnOurs, Send \/ SendFails
    PROVE  [Promise!Next]_(Promise!vars)
<1>1. /\ UNCHANGED <<body, queue>> /\ pc \in Kind
      /\ sent' = sent \/ sent' = sent \cup {[act |-> Id, kind |-> pc]}
  BY DEF Send, SendFails, Replied, queueVars
<1>2. /\ Ours(cur) /\ cur \in Message /\ Id \in Message /\ queue[cur] # "unposted"
  BY <1>1, Steps, InHand, BrainAssumption DEF WorksOnOurs, Working, AnsweredInv, TypeOK
<1>3. Phase' = Phase /\ Owed' = Owed /\ Owed[cur] = Id /\ Id # None
  BY <1>1, <1>2, BrainAssumption DEF Phase, Owed, Ours, Id
<1>4. Answered' = Answered \/ Answered' = Answered \cup {Id}
  <2>1. CASE sent' = sent \/ pc \notin FinalKind
    <3>1. \A a \in Message, k \in FinalKind :
             [act |-> a, kind |-> k] \in sent' <=> [act |-> a, kind |-> k] \in sent
      BY <1>1, <2>1
    <3> QED
      BY <3>1 DEF Answered
  <2>2. CASE sent' = sent \cup {[act |-> Id, kind |-> pc]} /\ pc \in FinalKind
    <3>1. \A a \in Message, k \in FinalKind :
             [act |-> a, kind |-> k] \in sent' <=>
                [act |-> a, kind |-> k] \in sent \/ (a = Id /\ k = pc)
      BY <2>2
    <3>2. ASSUME NEW a \in Message PROVE a \in Answered' <=> a \in Answered \/ a = Id
      BY <2>2, <3>1 DEF Answered
    <3>3. Answered' \subseteq Message /\ Answered \subseteq Message
      BY DEF Answered
    <3> QED
      BY <1>2, <3>2, <3>3
  <2> QED
    BY <1>1, <2>1, <2>2
<1>5. CASE Answered' = Answered
  BY <1>3, <1>5 DEF Promise!vars, Phase, Owed
<1>6. CASE Answered' = Answered \cup {Id}
  <2>1. Promise!Reply(cur)
    BY <1>3, <1>6 DEF Promise!Reply, Phase, Owed
  <2> QED
    BY <1>2, <2>1 DEF Promise!Next
<1> QED
  BY <1>4, <1>5, <1>6

LEMMA EnvironAllowed ==
    ASSUME AnsweredInv, Environ
    PROVE  [Promise!Next]_(Promise!vars)
<1>1. \A m \in Message : Released(m) \in {"ready", "dead"}
  BY DEF Released
<1>2. ASSUME NEW m \in Message, NEW b \in {[kind |-> "foreign", id |-> m], [kind |-> "nameless", id |-> m]}
      PROVE  b \in Body
  BY <1>2 DEF Body, ForeignBody
<1>3. ASSUME NEW m \in Message, PostForeign(m) \/ PostNameless(m)
      PROVE  [Promise!Next]_(Promise!vars)
  BY <1>2, <1>3, PostAllowed DEF PostForeign, PostNameless
<1>4. ASSUME NEW m \in Message, NEW n \in Message, PostAgain(m, n)
      PROVE  [Promise!Next]_(Promise!vars)
  <2>1. body[n] \in Body
    BY <1>4 DEF PostAgain, AnsweredInv, TypeOK
  <2> QED
    BY <1>4, <2>1, PostAllowed DEF PostAgain
<1>5. ASSUME NEW m \in Message, NEW u \in User, NEW t \in Text, PostText(m, u, t)
      PROVE  [Promise!Next]_(Promise!vars)
  <2>1. [kind |-> "text", id |-> m, user |-> u, text |-> t] \in Body
    BY DEF Body, TextBody
  <2> QED
    BY <1>5, <2>1, PostAllowed DEF PostText
<1>6. ASSUME NEW m \in Message, NEW u \in User, NEW f \in Message, NEW p \in Place,
             PostCard(m, u, f, p)
      PROVE  [Promise!Next]_(Promise!vars)
  <2>1. [kind |-> "card", id |-> m, user |-> u, form |-> f, place |-> p] \in Body
    BY DEF Body, CardBody
  <2> QED
    BY <1>6, <2>1, PostAllowed DEF PostCard
<1>7. ASSUME NEW m \in Message, OrphanLockExpires(m)
      PROVE  [Promise!Next]_(Promise!vars)
  BY <1>1, <1>7, OnlyMoves DEF OrphanLockExpires
<1>8. CASE LockLost
  <2>1. cur \in Message
    BY <1>8 DEF LockLost, HoldsLock, AnsweredInv, TypeOK
  <2> QED
    BY <1>1, <1>8, <2>1, OnlyMoves DEF LockLost, HoldsLock
<1>9. ASSUME NEW u \in User, Expire(u) PROVE [Promise!Next]_(Promise!vars)
  BY <1>9, OnlyMoves DEF Expire, queueVars
<1> QED
  BY <1>3, <1>4, <1>5, <1>6, <1>7, <1>8, <1>9 DEF Environ

LEMMA ProcessAllowed ==
    ASSUME AnsweredInv, WorksOnOurs, Process
    PROVE  [Promise!Next]_(Promise!vars)
<1>1. \A m \in Message : Released(m) \in {"ready", "dead"}
  BY DEF Released
<1>2. ASSUME NEW m \in Message, Receive(m) PROVE [Promise!Next]_(Promise!vars)
  BY <1>2, OnlyMoves DEF Receive
<1>3. CASE Complete \/ CompleteFails
  <2>1. pc = "settle" /\ UNCHANGED <<body, sent>>
    BY <1>3 DEF Complete, CompleteFails
  <2>2. cur \in Message /\ (Ours(cur) => body[cur].id \in Answered)
    BY <2>1 DEF AnsweredInv, TypeOK, Id
  <2>3. \/ UNCHANGED queue
        \/ queue[cur] = "locked" /\ queue' = [queue EXCEPT ![cur] = "done"]
    BY <1>3 DEF Complete, CompleteFails, HoldsLock
  <2> QED
    BY <2>1, <2>2, <2>3, OnlyMoves
<1>4. CASE Abandon \/ AbandonFails
  <2>1. cur \in Message /\ UNCHANGED <<body, sent>>
    BY <1>4 DEF Abandon, AbandonFails, AnsweredInv, TypeOK
  <2>2. \/ UNCHANGED queue
        \/ queue[cur] = "locked" /\ queue' = [queue EXCEPT ![cur] = Released(cur)]
    BY <1>4 DEF Abandon, AbandonFails, HoldsLock
  <2> QED
    BY <1>1, <2>1, <2>2, OnlyMoves
<1>5. CASE \/ Drop \/ SenderUnknown \/ SkipSeen \/ GetFails \/ SkipCompleted
           \/ RouteStale \/ RouteFollowup \/ RouteRetry \/ RouteNudge \/ RouteInterview
           \/ Save \/ Finish \/ PutFails \/ ModelFails \/ ModelRaises
           \/ \E p \in Place : ModelAsks(p) \/ \E q \in Place : ModelCompletes(p, q)
           \/ InvestigationFails \/ InvestigationReports
  <2>1. UNCHANGED <<body, queue, sent>>
    BY <1>5 DEF Drop, SenderUnknown, SkipSeen, GetFails, SkipCompleted, Route, RouteStale,
       RouteFollowup, RouteRetry, RouteNudge, RouteInterview, Save, Finish, PutFails,
       ModelFails, ModelRaises, ModelAsks, ModelCompletes, InvestigationFails,
       InvestigationReports, queueVars
  <2> QED
    BY <2>1, OnlyMoves
<1> QED
  BY <1>2, <1>3, <1>4, <1>5, SendAllowed DEF Process

LEMMA PromiseInit == Init => Promise!Init /\ Unmarked
<1> SUFFICES ASSUME Init PROVE Promise!Init /\ Unmarked
  OBVIOUS
<1>1. Answered = {} /\ Unmarked
  BY WorkingSteps DEF Init, Answered, Unmarked
<1> QED
  BY <1>1 DEF Init, Promise!Init

(* Brain implements AtLeastOnce but for its fairness: no message is        *)
(* settled before it was answered, none returns to the queue once it was   *)
(* settled or given up, and no reply is to an activity nobody posted       *)
(* (app.py:150-156, 427-437).                                              *)
THEOREM BrainIsAtLeastOnce == Spec => Promise!Init /\ [][Promise!Next]_(Promise!vars)
<1>1. Init => Promise!Init /\ Unmarked
  BY PromiseInit
<1>2. AnsweredInv /\ Unmarked /\ [Next]_vars => [Promise!Next]_(Promise!vars)
  <2> SUFFICES ASSUME AnsweredInv, Unmarked, [Next]_vars
               PROVE  [Promise!Next]_(Promise!vars)
    OBVIOUS
  <2>1. WorksOnOurs
    BY DEF Unmarked, WorksOnOurs
  <2>2. CASE Crash \/ UNCHANGED vars
    <3>1. UNCHANGED <<body, queue, sent>>
      BY <2>2 DEF Crash, queueVars, vars
    <3> QED
      BY <3>1, OnlyMoves
  <2> QED
    BY <2>1, <2>2, EnvironAllowed, ProcessAllowed DEF Next, Quiet
<1>3. Spec => []AnsweredInv
  BY AnsweredInit, AnsweredNext, PTL DEF Spec
<1>4. Spec => []Unmarked
  BY <1>1, UnmarkedNext, TypeCorrect, PTL DEF Spec
<1> QED
  BY <1>1, <1>2, <1>3, <1>4, PTL DEF Spec
=============================================================================
