-------------------------- MODULE BrainTurnProofs --------------------------
(***************************************************************************)
(* Proofs about what turns leave in the table, and say, for every value of *)
(* Brain's constants: no handled activity loses or overwrites anything of  *)
(* an interview, a redelivery finds a transcript it can go on from, and    *)
(* nothing is recorded that the user was not told before.                  *)
(***************************************************************************)
EXTENDS BrainProofs, FiniteSetTheorems

(* A prefix, element by element.                                           *)
LEMMA PrefixIff ==
    ASSUME NEW T, NEW s \in Seq(T), NEW t \in Seq(T)
    PROVE  IsPrefix(s, t) <=> Len(s) <= Len(t) /\ \A i \in 1 .. Len(s) : s[i] = t[i]
<1> DEFINE n == Len(s)
<1>1. n \in Nat /\ Len(t) \in Nat /\ 1 \in Int /\ n \in Int
  OBVIOUS
<1>2. /\ \A i \in 1 .. n : s[i] \in T
      /\ n <= Len(t) => \A i \in 1 .. n : t[i] \in T
  BY <1>1
<1>3. /\ SubSeq(s, 1, n) \in Seq(T) /\ Len(SubSeq(s, 1, n)) = n
      /\ \A i \in 1 .. n : SubSeq(s, 1, n)[i] = s[i]
  <2>1. /\ SubSeq(s, 1, n) \in Seq(T)
        /\ Len(SubSeq(s, 1, n)) = IF 1 <= n THEN n - 1 + 1 ELSE 0
        /\ \A i \in 1 .. n - 1 + 1 : SubSeq(s, 1, n)[i] = s[1 + i - 1]
    BY <1>1, <1>2, SubSeqProperties
  <2> QED
    BY <1>1, <2>1
<1>4. ASSUME n <= Len(t)
      PROVE  /\ SubSeq(t, 1, n) \in Seq(T) /\ Len(SubSeq(t, 1, n)) = n
             /\ \A i \in 1 .. n : SubSeq(t, 1, n)[i] = t[i]
  <2>1. /\ SubSeq(t, 1, n) \in Seq(T)
        /\ Len(SubSeq(t, 1, n)) = IF 1 <= n THEN n - 1 + 1 ELSE 0
        /\ \A i \in 1 .. n - 1 + 1 : SubSeq(t, 1, n)[i] = t[1 + i - 1]
    BY <1>1, <1>2, <1>4, SubSeqProperties
  <2> QED
    BY <1>1, <2>1
<1>5. ASSUME n <= Len(t), \A i \in 1 .. n : s[i] = t[i]
      PROVE  SubSeq(s, 1, n) = SubSeq(t, 1, n)
  <2>1. \A i \in 1 .. n : SubSeq(s, 1, n)[i] = SubSeq(t, 1, n)[i]
    BY <1>3, <1>4, <1>5
  <2> QED
    BY <1>1, <1>3, <1>4, <1>5, <2>1, SeqEqual
<1>6. ASSUME n <= Len(t), SubSeq(s, 1, n) = SubSeq(t, 1, n)
      PROVE  \A i \in 1 .. n : s[i] = t[i]
  BY <1>3, <1>4, <1>6
<1> QED
  BY <1>5, <1>6 DEF IsPrefix

(* A prefix stays one of a sequence that grows, and of itself.             *)
LEMMA PrefixGrows ==
    ASSUME NEW T, NEW s \in Seq(T), NEW t \in Seq(T), NEW x \in T, IsPrefix(s, t)
    PROVE  IsPrefix(s, Append(t, x))
<1> DEFINE u == Append(t, x)
<1>1. u \in Seq(T) /\ Len(u) = Len(t) + 1 /\ \A i \in 1 .. Len(t) : u[i] = t[i]
  OBVIOUS
<1> HIDE DEF u
<1>2. Len(s) <= Len(t) /\ \A i \in 1 .. Len(s) : s[i] = t[i]
  BY PrefixIff
<1>3. Len(s) \in Nat /\ Len(t) \in Nat
  OBVIOUS
<1>4. Len(s) <= Len(u) /\ \A i \in 1 .. Len(s) : s[i] = u[i]
  BY <1>1, <1>2, <1>3
<1>5. IsPrefix(s, u)
  BY <1>1, <1>4, PrefixIff
<1> QED
  BY <1>5 DEF u

LEMMA PrefixSelf == ASSUME NEW T, NEW s \in Seq(T) PROVE IsPrefix(s, s)
<1>1. Len(s) <= Len(s) /\ \A i \in 1 .. Len(s) : s[i] = s[i]
  OBVIOUS
<1> QED
  BY <1>1, PrefixIff
-----------------------------------------------------------------------------
(* How one state of an interview goes on from another.                     *)

LEMMA Ranks ==
    ASSUME NEW s
    PROVE  /\ s.status = "interviewing" => Rank(s) = 1
           /\ s.status = "complete"     => Rank(s) = 2
           /\ s.status = "investigated" => Rank(s) = 3
BY DEF Rank

LEMMA RankType ==
    ASSUME NEW s \in State, s.status # "absent"
    PROVE  Rank(s) \in 1 .. 3
BY Ranks DEF State, Terminal

LEMMA ContinuesSelf ==
    ASSUME NEW s \in State, s.status # "absent"
    PROVE  Continues(s, s)
<1>1. s.turns \in Seq(Turn)
  BY DEF State
<1>2. IsPrefix(s.turns, s.turns)
  BY <1>1, PrefixSelf
<1> QED
  BY <1>2, RankType DEF Continues

(* What a turn may do to the state it works on.                            *)
Advances(s, t) ==
    /\ t.inc = s.inc
    /\ \/ t.turns = s.turns
       \/ \E x \in Turn : t.turns = Append(s.turns, x)
    /\ Rank(s) <= Rank(t)
    /\ s.status \in Terminal => t.summary = s.summary /\ t.place = s.place
    /\ s.forms \subseteq t.forms

LEMMA ContinuesOn ==
    ASSUME NEW r \in State, NEW s \in State, NEW t \in State,
           r.status # "absent", s.status # "absent", t.status # "absent",
           Continues(r, s), Advances(s, t)
    PROVE  Continues(r, t)
<1>1. Rank(r) \in 1 .. 3 /\ Rank(s) \in 1 .. 3 /\ Rank(t) \in 1 .. 3
  BY RankType
<1>2. Rank(r) <= Rank(s) /\ Rank(s) <= Rank(t)
  BY DEF Continues, Advances
<1>3. IsPrefix(r.turns, t.turns)
  <2>1. r.turns \in Seq(Turn) /\ s.turns \in Seq(Turn) /\ IsPrefix(r.turns, s.turns)
    BY DEF State, Continues
  <2>2. ASSUME NEW x \in Turn, t.turns = Append(s.turns, x) PROVE IsPrefix(r.turns, t.turns)
    BY <2>1, <2>2, PrefixGrows
  <2> QED
    BY <2>1, <2>2 DEF Advances
<1>4. r.status \in Terminal => s.status \in Terminal
  <2>1. r.status \in Terminal => Rank(r) >= 2
    BY Ranks DEF Terminal
  <2>2. s.status \notin Terminal => Rank(s) = 1
    BY Ranks DEF State
  <2> QED
    BY <1>1, <1>2, <2>1, <2>2
<1>5. Rank(r) <= Rank(t)
  BY <1>1, <1>2
<1> QED
  BY <1>3, <1>4, <1>5 DEF Continues, Advances
-----------------------------------------------------------------------------
(* What the process works on, and the row it will be written to.           *)

(* The text in hand opens s, a new incident, after the finished one in r.  *)
Replaces(r, s) ==
    /\ r.status \in Terminal
    /\ body[cur].kind = "text"
    /\ IsNewIncident(body[cur].text, SummaryPlace(r), r.place)
    /\ s.inc = Id
    /\ Len(s.turns) = 1

(* The steps of the turn that opens an incident, up to its first write.    *)
Opening == {"intro", "card", "putCard"}

(* The copy is what the row may become.                                    *)
Evolves(s) ==
    \/ Stored = Absent
    \/ Continues(Stored, s)
    \/ Replaces(Stored, s) /\ pc \in Opening

RowsReal == \A u \in User : row[u] = Absent \/ row[u].status # "absent"

CopyReal ==
    pc \in Working =>
        /\ st.status # "absent"
        /\ pc = "model" => st.status = "interviewing"
        /\ Evolves(st)

RowInv == TypeOK /\ Unmarked /\ RowsReal /\ CopyReal

(* What is known of the activity in hand and its row.                      *)
LEMMA WorkInHand ==
    ASSUME RowInv, pc \in Working
    PROVE  /\ Ours(cur) /\ cur \in Message /\ Id \in Message /\ Id # None
           /\ body[cur].user \in User /\ Stored \in State /\ Stored = row[body[cur].user]
           /\ Stored = Absent \/ Stored.status # "absent"
           /\ st \in State /\ st.status # "absent" /\ Evolves(st)
<1>1. pc # "idle" /\ Ours(cur)
  BY WorkingSteps DEF RowInv, Unmarked
<1> QED
  BY <1>1, InHand, BrainAssumption DEF RowInv, RowsReal, CopyReal, TypeOK, Stored

(* A step of the turn that writes nothing and advances the copy.           *)
LEMMA CopyAdvances ==
    ASSUME RowInv, TypeOK', Unmarked',
           pc \in Working, UNCHANGED <<row, cur, body>>,
           st'.status # "absent",
           pc' = "model" => st'.status = "interviewing",
           \/ Advances(st, st') /\ pc \notin Opening
           \/ /\ pc' \in Opening \/ pc \notin Opening
              /\ st'.inc = st.inc /\ st'.turns = st.turns /\ st'.status = st.status
              /\ st'.summary = st.summary /\ st'.place = st.place /\ st'.forms = st.forms
    PROVE  RowInv'
<1>1. /\ Id' = Id /\ Stored' = Stored /\ RowsReal'
      /\ st \in State /\ st' \in State /\ st.status # "absent" /\ Stored \in State
      /\ Stored = Absent \/ Stored.status # "absent"
      /\ Evolves(st)
  BY WorkInHand DEF Id, Stored, RowsReal, RowInv, TypeOK
<1>2. CASE Stored = Absent
  BY <1>1, <1>2 DEF RowInv, CopyReal, Evolves
<1>3. CASE Continues(Stored, st) /\ Stored # Absent
  <2>1. Advances(st, st')
    <3>1. st'.status = st.status => Rank(st') = Rank(st)
      BY DEF Rank
    <3>2. Rank(st) \in 1 .. 3
      BY <1>1, RankType
    <3> QED
      BY <3>1, <3>2 DEF Advances
  <2>2. Continues(Stored, st')
    BY <1>1, <1>3, <2>1, ContinuesOn
  <2> QED
    BY <1>1, <2>2 DEF RowInv, CopyReal, Evolves
<1>4. CASE Replaces(Stored, st) /\ pc \in Opening
  <2>1. Replaces(Stored, st)' /\ pc' \in Opening
    BY <1>1, <1>4 DEF Replaces, SummaryPlace
  <2> QED
    BY <1>1, <2>1 DEF RowInv, CopyReal, Evolves
<1> QED
  BY <1>1, <1>2, <1>3, <1>4 DEF Evolves

(* Whatever happens to the queue, and to rows that expire.                 *)
LEMMA CopyStays ==
    ASSUME RowInv, TypeOK', Unmarked', UNCHANGED <<pc, cur, st>>,
           pc \in Working => body'[cur] = body[cur],
           \A u \in User : row'[u] \in {row[u], Absent}
    PROVE  RowInv'
<1>1. RowsReal'
  BY DEF RowInv, RowsReal
<1>2. ASSUME pc \in Working PROVE CopyReal'
  <2>1. Id' = Id /\ Stored' \in {Stored, Absent}
    BY <1>2, WorkInHand DEF Id, Stored
  <2>2. CASE Stored' = Absent
    BY <1>2, <2>2 DEF RowInv, CopyReal, Evolves
  <2>3. CASE Stored' = Stored
    <3>1. Replaces(Stored, st) => Replaces(Stored, st)'
      BY <1>2, <2>1, <2>3 DEF Replaces, SummaryPlace
    <3> QED
      BY <1>2, <2>3, <3>1 DEF RowInv, CopyReal, Evolves
  <2> QED
    BY <2>1, <2>2, <2>3
<1> QED
  BY <1>1, <1>2 DEF RowInv, CopyReal

(* An activity that is not worked on after the step, and no write in it.   *)
LEMMA NothingWorkedOn ==
    ASSUME RowInv, TypeOK', Unmarked', row' = row, pc' \notin Working
    PROVE  RowInv'
BY DEF RowInv, RowsReal, CopyReal

(* A write moves the row on.                                               *)
RowMoves ==
    \A u \in User : row'[u] # row[u] => row[u] = Absent \/ row'[u] = Absent \/ MovesOn(u)

LEMMA PutMoves ==
    ASSUME RowInv, pc \in Working, NEW s \in State, s.status # "absent", Evolves(s), Put(s)
    PROVE  RowsReal' /\ RowMoves /\ row'[body[cur].user] = s
<1> DEFINE v == body[cur].user
<1>1. /\ v \in User /\ row \in [User -> State] /\ row' = [row EXCEPT ![v] = s]
      /\ Stored = row[v]
  BY WorkInHand DEF Put, RowInv, TypeOK
<1>2. row'[v] = s /\ \A u \in User \ {v} : row'[u] = row[u]
  BY <1>1
<1>3. RowsReal'
  BY <1>2 DEF RowInv, RowsReal
<1>4. row[v] = Absent \/ MovesOn(v)
  BY <1>1, <1>2 DEF Evolves, Replaces, MovesOn
<1>5. RowMoves
  BY <1>2, <1>4 DEF RowMoves
<1> QED
  BY <1>2, <1>3, <1>5

(* The durable marker changes nothing of an interview.                     *)
LEMMA MarkedEvolves ==
    ASSUME RowInv, pc \in Working, pc \notin Opening
    PROVE  Marked \in State /\ Marked.status # "absent" /\ Evolves(Marked)
<1>1. /\ st \in State /\ st.status # "absent" /\ Evolves(st) /\ Stored \in State
      /\ Stored = Absent \/ Stored.status # "absent"
  BY WorkInHand
<1>2. Marked \in State
  BY WorkingSteps, MarkedType DEF RowInv
<1>3. /\ Marked.status = st.status /\ Marked.inc = st.inc /\ Marked.turns = st.turns
      /\ Marked.summary = st.summary /\ Marked.place = st.place /\ Marked.forms = st.forms
  BY <1>1 DEF Marked, State
<1>4. Advances(st, Marked)
  <2>1. Rank(Marked) = Rank(st)
    BY <1>3 DEF Rank
  <2>2. Rank(st) \in 1 .. 3
    BY <1>1, RankType
  <2> QED
    BY <1>3, <2>1, <2>2 DEF Advances
<1>5. Continues(Stored, st) /\ Stored # Absent => Continues(Stored, Marked)
  BY <1>1, <1>2, <1>3, <1>4, ContinuesOn
<1> QED
  BY <1>1, <1>2, <1>3, <1>5 DEF Evolves

LEMMA WriteStep ==
    ASSUME RowInv, TypeOK', Unmarked', Save \/ Finish \/ PutFails
    PROVE  RowInv' /\ RowMoves
<1>1. pc \in Working /\ (pc = "finish" => pc \notin Opening)
  BY DEF Save, Finish, PutFails, Working, Opening
<1>2. st \in State /\ st.status # "absent" /\ Evolves(st)
  BY <1>1, WorkInHand
<1>3. pc = "finish" => Marked \in State /\ Marked.status # "absent" /\ Evolves(Marked)
  BY <1>1, MarkedEvolves
<1>4. CASE Save
  <2>1. /\ RowsReal' /\ RowMoves /\ row'[body[cur].user] = st
    BY <1>1, <1>2, <1>4, PutMoves DEF Save
  <2>2. UNCHANGED <<cur, body, st>> /\ pc' = AfterPut[pc]
    BY <1>4 DEF Save, Goto, queueVars
  <2>3. pc' # "model"
    BY <1>4, <2>2 DEF Save, AfterPut
  <2>4. Stored' = st
    BY <2>1, <2>2 DEF Stored
  <2>5. Continues(Stored, st)'
    BY <1>2, <2>2, <2>4, ContinuesSelf
  <2>6. CopyReal'
    BY <1>2, <2>2, <2>3, <2>5 DEF CopyReal, Evolves
  <2> QED
    BY <2>1, <2>6 DEF RowInv
<1>5. CASE Finish
  <2>1. RowsReal' /\ RowMoves
    BY <1>1, <1>3, <1>5, PutMoves DEF Finish
  <2>2. pc' \notin Working
    BY <1>5, WorkingSteps DEF Finish, Goto
  <2> QED
    BY <2>1, <2>2 DEF RowInv, CopyReal
<1>6. CASE PutFails
  <2>1. pc' \notin Working
    BY <1>6, WorkingSteps DEF PutFails, Goto
  <2>2. CASE row' = row
    BY <2>1, <2>2, NothingWorkedOn DEF RowMoves
  <2>3. CASE Put(IF pc = "finish" THEN Marked ELSE st)
    <3>1. RowsReal' /\ RowMoves
      BY <1>1, <1>2, <1>3, <2>3, PutMoves
    <3> QED
      BY <2>1, <3>1 DEF RowInv, CopyReal
  <2> QED
    BY <1>6, <2>2, <2>3 DEF PutFails
<1> QED
  BY <1>4, <1>5, <1>6

(* The state routed is the row's, a new one, or the row's one turn on.     *)
LEMMA RouteStep ==
    ASSUME RowInv, TypeOK', Unmarked',
           RouteStale \/ RouteFollowup \/ RouteRetry \/ RouteNudge \/ RouteInterview
    PROVE  RowInv'
<1>1. /\ Handling /\ pc # "idle" /\ Ours(cur) /\ UNCHANGED <<row, cur, body>>
  BY DEF RouteStale, RouteFollowup, RouteRetry, RouteNudge, RouteInterview, Handling,
         Loading, Route, Goto, queueVars
<1>2. /\ cur \in Message /\ Id \in Message /\ Id # None /\ Stored \in State
      /\ Opened \in State /\ Turned \in State
      /\ Stored = Absent \/ Stored.status # "absent"
      /\ body[cur].kind \in {"text", "card"}
  BY <1>1, InHand, OpenedType, TurnedType, BrainAssumption DEF RowInv, RowsReal, Stored
<1>3. Id' = Id /\ Stored' = Stored /\ RowsReal'
  BY <1>1 DEF Id, Stored, RowInv, RowsReal
<1>4. /\ Fresh(Id).status = "interviewing" /\ Fresh(Id).started = None
      /\ Fresh(Id).inc = Id /\ Fresh(Id).turns = <<>> /\ ~ Fresh(Id).cardSent
  BY DEF Fresh, Absent
<1>5. CASE RouteStale \/ RouteFollowup \/ RouteRetry \/ RouteNudge
  <2>1. /\ Opened.status \in Terminal /\ st' = Opened
        /\ pc' \in {"stale", "answer", "investigating", "nudge"}
    BY <1>5 DEF RouteStale, RouteFollowup, RouteRetry, RouteNudge, Route, Goto, Terminal
  <2>2. Opened = Stored /\ Stored # Absent
    BY <1>4, <2>1, AbsentCompleted DEF Opened, Terminal
  <2>3. Continues(Stored, st')
    BY <1>2, <2>1, <2>2, ContinuesSelf
  <2> QED
    BY <1>2, <1>3, <2>1, <2>2, <2>3 DEF RowInv, CopyReal, Evolves
<1>6. CASE RouteInterview
  <2>1. /\ Opened.status = "interviewing" /\ st' = Turned
        /\ pc' = IF Turned.cardSent THEN "model" ELSE "intro"
    BY <1>6 DEF RouteInterview, Route, Goto
  <2>2. Turned.status = "interviewing"
    BY <1>2, <2>1 DEF Turned, Incorporate, State
  <2>3. Evolves(st)'
    <3>1. CASE Stored = Absent
      BY <1>3, <3>1 DEF Evolves
    <3>2. CASE StartsNewIncident
      <4>1. Opened = Fresh(Id) /\ ~ IsCard /\ body[cur].kind = "text"
        BY <1>2, <3>2 DEF Opened, StartsNewIncident, IsCard
      <4>2. Turned = [Fresh(Id) EXCEPT !.started = Id,
                                       !.turns = Append(<<>>, [role |-> "user", act |-> Id])]
        BY <1>2, <1>4, <4>1 DEF Turned, Incorporate
      <4>3. Turned.inc = Id /\ ~ Turned.cardSent /\ Len(Turned.turns) = 1
        BY <1>4, <4>2 DEF Fresh, Absent
      <4>4. Replaces(Stored, st)'
        BY <1>1, <1>3, <2>1, <3>2, <4>1, <4>3
           DEF Replaces, StartsNewIncident, SummaryPlace
      <4> QED
        BY <2>1, <4>3, <4>4 DEF Evolves, Opening
    <3>3. CASE Stored # Absent /\ ~ StartsNewIncident
      <4>1. Opened = Stored /\ Stored.status = "interviewing"
        BY <2>1, <3>3 DEF Opened
      <4>2. CASE Turned = Stored
        BY <1>2, <1>3, <2>1, <3>3, <4>2, ContinuesSelf DEF Evolves
      <4>3. CASE Turned = Incorporate(Stored)
        <5>1. /\ Turned.inc = Stored.inc
              /\ Turned.turns = Append(Stored.turns, [role |-> "user", act |-> Id])
              /\ Turned.status = Stored.status
              /\ Stored.forms \subseteq Turned.forms
          BY <1>2, <4>3 DEF Incorporate, State
        <5>2. [role |-> "user", act |-> Id] \in Turn
          BY <1>2 DEF Turn
        <5>3. Rank(Stored) = 1 /\ Rank(Turned) = 1
          BY <2>2, <4>1, Ranks
        <5>4. Advances(Stored, Turned)
          BY <4>1, <5>1, <5>2, <5>3 DEF Advances, Terminal
        <5>5. Continues(Stored, Turned)
          BY <1>2, <2>2, <3>3, <5>4, ContinuesSelf, ContinuesOn
        <5> QED
          BY <1>3, <2>1, <5>5 DEF Evolves
      <4> QED
        BY <4>1, <4>2, <4>3 DEF Turned
    <3> QED
      BY <3>1, <3>2, <3>3
  <2> QED
    BY <1>3, <2>1, <2>2, <2>3 DEF RowInv, CopyReal
<1> QED
  BY <1>5, <1>6

(* Sending a reply, and what the model and the investigation answer.       *)
LEMMA SendStep == ASSUME RowInv, TypeOK', Unmarked', Send PROVE RowInv'
<1>1. pc \in Working /\ UNCHANGED <<row, cur, body>> /\ pc' = AfterSend[pc]
  BY DEF Send, Goto, queueVars, Working
<1>2. st \in State /\ st.status # "absent"
  BY <1>1, WorkInHand
<1>3. /\ st'.inc = st.inc /\ st'.turns = st.turns /\ st'.status = st.status
      /\ st'.summary = st.summary /\ st'.place = st.place /\ st'.forms = st.forms
  BY <1>2 DEF Send, State
<1>4. pc' # "model" /\ (pc' \in Opening \/ pc \notin Opening)
  BY <1>1 DEF Send, Kind, AfterSend, Opening
<1> QED
  BY <1>1, <1>2, <1>3, <1>4, CopyAdvances

LEMMA AnswerAdvances ==
    ASSUME RowInv, pc = "model", NEW p \in Place, NEW t \in State,
           t.status \in {"interviewing", "complete"},
           t.inc = Answer(p).inc, t.turns = Answer(p).turns, t.forms = Answer(p).forms
    PROVE  Advances(st, t)
<1>1. st \in State /\ Id \in Message /\ st.status = "interviewing"
  BY WorkInHand DEF RowInv, CopyReal, Working
<1>2. /\ t.inc = st.inc /\ t.forms = st.forms
      /\ t.turns = Append(st.turns, [role |-> "bot", act |-> Id])
  BY <1>1 DEF Answer, State
<1>3. [role |-> "bot", act |-> Id] \in Turn
  BY <1>1 DEF Turn
<1>4. Rank(st) = 1 /\ Rank(t) \in {1, 2}
  BY <1>1, Ranks
<1> QED
  BY <1>1, <1>2, <1>3, <1>4 DEF Advances, Terminal

LEMMA ModelStep ==
    ASSUME RowInv, TypeOK', Unmarked',
           \/ ModelFails
           \/ \E p \in Place : ModelAsks(p) \/ \E q \in Place : ModelCompletes(p, q)
    PROVE  RowInv'
<1>1. /\ pc = "model" /\ pc \in Working /\ pc \notin Opening
      /\ UNCHANGED <<row, cur, body>> /\ pc' # "model"
  BY DEF ModelFails, ModelAsks, ModelCompletes, Goto, queueVars, Working, Opening
<1>2. st \in State /\ st' \in State /\ st.status = "interviewing"
  BY <1>1, WorkInHand DEF RowInv, CopyReal, TypeOK
<1>3. CASE ModelFails
  <2>1. st' = st /\ Rank(st) = 1
    BY <1>2, <1>3, Ranks DEF ModelFails
  <2>2. Advances(st, st')
    BY <2>1 DEF Advances
  <2> QED
    BY <1>1, <1>2, <2>1, <2>2, CopyAdvances
<1>4. ASSUME NEW p \in Place, ModelAsks(p) PROVE RowInv'
  <2>1. st' = Answer(p) /\ st'.status = "interviewing"
    BY <1>2, <1>4 DEF ModelAsks, Answer, State
  <2>2. Advances(st, st')
    BY <1>1, <1>2, <2>1, AnswerAdvances
  <2> QED
    BY <1>1, <2>1, <2>2, CopyAdvances
<1>5. ASSUME NEW p \in Place, NEW q \in Place, ModelCompletes(p, q) PROVE RowInv'
  <2>1. Answer(p) \in State
    BY <1>1, AnswerType DEF RowInv
  <2>2. st' = [Answer(p) EXCEPT !.status = "complete", !.summary = q]
    BY <1>5 DEF ModelCompletes
  <2>3. /\ st'.status = "complete" /\ st'.inc = Answer(p).inc
        /\ st'.turns = Answer(p).turns /\ st'.forms = Answer(p).forms
    BY <2>1, <2>2 DEF State
  <2>4. Advances(st, st')
    BY <1>1, <1>2, <2>3, AnswerAdvances
  <2> QED
    BY <1>1, <2>3, <2>4, CopyAdvances
<1> QED
  BY <1>3, <1>4, <1>5

LEMMA InvestigationStep ==
    ASSUME RowInv, TypeOK', Unmarked', InvestigationFails \/ InvestigationReports
    PROVE  RowInv'
<1>1. /\ pc \in Working /\ pc \notin Opening
      /\ UNCHANGED <<row, cur, body>> /\ pc' # "model"
  BY DEF InvestigationFails, InvestigationReports, Goto, queueVars, Working, Opening
<1>2. st \in State /\ st.status # "absent" /\ Rank(st) \in 1 .. 3
  BY <1>1, WorkInHand, RankType
<1>3. CASE InvestigationFails
  <2>1. st' = st
    BY <1>3 DEF InvestigationFails
  <2>2. Advances(st, st')
    BY <1>2, <2>1 DEF Advances
  <2> QED
    BY <1>1, <1>2, <2>1, <2>2, CopyAdvances
<1>4. CASE InvestigationReports
  <2>1. /\ st'.status = "investigated" /\ st'.inc = st.inc /\ st'.turns = st.turns
        /\ st'.summary = st.summary /\ st'.place = st.place /\ st'.forms = st.forms
    BY <1>2, <1>4 DEF InvestigationReports, State
  <2>2. Rank(st') = 3
    BY <2>1, Ranks
  <2>3. Advances(st, st')
    BY <1>2, <2>1, <2>2 DEF Advances
  <2> QED
    BY <1>1, <2>1, <2>3, CopyAdvances
<1> QED
  BY <1>3, <1>4
-----------------------------------------------------------------------------
(* Every step.                                                             *)

LEMMA RowStep == RowInv /\ [Next]_vars => RowInv' /\ RowMoves
<1> SUFFICES ASSUME RowInv, [Next]_vars PROVE RowInv' /\ RowMoves
  OBVIOUS
<1>1. TypeOK' /\ Unmarked'
  BY NextType, UnmarkedNext DEF RowInv
<1>2. row' = row => RowMoves
  BY DEF RowMoves
<1>3. ASSUME NEW m \in Message, NEW b, Post(m, b) PROVE RowInv' /\ RowMoves
  <2>1. UNCHANGED <<pc, cur, st, row>> /\ (pc \in Working => body'[cur] = body[cur])
    <3>1. pc \in Working => cur \in Message /\ queue[cur] # "unposted"
      BY WorkingSteps DEF RowInv, TypeOK
    <3> QED
      BY <1>3, <3>1 DEF Post, processVars, RowInv, TypeOK
  <2> QED
    BY <1>1, <1>2, <2>1, CopyStays
<1>4. CASE LockLost \/ (\E m \in Message : OrphanLockExpires(m)) \/ UNCHANGED vars
  <2>1. UNCHANGED <<pc, cur, st, row, body>>
    BY <1>4 DEF LockLost, OrphanLockExpires, processVars, vars
  <2> QED
    BY <1>1, <1>2, <2>1, CopyStays
<1>5. ASSUME NEW u \in User, Expire(u) PROVE RowInv' /\ RowMoves
  <2>1. UNCHANGED <<pc, cur, st, body>> /\ row' = [row EXCEPT ![u] = Absent]
    BY <1>5 DEF Expire, queueVars, processVars
  <2>2. \A v \in User : row'[v] \in {row[v], Absent}
    BY <2>1 DEF RowInv, TypeOK
  <2> QED
    BY <1>1, <2>1, <2>2, CopyStays DEF RowMoves
<1>6. CASE \/ \E m \in Message : Receive(m)
           \/ Complete \/ CompleteFails \/ Abandon \/ AbandonFails
           \/ Drop \/ SenderUnknown \/ SkipSeen \/ GetFails \/ SkipCompleted
           \/ SendFails \/ ModelRaises \/ Crash
  <2>1. pc' \in {"idle", "check", "settle", "abandon"} /\ row' = row
    BY <1>6 DEF Receive, Complete, CompleteFails, Abandon, AbandonFails, Drop, SenderUnknown,
       SkipSeen, GetFails, SkipCompleted, SendFails, ModelRaises, Crash, NextMessage, Goto
  <2> QED
    BY <1>1, <1>2, <2>1, WorkingSteps, NothingWorkedOn
<1>7. CASE RouteStale \/ RouteFollowup \/ RouteRetry \/ RouteNudge \/ RouteInterview
  <2>1. row' = row
    BY <1>7 DEF RouteStale, RouteFollowup, RouteRetry, RouteNudge, RouteInterview, Route
  <2> QED
    BY <1>1, <1>2, <1>7, <2>1, RouteStep
<1>8. CASE Send
  BY <1>1, <1>2, <1>8, SendStep DEF Send
<1>9. CASE \/ ModelFails
           \/ \E p \in Place : ModelAsks(p) \/ \E q \in Place : ModelCompletes(p, q)
  <2>1. row' = row
    BY <1>9 DEF ModelFails, ModelAsks, ModelCompletes
  <2> QED
    BY <1>1, <1>2, <1>9, <2>1, ModelStep
<1>10. CASE InvestigationFails \/ InvestigationReports
  <2>1. row' = row
    BY <1>10 DEF InvestigationFails, InvestigationReports
  <2> QED
    BY <1>1, <1>2, <1>10, <2>1, InvestigationStep
<1>11. CASE Save \/ Finish \/ PutFails
  BY <1>1, <1>11, WriteStep
<1> QED
  BY <1>3, <1>4, <1>5, <1>6, <1>7, <1>8, <1>9, <1>10, <1>11
     DEF Next, Quiet, Environ, Process, PostText, PostCard, PostForeign, PostNameless,
         PostAgain

LEMMA RowInit == Init => RowInv
<1> SUFFICES ASSUME Init PROVE RowInv
  OBVIOUS
<1>1. TypeOK /\ pc = "idle" /\ \A u \in User : row[u] = Absent
  BY InitType DEF Init
<1> QED
  BY <1>1, WorkingSteps DEF RowInv, Unmarked, RowsReal, CopyReal

(* Nothing of an interview is lost or overwritten and its status never     *)
(* goes back, whichever turns are redelivered, fail between their writes,  *)
(* or find their row gone (app.py:334-347): RowInv says that the copy a    *)
(* turn works on is always what its row may become.                        *)
THEOREM RowsEvolve == Spec => RowEvolves
<1>1. RowInv /\ [Next]_vars => [RowMoves]_vars
  BY RowStep
<1>2. Spec => [][RowMoves]_vars
  BY <1>1, RowInit, RowStep, PTL DEF Spec
<1> QED
  BY <1>2 DEF RowEvolves, RowMoves
-----------------------------------------------------------------------------
(* What a step of a process does to the table.                             *)
Writing == DOMAIN AfterPut \cup {"finish"}

LEMMA RowWrites ==
    ASSUME RowInv, [Next]_vars, NEW u \in User
    PROVE  \/ row'[u] = row[u]
           \/ row'[u] = Absent
           \/ /\ pc \in Writing /\ u = body[cur].user
              /\ row'[u] = st \/ (pc = "finish" /\ row'[u] = Marked)
<1>1. row \in [User -> State]
  BY DEF RowInv, TypeOK
<1>2. ASSUME NEW s, Put(s), row'[u] # row[u] PROVE row'[u] = s /\ u = body[cur].user
  BY <1>1, <1>2 DEF Put
<1>3. CASE Save
  BY <1>2, <1>3 DEF Save, Writing
<1>4. CASE Finish
  BY <1>2, <1>4 DEF Finish, Writing
<1>5. CASE PutFails
  <2>1. CASE pc = "finish"
    BY <1>2, <1>5, <2>1 DEF PutFails, Writing
  <2>2. CASE pc # "finish"
    BY <1>2, <1>5, <2>2 DEF PutFails, Writing
  <2> QED
    BY <2>1, <2>2
<1>6. ASSUME NEW v \in User, Expire(v) PROVE row'[u] = row[u] \/ row'[u] = Absent
  BY <1>1, <1>6 DEF Expire
<1>7. CASE row' = row
  BY <1>7
<1>8. \/ row' = row \/ Save \/ Finish \/ PutFails
      \/ \E v \in User : Expire(v)
  BY DEF Next, Environ, Process, Crash, Quiet, vars,
         PostText, PostCard, PostForeign, PostNameless, PostAgain, Post, OrphanLockExpires,
         LockLost, Receive, Complete, CompleteFails, Abandon, AbandonFails, Drop,
         SenderUnknown, SkipSeen, GetFails, SkipCompleted, RouteStale, RouteFollowup,
         RouteRetry, RouteNudge, RouteInterview, Route, Send, SendFails, ModelFails,
         ModelRaises, ModelAsks, ModelCompletes, InvestigationFails, InvestigationReports
<1> QED
  BY <1>3, <1>4, <1>5, <1>6, <1>7, <1>8

(* Whatever is not a step of the turn in hand leaves its copy alone, or    *)
(* ends it.                                                                *)
InTurn ==
    \/ RouteStale \/ RouteFollowup \/ RouteRetry \/ RouteNudge \/ RouteInterview
    \/ Send \/ Save \/ ModelFails
    \/ \E p \in Place : ModelAsks(p) \/ \E q \in Place : ModelCompletes(p, q)
    \/ InvestigationFails \/ InvestigationReports

LEMMA OutOfTurn ==
    ASSUME RowInv, [Next]_vars, ~ InTurn, pc' \in Working
    PROVE  UNCHANGED <<pc, cur, st, sent>>
<1>1. CASE \/ \E m \in Message : Receive(m)
           \/ Complete \/ CompleteFails \/ Abandon \/ AbandonFails
           \/ Drop \/ SenderUnknown \/ SkipSeen \/ GetFails \/ SkipCompleted
           \/ SendFails \/ Finish \/ PutFails \/ ModelRaises \/ Crash
  <2>1. pc' \in {"idle", "check", "settle", "abandon"}
    BY <1>1 DEF Receive, Complete, CompleteFails, Abandon, AbandonFails, Drop, SenderUnknown,
       SkipSeen, GetFails, SkipCompleted, SendFails, Finish, PutFails, ModelRaises, Crash,
       NextMessage, Goto
  <2> QED
    BY <2>1, WorkingSteps
<1>2. CASE Environ \/ Quiet \/ UNCHANGED vars
  BY <1>2 DEF Environ, Quiet, vars, processVars, Post, PostText, PostCard, PostForeign,
     PostNameless, PostAgain, OrphanLockExpires, LockLost, Expire
<1> QED
  BY <1>1, <1>2 DEF Next, Process, InTurn
-----------------------------------------------------------------------------
(* ResumeSound.                                                            *)

(* What ResumeSound says of a row, of any state.                           *)
Sound(s) ==
    /\ s.turns # <<>> /\ s.turns[1] = [role |-> "user", act |-> s.inc]
    /\ \E i \in UserTurns(s) : /\ s.turns[i].act = s.started
                               /\ \A j \in UserTurns(s) : j <= i
    /\ \A i, j \in UserTurns(s) : i < j /\ s.turns[i].act = s.turns[j].act =>
          \E k \in UserTurns(s) : i < k /\ k < j /\ s.turns[k].act # s.turns[i].act

LEMMA SoundSame ==
    ASSUME NEW s, NEW t, Sound(s),
           t.turns = s.turns, t.inc = s.inc, t.started = s.started
    PROVE  Sound(t)
<1>1. UserTurns(t) = UserTurns(s)
  BY DEF UserTurns
<1> QED
  BY <1>1 DEF Sound

(* The turn that opens an incident.                                        *)
LEMMA SoundOpening ==
    ASSUME NEW t, NEW a, t.turns = Append(<<>>, [role |-> "user", act |-> a]),
           t.inc = a, t.started = a
    PROVE  Sound(t)
<1> DEFINE x == [role |-> "user", act |-> a]
<1>1. /\ <<>> \in Seq({x}) /\ Len(<<>>) = 0
  OBVIOUS
<1>2. t.turns \in Seq({x}) /\ Len(t.turns) = 1 /\ t.turns[1] = x
  BY <1>1
<1>3. t.turns # <<>> /\ DOMAIN t.turns = {1}
  BY <1>1, <1>2
<1>4. UserTurns(t) = {1}
  BY <1>2, <1>3 DEF UserTurns
<1> QED
  BY <1>2, <1>3, <1>4 DEF Sound

(* A transcript that is longer by its turn n.                              *)
Longer(s, t, n) ==
    /\ t.turns # <<>> /\ t.turns[1] = s.turns[1] /\ t.inc = s.inc
    /\ \A i \in UserTurns(s) : i \in Nat /\ i < n /\ t.turns[i] = s.turns[i]
    /\ \A i \in UserTurns(s) : i \in UserTurns(t)
    /\ \A i \in UserTurns(t) : i = n \/ i \in UserTurns(s)

LEMMA Appended ==
    ASSUME NEW s \in State, NEW t, NEW x \in Turn, s.turns # <<>>,
           t.turns = Append(s.turns, x), t.inc = s.inc
    PROVE  \E n \in Nat : /\ Longer(s, t, n)
                          /\ t.turns[n] = x
                          /\ n \in UserTurns(t) <=> x.role = "user"
<1>1. s.turns \in Seq(Turn)
  BY DEF State
<1>2. PICK n \in Nat : n = Len(s.turns) + 1
  BY <1>1
<1>3. n > 1 /\ DOMAIN s.turns = 1 .. n - 1
  BY <1>1, <1>2
<1>4. DOMAIN t.turns = 1 .. n /\ t.turns[n] = x /\ \A i \in 1 .. n - 1 : t.turns[i] = s.turns[i]
  BY <1>1, <1>2, <1>3
<1>5. \A i \in UserTurns(s) : i \in 1 .. n - 1
  BY <1>3 DEF UserTurns
<1>6. t.turns # <<>> /\ t.turns[1] = s.turns[1]
  BY <1>3, <1>4
<1>7. /\ \A i \in 1 .. n - 1 : i \in UserTurns(t) <=> i \in UserTurns(s)
      /\ n \in UserTurns(t) <=> x.role = "user"
      /\ \A i \in UserTurns(t) : i \in 1 .. n - 1 \/ i = n
  BY <1>3, <1>4 DEF UserTurns
<1>8. Longer(s, t, n)
  BY <1>3, <1>4, <1>5, <1>6, <1>7 DEF Longer
<1> QED
  BY <1>4, <1>7, <1>8

(* By a user's turn, of another activity than the last one started.        *)
LEMMA SoundUser ==
    ASSUME NEW s, NEW t, NEW n \in Nat, Sound(s), Longer(s, t, n),
           n \in UserTurns(t), t.turns[n].act = t.started, s.started # t.started
    PROVE  Sound(t)
<1>1. \A j \in UserTurns(t) : j <= n
  BY DEF Longer
<1>2. ASSUME NEW i \in UserTurns(t), NEW j \in UserTurns(t),
             i < j, t.turns[i].act = t.turns[j].act
      PROVE  \E k \in UserTurns(t) : i < k /\ k < j /\ t.turns[k].act # t.turns[i].act
  <2>1. i \in UserTurns(s)
    BY <1>1, <1>2 DEF Longer
  <2>2. CASE j \in UserTurns(s)
    <3>1. s.turns[i].act = s.turns[j].act
      BY <1>2, <2>1, <2>2 DEF Longer
    <3>2. PICK k \in UserTurns(s) : i < k /\ k < j /\ s.turns[k].act # s.turns[i].act
      BY <1>2, <2>1, <2>2, <3>1 DEF Sound
    <3> QED
      BY <2>1, <3>2 DEF Longer
  <2>3. CASE j = n
    <3>1. PICK k \in UserTurns(s) : s.turns[k].act = s.started /\ \A l \in UserTurns(s) : l <= k
      BY DEF Sound
    <3>2. s.turns[k] = t.turns[k] /\ s.turns[i] = t.turns[i]
      BY <2>1, <3>1 DEF Longer
    <3>3. t.turns[k].act # t.turns[i].act
      BY <1>2, <2>3, <3>1, <3>2
    <3>4. i <= k /\ i # k /\ k < n /\ i \in Nat /\ k \in Nat
      BY <2>1, <3>1, <3>3 DEF Longer
    <3>5. i < k /\ k < j
      BY <2>3, <3>4
    <3> QED
      BY <3>1, <3>3, <3>5 DEF Longer
  <2> QED
    BY <1>2, <2>2, <2>3 DEF Longer
<1> QED
  BY <1>1, <1>2 DEF Sound, Longer

(* By a turn of the bot's.                                                 *)
LEMMA SoundBot ==
    ASSUME NEW s, NEW t, NEW n \in Nat, Sound(s), Longer(s, t, n),
           n \notin UserTurns(t), t.started = s.started
    PROVE  Sound(t)
<1>1. UserTurns(t) = UserTurns(s)
  BY DEF Longer
<1> QED
  BY <1>1 DEF Sound, Longer

(* What the activity in hand makes of a state: the first turn of a new     *)
(* incident, or the next one of an interview that did not start with it.   *)
LEMMA SoundIncorporated ==
    ASSUME TypeOK, pc # "idle", Ours(cur), NEW s \in State,
           \/ s.turns = <<>> /\ s.inc = Id
           \/ Sound(s) /\ s.started # Id
    PROVE  Sound(Incorporate(s))
<1> DEFINE x == [role |-> "user", act |-> Id]
           t == Incorporate(s)
<1>1. t.turns = Append(s.turns, x) /\ t.inc = s.inc /\ t.started = Id
  BY DEF Incorporate, State
<1>2. x \in Turn
  BY InHand DEF Turn
<1> HIDE DEF t
<1>3. CASE s.turns = <<>> /\ s.inc = Id
  BY <1>1, <1>3, SoundOpening DEF t
<1>4. CASE Sound(s) /\ s.started # Id
  <2>0. s.turns # <<>>
    BY <1>4 DEF Sound
  <2>1. PICK n \in Nat : Longer(s, t, n) /\ t.turns[n] = x /\ (n \in UserTurns(t) <=> x.role = "user")
    BY <1>1, <1>2, <2>0, Appended
  <2>2. t.started = Id
    BY <1>1
  <2>3. n \in UserTurns(t) /\ t.turns[n].act = t.started /\ s.started # t.started
    BY <1>4, <2>1, <2>2
  <2>4. Sound(t)
    BY <1>4, <2>1, <2>3, SoundUser
  <2> QED
    BY <2>4 DEF t
<1> QED
  BY <1>3, <1>4

LEMMA SoundAnswer ==
    ASSUME RowInv, pc = "model", Sound(st), NEW p \in Place
    PROVE  Sound(Answer(p))
<1> DEFINE x == [role |-> "bot", act |-> Id]
           t == Answer(p)
<1>1. st \in State /\ x \in Turn
  BY InHand DEF RowInv, TypeOK, Turn
<1>2. t.turns = Append(st.turns, x) /\ t.inc = st.inc /\ t.started = st.started
  BY <1>1 DEF Answer, State
<1> HIDE DEF t
<1>3. PICK n \in Nat : Longer(st, t, n) /\ t.turns[n] = x /\ (n \in UserTurns(t) <=> x.role = "user")
  BY <1>1, <1>2, Appended DEF Sound
<1>4. n \notin UserTurns(t)
  BY <1>3
<1>5. Sound(t)
  BY <1>2, <1>3, <1>4, SoundBot
<1> QED
  BY <1>5 DEF t

(* The copy a turn works on is sound throughout.                           *)
CopySound == pc \in Working => Sound(st)

SoundInv == RowInv /\ ResumeSound /\ CopySound

LEMMA RowsSound == ResumeSound <=> \A u \in User : row[u] # Absent => Sound(row[u])
BY DEF ResumeSound, Sound

LEMMA CopySoundStep ==
    ASSUME SoundInv, [Next]_vars
    PROVE  CopySound'
<1>1. RowInv /\ TypeOK /\ st \in State /\ CopySound
  BY DEF SoundInv, RowInv, TypeOK
<1>2. CASE ~ InTurn
  BY <1>1, <1>2, OutOfTurn DEF CopySound
<1>3. CASE RouteStale \/ RouteFollowup \/ RouteRetry \/ RouteNudge \/ RouteInterview
  <2>1. /\ pc # "idle" /\ Ours(cur)
    BY <1>3 DEF RouteStale, RouteFollowup, RouteRetry, RouteNudge, RouteInterview, Handling,
       Loading
  <2>2. Opened \in State /\ body[cur].user \in User /\ Id \in Message /\ Id # None
    BY <1>1, <2>1, OpenedType, InHand, BrainAssumption
  <2>3. /\ Fresh(Id).status = "interviewing" /\ Fresh(Id).started = None
        /\ Fresh(Id).inc = Id /\ Fresh(Id).turns = <<>>
    BY DEF Fresh, Absent
  <2>4. Opened = Fresh(Id) \/ Sound(Opened)
    BY <2>2, RowsSound DEF Opened, Stored, SoundInv
  <2>5. CASE RouteStale \/ RouteFollowup \/ RouteRetry \/ RouteNudge
    <3>1. st' = Opened /\ Opened.status \in Terminal
      BY <2>5 DEF RouteStale, RouteFollowup, RouteRetry, RouteNudge, Route, Terminal
    <3>2. Opened # Fresh(Id)
      BY <2>3, <3>1 DEF Terminal
    <3> QED
      BY <2>4, <3>1, <3>2 DEF CopySound
  <2>6. CASE RouteInterview
    <3>1. st' = Turned
      BY <2>6 DEF RouteInterview, Route
    <3>2. CASE Opened.started = Id
      BY <2>2, <2>3, <2>4, <3>1, <3>2 DEF Turned, CopySound
    <3>3. CASE Opened.started # Id
      <4>1. Sound(Incorporate(Opened))
        BY <1>1, <2>1, <2>2, <2>3, <2>4, <3>3, SoundIncorporated
      <4> QED
        BY <3>1, <3>3, <4>1 DEF Turned, CopySound
    <3> QED
      BY <3>2, <3>3
  <2> QED
    BY <1>3, <2>5, <2>6
<1>4. CASE Send \/ Save \/ ModelFails \/ InvestigationFails \/ InvestigationReports
  <2>1. pc \in Working
    BY <1>4 DEF Send, Save, ModelFails, InvestigationFails, InvestigationReports, Working
  <2>2. st'.turns = st.turns /\ st'.inc = st.inc /\ st'.started = st.started
    BY <1>1, <1>4 DEF Send, Save, ModelFails, InvestigationFails, InvestigationReports, State
  <2> QED
    BY <1>1, <2>1, <2>2, SoundSame DEF CopySound
<1>5. ASSUME NEW p \in Place, ModelAsks(p) \/ \E q \in Place : ModelCompletes(p, q)
      PROVE  CopySound'
  <2>1. pc = "model" /\ pc \in Working
    BY <1>5 DEF ModelAsks, ModelCompletes, Working
  <2>2. Sound(Answer(p)) /\ Answer(p) \in State
    BY <1>1, <2>1, SoundAnswer, AnswerType DEF CopySound
  <2>3. /\ st'.turns = Answer(p).turns /\ st'.inc = Answer(p).inc
        /\ st'.started = Answer(p).started
    BY <1>5, <2>2 DEF ModelAsks, ModelCompletes, State
  <2> QED
    BY <2>2, <2>3, SoundSame DEF CopySound
<1> QED
  BY <1>2, <1>3, <1>4, <1>5 DEF InTurn

LEMMA SoundNext == SoundInv /\ [Next]_vars => SoundInv'
<1> SUFFICES ASSUME SoundInv, [Next]_vars PROVE SoundInv'
  OBVIOUS
<1>1. RowInv /\ RowInv' /\ CopySound' /\ st \in State
  BY RowStep, CopySoundStep DEF SoundInv, RowInv, TypeOK
<1>2. Marked.turns = st.turns /\ Marked.inc = st.inc /\ Marked.started = st.started
  BY <1>1 DEF Marked, State
<1>3. pc \in Writing => Sound(st) /\ Sound(Marked)
  BY <1>2, SoundSame DEF SoundInv, CopySound, Writing, Working
<1>4. ASSUME NEW u \in User, row'[u] # Absent PROVE Sound(row'[u])
  BY <1>1, <1>3, <1>4, RowWrites, RowsSound DEF SoundInv
<1>5. ResumeSound'
  BY <1>4 DEF ResumeSound, Sound
<1> QED
  BY <1>1, <1>5 DEF SoundInv

(* The transcript that a redelivery resumes from is sound in every row:    *)
(* SoundInv says so of the copy that a turn works on too, at every step    *)
(* between two writes (app.py:389-394, state_store.py:73-79).              *)
THEOREM TranscriptsAreSound == Spec => []ResumeSound
<1>1. Init => SoundInv
  <2> SUFFICES ASSUME Init PROVE SoundInv
    OBVIOUS
  <2>1. pc = "idle" /\ \A u \in User : row[u] = Absent
    BY DEF Init
  <2> QED
    BY <2>1, RowInit, RowsSound, WorkingSteps DEF SoundInv, CopySound
<1>2. SoundInv => ResumeSound
  BY DEF SoundInv
<1> QED
  BY <1>1, <1>2, SoundNext, PTL DEF Spec
-----------------------------------------------------------------------------
(* ToldBeforeRecorded.                                                     *)

(* What was posted stays posted, as it was.                                *)
LEMMA PostedStays ==
    ASSUME TypeOK, [Next]_vars
    PROVE  \A m \in Message : queue[m] # "unposted" => body'[m] = body[m] /\ queue'[m] # "unposted"
<1>1. /\ queue \in [Message -> {"unposted", "ready", "locked", "done", "dead"}]
      /\ body \in [Message -> Body \cup {None}]
      /\ \A m \in Message : Released(m) # "unposted"
  BY DEF TypeOK, Released
<1>2. ASSUME NEW m \in Message, NEW b, Post(m, b)
      PROVE  \A n \in Message : queue[n] # "unposted" => body'[n] = body[n] /\ queue'[n] # "unposted"
  BY <1>1, <1>2 DEF Post
<1>3. ASSUME NEW m \in Message, OrphanLockExpires(m) \/ Receive(m)
      PROVE  \A n \in Message : queue[n] # "unposted" => body'[n] = body[n] /\ queue'[n] # "unposted"
  BY <1>1, <1>3 DEF OrphanLockExpires, Receive
<1>4. CASE LockLost \/ Complete \/ CompleteFails \/ Abandon \/ AbandonFails
  <2>1. body' = body
    BY <1>4 DEF LockLost, Complete, CompleteFails, Abandon, AbandonFails
  <2>2. queue' = queue \/ (HoldsLock /\ \E to : to # "unposted" /\ queue' = [queue EXCEPT ![cur] = to])
    <3>1. HoldsLock => cur \in Message /\ Released(cur) # "unposted"
      BY <1>1 DEF HoldsLock, TypeOK
    <3> QED
      BY <1>4, <3>1 DEF LockLost, Complete, CompleteFails, Abandon, AbandonFails
  <2> QED
    BY <1>1, <2>1, <2>2
<1>5. CASE UNCHANGED <<body, queue>>
  BY <1>5
<1>6. \/ UNCHANGED <<body, queue>>
      \/ LockLost \/ Complete \/ CompleteFails \/ Abandon \/ AbandonFails
      \/ \E m \in Message : OrphanLockExpires(m) \/ Receive(m) \/ \E b : Post(m, b)
  BY DEF Next, Environ, Process, Crash, Quiet, vars, queueVars,
         PostText, PostCard, PostForeign, PostNameless, PostAgain, Expire, Drop,
         SenderUnknown, SkipSeen, GetFails, SkipCompleted, RouteStale, RouteFollowup,
         RouteRetry, RouteNudge, RouteInterview, Route, Send, SendFails, Save, Finish,
         PutFails, ModelFails, ModelRaises, ModelAsks, ModelCompletes, InvestigationFails,
         InvestigationReports
<1> QED
  BY <1>2, <1>3, <1>4, <1>5, <1>6

(* An activity bears the name of a message that carries it, and replies    *)
(* are to such names only.                                                 *)
Named(m) == body[m].id \in Message /\ queue[body[m].id] # "unposted" /\ body[body[m].id] = body[m]

AllNamed ==
    /\ \A m \in Message : queue[m] # "unposted" => Named(m)
    /\ \A r \in sent : queue[r.act] # "unposted"

(* A reply is the one of the process's step.                               *)
LEMMA Sends ==
    ASSUME TypeOK, Unmarked, [Next]_vars
    PROVE  \/ sent' = sent
           \/ /\ pc \in Kind /\ Id \in Message /\ cur \in Message /\ queue[cur] # "unposted"
              /\ sent' = sent \cup {[act |-> Id, kind |-> pc]}
<1>1. sent' = sent \/ (pc \in Kind /\ sent' = sent \cup {[act |-> Id, kind |-> pc]})
  BY DEF Next, Environ, Process, Crash, Quiet, vars,
         PostText, PostCard, PostForeign, PostNameless, PostAgain, Post, OrphanLockExpires,
         LockLost, Expire, Receive, Complete, CompleteFails, Abandon, AbandonFails, Drop,
         SenderUnknown, SkipSeen, GetFails, SkipCompleted, RouteStale, RouteFollowup,
         RouteRetry, RouteNudge, RouteInterview, Route, Send, SendFails, Replied, Save,
         Finish, PutFails, ModelFails, ModelRaises, ModelAsks, ModelCompletes,
         InvestigationFails, InvestigationReports
<1>2. pc \in Kind => pc # "idle"
  BY WorkingSteps DEF Working
<1> QED
  BY <1>1, <1>2, InHand DEF TypeOK

LEMMA NamesStep ==
    ASSUME RowInv, AllNamed, [Next]_vars
    PROVE  AllNamed'
<1>1. /\ TypeOK /\ Unmarked
      /\ body \in [Message -> Body \cup {None}]
      /\ queue \in [Message -> {"unposted", "ready", "locked", "done", "dead"}]
      /\ sent \in SUBSET Reply
  BY DEF RowInv, TypeOK
<1>2. \A m \in Message : queue[m] # "unposted" => body'[m] = body[m] /\ queue'[m] # "unposted"
  BY <1>1, PostedStays
<1>3. ASSUME NEW m \in Message, queue[m] # "unposted" PROVE Named(m)'
  BY <1>2, <1>3 DEF AllNamed, Named
<1>4. ASSUME NEW m \in Message, queue[m] = "unposted", queue'[m] # "unposted" PROVE Named(m)'
  <2>1. ASSUME NEW b, Post(m, b), b.id = m PROVE Named(m)'
    BY <1>1, <2>1 DEF Post, Named
  <2>2. ASSUME NEW n \in Message, PostAgain(m, n) PROVE Named(m)'
    <3>1. Named(n) /\ body[n].id # m /\ body'[m] = body[n]
      BY <1>1, <1>4, <2>2 DEF PostAgain, Post, AllNamed, Named
    <3>2. body'[body[n].id] = body[n] /\ queue'[body[n].id] # "unposted"
      BY <1>2, <3>1 DEF Named
    <3> QED
      BY <3>1, <3>2 DEF Named
  <2>3. \/ \E n \in Message : PostAgain(m, n)
        \/ \E b : Post(m, b) /\ b.id = m
    <3>1. ASSUME NEW k \in Message, NEW b, Post(k, b) PROVE k = m
      BY <1>1, <1>4, <3>1 DEF Post
    <3>2. \E k \in Message : \/ \E u \in User, t \in Text : PostText(k, u, t)
                             \/ \E u \in User, f \in Message, p \in Place : PostCard(k, u, f, p)
                             \/ PostForeign(k) \/ PostNameless(k)
                             \/ \E n \in Message : PostAgain(k, n)
      <4>1. ASSUME NEW k \in Message, OrphanLockExpires(k) \/ Receive(k) PROVE FALSE
        BY <1>1, <1>4, <4>1 DEF OrphanLockExpires, Receive
      <4>2. ~ (LockLost \/ Complete \/ CompleteFails \/ Abandon \/ AbandonFails)
        BY <1>1, <1>4 DEF LockLost, Complete, CompleteFails, Abandon, AbandonFails, HoldsLock
      <4>3. Environ
        BY <1>4, <4>1, <4>2
           DEF Next, Process, Crash, Quiet, vars, queueVars, Drop,
           SenderUnknown, SkipSeen, GetFails, SkipCompleted, RouteStale, RouteFollowup,
           RouteRetry, RouteNudge, RouteInterview, Route, Send, SendFails, Save, Finish,
           PutFails, ModelFails, ModelRaises, ModelAsks, ModelCompletes, InvestigationFails,
           InvestigationReports
      <4>4. \A u \in User : ~ Expire(u)
        BY <1>4 DEF Expire, queueVars
      <4> QED
        BY <4>1, <4>2, <4>3, <4>4 DEF Environ
    <3>3. ASSUME NEW k \in Message, NEW n \in Message, PostAgain(k, n)
          PROVE  PostAgain(m, n)
      BY <3>1, <3>3 DEF PostAgain
    <3>4. ASSUME NEW k \in Message, NEW b, Post(k, b), b.id = k
          PROVE  Post(m, b) /\ b.id = m
      BY <3>1, <3>4
    <3>5. ASSUME NEW k \in Message, NEW u \in User, NEW t \in Text, PostText(k, u, t)
          PROVE  \E b : Post(m, b) /\ b.id = m
      BY <3>4, <3>5 DEF PostText
    <3>6. ASSUME NEW k \in Message, NEW u \in User, NEW f \in Message, NEW p \in Place,
                 PostCard(k, u, f, p)
          PROVE  \E b : Post(m, b) /\ b.id = m
      BY <3>4, <3>6 DEF PostCard
    <3>7. ASSUME NEW k \in Message, PostForeign(k) \/ PostNameless(k)
          PROVE  \E b : Post(m, b) /\ b.id = m
      BY <3>4, <3>7 DEF PostForeign, PostNameless
    <3> QED
      BY <3>2, <3>3, <3>5, <3>6, <3>7
  <2> QED
    BY <2>1, <2>2, <2>3
<1>5. \A r \in sent' : queue'[r.act] # "unposted"
  <2>1. \A r \in sent : r.act \in Message
    BY <1>1 DEF Reply
  <2>2. CASE sent' = sent
    BY <1>2, <2>1, <2>2 DEF AllNamed
  <2>3. CASE /\ Id \in Message /\ cur \in Message /\ queue[cur] # "unposted"
             /\ sent' = sent \cup {[act |-> Id, kind |-> pc]}
    <3>1. queue[Id] # "unposted"
      BY <2>3 DEF AllNamed, Named, Id
    <3> QED
      BY <1>2, <2>1, <2>3, <3>1 DEF AllNamed
  <2> QED
    BY <1>1, <2>2, <2>3, Sends
<1> QED
  BY <1>3, <1>4, <1>5 DEF AllNamed

(* What user u was told of state s.                                        *)
Shown(s, u)   == s.cardSent /\ (s.forms # {} \/ s.inc \in CardsShown(u))
Summarised(s) == s.status \in Terminal => [act |-> Last(s.turns).act, kind |-> "summary"] \in sent
HasReport(u)  == \E r \in sent : r.kind = "report" /\ body[r.act].user = u
Reported(s, u) == s.status = "investigated" => HasReport(u)

LEMMA RowsTold ==
    ToldBeforeRecorded <=>
        \A u \in User : /\ row[u] # Absent => Shown(row[u], u)
                        /\ Summarised(row[u]) /\ Reported(row[u], u)
BY DEF ToldBeforeRecorded, Shown, Summarised, Reported, HasReport

(* What was told stays told.                                               *)
LEMMA SaidGrows ==
    ASSUME RowInv, AllNamed, [Next]_vars
    PROVE  /\ sent \subseteq sent'
           /\ \A u \in User : CardsShown(u) \subseteq CardsShown(u)'
           /\ \A u \in User : HasReport(u) => HasReport(u)'
<1>1. TypeOK /\ Unmarked /\ sent \in SUBSET Reply
  BY DEF RowInv, TypeOK
<1>2. sent \subseteq sent'
  BY <1>1, Sends
<1>3. \A r \in sent : r.act \in Message /\ body'[r.act] = body[r.act]
  BY <1>1, PostedStays DEF AllNamed, Reply
<1>4. ASSUME NEW u \in User PROVE CardsShown(u) \subseteq CardsShown(u)'
  BY <1>2, <1>3 DEF CardsShown
<1>5. ASSUME NEW u \in User PROVE HasReport(u) => HasReport(u)'
  BY <1>2, <1>3 DEF HasReport
<1> QED
  BY <1>2, <1>4, <1>5

(* From the model's completion of an interview to its investigation.       *)
Ended == {"closing", "summary", "putComplete", "investigating", "investigate"}

(* What the user was told of the copy, by the step of the turn.            *)
CopyTold ==
    pc \in Working =>
        /\ IF pc \in {"intro", "card"} THEN st.inc = Id ELSE Shown(st, body[cur].user)
        /\ IF pc \in {"closing", "summary"} THEN Last(st.turns).act = Id ELSE Summarised(st)
        /\ pc # "report" => Reported(st, body[cur].user)
        /\ pc \in Ended => st.status \in Terminal

ToldInv == RowInv /\ AllNamed /\ ToldBeforeRecorded /\ CopyTold

(* What a step of the turn in hand leaves alone.                           *)
LEMMA TurnGoesOn ==
    ASSUME ToldInv, [Next]_vars, pc \in Working, UNCHANGED <<body, cur>>, NEW v, v = body[cur].user
    PROVE  /\ v \in User /\ Id \in Message /\ body[Id].user = v
           /\ Id' = Id /\ v = body'[cur'].user
           /\ sent \subseteq sent' /\ CardsShown(v) \subseteq CardsShown(v)'
           /\ HasReport(v) => HasReport(v)'
           /\ st \in State
<1>1. RowInv /\ AllNamed
  BY DEF ToldInv
<1>2. /\ cur \in Message /\ queue[cur] # "unposted" /\ Id \in Message /\ v \in User
      /\ st \in State
  BY <1>1, WorkInHand, WorkingSteps DEF RowInv, TypeOK
<1>3. body[Id] = body[cur]
  BY <1>1, <1>2 DEF AllNamed, Named, Id
<1> QED
  BY <1>1, <1>2, <1>3, SaidGrows DEF Id

LEMMA SendTold == ASSUME ToldInv, [Next]_vars, Send PROVE CopyTold'
<1>1. /\ pc \in Working /\ pc \in Kind /\ UNCHANGED <<body, cur>> /\ pc' = AfterSend[pc]
      /\ sent' = sent \cup {[act |-> Id, kind |-> pc]}
  BY DEF Send, Goto, queueVars, Working, Replied
<1>2. PICK v : v = body[cur].user
  OBVIOUS
<1>3. /\ v \in User /\ Id \in Message /\ body[Id].user = v
      /\ Id' = Id /\ v = body'[cur'].user
      /\ sent \subseteq sent' /\ CardsShown(v) \subseteq CardsShown(v)'
      /\ HasReport(v) => HasReport(v)'
      /\ st \in State
  BY <1>1, <1>2, TurnGoesOn
<1>4. /\ IF pc \in {"intro", "card"} THEN st.inc = Id ELSE Shown(st, v)
      /\ IF pc \in {"closing", "summary"} THEN Last(st.turns).act = Id ELSE Summarised(st)
      /\ pc # "report" => Reported(st, v)
      /\ pc \in Ended => st.status \in Terminal
  BY <1>1, <1>2 DEF ToldInv, CopyTold
<1>5. /\ st'.inc = st.inc /\ st'.turns = st.turns /\ st'.status = st.status
      /\ st'.forms = st.forms /\ st'.cardSent = (pc = "card" \/ st.cardSent)
  BY <1>3 DEF Send, State
<1>6. /\ pc' \in {"intro", "card"} => pc = "intro"
      /\ pc' \in {"closing", "summary"} => pc = "closing"
      /\ pc = "closing" => pc' = "summary"
      /\ pc = "intro" => pc' = "card"
      /\ pc' # "report"
      /\ pc' \in Ended => pc \in Ended
  BY <1>1 DEF Kind, AfterSend, Ended
<1>7. IF pc' \in {"intro", "card"} THEN st'.inc = Id' ELSE Shown(st, v)'
  <2>1. CASE pc = "card"
    <3>1. Id \in CardsShown(v)'
      BY <1>1, <1>3, <2>1 DEF CardsShown
    <3> QED
      BY <1>3, <1>4, <1>5, <1>6, <2>1, <3>1 DEF Shown
  <2>2. CASE pc = "intro"
    BY <1>3, <1>4, <1>5, <1>6, <2>2
  <2>3. CASE pc \notin {"intro", "card"}
    BY <1>3, <1>4, <1>5, <1>6, <2>3 DEF Shown
  <2> QED
    BY <2>1, <2>2, <2>3
<1>8. IF pc' \in {"closing", "summary"} THEN Last(st'.turns).act = Id' ELSE Summarised(st)'
  BY <1>1, <1>3, <1>4, <1>5, <1>6 DEF Summarised
<1>9. Reported(st, v)'
  <2>1. CASE pc = "report"
    <3>1. PICK r : r = [act |-> Id, kind |-> "report"]
      OBVIOUS
    <3>2. r \in sent' /\ r.kind = "report" /\ r.act = Id /\ body'[Id].user = v
      BY <1>1, <1>3, <2>1, <3>1
    <3>3. HasReport(v)'
      BY <3>2 DEF HasReport
    <3> QED
      BY <3>3 DEF Reported
  <2>2. CASE pc # "report"
    BY <1>3, <1>4, <1>5, <2>2 DEF Reported
  <2> QED
    BY <2>1, <2>2
<1>10. pc' \in Ended => st'.status \in Terminal
  BY <1>4, <1>5, <1>6
<1> QED
  BY <1>3, <1>7, <1>8, <1>9, <1>10 DEF CopyTold

LEMMA SaveTold == ASSUME ToldInv, [Next]_vars, Save PROVE CopyTold'
<1>1. /\ pc \in Working /\ UNCHANGED <<body, cur, st, sent>> /\ pc' = AfterPut[pc]
      /\ pc \in DOMAIN AfterPut
  BY DEF Save, Goto, queueVars, Working
<1>2. PICK v : v = body[cur].user
  OBVIOUS
<1>3. /\ Id' = Id /\ v = body'[cur'].user /\ CardsShown(v) \subseteq CardsShown(v)'
      /\ HasReport(v) => HasReport(v)'
  BY <1>1, <1>2, TurnGoesOn
<1>4. /\ pc \notin {"intro", "card", "closing", "summary", "report"}
      /\ pc' \notin {"intro", "card", "closing", "summary", "report"}
      /\ pc' \in Ended => pc \in Ended
  BY <1>1 DEF AfterPut, Ended
<1>5. Shown(st, v) /\ Summarised(st) /\ Reported(st, v) /\ (pc \in Ended => st.status \in Terminal)
  BY <1>1, <1>2, <1>4 DEF ToldInv, CopyTold
<1>6. Shown(st, v)' /\ Summarised(st)' /\ Reported(st, v)'
  BY <1>1, <1>3, <1>5 DEF Shown, Summarised, Reported
<1> QED
  BY <1>1, <1>3, <1>4, <1>5, <1>6 DEF CopyTold

LEMMA LastAnswered ==
    ASSUME RowInv, pc = "model", NEW p \in Place
    PROVE  Last(Answer(p).turns).act = Id
<1>1. st \in State /\ Id \in Message
  BY InHand DEF RowInv, TypeOK
<1>2. PICK x \in Turn : x = [role |-> "bot", act |-> Id]
  BY <1>1 DEF Turn
<1>3. st.turns \in Seq(Turn)
  BY <1>1 DEF State
<1>4. Last(Append(st.turns, x)) = x
  BY <1>3 DEF Last
<1>5. Answer(p).turns = Append(st.turns, x)
  BY <1>1, <1>2 DEF Answer, State
<1>6. x.act = Id
  BY <1>2
<1> QED
  BY <1>4, <1>5, <1>6, Zenon

LEMMA AnswerTold ==
    ASSUME ToldInv, [Next]_vars,
           \/ ModelFails
           \/ \E p \in Place : ModelAsks(p) \/ \E q \in Place : ModelCompletes(p, q)
    PROVE  CopyTold'
<1>1. /\ pc = "model" /\ pc \in Working /\ UNCHANGED <<body, cur, sent>>
  BY DEF ModelFails, ModelAsks, ModelCompletes, Goto, queueVars, Working
<1>2. PICK v : v = body[cur].user
  OBVIOUS
<1>3. /\ Id' = Id /\ v = body'[cur'].user /\ CardsShown(v) \subseteq CardsShown(v)'
      /\ st \in State
      /\ HasReport(v) => HasReport(v)'
  BY <1>1, <1>2, TurnGoesOn
<1>4. Shown(st, v) /\ st.status = "interviewing"
  BY <1>1, <1>2 DEF ToldInv, CopyTold, RowInv, CopyReal
<1>5. /\ st'.inc = st.inc /\ st'.forms = st.forms /\ st'.cardSent = st.cardSent
      /\ \/ pc' \in {"putSnag", "ask"} /\ st'.status = "interviewing"
         \/ pc' = "closing" /\ st'.status = "complete" /\ Last(st'.turns).act = Id
  <2>1. CASE ModelFails
    BY <1>4, <2>1 DEF ModelFails, Goto
  <2>2. ASSUME NEW p \in Place
        PROVE  /\ Answer(p) \in State /\ Answer(p).inc = st.inc /\ Answer(p).forms = st.forms
               /\ Answer(p).cardSent = st.cardSent /\ Answer(p).status = "interviewing"
               /\ Last(Answer(p).turns).act = Id
    <3>1. Answer(p) \in State /\ Last(Answer(p).turns).act = Id
      BY <1>1, AnswerType, LastAnswered DEF ToldInv, RowInv
    <3>2. st \in State
      BY <1>3
    <3> QED
      BY <1>4, <3>1, <3>2 DEF Answer, State
  <2>3. ASSUME NEW p \in Place, ModelAsks(p)
        PROVE  pc' = "ask" /\ st' = Answer(p)
    BY <2>3 DEF ModelAsks, Goto
  <2>4. ASSUME NEW p \in Place, NEW q \in Place, ModelCompletes(p, q)
        PROVE  /\ pc' = "closing" /\ st'.status = "complete"
               /\ st'.inc = Answer(p).inc /\ st'.forms = Answer(p).forms
               /\ st'.cardSent = Answer(p).cardSent /\ st'.turns = Answer(p).turns
    <3>1. Answer(p) \in State
      BY <2>2
    <3>2. pc' = "closing" /\ st' = [Answer(p) EXCEPT !.status = "complete", !.summary = q]
      BY <2>4 DEF ModelCompletes, Goto
    <3> QED
      BY <3>1, <3>2 DEF State
  <2> QED
    BY <2>1, <2>2, <2>3, <2>4
<1>6. Shown(st, v)'
  BY <1>3, <1>4, <1>5 DEF Shown
<1>7. pc' = "closing" => Last(st'.turns).act = Id
  BY <1>5
<1>8. Reported(st, v)' /\ (pc' # "closing" => Summarised(st)')
  BY <1>5 DEF Reported, Summarised, Terminal
<1> QED
  BY <1>3, <1>5, <1>6, <1>7, <1>8 DEF CopyTold, Ended, Terminal

LEMMA InvestigationTold ==
    ASSUME ToldInv, [Next]_vars, InvestigationFails \/ InvestigationReports
    PROVE  CopyTold'
<1>1. /\ pc = "investigate" /\ pc \in Working /\ UNCHANGED <<body, cur, sent>>
      /\ pc' \in {"invfail", "report"}
  BY DEF InvestigationFails, InvestigationReports, Goto, queueVars, Working
<1>2. PICK v : v = body[cur].user
  OBVIOUS
<1>3. /\ Id' = Id /\ v = body'[cur'].user /\ CardsShown(v) \subseteq CardsShown(v)'
      /\ st \in State
      /\ HasReport(v) => HasReport(v)'
  BY <1>1, <1>2, TurnGoesOn
<1>4. Shown(st, v) /\ Summarised(st) /\ Reported(st, v) /\ st.status \in Terminal
  BY <1>1, <1>2 DEF ToldInv, CopyTold, Ended
<1>5. /\ st'.inc = st.inc /\ st'.forms = st.forms /\ st'.cardSent = st.cardSent
      /\ st'.turns = st.turns
      /\ pc' = "invfail" => st'.status = st.status
  <2>1. st \in State
    BY <1>3
  <2>2. CASE InvestigationFails
    BY <2>2 DEF InvestigationFails
  <2>3. CASE InvestigationReports
    BY <2>1, <2>3 DEF InvestigationReports, Goto, State
  <2> QED
    BY <2>2, <2>3
<1>6. Shown(st, v)' /\ Summarised(st)' /\ (pc' # "report" => Reported(st, v)')
  BY <1>1, <1>3, <1>4, <1>5 DEF Shown, Summarised, Reported
<1> QED
  BY <1>1, <1>3, <1>6 DEF CopyTold, Ended

LEMMA RouteTold ==
    ASSUME ToldInv, [Next]_vars,
           RouteStale \/ RouteFollowup \/ RouteRetry \/ RouteNudge \/ RouteInterview
    PROVE  CopyTold'
<1>1. /\ pc # "idle" /\ Ours(cur) /\ UNCHANGED <<body, cur, sent, row>>
      /\ pc' \notin {"card", "closing", "summary", "report", "putComplete", "investigate"}
  BY DEF RouteStale, RouteFollowup, RouteRetry, RouteNudge, RouteInterview, Handling, Loading,
         Route, Goto, queueVars
<1>2. PICK v : v = body[cur].user
  OBVIOUS
<1>3. /\ RowInv /\ AllNamed /\ TypeOK /\ ToldBeforeRecorded
      /\ v \in User /\ Id \in Message /\ Id # None /\ Opened \in State
      /\ Stored = row[v]
  BY <1>1, <1>2, InHand, OpenedType, BrainAssumption DEF ToldInv, RowInv, Stored
<1>4. /\ Id' = Id /\ v = body'[cur'].user
      /\ CardsShown(v) \subseteq CardsShown(v)'
      /\ HasReport(v) => HasReport(v)'
  BY <1>1, <1>2, <1>3, SaidGrows DEF Id
<1>5. /\ Fresh(Id).status = "interviewing" /\ Fresh(Id).started = None
      /\ Fresh(Id).inc = Id /\ ~ Fresh(Id).cardSent
  BY DEF Fresh, Absent
<1>6. \/ Opened = Fresh(Id)
      \/ Opened = Stored /\ Shown(Opened, v) /\ Summarised(Opened) /\ Reported(Opened, v)
  <2>1. CASE Stored = Absent \/ StartsNewIncident
    BY <2>1 DEF Opened
  <2>2. CASE Stored # Absent /\ ~ StartsNewIncident
    BY <1>3, <2>2, RowsTold DEF Opened
  <2> QED
    BY <2>1, <2>2
<1>7. CASE RouteStale \/ RouteFollowup \/ RouteRetry \/ RouteNudge
  <2>1. st' = Opened /\ Opened.status \in Terminal /\ pc' # "intro"
    BY <1>7 DEF RouteStale, RouteFollowup, RouteRetry, RouteNudge, Route, Terminal, Goto
  <2>2. Shown(Opened, v) /\ Summarised(Opened) /\ Reported(Opened, v)
    BY <1>5, <1>6, <2>1 DEF Terminal
  <2>3. Shown(st, v)' /\ Summarised(st)' /\ Reported(st, v)'
    BY <1>1, <1>4, <2>1, <2>2 DEF Shown, Summarised, Reported
  <2> QED
    BY <1>1, <1>4, <2>1, <2>3 DEF CopyTold
<1>8. CASE RouteInterview
  <2>1. /\ st' = Turned /\ Opened.status = "interviewing"
        /\ pc' = IF Turned.cardSent THEN "model" ELSE "intro"
    BY <1>8 DEF RouteInterview, Route, Goto
  <2>2. /\ Turned.status = "interviewing" /\ Turned.inc = Opened.inc
        /\ Opened.forms \subseteq Turned.forms
        /\ Opened.cardSent => Turned.cardSent
        /\ Turned.cardSent /\ ~ Opened.cardSent => Turned.forms # {}
    BY <1>3, <2>1 DEF Turned, Incorporate, State
  <2>3. Summarised(st)' /\ Reported(st, v)'
    BY <2>1, <2>2 DEF Summarised, Reported, Terminal
  <2>4. IF Turned.cardSent THEN Shown(st, v)' ELSE st'.inc = Id
    BY <1>4, <1>5, <1>6, <2>1, <2>2 DEF Shown
  <2> QED
    BY <1>4, <2>1, <2>3, <2>4 DEF CopyTold, Ended
<1> QED
  BY <1>7, <1>8

LEMMA CopyToldStep == ASSUME ToldInv, [Next]_vars PROVE CopyTold'
<1>1. CASE ~ InTurn /\ pc' \in Working
  <2>1. UNCHANGED <<pc, cur, st, sent>> /\ pc \in Working
    BY <1>1, OutOfTurn DEF ToldInv
  <2>2. PICK v : v = body[cur].user
    OBVIOUS
  <2>3. RowInv /\ AllNamed /\ v \in User /\ cur \in Message /\ queue[cur] # "unposted"
    BY <2>1, <2>2, WorkInHand, WorkingSteps DEF ToldInv, RowInv, TypeOK
  <2>4. body'[cur] = body[cur]
    BY <2>3, PostedStays DEF RowInv
  <2>5. /\ Id' = Id /\ v = body'[cur'].user
        /\ CardsShown(v) \subseteq CardsShown(v)'
        /\ HasReport(v) => HasReport(v)'
    BY <2>1, <2>2, <2>3, <2>4, SaidGrows DEF Id
  <2>6. /\ Shown(st, v) => Shown(st, v)'
        /\ Summarised(st) => Summarised(st)'
        /\ Reported(st, v) => Reported(st, v)'
    BY <2>1, <2>5 DEF Shown, Summarised, Reported
  <2> QED
    BY <2>1, <2>2, <2>5, <2>6 DEF ToldInv, CopyTold
<1>2. CASE pc' \notin Working
  BY <1>2 DEF CopyTold
<1> QED
  BY <1>1, <1>2, RouteTold, SendTold, SaveTold, AnswerTold, InvestigationTold DEF InTurn

LEMMA ToldNext == ToldInv /\ [Next]_vars => ToldInv'
<1> SUFFICES ASSUME ToldInv, [Next]_vars PROVE ToldInv'
  OBVIOUS
<1>1. RowInv /\ RowInv' /\ AllNamed /\ AllNamed' /\ CopyTold' /\ CopyTold /\ st \in State
  BY RowStep, NamesStep, CopyToldStep DEF ToldInv, RowInv, TypeOK
<1>2. ASSUME NEW u \in User
      PROVE  /\ row'[u] # Absent => Shown(row[u], u)'
             /\ Summarised(row[u])' /\ Reported(row[u], u)'
  <2>1. /\ sent \subseteq sent' /\ CardsShown(u) \subseteq CardsShown(u)'
        /\ HasReport(u) => HasReport(u)'
    BY <1>1, SaidGrows
  <2>2. CASE row'[u] = Absent
    BY <2>2, AbsentCompleted DEF Summarised, Reported, Terminal
  <2>3. CASE row'[u] = row[u]
    <3>1. /\ row[u] # Absent => Shown(row[u], u)
          /\ Summarised(row[u]) /\ Reported(row[u], u)
      BY RowsTold DEF ToldInv
    <3> QED
      BY <2>1, <2>3, <3>1 DEF Shown, Summarised, Reported
  <2>4. CASE pc \in Writing /\ u = body[cur].user /\ (row'[u] = st \/ row'[u] = Marked)
    <3>1. pc \in Working /\ pc \notin {"intro", "card", "closing", "summary", "report"}
      BY <2>4 DEF Writing, Working, AfterPut
    <3>2. Shown(st, u) /\ Summarised(st) /\ Reported(st, u)
      BY <1>1, <2>4, <3>1 DEF CopyTold
    <3>3. /\ row'[u].cardSent = st.cardSent /\ row'[u].forms = st.forms
          /\ row'[u].inc = st.inc /\ row'[u].status = st.status /\ row'[u].turns = st.turns
      BY <1>1, <2>4 DEF Marked, State
    <3> QED
      BY <2>1, <3>2, <3>3 DEF Shown, Summarised, Reported
  <2> QED
    BY <1>1, <2>2, <2>3, <2>4, RowWrites
<1>3. ToldBeforeRecorded'
  BY <1>2 DEF ToldBeforeRecorded, Shown, Summarised, Reported, HasReport
<1> QED
  BY <1>1, <1>3 DEF ToldInv

(* The table never claims what the user was not told, wherever a turn's    *)
(* replies and writes fail, or the process dies between them: CopyTold     *)
(* says how far ahead of the replies the copy may be, at each step of the  *)
(* turn (app.py:183-265).                                                  *)
THEOREM UsersAreTold == Spec => []ToldBeforeRecorded
<1>1. Init => ToldInv
  <2> SUFFICES ASSUME Init PROVE ToldInv
    OBVIOUS
  <2>1. /\ pc = "idle" /\ sent = {} /\ \A u \in User : row[u] = Absent
        /\ \A m \in Message : queue[m] = "unposted"
    BY DEF Init
  <2>2. AllNamed /\ CopyTold
    BY <2>1, WorkingSteps DEF AllNamed, CopyTold
  <2>3. ToldBeforeRecorded
    BY <2>1, AbsentCompleted DEF ToldBeforeRecorded, Terminal
  <2> QED
    BY <2>2, <2>3, RowInit DEF ToldInv
<1>2. ToldInv => ToldBeforeRecorded
  BY DEF ToldInv
<1> QED
  BY <1>1, <1>2, ToldNext, PTL DEF Spec
-----------------------------------------------------------------------------
(* Without a restart, a failed call or an eviction from the LRU, no reply  *)
(* is sent twice.                                                          *)

(* How far a turn is at each step of its three ways through the handler:   *)
(* the intake card, the model's answer and its investigation, or one reply *)
(* to what needs no turn.                                                  *)
Stage ==
    [ intro |-> 1, card |-> 2, putCard |-> 3,
      model |-> 1, putSnag |-> 2, snag |-> 3, ask |-> 2, putAsk |-> 3,
      closing |-> 2, summary |-> 3, putComplete |-> 4,
      investigating |-> 5, investigate |-> 6, invfail |-> 7, report |-> 7, putReport |-> 8,
      answer |-> 1, nudge |-> 1, stale |-> 1, finish |-> 9 ]

LEMMA Stages ==
    /\ Working = DOMAIN Stage
    /\ \A step \in Working : Stage[step] \in Nat
    /\ \A k \in Kind : Stage[k] < Stage[AfterSend[k]]
    /\ \A k \in DOMAIN AfterPut : Stage[k] < Stage[AfterPut[k]]
BY DEF Working, Kind, AfterSend, AfterPut, Stage

Distinct(ids) == \A i, j \in 1 .. Len(ids) : ids[i] = ids[j] => i = j

(* An LRU without repetitions is no longer than there are messages.        *)
LEMMA DistinctFits ==
    ASSUME NEW ids \in Seq(Message), Distinct(ids), IsFiniteSet(Message)
    PROVE  Len(ids) <= Cardinality(Message)
<1> DEFINE n == Len(ids)
<1>1. n \in Nat /\ ids \in [1 .. n -> Message]
  OBVIOUS
<1> HIDE DEF n
<1>2. IsFiniteSet(1 .. n) /\ Cardinality(1 .. n) = n
  BY <1>1, FS_Interval
<1>3. Cardinality(Message) \in Nat
  BY FS_CardinalityType
<1>4. \A i, j \in 1 .. n : i # j => ids[i] # ids[j]
  BY DEF Distinct, n
<1>5. ~ (Cardinality(Message) < n)
  BY <1>1, <1>2, <1>4, FS_PigeonHole
<1> QED
  BY <1>1, <1>3, <1>5 DEF n

(* While nothing falls out of it, the LRU gains exactly what is marked.    *)
LEMMA MarkSeenKeeps ==
    ASSUME NEW ids \in Seq(Message), NEW a \in Message,
           Distinct(ids), a \notin ToSet(ids),
           IsFiniteSet(Message), Cardinality(Message) <= SeenMax
    PROVE  /\ Distinct(MarkSeen(ids, a))
           /\ ToSet(MarkSeen(ids, a)) = ToSet(ids) \cup {a}
<1> DEFINE moved == Append(ids, a)
<1>1. /\ moved \in Seq(Message) /\ Len(moved) = Len(ids) + 1 /\ Len(ids) \in Nat
      /\ moved[Len(ids) + 1] = a
      /\ \A i \in 1 .. Len(ids) : moved[i] = ids[i] /\ ids[i] \in ToSet(ids)
  BY DEF ToSet
<1>2. ToSet(moved) = ToSet(ids) \cup {a}
  BY DEF ToSet
<1>3. MarkSeen(ids, a) = IF Len(moved) > SeenMax THEN Tail(moved) ELSE moved
  BY DEF MarkSeen
<1> HIDE DEF moved
<1>4. Distinct(moved)
  <2>1. ASSUME NEW i \in 1 .. Len(moved), NEW j \in 1 .. Len(moved), moved[i] = moved[j]
        PROVE  i = j
    <3>1. \A k \in 1 .. Len(moved) : k \in 1 .. Len(ids) \/ k = Len(ids) + 1
      BY <1>1
    <3>2. \A k, l \in 1 .. Len(ids) : ids[k] = ids[l] => k = l
      BY DEF Distinct
    <3> QED
      BY <1>1, <2>1, <3>1, <3>2
  <2> QED
    BY <2>1 DEF Distinct
<1>5. Len(moved) <= Cardinality(Message)
  BY <1>1, <1>4, DistinctFits
<1>6. ~ (Len(moved) > SeenMax)
  BY <1>1, <1>5, FS_CardinalityType, BrainAssumption
<1> QED
  BY <1>2, <1>3, <1>4, <1>6

(* What was sent was sent by a turn that ended and is in the LRU, or, at   *)
(* an earlier stage, by the turn in hand, which is not.                    *)
OnceInv ==
    /\ RowInv
    /\ Distinct(seen)
    /\ pc \in Working => Id \notin ToSet(seen)
    /\ \A r \in sent :
          \/ r.act \in ToSet(seen)
          \/ pc \in Working /\ r.act = Id /\ Stage[r.kind] < Stage[pc]

(* The faults after which a user may see a reply again.                    *)
Repeating == {"crash", "send", "put", "model"}

(* The steps of a turn: from the routing into it, or one stage further.    *)
LEMMA TurnSteps ==
    ASSUME InTurn
    PROVE  /\ UNCHANGED <<body, cur, seen>>
           /\ \/ Send
              \/ /\ sent' = sent
                 /\ \/ /\ pc = "check" /\ Id \notin ToSet(seen)
                       /\ pc' \in {"stale", "answer", "investigating", "nudge", "model", "intro"}
                    \/ pc \in DOMAIN AfterPut /\ pc' = AfterPut[pc]
                    \/ pc = "model" /\ pc' \in {"putSnag", "ask", "closing"}
                    \/ pc = "investigate" /\ pc' \in {"invfail", "report"}
<1> USE DEF queueVars
<1>1. CASE RouteStale \/ RouteFollowup \/ RouteRetry \/ RouteNudge \/ RouteInterview
  <2>1. Handling /\ pc = "check" /\ Id \notin ToSet(seen)
    BY <1>1 DEF RouteStale, RouteFollowup, RouteRetry, RouteNudge, RouteInterview, Handling,
       Loading
  <2>2. /\ UNCHANGED <<body, cur, seen, sent>>
        /\ pc' \in {"stale", "answer", "investigating", "nudge", "model", "intro"}
    BY <1>1 DEF RouteStale, RouteFollowup, RouteRetry, RouteNudge, RouteInterview, Route, Goto
  <2> QED
    BY <2>1, <2>2
<1>2. CASE Send
  BY <1>2 DEF Send, Goto
<1>3. CASE Save
  BY <1>3 DEF Save, Goto
<1>4. CASE ModelFails
  BY <1>4 DEF ModelFails, Goto
<1>5. ASSUME NEW p \in Place, ModelAsks(p)
      PROVE  UNCHANGED <<body, cur, seen, sent>> /\ pc = "model" /\ pc' = "ask"
  BY <1>5 DEF ModelAsks, Goto
<1>6. ASSUME NEW p \in Place, NEW q \in Place, ModelCompletes(p, q)
      PROVE  UNCHANGED <<body, cur, seen, sent>> /\ pc = "model" /\ pc' = "closing"
  BY <1>6 DEF ModelCompletes, Goto
<1>7. CASE InvestigationFails \/ InvestigationReports
  BY <1>7 DEF InvestigationFails, InvestigationReports, Goto
<1> QED
  BY <1>1, <1>2, <1>3, <1>4, <1>5, <1>6, <1>7 DEF InTurn

LEMMA OnceInTurn == ASSUME OnceInv, RowInv', InTurn PROVE OnceInv'
<1>1. UNCHANGED <<body, cur, seen>> /\ Id' = Id
  BY TurnSteps DEF Id
<1>2. /\ pc' \in Working /\ pc # "idle"
      /\ pc = "check" => Id \notin ToSet(seen)
      /\ pc = "check" \/ (pc \in Working /\ Stage[pc] < Stage[pc'])
  <2>1. CASE Send
    BY <2>1, Stages, Steps DEF Send, Goto, Working, AfterSend
  <2>2. CASE pc \in DOMAIN AfterPut /\ pc' = AfterPut[pc]
    BY <2>2, Stages, Steps, WorkingSteps DEF Working
  <2>3. CASE pc = "model" /\ pc' \in {"putSnag", "ask", "closing"}
    BY <2>3, Stages DEF Stage
  <2>4. CASE pc = "investigate" /\ pc' \in {"invfail", "report"}
    BY <2>4, Stages DEF Stage
  <2>5. CASE /\ pc = "check" /\ Id \notin ToSet(seen)
             /\ pc' \in {"stale", "answer", "investigating", "nudge", "model", "intro"}
    BY <2>5, Stages DEF Stage
  <2> QED
    BY <2>1, <2>2, <2>3, <2>4, <2>5, TurnSteps
<1>3. Id \notin ToSet(seen)
  BY <1>2 DEF OnceInv
<1>4. ASSUME NEW r \in sent'
      PROVE  r \in sent \/ (pc \in Working /\ r.act = Id /\ r.kind = pc)
  <2>1. CASE Send
    BY <2>1 DEF Send, Replied, Working
  <2> QED
    BY <1>4, <2>1, TurnSteps
<1>5. ASSUME NEW r \in sent, pc \in Working, Stage[r.kind] < Stage[pc]
      PROVE  Stage[r.kind] < Stage[pc']
  <2>1. sent \subseteq Reply
    BY DEF OnceInv, RowInv, TypeOK
  <2>2. r.kind \in Working
    BY <2>1 DEF Reply, Working
  <2>3. Stage[r.kind] \in Nat /\ Stage[pc] \in Nat /\ Stage[pc'] \in Nat
    BY <1>2, <1>5, <2>2, Stages
  <2>4. Stage[pc] < Stage[pc']
    BY <1>2, <1>5, WorkingSteps
  <2> QED
    BY <1>5, <2>3, <2>4
<1>6. ASSUME NEW r \in sent'
      PROVE  r.act \in ToSet(seen) \/ (r.act = Id /\ Stage[r.kind] < Stage[pc'])
  <2>1. CASE r \in sent
    <3>1. r.act \in ToSet(seen) \/ (pc \in Working /\ r.act = Id /\ Stage[r.kind] < Stage[pc])
      BY <2>1 DEF OnceInv
    <3> QED
      BY <1>5, <2>1, <3>1
  <2>2. CASE pc \in Working /\ r.act = Id /\ r.kind = pc
    BY <1>2, <2>2, WorkingSteps
  <2> QED
    BY <1>4, <2>1, <2>2
<1> QED
  BY <1>1, <1>2, <1>3, <1>6 DEF OnceInv

LEMMA OnceNext ==
    ASSUME Faults \cap Repeating = {}, IsFiniteSet(Message), Cardinality(Message) <= SeenMax
    PROVE  OnceInv /\ [Next]_vars => OnceInv'
<1> SUFFICES ASSUME OnceInv, [Next]_vars PROVE OnceInv'
  OBVIOUS
<1>1. RowInv /\ RowInv' /\ Distinct(seen) /\ TypeOK /\ TypeOK'
  BY RowStep DEF OnceInv, RowInv
<1>2. ~ Crash /\ ~ SendFails /\ ~ PutFails /\ ~ ModelRaises
  BY DEF Repeating, Crash, SendFails, PutFails, ModelRaises
<1>3. CASE Finish \/ SkipCompleted
  <2>1. /\ pc # "idle" /\ pc' = "settle" /\ sent' = sent
        /\ seen' = MarkSeen(seen, Id) /\ Id \notin ToSet(seen)
    BY <1>3 DEF Finish, SkipCompleted, Loading, Goto, OnceInv, Working
  <2>2. Id \in Message /\ seen \in Seq(Message)
    BY <1>1, <2>1, InHand DEF TypeOK
  <2>3. Distinct(seen') /\ ToSet(seen') = ToSet(seen) \cup {Id}
    BY <1>1, <2>1, <2>2, MarkSeenKeeps
  <2>4. \A r \in sent : r.act \in ToSet(seen) \cup {Id}
    BY DEF OnceInv
  <2> QED
    BY <1>1, <2>1, <2>3, <2>4, WorkingSteps DEF OnceInv
<1>4. CASE \/ \E m \in Message : Receive(m)
           \/ Complete \/ CompleteFails \/ Abandon \/ AbandonFails
           \/ Drop \/ SenderUnknown \/ SkipSeen \/ GetFails
  <2>1. /\ pc \notin Working /\ pc' \notin Working /\ UNCHANGED <<sent, seen>>
    BY <1>4, WorkingSteps DEF Receive, Complete, CompleteFails, Abandon, AbandonFails, Drop,
       SenderUnknown, SkipSeen, GetFails, Loading, NextMessage, Goto
  <2> QED
    BY <1>1, <2>1 DEF OnceInv
<1>5. CASE Environ \/ Quiet \/ UNCHANGED vars
  <2>1. UNCHANGED <<pc, cur, sent, seen>>
    BY <1>5 DEF Environ, Quiet, vars, processVars, Post, PostText, PostCard, PostForeign,
       PostNameless, PostAgain, OrphanLockExpires, LockLost, Expire
  <2>2. pc \in Working => cur \in Message /\ queue[cur] # "unposted"
    BY <1>1, WorkingSteps, InHand DEF TypeOK, RowInv
  <2>3. pc \in Working => Id' = Id
    BY <1>1, <2>1, <2>2, PostedStays DEF Id
  <2> QED
    BY <1>1, <2>1, <2>3 DEF OnceInv
<1> QED
  BY <1>1, <1>2, <1>3, <1>4, <1>5, OnceInTurn DEF Next, Process, InTurn

(* Lost locks, completions that fail, rows that expire and activities that *)
(* the Connector posts twice make no user see a reply again, as long as    *)
(* the process lives, none of its other calls fails and the LRU has room   *)
(* for every message (app.py:161-165, 310-332).                            *)
THEOREM RepliesAreSentOnce ==
    ASSUME Faults \cap {"crash", "send", "put", "model"} = {},
           IsFiniteSet(Message), Cardinality(Message) <= SeenMax
    PROVE  Spec => []SentOnce
<1>1. Init => OnceInv
  BY RowInit, WorkingSteps DEF Init, OnceInv, Distinct
<1>2. OnceInv => SentOnce
  <2> SUFFICES ASSUME OnceInv, pc \in Kind, NEW r \in sent, r = [act |-> Id, kind |-> pc]
               PROVE  FALSE
    BY DEF SentOnce
  <2>1. pc \in Working /\ r.act = Id /\ r.kind = pc /\ Stage[pc] \in Nat
    BY Stages DEF Working
  <2> QED
    BY <2>1 DEF OnceInv
<1>3. OnceInv /\ [Next]_vars => OnceInv'
  BY OnceNext DEF Repeating
<1> QED
  BY <1>1, <1>2, <1>3, PTL DEF Spec
-----------------------------------------------------------------------------
(* A process that has another one beside it (RollingDeploy): what it keeps *)
(* of the queue and the table whatever the other one does, which may write *)
(* the row it works on, or settle the activity it works on.                *)

(* The copy is the state of an interview, whether or not its row is.       *)
CopySolid ==
    pc \in Working =>
        /\ Ours(cur)
        /\ st.status # "absent"
        /\ pc = "model" => st.status = "interviewing"

(* The part of the state both processes have.                              *)
Shared ==
    /\ body \in [Message -> Body \cup {None}]
    /\ queue \in [Message -> {"unposted", "ready", "locked", "done", "dead"}]
    /\ deliveries \in [Message -> Nat]
    /\ row \in [User -> State]
    /\ sent \in SUBSET Reply
    /\ \A m \in Message : queue[m] # "unposted" => body[m] \in Body
    /\ \A u \in User : row[u].completed \in Answered \cup {None}
    /\ SettledIsAnswered
    /\ RowsReal

Beside == AnsweredInv /\ RowsReal /\ CopySolid

LEMMA BesideShares == Beside => Shared
BY DEF Beside, AnsweredInv, TypeOK, Shared

LEMMA BesideSharesNext == Beside' => Shared'
BY DEF Beside, AnsweredInv, TypeOK, Shared

LEMMA BesideInit == Init => Beside /\ RowInv
<1> SUFFICES ASSUME Init PROVE Beside
  BY RowInit
<1>1. AnsweredInv /\ RowsReal /\ pc = "idle"
  BY AnsweredInit, RowInit DEF Init, RowInv
<1> QED
  BY <1>1, WorkingSteps DEF Beside, CopySolid

(* No step of either takes back what was posted or what was sent.          *)
Kept ==
    /\ sent \subseteq sent'
    /\ \A m \in Message : queue[m] # "unposted" => body'[m] = body[m] /\ queue'[m] # "unposted"

LEMMA Bystander ==
    ASSUME Beside, Shared', Kept, UNCHANGED processVars
    PROVE  Beside'
<1>1. UNCHANGED <<pc, cur, try, st, seen>> /\ Answered \subseteq Answered'
  BY AnsweredGrows DEF processVars, Kept
<1>2. /\ pc \in Step /\ cur \in Message \cup {None} /\ try \in Nat /\ st \in State
      /\ seen \in Seq(Message) /\ (pc = "idle" <=> cur = None)
      /\ cur # None => queue[cur] # "unposted"
  BY DEF Beside, AnsweredInv, TypeOK
<1>3. cur # None => body'[cur] = body[cur] /\ queue'[cur] # "unposted"
  BY <1>2 DEF Kept
<1>4. TypeOK'
  BY <1>1, <1>2, <1>3 DEF Shared, TypeOK
<1>5. pc \in ToldSteps \cup Working \cup {"settle"} => /\ cur # None /\ Id' = Id
                                                    /\ (Ours(cur)' <=> Ours(cur))
  <2>1. "idle" \notin ToldSteps \cup Working \cup {"settle"}
    BY WorkingSteps DEF ToldSteps
  <2> QED
    BY <1>1, <1>2, <1>3, <2>1 DEF Id, Ours
<1>6. CopySolid'
  BY <1>1, <1>5 DEF Beside, CopySolid
<1>7. /\ pc' \in ToldSteps => Id' \in Answered'
      /\ pc' = "settle" /\ Ours(cur)' => Id' \in Answered'
  BY <1>1, <1>5 DEF Beside, AnsweredInv
<1>8. ToSet(seen') \subseteq Answered' /\ st'.completed \in Answered' \cup {None}
  BY <1>1 DEF Beside, AnsweredInv
<1> QED
  BY <1>4, <1>6, <1>7, <1>8 DEF Shared, Beside, AnsweredInv

(* The process is killed: its locals and its LRU are gone.                 *)
LEMMA Stopped ==
    ASSUME Beside, NextMessage, seen' = <<>>, UNCHANGED <<queueVars, row, sent>>
    PROVE  Beside'
<1>1. /\ Answered' = Answered /\ ToSet(seen') = {} /\ pc' \notin Working
      /\ UNCHANGED <<body, queue, deliveries, row, sent>>
  BY WorkingSteps DEF Answered, ToSet, NextMessage, queueVars
<1>2. TypeOK'
  BY <1>1, AbsentType DEF NextMessage, Beside, AnsweredInv, TypeOK, Step
<1>3. SettledIsAnswered' /\ RowsReal'
  BY <1>1 DEF Beside, AnsweredInv, SettledIsAnswered, Ours, RowsReal
<1>4. AnsweredInv'
  BY <1>1, <1>2, <1>3, AbsentCompleted DEF NextMessage, Beside, AnsweredInv, ToldSteps
<1> QED
  BY <1>1, <1>3, <1>4 DEF Beside, CopySolid

LEMMA SharedStays ==
    ASSUME Shared, UNCHANGED <<queueVars, row, sent>>
    PROVE  Shared' /\ Kept
<1>1. Answered' = Answered /\ UNCHANGED <<body, queue, deliveries, row, sent>>
  BY DEF Answered, queueVars
<1>2. SettledIsAnswered' /\ RowsReal'
  BY <1>1 DEF Shared, SettledIsAnswered, Ours, RowsReal
<1> QED
  BY <1>1, <1>2 DEF Shared, Kept

(* A row is deleted, or runs out.                                          *)
LEMMA RowGone ==
    ASSUME Shared, NEW u \in User, row' = [row EXCEPT ![u] = Absent],
           UNCHANGED <<queueVars, sent>>
    PROVE  Shared' /\ Kept
<1>1. Answered' = Answered /\ UNCHANGED <<body, queue, deliveries>>
  BY DEF Answered, queueVars
<1>2. row' \in [User -> State] /\ \A v \in User : row'[v] \in {row[v], Absent}
  BY AbsentType DEF Shared
<1>3. SettledIsAnswered'
  BY <1>1 DEF Shared, SettledIsAnswered, Ours
<1> QED
  BY <1>1, <1>2, <1>3, AbsentCompleted DEF Shared, RowsReal, Kept

(* What the process writes is the state of an interview.                   *)
LEMMA SolidPut ==
    ASSUME TypeOK, RowsReal, NEW s, s.status # "absent", Put(s)
    PROVE  RowsReal' /\ \A u \in User : row'[u] # row[u] => row'[u] # Absent
<1>1. \A u \in User : row'[u] \in {row[u], s}
  BY DEF TypeOK, Put
<1> QED
  BY <1>1, AbsentCompleted DEF RowsReal

LEMMA SolidProcess ==
    ASSUME TypeOK, RowsReal, CopySolid, Process
    PROVE  RowsReal' /\ CopySolid' /\ \A u \in User : row'[u] # row[u] => row'[u] # Absent
<1>1. row' = row => RowsReal' /\ \A u \in User : row'[u] # row[u] => row'[u] # Absent
  BY DEF RowsReal
<1>2. CASE \/ \E m \in Message : Receive(m)
           \/ Complete \/ CompleteFails \/ Abandon \/ AbandonFails
           \/ Drop \/ SenderUnknown \/ SkipSeen \/ GetFails \/ SkipCompleted
           \/ SendFails \/ ModelRaises
  <2>1. pc' \in {"idle", "check", "settle", "abandon"} /\ row' = row
    BY <1>2 DEF Receive, Complete, CompleteFails, Abandon, AbandonFails, Drop, SenderUnknown,
       SkipSeen, GetFails, SkipCompleted, SendFails, ModelRaises, NextMessage, Goto
  <2> QED
    BY <1>1, <2>1, WorkingSteps DEF CopySolid
<1>3. CASE RouteStale \/ RouteFollowup \/ RouteRetry \/ RouteNudge \/ RouteInterview
  <2>1. /\ Ours(cur) /\ UNCHANGED <<row, cur, body>>
        /\ \/ Opened.status \in Terminal /\ st' = Opened /\ pc' # "model"
           \/ Opened.status = "interviewing" /\ st' = Turned
    BY <1>3 DEF RouteStale, RouteFollowup, RouteRetry, RouteNudge, RouteInterview, Handling,
       Loading, Route, Goto, queueVars, Terminal
  <2>2. pc # "idle"
    BY <1>3 DEF RouteStale, RouteFollowup, RouteRetry, RouteNudge, RouteInterview, Handling,
       Loading
  <2>3. Opened \in State
    BY <2>1, <2>2, OpenedType
  <2>4. Turned.status = Opened.status
    BY <2>3 DEF Turned, Incorporate, State
  <2>5. Ours(cur)'
    BY <2>1 DEF Ours
  <2> QED
    BY <1>1, <2>1, <2>4, <2>5 DEF CopySolid, Terminal
<1>4. CASE Send
  <2>1. UNCHANGED <<row, cur, body>> /\ pc \in Working /\ pc' # "model"
    BY <1>4 DEF Send, Goto, queueVars, Working, Kind, AfterSend
  <2>2. st'.status = st.status
    BY <1>4 DEF Send, TypeOK, State
  <2> QED
    BY <1>1, <2>1, <2>2 DEF CopySolid, Ours
<1>5. CASE ModelFails \/ InvestigationFails \/ InvestigationReports
           \/ \E p \in Place : ModelAsks(p) \/ \E q \in Place : ModelCompletes(p, q)
  <2>1. UNCHANGED <<row, cur, body>> /\ pc \in Working /\ pc' # "model"
    BY <1>5 DEF ModelFails, InvestigationFails, InvestigationReports, ModelAsks, ModelCompletes,
       Goto, queueVars, Working
  <2>2. st'.status \in {st.status, "complete", "investigated"}
    BY <1>5 DEF ModelFails, InvestigationFails, InvestigationReports, ModelAsks, ModelCompletes,
       Answer, TypeOK, State
  <2> QED
    BY <1>1, <2>1, <2>2 DEF CopySolid, Ours
<1>6. CASE Save \/ Finish \/ PutFails
  <2>1. pc \in Working /\ UNCHANGED <<cur, body>>
    BY <1>6 DEF Save, Finish, PutFails, Working, Goto, queueVars
  <2>2. pc # "idle" /\ st \in State /\ st.status # "absent"
    BY <2>1, WorkingSteps DEF CopySolid, TypeOK
  <2>3. Marked.status # "absent"
    BY <2>2 DEF Marked, State
  <2>4. row' = row \/ Put(st) \/ Put(Marked)
    <3>1. CASE pc = "finish"
      BY <1>6, <3>1 DEF Save, Finish, PutFails
    <3>2. CASE pc # "finish"
      BY <1>6, <3>2 DEF Save, Finish, PutFails
    <3> QED
      BY <3>1, <3>2
  <2>5. RowsReal' /\ \A u \in User : row'[u] # row[u] => row'[u] # Absent
    BY <1>1, <2>2, <2>3, <2>4, SolidPut
  <2>6. pc' \in Working => pc' # "model" /\ st' = st
    BY <1>6, WorkingSteps DEF Save, Finish, PutFails, Goto, AfterPut
  <2> QED
    BY <2>1, <2>2, <2>5, <2>6 DEF CopySolid, Ours
<1> QED
  BY <1>2, <1>3, <1>4, <1>5, <1>6 DEF Process

LEMMA SentGrows == ASSUME Environ \/ Process PROVE sent \subseteq sent'
BY DEF Environ, PostText, PostCard, PostForeign, PostNameless, PostAgain, Post,
       OrphanLockExpires, LockLost, Expire, Process, Receive, Complete, CompleteFails, Abandon,
       AbandonFails, Drop, SenderUnknown, SkipSeen, GetFails, SkipCompleted, RouteStale,
       RouteFollowup, RouteRetry, RouteNudge, RouteInterview, Route, Send, SendFails, Replied,
       Save, Finish, PutFails, ModelFails, ModelRaises, ModelAsks, ModelCompletes,
       InvestigationFails, InvestigationReports

(* What a step of the process does for the two of them.                    *)
LEMMA BesideProcess ==
    ASSUME Beside, Process
    PROVE  /\ Beside' /\ Shared' /\ Kept
           /\ [Promise!Next]_(Promise!vars)
           /\ \A u \in User : row'[u] # row[u] => row'[u] # Absent
<1>1. TypeOK /\ AnsweredInv /\ RowsReal /\ CopySolid /\ WorksOnOurs
  BY DEF Beside, AnsweredInv, CopySolid, WorksOnOurs
<1>2. AnsweredInv'
  BY <1>1, ProcessType, AnsweredProcess
<1>3. RowsReal' /\ CopySolid' /\ \A u \in User : row'[u] # row[u] => row'[u] # Absent
  BY <1>1, SolidProcess
<1>4. Kept
  BY <1>1, PostedStays, SentGrows DEF Kept, Next
<1>5. [Promise!Next]_(Promise!vars)
  BY <1>1, ProcessAllowed
<1> QED
  BY <1>2, <1>3, <1>4, <1>5, BesideSharesNext DEF Beside

(* What a step of the queue, the Connector or the clock does.              *)
LEMMA BesideEnviron ==
    ASSUME Beside, Environ
    PROVE  /\ Beside' /\ Shared' /\ Kept
           /\ [Promise!Next]_(Promise!vars)
           /\ \A u \in User : row'[u] \in {row[u], Absent}
<1>1. TypeOK /\ AnsweredInv /\ RowsReal /\ CopySolid
  BY DEF Beside, AnsweredInv
<1>2. AnsweredInv'
  BY <1>1, EnvironType, AnsweredEnviron
<1>3. Kept
  BY <1>1, PostedStays, SentGrows DEF Kept, Next
<1>4. UNCHANGED <<pc, cur, st>>
  BY DEF Environ, PostText, PostCard, PostForeign, PostNameless, PostAgain, Post,
     OrphanLockExpires, LockLost, Expire, processVars
<1>5. \A u \in User : row'[u] \in {row[u], Absent}
  BY <1>1 DEF Environ, PostText, PostCard, PostForeign, PostNameless, PostAgain, Post,
     OrphanLockExpires, LockLost, Expire, TypeOK
<1>6. RowsReal'
  BY <1>5 DEF Beside, RowsReal
<1>7. CopySolid'
  <2>1. pc \in Working => cur \in Message /\ queue[cur] # "unposted"
    BY <1>1, WorkingSteps DEF TypeOK
  <2>2. pc \in Working => body'[cur] = body[cur]
    BY <1>3, <2>1 DEF Kept
  <2> QED
    BY <1>1, <1>4, <2>2 DEF CopySolid, Ours
<1>8. [Promise!Next]_(Promise!vars)
  BY <1>1, EnvironAllowed
<1> QED
  BY <1>2, <1>3, <1>5, <1>6, <1>7, <1>8, BesideSharesNext DEF Beside

(* A process whose row nobody else has touched is as if it were alone.     *)
LEMMA Untouched ==
    ASSUME RowInv, Beside, Beside', Kept, UNCHANGED processVars,
           pc \in Working => row'[body[cur].user] \in {Stored, Absent}
    PROVE  RowInv'
<1>1. UNCHANGED <<pc, cur, st>> /\ TypeOK' /\ RowsReal'
  BY DEF processVars, Beside, AnsweredInv
<1>2. ASSUME pc \in Working PROVE CopyReal' /\ Unmarked'
  <2>1. /\ cur \in Message /\ queue[cur] # "unposted" /\ Id \in Message /\ Id # None
        /\ st.completed # Id /\ Stored.completed # Id /\ Ours(cur)
    <3>1. cur # None
      BY <1>2, WorkingSteps DEF RowInv, TypeOK
    <3>2. queue[cur] # "unposted"
      BY <3>1 DEF RowInv, TypeOK
    <3> QED
      BY <1>2, <3>2, WorkInHand DEF RowInv, Unmarked
  <2>2. body'[cur] = body[cur]
    BY <2>1 DEF Kept
  <2>3. Id' = Id /\ Stored' \in {Stored, Absent} /\ Ours(cur)'
    BY <1>1, <1>2, <2>1, <2>2 DEF Id, Stored, Ours
  <2>4. Unmarked'
    BY <1>1, <2>1, <2>3, AbsentCompleted DEF Unmarked
  <2>5. CASE Stored' = Absent
    BY <1>1, <1>2, <2>4, <2>5 DEF RowInv, CopyReal, Evolves
  <2>6. CASE Stored' = Stored
    <3>1. Replaces(Stored, st) => Replaces(Stored, st)'
      BY <1>1, <2>2, <2>3, <2>6 DEF Replaces, SummaryPlace
    <3> QED
      BY <1>1, <1>2, <2>4, <2>6, <3>1 DEF RowInv, CopyReal, Evolves
  <2> QED
    BY <2>3, <2>4, <2>5, <2>6
<1> QED
  BY <1>1, <1>2 DEF RowInv, CopyReal, Unmarked

(* A process that works on nothing has nothing to lose.                    *)
LEMMA NothingInHand == Beside /\ pc \notin Working => RowInv
BY DEF Beside, AnsweredInv, RowInv, Unmarked, CopyReal

LEMMA NothingInHandNext == Beside' /\ pc' \notin Working => RowInv'
BY DEF Beside, AnsweredInv, RowInv, Unmarked, CopyReal

(* An activity is routed on a row that is read, not written.               *)
LEMMA RoutingReads ==
    ASSUME TypeOK, Process, pc = "check", pc' \in Working
    PROVE  UNCHANGED <<row, cur, body>>
<1>1. \/ RouteStale \/ RouteFollowup \/ RouteRetry \/ RouteNudge \/ RouteInterview
      \/ pc' \in {"settle", "abandon"}
  BY Steps DEF Process, Receive, Complete, CompleteFails, Abandon, AbandonFails, Drop,
     SenderUnknown, SkipSeen, GetFails, SkipCompleted, Send, SendFails, Save, Finish, PutFails,
     ModelFails, ModelRaises, ModelAsks, ModelCompletes, InvestigationFails,
     InvestigationReports, Goto
<1> QED
  BY <1>1, WorkingSteps DEF RouteStale, RouteFollowup, RouteRetry, RouteNudge, RouteInterview,
     Route, Goto, queueVars
=============================================================================
