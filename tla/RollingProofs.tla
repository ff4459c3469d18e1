--------------------------- MODULE RollingProofs ---------------------------
(***************************************************************************)
(* Proofs about RollingDeploy, for any number of messages and users, in    *)
(* any interleaving of the two revisions: a roll-out loses nothing of an   *)
(* interview unless a process is overtaken, and the two processes together *)
(* implement AtLeastOnce but for its fairness.                             *)
(*                                                                         *)
(* What a process keeps with another one beside it is proved in            *)
(* BrainTurnProofs, of which OldP and NewP are instances.                  *)
(***************************************************************************)
EXTENDS RollingDeploy, TLAPS

OldP == INSTANCE BrainTurnProofs WITH
    pc <- oldPc, cur <- oldCur, try <- oldTry, st <- oldSt, seen <- oldSeen

NewP == INSTANCE BrainTurnProofs WITH
    pc <- newPc, cur <- newCur, try <- newTry, st <- newSt, seen <- newSeen
-----------------------------------------------------------------------------
(* Old and OldP are the same Brain, and so are New and NewP: equal texts   *)
(* under equal substitutions.                                              *)

LEMMA OldConstants == OldP!BrainAssumption
BY RollingAssumption
   DEF OldP!BrainAssumption, OldP!FaultKind, OldP!Nothing, OldP!Environment, OldP!FreeText,
       Field!Nothing, Field!Environment, Field!FreeText

LEMMA OldAlike ==
    /\ Old!Process <=> OldP!Process
    /\ Old!NextMessage <=> OldP!NextMessage
    /\ Old!Init <=> OldP!Init
    /\ \A u \in User : Old!MovesOn(u) <=> OldP!MovesOn(u)
<1> USE DEF Old!Process, OldP!Process, Old!NextMessage, OldP!NextMessage, Old!Init,
            OldP!Init, Old!MovesOn, OldP!MovesOn, Old!Receive, OldP!Receive,
            Old!Complete, OldP!Complete, Old!CompleteFails, OldP!CompleteFails,
            Old!Abandon, OldP!Abandon, Old!AbandonFails, OldP!AbandonFails, Old!Drop,
            OldP!Drop, Old!SenderUnknown, OldP!SenderUnknown, Old!SkipSeen,
            OldP!SkipSeen, Old!GetFails, OldP!GetFails, Old!SkipCompleted,
            OldP!SkipCompleted, Old!RouteStale, OldP!RouteStale, Old!RouteFollowup,
            OldP!RouteFollowup, Old!RouteRetry, OldP!RouteRetry, Old!RouteNudge,
            OldP!RouteNudge, Old!RouteInterview, OldP!RouteInterview, Old!Send,
            OldP!Send, Old!SendFails, OldP!SendFails, Old!Save, OldP!Save, Old!Finish,
            OldP!Finish, Old!PutFails, OldP!PutFails, Old!ModelFails, OldP!ModelFails,
            Old!ModelRaises, OldP!ModelRaises, Old!ModelAsks, OldP!ModelAsks,
            Old!ModelCompletes, OldP!ModelCompletes, Old!InvestigationFails,
            OldP!InvestigationFails, Old!InvestigationReports,
            OldP!InvestigationReports, Old!Absent, OldP!Absent, Old!Continues,
            OldP!Continues, Old!Terminal, OldP!Terminal, Old!IsNewIncident,
            OldP!IsNewIncident, Old!SummaryPlace, OldP!SummaryPlace, Old!Id, OldP!Id,
            Old!HoldsLock, OldP!HoldsLock, Old!Goto, OldP!Goto, Old!Released,
            OldP!Released, Old!queueVars, OldP!queueVars, Old!Ours, OldP!Ours,
            Old!ToSet, OldP!ToSet, Old!Loading, OldP!Loading, Old!CompletedBefore,
            OldP!CompletedBefore, Old!MarkSeen, OldP!MarkSeen, Old!Handling,
            OldP!Handling, Old!IsCard, OldP!IsCard, Old!Opened, OldP!Opened,
            Old!Route, OldP!Route, Old!IsRetryRequest, OldP!IsRetryRequest,
            Old!Turned, OldP!Turned, Old!Kind, OldP!Kind, Old!Replied, OldP!Replied,
            Old!AfterSend, OldP!AfterSend, Old!AfterPut, OldP!AfterPut, Old!Put,
            OldP!Put, Old!Marked, OldP!Marked, Old!Answer, OldP!Answer, Old!Nothing,
            OldP!Nothing, Old!IsPrefix, OldP!IsPrefix, Old!Rank, OldP!Rank,
            Old!NamesAnotherEnvironment, OldP!NamesAnotherEnvironment,
            Old!KnownEnvironment, OldP!KnownEnvironment, Old!Stored, OldP!Stored,
            Old!RemoveAt, OldP!RemoveAt, Old!StartsNewIncident,
            OldP!StartsNewIncident, Old!Fresh, OldP!Fresh, Old!Incorporate,
            OldP!Incorporate, Old!EnvironmentTokens, OldP!EnvironmentTokens,
            Old!KnownTokens, OldP!KnownTokens, Old!Norm, OldP!Norm, Old!WholeName,
            OldP!WholeName
<1>1. Old!Process <=> OldP!Process
  OBVIOUS
<1>2. Old!NextMessage <=> OldP!NextMessage
  OBVIOUS
<1>3. Old!Init <=> OldP!Init
  OBVIOUS
<1>4. \A u \in User : Old!MovesOn(u) <=> OldP!MovesOn(u)
  OBVIOUS
<1> QED
  BY ONLY <1>1, <1>2, <1>3, <1>4

LEMMA NewConstants == NewP!BrainAssumption
BY RollingAssumption
   DEF NewP!BrainAssumption, NewP!FaultKind, NewP!Nothing, NewP!Environment, NewP!FreeText,
       Field!Nothing, Field!Environment, Field!FreeText

LEMMA NewAlike ==
    /\ New!Process <=> NewP!Process
    /\ New!NextMessage <=> NewP!NextMessage
    /\ New!Init <=> NewP!Init
    /\ \A u \in User : New!MovesOn(u) <=> NewP!MovesOn(u)
<1> USE DEF New!Process, NewP!Process, New!NextMessage, NewP!NextMessage, New!Init,
            NewP!Init, New!MovesOn, NewP!MovesOn, New!Receive, NewP!Receive,
            New!Complete, NewP!Complete, New!CompleteFails, NewP!CompleteFails,
            New!Abandon, NewP!Abandon, New!AbandonFails, NewP!AbandonFails, New!Drop,
            NewP!Drop, New!SenderUnknown, NewP!SenderUnknown, New!SkipSeen,
            NewP!SkipSeen, New!GetFails, NewP!GetFails, New!SkipCompleted,
            NewP!SkipCompleted, New!RouteStale, NewP!RouteStale, New!RouteFollowup,
            NewP!RouteFollowup, New!RouteRetry, NewP!RouteRetry, New!RouteNudge,
            NewP!RouteNudge, New!RouteInterview, NewP!RouteInterview, New!Send,
            NewP!Send, New!SendFails, NewP!SendFails, New!Save, NewP!Save, New!Finish,
            NewP!Finish, New!PutFails, NewP!PutFails, New!ModelFails, NewP!ModelFails,
            New!ModelRaises, NewP!ModelRaises, New!ModelAsks, NewP!ModelAsks,
            New!ModelCompletes, NewP!ModelCompletes, New!InvestigationFails,
            NewP!InvestigationFails, New!InvestigationReports,
            NewP!InvestigationReports, New!Absent, NewP!Absent, New!Continues,
            NewP!Continues, New!Terminal, NewP!Terminal, New!IsNewIncident,
            NewP!IsNewIncident, New!SummaryPlace, NewP!SummaryPlace, New!Id, NewP!Id,
            New!HoldsLock, NewP!HoldsLock, New!Goto, NewP!Goto, New!Released,
            NewP!Released, New!queueVars, NewP!queueVars, New!Ours, NewP!Ours,
            New!ToSet, NewP!ToSet, New!Loading, NewP!Loading, New!CompletedBefore,
            NewP!CompletedBefore, New!MarkSeen, NewP!MarkSeen, New!Handling,
            NewP!Handling, New!IsCard, NewP!IsCard, New!Opened, NewP!Opened,
            New!Route, NewP!Route, New!IsRetryRequest, NewP!IsRetryRequest,
            New!Turned, NewP!Turned, New!Kind, NewP!Kind, New!Replied, NewP!Replied,
            New!AfterSend, NewP!AfterSend, New!AfterPut, NewP!AfterPut, New!Put,
            NewP!Put, New!Marked, NewP!Marked, New!Answer, NewP!Answer, New!Nothing,
            NewP!Nothing, New!IsPrefix, NewP!IsPrefix, New!Rank, NewP!Rank,
            New!NamesAnotherEnvironment, NewP!NamesAnotherEnvironment,
            New!KnownEnvironment, NewP!KnownEnvironment, New!Stored, NewP!Stored,
            New!RemoveAt, NewP!RemoveAt, New!StartsNewIncident,
            NewP!StartsNewIncident, New!Fresh, NewP!Fresh, New!Incorporate,
            NewP!Incorporate, New!EnvironmentTokens, NewP!EnvironmentTokens,
            New!KnownTokens, NewP!KnownTokens, New!Norm, NewP!Norm, New!WholeName,
            NewP!WholeName
<1>1. New!Process <=> NewP!Process
  OBVIOUS
<1>2. New!NextMessage <=> NewP!NextMessage
  OBVIOUS
<1>3. New!Init <=> NewP!Init
  OBVIOUS
<1>4. \A u \in User : New!MovesOn(u) <=> NewP!MovesOn(u)
  OBVIOUS
<1> QED
  BY ONLY <1>1, <1>2, <1>3, <1>4

LEMMA OneQueue ==
    /\ Posts => OldP!Environ
    /\ \A m \in Message : OrphanLockExpires(m) => OldP!Environ
    /\ \A u \in User : Expire(u) => OldP!Environ
<1> USE DEF Old!PostText, OldP!PostText, Old!PostCard, OldP!PostCard, Old!PostForeign,
            OldP!PostForeign, Old!PostNameless, OldP!PostNameless, Old!PostAgain,
            OldP!PostAgain, Old!OrphanLockExpires, OldP!OrphanLockExpires, Old!Expire,
            OldP!Expire, Old!Post, OldP!Post, Old!CardsShown, OldP!CardsShown,
            Old!HoldsLock, OldP!HoldsLock, Old!Released, OldP!Released,
            Old!processVars, OldP!processVars, Old!Absent, OldP!Absent, Old!queueVars,
            OldP!queueVars, Old!Nothing, OldP!Nothing
<1>1. ASSUME Posts PROVE OldP!Environ
  BY <1>1 DEF Posts, OldP!Environ
<1>2. ASSUME NEW m \in Message, OrphanLockExpires(m) PROVE OldP!Environ
  BY <1>2 DEF OrphanLockExpires, OldP!Environ
<1>3. ASSUME NEW u \in User, Expire(u) PROVE OldP!Environ
  BY <1>3 DEF Expire, OldP!Environ
<1> QED
  BY ONLY <1>1, <1>2, <1>3

LEMMA OneTable ==
    /\ Old!Absent = OldP!Absent /\ Old!Absent = NewP!Absent
    /\ OldP!Shared <=> NewP!Shared
    /\ OldP!Kept <=> NewP!Kept
BY DEF Old!Absent, Old!Nothing,
       OldP!Shared, NewP!Shared, OldP!Kept, NewP!Kept, OldP!Body, NewP!Body,
       OldP!State, NewP!State, OldP!Reply, NewP!Reply, OldP!Answered, NewP!Answered,
       OldP!SettledIsAnswered, NewP!SettledIsAnswered, OldP!RowsReal, NewP!RowsReal,
       OldP!TextBody, NewP!TextBody, OldP!CardBody, NewP!CardBody, OldP!ForeignBody,
       NewP!ForeignBody, OldP!Terminal, NewP!Terminal, OldP!Turn, NewP!Turn,
       OldP!Kind, NewP!Kind, OldP!FinalKind, NewP!FinalKind, OldP!Ours, NewP!Ours,
       OldP!Absent, NewP!Absent, OldP!AfterSend, NewP!AfterSend, OldP!Nothing,
       NewP!Nothing

LEMMA OneTableNext == OldP!Shared' <=> NewP!Shared'
BY DEF OldP!Shared, NewP!Shared, OldP!Body, NewP!Body, OldP!State, NewP!State,
       OldP!Reply, NewP!Reply, OldP!Answered, NewP!Answered, OldP!SettledIsAnswered,
       NewP!SettledIsAnswered, OldP!RowsReal, NewP!RowsReal, OldP!TextBody,
       NewP!TextBody, OldP!CardBody, NewP!CardBody, OldP!ForeignBody,
       NewP!ForeignBody, OldP!Terminal, NewP!Terminal, OldP!Turn, NewP!Turn,
       OldP!Kind, NewP!Kind, OldP!FinalKind, NewP!FinalKind, OldP!Ours, NewP!Ours,
       OldP!Absent, NewP!Absent, OldP!AfterSend, NewP!AfterSend, OldP!Nothing,
       NewP!Nothing

LEMMA OnePromise ==
    /\ Old!Promise!Init <=> OldP!Promise!Init
    /\ [Old!Promise!Next]_(Old!Promise!vars) <=> [OldP!Promise!Next]_(OldP!Promise!vars)
    /\ [Old!Promise!Next]_(Old!Promise!vars) <=> [NewP!Promise!Next]_(NewP!Promise!vars)
BY DEF Old!Promise!Init, OldP!Promise!Init, NewP!Promise!Init, Old!Promise!Next,
       OldP!Promise!Next, NewP!Promise!Next, Old!Promise!vars, OldP!Promise!vars,
       NewP!Promise!vars, Old!Promise!Post, OldP!Promise!Post, NewP!Promise!Post,
       Old!Promise!Reply, OldP!Promise!Reply, NewP!Promise!Reply, Old!Promise!Settle,
       OldP!Promise!Settle, NewP!Promise!Settle, Old!Promise!DeadLetter,
       OldP!Promise!DeadLetter, NewP!Promise!DeadLetter, Old!Answered, OldP!Answered,
       NewP!Answered, Old!FinalKind, OldP!FinalKind, NewP!FinalKind, Old!Ours,
       OldP!Ours, NewP!Ours

LEMMA SameWork ==
    /\ OldP!TypeOK => (Working(oldPc) <=> oldPc \in OldP!Working)
    /\ NewP!TypeOK => (Working(newPc) <=> newPc \in NewP!Working)
BY DEF Working, OldP!TypeOK, OldP!Working, OldP!Step, OldP!Kind, OldP!AfterSend, OldP!AfterPut,
       NewP!TypeOK, NewP!Working, NewP!Step, NewP!Kind, NewP!AfterSend, NewP!AfterPut

LEMMA SameWorkNext ==
    /\ OldP!TypeOK' => (Working(oldPc)' <=> oldPc' \in OldP!Working)
    /\ NewP!TypeOK' => (Working(newPc)' <=> newPc' \in NewP!Working)
BY DEF Working, OldP!TypeOK, OldP!Working, OldP!Step, OldP!Kind, OldP!AfterSend, OldP!AfterPut,
       NewP!TypeOK, NewP!Working, NewP!Step, NewP!Kind, NewP!AfterSend, NewP!AfterPut

LEMMA AbsentNext == Old!Absent' = Old!Absent
BY DEF Old!Absent, Old!Nothing
-----------------------------------------------------------------------------
(* The inductive invariant: each process holds what Beside says, and, when *)
(* it was not overtaken, what RowInv says of a process that is alone; what *)
(* is about to be deleted is absent, but to an overtaken process.          *)

OldSide ==
    /\ OldP!Beside
    /\ "old" \notin overtaken => OldP!RowInv
    /\ "old" \in deleting => /\ Working(oldPc)
                             /\ "old" \notin overtaken => row[body[oldCur].user] = Old!Absent

NewSide ==
    /\ NewP!Beside
    /\ "new" \notin overtaken => NewP!RowInv
    /\ "new" \in deleting => /\ Working(newPc)
                             /\ "new" \notin overtaken => row[body[newCur].user] = Old!Absent

RollInv ==
    /\ OldSide
    /\ NewSide
    /\ \A u \in expired : u \in User /\ row[u] = Old!Absent

(* What OnlyOvertakenLose says of a step.                                  *)
Loses ==
    \A u \in User : row'[u] # row[u] =>
        \/ row[u] = Old!Absent
        \/ u \in expired'
        \/ /\ OldActs
           /\ "old" \in overtaken \/ (oldCur # None /\ Old!MovesOn(u))
        \/ /\ NewActs
           /\ "new" \in overtaken \/ (newCur # None /\ New!MovesOn(u))

LEMMA RollInit == Init => RollInv
<1> SUFFICES ASSUME Init PROVE RollInv
  OBVIOUS
<1>1. /\ OldP!Beside /\ OldP!RowInv /\ NewP!Beside /\ NewP!RowInv
  BY OldAlike, NewAlike, OldP!BesideInit, NewP!BesideInit, OldConstants, NewConstants DEF Init
<1> QED
  BY <1>1 DEF Init, RollInv, OldSide, NewSide

(* A step that touches neither the queue nor what was sent is no step of   *)
(* AtLeastOnce.                                                            *)
LEMMA QueueStays ==
    ASSUME OldSide, UNCHANGED <<body, queue, sent>>
    PROVE  [Old!Promise!Next]_(Old!Promise!vars)
BY OldP!OnlyMoves, OldConstants, OnePromise DEF OldSide, OldP!Beside
-----------------------------------------------------------------------------
(* What the step of another leaves of a process: it waits, and is          *)
(* overtaken unless its user's row stayed as it is or went.                *)

LEMMA OldHasUser == OldSide /\ Working(oldPc) => body[oldCur].user \in User
BY SameWork
   DEF OldSide, OldP!Beside, OldP!AnsweredInv, OldP!TypeOK, OldP!CopySolid, OldP!Ours, OldP!Body,
       OldP!TextBody, OldP!CardBody, OldP!ForeignBody, Working

LEMMA OldWaits ==
    ASSUME OldSide, OldP!Shared', OldP!Kept, UNCHANGED oldVars,
           "old" \in deleting' => "old" \in deleting,
           "old" \notin overtaken' =>
               /\ "old" \notin overtaken
               /\ LET u == body[oldCur].user
                  IN  Working(oldPc) /\ u \in User => row'[u] = row[u] \/ row'[u] = Old!Absent
    PROVE  OldSide'
<1>1. UNCHANGED <<oldPc, oldCur, oldTry, oldSt, oldSeen>> /\ Old!Absent = OldP!Absent
  BY OneTable DEF oldVars
<1>2. OldP!Beside /\ OldP!TypeOK
  BY DEF OldSide, OldP!Beside, OldP!AnsweredInv
<1>3. OldP!Beside'
  BY <1>1, <1>2, OldP!Bystander, OldConstants DEF OldP!processVars
<1>4. Working(oldPc) => body'[oldCur] = body[oldCur]
  BY <1>2 DEF Working, OldP!TypeOK, OldP!Kept
<1>5. ASSUME "old" \notin overtaken' PROVE OldP!RowInv'
  <2>1. OldP!RowInv
    BY <1>5 DEF OldSide
  <2>2. oldPc \in OldP!Working => row'[body[oldCur].user] \in {OldP!Stored, OldP!Absent}
    BY <1>1, <1>2, <1>5, OldHasUser, SameWork DEF OldP!Stored
  <2> QED
    BY <1>1, <1>2, <1>3, <2>1, <2>2, OldP!Untouched, OldConstants DEF OldP!processVars
<1>6. ASSUME "old" \in deleting'
      PROVE  /\ Working(oldPc)'
             /\ "old" \notin overtaken' => row'[body'[oldCur'].user] = Old!Absent
  BY <1>1, <1>4, <1>6, OldHasUser DEF OldSide, Working
<1> QED
  BY <1>3, <1>5, <1>6, AbsentNext DEF OldSide

LEMMA NewHasUser == NewSide /\ Working(newPc) => body[newCur].user \in User
BY SameWork
   DEF NewSide, NewP!Beside, NewP!AnsweredInv, NewP!TypeOK, NewP!CopySolid, NewP!Ours, NewP!Body,
       NewP!TextBody, NewP!CardBody, NewP!ForeignBody, Working

LEMMA NewWaits ==
    ASSUME NewSide, NewP!Shared', NewP!Kept, UNCHANGED newVars,
           "new" \in deleting' => "new" \in deleting,
           "new" \notin overtaken' =>
               /\ "new" \notin overtaken
               /\ LET u == body[newCur].user
                  IN  Working(newPc) /\ u \in User => row'[u] = row[u] \/ row'[u] = Old!Absent
    PROVE  NewSide'
<1>1. UNCHANGED <<newPc, newCur, newTry, newSt, newSeen>> /\ Old!Absent = NewP!Absent
  BY OneTable DEF newVars
<1>2. NewP!Beside /\ NewP!TypeOK
  BY DEF NewSide, NewP!Beside, NewP!AnsweredInv
<1>3. NewP!Beside'
  BY <1>1, <1>2, NewP!Bystander, NewConstants DEF NewP!processVars
<1>4. Working(newPc) => body'[newCur] = body[newCur]
  BY <1>2 DEF Working, NewP!TypeOK, NewP!Kept
<1>5. ASSUME "new" \notin overtaken' PROVE NewP!RowInv'
  <2>1. NewP!RowInv
    BY <1>5 DEF NewSide
  <2>2. newPc \in NewP!Working => row'[body[newCur].user] \in {NewP!Stored, NewP!Absent}
    BY <1>1, <1>2, <1>5, NewHasUser, SameWork DEF NewP!Stored
  <2> QED
    BY <1>1, <1>2, <1>3, <2>1, <2>2, NewP!Untouched, NewConstants DEF NewP!processVars
<1>6. ASSUME "new" \in deleting'
      PROVE  /\ Working(newPc)'
             /\ "new" \notin overtaken' => row'[body'[newCur'].user] = Old!Absent
  BY <1>1, <1>4, <1>6, NewHasUser DEF NewSide, Working
<1> QED
  BY <1>3, <1>5, <1>6, AbsentNext DEF NewSide

-----------------------------------------------------------------------------
(* The steps of a process.                                                 *)

LEMMA OldWorks ==
    ASSUME RollInv, OldProcess
    PROVE  RollInv' /\ Loses /\ [Old!Promise!Next]_(Old!Promise!vars)
<1>1. /\ OldP!Process /\ "old" \notin deleting /\ UNCHANGED newVars
      /\ Tracks("old", oldPc, oldPc', oldCur) /\ Overtakes("old", oldPc', "new", newPc, newCur)
  BY OldAlike DEF OldProcess
<1>2. OldP!Beside /\ OldP!TypeOK /\ ("old" \notin overtaken => OldP!RowInv) /\ NewSide
  BY DEF RollInv, OldSide, OldP!Beside, OldP!AnsweredInv
<1>3. /\ OldP!Beside' /\ OldP!Shared' /\ OldP!Kept
      /\ [OldP!Promise!Next]_(OldP!Promise!vars)
      /\ \A u \in User : row'[u] # row[u] => row'[u] # Old!Absent
  BY <1>1, <1>2, OldP!BesideProcess, OldConstants, OneTable
<1>4. OldP!TypeOK'
  BY <1>3 DEF OldP!Beside, OldP!AnsweredInv
<1>5. NewSide'
  <2>1. "new" \in deleting' => "new" \in deleting
    BY <1>1 DEF Tracks
  <2>2. ASSUME "new" \notin overtaken'
        PROVE  /\ "new" \notin overtaken
               /\ Working(newPc) => row'[body[newCur].user] = row[body[newCur].user]
    BY <1>1, <2>2 DEF Overtakes
  <2> QED
    BY <1>1, <1>2, <1>3, <2>1, <2>2, NewWaits, OneTable, OneTableNext
<1>6. ASSUME "old" \notin overtaken
      PROVE  OldP!RowInv' /\ OldP!RowMoves
  BY <1>1, <1>2, <1>6, OldP!RowStep, OldConstants DEF OldP!Next
<1>7. ASSUME "old" \notin overtaken' PROVE OldP!RowInv'
  <2>1. CASE "old" \notin overtaken
    BY <1>6, <2>1
  <2>2. CASE "old" \in overtaken
    <3>1. ~ Working(oldPc)'
      BY <1>1, <1>7, <2>2 DEF Overtakes, Working
    <3> QED
      BY <1>3, <1>4, <3>1, OldP!NothingInHandNext, OldConstants, SameWorkNext
  <2> QED
    BY <2>1, <2>2
<1>8. ASSUME "old" \in deleting'
      PROVE  Working(oldPc)' /\ row'[body'[oldCur'].user] = Old!Absent
  <2>1. oldPc = "check" /\ Working(oldPc)' /\ body[oldCur].user \in expired
    BY <1>1, <1>8 DEF Tracks, Working
  <2>2. oldPc' \in OldP!Working
    BY <1>4, <2>1, SameWorkNext
  <2>3. UNCHANGED <<row, oldCur, body>>
    BY <1>1, <1>2, <2>1, <2>2, OldP!RoutingReads, OldConstants
  <2> QED
    BY <2>1, <2>3 DEF RollInv
<1>9. OldSide'
  BY <1>3, <1>7, <1>8, AbsentNext DEF OldSide
<1>10. \A u \in expired' : u \in User /\ row'[u] = Old!Absent
  BY <1>1 DEF Tracks, RollInv
<1>11. Loses
  <2> SUFFICES ASSUME NEW u \in User, row'[u] # row[u], row[u] # Old!Absent,
                      "old" \notin overtaken
               PROVE  oldCur # None /\ Old!MovesOn(u)
    BY <1>1 DEF Loses, OldActs, Tracks
  <2>1. OldP!RowInv
    BY <1>2
  <2>2. row'[u] # OldP!Absent /\ row[u] # OldP!Absent
    BY <1>3, OneTable
  <2>3. OldP!MovesOn(u)
    BY <1>6, <2>2 DEF OldP!RowMoves
  <2>4. oldPc \in OldP!Writing
    BY <1>1, <2>1, <2>2, OldP!RowWrites, OldConstants DEF OldP!Next
  <2>5. oldPc # "idle"
    BY <2>4 DEF OldP!Writing, OldP!AfterPut
  <2> QED
    BY <1>2, <2>3, <2>5, OldAlike DEF OldP!TypeOK
<1> QED
  BY <1>3, <1>5, <1>9, <1>10, <1>11, OnePromise, AbsentNext DEF RollInv

LEMMA NewWorks ==
    ASSUME RollInv, NewProcess
    PROVE  RollInv' /\ Loses /\ [Old!Promise!Next]_(Old!Promise!vars)
<1>1. /\ NewP!Process /\ "new" \notin deleting /\ UNCHANGED oldVars
      /\ Tracks("new", newPc, newPc', newCur) /\ Overtakes("new", newPc', "old", oldPc, oldCur)
  BY NewAlike DEF NewProcess
<1>2. NewP!Beside /\ NewP!TypeOK /\ ("new" \notin overtaken => NewP!RowInv) /\ OldSide
  BY DEF RollInv, NewSide, NewP!Beside, NewP!AnsweredInv
<1>3. /\ NewP!Beside' /\ NewP!Shared' /\ NewP!Kept
      /\ [NewP!Promise!Next]_(NewP!Promise!vars)
      /\ \A u \in User : row'[u] # row[u] => row'[u] # Old!Absent
  BY <1>1, <1>2, NewP!BesideProcess, NewConstants, OneTable
<1>4. NewP!TypeOK'
  BY <1>3 DEF NewP!Beside, NewP!AnsweredInv
<1>5. OldSide'
  <2>1. "old" \in deleting' => "old" \in deleting
    BY <1>1 DEF Tracks
  <2>2. ASSUME "old" \notin overtaken'
        PROVE  /\ "old" \notin overtaken
               /\ Working(oldPc) => row'[body[oldCur].user] = row[body[oldCur].user]
    BY <1>1, <2>2 DEF Overtakes
  <2> QED
    BY <1>1, <1>2, <1>3, <2>1, <2>2, OldWaits, OneTable, OneTableNext
<1>6. ASSUME "new" \notin overtaken
      PROVE  NewP!RowInv' /\ NewP!RowMoves
  BY <1>1, <1>2, <1>6, NewP!RowStep, NewConstants DEF NewP!Next
<1>7. ASSUME "new" \notin overtaken' PROVE NewP!RowInv'
  <2>1. CASE "new" \notin overtaken
    BY <1>6, <2>1
  <2>2. CASE "new" \in overtaken
    <3>1. ~ Working(newPc)'
      BY <1>1, <1>7, <2>2 DEF Overtakes, Working
    <3> QED
      BY <1>3, <1>4, <3>1, NewP!NothingInHandNext, NewConstants, SameWorkNext
  <2> QED
    BY <2>1, <2>2
<1>8. ASSUME "new" \in deleting'
      PROVE  Working(newPc)' /\ row'[body'[newCur'].user] = Old!Absent
  <2>1. newPc = "check" /\ Working(newPc)' /\ body[newCur].user \in expired
    BY <1>1, <1>8 DEF Tracks, Working
  <2>2. newPc' \in NewP!Working
    BY <1>4, <2>1, SameWorkNext
  <2>3. UNCHANGED <<row, newCur, body>>
    BY <1>1, <1>2, <2>1, <2>2, NewP!RoutingReads, NewConstants
  <2> QED
    BY <2>1, <2>3 DEF RollInv
<1>9. NewSide'
  BY <1>3, <1>7, <1>8, AbsentNext DEF NewSide
<1>10. \A u \in expired' : u \in User /\ row'[u] = Old!Absent
  BY <1>1 DEF Tracks, RollInv
<1>11. Loses
  <2> SUFFICES ASSUME NEW u \in User, row'[u] # row[u], row[u] # Old!Absent,
                      "new" \notin overtaken
               PROVE  newCur # None /\ New!MovesOn(u)
    BY <1>1 DEF Loses, NewActs, Tracks
  <2>1. NewP!RowInv
    BY <1>2
  <2>2. row'[u] # NewP!Absent /\ row[u] # NewP!Absent
    BY <1>3, OneTable
  <2>3. NewP!MovesOn(u)
    BY <1>6, <2>2 DEF NewP!RowMoves
  <2>4. newPc \in NewP!Writing
    BY <1>1, <2>1, <2>2, NewP!RowWrites, NewConstants DEF NewP!Next
  <2>5. newPc # "idle"
    BY <2>4 DEF NewP!Writing, NewP!AfterPut
  <2> QED
    BY <1>2, <2>3, <2>5, NewAlike DEF NewP!TypeOK
<1> QED
  BY <1>3, <1>5, <1>9, <1>10, <1>11, OnePromise, AbsentNext DEF RollInv

(* The second call of StateStore.get.                                      *)
LEMMA OldClears ==
    ASSUME RollInv, OldDeletes
    PROVE  RollInv' /\ Loses /\ [Old!Promise!Next]_(Old!Promise!vars)
<1> DEFINE u == body[oldCur].user
<1>1. /\ "old" \in deleting /\ deleting' = deleting \ {"old"}
      /\ UNCHANGED <<body, queue, deliveries, sent, oldVars, newVars, revision>>
      /\ \/ UNCHANGED <<row, expired, overtaken>>
         \/ /\ row' = [row EXCEPT ![u] = Old!Absent]
            /\ expired' = expired \ {u}
            /\ overtaken \subseteq overtaken' /\ overtaken' \subseteq overtaken \cup {"new"}
  BY DEF OldDeletes, Deleted
<1>2. OldSide /\ NewSide /\ OldP!Shared
  BY OldP!BesideShares, OldConstants DEF RollInv, OldSide
<1>3. "old" \notin overtaken => row[u] = Old!Absent
  BY <1>1, <1>2 DEF OldSide
<1>4. row \in [User -> OldP!State]
  BY <1>2 DEF OldP!Shared
<1>5. \A v \in User : row'[v] = row[v] \/ (v = u /\ row'[v] = Old!Absent)
  BY <1>1, <1>4
<1>6. UNCHANGED row \/ (u \in User /\ row' = [row EXCEPT ![u] = Old!Absent])
  BY <1>1, <1>4
<1>7. OldP!Shared' /\ OldP!Kept
  <2>1. UNCHANGED OldP!queueVars /\ UNCHANGED sent
    BY <1>1 DEF OldP!queueVars
  <2>2. CASE UNCHANGED row
    BY <1>2, <2>1, <2>2, OldP!SharedStays, OldConstants
  <2>3. CASE u \in User /\ row' = [row EXCEPT ![u] = Old!Absent]
    BY <1>2, <2>1, <2>3, OldP!RowGone, OldConstants, OneTable
  <2> QED
    BY <1>6, <2>2, <2>3
<1>8. ASSUME NEW v \in User PROVE row'[v] = row[v] \/ row'[v] = Old!Absent
  BY <1>5
<1>9. OldSide'
  BY <1>1, <1>2, <1>7, <1>8, OldWaits
<1>10. NewSide'
  BY <1>1, <1>2, <1>7, <1>8, NewWaits, OneTable, OneTableNext
<1>11. \A v \in expired' : v \in User /\ row'[v] = Old!Absent
  BY <1>1, <1>5 DEF RollInv
<1>12. Loses
  BY <1>1, <1>3, <1>5 DEF Loses, OldActs
<1>13. [Old!Promise!Next]_(Old!Promise!vars)
  BY <1>1, <1>2, QueueStays
<1> QED
  BY <1>9, <1>10, <1>11, <1>12, <1>13, AbsentNext DEF RollInv

LEMMA NewClears ==
    ASSUME RollInv, NewDeletes
    PROVE  RollInv' /\ Loses /\ [Old!Promise!Next]_(Old!Promise!vars)
<1> DEFINE u == body[newCur].user
<1>1. /\ "new" \in deleting /\ deleting' = deleting \ {"new"}
      /\ UNCHANGED <<body, queue, deliveries, sent, oldVars, newVars, revision>>
      /\ \/ UNCHANGED <<row, expired, overtaken>>
         \/ /\ row' = [row EXCEPT ![u] = Old!Absent]
            /\ expired' = expired \ {u}
            /\ overtaken \subseteq overtaken' /\ overtaken' \subseteq overtaken \cup {"old"}
  BY DEF NewDeletes, Deleted
<1>2. OldSide /\ NewSide /\ OldP!Shared
  BY OldP!BesideShares, OldConstants DEF RollInv, OldSide
<1>3. "new" \notin overtaken => row[u] = Old!Absent
  BY <1>1, <1>2 DEF NewSide
<1>4. row \in [User -> OldP!State]
  BY <1>2 DEF OldP!Shared
<1>5. \A v \in User : row'[v] = row[v] \/ (v = u /\ row'[v] = Old!Absent)
  BY <1>1, <1>4
<1>6. UNCHANGED row \/ (u \in User /\ row' = [row EXCEPT ![u] = Old!Absent])
  BY <1>1, <1>4
<1>7. OldP!Shared' /\ OldP!Kept
  <2>1. UNCHANGED OldP!queueVars /\ UNCHANGED sent
    BY <1>1 DEF OldP!queueVars
  <2>2. CASE UNCHANGED row
    BY <1>2, <2>1, <2>2, OldP!SharedStays, OldConstants
  <2>3. CASE u \in User /\ row' = [row EXCEPT ![u] = Old!Absent]
    BY <1>2, <2>1, <2>3, OldP!RowGone, OldConstants, OneTable
  <2> QED
    BY <1>6, <2>2, <2>3
<1>8. ASSUME NEW v \in User PROVE row'[v] = row[v] \/ row'[v] = Old!Absent
  BY <1>5
<1>9. OldSide'
  BY <1>1, <1>2, <1>7, <1>8, OldWaits
<1>10. NewSide'
  BY <1>1, <1>2, <1>7, <1>8, NewWaits, OneTable, OneTableNext
<1>11. \A v \in expired' : v \in User /\ row'[v] = Old!Absent
  BY <1>1, <1>5 DEF RollInv
<1>12. Loses
  BY <1>1, <1>3, <1>5 DEF Loses, NewActs
<1>13. [Old!Promise!Next]_(Old!Promise!vars)
  BY <1>1, <1>2, QueueStays
<1> QED
  BY <1>9, <1>10, <1>11, <1>12, <1>13, AbsentNext DEF RollInv

-----------------------------------------------------------------------------
(* The steps of the deployment, the queue and the clock.                   *)

LEMMA Idles ==
    ASSUME RollInv, UNCHANGED <<body, queue, deliveries, row, sent, oldVars, newVars,
                                expired, deleting, overtaken>>
    PROVE  RollInv' /\ Loses /\ [Old!Promise!Next]_(Old!Promise!vars)
<1>1. OldSide /\ NewSide /\ OldP!Shared
  BY OldP!BesideShares, OldConstants DEF RollInv, OldSide
<1>2. OldP!Shared' /\ OldP!Kept
  BY <1>1, OldP!SharedStays, OldConstants DEF OldP!queueVars
<1>3. OldSide'
  BY <1>1, <1>2, OldWaits
<1>4. NewSide'
  BY <1>1, <1>2, NewWaits, OneTable, OneTableNext
<1> QED
  BY <1>1, <1>3, <1>4, QueueStays, AbsentNext DEF RollInv, Loses

LEMMA OldStops ==
    ASSUME RollInv, StopOld
    PROVE  RollInv' /\ Loses /\ [Old!Promise!Next]_(Old!Promise!vars)
<1>1. /\ OldP!NextMessage /\ oldSeen' = <<>> /\ UNCHANGED newVars
      /\ UNCHANGED <<body, queue, deliveries, row, sent, expired>>
      /\ deleting' = deleting \ {"old"} /\ overtaken' = overtaken \ {"old"}
  BY OldAlike DEF StopOld
<1>2. OldSide /\ NewSide /\ OldP!Beside /\ OldP!Shared
  BY OldP!BesideShares, OldConstants DEF RollInv, OldSide
<1>3. OldP!Shared' /\ OldP!Kept
  BY <1>1, <1>2, OldP!SharedStays, OldConstants DEF OldP!queueVars
<1>4. OldP!Beside'
  BY <1>1, <1>2, OldP!Stopped, OldConstants DEF OldP!queueVars
<1>5. oldPc' \notin OldP!Working
  BY <1>1, OldP!WorkingSteps, OldConstants DEF OldP!NextMessage
<1>6. OldP!RowInv'
  BY <1>4, <1>5, OldP!NothingInHandNext, OldConstants
<1>7. OldSide'
  BY <1>1, <1>4, <1>6 DEF OldSide
<1>8. NewSide'
  BY <1>1, <1>2, <1>3, NewWaits, OneTable, OneTableNext
<1> QED
  BY <1>1, <1>2, <1>7, <1>8, QueueStays, AbsentNext DEF RollInv, Loses

LEMMA QueueMoves ==
    ASSUME RollInv, OldP!Environ, UNCHANGED <<oldVars, newVars, deleting, overtaken>>,
           \A u \in User : row'[u] # row[u] => u \in expired',
           \A u \in expired' : u \in User /\ row'[u] = Old!Absent
    PROVE  RollInv' /\ Loses /\ [Old!Promise!Next]_(Old!Promise!vars)
<1>1. OldSide /\ NewSide /\ OldP!Beside
  BY DEF RollInv, OldSide
<1>2. /\ OldP!Shared' /\ OldP!Kept
      /\ [OldP!Promise!Next]_(OldP!Promise!vars)
  BY <1>1, OldP!BesideEnviron, OldConstants
<1>3. \A v \in User : row'[v] = row[v] \/ row'[v] = Old!Absent
  OBVIOUS
<1>4. OldSide'
  BY <1>1, <1>2, <1>3, OldWaits
<1>5. NewSide'
  BY <1>1, <1>2, <1>3, NewWaits, OneTable, OneTableNext
<1> QED
  BY <1>2, <1>4, <1>5, OnePromise, AbsentNext DEF RollInv, Loses

LEMMA RowExpires ==
    ASSUME RollInv, NEW u \in User, Expire(u)
    PROVE  RollInv' /\ Loses /\ [Old!Promise!Next]_(Old!Promise!vars)
<1>1. /\ row' = [row EXCEPT ![u] = Old!Absent] /\ expired' = expired \cup {u}
      /\ UNCHANGED <<oldVars, newVars, deleting, overtaken>>
  BY DEF Expire, Old!Expire, Old!processVars, oldVars
<1>2. OldP!Shared
  BY OldP!BesideShares, OldConstants DEF RollInv, OldSide
<1>3. \A v \in User : row'[v] = IF v = u THEN Old!Absent ELSE row[v]
  BY <1>1, <1>2 DEF OldP!Shared
<1>4. \A v \in User : row'[v] # row[v] => v \in expired'
  BY <1>1, <1>3
<1>5. \A v \in expired' : v \in User /\ row'[v] = Old!Absent
  BY <1>1, <1>3 DEF RollInv
<1> QED
  BY <1>1, <1>4, <1>5, OneQueue, QueueMoves

LEMMA QueueFills ==
    ASSUME RollInv, Posts \/ \E m \in Message : OrphanLockExpires(m)
    PROVE  RollInv' /\ Loses /\ [Old!Promise!Next]_(Old!Promise!vars)
<1>1. UNCHANGED <<row, oldVars, newVars, expired, deleting, overtaken>>
  BY DEF Posts, OrphanLockExpires, Old!OrphanLockExpires, New!OrphanLockExpires, Old!PostText,
     Old!PostCard, Old!PostForeign, Old!PostNameless, Old!PostAgain, Old!Post, Old!processVars,
     New!processVars, oldVars, newVars, deployVars
<1>2. \A u \in expired' : u \in User /\ row'[u] = Old!Absent
  BY <1>1 DEF RollInv
<1> QED
  BY <1>1, <1>2, OneQueue, QueueMoves
-----------------------------------------------------------------------------
LEMMA RollNext ==
    ASSUME RollInv, [Next]_rollVars
    PROVE  RollInv' /\ Loses /\ [Old!Promise!Next]_(Old!Promise!vars)
<1>1. CASE StartNew \/ Quiet \/ UNCHANGED rollVars
  <2>1. UNCHANGED <<body, queue, deliveries, row, sent, oldVars, newVars,
                    expired, deleting, overtaken>>
    BY <1>1 DEF StartNew, Quiet, rollVars, deployVars
  <2> QED
    BY <2>1, Idles
<1>2. CASE StopOld
  BY <1>2, OldStops
<1>3. CASE OldProcess
  BY <1>3, OldWorks
<1>4. CASE NewProcess
  BY <1>4, NewWorks
<1>5. CASE OldDeletes
  BY <1>5, OldClears
<1>6. CASE NewDeletes
  BY <1>6, NewClears
<1>7. CASE Posts \/ \E m \in Message : OrphanLockExpires(m)
  BY <1>7, QueueFills
<1>8. ASSUME NEW u \in User, Expire(u)
      PROVE  RollInv' /\ Loses /\ [Old!Promise!Next]_(Old!Promise!vars)
  BY <1>8, RowExpires
<1> QED
  BY <1>1, <1>2, <1>3, <1>4, <1>5, <1>6, <1>7, <1>8 DEF Next

(* A roll-out loses nothing of an interview unless two activities of one   *)
(* user are handled at once: a row is only ever moved on within its        *)
(* incident, replaced after a finished one, or gone with its TTL, except   *)
(* by a process that the other one overtook between its read and its write *)
(* (app.py:320-347; state_store.py:116-147).                               *)
THEOREM OnlyTheOvertakenLose == Spec => OnlyOvertakenLose
<1>1. RollInv /\ [Next]_rollVars => RollInv' /\ Loses
  BY RollNext
<1>2. RollInv /\ [Next]_rollVars => [Loses]_rollVars
  BY <1>1
<1>3. Spec => [][Loses]_rollVars
  BY <1>1, <1>2, RollInit, PTL DEF Spec
<1> QED
  BY <1>3 DEF OnlyOvertakenLose, Loses

(* The two revisions together settle only what either has answered, and    *)
(* neither takes back what the other settled or gave up: but for its       *)
(* fairness, a roll-out implements AtLeastOnce (app.py:150-156, 427-437).  *)
THEOREM RolloutIsAtLeastOnce ==
    Spec => Old!Promise!Init /\ [][Old!Promise!Next]_(Old!Promise!vars)
<1>1. Init => Old!Promise!Init
  BY OldAlike, OldP!PromiseInit, OldConstants, OnePromise DEF Init
<1>2. RollInv /\ [Next]_rollVars => RollInv' /\ [Old!Promise!Next]_(Old!Promise!vars)
  BY RollNext
<1> QED
  BY <1>1, <1>2, RollInit, PTL DEF Spec
=============================================================================
