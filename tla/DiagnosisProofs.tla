-------------------------- MODULE DiagnosisProofs --------------------------
(***************************************************************************)
(* Proofs about Investigation, for any set of servers, any finite set of   *)
(* calls, any budget and any number of runs; and about Diagnosis, for any  *)
(* targets and job numbers and whatever other brains ask: asking Jenkins   *)
(* is an investigation like any other, and the log it reads is of the      *)
(* deploy it was listed, as long as nothing else took the number.          *)
(***************************************************************************)
EXTENDS Diagnosis, FiniteSetTheorems, TLAPS

(* What a run leaves alone until it has reached the step that changes it.  *)
NotYet ==
    /\ pc = "connect" => \A c \in Call : calls[c] = "unmade"
    /\ pc \in {"connect", "model"} => report = {}
    /\ pc # "connect" => todo = {}

(* The middleware's count is the number of calls the run has made, except  *)
(* while the count is still an earlier run's, and then none was made.      *)
Counted ==
    \/ Cardinality(Ran) = count
    \/ pc # "model" /\ \A c \in Call : calls[c] = "unmade"

BlockedLate == (\E c \in Call : calls[c] = "blocked") => count = Budget

(* Every server is where __aenter__ put it, and a report hides none of     *)
(* those it could not connect.                                             *)
Placed ==
    /\ config \subseteq todo \cup tools \cup unavailable
    /\ \A listed \in report : unavailable \subseteq listed

IInv ==
    /\ TypeOK
    /\ NotYet
    /\ Counted
    /\ BlockedLate
    /\ Placed
    /\ NothingLeftOpen

(* Next by its actions, and the step that changes nothing.                 *)
LEMMA Steps ==
    ASSUME [Next]_vars
    PROVE  \/ \E named \in SUBSET Server : \E skipped \in SUBSET named : Start(named, skipped)
           \/ ConfigFails
           \/ \E s \in Server : Connect(s)
           \/ \E s \in Server : ConnectFails(s)
           \/ \E s \in Server : Close(s)
           \/ BuildAgent
           \/ \E cs \in SUBSET Call : Ask(cs)
           \/ \E c \in Call : Admit(c)
           \/ \E c \in Call : Block(c)
           \/ \E c \in Call : CallEnds(c)
           \/ \E listed \in SUBSET Server : Respond(listed)
           \/ RunFails
           \/ Leave
           \/ Done \/ UNCHANGED vars
  BY DEF Next

(* The first state satisfies the invariant: nothing has run.               *)
LEMMA InitInv == Init => IInv
<1> SUFFICES ASSUME Init PROVE IInv
  OBVIOUS
<1>1. TypeOK
  <2>1. calls \in [Call -> CallState] /\ report \in SUBSET SUBSET Server
    BY DEF Init, CallState
  <2>2. count \in 0..Budget /\ runs \in Nat
    BY InvestigationAssumption DEF Init, InvestigationAssumption
  <2> QED
    BY <2>1, <2>2 DEF Init, TypeOK
<1>2. NotYet /\ Counted /\ BlockedLate /\ Placed /\ NothingLeftOpen
  BY DEF Init, NotYet, Counted, BlockedLate, Placed, NothingLeftOpen
<1> QED
  BY <1>1, <1>2 DEF IInv

(* Every step keeps the types.  Only Admit needs more than its assignments: *)
(* its guard is what keeps the count within the budget.                    *)
LEMMA TypeStep == TypeOK /\ [Next]_vars => TypeOK'
<1> SUFFICES ASSUME TypeOK, [Next]_vars PROVE TypeOK'
  OBVIOUS
<1>0. Budget \in Nat
  BY InvestigationAssumption DEF InvestigationAssumption
<1> USE DEF TypeOK, toolVars
<1>1. CASE \E named \in SUBSET Server : \E skipped \in SUBSET named : Start(named, skipped)
  <2>1. PICK named \in SUBSET Server : \E skipped \in SUBSET named : Start(named, skipped)
    BY <1>1
  <2>2. PICK skipped \in SUBSET named : Start(named, skipped)
    BY <2>1
  <2>3. calls' \in [Call -> CallState] /\ report' \in SUBSET SUBSET Server
    BY <2>2 DEF Start, NewRun, CallState
  <2>4. runs' \in Nat /\ count' \in 0..Budget
    BY <2>2 DEF Start, NewRun
  <2>5. config' \in SUBSET Server /\ todo' \in SUBSET Server /\ unavailable' \in SUBSET Server
    BY <2>2 DEF Start
  <2> QED
    BY <2>2, <2>3, <2>4, <2>5 DEF Start, NewRun
<1>2. CASE ConfigFails
  <2>1. calls' \in [Call -> CallState] /\ report' \in SUBSET SUBSET Server
    BY <1>2 DEF ConfigFails, NewRun, CallState
  <2>2. runs' \in Nat /\ count' \in 0..Budget
    BY <1>2 DEF ConfigFails, NewRun
  <2> QED
    BY <1>2, <2>1, <2>2 DEF ConfigFails, NewRun
<1>3. CASE \E s \in Server : Connect(s)
  BY <1>3 DEF Connect
<1>4. CASE \E s \in Server : ConnectFails(s)
  BY <1>4 DEF ConnectFails
<1>5. CASE \E s \in Server : Close(s)
  BY <1>5 DEF Close
<1>6. CASE BuildAgent
  BY <1>0, <1>6 DEF BuildAgent
<1>7. CASE \E cs \in SUBSET Call : Ask(cs)
  BY <1>7 DEF Ask, CallState
<1>8. CASE \E c \in Call : Admit(c)
  BY <1>0, <1>8 DEF Admit, CallState
<1>9. CASE \E c \in Call : Block(c)
  BY <1>9 DEF Block, CallState
<1>10. CASE \E c \in Call : CallEnds(c)
  BY <1>10 DEF CallEnds, CallState
<1>11. CASE \E listed \in SUBSET Server : Respond(listed)
  BY <1>11 DEF Respond
<1>12. CASE RunFails
  BY <1>12 DEF RunFails, CallState
<1>13. CASE Leave
  BY <1>13 DEF Leave
<1>14. CASE Done \/ UNCHANGED vars
  BY <1>14 DEF Done, vars
<1> QED
  BY <1>1, <1>2, <1>3, <1>4, <1>5, <1>6, <1>7, <1>8, <1>9, <1>10, <1>11, <1>12, <1>13, <1>14, Steps

(* What a run has not reached yet stays as NewRun left it.                  *)
LEMMA NotYetStep == TypeOK /\ NotYet /\ [Next]_vars => NotYet'
<1> SUFFICES ASSUME TypeOK, NotYet, [Next]_vars PROVE NotYet'
  OBVIOUS
<1> USE DEF TypeOK, CallState, NotYet, toolVars, InFlight
<1>1. CASE \E named \in SUBSET Server : \E skipped \in SUBSET named : Start(named, skipped)
  BY <1>1 DEF Start, NewRun, Idle
<1>2. CASE ConfigFails
  BY <1>2 DEF ConfigFails, NewRun, Idle
<1>3. CASE \E s \in Server : Connect(s)
  BY <1>3 DEF Connect
<1>4. CASE \E s \in Server : ConnectFails(s)
  BY <1>4 DEF ConnectFails
<1>5. CASE \E s \in Server : Close(s)
  BY <1>5 DEF Close
<1>6. CASE BuildAgent
  BY <1>6 DEF BuildAgent
<1>7. CASE \E cs \in SUBSET Call : Ask(cs)
  BY <1>7 DEF Ask
<1>8. CASE \E c \in Call : Admit(c)
  BY <1>8 DEF Admit
<1>9. CASE \E c \in Call : Block(c)
  BY <1>9 DEF Block
<1>10. CASE \E c \in Call : CallEnds(c)
  BY <1>10 DEF CallEnds
<1>11. CASE \E listed \in SUBSET Server : Respond(listed)
  BY <1>11 DEF Respond
<1>12. CASE RunFails
  BY <1>12 DEF RunFails
<1>13. CASE Leave
  BY <1>13 DEF Leave
<1>14. CASE Done \/ UNCHANGED vars
  BY <1>14 DEF Done, vars
<1> QED
  BY <1>1, <1>2, <1>3, <1>4, <1>5, <1>6, <1>7, <1>8, <1>9, <1>10, <1>11, <1>12, <1>13, <1>14, Steps

(* A server leaves todo for tools or for unavailable, and once there is a   *)
(* report, unavailable no longer grows (mcp_registry.py:137-145).           *)
LEMMA PlacedStep == NotYet /\ Placed /\ [Next]_vars => Placed'
<1> SUFFICES ASSUME NotYet, Placed, [Next]_vars PROVE Placed'
  OBVIOUS
<1> USE DEF NotYet, Placed, toolVars
<1>1. CASE \E named \in SUBSET Server : \E skipped \in SUBSET named : Start(named, skipped)
  BY <1>1 DEF Start, NewRun, Idle
<1>2. CASE ConfigFails
  BY <1>2 DEF ConfigFails, NewRun, Idle
<1>3. CASE \E s \in Server : Connect(s)
  BY <1>3 DEF Connect
<1>4. CASE \E s \in Server : ConnectFails(s)
  BY <1>4 DEF ConnectFails
<1>5. CASE \E s \in Server : Close(s)
  BY <1>5 DEF Close
<1>6. CASE BuildAgent
  BY <1>6 DEF BuildAgent
<1>7. CASE \E cs \in SUBSET Call : Ask(cs)
  BY <1>7 DEF Ask
<1>8. CASE \E c \in Call : Admit(c)
  BY <1>8 DEF Admit
<1>9. CASE \E c \in Call : Block(c)
  BY <1>9 DEF Block
<1>10. CASE \E c \in Call : CallEnds(c)
  BY <1>10 DEF CallEnds
<1>11. CASE \E listed \in SUBSET Server : Respond(listed)
  BY <1>11 DEF Respond
<1>12. CASE RunFails
  BY <1>12 DEF RunFails
<1>13. CASE Leave
  BY <1>13 DEF Leave
<1>14. CASE Done \/ UNCHANGED vars
  BY <1>14 DEF Done, vars
<1> QED
  BY <1>1, <1>2, <1>3, <1>4, <1>5, <1>6, <1>7, <1>8, <1>9, <1>10, <1>11, <1>12, <1>13, <1>14, Steps

(* Only Leave ends a run that has connected anything (investigation.py:300).*)
LEMMA OpenStep == NothingLeftOpen /\ [Next]_vars => NothingLeftOpen'
<1> SUFFICES ASSUME NothingLeftOpen, [Next]_vars PROVE NothingLeftOpen'
  OBVIOUS
<1> USE DEF NothingLeftOpen, toolVars
<1>1. CASE \E named \in SUBSET Server : \E skipped \in SUBSET named : Start(named, skipped)
  BY <1>1 DEF Start, NewRun, Idle
<1>2. CASE ConfigFails
  BY <1>2 DEF ConfigFails, NewRun, Idle
<1>3. CASE \E s \in Server : Connect(s)
  BY <1>3 DEF Connect
<1>4. CASE \E s \in Server : ConnectFails(s)
  BY <1>4 DEF ConnectFails
<1>5. CASE \E s \in Server : Close(s)
  BY <1>5 DEF Close
<1>6. CASE BuildAgent
  BY <1>6 DEF BuildAgent
<1>7. CASE \E cs \in SUBSET Call : Ask(cs)
  BY <1>7 DEF Ask
<1>8. CASE \E c \in Call : Admit(c)
  BY <1>8 DEF Admit
<1>9. CASE \E c \in Call : Block(c)
  BY <1>9 DEF Block
<1>10. CASE \E c \in Call : CallEnds(c)
  BY <1>10 DEF CallEnds
<1>11. CASE \E listed \in SUBSET Server : Respond(listed)
  BY <1>11 DEF Respond
<1>12. CASE RunFails
  BY <1>12 DEF RunFails
<1>13. CASE Leave
  BY <1>13 DEF Leave
<1>14. CASE Done \/ UNCHANGED vars
  BY <1>14 DEF Done, vars
<1> QED
  BY <1>1, <1>2, <1>3, <1>4, <1>5, <1>6, <1>7, <1>8, <1>9, <1>10, <1>11, <1>12, <1>13, <1>14, Steps
(* The calls a run has made are finitely many, and a step that moves no    *)
(* call into or out of them leaves their number alone.                     *)
LEMMA RanFinite == IsFiniteSet(Ran) /\ Cardinality(Ran) \in Nat
<1>1. Ran \in SUBSET Call
  BY DEF Ran
<1>2. IsFiniteSet(Ran)
  BY <1>1, InvestigationAssumption, FS_Subset DEF InvestigationAssumption
<1> QED
  BY <1>2, FS_CardinalityType

(* The budget: the count rises with the calls made, one by one, and stands *)
(* at Budget once a call was blocked (investigation.py:199-208).           *)
LEMMA CountedStep ==
    TypeOK /\ NotYet /\ Counted /\ BlockedLate /\ [Next]_vars => Counted' /\ BlockedLate'
<1> SUFFICES ASSUME TypeOK, NotYet, Counted, BlockedLate, [Next]_vars
             PROVE  Counted' /\ BlockedLate'
  OBVIOUS
<1>b. Budget \in Nat /\ count \in Nat /\ count <= Budget
  BY InvestigationAssumption DEF InvestigationAssumption, TypeOK
<1>u. ASSUME \A c \in Call : calls'[c] = "unmade", pc' # "model"
      PROVE  Counted' /\ BlockedLate'
  BY <1>u DEF Counted, BlockedLate
<1>s. ASSUME UNCHANGED <<calls, count>>, pc' # "model" \/ pc = "model"
      PROVE  Counted' /\ BlockedLate'
  BY <1>s DEF Counted, BlockedLate, Ran
<1>1. CASE \E named \in SUBSET Server : \E skipped \in SUBSET named : Start(named, skipped)
  BY <1>1, <1>u DEF Start, NewRun
<1>2. CASE ConfigFails
  BY <1>2, <1>u DEF ConfigFails, NewRun
<1>3. CASE \E s \in Server : Connect(s)
  BY <1>3, <1>s DEF Connect
<1>4. CASE \E s \in Server : ConnectFails(s)
  BY <1>4, <1>s DEF ConnectFails
<1>5. CASE \E s \in Server : Close(s)
  BY <1>5, <1>s DEF Close
<1>6. CASE BuildAgent
  <2>1. \A c \in Call : calls'[c] = "unmade"
    BY <1>6 DEF BuildAgent, NotYet
  <2>2. Ran' = {}
    BY <2>1 DEF Ran
  <2>3. Cardinality(Ran') = count'
    BY <1>6, <2>2, FS_EmptySet DEF BuildAgent
  <2> QED
    BY <2>1, <2>3 DEF Counted, BlockedLate
<1>7. CASE \E cs \in SUBSET Call : Ask(cs)
  <2>1. PICK cs \in SUBSET Call : Ask(cs)
    BY <1>7
  <2>2. Ran' = Ran
    BY <2>1 DEF Ask, Ran
  <2>3. \A c \in Call : calls'[c] = "blocked" => calls[c] = "blocked"
    BY <2>1 DEF Ask
  <2> QED
    BY <2>1, <2>2, <2>3 DEF Ask, Counted, BlockedLate
<1>8. CASE \E c \in Call : Admit(c)
  <2>1. PICK c \in Call : Admit(c)
    BY <1>8
  <2>2. c \notin Ran /\ Ran' = Ran \cup {c}
    BY <2>1 DEF Admit, Ran, TypeOK
  <2>3. Cardinality(Ran) = count
    BY <2>1 DEF Admit, Counted
  <2>4. Cardinality(Ran') = count + 1
    BY <2>2, <2>3, RanFinite, FS_AddElement
  <2>5. \A d \in Call : calls'[d] # "blocked"
    BY <1>b, <2>1 DEF Admit, BlockedLate, TypeOK
  <2> QED
    BY <2>1, <2>4, <2>5 DEF Admit, Counted, BlockedLate
<1>9. CASE \E c \in Call : Block(c)
  <2>1. PICK c \in Call : Block(c)
    BY <1>9
  <2>2. Ran' = Ran
    BY <2>1 DEF Block, Ran, TypeOK
  <2>3. count' = Budget
    BY <1>b, <2>1 DEF Block
  <2>4. Cardinality(Ran) = count
    BY <2>1 DEF Block, Counted
  <2> QED
    BY <2>1, <2>2, <2>3, <2>4 DEF Block, Counted, BlockedLate
<1>10. CASE \E c \in Call : CallEnds(c)
  <2>1. PICK c \in Call : CallEnds(c)
    BY <1>10
  <2>2. Ran' = Ran
    BY <2>1 DEF CallEnds, Ran, TypeOK
  <2>3. Cardinality(Ran) = count
    BY <2>1 DEF CallEnds, Counted
  <2>4. \A d \in Call : calls'[d] = "blocked" => calls[d] = "blocked"
    BY <2>1 DEF CallEnds, TypeOK
  <2> QED
    BY <2>1, <2>2, <2>3, <2>4 DEF CallEnds, Counted, BlockedLate
<1>11. CASE \E listed \in SUBSET Server : Respond(listed)
  BY <1>11, <1>s DEF Respond
<1>12. CASE RunFails
  <2>1. /\ calls' = [c \in Call |-> CASE calls[c] = "asked"   -> "dropped"
                                     [] calls[c] = "running" -> "done"
                                     [] OTHER                -> calls[c]]
        /\ count' = count /\ pc = "model" /\ pc' = "close"
    BY <1>12 DEF RunFails
  <2>2. \A c \in Call : /\ calls'[c] \in {"running", "done"} <=> calls[c] \in {"running", "done"}
                        /\ calls'[c] = "blocked" => calls[c] = "blocked"
    BY <2>1
  <2>3. Ran' = Ran
    BY <2>2 DEF Ran
  <2>4. Cardinality(Ran) = count
    BY <2>1 DEF Counted
  <2> QED
    BY <2>1, <2>2, <2>3, <2>4 DEF Counted, BlockedLate
<1>13. CASE Leave
  BY <1>13, <1>s DEF Leave
<1>14. CASE Done \/ UNCHANGED vars
  BY <1>14, <1>s DEF Done, vars
<1> QED
  BY <1>1, <1>2, <1>3, <1>4, <1>5, <1>6, <1>7, <1>8, <1>9, <1>10, <1>11, <1>12, <1>13, <1>14, Steps

(* The invariant holds of every run of investigations.                     *)
LEMMA Invariant == Spec => []IInv
<1>1. IInv /\ [Next]_vars => IInv'
  BY TypeStep, NotYetStep, CountedStep, PlacedStep, OpenStep DEF IInv
<1> QED
  BY InitInv, <1>1, PTL DEF Spec

(* Every variable keeps its type; in particular the count never exceeds    *)
(* TOOL_CALL_BUDGET.                                                       *)
THEOREM TypeCorrect == Spec => []TypeOK
<1>1. IInv => TypeOK
  BY DEF IInv
<1> QED
  BY Invariant, <1>1, PTL

(* However many calls the model asks for at once and in whatever order     *)
(* they are admitted, a run makes at most Budget of them, and none is      *)
(* refused before Budget were made (investigation.py:165-173).             *)
THEOREM BudgetIsKept == Spec => []BudgetKept
<1>1. IInv => BudgetKept
  <2> SUFFICES ASSUME IInv PROVE BudgetKept
    OBVIOUS
  <2>1. Budget \in Nat /\ count \in Nat /\ count <= Budget
    BY InvestigationAssumption DEF InvestigationAssumption, IInv, TypeOK
  <2>2. CASE Cardinality(Ran) = count
    BY <2>1, <2>2 DEF IInv, BlockedLate, BudgetKept
  <2>3. CASE \A c \in Call : calls[c] = "unmade"
    <3>1. Cardinality(Ran) = 0
      BY <2>3, FS_EmptySet DEF Ran
    <3> QED
      BY <2>1, <2>3, <3>1 DEF BudgetKept
  <2> QED
    BY <2>2, <2>3 DEF IInv, Counted
<1> QED
  BY Invariant, <1>1, PTL

(* A report that is returned names every configured server the run did not *)
(* have (mcp_registry.py:119-125, investigation.py:313).                   *)
THEOREM ServersAreAccounted == Spec => []EveryServerAccounted
<1>1. IInv => EveryServerAccounted
  BY DEF IInv, NotYet, Placed, EveryServerAccounted
<1> QED
  BY Invariant, <1>1, PTL

(* No run leaves a connection open, whichever tools fail to connect or to  *)
(* close (mcp_registry.py:110-112).                                        *)
THEOREM ConnectionsAreClosed == Spec => []NothingLeftOpen
<1>1. IInv => NothingLeftOpen
  BY DEF IInv
<1> QED
  BY Invariant, <1>1, PTL
-----------------------------------------------------------------------------
(* A step of Diagnosis is a step of Investigation, or none of its steps.   *)
LEMMA StepIsInvestigation ==
    [DiagnosisNext]_diagnosisVars => [Next]_vars
<1> SUFFICES ASSUME [DiagnosisNext]_diagnosisVars PROVE [Next]_vars
  OBVIOUS
<1>1. CASE NewDiagnosis
  BY <1>1 DEF NewDiagnosis, Next
<1>2. CASE AskJenkins
  BY <1>2 DEF AskJenkins, Next
<1>3. CASE RestartJenkins \/ UNCHANGED diagnosisVars
  BY <1>3 DEF RestartJenkins, diagnosisVars
<1>6. CASE \E t \in Target : AnotherLists(t)
  BY <1>6 DEF AnotherLists
<1>4. ASSUME NEW c \in Call, AnswerCall(c) PROVE Next
  BY <1>4 DEF AnswerCall, Next
<1>5. CASE \/ \E s \in Server : Connect(s) \/ ConnectFails(s) \/ Close(s)
           \/ BuildAgent
           \/ \E c \in Call : Admit(c) \/ Block(c)
           \/ \E listed \in SUBSET Server : Respond(listed)
           \/ RunFails \/ Leave \/ Done
  BY <1>5 DEF Next
<1> QED
  BY <1>1, <1>2, <1>3, <1>4, <1>5, <1>6 DEF DiagnosisNext

(* Whatever an investigation asks of Jenkins, it is an investigation: all  *)
(* that is proved of Investigation holds of it, its budget and the closing *)
(* of its tools included (investigation.py:225-296).                       *)
THEOREM DiagnosisIsInvestigation == DiagnosisSpec => Spec
<1>1. DiagnosisInit => Init
  BY DEF DiagnosisInit
<1> QED
  BY <1>1, StepIsInvestigation, PTL DEF DiagnosisSpec, Spec
-----------------------------------------------------------------------------
(* The invariant that LogIsOfListedDeploy rests on.                        *)

JenkinsTypes ==
    /\ calls \in [Call -> CallState]
    /\ asks \in [Call -> Request]
    /\ told \in [Call -> SUBSET Target]
    /\ \A n \in DOMAIN issued : issued[n] \in Target

(* A call that was not made asks nothing, and one that did not end was     *)
(* told nothing.                                                           *)
CallsInOrder ==
    \A c \in Call :
        /\ calls[c] = "unmade" => asks[c].tool = "other"
        /\ calls[c] # "done" => told[c] = {}

(* What was listed before a log was asked for is still listed.             *)
AfterIsListed == \A c \in Call : asks[c].tool = "log" => asks[c].after \subseteq Listed

(* The number of a target that was listed, and not lost, is issued for it. *)
IssuedForListed ==
    \A t \in Listed \ lost : JobNumber[t] \in DOMAIN issued /\ issued[JobNumber[t]] = t

LInv ==
    /\ JenkinsTypes /\ CallsInOrder /\ AfterIsListed
    /\ IssuedForListed /\ LogIsOfListedDeploy

LEMMA InitLInv == DiagnosisInit => LInv
  BY DEF DiagnosisInit, Init, LInv, JenkinsTypes, CallsInOrder, AfterIsListed,
         IssuedForListed, LogIsOfListedDeploy, Request, Other, Listed, CallState

(* A new investigation has asked nothing and was told nothing.             *)
LEMMA NewStep == LInv /\ NewDiagnosis => LInv'
<1> SUFFICES ASSUME LInv, NewDiagnosis PROVE LInv'
  OBVIOUS
<1>1. /\ calls' = [c \in Call |-> "unmade"]
      /\ asks' = [c \in Call |-> Other]
      /\ told' = [c \in Call |-> {}]
      /\ issued' = issued
  BY DEF NewDiagnosis, Start, ConfigFails, NewRun
<1>2. Listed' = {}
  BY <1>1 DEF Listed, Other
<1> QED
  BY <1>1, <1>2 DEF LInv, JenkinsTypes, CallsInOrder, AfterIsListed,
     IssuedForListed, LogIsOfListedDeploy, Request, Other, CallState

(* Steps that leave Jenkins alone only move calls on.                      *)
LEMMA OtherStep ==
    ASSUME LInv, UNCHANGED jenkinsVars,
           calls' \in [Call -> CallState],
           \A c \in Call : /\ calls'[c] = "unmade" => calls[c] = "unmade"
                           /\ calls[c] = "done" => calls'[c] = "done"
    PROVE  LInv'
<1>1. /\ Listed' = Listed /\ asks' = asks /\ told' = told
      /\ issued' = issued /\ lost' = lost
  BY DEF jenkinsVars, Listed
<1>2. JenkinsTypes' /\ CallsInOrder'
  BY <1>1 DEF LInv, JenkinsTypes, CallsInOrder
<1>3. AfterIsListed'
  BY <1>1 DEF LInv, AfterIsListed
<1>4. IssuedForListed' /\ LogIsOfListedDeploy'
  BY <1>1 DEF LInv, IssuedForListed, LogIsOfListedDeploy
<1> QED
  BY <1>2, <1>3, <1>4 DEF LInv

(* A log is asked for after what is listed now.                            *)
LEMMA AskStep == LInv /\ AskJenkins => LInv'
<1> SUFFICES ASSUME LInv, AskJenkins PROVE LInv'
  OBVIOUS
<1>1. PICK cs \in SUBSET Call :
        /\ Ask(cs)
        /\ \E q \in [cs -> Questions] :
              asks' = [c \in Call |-> IF c \in cs THEN q[c] ELSE asks[c]]
  BY DEF AskJenkins
<1>2. PICK q \in [cs -> Questions] :
        asks' = [c \in Call |-> IF c \in cs THEN q[c] ELSE asks[c]]
  BY <1>1
<1>3. /\ issued' = issued /\ told' = told /\ lost' = lost
      /\ \A c \in cs : calls[c] = "unmade"
      /\ calls' = [c \in Call |-> IF c \in cs THEN "asked" ELSE calls[c]]
  BY <1>1 DEF AskJenkins, Ask
<1>4. \A c \in cs : told[c] = {} /\ asks[c].tool = "other"
  BY <1>3 DEF LInv, CallsInOrder
<1>5. \A c \in Call : asks'[c] = IF c \in cs THEN q[c] ELSE asks[c]
  BY <1>2
<1>6. /\ Listed \subseteq Target
      /\ Questions \subseteq Request
      /\ \A r \in Questions : r.tool = "log" => r.after = Listed
  <2>1. Listed \subseteq Target
    BY DEF LInv, JenkinsTypes, Listed
  <2> QED
    BY <2>1 DEF Questions, Request
<1>7. Listed' = Listed
  <2>1. ASSUME NEW t \in Listed PROVE t \in Listed'
    BY <1>3, <1>4, <1>5, <2>1 DEF Listed
  <2>2. ASSUME NEW t \in Listed' PROVE t \in Listed
    BY <1>3, <1>4, <1>5, <2>2 DEF Listed
  <2> QED
    BY <2>1, <2>2
<1>8. JenkinsTypes'
  BY <1>2, <1>3, <1>6 DEF LInv, JenkinsTypes, CallState
<1>9. CallsInOrder'
  BY <1>3, <1>4, <1>5 DEF LInv, CallsInOrder, JenkinsTypes
<1>10. AfterIsListed'
  BY <1>5, <1>6, <1>7 DEF LInv, AfterIsListed
<1>11. IssuedForListed'
  BY <1>3, <1>7 DEF LInv, IssuedForListed
<1>12. LogIsOfListedDeploy'
  BY <1>3, <1>4, <1>5 DEF LInv, LogIsOfListedDeploy
<1> QED
  BY <1>8, <1>9, <1>10, <1>11, <1>12 DEF LInv

(* Jenkins restarts and forgets: all that was listed is lost.              *)
LEMMA RestartJenkinsStep == LInv /\ RestartJenkins => LInv'
<1> SUFFICES ASSUME LInv, RestartJenkins PROVE LInv'
  OBVIOUS
<1>1. /\ calls' = calls /\ asks' = asks /\ told' = told
      /\ lost' = lost \cup Listed /\ DOMAIN issued' = {}
  BY DEF RestartJenkins, vars
<1>2. Listed' = Listed
  BY <1>1 DEF Listed
<1> QED
  BY <1>1, <1>2 DEF LInv, JenkinsTypes, CallsInOrder, AfterIsListed,
     IssuedForListed, LogIsOfListedDeploy

(* A number is issued for t, whoever asked: what this investigation was    *)
(* listed under it is lost, but t; of all else Jenkins remembers what it   *)
(* did.                                                                    *)
LEMMA IssueKeeps ==
    ASSUME LInv, NEW t \in Target, Issue(t), Loses(t)
    PROVE  /\ \A n \in DOMAIN issued' : issued'[n] \in Target
           /\ lost \subseteq lost'
           /\ \A r \in (Listed \cup {t}) \ lost' :
                 JobNumber[r] \in DOMAIN issued' /\ issued'[JobNumber[r]] = r
<1>1. /\ DOMAIN issued' = DOMAIN issued \cup {JobNumber[t]}
      /\ \A n \in DOMAIN issued' : issued'[n] = IF n = JobNumber[t] THEN t ELSE issued[n]
  BY DEF Issue
<1>2. \A n \in DOMAIN issued' : issued'[n] \in Target
  BY <1>1 DEF LInv, JenkinsTypes
<1>3. ASSUME NEW r \in (Listed \cup {t}) \ lost'
      PROVE  JobNumber[r] \in DOMAIN issued' /\ issued'[JobNumber[r]] = r
  <2>1. CASE r = t
    BY <1>1, <2>1
  <2>2. CASE r # t
    <3>1. r \in Listed \ lost /\ JobNumber[r] # JobNumber[t]
      BY <1>3, <2>2 DEF Loses
    <3> QED
      BY <1>1, <3>1 DEF LInv, IssuedForListed
  <2> QED
    BY <2>1, <2>2
<1> QED
  BY <1>2, <1>3 DEF Loses

(* Another brain's investigation has a target listed.                      *)
LEMMA AnotherListsStep == ASSUME LInv, NEW t \in Target, AnotherLists(t) PROVE LInv'
<1>1. /\ calls' = calls /\ asks' = asks /\ told' = told /\ Issue(t) /\ Loses(t)
  BY DEF AnotherLists, vars
<1>2. Listed' = Listed
  BY <1>1 DEF Listed
<1>3. /\ \A n \in DOMAIN issued' : issued'[n] \in Target
      /\ lost \subseteq lost'
      /\ \A r \in (Listed \cup {t}) \ lost' :
            JobNumber[r] \in DOMAIN issued' /\ issued'[JobNumber[r]] = r
  BY <1>1, IssueKeeps
<1>4. JenkinsTypes' /\ CallsInOrder' /\ AfterIsListed'
  BY <1>1, <1>2, <1>3 DEF LInv, JenkinsTypes, CallsInOrder, AfterIsListed
<1>5. IssuedForListed'
  BY <1>2, <1>3 DEF IssuedForListed
<1>6. LogIsOfListedDeploy'
  BY <1>1, <1>3 DEF LInv, LogIsOfListedDeploy
<1> QED
  BY <1>4, <1>5, <1>6 DEF LInv

LEMMA AnswerStep == ASSUME LInv, NEW c \in Call, AnswerCall(c) PROVE LInv'
<1>1. calls[c] = "running" /\ calls' = [calls EXCEPT ![c] = "done"] /\ asks' = asks
  BY DEF AnswerCall, CallEnds
<1>2. /\ calls'[c] = "done"
      /\ \A d \in Call \ {c} : calls'[d] = calls[d]
      /\ calls' \in [Call -> CallState]
  BY <1>1 DEF LInv, JenkinsTypes, CallState
<1>3. asks[c].tool = "deploys" => asks[c].target \in Target
  BY DEF LInv, JenkinsTypes, Request
<1>4. CASE ListDeploys(c)
  <2>1. PICK t \in Target :
          /\ t = asks[c].target /\ asks[c].tool = "deploys"
          /\ Issue(t) /\ Loses(t)
          /\ told' = [told EXCEPT ![c] = {t}]
    BY <1>3, <1>4 DEF ListDeploys
  <2>2. /\ told'[c] = {t} /\ told[c] = {}
        /\ \A d \in Call \ {c} : told'[d] = told[d]
        /\ told' \in [Call -> SUBSET Target]
    BY <1>1, <2>1 DEF LInv, JenkinsTypes, CallsInOrder
  <2>3. Listed' = Listed \cup {t}
    <3>1. ASSUME NEW r \in Listed' PROVE r \in Listed \cup {t}
      BY <1>1, <2>2, <3>1 DEF Listed
    <3>2. ASSUME NEW r \in Listed \cup {t} PROVE r \in Listed'
      BY <1>1, <2>1, <2>2, <3>2 DEF Listed
    <3> QED
      BY <3>1, <3>2
  <2>4. /\ \A n \in DOMAIN issued' : issued'[n] \in Target
        /\ lost \subseteq lost'
        /\ \A r \in (Listed \cup {t}) \ lost' :
              JobNumber[r] \in DOMAIN issued' /\ issued'[JobNumber[r]] = r
    BY <2>1, IssueKeeps
  <2>5. JenkinsTypes' /\ CallsInOrder' /\ AfterIsListed'
    BY <1>1, <1>2, <2>2, <2>3, <2>4 DEF LInv, JenkinsTypes, CallsInOrder, AfterIsListed
  <2>6. IssuedForListed'
    BY <2>3, <2>4 DEF IssuedForListed
  <2>7. LogIsOfListedDeploy'
    BY <1>1, <2>1, <2>2, <2>4 DEF LInv, LogIsOfListedDeploy
  <2> QED
    BY <2>5, <2>6, <2>7 DEF LInv
<1>5. CASE ReadLog(c)
  <2>1. /\ asks[c].tool = "log" /\ issued' = issued /\ lost' = lost
        /\ told' = [told EXCEPT ![c] = {LogOf(asks[c].job)}]
    BY <1>5 DEF ReadLog
  <2>2. LogOf(asks[c].job) \in Target
    BY DiagnosisAssumption DEF DiagnosisAssumption, LInv, JenkinsTypes, LogOf
  <2>3. /\ told'[c] = {LogOf(asks[c].job)}
        /\ \A d \in Call \ {c} : told'[d] = told[d]
        /\ told' \in [Call -> SUBSET Target]
    BY <2>1, <2>2 DEF LInv, JenkinsTypes
  <2>4. Listed' = Listed
    BY <1>1, <2>1, <2>3 DEF Listed
  <2>5. JenkinsTypes' /\ CallsInOrder' /\ AfterIsListed'
    BY <1>1, <1>2, <2>1, <2>3, <2>4 DEF LInv, JenkinsTypes, CallsInOrder, AfterIsListed
  <2>6. IssuedForListed'
    BY <2>1, <2>4 DEF LInv, IssuedForListed
  <2>7. ASSUME NEW t \in asks[c].after, JobNumber[t] = asks[c].job, t \notin lost
        PROVE  told'[c] \subseteq {t}
    <3>1. t \in Listed \ lost
      BY <2>1, <2>7 DEF LInv, AfterIsListed
    <3>2. JobNumber[t] \in DOMAIN issued /\ issued[JobNumber[t]] = t
      BY <3>1 DEF LInv, IssuedForListed
    <3> QED
      BY <2>3, <2>7, <3>2 DEF LogOf
  <2>8. LogIsOfListedDeploy'
    BY <1>1, <2>1, <2>3, <2>7 DEF LInv, LogIsOfListedDeploy
  <2> QED
    BY <2>5, <2>6, <2>8 DEF LInv
<1>6. CASE TellNothing(c)
  <2>1. told' = told /\ Listed' = Listed
    BY <1>1, <1>6 DEF TellNothing, Listed
  <2>2. /\ \A n \in DOMAIN issued' : issued'[n] \in Target
        /\ lost \subseteq lost'
        /\ IssuedForListed'
    <3>1. CASE UNCHANGED <<issued, lost>>
      BY <2>1, <3>1 DEF LInv, JenkinsTypes, IssuedForListed
    <3>2. CASE asks[c].tool = "deploys" /\ Issue(asks[c].target) /\ Loses(asks[c].target)
      <4>1. PICK t \in Target : Issue(t) /\ Loses(t)
        BY <1>3, <3>2
      <4>2. /\ \A n \in DOMAIN issued' : issued'[n] \in Target
            /\ lost \subseteq lost'
            /\ \A r \in (Listed \cup {t}) \ lost' :
                  JobNumber[r] \in DOMAIN issued' /\ issued'[JobNumber[r]] = r
        BY <4>1, IssueKeeps
      <4> QED
        BY <2>1, <4>2 DEF IssuedForListed
    <3> QED
      BY <1>6, <3>1, <3>2 DEF TellNothing
  <2>3. JenkinsTypes' /\ CallsInOrder' /\ AfterIsListed'
    BY <1>1, <1>2, <2>1, <2>2 DEF LInv, JenkinsTypes, CallsInOrder, AfterIsListed
  <2>4. LogIsOfListedDeploy'
    BY <1>1, <2>1, <2>2 DEF LInv, LogIsOfListedDeploy
  <2> QED
    BY <2>2, <2>3, <2>4 DEF LInv
<1> QED
  BY <1>4, <1>5, <1>6 DEF AnswerCall

LEMMA StepLInv == LInv /\ [DiagnosisNext]_diagnosisVars => LInv'
<1> SUFFICES ASSUME LInv, [DiagnosisNext]_diagnosisVars PROVE LInv'
  OBVIOUS
<1>1. calls \in [Call -> CallState]
  BY DEF LInv, JenkinsTypes
<1>2. CASE UNCHANGED jenkinsVars /\ UNCHANGED calls
  BY <1>1, <1>2, OtherStep
<1>3. ASSUME UNCHANGED jenkinsVars, NEW c \in Call, Admit(c) \/ Block(c) PROVE LInv'
  <2>1. PICK state \in {"running", "blocked"} :
          calls[c] = "asked" /\ calls' = [calls EXCEPT ![c] = state]
    BY <1>3 DEF Admit, Block
  <2>2. calls' \in [Call -> CallState]
    BY <1>1, <2>1 DEF CallState
  <2>3. \A d \in Call : /\ calls'[d] = "unmade" => calls[d] = "unmade"
                        /\ calls[d] = "done" => calls'[d] = "done"
    BY <1>1, <2>1
  <2> QED
    BY <1>3, <2>2, <2>3, OtherStep
<1>4. CASE /\ \/ \E s \in Server : Connect(s) \/ ConnectFails(s) \/ Close(s)
              \/ BuildAgent
              \/ \E listed \in SUBSET Server : Respond(listed)
              \/ Leave \/ Done
           /\ UNCHANGED jenkinsVars
  <2>1. UNCHANGED calls
    BY <1>4 DEF Connect, ConnectFails, Close, BuildAgent, Respond, Leave, Done, vars
  <2> QED
    BY <1>2, <1>4, <2>1
<1>5. CASE UNCHANGED diagnosisVars
  BY <1>2, <1>5 DEF diagnosisVars, vars
<1>6. CASE RunFails /\ UNCHANGED jenkinsVars
  <2>1. \A c \in Call : calls'[c] = CASE calls[c] = "asked"   -> "dropped"
                                     [] calls[c] = "running" -> "done"
                                     [] OTHER                -> calls[c]
    BY <1>6 DEF RunFails
  <2>2. calls' \in [Call -> CallState]
    BY <1>1, <1>6 DEF RunFails, CallState
  <2>3. \A c \in Call : /\ calls'[c] = "unmade" => calls[c] = "unmade"
                        /\ calls[c] = "done" => calls'[c] = "done"
    BY <2>1
  <2> QED
    BY <1>6, <2>2, <2>3, OtherStep
<1>7. CASE \E t \in Target : AnotherLists(t)
  BY <1>7, AnotherListsStep
<1> QED
  BY <1>3, <1>4, <1>5, <1>6, <1>7, NewStep, AskStep, RestartJenkinsStep, AnswerStep DEF DiagnosisNext

(* Whatever targets share a job number, and whatever was issued for it     *)
(* before, the log read is of the deploy that was listed, unless after the *)
(* listing this or another brain's investigation had another target of     *)
(* that number listed, or Jenkins was restarted (mock-mcp/server.py:       *)
(* 122-141).                                                               *)
THEOREM LogsAreOfListedDeploys == DiagnosisSpec => []LogIsOfListedDeploy
<1>1. LInv => LogIsOfListedDeploy
  BY DEF LInv
<1> QED
  BY InitLInv, StepLInv, <1>1, PTL DEF DiagnosisSpec

(* The budget is kept by an investigation that asks Jenkins.               *)
THEOREM DiagnosisKeepsBudget == DiagnosisSpec => []BudgetKept
  BY DiagnosisIsInvestigation, BudgetIsKept, PTL
=============================================================================
