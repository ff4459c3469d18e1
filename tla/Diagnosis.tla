----------------------------- MODULE Diagnosis -----------------------------
(***************************************************************************)
(* Investigations that ask the Jenkins of mock-mcp/server.py: a deploy is  *)
(* listed under a job number, and a log is asked for by that number only.  *)
(* Which deploys its numbers were issued for outlives an investigation and *)
(* dies with the server's process; and it is one map for every brain there *)
(* is, of which there are two while a revision is rolled.  The other mock  *)
(* servers answer from their arguments alone.                              *)
(***************************************************************************)
EXTENDS Investigation

CONSTANTS
    Jenkins,   \* the mock Jenkins, one of Server
    Target,    \* what is deployed: an environment and a service
    Demo,      \* dev37/backend
    JobNumber  \* _job_number, which may give two targets the same number

ASSUME DiagnosisAssumption ==
    /\ Jenkins \in Server
    /\ Demo \in Target

VARIABLES
    issued,   \* Jenkins's map from job numbers to targets
    asks,     \* what each tool call asks
    told,     \* the target of the deploy or log each call was told of
    lost      \* history: what this investigation was listed, and whose number
              \* has since been issued for another target or been forgotten

jenkinsVars   == <<issued, asks, told, lost>>
diagnosisVars == <<vars, jenkinsVars>>

Number == {JobNumber[t] : t \in Target}

(* A log is asked for knowing what was listed before ("after").            *)
Request ==
    [tool: {"other"}] \cup [tool: {"deploys"}, target: Target]
    \cup [tool: {"log"}, job: Number, after: SUBSET Target]

Other == [tool |-> "other"]

(* What this investigation was told was deployed.                          *)
Listed == UNION {told[c] : c \in {d \in Call : asks[d].tool = "deploys"}}

DiagnosisInit ==
    /\ Init
    /\ issued = [n \in {} |-> Demo]
    /\ asks = [c \in Call |-> Other]
    /\ told = [c \in Call |-> {}]
    /\ lost = {}
-----------------------------------------------------------------------------
(* A new investigation knows nothing of Jenkins; Jenkins remembers.        *)
NewDiagnosis ==
    /\ \/ \E named \in SUBSET Server : \E skipped \in SUBSET named : Start(named, skipped)
       \/ ConfigFails
    /\ asks' = [c \in Call |-> Other]
    /\ told' = [c \in Call |-> {}]
    /\ lost' = {}
    /\ UNCHANGED issued

(* The model asks Jenkins for what it likes, if it has that tool.          *)
Questions ==
    [tool: {"other"}] \cup
    (IF Jenkins \in tools
     THEN [tool: {"deploys"}, target: Target] \cup [tool: {"log"}, job: Number, after: {Listed}]
     ELSE {})

AskJenkins ==
    /\ \E cs \in SUBSET Call :
          /\ Ask(cs)
          /\ \E q \in [cs -> Questions] :
                asks' = [c \in Call |-> IF c \in cs THEN q[c] ELSE asks[c]]
    /\ UNCHANGED <<issued, told, lost>>

(* Mutant of Issue: a number is issued for the first target that has it.   *)
IssueOnce(t) ==
    issued' = [n \in DOMAIN issued \cup {JobNumber[t]} |->
                 IF n \in DOMAIN issued THEN issued[n] ELSE t]

(* get_recent_deploys: the number's last target is remembered.             *)
Issue(t) ==
    issued' = [n \in DOMAIN issued \cup {JobNumber[t]} |->
                 IF n = JobNumber[t] THEN t ELSE issued[n]]

(* get_build_log: of a number never issued, the demo's.                    *)
LogOf(n) == IF n \in DOMAIN issued THEN issued[n] ELSE Demo

(* What was listed is lost once its number is issued for another target.   *)
Loses(t) == lost' = lost \cup {r \in Listed \ {t} : JobNumber[r] = JobNumber[t]}

ListDeploys(c) ==
    /\ asks[c].tool = "deploys"
    /\ Issue(asks[c].target)
    /\ Loses(asks[c].target)
    /\ told' = [told EXCEPT ![c] = {asks[c].target}]

ReadLog(c) ==
    /\ asks[c].tool = "log"
    /\ told' = [told EXCEPT ![c] = {LogOf(asks[c].job)}]
    /\ UNCHANGED <<issued, lost>>

(* The call raises, before or after Jenkins did its part, or is one of     *)
(* another tool.                                                           *)
TellNothing(c) ==
    /\ \/ UNCHANGED <<issued, lost>>
       \/ asks[c].tool = "deploys" /\ Issue(asks[c].target) /\ Loses(asks[c].target)
    /\ UNCHANGED told

AnswerCall(c) ==
    /\ CallEnds(c)
    /\ ListDeploys(c) \/ ReadLog(c) \/ TellNothing(c)
    /\ UNCHANGED asks

(* An investigation of the other brain, while a revision is rolled, has a  *)
(* target listed; or a call of this brain's that was given up gets there.  *)
AnotherLists(t) ==
    /\ Issue(t)
    /\ Loses(t)
    /\ UNCHANGED <<vars, asks, told>>

(* A new process has an empty map.                                         *)
RestartJenkins ==
    /\ DOMAIN issued # {}
    /\ issued' = [n \in {} |-> Demo]
    /\ lost' = lost \cup Listed
    /\ UNCHANGED <<vars, asks, told>>

DiagnosisNext ==
    \/ NewDiagnosis \/ AskJenkins \/ RestartJenkins
    \/ \E c \in Call : AnswerCall(c)
    \/ \E t \in Target : AnotherLists(t)
    \/ /\ \/ \E s \in Server : Connect(s) \/ ConnectFails(s) \/ Close(s)
          \/ BuildAgent
          \/ \E c \in Call : Admit(c) \/ Block(c)
          \/ \E listed \in SUBSET Server : Respond(listed)
          \/ RunFails \/ Leave \/ Done
       /\ UNCHANGED jenkinsVars

DiagnosisSpec == DiagnosisInit /\ [][DiagnosisNext]_diagnosisVars
-----------------------------------------------------------------------------
(* A job number identifies a deploy for as long as nothing else takes it:  *)
(* the log read for a job the investigation was listed before is of the    *)
(* deploy it was listed, whatever targets share the number, whatever was   *)
(* issued before the listing and whatever is issued for other numbers      *)
(* since.  It need not be once the number was issued for another target    *)
(* after the listing, by this investigation or by another brain's, or      *)
(* Jenkins was restarted after it (mock-mcp/server.py:122-126, "rebuild    *)
(* the matching log").                                                     *)
LogIsOfListedDeploy ==
    \A c \in Call : asks[c].tool = "log" =>
        \A t \in asks[c].after :
            JobNumber[t] = asks[c].job => told[c] \subseteq {t} \/ t \in lost
=============================================================================
