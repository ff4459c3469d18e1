--------------------------- MODULE RollingDeploy ---------------------------
(***************************************************************************)
(* A new revision of the brain is rolled out (infra/redeploy.sh): it comes *)
(* up before the old one is taken down, so that for a while two Brains     *)
(* share one queue and one table.  Each has its own LRU and locals.        *)
(*                                                                         *)
(* Two Brains also tell apart what one cannot: StateStore.get deletes the  *)
(* expired row it read in a second call, without a condition, and the      *)
(* other process may write that row in between.                            *)
(***************************************************************************)
EXTENDS Naturals

CONSTANTS Message, User, Text, Place, None, MaxDelivery, SeenMax, Faults

Field == INSTANCE Lifecycle

(* A pod's crash and the loss of a running handler's lock are left to      *)
(* Brain's own runs: here stopping the old revision is the crash, and a    *)
(* duplicate gives both processes one activity at the same time.           *)
ASSUME RollingAssumption ==
    /\ Faults \subseteq {"sender", "send", "get", "put", "model", "settle", "expire", "duplicate"}
    /\ None \notin Message \cup Place
    /\ Field!Nothing \in Place
    /\ Place \subseteq Field!Environment
    /\ Text \subseteq Field!FreeText
    /\ MaxDelivery \in Nat \ {0}
    /\ SeenMax \in Nat \ {0}

VARIABLES
    body, queue, deliveries, row, sent,   \* shared, as in Brain
    oldPc, oldCur, oldTry, oldSt, oldSeen,        \* the old revision's process
    newPc, newCur, newTry, newSt, newSeen,        \* the new revision's process
    revision,   \* which revisions are running
    expired,    \* users whose row is in the table and past its TTL; such a
                \* row is absent to both Brains
    deleting,   \* the processes about to delete the expired row they read
    overtaken   \* history: the processes whose user's row was written or
                \* deleted by the other since they read it

oldVars    == <<oldPc, oldCur, oldTry, oldSt, oldSeen>>
newVars    == <<newPc, newCur, newTry, newSt, newSeen>>
deployVars == <<revision, expired, deleting, overtaken>>
rollVars   == <<body, queue, deliveries, row, sent, oldVars, newVars, deployVars>>

Old == INSTANCE Brain WITH
    pc <- oldPc, cur <- oldCur, try <- oldTry, st <- oldSt, seen <- oldSeen

New == INSTANCE Brain WITH
    pc <- newPc, cur <- newCur, try <- newTry, st <- newSt, seen <- newSeen

Revision == {"old", "new"}

Init ==
    /\ Old!Init
    /\ New!Init
    /\ revision = {"old"}
    /\ expired = {}
    /\ deleting = {}
    /\ overtaken = {}
-----------------------------------------------------------------------------
(* az containerapp update --image: up with the new, down with the old.     *)

StartNew ==
    /\ revision = {"old"}
    /\ revision' = Revision
    /\ UNCHANGED <<body, queue, deliveries, row, sent, oldVars, newVars,
                   expired, deleting, overtaken>>

(* Mutant of StopOld: what the old process still holds is completed for it.*)
StopOldSettles ==
    /\ revision = Revision
    /\ revision' = {"new"}
    /\ queue' = [m \in Message |-> IF m = oldCur /\ Old!HoldsLock THEN "done" ELSE queue[m]]
    /\ oldPc' = "idle" /\ oldCur' = None /\ oldTry' = 0 /\ oldSt' = Old!Absent /\ oldSeen' = <<>>
    /\ deleting' = deleting \ {"old"}
    /\ overtaken' = overtaken \ {"old"}
    /\ UNCHANGED <<body, deliveries, row, sent, newVars, expired>>

(* The process has no handler for SIGTERM: it dies wherever it is.         *)
StopOld ==
    /\ revision = Revision
    /\ revision' = {"new"}
    /\ Old!NextMessage
    /\ oldSeen' = <<>>
    /\ deleting' = deleting \ {"old"}
    /\ overtaken' = overtaken \ {"old"}
    /\ UNCHANGED <<body, queue, deliveries, row, sent, newVars, expired>>
-----------------------------------------------------------------------------
(* What every step of a process does to the table's entities.              *)

Working(step) == step \notin {"idle", "check", "settle", "abandon"}

(* A row that is written is no longer expired; a process that routes its   *)
(* activity on an expired row deletes it next.                             *)
Tracks(p, step, nextStep, m) ==
    /\ expired' = {u \in expired : row'[u] = row[u]}
    /\ deleting' = IF /\ step = "check" /\ Working(nextStep)
                      /\ body[m].user \in expired
                   THEN deleting \cup {p}
                   ELSE deleting

(* The other process, if it handles an activity of a user whose row this   *)
(* step changed, is overtaken; a process that is done is not.              *)
Overtakes(p, nextStep, q, otherStep, otherCur) ==
    overtaken' =
        (IF Working(nextStep) THEN overtaken ELSE overtaken \ {p})
        \cup {r \in {q} : Working(otherStep) /\ LET u == body[otherCur].user
                                                IN  row'[u] # row[u]}

OldProcess ==
    /\ "old" \in revision \ deleting
    /\ Old!Process
    /\ Tracks("old", oldPc, oldPc', oldCur)
    /\ Overtakes("old", oldPc', "new", newPc, newCur)
    /\ UNCHANGED <<newVars, revision>>

NewProcess ==
    /\ "new" \in revision \ deleting
    /\ New!Process
    /\ Tracks("new", newPc, newPc', newCur)
    /\ Overtakes("new", newPc', "old", oldPc, oldCur)
    /\ UNCHANGED <<oldVars, revision>>

(* delete_entity in StateStore.get: whatever is there now is deleted; or   *)
(* the call raises, which get swallows.                                    *)
Deleted(p, m, q, otherStep, otherCur) ==
    /\ p \in deleting
    /\ deleting' = deleting \ {p}
    /\ LET u == body[m].user IN
       \/ UNCHANGED <<row, expired, overtaken>>
       \/ /\ row' = [row EXCEPT ![u] = Old!Absent]
          /\ expired' = expired \ {u}
          /\ overtaken' = overtaken \cup
                {r \in {q} : Working(otherStep) /\ body[otherCur].user = u /\ row[u] # row'[u]}
    /\ UNCHANGED <<body, queue, deliveries, sent, oldVars, newVars, revision>>

OldDeletes == Deleted("old", oldCur, "new", newPc, newCur)
NewDeletes == Deleted("new", newCur, "old", oldPc, oldCur)
-----------------------------------------------------------------------------
(* The queue and the clock, as in Brain.                                   *)

Posts ==
    /\ \E m \in Message :
          \/ \E u \in User, t \in Text : Old!PostText(m, u, t)
          \/ \E u \in User, f \in Message, p \in Place : Old!PostCard(m, u, f, p)
          \/ Old!PostForeign(m) \/ Old!PostNameless(m)
          \/ \E n \in Message : Old!PostAgain(m, n)
    /\ UNCHANGED <<newVars, deployVars>>

(* A lock neither process holds runs out.                                  *)
OrphanLockExpires(m) ==
    /\ Old!OrphanLockExpires(m)
    /\ New!OrphanLockExpires(m)
    /\ UNCHANGED deployVars

Expire(u) ==
    /\ Old!Expire(u)
    /\ expired' = expired \cup {u}
    /\ UNCHANGED <<newVars, revision, deleting, overtaken>>

Quiet ==
    /\ oldPc = "idle" /\ newPc = "idle"
    /\ \A m \in Message : queue[m] \in {"done", "dead"}
    /\ UNCHANGED rollVars

Next ==
    \/ StartNew \/ StopOld
    \/ OldProcess \/ NewProcess \/ OldDeletes \/ NewDeletes
    \/ Posts \/ Quiet
    \/ \E m \in Message : OrphanLockExpires(m)
    \/ \E u \in User : Expire(u)

(* Each process goes on as long as its revision runs; the roll-out itself  *)
(* may stop anywhere.                                                      *)
Fairness ==
    /\ WF_rollVars(OldProcess \/ OldDeletes)
    /\ WF_rollVars(NewProcess \/ NewDeletes)
    /\ \A m \in Message : WF_rollVars(OrphanLockExpires(m))

Spec     == Init /\ [][Next]_rollVars
FairSpec == Spec /\ Fairness
-----------------------------------------------------------------------------
(* Properties.                                                             *)

OldActs == newVars' = newVars /\ deleting \ deleting' # {"new"}
NewActs == oldVars' = oldVars /\ deleting \ deleting' # {"old"}

(* A roll-out loses nothing of an interview unless two activities of one   *)
(* user are handled at once: whichever process writes a row moves it on,   *)
(* though the other one wrote it last, or died over it.  Only a process    *)
(* that was overtaken by the other since it read the row may put it back   *)
(* (state_store.py:147), or delete a row that is not expired               *)
(* (state_store.py:129).                                                   *)
OnlyOvertakenLose ==
    [][\A u \in User : row'[u] # row[u] =>
          \/ row[u] = Old!Absent
          \/ u \in expired'
          \/ /\ OldActs
             /\ "old" \in overtaken \/ (oldCur # None /\ Old!MovesOn(u))
          \/ /\ NewActs
             /\ "new" \in overtaken \/ (newCur # None /\ New!MovesOn(u))
      ]_rollVars

(* Every message posted before, during or after a roll-out is settled, its *)
(* activity answered, or dead-lettered, whichever process took it and      *)
(* wherever the old one was stopped.                                       *)
KeepsPromise == Old!KeepsPromise
=============================================================================
