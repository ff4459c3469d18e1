---------------------------- MODULE BrainClaims ----------------------------
(***************************************************************************)
(* What the brain's comments and docs say of redelivery and of stale       *)
(* forms, stated as written.  Each of these fails: see the findings in     *)
(* README.md.                                                              *)
(***************************************************************************)
EXTENDS Brain

(* state_store.py:76, "Redelivery of a started-but-not-completed id        *)
(* resumes": it goes on with its interview or its investigation.           *)
StartedResumes ==
    [][pc = "check" /\ pc' \in Kind \cup {"model"} /\ Stored.started = Id =>
          /\ st'.inc = Stored.inc
          /\ pc' \in {"model", "investigating"}]_vars

(* app.py:43, a form that belongs to an already finished interview is      *)
(* deliberately not merged, since that mixed two incidents together.  With *)
(* no row lost, an incident is left only once it is finished, so a form of *)
(* another incident is one of a finished interview.                        *)
FormsAreOwn == \A u \in User : row[u].forms \subseteq {row[u].inc}
=============================================================================
