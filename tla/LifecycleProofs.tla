-------------------------- MODULE LifecycleProofs --------------------------
(***************************************************************************)
(* Proofs about Lifecycle, for every text and every known environment:     *)
(* TLC evaluates the two properties on a small alphabet, here they are     *)
(* shown of any names at all, and of any pair of spellings.                *)
(***************************************************************************)
EXTENDS MCLifecycle, TLAPS

(* Norm gives two tokens one name exactly when they spell one environment  *)
(* (lifecycle.py:68-74).                                                   *)
LEMMA NormIsSpelling ==
    ASSUME NEW a, NEW b
    PROVE  Norm(a) = Norm(b) <=> SameEnvironment(a, b)
<1>1. CASE a \in {"prod", "production"}
  BY <1>1 DEF Norm, SameEnvironment
<1>2. CASE a \in {"staging", "stage"}
  BY <1>2 DEF Norm, SameEnvironment
<1>3. CASE a \notin {"prod", "production", "staging", "stage"}
  BY <1>3 DEF Norm, SameEnvironment
<1> QED
  BY <1>1, <1>2, <1>3

(* A respelling names the same environments.                               *)
LEMMA RespelledTokens ==
    ASSUME NEW t1, NEW t2, Respelled(t1, t2)
    PROVE  /\ EnvironmentTokens(t1) = EnvironmentTokens(t2)
           /\ t1.tokens = {} <=> t2.tokens = {}
<1>1. ASSUME NEW a \in t1.tokens
      PROVE  \E b \in t2.tokens : Norm(b) = Norm(a)
  BY NormIsSpelling DEF Respelled, Names
<1>2. ASSUME NEW b \in t2.tokens
      PROVE  \E a \in t1.tokens : Norm(a) = Norm(b)
  BY NormIsSpelling DEF Respelled, Names
<1> QED
  BY <1>1, <1>2 DEF EnvironmentTokens

(* What NamesAnotherEnvironment says depends on the environments named and *)
(* not on their spelling.                                                  *)
LEMMA SpellingLemma ==
    ASSUME NEW t1, NEW t2, NEW sum, NEW form
    PROVE  SpellingIsIrrelevant(t1, t2, sum, form)
<1> SUFFICES ASSUME Respelled(t1, t2)
             PROVE  IsNewIncident(t1, sum, form) <=> IsNewIncident(t2, sum, form)
  BY DEF SpellingIsIrrelevant
<1>1. t1.newIssue = t2.newIssue
  BY DEF Respelled
<1>2. \A known : NamesAnotherEnvironment(t1, known) <=> NamesAnotherEnvironment(t2, known)
  BY RespelledTokens DEF NamesAnotherEnvironment
<1> QED
  BY <1>1, <1>2 DEF IsNewIncident

(* A summary that holds text is what is known, whatever the form says, and *)
(* what it names is among what is known.                                   *)
LEMMA ContinuationLemma ==
    ASSUME NEW t, NEW sum, NEW form
    PROVE  NamingItContinues(t, sum, form)
<1> SUFFICES ASSUME ~ t.newIssue, ~ sum.blank,
                    NEW token \in t.tokens, Names(sum, token)
             PROVE  ~ IsNewIncident(t, sum, form)
  BY DEF NamingItContinues
<1>1. KnownEnvironment(sum, form) = sum
  BY DEF KnownEnvironment
<1>2. PICK known \in sum.tokens : Norm(known) = Norm(token)
  BY NormIsSpelling DEF Names
<1>3. KnownTokens(sum) = EnvironmentTokens(sum)
  BY <1>2 DEF KnownTokens
<1>4. Norm(token) \in EnvironmentTokens(t) \cap KnownTokens(sum)
  BY <1>2, <1>3 DEF EnvironmentTokens
<1>5. ~ NamesAnotherEnvironment(t, sum)
  BY <1>4 DEF NamesAnotherEnvironment
<1> QED
  BY <1>1, <1>5 DEF IsNewIncident

(* However an environment is spelled, a text keeps or replaces the         *)
(* interview all the same (lifecycle.py:68-74, 112-115).                   *)
THEOREM SpellingIsNeverDecisive == Spec => []Spelling
<1>1. Spelling
  BY SpellingLemma DEF Spelling
<1> QED
  BY <1>1, PTL

(* A text that names an environment of the interview's summary continues   *)
(* the interview, unless it says that it is another issue                  *)
(* (lifecycle.py:21, 118).                                                 *)
THEOREM NamingContinues == Spec => []Continuation
<1>1. Continuation
  BY ContinuationLemma DEF Continuation
<1> QED
  BY <1>1, PTL
=============================================================================
