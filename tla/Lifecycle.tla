----------------------------- MODULE Lifecycle -----------------------------
(***************************************************************************)
(* brain/lifecycle.py: the heuristics that decide whether a free text is a *)
(* new incident, a request to retry, or a continuation.  A text is what    *)
(* the three regular expressions see in it: whether it holds a "new issue" *)
(* phrase, whether it holds a "retry" phrase, and which environment tokens *)
(* it names (as typed, in lower case).  The value of an environment field  *)
(* is whether strip() leaves nothing of it, and the tokens it names.       *)
(***************************************************************************)

FreeText    == [newIssue: BOOLEAN, retry: BOOLEAN, tokens: SUBSET STRING]
Environment == [blank: BOOLEAN, tokens: SUBSET STRING]

(* A field that holds no text: Python's None, or a string strip() empties. *)
Nothing == [blank |-> TRUE, tokens |-> {}]

(* The name a known environment goes by when it holds no token: the whole  *)
(* string.  No token of the regular expression is equal to it, or it would *)
(* have been found.                                                        *)
WholeName == "the whole string"

(* Mutant of Norm: the second pair of synonyms is forgotten.               *)
NormOnlyProd(token) == IF token \in {"prod", "production"} THEN "prod" ELSE token

(* One name for the two spellings of a token.                              *)
Norm(token) ==
    CASE token \in {"prod", "production"} -> "prod"
      [] token \in {"staging", "stage"}   -> "staging"
      [] OTHER                            -> token

EnvironmentTokens(named) == {Norm(token) : token \in named.tokens}

(* The summary's environment if there is one, else the form's.             *)
KnownEnvironment(summary, intake) == IF summary.blank THEN intake ELSE summary

KnownTokens(known) ==
    IF known.tokens = {} THEN {WholeName} ELSE EnvironmentTokens(known)

(* Mutant of NamesAnotherEnvironment: one stranger among the environments  *)
(* named is enough.                                                        *)
NamesAnyOtherEnvironment(text, known) ==
    /\ ~ known.blank
    /\ ~ (EnvironmentTokens(text) \subseteq KnownTokens(known))

NamesAnotherEnvironment(text, known) ==
    /\ ~ known.blank
    /\ text.tokens # {}
    /\ EnvironmentTokens(text) \cap KnownTokens(known) = {}

IsRetryRequest(text) == text.retry

IsNewIncident(text, summary, intake) ==
    \/ text.newIssue
    \/ NamesAnotherEnvironment(text, KnownEnvironment(summary, intake))
-----------------------------------------------------------------------------
(* Two spellings of one environment, without Norm.                         *)
SameEnvironment(a, b) ==
    a = b \/ {a, b} \in {{"prod", "production"}, {"staging", "stage"}}

Names(named, token) == \E t \in named.tokens : SameEnvironment(t, token)

(* The same text with some environments spelled the other way.             *)
Respelled(t1, t2) ==
    /\ t1.newIssue = t2.newIssue
    /\ \A a \in t1.tokens : Names(t2, a)
    /\ \A b \in t2.tokens : Names(t1, b)

(* How an environment is spelled never decides whether an interview is     *)
(* kept or replaced: a text and its respelling are treated alike, whatever *)
(* environment is known (lifecycle.py:68-74, applied to both sides at      *)
(* lifecycle.py:112-115).                                                  *)
SpellingIsIrrelevant(t1, t2, summary, intake) ==
    Respelled(t1, t2) =>
        (IsNewIncident(t1, summary, intake) <=> IsNewIncident(t2, summary, intake))

(* A text without a "new issue" phrase that names an environment of the    *)
(* summary, in either spelling and whatever else it names, continues the   *)
(* interview: a good one is not wiped by chance (lifecycle.py:21, 118).    *)
NamingItContinues(text, summary, intake) ==
    /\ ~ text.newIssue
    /\ ~ summary.blank
    /\ \E token \in text.tokens : Names(summary, token)
    => ~ IsNewIncident(text, summary, intake)
=============================================================================
