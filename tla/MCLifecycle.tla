---------------------------- MODULE MCLifecycle ----------------------------
(* Lifecycle on every text, summary and form that an alphabet of           *)
(* environment tokens makes.                                               *)
EXTENDS Lifecycle

CONSTANTS
    Token,     \* the tokens a text or a summary may name
    FormToken  \* the sets of tokens a form may name

VARIABLES text, summary, intake

Texts  == [newIssue: BOOLEAN, retry: {FALSE}, tokens: SUBSET Token]
Places == {Nothing} \cup [blank: {FALSE}, tokens: SUBSET Token]
Forms  == {Nothing} \cup [blank: {FALSE}, tokens: FormToken]

Init == text \in Texts /\ summary \in Places /\ intake \in Forms
Next == text' \in Texts /\ UNCHANGED <<summary, intake>>
Spec == Init /\ [][Next]_<<text, summary, intake>>

(* The two properties of Lifecycle, on the current input.                  *)
Spelling     == \A t \in Texts : SpellingIsIrrelevant(text, t, summary, intake)
Continuation == NamingItContinues(text, summary, intake)
=============================================================================
