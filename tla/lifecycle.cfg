\* The two spellings of one environment, one spelling of another, and an
\* environment with a name of its own.
CONSTANTS
  Token = {"staging", "stage", "production", "uat"}
  FormToken = {{}, {"stage"}, {"uat"}}
SPECIFICATION Spec
INVARIANTS Spelling Continuation
