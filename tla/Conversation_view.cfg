\* The interface saves its state while a question is waiting; nobody edits an
\* annotation, so the view's own write is what loses the question.
CONSTANTS
  NoAsk = NoAsk
  Sends = {s1}
  Answers = {}
  Annotators = {}
  Viewers = {v1}
  Asks = {q1}
  MaxCrashes = 0
  MaxFailures = 0
SPECIFICATION Spec
CHECK_DEADLOCK FALSE
PROPERTY ClearedOnlyWhenResolved
