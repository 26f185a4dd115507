\* Two kinds of objects and two numbers, of which four are sent.
SPECIFICATION PipelineSpec
CONSTANTS
  Tokens = {"{", "}", "x", "1", "2"}
  Documents <- MCDocuments
  Digits = {"1", "2"}
  MaxSent = 4
INVARIANTS
  BytesConserved
  ParsedUnlessGlued
CHECK_DEADLOCK FALSE
