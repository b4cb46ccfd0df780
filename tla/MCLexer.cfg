\* Short texts over one or two characters of each class; a small first buffer.
SPECIFICATION Spec
CONSTANTS
  Inputs <- MCInputs
  Letters <- MCLetters
  Digits <- MCDigits
  Keywords <- MCKeywords
  InitialCapacity = 1
INVARIANTS
  TypeOK
  BufferFits
  Tiling
PROPERTY
  Termination
\* The scan stops at the end of the text.
CHECK_DEADLOCK FALSE
