CONSTANTS
  Byte <- Bytes
  Total = 5
  HeaderLen = 2
  CodeLength <- Decoded
  Inputs <- Strings
SPECIFICATION Spec
PROPERTIES ImplementsQueue
