CONSTANTS
  Bodies <- SomeBodies
  Streams <- BrokenStreams
  MaxBody = 3
  Unlimited = Unlimited
  Others = {"z"}
SPECIFICATION Spec
INVARIANTS
  TypeOK
  BodyFaithful
  PiecesDoNotMatter
\* The last byte has been handled, or an error has stopped the decoder.
CHECK_DEADLOCK FALSE
