\* Four streams: chains of three between a stream and the one
\* it is moved below, some of them closed.
CONSTANTS
  Streams = {s1, s2, s3, s4}
  Root    = root
  Nil     = nil
SPECIFICATION Spec
INVARIANTS TypeOK Acyclic LoopDecides
PROPERTY ExclusiveHasNoSibling
