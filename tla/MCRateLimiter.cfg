\* Four sources contend for three entries: hits detach from the head, the middle
\* and the tail of the list, and a new source evicts. A token is two units and a
\* tick gives a source one, half a token, so a refill can fall short of a packet.
\* The bursts (four packets globally, one per source) are smaller than what is sent.
SPECIFICATION Spec
CONSTANTS
  s1 = s1
  s2 = s2
  s3 = s3
  s4 = s4
  Source = {s1, s2, s3, s4}
  NoSource = NoSource
  TokenUnit = 2
  GlobalCapacity = 9
  GlobalRefill = 3
  SourceCapacity = 3
  SourceRefill = 1
  MaxTracked = 3
  Instants <- MCInstants
SYMMETRY Symmetry
INVARIANTS
  TypeOK
  LruLinked
  LruBounded
  GlobalWindowBound
  SourceBound
PROPERTY
  ImplementsRecencyList
