CONSTANTS
  w1 = w1  w2 = w2  w3 = w3  alice = alice  bob = bob  k1 = k1  k2 = k2  k3 = k3
  m1 = m1  m2 = m2  m3 = m3  main = main  other = other  p1 = p1  p2 = p2
  corpus1 = corpus1  corpus2 = corpus2  None = None
  Workers = {w1, w2}
  Operators = {alice, bob}
  Keys = {k1}
  Manifests = {m1}
  Collections = {main}
  Points = {p1, p2}
  Corpora = {corpus1, corpus2}
  CollectionOf <- TwoCollections
  PointsOf <- Projected
  CorpusOf <- TwoCorpora
  Rolling = FALSE
  MaxFaults = 0
SPECIFICATION Spec
SYMMETRY Symmetric
INVARIANTS RunningHasThread
CHECK_DEADLOCK FALSE
