CONSTANTS
  op = op  both = both  rev = rev  None = None  NoCorpus = NoCorpus
  A = A  B = B  pA = pA  pB = pB  qA = qA  qB = qB  rAB = rAB  t1 = t1  m1 = m1
  w1 = w1  w2 = w2  w3 = w3  production = production  preview = preview
  Users = {op, both, rev}
  Operators = {op, both}
  Reviewers = {both, rev}
  Proposers = {op}
  Entities = {A, B}
  Proposals = {pA, pB, qA, qB, rAB}
  Payload <- Pay
  Threads = {t1}
  Manifests = {m1}
  ItemsOf <- ItemsOfManifests
  IdOrder <- OrderOfIds
  Workers = {w1, w2, w3}
  MaxCorpus = 3
  Scopes = {production, preview}
  Default = production
SPECIFICATION LockSpec
INVARIANTS LockTypeOK OneActivePerScope MergesEndActive OneArtifactPerApproval
PROPERTIES ServiceNeverLost ActivationsEnd ArtifactsNameActiveEntities AliasesKept ApprovalsEnd CorporaStartCurrent
CHECK_DEADLOCK FALSE
