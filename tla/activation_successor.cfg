CONSTANTS
  w1 = w1  production = production  NoCorpus = NoCorpus
  Workers = {w1}
  MaxCorpus = 2
  Scopes = {production}
  Default = production
SPECIFICATION Spec
PROPERTIES SuccessorReplaces
CHECK_DEADLOCK FALSE
