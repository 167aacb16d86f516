CONSTANTS
  SeqNumbers = 5
  Lifetime = 1
  Chunks = 2
  MaxInfos = 1
  MaxSeq = 4
  Sessions = 2
SPECIFICATION FastbootSpec
INVARIANTS RunsSound AnswerIsOwn
PROPERTIES HostGoesOn
