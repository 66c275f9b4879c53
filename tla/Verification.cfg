SPECIFICATION Spec
CONSTANTS
  a1 = a1
  a2 = a2
  b1 = b1
  DocA = DocA
  DocB = DocB
  NoRevision = NoRevision
  AbstentionWording = "template"
  Chunks <- MCChunks
  Documents <- MCDocuments
  Doc <- MCDoc
  Wordings <- MCWordings
  Content <- MCContent
  Policy <- MCPolicy
  Answers <- MCAnswers
  Retrievals <- MCRetrievals
  EvidenceLists <- FewLists
  MaxClaims = 2
INVARIANTS
  ServedRevisionIsGrounded
  WarrantAudit
  FindingsRestOnEvidence
  ConfidenceIsEarned
PROPERTY ImplementsContract
CHECK_DEADLOCK FALSE
