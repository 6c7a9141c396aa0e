\* Two builds; what becomes of a request approved by an operator.
CONSTANTS
  Artefact = {a1, a2}
  NoArtefact = NoArtefact
  Unnamed = {}
  MaxRequests = 2
  MaxPending = 1
  Expires = TRUE
SPECIFICATION FairSpec
PROPERTIES ApprovedIsDeployed
\* Every run ends and every request is decided.
CHECK_DEADLOCK FALSE
