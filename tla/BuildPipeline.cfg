\* Three named builds and an unnamed one race the operators' decisions and the
\* ttl through a gate with room for two pending requests.
CONSTANTS
  Artefact = {a1, a2, a3, a4}
  NoArtefact = NoArtefact
  Unnamed = {a4}
  MaxRequests = 3
  MaxPending = 2
  Expires = TRUE
SPECIFICATION FairSpec
INVARIANTS TypeOK DeployedOnlyIfApproved TokenIffApproved
PROPERTIES ImplementsControl RunsEnd
\* Every run ends and every request is decided.
CHECK_DEADLOCK FALSE
