\* A closed socket with no check left to run is the end of the connection.
CHECK_DEADLOCK FALSE
SPECIFICATION Spec
CONSTANTS
  e1 = e1
  e2 = e2
  NoEpoch = NoEpoch
  Epochs <- MCEpochs
  Hidden <- MCHidden
  PageLimit = 1
  MaxSequence = 3
  MaxErrors = 1
  MaxChecks = 1
INVARIANTS
  SocketHolds
  WithheldAfterRevocation
SYMMETRY MCSymmetry
