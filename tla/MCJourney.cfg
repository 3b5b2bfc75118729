SPECIFICATION Spec
CONSTANTS
  Strings = {"x", "k"}
  Bytes = {"v"}
  Addresses = {"alice", "bob"}
  Uint64 = {1}
  BlockIDs = {"b", "c"}
  Accounts = {"alice"}
  Funds <- MCFunds
  Stranger = "stranger"
  Inputs <- MCInputs
  MaxSigned = 2
  MaxBlocks = 1
  MaxAdmissions = 3
INVARIANTS
  TypeOK
  Genuine
  Offered
  AsShown
PROPERTIES
  SubmitConservative
CHECK_DEADLOCK FALSE
