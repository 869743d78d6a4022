SPECIFICATION Spec
CONSTANTS
  Documents <- MCDocuments
  Profiles <- MCProfiles
  OtherAuths = {"other"}
  Digests = {"d1", "d2"}
  Chars <- MCChars
  Blank = " "
  Truths = {"1", "true"}
  PortTails = {":443"}
  None = None
  Failed = Failed
  MaxEdits = 1
  MaxLeaves = 2
INVARIANTS ImportsOnlyOne
CHECK_DEADLOCK FALSE
