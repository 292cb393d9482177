\* One retry stands for five; a rule is proposed after one decision instead of five.
\* Once the calls are made nothing is left to do: no deadlock check.
SPECIFICATION FairSpec
CONSTANTS
  r1 = r1
  r2 = r2
  r3 = r3
  browser = browser
  terminal = terminal
  Rounds <- MCRounds
  Conversations <- MCConversations
  Conv <- MCConv
  Host <- MCHost
  Tools <- MCTools
  Risk <- MCRisk
  ReadOnly = {"search"}
  Subject <- MCSubject
  Keys = {1, 2}
  Calls <- MCCalls
  HardRejected <- MCHardRejected
  Denylist <- MCDenylist
  AutoApproved <- MCDenylist
  Suspicious <- MCSuspicious
  Outside <- MCOutside
  NoDiff <- MCNoDiff
  FileRules <- MCFileRules
  InlineRules <- MCInlineRules
  ProposeAfter = 1
  MaxRetries = 1
  MaxCalls = 2
INVARIANTS VetoHolds PreviewedBeforeWrite
PROPERTIES GrantsAreRemembered CallsSettle
CHECK_DEADLOCK FALSE
