SPECIFICATION FairSpec
CONSTANTS
  k1 = k1
  k2 = k2
  r1 = r1
  Keys = {k1, k2}
  Rules = {r1}
  Checked = {k2}
  RuleOf <- MCRuleOf
  Severities = {"warning"}
  Workers = {"loop", "trigger"}
  Users = {"u1"}
  None = None
  MaxFaults = 1
INVARIANTS
  GapIsNoRecovery
  SuggestSettles
PROPERTIES
  ImplementsLifecycle
  TableSettles
