SPECIFICATION Spec
CONSTANTS
  link_state = link_state
  auth_failure = auth_failure
  custom = custom
  Sources = {"s1"}
  Traps = {"linkDown", "authFail"}
  Communities = {"public"}
  Severities <- MCSeverities
  SeverityMapping <- MCMapping
  RuleIds <- MCRuleIds
  RuleDef <- MCRuleDef
  DefaultRules <- MCDefaultRules
  EnableDedup = TRUE
  EnableCorrelation = TRUE
  DedupWindow = 1
  CorrelationWindow = 1
  MaxGroupEvents = 2
  MaxTime = 3
  MaxEvents = 3
INVARIANTS
  GroupsAccounted
  DedupExact
PROPERTY PassedIsClassified
CHECK_DEADLOCK FALSE
