---------------------------- MODULE MCCorrelator ----------------------------
(* The two default rules and one an operator adds, on one source and one     *)
(* community.  linkDown matches the link rule, authFail both default rules,  *)
(* and the added rule sees what severity the others left.                    *)
EXTENDS Correlator, TLC

CONSTANTS link_state, auth_failure, custom

act(type, sev) == [type |-> type, severity |-> sev]

MCSeverities == {"info", "major"}
MCMapping == [t \in {"linkDown"} |-> "major"]
MCRuleIds == {link_state, auth_failure, custom}
MCDefaultRules == {link_state, auth_failure}
MCRuleDef ==
  [r \in MCRuleIds |->
     CASE r = link_state ->
            [enabled |-> TRUE, traps |-> {"linkDown", "authFail"},
             severities |-> MCSeverities,
             actions |-> <<act("correlate", "info")>>]
       [] r = auth_failure ->
            [enabled |-> TRUE, traps |-> {"authFail"},
             severities |-> MCSeverities,
             actions |-> <<act("set_severity", "major"),
                           act("correlate", "info")>>]
       [] r = custom ->
            [enabled |-> TRUE, traps |-> {"linkDown", "authFail"},
             severities |-> {"major"},
             actions |-> <<act("set_status", "info"), act("suppress", "info")>>]]
=============================================================================
