----------------------------- MODULE MCNotifier -----------------------------
(* Three configured webhooks: the first is tried once more on failure and     *)
(* leaves its headers to the defaults, the second is never tried again (a     *)
(* negative retry_count acts as 0, which the code would replace by 3), the    *)
(* third is disabled.  Of the first one's filters one is unknown and one disabled; the *)
(* second's keeps e2 away.  A second rule of the same name does not count.    *)
EXTENDS Notifier, TLC

CONSTANTS e1, e2, w1, w2

MCEvents  == {e1, e2}
MCWorkers == {w1, w2}
MCEnabled == {1, 2}
MCComplete == {2, 3}
MCRetryCount == [w \in 1..3 |-> IF w = 1 THEN 1 ELSE 0]
MCFilters == <<{"quiet", "unknown"}, {"urgent"}, {}>>
MCField == (e1 :> [severity |-> <<"critical">>, trap_name |-> <<"link", "Down">>])
             @@ (e2 :> [severity |-> <<"info">>, trap_name |-> <<"link", "Up">>])

Condition(f, o, v) == [field |-> f, operator |-> o, value |-> v, values |-> {v}]
Rule(n, on, cs) == [name |-> n, enabled |-> on, conditions |-> cs]

MCFilterRules ==
  <<Rule("quiet", FALSE, {Condition("community", "equals", <<"private">>)}),
    Rule("urgent", TRUE, {Condition("severity", "in", <<"critical">>),
                          Condition("trap_name", "contains", <<"Down">>),
                          Condition("trap_name", "not_contains", <<"Up">>),
                          Condition("status", "not_equals", <<"resolved">>),
                          Condition("community", "not_in", <<"lab">>)}),
    Rule("urgent", TRUE, {Condition("severity", "like", <<"critical">>)})>>
=============================================================================
