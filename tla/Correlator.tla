----------------------------- MODULE Correlator -----------------------------
(***************************************************************************)
(* The correlator (internal/correlator/correlator.go): deduplication by    *)
(* event hash within a sliding window, severity mapping, correlation rules *)
(* and event groups.  ProcessEvent holds the mutex throughout and walks    *)
(* the rule map in the random order of a Go map, so the model takes it     *)
(* rule by rule and action by action, with cur as the holder of the mutex; *)
(* the clock runs meanwhile.  A rule's conditions are the sets of trap     *)
(* OIDs and of severities they accept.                                     *)
(***************************************************************************)
EXTENDS Integers, Sequences, FiniteSets, Functions

CONSTANTS
  Sources, Traps, Communities,  \* what an event hash is made of
  Severities,        \* the severities the mapping and the rules can set
  SeverityMapping,   \* [a subset of Traps -> Severities]
  RuleIds,           \* identifiers of correlation rules
  RuleDef,           \* [RuleIds -> rule]: enabled, traps, severities, actions
  DefaultRules,      \* the rules loadDefaultRules installs
  EnableDedup, EnableCorrelation,
  DedupWindow,       \* config.DeduplicationWindow
  CorrelationWindow, \* config.CorrelationWindow
  MaxGroupEvents,    \* config.MaxCorrelationEvents, which no code reads
  MaxTime, MaxEvents \* bounds: clock ticks, events processed

Hashes == Sources \X Traps \X Communities   \* sourceIP:trapOID:community
GroupIds == RuleIds \X Sources              \* ruleID:sourceIP
Info == "info"                              \* the default severity
Unset == "unset"                            \* a key enrichedData does not have
ActionTypes == {"set_severity", "set_status", "correlate", "suppress"}
Actions == [type: ActionTypes, severity: Severities]

ASSUME CorrelatorAssumption ==
  /\ Info \in Severities /\ Unset \notin Severities
  /\ \E T \in SUBSET Traps : SeverityMapping \in [T -> Severities]
  /\ RuleDef \in [RuleIds -> [enabled: BOOLEAN, traps: SUBSET Traps,
                              severities: SUBSET Severities,
                              actions: Seq(Actions)]]
  /\ DefaultRules \subseteq RuleIds
  /\ EnableDedup \in BOOLEAN /\ EnableCorrelation \in BOOLEAN
  /\ DedupWindow \in Nat /\ CorrelationWindow \in Nat
  /\ MaxTime \in Nat /\ MaxEvents \in Nat

VARIABLES
  now,      \* the clock
  recent,   \* recentEvents: hash -> RecentEvent
  groups,   \* groups: group id -> EventGroup
  rules,    \* the ids in the rule map
  cur,      \* the ProcessEvent that holds the mutex, or Free
  stats,    \* CorrelatorStats, without the counters per rule
  arrived,  \* history: when an event of each hash was last let through or
            \* counted as a duplicate, -1 before the first
  retired   \* history: events of the groups that were cleaned up

vars == <<now, recent, groups, rules, cur, stats, arrived, retired>>

RecentEvents == [count: Nat, firstSeen: Nat, lastSeen: Nat]
EventGroups == [count: Nat, firstSeen: Nat, lastSeen: Nat,
                severity: Severities, acknowledged: BOOLEAN]

\* enrichedData, as far as the correlator writes it.
Data == [duplicate: Nat, severity: Severities \cup {Unset}, status: BOOLEAN,
         suppressed: BOOLEAN, correlation: SUBSET GroupIds]
NoData == [duplicate |-> 0, severity |-> Unset, status |-> FALSE,
           suppressed |-> FALSE, correlation |-> {}]

Free == <<>>
Held == [event: Hashes, rule: RuleIds \cup {Free}, todo: SUBSET RuleIds,
         actions: Seq(Actions), data: Data]

TypeOK ==
  /\ now \in Nat
  /\ \E H \in SUBSET Hashes : recent \in [H -> RecentEvents]
  /\ \E G \in SUBSET GroupIds : groups \in [G -> EventGroups]
  /\ rules \in SUBSET RuleIds
  /\ cur \in Held \cup {Free}
  /\ stats \in [processed: Nat, deduplicated: Nat, correlated: Nat,
                suppressed: Nat]
  /\ arrived \in [Hashes -> Nat \cup {-1}]
  /\ retired \in Nat

Init ==
  /\ now = 0
  /\ recent = [h \in {} |-> 0]
  /\ groups = [g \in {} |-> 0]
  /\ rules = DefaultRules
  /\ cur = Free
  /\ stats = [processed |-> 0, deduplicated |-> 0, correlated |-> 0,
              suppressed |-> 0]
  /\ arrived = [h \in Hashes |-> -1]
  /\ retired = 0

Put(m, k, v) == [x \in DOMAIN m \cup {k} |-> IF x = k THEN v ELSE m[x]]

Tick == /\ now < MaxTime
        /\ now' = now + 1
        /\ UNCHANGED <<recent, groups, rules, cur, stats, arrived,
                       retired>>

-----------------------------------------------------------------------------
(* ProcessEvent *)

\* Faulty variant: an event exactly one window old is no duplicate.
WithinOpenWindow(t) == now - t < DedupWindow
WithinWindow(t) == now - t <= DedupWindow

IsDuplicate(h) == /\ EnableDedup
                  /\ h \in DOMAIN recent
                  /\ WithinWindow(recent[h].lastSeen)

\* The duplicate is counted and its window starts anew; neither the severity
\* mapping nor the rules are applied to it, and the mutex is released.
Deduplicate(h) ==
  /\ cur = Free /\ stats.processed < MaxEvents
  /\ IsDuplicate(h)
  /\ stats' = [stats EXCEPT !.processed = @ + 1, !.deduplicated = @ + 1]
  /\ recent' = [recent EXCEPT ![h].count = @ + 1, ![h].lastSeen = now]
  /\ arrived' = [arrived EXCEPT ![h] = now]
  /\ UNCHANGED <<now, groups, rules, cur, retired>>

Mapped(trap) == IF trap \in DOMAIN SeverityMapping
                THEN SeverityMapping[trap] ELSE Info

\* A new event: a stale entry is deleted, the severity is mapped, and the
\* rules are to be applied.
Accept(h) ==
  /\ cur = Free /\ stats.processed < MaxEvents
  /\ ~IsDuplicate(h)
  /\ stats' = [stats EXCEPT !.processed = @ + 1]
  /\ recent' = IF EnableDedup THEN Restrict(recent, DOMAIN recent \ {h})
                              ELSE recent
  /\ cur' = [event |-> h, rule |-> Free,
             todo |-> IF EnableCorrelation THEN rules ELSE {},
             actions |-> <<>>,
             data |-> [NoData EXCEPT !.severity = Mapped(h[2])]]
  /\ UNCHANGED <<now, groups, rules, arrived, retired>>

Matches(r) == /\ RuleDef[r].enabled
              /\ cur.event[2] \in RuleDef[r].traps
              /\ cur.data.severity \in RuleDef[r].severities

BetweenRules == cur # Free /\ cur.actions = <<>>

\* The next rule in the order of the map does not match ...
PassRule(r) ==
  /\ BetweenRules /\ r \in cur.todo
  /\ ~Matches(r)
  /\ cur' = [cur EXCEPT !.todo = @ \ {r}]
  /\ UNCHANGED <<now, recent, groups, rules, stats, arrived, retired>>

\* ... or does, and its actions are executed in the order of its list.
MatchRule(r) ==
  /\ BetweenRules /\ r \in cur.todo
  /\ Matches(r)
  /\ cur' = [cur EXCEPT !.todo = @ \ {r}, !.rule = r,
                        !.actions = RuleDef[r].actions]
  /\ UNCHANGED <<now, recent, groups, rules, stats, arrived, retired>>

Action(type) == /\ cur # Free /\ cur.actions # <<>>
                /\ Head(cur.actions).type = type
Done == Tail(cur.actions)

SetSeverity ==
  /\ Action("set_severity")
  /\ cur' = [cur EXCEPT !.actions = Done,
                        !.data.severity = Head(cur.actions).severity]
  /\ UNCHANGED <<now, recent, groups, rules, stats, arrived, retired>>

SetStatus ==
  /\ Action("set_status")
  /\ cur' = [cur EXCEPT !.actions = Done, !.data.status = TRUE]
  /\ UNCHANGED <<now, recent, groups, rules, stats, arrived, retired>>

Suppress ==
  /\ Action("suppress")
  /\ cur' = [cur EXCEPT !.actions = Done, !.data.suppressed = TRUE]
  /\ stats' = [stats EXCEPT !.suppressed = @ + 1]
  /\ UNCHANGED <<now, recent, groups, rules, arrived, retired>>

Group == <<cur.rule, cur.event[1]>>

NewGroup == [count |-> 1, firstSeen |-> now, lastSeen |-> now,
             severity |-> cur.data.severity, acknowledged |-> FALSE]

\* Faulty variant: joining a group starts it anew.
JoinedAnew == Put(groups, Group, NewGroup)

\* A group of the same rule and source is joined whatever its age and size.
Joined == IF Group \in DOMAIN groups
          THEN [groups EXCEPT ![Group].count = @ + 1, ![Group].lastSeen = now]
          ELSE Put(groups, Group, NewGroup)

Correlate ==
  /\ Action("correlate")
  /\ groups' = Joined
  /\ cur' = [cur EXCEPT !.actions = Done, !.data.correlation = {Group}]
  /\ stats' = [stats EXCEPT !.correlated = @ + 1]
  /\ UNCHANGED <<now, recent, rules, arrived, retired>>

\* Faulty variant: the rules stop at the first match.
RulesStopped == cur.rule # Free
RulesDone == cur.todo = {}

\* trackRecentEvent, and ProcessEvent returns.
Track ==
  /\ BetweenRules /\ RulesDone
  /\ recent' = Put(recent, cur.event,
                   [count |-> 1, firstSeen |-> now, lastSeen |-> now])
  /\ arrived' = [arrived EXCEPT ![cur.event] = now]
  /\ cur' = Free
  /\ UNCHANGED <<now, groups, rules, stats, retired>>

-----------------------------------------------------------------------------
(* The other operations; each waits for the mutex *)

AddRule(r) == /\ cur = Free
              /\ rules' = rules \cup {r}
              /\ UNCHANGED <<now, recent, groups, cur, stats, arrived, retired>>

RemoveRule(r) == /\ cur = Free /\ r \in rules
                 /\ rules' = rules \ {r}
                 /\ UNCHANGED <<now, recent, groups, cur, stats, arrived,
                                retired>>

\* group.Events is never filled, so no stored event is acknowledged with it.
AcknowledgeGroup(g) ==
  /\ cur = Free /\ g \in DOMAIN groups
  /\ groups' = [groups EXCEPT ![g].acknowledged = TRUE]
  /\ UNCHANGED <<now, recent, rules, cur, stats, arrived, retired>>

Stale(t) == now - t > DedupWindow

Expired == {g \in DOMAIN groups : now - groups[g].lastSeen > CorrelationWindow}

CleanupExpiredGroups ==
  /\ cur = Free
  /\ groups' = Restrict(groups, DOMAIN groups \ Expired)
  /\ retired' = retired + SumFunction([g \in Expired |-> groups[g].count])
  /\ recent' = Restrict(recent, {h \in DOMAIN recent : ~Stale(recent[h].lastSeen)})
  /\ UNCHANGED <<now, rules, cur, stats, arrived>>

-----------------------------------------------------------------------------
ProcessEvent ==
  \/ \E h \in Hashes : Deduplicate(h) \/ Accept(h)
  \/ \E r \in RuleIds : PassRule(r) \/ MatchRule(r)
  \/ SetSeverity \/ SetStatus \/ Suppress \/ Correlate \/ Track

Next == \/ Tick
        \/ ProcessEvent
        \/ \E r \in RuleIds : AddRule(r) \/ RemoveRule(r)
        \/ \E g \in GroupIds : AcknowledgeGroup(g)
        \/ CleanupExpiredGroups

Spec == Init /\ [][Next]_vars

-----------------------------------------------------------------------------
(* Properties *)

\* An event is taken for a duplicate exactly when one with its hash passed or
\* was counted at most DeduplicationWindow ago.  In particular a cleanup, at
\* whatever moment it runs, never turns a duplicate into a new event, and an
\* entry that outlived its window never makes a new event a duplicate.
DedupExact ==
  EnableDedup /\ cur = Free => \A h \in Hashes :
    IsDuplicate(h) <=> arrived[h] >= 0 /\ now - arrived[h] <= DedupWindow

\* Every correlated event is counted in one group, which it leaves only with
\* the whole group: rules added and removed, acknowledgements, cleanups and
\* groups coming back under an old id lose no event and count none twice.
EveryEventInOneGroup ==
  stats.correlated = retired + SumFunction([g \in DOMAIN groups |-> groups[g].count])

\* The types, and the groups account for every correlated event.
GroupsAccounted == TypeOK /\ EveryEventInOneGroup

Correlates(r) == /\ RuleDef[r].enabled /\ RuleDef[r].severities = Severities
                 /\ \E i \in DOMAIN RuleDef[r].actions :
                      RuleDef[r].actions[i].type = "correlate"

\* An event that passes has a severity, and it has a correlation id if some
\* rule of the map correlates its trap, whichever order the map was walked in.
PassedIsClassified ==
  [][cur # Free /\ cur' = Free =>
       /\ cur.data.severity # Unset
       /\ EnableCorrelation =>
            \A r \in rules : Correlates(r) /\ cur.event[2] \in RuleDef[r].traps =>
              cur.data.correlation # {}]_vars

\* "Maximum events per correlation group" (cmd/schemas/config.cue:234).
GroupSizeBounded == \A g \in DOMAIN groups : groups[g].count <= MaxGroupEvents

\* "Correlation time window" (cmd/schemas/config.cue:231): an event joins a
\* group only within the window since the last event of the group.
GroupsWithinWindow ==
  [][\A g \in DOMAIN groups \cap DOMAIN groups' :
       groups'[g].count > groups[g].count
         => now - groups[g].lastSeen <= CorrelationWindow]_vars

\* "Events with same source IP and trap OID are deduplicated within the
\* window" (docs/configuration.md:83).
SameTrapIsDuplicate ==
  [][\A h, k \in Hashes :
       /\ h[1] = k[1] /\ h[2] = k[2]
       /\ arrived[k] >= 0 /\ now - arrived[k] <= DedupWindow
       /\ cur = Free /\ stats'.processed > stats.processed
       => ~(cur' # Free /\ cur'.event = h)]_vars
=============================================================================
