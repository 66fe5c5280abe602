-------------------------- MODULE CorrelatorProofs --------------------------
(***************************************************************************)
(* The correlator's safety properties, for every set of rules, hashes and  *)
(* windows: the groups account for every correlated event, an event is     *)
(* deduplicated exactly within the window, and one that passes is          *)
(* classified.  The account is a sum over the groups, so the module starts *)
(* with what it needs of SumFunctionOnSet: that the recursion has one      *)
(* solution, and that elements and parts can be taken out of a sum.        *)
(***************************************************************************)
EXTENDS Correlator, FiniteSetTheorems, WellFoundedInduction, TLAPS

-----------------------------------------------------------------------------
(* Sums over finite sets *)

\* A set of subsets of a finite set has a smallest one: the sets with a
\* property no set can be a smallest counterexample of are all of them.
LEMMA SmallestSet ==
  ASSUME NEW S, IsFiniteSet(S), NEW Bad, Bad \subseteq SUBSET S, Bad # {}
  PROVE  \E T \in Bad : \A U \in Bad : U \subseteq T => U = T
<1>1. \A T \in SUBSET S : IsFiniteSet(T)
  BY FS_Subset
<1>2. Bad \subseteq FiniteSubsetsOf(S)
  BY <1>1 DEF FiniteSubsetsOf
<1>3. PICK T \in Bad : \A U \in Bad : <<U, T>> \notin StrictSubsetOrdering(S)
  BY <1>2, FS_StrictSubsetOrderingWellFounded, WFMin
<1> QED BY <1>3 DEF StrictSubsetOrdering

\* Induction over the natural numbers, Good being the numbers that have the
\* property.
LEMMA NatSetInduction ==
  ASSUME NEW Good, 0 \in Good, \A n \in Nat : n \in Good => n + 1 \in Good
  PROVE  Nat \subseteq Good
<1> DEFINE Bad == {n \in Nat : n \notin Good}
<1>1. SUFFICES ASSUME Bad # {} PROVE FALSE
  OBVIOUS
<1>2. PICK n \in Bad : \A m \in Bad : <<m, n>> \notin OpToRel(<, Nat)
  <2>1. Bad \subseteq Nat
    OBVIOUS
  <2> HIDE DEF Bad
  <2> QED BY <1>1, <2>1, NatLessThanWellFounded, WFMin
<1>3. n \in Nat /\ n \notin Good /\ n # 0
  BY <1>2
<1>4. n - 1 \in Nat /\ n - 1 < n /\ (n - 1) + 1 = n
  BY <1>3
<1>5. <<n - 1, n>> \in OpToRel(<, Nat)
  BY <1>3, <1>4 DEF OpToRel
<1>6. n - 1 \in Good
  BY <1>2, <1>4, <1>5
<1> QED BY <1>3, <1>4, <1>6

Pick(s) == CHOOSE x \in s : TRUE

\* The recursion SumFunctionOnSet goes through, as an equation on a g that is
\* defined on the sets in D.
IsSum(g, f, D) == g = [s \in D |-> IF s = {} THEN 0
                                   ELSE f[Pick(s)] + g[s \ {Pick(s)}]]

\* SumFunctionOnSet is the value at S of a solution of that equation.
LEMMA SumUnfold ==
  ASSUME NEW f, NEW S
  PROVE  SumFunctionOnSet(f, S) = (CHOOSE g : IsSum(g, f, SUBSET S))[S]
BY DEF SumFunctionOnSet, FoldFunctionOnSet, MapThenFoldSet, IsSum, Pick

\* Two solutions of the recursion agree on the finite sets they share.
LEMMA SumUnique ==
  ASSUME NEW f, NEW S, NEW T, NEW g, NEW h,
         IsSum(g, f, SUBSET S), IsSum(h, f, SUBSET T),
         NEW U \in SUBSET (S \cap T), IsFiniteSet(U)
  PROVE  g[U] = h[U]
<1>1. \A s \in SUBSET U : s \in SUBSET S /\ s \in SUBSET T
  OBVIOUS
<1>2. \A s \in SUBSET U :
        /\ s = {} => g[s] = 0 /\ h[s] = 0
        /\ s # {} => /\ Pick(s) \in s
                     /\ g[s] = f[Pick(s)] + g[s \ {Pick(s)}]
                     /\ h[s] = f[Pick(s)] + h[s \ {Pick(s)}]
  BY <1>1 DEF IsSum, Pick
<1>3. SUFFICES ASSUME g[U] # h[U] PROVE FALSE
  OBVIOUS
<1> DEFINE Bad == {s \in SUBSET U : g[s] # h[s]}
<1>4. PICK s \in Bad : \A t \in Bad : t \subseteq s => t = s
  <2>1. Bad \subseteq SUBSET U /\ Bad # {}
    BY <1>3
  <2> HIDE DEF Bad
  <2> QED BY <2>1, SmallestSet
<1>5. s \in SUBSET U /\ g[s] # h[s] /\ s # {}
  BY <1>2
<1> DEFINE t == s \ {Pick(s)}
<1>6. Pick(s) \in s /\ g[s] = f[Pick(s)] + g[t] /\ h[s] = f[Pick(s)] + h[t]
  BY <1>2, <1>5
<1>7. t \in SUBSET U /\ t \subseteq s /\ t # s
  BY <1>5, <1>6
<1>8. g[t] = h[t]
  BY <1>4, <1>7
<1> QED BY <1>5, <1>6, <1>8

\* The recursion has a solution on the subsets of a finite set: one for the
\* subsets of up to n elements for every n.
LEMMA SumExists ==
  ASSUME NEW f, NEW S, IsFiniteSet(S)
  PROVE  \E g : IsSum(g, f, SUBSET S)
<1> DEFINE D(n) == {s \in SUBSET S : Cardinality(s) <= n}
           Good == {n \in Nat : \E g : IsSum(g, f, D(n))}
<1>1. \A s \in SUBSET S : IsFiniteSet(s) /\ Cardinality(s) \in Nat
  BY FS_Subset, FS_CardinalityType
<1>2. \A s \in SUBSET S : s # {} =>
        Pick(s) \in s /\ Cardinality(s \ {Pick(s)}) = Cardinality(s) - 1
  <2> TAKE s \in SUBSET S
  <2> HAVE s # {}
  <2>1. Pick(s) \in s
    BY DEF Pick
  <2> QED BY <1>1, <2>1, FS_RemoveElement
<1>3. 0 \in Good
  <2> DEFINE g == [s \in D(0) |-> 0]
  <2>1. \A s \in D(0) : s = {}
    BY <1>1, FS_EmptySet
  <2>2. IsSum(g, f, D(0))
    BY <2>1 DEF IsSum
  <2> QED BY <2>2
<1>4. ASSUME NEW n \in Nat, n \in Good PROVE n + 1 \in Good
  <2>1. PICK g : IsSum(g, f, D(n))
    BY <1>4
  <2> DEFINE h == [s \in D(n + 1) |-> IF s = {} THEN 0
                                      ELSE f[Pick(s)] + g[s \ {Pick(s)}]]
  <2>2. ASSUME NEW s \in D(n + 1), s # {} PROVE h[s \ {Pick(s)}] = g[s \ {Pick(s)}]
    <3> DEFINE t == s \ {Pick(s)}
    <3>1. s \in SUBSET S /\ Cardinality(s) <= n + 1 /\ Cardinality(s) \in Nat
      BY <1>1
    <3>2. t \in SUBSET S /\ Cardinality(t) = Cardinality(s) - 1
      BY <1>2, <2>2, <3>1
    <3>3. t \in D(n) /\ t \in D(n + 1)
      BY <3>1, <3>2
    <3>4. g[t] = IF t = {} THEN 0 ELSE f[Pick(t)] + g[t \ {Pick(t)}]
      BY <2>1, <3>3 DEF IsSum
    <3>5. h[t] = IF t = {} THEN 0 ELSE f[Pick(t)] + g[t \ {Pick(t)}]
      BY <3>3
    <3> QED BY <3>4, <3>5
  <2>3. h = [s \in D(n + 1) |-> IF s = {} THEN 0
                                ELSE f[Pick(s)] + h[s \ {Pick(s)}]]
    <3> HIDE DEF D
    <3>1. \A s \in D(n + 1) :
            h[s] = IF s = {} THEN 0 ELSE f[Pick(s)] + h[s \ {Pick(s)}]
      BY <2>2
    <3> QED BY <3>1
  <2>4. IsSum(h, f, D(n + 1))
    BY <2>3 DEF IsSum
  <2> QED BY <2>4
<1>5. Nat \subseteq Good
  BY <1>3, <1>4, NatSetInduction
<1>6. Cardinality(S) \in Good
  BY <1>1, <1>5
<1>7. D(Cardinality(S)) = SUBSET S
  <2>1. \A s \in SUBSET S : Cardinality(s) <= Cardinality(S)
    BY FS_Subset
  <2> QED BY <2>1
<1> QED BY <1>6, <1>7

\* What a sum over a finite set is: 0 for none, and else the value at the
\* element that was picked and the sum of the rest.
LEMMA SumDef ==
  ASSUME NEW f, NEW S, IsFiniteSet(S)
  PROVE  SumFunctionOnSet(f, S) =
           IF S = {} THEN 0
           ELSE f[Pick(S)] + SumFunctionOnSet(f, S \ {Pick(S)})
<1> DEFINE g == CHOOSE g : IsSum(g, f, SUBSET S)
           T == S \ {Pick(S)}
           h == CHOOSE h : IsSum(h, f, SUBSET T)
<1>1. IsSum(g, f, SUBSET S)
  BY SumExists
<1>2. IsFiniteSet(T)
  BY FS_Subset
<1>3. IsSum(h, f, SUBSET T)
  <2> HIDE DEF T
  <2> QED BY <1>2, SumExists
<1>4. SumFunctionOnSet(f, S) = g[S] /\ SumFunctionOnSet(f, T) = h[T]
  BY SumUnfold
<1>5. g[T] = h[T]
  <2> T \in SUBSET (S \cap T)
    OBVIOUS
  <2> HIDE DEF T, g, h
  <2> QED BY <1>1, <1>2, <1>3, SumUnique
<1>6. g[S] = IF S = {} THEN 0 ELSE f[Pick(S)] + g[T]
  BY <1>1 DEF IsSum
<1> QED BY <1>4, <1>5, <1>6

\* Sums of natural numbers are natural numbers.
LEMMA SumType ==
  ASSUME NEW f, NEW S, IsFiniteSet(S), \A x \in S : f[x] \in Nat
  PROVE  SumFunctionOnSet(f, S) \in Nat
<1> DEFINE Bad == {T \in SUBSET S : SumFunctionOnSet(f, T) \notin Nat}
<1>1. SUFFICES ASSUME Bad # {} PROVE FALSE
  OBVIOUS
<1>2. PICK T \in Bad : \A U \in Bad : U \subseteq T => U = T
  <2>1. Bad \subseteq SUBSET S
    OBVIOUS
  <2> HIDE DEF Bad
  <2> QED BY <1>1, <2>1, SmallestSet
<1>3. T \in SUBSET S /\ IsFiniteSet(T)
  BY FS_Subset
<1> DEFINE U == T \ {Pick(T)}
<1>4. T # {} /\ Pick(T) \in T /\ SumFunctionOnSet(f, T) = f[Pick(T)] + SumFunctionOnSet(f, U)
  <2>1. SumFunctionOnSet(f, T) = IF T = {} THEN 0
                                 ELSE f[Pick(T)] + SumFunctionOnSet(f, U)
    BY <1>3, SumDef
  <2>2. SumFunctionOnSet(f, T) \notin Nat
    BY <1>2
  <2>3. T # {}
    BY <2>1, <2>2
  <2> QED BY <2>1, <2>3 DEF Pick
<1>5. SumFunctionOnSet(f, U) \in Nat
  BY <1>2, <1>3, <1>4
<1>6. f[Pick(T)] \in Nat
  BY <1>3, <1>4
<1>7. SumFunctionOnSet(f, T) \in Nat
  BY <1>4, <1>5, <1>6
<1> QED BY <1>2, <1>7

\* A sum does not depend on the order the elements are picked in: any element
\* can be taken out first.
LEMMA SumRemove ==
  ASSUME NEW f, NEW S, IsFiniteSet(S), \A x \in S : f[x] \in Nat, NEW e \in S
  PROVE  SumFunctionOnSet(f, S) = f[e] + SumFunctionOnSet(f, S \ {e})
<1> DEFINE Sum(T) == SumFunctionOnSet(f, T)
           Bad == {T \in SUBSET S : \E x \in T : Sum(T) # f[x] + Sum(T \ {x})}
<1>1. SUFFICES ASSUME Bad # {} PROVE FALSE
  OBVIOUS
<1>2. PICK T \in Bad : \A U \in Bad : U \subseteq T => U = T
  <2>1. Bad \subseteq SUBSET S
    OBVIOUS
  <2> HIDE DEF Bad
  <2> QED BY <1>1, <2>1, SmallestSet
<1>3. PICK x \in T : Sum(T) # f[x] + Sum(T \ {x})
  BY <1>2
<1>4. \A U \in SUBSET S : IsFiniteSet(U) /\ Sum(U) \in Nat
  <2> TAKE U \in SUBSET S
  <2>1. IsFiniteSet(U)
    BY FS_Subset
  <2> QED BY <2>1, SumType
<1> DEFINE c == Pick(T)
           R == T \ {c, x}
<1>5. c \in T /\ Sum(T) = f[c] + Sum(T \ {c})
  BY <1>4, <1>3, SumDef DEF Pick
<1>6. c # x
  BY <1>3, <1>5
<1>7. Sum(T \ {c}) = f[x] + Sum(R)
  <2>1. T \ {c} \in SUBSET S /\ T \ {c} \subseteq T /\ T \ {c} # T /\ x \in T \ {c}
    BY <1>2, <1>3, <1>5, <1>6
  <2>2. (T \ {c}) \ {x} = R
    OBVIOUS
  <2>3. T \ {c} \notin Bad
    BY <1>2, <2>1
  <2> QED BY <2>1, <2>2, <2>3
<1>8. Sum(T \ {x}) = f[c] + Sum(R)
  <2>1. T \ {x} \in SUBSET S /\ T \ {x} \subseteq T /\ T \ {x} # T /\ c \in T \ {x}
    BY <1>2, <1>3, <1>5, <1>6
  <2>2. (T \ {x}) \ {c} = R
    OBVIOUS
  <2>3. T \ {x} \notin Bad
    BY <1>2, <2>1
  <2> QED BY <2>1, <2>2, <2>3
<1>9. f[c] \in Nat /\ f[x] \in Nat /\ Sum(R) \in Nat
  BY <1>2, <1>3, <1>4, <1>5
<1> QED BY <1>3, <1>5, <1>7, <1>8, <1>9

\* Sums of equal values are equal.
LEMMA SumEqual ==
  ASSUME NEW f, NEW g, NEW S, IsFiniteSet(S), \A x \in S : f[x] = g[x]
  PROVE  SumFunctionOnSet(f, S) = SumFunctionOnSet(g, S)
<1> DEFINE Bad == {T \in SUBSET S : SumFunctionOnSet(f, T) # SumFunctionOnSet(g, T)}
<1>1. SUFFICES ASSUME Bad # {} PROVE FALSE
  OBVIOUS
<1>2. PICK T \in Bad : \A U \in Bad : U \subseteq T => U = T
  <2>1. Bad \subseteq SUBSET S
    OBVIOUS
  <2> HIDE DEF Bad
  <2> QED BY <1>1, <2>1, SmallestSet
<1>3. T \in SUBSET S /\ IsFiniteSet(T)
  BY FS_Subset
<1> DEFINE U == T \ {Pick(T)}
<1>4. /\ SumFunctionOnSet(f, T) = IF T = {} THEN 0 ELSE f[Pick(T)] + SumFunctionOnSet(f, U)
      /\ SumFunctionOnSet(g, T) = IF T = {} THEN 0 ELSE g[Pick(T)] + SumFunctionOnSet(g, U)
  BY <1>3, SumDef
<1>5. T # {} /\ Pick(T) \in T
  BY <1>2, <1>4 DEF Pick
<1>6. SumFunctionOnSet(f, U) = SumFunctionOnSet(g, U)
  BY <1>2, <1>3, <1>5
<1>7. f[Pick(T)] = g[Pick(T)]
  BY <1>3, <1>5
<1> QED BY <1>2, <1>4, <1>6, <1>7

\* A sum is the sum over a part and the sum over the rest.
LEMMA SumParts ==
  ASSUME NEW f, NEW S, IsFiniteSet(S), \A x \in S : f[x] \in Nat, NEW P \in SUBSET S
  PROVE  SumFunctionOnSet(f, S) = SumFunctionOnSet(f, P) + SumFunctionOnSet(f, S \ P)
<1> DEFINE Sum(T) == SumFunctionOnSet(f, T)
           Bad == {T \in SUBSET P : Sum(T \cup (S \ P)) # Sum(T) + Sum(S \ P)}
<1>1. SUFFICES ASSUME Bad # {} PROVE FALSE
  <2>1. Sum(P \cup (S \ P)) = Sum(P) + Sum(S \ P)
    BY <1>1
  <2>2. P \cup (S \ P) = S
    OBVIOUS
  <2> QED BY <2>1, <2>2
<1>2. IsFiniteSet(P)
  BY FS_Subset
<1>3. PICK T \in Bad : \A U \in Bad : U \subseteq T => U = T
  <2>1. Bad \subseteq SUBSET P
    OBVIOUS
  <2> HIDE DEF Bad
  <2> QED BY <1>1, <1>2, <2>1, SmallestSet
<1>4. \A U \in SUBSET S : IsFiniteSet(U) /\ Sum(U) \in Nat
  <2> TAKE U \in SUBSET S
  <2>1. IsFiniteSet(U)
    BY FS_Subset
  <2> QED BY <2>1, SumType
<1>5. T # {}
  <2>1. Sum({}) = 0
    BY SumDef, FS_EmptySet
  <2>2. {} \cup (S \ P) = S \ P
    OBVIOUS
  <2>3. Sum(S \ P) \in Nat
    BY <1>4
  <2>4. Sum(T \cup (S \ P)) # Sum(T) + Sum(S \ P)
    BY <1>3
  <2>5. SUFFICES ASSUME T = {} PROVE Sum(T \cup (S \ P)) = Sum(T) + Sum(S \ P)
    BY <2>4
  <2>6. T \cup (S \ P) = S \ P /\ Sum(T) = 0
    BY <2>1, <2>2, <2>5
  <2> HIDE DEF Sum, Bad
  <2> QED BY <2>3, <2>6
<1>6. PICK x \in T : TRUE
  BY <1>5
<1> DEFINE U == T \ {x}
           TP == T \cup (S \ P)
           UP == U \cup (S \ P)
<1>7. T \in SUBSET P /\ x \in P /\ U \in SUBSET P /\ x \in TP /\ TP \ {x} = UP
  BY <1>3, <1>6
<1>8. Sum(T) = f[x] + Sum(U)
  BY <1>4, <1>6, <1>7, SumRemove
<1>9. Sum(TP) = f[x] + Sum(UP)
  <2>1. TP \in SUBSET S
    BY <1>7
  <2> HIDE DEF TP, UP
  <2>2. IsFiniteSet(TP) /\ \A y \in TP : f[y] \in Nat
    BY <1>4, <2>1
  <2> QED BY <1>7, <2>2, SumRemove
<1>10. Sum(UP) = Sum(U) + Sum(S \ P)
  BY <1>3, <1>6, <1>7
<1>11. f[x] \in Nat /\ Sum(U) \in Nat /\ Sum(S \ P) \in Nat
  BY <1>4, <1>7
<1> QED BY <1>3, <1>8, <1>9, <1>10, <1>11

-----------------------------------------------------------------------------
(* The inductive invariant *)

\* Actions are executed for a rule.
ActionsHaveRule == cur # Free /\ cur.actions # <<>> => cur.rule \in RuleIds

\* An entry of recentEvents holds the last arrival of its hash.
EntriesExact == \A h \in DOMAIN recent : recent[h].lastSeen = arrived[h]

\* A hash that arrived within the window has an entry: what the deletion of a
\* stale entry and the cleanup remove is older.
NoneForgotten == \A h \in Hashes :
  arrived[h] >= 0 /\ now - arrived[h] <= DedupWindow => h \in DOMAIN recent

\* The event that is processed has a severity from the start.
SeverityMapped == cur # Free => cur.data.severity \in Severities

\* A rule of the map that correlates the event's trap is still to come, or its
\* correlate action is among those to execute, or the event has its id.  The
\* rules the walk started with are those of the map until the event is done.
CorrelationAhead ==
  cur # Free /\ EnableCorrelation =>
    \A r \in rules : Correlates(r) /\ cur.event[2] \in RuleDef[r].traps =>
      \/ r \in cur.todo
      \/ \E i \in DOMAIN cur.actions : cur.actions[i].type = "correlate"
      \/ cur.data.correlation # {}

\* There are finitely many groups at any time, so that their sum is defined.
GroupsFinite == IsFiniteSet(DOMAIN groups)

Typed == TypeOK /\ ActionsHaveRule /\ SeverityMapped

IInv == /\ Typed /\ EntriesExact /\ NoneForgotten /\ CorrelationAhead
        /\ GroupsFinite /\ EveryEventInOneGroup

-----------------------------------------------------------------------------
(* Types *)

\* TypeOK with the domains of the maps named.
LEMMA TypeFacts ==
  TypeOK <=>
    /\ now \in Nat
    /\ recent \in [DOMAIN recent -> RecentEvents] /\ DOMAIN recent \subseteq Hashes
    /\ groups \in [DOMAIN groups -> EventGroups] /\ DOMAIN groups \subseteq GroupIds
    /\ rules \in SUBSET RuleIds
    /\ cur \in Held \cup {Free}
    /\ stats \in [processed: Nat, deduplicated: Nat, correlated: Nat,
                  suppressed: Nat]
    /\ arrived \in [Hashes -> Nat \cup {-1}]
    /\ retired \in Nat
BY DEF TypeOK

\* A map with one more key, or one key changed, is a map of the same kind.
LEMMA PutType ==
  ASSUME NEW m, NEW V, NEW K, m \in [DOMAIN m -> V], DOMAIN m \subseteq K,
         NEW k \in K, NEW v \in V
  PROVE  /\ DOMAIN Put(m, k, v) = DOMAIN m \cup {k}
         /\ Put(m, k, v) \in [DOMAIN Put(m, k, v) -> V]
         /\ DOMAIN Put(m, k, v) \subseteq K
         /\ Put(m, k, v)[k] = v
         /\ \A x \in DOMAIN m : x # k => Put(m, k, v)[x] = m[x]
BY DEF Put

\* A restriction of a map is a map of the same kind.
LEMMA RestrictType ==
  ASSUME NEW m, NEW V, m \in [DOMAIN m -> V], NEW D \in SUBSET (DOMAIN m)
  PROVE  /\ DOMAIN Restrict(m, D) = D
         /\ Restrict(m, D) \in [D -> V]
         /\ \A x \in D : Restrict(m, D)[x] = m[x]
BY DEF Restrict

\* What is held while an event is processed is not the empty sequence.
LEMMA HeldIsNotFree == \A c \in Held : c # Free
<1> SUFFICES ASSUME NEW c \in Held PROVE c # Free
  OBVIOUS
<1>1. "event" \in DOMAIN c
  BY DEF Held
<1>2. DOMAIN Free = {}
  BY DEF Free
<1> QED BY <1>1, <1>2

\* The head and the tail of a list of actions.
LEMMA ActionsLeft ==
  ASSUME NEW a \in Seq(Actions), a # <<>>
  PROVE  /\ Head(a) \in Actions /\ Head(a) = a[1] /\ Tail(a) \in Seq(Actions)
         /\ \A i \in DOMAIN a : i # 1 => i - 1 \in DOMAIN Tail(a) /\ Tail(a)[i - 1] = a[i]
OBVIOUS

\* The holder's fields.
LEMMA HeldFacts ==
  ASSUME TypeOK, cur # Free
  PROVE  /\ cur \in Held /\ cur.event \in Hashes /\ cur.rule \in RuleIds \cup {Free}
         /\ cur.todo \in SUBSET RuleIds /\ cur.actions \in Seq(Actions)
         /\ cur.data \in Data
         /\ cur.event[1] \in Sources /\ cur.event[2] \in Traps
BY DEF TypeOK, Held, Hashes

\* What a new event's record holds, and what the steps of a rule make of it.
LEMMA AcceptedType ==
  ASSUME NEW h \in Hashes, TypeOK
  PROVE  /\ Mapped(h[2]) \in Severities
         /\ [event |-> h, rule |-> Free,
             todo |-> IF EnableCorrelation THEN rules ELSE {},
             actions |-> <<>>,
             data |-> [NoData EXCEPT !.severity = Mapped(h[2])]] \in Held
<1>1. Mapped(h[2]) \in Severities
  <2>1. PICK T \in SUBSET Traps : SeverityMapping \in [T -> Severities]
    BY CorrelatorAssumption
  <2> QED BY <2>1, CorrelatorAssumption DEF Mapped
<1>2. <<>> \in Seq(Actions)
  OBVIOUS
<1>3. [NoData EXCEPT !.severity = Mapped(h[2])] \in Data
  BY <1>1 DEF NoData, Data
<1>4. (IF EnableCorrelation THEN rules ELSE {}) \in SUBSET RuleIds
  BY DEF TypeOK
<1> QED BY <1>1, <1>2, <1>3, <1>4 DEF Held

\* One more event in an entry or a group.
LEMMA CountedType ==
  ASSUME NEW t \in Nat
  PROVE  /\ \A e \in RecentEvents :
              [e EXCEPT !.count = @ + 1, !.lastSeen = t] \in RecentEvents
         /\ \A e \in EventGroups :
              [e EXCEPT !.count = @ + 1, !.lastSeen = t] \in EventGroups
<1>1. ASSUME NEW e \in RecentEvents
      PROVE  [e EXCEPT !.count = @ + 1, !.lastSeen = t] \in RecentEvents
  <2>1. e.count + 1 \in Nat
    BY DEF RecentEvents
  <2> QED BY <2>1 DEF RecentEvents
<1>2. ASSUME NEW e \in EventGroups
      PROVE  [e EXCEPT !.count = @ + 1, !.lastSeen = t] \in EventGroups
  <2>1. e.count + 1 \in Nat
    BY DEF EventGroups
  <2> QED BY <2>1 DEF EventGroups
<1> QED BY <1>1, <1>2

\* The types are kept.
LEMMA TypeStep ==
  ASSUME Typed, GroupsFinite, [Next]_vars
  PROVE  Typed'
<1>0. /\ TypeOK /\ ActionsHaveRule /\ SeverityMapped /\ now \in Nat
      /\ recent \in [DOMAIN recent -> RecentEvents] /\ DOMAIN recent \subseteq Hashes
      /\ groups \in [DOMAIN groups -> EventGroups] /\ DOMAIN groups \subseteq GroupIds
      /\ rules \in SUBSET RuleIds /\ cur \in Held \cup {Free}
      /\ stats \in [processed: Nat, deduplicated: Nat, correlated: Nat,
                    suppressed: Nat]
      /\ arrived \in [Hashes -> Nat \cup {-1}] /\ retired \in Nat
  BY TypeFacts DEF Typed
<1> USE <1>0 DEF Typed
<1>1. CASE UNCHANGED vars
  BY <1>1 DEF vars, TypeOK, ActionsHaveRule, SeverityMapped
<1>2. CASE Tick
  BY <1>2 DEF Tick, TypeOK, ActionsHaveRule, SeverityMapped
<1>3. ASSUME NEW h \in Hashes, Deduplicate(h) PROVE Typed'
  <2>1. recent' \in [DOMAIN recent -> RecentEvents] /\ DOMAIN recent' = DOMAIN recent
    <3>1. recent[h] \in RecentEvents /\ h \in DOMAIN recent
      BY <1>3 DEF Deduplicate, IsDuplicate
    <3>2. [recent[h] EXCEPT !.count = @ + 1, !.lastSeen = now] \in RecentEvents
      BY <3>1, CountedType
    <3>3. recent' = [recent EXCEPT ![h] = [recent[h] EXCEPT !.count = @ + 1, !.lastSeen = now]]
      BY <1>3, <3>1 DEF Deduplicate
    <3> QED BY <3>1, <3>2, <3>3
  <2>2. arrived' \in [Hashes -> Nat \cup {-1}]
    BY <1>3 DEF Deduplicate
  <2>3. stats' \in [processed: Nat, deduplicated: Nat, correlated: Nat,
                    suppressed: Nat]
    <3>1. stats' = [stats EXCEPT !.processed = @ + 1, !.deduplicated = @ + 1]
      BY <1>3 DEF Deduplicate
    <3>2. stats.processed + 1 \in Nat /\ stats.deduplicated + 1 \in Nat
      OBVIOUS
    <3> QED BY <3>1, <3>2
  <2> QED BY <1>3, <2>1, <2>2, <2>3 DEF Deduplicate, ActionsHaveRule, SeverityMapped, TypeOK
<1>4. ASSUME NEW h \in Hashes, Accept(h) PROVE Typed'
  <2>1. recent' \in [DOMAIN recent' -> RecentEvents] /\ DOMAIN recent' \subseteq Hashes
    <3>1. CASE EnableDedup
      <4>1. DOMAIN recent \ {h} \in SUBSET (DOMAIN recent)
        OBVIOUS
      <4>2. recent' = Restrict(recent, DOMAIN recent \ {h})
        BY <1>4, <3>1 DEF Accept
      <4>3. Restrict(recent, DOMAIN recent \ {h}) \in [DOMAIN recent \ {h} -> RecentEvents]
        BY <4>1, RestrictType
      <4> QED BY <4>2, <4>3
    <3>2. CASE ~EnableDedup
      BY <1>4, <3>2 DEF Accept
    <3> QED BY <3>1, <3>2
  <2>2. cur' \in Held /\ cur'.actions = <<>> /\ cur'.data.severity \in Severities
    BY <1>4, AcceptedType DEF Accept, NoData
  <2>3. stats' \in [processed: Nat, deduplicated: Nat, correlated: Nat,
                    suppressed: Nat]
    BY <1>4 DEF Accept
  <2> QED BY <1>4, <2>1, <2>2, <2>3 DEF Accept, ActionsHaveRule, SeverityMapped, TypeOK
<1>5. ASSUME NEW r \in RuleIds, PassRule(r) PROVE Typed'
  <2>1. cur' \in Held /\ cur'.actions = <<>> /\ cur'.data = cur.data
    BY <1>5, HeldFacts DEF PassRule, BetweenRules, Held
  <2> QED BY <1>5, <2>1 DEF PassRule, BetweenRules, ActionsHaveRule, SeverityMapped, TypeOK
<1>6. ASSUME NEW r \in RuleIds, MatchRule(r) PROVE Typed'
  <2>1. RuleDef[r].actions \in Seq(Actions)
    BY CorrelatorAssumption
  <2>2. cur' \in Held /\ cur'.rule = r /\ cur'.data = cur.data
    BY <1>6, <2>1, HeldFacts DEF MatchRule, BetweenRules, Held
  <2> QED BY <1>6, <2>2 DEF MatchRule, BetweenRules, ActionsHaveRule, SeverityMapped, TypeOK
<1>7. CASE SetSeverity
  <2>1. Done \in Seq(Actions) /\ Head(cur.actions).severity \in Severities
    BY <1>7, HeldFacts, ActionsLeft DEF SetSeverity, Action, Done, Actions
  <2>2. cur' \in Held /\ cur'.rule = cur.rule /\ cur'.data.severity \in Severities
    BY <1>7, <2>1, HeldFacts DEF SetSeverity, Action, Held, Data
  <2> QED BY <1>7, <2>2 DEF SetSeverity, Action, ActionsHaveRule, SeverityMapped, TypeOK
<1>8. CASE SetStatus
  <2>1. Done \in Seq(Actions)
    BY <1>8, HeldFacts, ActionsLeft DEF SetStatus, Action, Done
  <2>2. cur' \in Held /\ cur'.rule = cur.rule /\ cur'.data.severity = cur.data.severity
    BY <1>8, <2>1, HeldFacts DEF SetStatus, Action, Held, Data
  <2> QED BY <1>8, <2>2 DEF SetStatus, Action, ActionsHaveRule, SeverityMapped, TypeOK
<1>9. CASE Suppress
  <2>1. Done \in Seq(Actions)
    BY <1>9, HeldFacts, ActionsLeft DEF Suppress, Action, Done
  <2>2. cur' \in Held /\ cur'.rule = cur.rule /\ cur'.data.severity = cur.data.severity
    BY <1>9, <2>1, HeldFacts DEF Suppress, Action, Held, Data
  <2>3. stats' \in [processed: Nat, deduplicated: Nat, correlated: Nat,
                    suppressed: Nat]
    BY <1>9 DEF Suppress
  <2> QED BY <1>9, <2>2, <2>3 DEF Suppress, Action, ActionsHaveRule, SeverityMapped, TypeOK
<1>10. CASE Correlate
  <2>1. Done \in Seq(Actions) /\ Group \in GroupIds
    BY <1>10, HeldFacts, ActionsLeft
    DEF Correlate, Action, Done, Group, GroupIds, ActionsHaveRule
  <2>2. cur' \in Held /\ cur'.rule = cur.rule /\ cur'.data.severity = cur.data.severity
    BY <1>10, <2>1, HeldFacts DEF Correlate, Action, Held, Data
  <2>3. stats' \in [processed: Nat, deduplicated: Nat, correlated: Nat,
                    suppressed: Nat]
    BY <1>10 DEF Correlate
  <2>4. groups' \in [DOMAIN groups' -> EventGroups] /\ DOMAIN groups' \subseteq GroupIds
    <3>1. CASE Group \in DOMAIN groups
      <4>1. groups[Group] \in EventGroups
        BY <3>1
      <4>2. [groups[Group] EXCEPT !.count = @ + 1, !.lastSeen = now] \in EventGroups
        BY <4>1, CountedType
      <4>3. groups' = [groups EXCEPT ![Group] =
                         [groups[Group] EXCEPT !.count = @ + 1, !.lastSeen = now]]
        BY <1>10, <3>1 DEF Correlate, Joined
      <4> QED BY <3>1, <4>2, <4>3
    <3>2. CASE Group \notin DOMAIN groups
      <4>1. NewGroup \in EventGroups
        BY <1>10 DEF NewGroup, EventGroups, Correlate, Action, SeverityMapped
      <4>2. groups' = Put(groups, Group, NewGroup)
        BY <1>10, <3>2 DEF Correlate, Joined
      <4>3. /\ Put(groups, Group, NewGroup)
                 \in [DOMAIN Put(groups, Group, NewGroup) -> EventGroups]
            /\ DOMAIN Put(groups, Group, NewGroup) \subseteq GroupIds
        <5>1. /\ groups \in [DOMAIN groups -> EventGroups]
              /\ DOMAIN groups \subseteq GroupIds /\ Group \in GroupIds
          BY <2>1
        <5> HIDE <1>0
        <5> QED BY ONLY <4>1, <5>1, PutType
      <4> QED BY <4>2, <4>3
    <3> QED BY <3>1, <3>2
  <2> QED BY <1>10, <2>2, <2>3, <2>4 DEF Correlate, Action, ActionsHaveRule, SeverityMapped, TypeOK
<1>11. CASE Track
  <2> DEFINE e == [count |-> 1, firstSeen |-> now, lastSeen |-> now]
  <2>1. e \in RecentEvents
    BY DEF RecentEvents
  <2>2. cur.event \in Hashes
    BY <1>11, HeldFacts DEF Track, BetweenRules
  <2> DEFINE m == Put(recent, cur.event, e)
  <2>3. m \in [DOMAIN m -> RecentEvents] /\ DOMAIN m \subseteq Hashes
    <3>1. recent \in [DOMAIN recent -> RecentEvents] /\ DOMAIN recent \subseteq Hashes
      OBVIOUS
    <3> HIDE <1>0 DEF e
    <3> QED BY ONLY <2>1, <2>2, <3>1, PutType
  <2>5. recent' = m
    BY <1>11 DEF Track
  <2>4. arrived' \in [Hashes -> Nat \cup {-1}]
    BY <1>11, <2>2 DEF Track
  <2> QED BY <1>11, <2>3, <2>4, <2>5 DEF Track, ActionsHaveRule, SeverityMapped, TypeOK
<1>12. ASSUME NEW r \in RuleIds, AddRule(r) \/ RemoveRule(r)
       PROVE  Typed'
  BY <1>12 DEF AddRule, RemoveRule, ActionsHaveRule, SeverityMapped, TypeOK
<1>13. ASSUME NEW g \in GroupIds, AcknowledgeGroup(g) PROVE Typed'
  <2>1. groups' \in [DOMAIN groups -> EventGroups] /\ DOMAIN groups' = DOMAIN groups
    BY <1>13 DEF AcknowledgeGroup, EventGroups
  <2> QED BY <1>13, <2>1 DEF AcknowledgeGroup, ActionsHaveRule, SeverityMapped, TypeOK
<1>14. CASE CleanupExpiredGroups
  <2> DEFINE G == DOMAIN groups \ Expired
             H == {h \in DOMAIN recent : ~Stale(recent[h].lastSeen)}
  <2>1. groups' = Restrict(groups, G) /\ recent' = Restrict(recent, H)
    BY <1>14 DEF CleanupExpiredGroups
  <2>2. G \in SUBSET (DOMAIN groups) /\ H \in SUBSET (DOMAIN recent)
    OBVIOUS
  <2> HIDE DEF G, H
  <2>3. Restrict(groups, G) \in [G -> EventGroups]
    BY <2>2, RestrictType
  <2>4. Restrict(recent, H) \in [H -> RecentEvents]
    BY <2>2, RestrictType
  <2>5. retired' \in Nat
    <3> DEFINE f == [g \in Expired |-> groups[g].count]
    <3>1. Expired \subseteq DOMAIN groups
      BY DEF Expired
    <3>2. IsFiniteSet(Expired)
      BY <3>1, FS_Subset DEF GroupsFinite
    <3>3. \A g \in Expired : f[g] \in Nat
      BY <3>1 DEF EventGroups
    <3>4. SumFunction(f) \in Nat
      BY <3>2, <3>3, SumType DEF SumFunction
    <3> QED BY <1>14, <3>4 DEF CleanupExpiredGroups
  <2> QED BY <1>14, <2>1, <2>2, <2>3, <2>4, <2>5
          DEF CleanupExpiredGroups, ActionsHaveRule, SeverityMapped, TypeOK
<1> QED BY <1>1, <1>2, <1>3, <1>4, <1>5, <1>6, <1>7, <1>8, <1>9, <1>10,
           <1>11, <1>12, <1>13, <1>14 DEF Next, ProcessEvent

-----------------------------------------------------------------------------
(* Deduplication *)

\* The entries are exact, and none is missing within its window: only Accept
\* and the cleanup remove any, and what they remove is out of its window.
LEMMA EntriesStep ==
  ASSUME TypeOK, EntriesExact, NoneForgotten, [Next]_vars
  PROVE  EntriesExact' /\ NoneForgotten'
<1>0. /\ now \in Nat /\ DOMAIN recent \subseteq Hashes
      /\ recent \in [DOMAIN recent -> RecentEvents]
      /\ arrived \in [Hashes -> Nat \cup {-1}] /\ DedupWindow \in Nat
  BY TypeFacts, CorrelatorAssumption
<1>1. CASE UNCHANGED <<recent, arrived, now>>
  BY <1>1 DEF EntriesExact, NoneForgotten
<1>2. CASE Tick
  BY <1>0, <1>2 DEF Tick, EntriesExact, NoneForgotten
<1>3. ASSUME NEW h \in Hashes, Deduplicate(h) PROVE EntriesExact' /\ NoneForgotten'
  <2>1. h \in DOMAIN recent
    BY <1>3 DEF Deduplicate, IsDuplicate
  <2>2. /\ DOMAIN recent' = DOMAIN recent
        /\ \A k \in DOMAIN recent : recent'[k].lastSeen =
             IF k = h THEN now ELSE recent[k].lastSeen
    <3>1. recent[h] \in RecentEvents
      BY <1>0, <2>1
    <3>2. recent' = [recent EXCEPT ![h] = [recent[h] EXCEPT !.count = @ + 1, !.lastSeen = now]]
      BY <1>0, <1>3, <2>1 DEF Deduplicate
    <3>3. [recent[h] EXCEPT !.count = @ + 1, !.lastSeen = now].lastSeen = now
      BY <3>1 DEF RecentEvents
    <3> QED BY <1>0, <2>1, <3>2, <3>3
  <2>3. now' = now /\ \A k \in Hashes : arrived'[k] = IF k = h THEN now ELSE arrived[k]
    BY <1>0, <1>3 DEF Deduplicate
  <2> QED BY <1>0, <2>1, <2>2, <2>3 DEF EntriesExact, NoneForgotten
<1>4. ASSUME NEW h \in Hashes, Accept(h) PROVE EntriesExact' /\ NoneForgotten'
  <2>1. CASE ~EnableDedup
    BY <1>4, <2>1 DEF Accept, EntriesExact, NoneForgotten
  <2>2. CASE EnableDedup
    <3> DEFINE D == DOMAIN recent \ {h}
    <3>1. recent' = Restrict(recent, D) /\ UNCHANGED <<now, arrived>>
      BY <1>4, <2>2 DEF Accept
    <3>2. DOMAIN recent' = D /\ \A k \in D : recent'[k] = recent[k]
      BY <3>1 DEF Restrict
    <3>3. EntriesExact'
      BY <3>1, <3>2 DEF EntriesExact
    <3>4. h \in DOMAIN recent => now - arrived[h] > DedupWindow
      BY <1>0, <1>4, <2>2 DEF Accept, IsDuplicate, WithinWindow, EntriesExact
    <3>5. NoneForgotten'
      BY <1>0, <3>1, <3>2, <3>4 DEF NoneForgotten
    <3> QED BY <3>3, <3>5
  <2> QED BY <2>1, <2>2
<1>5. CASE Track
  <2> DEFINE e == [count |-> 1, firstSeen |-> now, lastSeen |-> now]
  <2>1. cur.event \in Hashes /\ recent' = Put(recent, cur.event, e)
    BY <1>5, HeldFacts DEF Track, BetweenRules
  <2>2. DOMAIN recent' = DOMAIN recent \cup {cur.event}
    BY <2>1 DEF Put
  <2>3. \A k \in DOMAIN recent' : recent'[k].lastSeen =
          IF k = cur.event THEN now ELSE recent[k].lastSeen
    BY <2>1 DEF Put
  <2>4. now' = now /\ \A k \in Hashes : arrived'[k] = IF k = cur.event THEN now ELSE arrived[k]
    BY <1>0, <1>5 DEF Track
  <2> QED BY <1>0, <2>1, <2>2, <2>3, <2>4 DEF EntriesExact, NoneForgotten
<1>6. CASE CleanupExpiredGroups
  <2> DEFINE H == {h \in DOMAIN recent : ~Stale(recent[h].lastSeen)}
  <2>1. recent' = Restrict(recent, H) /\ UNCHANGED <<now, arrived>>
    BY <1>6 DEF CleanupExpiredGroups
  <2>2. DOMAIN recent' = H /\ \A k \in H : recent'[k] = recent[k]
    BY <2>1 DEF Restrict
  <2>3. EntriesExact'
    BY <2>1, <2>2 DEF EntriesExact
  <2>4. \A k \in DOMAIN recent : now - arrived[k] <= DedupWindow => k \in H
    BY <1>0 DEF EntriesExact, Stale
  <2>5. NoneForgotten'
    BY <2>1, <2>2, <2>4 DEF NoneForgotten
  <2> QED BY <2>3, <2>5
<1> QED BY <1>1, <1>2, <1>3, <1>4, <1>5, <1>6
        DEF Next, ProcessEvent, PassRule, MatchRule, SetSeverity, SetStatus,
            Suppress, Correlate, AddRule, RemoveRule, AcknowledgeGroup, vars

-----------------------------------------------------------------------------
(* Rules *)

\* A rule that is to correlate the event is not lost on the way: passing it
\* would mean it does not match, matching it takes over its actions, and the
\* correlate action leaves its id behind.
LEMMA CorrelationStep ==
  ASSUME Typed, CorrelationAhead, [Next]_vars
  PROVE  CorrelationAhead'
<1> DEFINE Owed(r) == Correlates(r) /\ cur.event[2] \in RuleDef[r].traps
           Coming == \E i \in DOMAIN cur.actions : cur.actions[i].type = "correlate"
<1>0. TypeOK /\ SeverityMapped /\ rules \subseteq RuleIds
  BY TypeFacts DEF Typed
<1>1. CASE UNCHANGED <<cur, rules>>
  BY <1>1 DEF CorrelationAhead
<1>2. CASE cur' = Free
  BY <1>2 DEF CorrelationAhead
<1>3. ASSUME NEW h \in Hashes, Accept(h) PROVE CorrelationAhead'
  BY <1>3 DEF Accept, CorrelationAhead
<1>4. ASSUME NEW q \in RuleIds, PassRule(q) PROVE CorrelationAhead'
  <2>1. cur # Free /\ cur \in Held /\ cur.actions = <<>>
    BY <1>0, <1>4, HeldFacts DEF PassRule, BetweenRules
  <2>2. /\ cur'.event = cur.event /\ cur'.data = cur.data /\ cur'.actions = cur.actions
        /\ cur'.todo = cur.todo \ {q} /\ rules' = rules
    BY <1>4, <2>1 DEF PassRule, Held
  <2>3. ~Owed(q)
    BY <1>0, <1>4, <2>1 DEF PassRule, Matches, Correlates, SeverityMapped
  <2> QED BY <2>1, <2>2, <2>3 DEF CorrelationAhead, Correlates
<1>5. ASSUME NEW q \in RuleIds, MatchRule(q) PROVE CorrelationAhead'
  <2>1. cur # Free /\ cur \in Held /\ cur.actions = <<>>
    BY <1>0, <1>5, HeldFacts DEF MatchRule, BetweenRules
  <2>2. /\ cur'.event = cur.event /\ cur'.data = cur.data
        /\ cur'.actions = RuleDef[q].actions
        /\ cur'.todo = cur.todo \ {q} /\ rules' = rules
    BY <1>5, <2>1 DEF MatchRule, Held
  <2>3. Owed(q) => \E i \in DOMAIN cur'.actions : cur'.actions[i].type = "correlate"
    BY <2>2 DEF Correlates
  <2> QED BY <2>1, <2>2, <2>3 DEF CorrelationAhead, Correlates
<1>6. CASE SetSeverity \/ SetStatus \/ Suppress
  <2>1. cur # Free /\ cur \in Held /\ cur.actions \in Seq(Actions) /\ cur.actions # <<>>
    BY <1>0, <1>6, HeldFacts DEF SetSeverity, SetStatus, Suppress, Action
  <2>2. /\ cur'.event = cur.event /\ cur'.actions = Tail(cur.actions)
        /\ cur'.data.correlation = cur.data.correlation
        /\ cur'.todo = cur.todo /\ rules' = rules
    <3>1. CASE SetSeverity
      BY <2>1, <3>1 DEF SetSeverity, Held, Data, Done
    <3>2. CASE SetStatus
      BY <2>1, <3>2 DEF SetStatus, Held, Data, Done
    <3>3. CASE Suppress
      BY <2>1, <3>3 DEF Suppress, Held, Data, Done
    <3> QED BY <1>6, <3>1, <3>2, <3>3
  <2>3. Head(cur.actions).type # "correlate"
    BY <1>6 DEF SetSeverity, SetStatus, Suppress, Action
  <2>4. Coming => \E i \in DOMAIN cur'.actions : cur'.actions[i].type = "correlate"
    <3> SUFFICES ASSUME NEW i \in DOMAIN cur.actions, cur.actions[i].type = "correlate"
                 PROVE  \E j \in DOMAIN cur'.actions : cur'.actions[j].type = "correlate"
      OBVIOUS
    <3>1. i # 1
      BY <2>1, <2>3, ActionsLeft
    <3>2. i - 1 \in DOMAIN Tail(cur.actions) /\ Tail(cur.actions)[i - 1] = cur.actions[i]
      BY <2>1, <3>1, ActionsLeft
    <3> QED BY <2>2, <3>2
  <2> QED BY <2>1, <2>2, <2>4 DEF CorrelationAhead
<1>7. CASE Correlate
  <2>1. cur # Free /\ cur \in Held
    BY <1>0, <1>7, HeldFacts DEF Correlate, Action
  <2>2. cur'.data.correlation = {Group}
    BY <1>7, <2>1 DEF Correlate, Held, Data
  <2> QED BY <2>2 DEF CorrelationAhead
<1>8. ASSUME NEW q \in RuleIds, AddRule(q) \/ RemoveRule(q) PROVE CorrelationAhead'
  BY <1>8 DEF AddRule, RemoveRule, CorrelationAhead
<1> QED BY <1>1, <1>2, <1>3, <1>4, <1>5, <1>6, <1>7, <1>8
        DEF Next, ProcessEvent, Tick, Deduplicate, Track, AcknowledgeGroup,
            CleanupExpiredGroups, vars

-----------------------------------------------------------------------------
(* Groups *)

Counts(m) == [g \in DOMAIN m |-> m[g].count]
Events(m) == SumFunction(Counts(m))

\* What is counted in the groups, as a sum over the groups.
LEMMA EventsFacts ==
  ASSUME NEW m, NEW K, m \in [K -> EventGroups], IsFiniteSet(K)
  PROVE  /\ Events(m) = SumFunctionOnSet(Counts(m), K) /\ Events(m) \in Nat
         /\ \A g \in K : Counts(m)[g] = m[g].count /\ Counts(m)[g] \in Nat
<1>1. DOMAIN m = K /\ \A g \in K : Counts(m)[g] = m[g].count /\ Counts(m)[g] \in Nat
  BY DEF Counts, EventGroups
<1>2. DOMAIN Counts(m) = K
  BY <1>1 DEF Counts
<1>3. Events(m) = SumFunctionOnSet(Counts(m), K)
  BY <1>2 DEF Events, SumFunction
<1>4. SumFunctionOnSet(Counts(m), K) \in Nat
  BY <1>1, SumType
<1> QED BY <1>1, <1>3, <1>4

\* An event that joins a group is counted once.
LEMMA EventJoins ==
  ASSUME NEW m, NEW n, NEW K, m \in [K -> EventGroups], n \in [K -> EventGroups],
         IsFiniteSet(K), NEW k \in K, n[k].count = m[k].count + 1,
         \A g \in K : g # k => n[g].count = m[g].count
  PROVE  Events(n) = Events(m) + 1
<1> DEFINE R == K \ {k}
<1>1. IsFiniteSet(R) /\ R \subseteq K
  BY FS_Subset
<1>2. SumFunctionOnSet(Counts(n), R) = SumFunctionOnSet(Counts(m), R)
  <2>1. \A g \in R : Counts(n)[g] = Counts(m)[g]
    BY EventsFacts
  <2> QED BY <1>1, <2>1, SumEqual
<1>3. /\ Events(m) = Counts(m)[k] + SumFunctionOnSet(Counts(m), R)
      /\ Events(n) = Counts(n)[k] + SumFunctionOnSet(Counts(n), R)
  <2>1. /\ Events(m) = SumFunctionOnSet(Counts(m), K)
        /\ Events(n) = SumFunctionOnSet(Counts(n), K)
    BY EventsFacts
  <2>2. \A g \in K : Counts(m)[g] \in Nat /\ Counts(n)[g] \in Nat
    BY EventsFacts
  <2> QED BY <2>1, <2>2, SumRemove
<1>4. SumFunctionOnSet(Counts(m), R) \in Nat
  BY <1>1, EventsFacts, SumType
<1>5. Counts(n)[k] = Counts(m)[k] + 1 /\ Counts(m)[k] \in Nat
  BY EventsFacts
<1> QED BY <1>2, <1>3, <1>4, <1>5

\* So is one that opens a group.
LEMMA EventOpens ==
  ASSUME NEW m, NEW K, m \in [K -> EventGroups], IsFiniteSet(K),
         NEW k, k \notin K, NEW v \in EventGroups, v.count = 1
  PROVE  Events(Put(m, k, v)) = Events(m) + 1
<1> DEFINE n == Put(m, k, v)
           L == K \cup {k}
<1>1. n \in [L -> EventGroups] /\ n[k] = v /\ \A g \in K : n[g] = m[g]
  BY DEF Put
<1>2. IsFiniteSet(L) /\ L \ {k} = K
  BY FS_AddElement
<1> HIDE DEF n, L
<1>3. SumFunctionOnSet(Counts(n), K) = SumFunctionOnSet(Counts(m), K)
  <2>1. \A g \in K : Counts(n)[g] = Counts(m)[g]
    BY <1>1, <1>2, EventsFacts
  <2> QED BY <2>1, SumEqual
<1>4. /\ Events(n) = SumFunctionOnSet(Counts(n), L)
      /\ \A g \in L : Counts(n)[g] = n[g].count /\ Counts(n)[g] \in Nat
  BY <1>1, <1>2, EventsFacts
<1>5. k \in L
  BY DEF L
<1>6. Events(n) = Counts(n)[k] + SumFunctionOnSet(Counts(n), K)
  BY <1>2, <1>4, <1>5, SumRemove
<1>7. Counts(n)[k] = 1
  BY <1>1, <1>4, <1>5
<1>8. Events(m) = SumFunctionOnSet(Counts(m), K) /\ Events(m) \in Nat
  BY EventsFacts
<1>9. Events(n) = Events(m) + 1
  BY <1>3, <1>6, <1>7, <1>8
<1> QED BY <1>9 DEF n

\* The events of the groups that are cleaned up and of those that stay are all.
LEMMA EventsSplit ==
  ASSUME NEW m, NEW K, m \in [K -> EventGroups], IsFiniteSet(K), NEW E \in SUBSET K
  PROVE  /\ Events(m) = SumFunction([g \in E |-> m[g].count]) + Events(Restrict(m, K \ E))
         /\ SumFunction([g \in E |-> m[g].count]) \in Nat
         /\ Events(Restrict(m, K \ E)) \in Nat
<1> DEFINE f == [g \in E |-> m[g].count]
           r == Restrict(m, K \ E)
<1>1. IsFiniteSet(E) /\ IsFiniteSet(K \ E)
  BY FS_Subset
<1>2. r \in [K \ E -> EventGroups] /\ \A g \in K \ E : r[g] = m[g]
  BY DEF Restrict
<1>3. \A g \in K : Counts(m)[g] = m[g].count /\ Counts(m)[g] \in Nat
  BY EventsFacts
<1>4. SumFunction(f) = SumFunctionOnSet(Counts(m), E)
  <2>1. DOMAIN f = E /\ \A g \in E : f[g] = Counts(m)[g]
    BY <1>3
  <2> HIDE DEF f
  <2>2. SumFunctionOnSet(f, E) = SumFunctionOnSet(Counts(m), E)
    BY <1>1, <2>1, SumEqual
  <2> QED BY <2>1, <2>2 DEF SumFunction
<1>5. Events(r) = SumFunctionOnSet(Counts(m), K \ E)
  <2> HIDE DEF r
  <2>1. Events(r) = SumFunctionOnSet(Counts(r), K \ E)
    BY <1>1, <1>2, EventsFacts
  <2>2. \A g \in K \ E : Counts(r)[g] = Counts(m)[g]
    BY <1>1, <1>2, <1>3, EventsFacts
  <2> QED BY <1>1, <2>1, <2>2, SumEqual
<1>6. Events(m) = SumFunctionOnSet(Counts(m), E) + SumFunctionOnSet(Counts(m), K \ E)
  <2>1. Events(m) = SumFunctionOnSet(Counts(m), K)
    BY EventsFacts
  <2> QED BY <1>3, <2>1, SumParts
<1>7. /\ SumFunctionOnSet(Counts(m), E) \in Nat
      /\ SumFunctionOnSet(Counts(m), K \ E) \in Nat
  BY <1>1, <1>3, SumType
<1> QED BY <1>4, <1>5, <1>6, <1>7

\* The account of the groups, in the terms of the lemmas above.
LEMMA AccountFacts ==
  EveryEventInOneGroup <=> stats.correlated = retired + Events(groups)
BY DEF EveryEventInOneGroup, Events, Counts

\* Every step keeps the account: Correlate adds an event to the counter and to
\* one group, the cleanup moves what is in the expired groups to retired.
LEMMA GroupsStep ==
  ASSUME Typed, GroupsFinite, EveryEventInOneGroup, [Next]_vars
  PROVE  GroupsFinite' /\ EveryEventInOneGroup'
<1> DEFINE K == DOMAIN groups
<1>0. /\ TypeOK /\ now \in Nat /\ retired \in Nat
      /\ groups \in [K -> EventGroups] /\ K \subseteq GroupIds /\ IsFiniteSet(K)
      /\ stats \in [processed: Nat, deduplicated: Nat, correlated: Nat,
                    suppressed: Nat]
      /\ stats.correlated = retired + Events(groups) /\ Events(groups) \in Nat
  <2>1. TypeOK /\ IsFiniteSet(K)
    BY DEF Typed, GroupsFinite
  <2>2. groups \in [K -> EventGroups]
    BY <2>1, TypeFacts
  <2> QED BY <2>1, <2>2, TypeFacts, AccountFacts, EventsFacts
<1>1. ASSUME UNCHANGED groups, UNCHANGED retired, stats'.correlated = stats.correlated
      PROVE  GroupsFinite' /\ EveryEventInOneGroup'
  BY <1>1 DEF GroupsFinite, EveryEventInOneGroup
<1>2. ASSUME stats'.correlated = retired' + Events(groups'), IsFiniteSet(DOMAIN groups')
      PROVE  GroupsFinite' /\ EveryEventInOneGroup'
  BY <1>2 DEF GroupsFinite, EveryEventInOneGroup, Events, Counts
<1>3. ASSUME NEW h \in Hashes, Deduplicate(h) \/ Accept(h)
      PROVE  GroupsFinite' /\ EveryEventInOneGroup'
  <2>1. UNCHANGED groups /\ UNCHANGED retired /\ stats'.correlated = stats.correlated
    BY <1>0, <1>3 DEF Deduplicate, Accept
  <2> QED BY <1>1, <2>1
<1>4. CASE Suppress
  <2>1. UNCHANGED groups /\ UNCHANGED retired /\ stats'.correlated = stats.correlated
    BY <1>0, <1>4 DEF Suppress
  <2> QED BY <1>1, <2>1
<1>5. CASE Correlate
  <2>1. retired' = retired /\ stats'.correlated = stats.correlated + 1 /\ groups' = Joined
    BY <1>0, <1>5 DEF Correlate
  <2>2. CASE Group \in K
    <3>1. groups' = [groups EXCEPT ![Group].count = @ + 1, ![Group].lastSeen = now]
      BY <2>1, <2>2 DEF Joined
    <3>2. groups[Group] \in EventGroups
      BY <1>0, <2>2
    <3>3. [groups[Group] EXCEPT !.count = @ + 1, !.lastSeen = now] \in EventGroups
      BY <1>0, <3>2, CountedType
    <3>4. [groups[Group] EXCEPT !.count = @ + 1, !.lastSeen = now].count
            = groups[Group].count + 1
      BY <3>2 DEF EventGroups
    <3>5. groups' = [groups EXCEPT ![Group] =
                       [groups[Group] EXCEPT !.count = @ + 1, !.lastSeen = now]]
      BY <1>0, <2>2, <3>1
    <3>6. /\ groups' \in [K -> EventGroups]
          /\ groups'[Group].count = groups[Group].count + 1
          /\ \A g \in K : g # Group => groups'[g].count = groups[g].count
      BY <1>0, <2>2, <3>3, <3>4, <3>5
    <3>7. Events(groups') = Events(groups) + 1
      BY <1>0, <2>2, <3>6, EventJoins
    <3>8. stats'.correlated = retired' + Events(groups')
      BY <1>0, <2>1, <3>7
    <3>9. IsFiniteSet(DOMAIN groups')
      BY <1>0, <3>6
    <3> QED BY <1>2, <3>8, <3>9
  <2>3. CASE Group \notin K
    <3>1. groups' = Put(groups, Group, NewGroup)
      BY <2>1, <2>3 DEF Joined
    <3>2. NewGroup \in EventGroups /\ NewGroup.count = 1
      BY <1>0, <1>5 DEF NewGroup, EventGroups, Correlate, Action, SeverityMapped, Typed
    <3>3. Events(groups') = Events(groups) + 1
      <4> DEFINE G == Group
                 N == NewGroup
      <4> HIDE DEF G, N
      <4>1. Events(Put(groups, G, N)) = Events(groups) + 1
        BY <1>0, <2>3, <3>2, EventOpens DEF G, N
      <4> QED BY <3>1, <4>1 DEF G, N
    <3>4. IsFiniteSet(DOMAIN groups')
      BY <1>0, <3>1, FS_AddElement DEF Put
    <3>5. stats'.correlated = retired' + Events(groups')
      BY <1>0, <2>1, <3>3
    <3> QED BY <1>2, <3>4, <3>5
  <2> QED BY <2>2, <2>3
<1>6. ASSUME NEW g \in GroupIds, AcknowledgeGroup(g)
      PROVE  GroupsFinite' /\ EveryEventInOneGroup'
  <2>1. DOMAIN groups' = K /\ \A k \in K : groups'[k].count = groups[k].count
    BY <1>0, <1>6 DEF AcknowledgeGroup, EventGroups
  <2>2. Counts(groups') = Counts(groups)
    BY <2>1 DEF Counts
  <2>3. stats'.correlated = retired' + Events(groups')
    BY <1>0, <1>6, <2>2 DEF AcknowledgeGroup, Events
  <2> QED BY <1>0, <1>2, <2>1, <2>3
<1>7. CASE CleanupExpiredGroups
  <2>1. Expired \in SUBSET K
    BY DEF Expired
  <2>2. /\ groups' = Restrict(groups, K \ Expired)
        /\ retired' = retired + SumFunction([g \in Expired |-> groups[g].count])
        /\ stats'.correlated = stats.correlated
    BY <1>7 DEF CleanupExpiredGroups
  <2>3. /\ Events(groups) = SumFunction([g \in Expired |-> groups[g].count])
                              + Events(Restrict(groups, K \ Expired))
        /\ SumFunction([g \in Expired |-> groups[g].count]) \in Nat
        /\ Events(Restrict(groups, K \ Expired)) \in Nat
    BY <1>0, <2>1, EventsSplit
  <2>4. stats'.correlated = retired' + Events(groups')
    BY <1>0, <2>2, <2>3
  <2>5. IsFiniteSet(DOMAIN groups')
    BY <1>0, <2>2, FS_Subset DEF Restrict
  <2> QED BY <1>2, <2>4, <2>5
<1> QED BY <1>1, <1>3, <1>4, <1>5, <1>6, <1>7
        DEF Next, ProcessEvent, Tick, PassRule, MatchRule, SetSeverity, SetStatus,
            Track, AddRule, RemoveRule, vars

-----------------------------------------------------------------------------
(* The theorems *)

\* The initial state satisfies the invariant.
LEMMA InitHolds == Init => IInv
<1> SUFFICES ASSUME Init PROVE IInv
  OBVIOUS
<1>1. Typed
  <2>1. recent \in [{} -> RecentEvents] /\ groups \in [{} -> EventGroups]
    BY DEF Init
  <2>2. \A h \in Hashes : arrived[h] = -1
    BY DEF Init
  <2>3. arrived \in [Hashes -> Nat \cup {-1}] /\ rules \in SUBSET RuleIds
    BY CorrelatorAssumption DEF Init
  <2>4. stats \in [processed: Nat, deduplicated: Nat, correlated: Nat,
                   suppressed: Nat]
    BY DEF Init
  <2> QED BY <2>1, <2>3, <2>4 DEF Init, Typed, TypeOK, ActionsHaveRule, SeverityMapped
<1>2. EntriesExact /\ NoneForgotten /\ CorrelationAhead
  BY CorrelatorAssumption DEF Init, EntriesExact, NoneForgotten, CorrelationAhead
<1>3. GroupsFinite
  BY FS_EmptySet DEF Init, GroupsFinite
<1>4. EveryEventInOneGroup
  <2> DEFINE f == [g \in DOMAIN groups |-> groups[g].count]
  <2>1. DOMAIN f = {} /\ stats.correlated = 0 /\ retired = 0
    BY DEF Init
  <2>2. SumFunctionOnSet(f, {}) = 0
    BY SumDef, FS_EmptySet
  <2>3. SumFunction(f) = 0
    BY <2>1, <2>2 DEF SumFunction
  <2> QED BY <2>1, <2>3 DEF EveryEventInOneGroup
<1> QED BY <1>1, <1>2, <1>3, <1>4 DEF IInv

\* Every step keeps the invariant.
LEMMA InvStep == IInv /\ [Next]_vars => IInv'
<1> SUFFICES ASSUME IInv, [Next]_vars PROVE IInv'
  OBVIOUS
<1>1. Typed'
  BY TypeStep DEF IInv
<1>2. EntriesExact' /\ NoneForgotten'
  BY EntriesStep DEF IInv, Typed
<1>3. CorrelationAhead'
  BY CorrelationStep DEF IInv
<1>4. GroupsFinite' /\ EveryEventInOneGroup'
  BY GroupsStep DEF IInv
<1> QED BY <1>1, <1>2, <1>3, <1>4 DEF IInv

\* The inductive invariant holds throughout.
THEOREM CorrelatorInvariant == Spec => []IInv
BY InitHolds, InvStep, PTL DEF Spec

\* The types hold, and every event that was correlated is counted in one group
\* until its group is cleaned up, whatever rules, groups and windows there are.
THEOREM GroupsAreAccounted == Spec => []GroupsAccounted
<1>1. IInv => GroupsAccounted
  BY DEF IInv, Typed, GroupsAccounted
<1> QED BY <1>1, CorrelatorInvariant, PTL

\* An event is a duplicate exactly when one with its hash arrived within the
\* window: no cleanup and no late entry changes that.
THEOREM DeduplicationIsExact == Spec => []DedupExact
<1>1. IInv => DedupExact
  <2> SUFFICES ASSUME IInv, EnableDedup, cur = Free, NEW h \in Hashes
               PROVE  IsDuplicate(h) <=> arrived[h] >= 0 /\ now - arrived[h] <= DedupWindow
    BY DEF DedupExact
  <2>1. recent \in [DOMAIN recent -> RecentEvents] /\ now \in Nat
    BY TypeFacts DEF IInv, Typed
  <2>2. h \in DOMAIN recent => recent[h].lastSeen = arrived[h] /\ arrived[h] \in Nat
    BY <2>1 DEF IInv, EntriesExact, RecentEvents
  <2> QED BY <2>1, <2>2 DEF IInv, IsDuplicate, WithinWindow, NoneForgotten
<1> QED BY <1>1, CorrelatorInvariant, PTL

\* An event that passes has a severity, and the correlation id of a rule that
\* correlates its trap, in whatever order the map of rules was walked.
THEOREM EventsAreClassified == Spec => PassedIsClassified
<1> DEFINE Classified ==
      /\ cur.data.severity # Unset
      /\ EnableCorrelation =>
           \A r \in rules : Correlates(r) /\ cur.event[2] \in RuleDef[r].traps =>
             cur.data.correlation # {}
<1>1. IInv /\ [Next]_vars => (cur # Free /\ cur' = Free => Classified)
  <2> SUFFICES ASSUME IInv, [Next]_vars, cur # Free, cur' = Free PROVE Classified
    OBVIOUS
  <2>0. cur # Free /\ cur' = Free
    OBVIOUS
  <2>1. cur.data.severity # Unset
    BY CorrelatorAssumption DEF IInv, Typed, SeverityMapped
  <2>2. Track
    <3>1. "event" \in DOMAIN cur
      BY HeldFacts DEF IInv, Typed, Held
    <3>2. DOMAIN cur' # DOMAIN cur
      BY <2>0, <3>1 DEF Free
    <3> QED BY <2>0, <3>2 DEF Next, ProcessEvent, Tick, Deduplicate, Accept, PassRule,
               MatchRule, SetSeverity, SetStatus, Suppress, Correlate, AddRule,
               RemoveRule, AcknowledgeGroup, CleanupExpiredGroups, vars
  <2>3. cur.todo = {} /\ cur.actions = <<>>
    BY <2>2 DEF Track, BetweenRules, RulesDone
  <2> QED BY <2>1, <2>3 DEF IInv, CorrelationAhead
<1>2. IInv /\ [Next]_vars => [cur # Free /\ cur' = Free => Classified]_vars
  BY <1>1
<1> QED BY <1>2, CorrelatorInvariant, PTL DEF Spec, PassedIsClassified

=============================================================================
