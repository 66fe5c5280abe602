----------------------------- MODULE MibManager -----------------------------
(***************************************************************************)
(* The MIB manager (internal/mib/parser.go): it loads and parses the files *)
(* of the MIB directories, follows their changes, and resolves OIDs against*)
(* the tree of nodes through a bounded cache whose entries expire.  Every  *)
(* operation runs under one lock, so each is one step.  The name cache can *)
(* only be filled by ResolveNameDetailed, which waits for the lock it holds*)
(* before it gets there, so it stays empty and is left out.                *)
(***************************************************************************)
EXTENDS Integers, Sequences, FiniteSets

CONSTANTS Files,        \* paths below the MIB directories
          Watched,      \* those that lie in a MIB directory, not in a subdirectory
          Sizes,        \* contents that exceed MaxFileSize
          Nameless,     \* contents without a MIB name: parseMIBFile fails
          Versions,     \* contents that parse
          Objects,      \* names of the objects that each version defines
          Required,     \* files behind RequiredMIBs
          Oids,         \* OIDs that are looked up, as sequences of arcs
          CacheSize,    \* config.CacheSize
          CacheExpiry,  \* config.CacheExpiry
          MaxTime,      \* bound: clock
          MaxLookups,   \* bound: ResolveOIDDetailed calls
          MaxWrites     \* bound: changes of the files

Contents == Sizes \cup Nameless \cup Versions
NoFile == "none"

ASSUME MibAssumption ==
  /\ Watched \subseteq Files /\ Required \subseteq Files
  /\ Versions \subseteq DOMAIN Objects
  /\ CacheSize \in Nat \ {0} /\ CacheExpiry \in Nat
  /\ MaxTime \in Nat /\ MaxLookups \in Nat /\ MaxWrites \in Nat
  /\ NoFile \notin Contents
  /\ Oids \subseteq Seq(Nat)

\* createRootNode.  parseObjectDefinition never adds a node to this tree:
\* addToTree has no caller.
Tree == {<<1>>, <<1, 3>>, <<1, 3, 6>>, <<1, 3, 6, 1>>, <<1, 3, 6, 1, 2>>,
         <<1, 3, 6, 1, 2, 1>>, <<1, 3, 6, 1, 4>>, <<1, 3, 6, 1, 4, 1>>}

VARIABLES
  disk,      \* content of each file
  files,     \* m.files: the content last loaded of each file
  parsedOK,  \* file.ParsedOK
  mibs,      \* m.mibs: the content last parsed of each file's MIB
  nodes,     \* m.nodes: names of the objects parsed
  phase,     \* "new", "loaded" (LoadAll is over), "failed" (it failed),
             \* "watching" (StartHotReload is over), "stopped"
  events,    \* watcher.Events: paths written, oldest first
  changing,  \* the path the watcher goroutine sleeps 100ms for
  cache,     \* m.oidCache: OID to entry
  now,       \* the clock
  mibStats,  \* MIBStats: the lookup counters
  stuck,     \* a goroutine waits for m.mu, which it holds
  missed,    \* history: files changed unseen after LoadAll read them
  writes     \* changes of files so far

loadVars  == <<files, parsedOK, mibs, nodes>>
watchVars == <<phase, events, changing>>
diskVars  == <<disk, missed, writes>>
mibVars == <<disk, files, parsedOK, mibs, nodes, phase, events, changing, cache,
             now, mibStats, stuck, missed, writes>>

Entry == [node: Tree, stamp: 0..MaxTime, hits: Nat]
Counters == {"lookups", "hits", "misses", "exact", "partial"}

MibTypeOK ==
  /\ disk \in [Files -> Contents]
  /\ files \in [Files -> Contents \cup {NoFile}]
  /\ parsedOK \in [Files -> BOOLEAN]
  /\ mibs \in [Files -> Versions \cup {NoFile}]
  /\ nodes \subseteq UNION {Objects[v] : v \in Versions}
  /\ phase \in {"new", "loaded", "failed", "watching", "stopped"}
  /\ events \in Seq(Files)
  /\ changing \in Files \cup {NoFile}
  /\ DOMAIN cache \subseteq Oids
  /\ \A o \in DOMAIN cache : cache[o] \in Entry
  /\ now \in 0..MaxTime
  /\ mibStats \in [Counters -> Nat]
  /\ stuck \in BOOLEAN
  /\ missed \in SUBSET Files
  /\ writes \in 0..MaxWrites

MibInit ==
  /\ disk \in [Files -> Contents]
  /\ files = [f \in Files |-> NoFile]
  /\ parsedOK = [f \in Files |-> FALSE]
  /\ mibs = [f \in Files |-> NoFile] /\ nodes = {}
  /\ phase = "new" /\ events = <<>> /\ changing = NoFile
  /\ cache = <<>> /\ now = 0
  /\ mibStats = [c \in Counters |-> 0]
  /\ stuck = FALSE /\ missed = {} /\ writes = 0

-----------------------------------------------------------------------------
(* Loading and following files *)

\* loadFile and parseMIBFile: a file beyond MaxFileSize is not loaded, one
\* without a MIB name is loaded and leaves the MIB parsed before in place.
Loadable == {f \in Files : disk[f] \notin Sizes}

\* parseObjects: no object makes it fail.
ParsedObjects(fs) ==
  UNION {Objects[disk[f]] : f \in {g \in fs : disk[g] \in Versions}}

Load(fs) ==
  /\ files' = [f \in Files |-> IF f \in fs THEN disk[f] ELSE files[f]]
  /\ parsedOK' = [f \in Files |-> IF f \in fs THEN disk[f] \in Versions
                                             ELSE parsedOK[f]]
  /\ mibs' = [f \in Files |-> IF f \in fs /\ disk[f] \in Versions
                              THEN disk[f] ELSE mibs[f]]
  /\ nodes' = nodes \cup ParsedObjects(fs)

\* mibInfo.Objects: parseObjectDefinition adds its node to m.nodes instead.
ObjectsOf(mib) == {}

\* buildCrossReferences: the names that nameToOID has.
nameToOID == UNION {ObjectsOf(mibs[f]) : f \in Files}

LoadAll ==
  /\ phase = "new"
  /\ Load(Loadable)
  /\ phase' = IF \A f \in Required : parsedOK'[f] THEN "loaded" ELSE "failed"
  /\ UNCHANGED <<disk, events, changing, cache, now, mibStats, stuck, missed, writes>>

StartHotReload ==
  /\ phase = "loaded" /\ phase' = "watching"
  /\ UNCHANGED <<diskVars, loadVars, events, changing, cache, now, mibStats, stuck>>

StopHotReload ==
  /\ phase = "watching" /\ phase' = "stopped"
  /\ events' = <<>>
  /\ UNCHANGED <<diskVars, loadVars, changing, cache, now, mibStats, stuck>>

\* The watcher is given the MIB directories, which does not include what is in
\* their subdirectories.
Told(f) == phase = "watching" /\ f \in Watched

\* A file is written; the kernel tells the watcher, if there is one for it.
WriteFile(f, c) ==
  /\ writes < MaxWrites /\ disk[f] # c
  /\ disk' = [disk EXCEPT ![f] = c]
  /\ writes' = writes + 1
  /\ events' = IF Told(f) THEN Append(events, f) ELSE events
  /\ missed' = IF phase \in {"loaded", "watching"} /\ ~Told(f) THEN missed \cup {f}
                                                              ELSE missed
  /\ UNCHANGED <<loadVars, phase, changing, cache, now, mibStats, stuck>>

\* Faulty variant: the events that came in meanwhile are drained as well.
AllSeen == <<>>
AfterSeen == Tail(events)

\* watchFiles receives an event and sleeps for 100ms.
SeeEvent ==
  /\ phase = "watching" /\ changing = NoFile /\ events # <<>>
  /\ changing' = Head(events)
  /\ events' = AfterSeen
  /\ UNCHANGED <<diskVars, loadVars, phase, cache, now, mibStats, stuck>>

\* Faulty variant: the cache is kept.
CacheKept == cache
CacheCleared == <<>>

\* A file that cannot be loaded ends the change early.
HandleFileChange ==
  /\ changing # NoFile /\ ~stuck
  /\ Load({changing} \cap Loadable)
  /\ cache' = IF changing \in Loadable THEN CacheCleared ELSE cache
  /\ changing' = NoFile
  /\ UNCHANGED <<diskVars, phase, events, now, mibStats, stuck>>

ClearCache ==
  /\ ~stuck /\ cache # <<>>
  /\ cache' = <<>>
  /\ UNCHANGED <<diskVars, loadVars, watchVars, now, mibStats, stuck>>

-----------------------------------------------------------------------------
(* The cache *)

\* Faulty variant: the most used entries go first.
MostHits(c) == {o \in DOMAIN c : \A p \in DOMAIN c : c[o].hits >= c[p].hits}
FewestHits(c) == {o \in DOMAIN c : \A p \in DOMAIN c : c[o].hits <= c[p].hits}

Without(c, s) == [o \in DOMAIN c \ s |-> c[o]]

Unexpired(c) == Without(c, {o \in DOMAIN c : now - c[o].stamp > CacheExpiry})

\* What cleanupCache may leave: the expired entries go, and as long as the
\* cache is full, entries with the fewest hits, in the order of the map.
CleanedUp(c) ==
  LET u == Unexpired(c)
      surplus == Cardinality(DOMAIN u) - CacheSize + 1
  IN IF surplus <= 0 THEN {u}
     ELSE {Without(u, s) : s \in
            {t \in SUBSET FewestHits(u) :
               Cardinality(t) = IF Cardinality(FewestHits(u)) < surplus
                                THEN Cardinality(FewestHits(u)) ELSE surplus}}

\* Faulty variant: the cache is cleaned only once it is over its size.
MakesRoomLate(c) == IF Cardinality(DOMAIN c) > CacheSize THEN CleanedUp(c) ELSE {c}
MakesRoom(c) == IF Cardinality(DOMAIN c) >= CacheSize THEN CleanedUp(c) ELSE {c}

CacheResult(o, n) ==
  \E c \in MakesRoom(cache) :
    cache' = [p \in DOMAIN c \cup {o} |->
                IF p = o THEN [node |-> n, stamp |-> now, hits |-> 0] ELSE c[p]]

-----------------------------------------------------------------------------
(* Resolving *)

Ancestors(o) == {SubSeq(o, 1, i) : i \in 1..Len(o)}

\* The exact node, or the first one found as the OID is shortened from the end.
Closest(o) == CHOOSE p \in Ancestors(o) \cap Tree :
                \A q \in Ancestors(o) \cap Tree : Len(q) <= Len(p)

Fresh(o) == o \in DOMAIN cache /\ now - cache[o].stamp < CacheExpiry

HitCounters == {"lookups", "hits"}

Counted(cs) == [c \in Counters |-> mibStats[c] + (IF c \in cs THEN 1 ELSE 0)]

ResolveHit(o) ==
  /\ Fresh(o)
  /\ mibStats' = Counted(HitCounters)
  /\ cache' = [cache EXCEPT ![o].hits = @ + 1]

ResolveMiss(o) ==
  /\ ~Fresh(o)
  /\ IF Ancestors(o) \cap Tree = {}
     THEN mibStats' = Counted({"lookups", "misses"}) /\ UNCHANGED cache
     ELSE /\ mibStats' = Counted({"lookups", "misses",
                               IF o \in Tree THEN "exact" ELSE "partial"})
          /\ CacheResult(o, Closest(o))

ResolveOIDDetailed(o) ==
  /\ ~stuck /\ mibStats["lookups"] < MaxLookups
  /\ ResolveHit(o) \/ ResolveMiss(o)
  /\ UNCHANGED <<diskVars, loadVars, watchVars, now, stuck>>

\* The cache has no entry for the name, and ResolveName asks for the lock that
\* ResolveNameDetailed holds.
ResolveNameDetailed ==
  /\ phase \in {"loaded", "watching", "stopped"}
  /\ ~stuck /\ stuck' = TRUE
  /\ UNCHANGED <<diskVars, loadVars, watchVars, cache, now, mibStats>>

TimePasses ==
  /\ now < MaxTime /\ now' = now + 1
  /\ UNCHANGED <<diskVars, loadVars, watchVars, cache, mibStats, stuck>>

-----------------------------------------------------------------------------
MibNext ==
  \/ LoadAll \/ StartHotReload \/ StopHotReload \/ SeeEvent \/ HandleFileChange
  \/ ClearCache \/ ResolveNameDetailed \/ TimePasses
  \/ \E f \in Files, c \in Contents : WriteFile(f, c)
  \/ phase \in {"loaded", "watching", "stopped"}
       /\ \E o \in Oids : ResolveOIDDetailed(o)

\* Initialisation runs on, and the watcher goroutine is scheduled.
MibFairness == WF_mibVars(LoadAll) /\ WF_mibVars(StartHotReload)
              /\ WF_mibVars(SeeEvent) /\ WF_mibVars(HandleFileChange)

MibSpec == MibInit /\ [][MibNext]_mibVars /\ MibFairness

-----------------------------------------------------------------------------
(* Properties *)

\* However lookups, expiry, reloads and evictions interleave, the cache never
\* outgrows its size.
CacheBounded == Cardinality(DOMAIN cache) <= CacheSize

\* An answer from the cache names the closest known node above the OID.
CachedIsClosest ==
  \A o \in DOMAIN cache :
    \A p \in Tree : (\E i \in 1..Len(o) : p = SubSeq(o, 1, i)) =>
      Len(p) <= Len(cache[o].node)

\* Each lookup is counted once, as a hit or as a miss, and a match only where
\* the cache had no answer.
LookupsCounted ==
  /\ mibStats["lookups"] = mibStats["hits"] + mibStats["misses"]
  /\ mibStats["exact"] + mibStats["partial"] <= mibStats["misses"]

\* However lookups, expiry, reloads and evictions interleave, the cache is
\* bounded and right, and the counters tell what it answered.
CacheSound == MibTypeOK /\ CacheBounded /\ CachedIsClosest /\ LookupsCounted

\* Time passes between a lookup and its repetition: the second one is served
\* from the cache only if the entry is younger than CacheExpiry.
ExpiredNotServed ==
  [][\A o \in DOMAIN cache :
       (o \in DOMAIN cache' /\ cache'[o].hits > cache[o].hits) =>
         now - cache[o].stamp < CacheExpiry]_mibVars

\* An entry is evicted before its time only if no entry that stays was used
\* less often.
PopularStay ==
  [][phase' = phase /\ cache' # <<>> =>
       \A o \in DOMAIN Unexpired(cache) \ DOMAIN cache',
          p \in DOMAIN cache \cap DOMAIN cache' :
         cache[p] = cache'[p] => cache[o].hits <= cache[p].hits]_mibVars

\* A reload of a file leaves no answer in the cache that was given before.
ReloadForgets ==
  [][files' # files /\ phase = "watching" => cache' = <<>>]_mibVars

\* No answer from the cache is older than its time or than the last reload, and
\* the answers that are asked for most stay.
AnswersCurrent == ExpiredNotServed /\ ReloadForgets /\ PopularStay

\* The last change of a file that is watched is loaded in the end, whatever
\* was written in the 100ms before it was read; nothing is said of files that
\* were changed unseen.
ChangeIsLoaded ==
  \A f \in Files, c \in Nameless \cup Versions :
    (phase = "watching" /\ disk[f] = c /\ f \notin missed)
      ~> (files[f] = c \/ disk[f] # c \/ phase = "stopped" \/ stuck)

\* "Hot reload monitors directories for changes" (docs/configuration.md:68):
\* what was changed before the watch began is loaded as well.
NoChangeMissed ==
  \A f \in Files, c \in Versions :
    (phase = "watching" /\ disk[f] = c)
      ~> (files[f] = c \/ disk[f] # c \/ phase = "stopped" \/ stuck)

\* "OID lookup and name resolution using loaded MIBs" (docs/architecture.md:195):
\* the name of an object in a MIB that was parsed can be looked up.
ObjectsResolve == nodes \subseteq nameToOID

\* "ResolveNameDetailed resolves a symbolic name to detailed information with
\* caching" (parser.go:1022): a lookup by name returns.
NameLookupReturns == ~stuck
=============================================================================
