------------------------------- MODULE NodeCache -------------------------------
(***************************************************************************)
(* The node cache file, as several processes of one application read and   *)
(* replace it: load_cache and save_cache (native/src/UpdateKit.cpp) under  *)
(* check_for_update, resolve_nodes and the end of download_and_verify, or  *)
(* LoadAsync and SaveAsync (UpdateNodeCache.cs).  All of them write the    *)
(* same temporary file.  A process may be killed at any step.  What the    *)
(* contents mean for a download is in NodeResolution.                      *)
(***************************************************************************)
EXTENDS NodeResolution

CONSTANTS
  Processes,
  Manifests,            \* the nodes that update.json may list
  HostLists,            \* those of a Release that the host has filled in itself
  NoSuccess,            \* no last success
  Absent, Empty, Torn,  \* files that hold no cache: none, of no length, of two writers
  MaxOperations

\* What holds no cache is told apart from the rest and from every cache.
ASSUME CacheAssumption ==
  /\ Manifests \subseteq Seq(Nodes) /\ HostLists \subseteq Seq(Nodes)
  /\ Absent # Empty /\ Absent # Torn /\ Empty # Torn
  /\ \A file \in {Absent, Empty, Torn} : file \notin [nodes : Seq(Nodes), last : Ids \cup {NoSuccess}]
  /\ NoSuccess \notin Processes
  /\ MaxOperations \in Nat

VARIABLES
  client,   \* "native" or "managed"
  path, tmp,
  at,       \* per process: the step it is at
  mine,     \* per process: the cache it writes
  left,     \* operations that may still begin
  latest,   \* history: the node verified last
  solo,     \* history: the process of the last save, if nothing overlapped it or died since
  overlapped, crashed \* history: whether two operations ever overlapped, one was killed

cacheVars == <<client, path, tmp, at, mine, left, latest, solo, overlapped, crashed>>
History == <<latest, solo, overlapped, crashed>>

Releases == {Parsed(client, m) : m \in {m \in Manifests : AcceptsNodes(client, m)}} \cup HostLists
IsCache(c) == c \notin {Absent, Empty, Torn}
NoCache == [nodes |-> <<>>, last |-> NoSuccess]
Idle == \A p \in Processes : at[p] = "idle"

\* Opened without sharing deletion: nobody else can replace or remove the file.
ReadStep == [check |-> "read check", download |-> "read download", resolve |-> "read resolve"]
Reading(p) == \E job \in DOMAIN ReadStep : at[p] = ReadStep[job]
Writing(p) == at[p] = "write"
Rivals(p) == Processes \ {p}

Proceeds(p, step) == at' = [at EXCEPT ![p] = step]

-----------------------------------------------------------------------------
CacheInit ==
  /\ client \in Clients
  /\ path = Absent /\ tmp = Absent
  /\ at = [p \in Processes |-> "idle"] /\ mine = [p \in Processes |-> NoCache]
  /\ left = MaxOperations
  /\ latest = NoSuccess /\ solo = NoSuccess /\ overlapped = FALSE /\ crashed = FALSE

Begins(p, cache, step) ==
  /\ at[p] = "idle" /\ left > 0
  /\ left' = left - 1
  /\ mine' = [mine EXCEPT ![p] = cache]
  /\ Proceeds(p, step)
  /\ solo' = IF Idle /\ step # "resolve" THEN p ELSE NoSuccess
  /\ overlapped' = (overlapped \/ ~Idle)
  /\ UNCHANGED <<client, path, tmp, crashed>>

\* Mutant: a check writes its nodes without reading the cache first.
ChecksAfresh(p, m) ==
  /\ AcceptsNodes(client, m)
  /\ Begins(p, [nodes |-> Parsed(client, m), last |-> NoSuccess], "open")
  /\ UNCHANGED latest

\* A manifest is accepted: its nodes are saved with the last success that is read now.
Checks(p, m) ==
  /\ AcceptsNodes(client, m)
  /\ Begins(p, [nodes |-> Parsed(client, m), last |-> NoSuccess], "check")
  /\ UNCHANGED latest

\* A download was verified.  The native client saves the nodes of its Release with it.
Downloads(p, release, id) ==
  /\ Begins(p, [nodes |-> release, last |-> id], IF client = "native" THEN "open" ELSE "download")
  /\ latest' = id

\* A download resolves its nodes: the cache is read and nothing written.
Resolves(p) ==
  /\ Begins(p, NoCache, "resolve")
  /\ UNCHANGED latest

\* The cache is opened for reading if there is one.
Loads(p) ==
  /\ at[p] \in DOMAIN ReadStep
  /\ IF path = Absent
     THEN /\ mine' = [mine EXCEPT ![p].nodes = IF at[p] = "download" THEN <<>> ELSE @]
          /\ Proceeds(p, IF at[p] = "resolve" THEN "idle" ELSE "open")
     ELSE Proceeds(p, ReadStep[at[p]]) /\ UNCHANGED mine
  /\ UNCHANGED <<client, path, tmp, left>> /\ UNCHANGED History

\* It is read, parsed and closed; what cannot be parsed counts as no cache.
Reads(p) ==
  /\ Reading(p)
  /\ LET cache == IF IsCache(path) THEN path ELSE NoCache
     IN mine' = [mine EXCEPT ![p] = IF at[p] = "read check" THEN [@ EXCEPT !.last = cache.last]
                                    ELSE [@ EXCEPT !.nodes = cache.nodes]]
  /\ Proceeds(p, IF at[p] = "read resolve" THEN "idle" ELSE "open")
  /\ UNCHANGED <<client, path, tmp, left>> /\ UNCHANGED History

\* Mutant: the file is opened without being truncated.
TruncatesNothing(p) ==
  /\ at[p] = "open"
  /\ IF client = "managed" /\ \E q \in Rivals(p) : Writing(q)
     THEN Proceeds(p, "idle") /\ UNCHANGED tmp
     ELSE Proceeds(p, "write") /\ tmp' = IF tmp = Absent THEN Empty ELSE tmp
  /\ UNCHANGED <<client, path, mine, left>> /\ UNCHANGED History

\* The temporary file is truncated; a managed one is shared with no other writer.
Truncates(p) ==
  /\ at[p] = "open"
  /\ IF client = "managed" /\ \E q \in Rivals(p) : Writing(q)
     THEN Proceeds(p, "idle") /\ UNCHANGED tmp
     ELSE Proceeds(p, "write") /\ tmp' = Empty
  /\ UNCHANGED <<client, path, mine, left>> /\ UNCHANGED History

\* Written from its beginning and closed: over a longer text some of that remains.
Writes(p) ==
  /\ Writing(p)
  /\ tmp' \in {mine[p]} \cup (IF tmp \in {Empty, mine[p]} THEN {} ELSE {Torn})
  /\ Proceeds(p, "move")
  /\ UNCHANGED <<client, path, mine, left>> /\ UNCHANGED History

\* Mutant: MoveFileExW without MOVEFILE_REPLACE_EXISTING.
CanMoveNew(p) == tmp # Absent /\ path = Absent /\ \A q \in Rivals(p) : ~Writing(q) /\ ~Reading(q)

CanMove(p) == tmp # Absent /\ \A q \in Rivals(p) : ~Writing(q) /\ ~Reading(q)

\* It replaces the cache.  Whoever finds it gone or held leaves it at that.
Moves(p) ==
  /\ at[p] = "move"
  /\ IF CanMove(p)
     THEN path' = tmp /\ tmp' = Absent /\ Proceeds(p, "idle")
     ELSE Proceeds(p, IF client = "native" THEN "remove" ELSE "idle") /\ UNCHANGED <<path, tmp>>
  /\ UNCHANGED <<client, mine, left>> /\ UNCHANGED History

Removes(p) ==
  /\ at[p] = "remove"
  /\ tmp' = IF \E q \in Rivals(p) : Writing(q) THEN tmp ELSE Absent
  /\ Proceeds(p, "idle")
  /\ UNCHANGED <<client, path, mine, left>> /\ UNCHANGED History

\* The nodes in the file are older than seven days from now on.
Expires ==
  /\ IsCache(path) /\ path.nodes # <<>>
  /\ path' = [path EXCEPT !.nodes = <<>>]
  /\ solo' = NoSuccess
  /\ UNCHANGED <<client, tmp, at, mine, left, latest, overlapped, crashed>>

Crash(p) ==
  /\ at[p] # "idle"
  /\ Proceeds(p, "idle")
  /\ solo' = NoSuccess /\ crashed' = TRUE
  /\ UNCHANGED <<client, path, tmp, mine, left, latest, overlapped>>

CacheNext ==
  \/ Expires
  \/ \E p \in Processes :
       \/ \E m \in Manifests : Checks(p, m)
       \/ \E release \in Releases, id \in Ids : Downloads(p, release, id)
       \/ Resolves(p) \/ Loads(p) \/ Reads(p) \/ Truncates(p) \/ Writes(p) \/ Moves(p) \/ Removes(p)
       \/ Crash(p)

CacheSpec == CacheInit /\ [][CacheNext]_cacheVars

-----------------------------------------------------------------------------
CacheTypeOK ==
  LET Cache == [nodes : Releases \cup {<<>>}, last : Ids \cup {NoSuccess}]
  IN /\ client \in Clients
     /\ path \in Cache \cup {Absent, Empty, Torn} /\ tmp \in Cache \cup {Absent, Empty, Torn}
     /\ at \in [Processes -> {"idle", "open", "write", "move", "remove"}
                             \cup DOMAIN ReadStep \cup {ReadStep[job] : job \in DOMAIN ReadStep}]
     /\ mine \in [Processes -> Cache]
     /\ left \in 0 .. MaxOperations
     /\ latest \in Ids \cup {NoSuccess} /\ solo \in Processes \cup {NoSuccess}
     /\ overlapped \in BOOLEAN /\ crashed \in BOOLEAN

\* Killing processes alone never leaves a cache that cannot be read, whatever they had
\* of the temporary file; two operations that overlap can, and in the managed client
\* only together with a kill (save_cache and SaveAsync).
Readable == path \in {Empty, Torn} => overlapped /\ (client = "managed" => crashed)

\* An operation that nothing overlaps replaces the cache by what it meant to write,
\* over anything that overlapping or killed ones have left behind.
Published == Idle /\ solo # NoSuccess => path = mine[solo]

\* What a resolution finds in the file.
Found == IF IsCache(path) THEN path ELSE NoCache
Resolving == \E p \in Processes : at[p] = "read resolve"

\* Whatever the Release and the cache hold, disabled, insecure and duplicate nodes
\* included, a download gets an ordered list without doubles and with the official
\* node; and for the Release of a manifest that both frontends accept, and with the
\* same cache, both get the same list, equal priorities included.
OrderedNodes ==
  Resolving =>
    /\ \A ns \in Releases : Ordered(client, Resolved(client, ns, Found), Found)
    /\ \A m \in Manifests :
         AcceptsNodes("native", m) /\ AcceptsNodes("managed", m) =>
           Resolved("native", Parsed("native", m), Found)
             = Resolved("managed", Parsed("managed", m), Found)

\* As long as operations neither overlap nor are killed, the next download begins with
\* the node verified last wherever that is offered, however many checks and expirations
\* come between.
SuccessLeads ==
  Resolving /\ ~overlapped /\ ~crashed /\ latest # NoSuccess =>
    \A ns \in Releases :
      LET r == Resolved(client, ns, Found)
      IN (\E n \in Range(r) : n.id = latest) => r[1].id = latest
=============================================================================
