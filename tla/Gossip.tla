------------------------------- MODULE Gossip -------------------------------
(***************************************************************************)
(* What the node learns about the network: the task that applies rapid     *)
(* gossip sync (RGS) snapshots to the network graph (gossip.rs, lib.rs),   *)
(* the cache file the background processor's graph goes to together with   *)
(* the timestamp of the last snapshot (io/local_graph_store.rs), how both  *)
(* are loaded (builder.rs), and the task that merges external scores into  *)
(* the scorer (scoring.rs).                                                *)
(*                                                                         *)
(* A delta of the network is the number of the snapshot that brings it:    *)
(* asked from t, the server answers with the deltas after t.  Scores are   *)
(* the number of the snapshot they were published with.                    *)
(***************************************************************************)
EXTENDS EventLoop

CONSTANT NoGraph   \* no cache file; no graph in the KV store

VARIABLES
    server,        \* the newest snapshot of the server
    source,        \* the configured gossip source
    graph,         \* the deltas in the NetworkGraph
    rgsTimestamp,  \* local_rgs_timestamp
    query,         \* what update_rgs_snapshot and its caller do next
    encoded,       \* the background processor's write of the graph
    cache,         \* the cache file
    legacy,        \* the graph an earlier version left in the KV store
    scores,        \* the external scores in the scorer
    scoreSync,     \* what sync_external_scores does next
    scoreCache,    \* the persisted external scores
    metricsMem,    \* the RGS and scores timestamps of NodeMetrics, 0 for None
    metricsDisk,
    raced,         \* history: a graph was written with a timestamp newer than it
    migrated,      \* history: the KV store's graph was loaded with one
    scoresLost     \* history: scores could not be persisted

graphVars == <<server, source, graph, rgsTimestamp, query, encoded, cache, legacy, raced, migrated>>
scoreVars == <<scores, scoreSync, scoreCache, scoresLost>>
metrics == <<metricsMem, metricsDisk>>
gossipVars == <<graphVars, scoreVars, metrics>>

Rest == [step |-> "idle", to |-> 0]
NotEncoded == [step |-> "idle", graph |-> {}, timestamp |-> 0]

\* An earlier version left nothing, or a graph with its timestamp in the metrics.
GossipInit ==
    /\ legacy \in IF left["polls"] = 0 THEN {NoGraph} ELSE {NoGraph, 1}
    /\ server = IF legacy = NoGraph THEN 0 ELSE legacy
    /\ source = "rgs"
    /\ graph = 1..server /\ rgsTimestamp = server
    /\ query = Rest /\ encoded = NotEncoded /\ cache = NoGraph
    /\ scores = 0 /\ scoreSync = Rest /\ scoreCache = 0
    /\ metricsMem = [rgs |-> server, scores |-> 0] /\ metricsDisk = metricsMem
    /\ raced = FALSE /\ migrated = FALSE /\ scoresLost = FALSE

Publish ==
    /\ Spend("snapshots")
    /\ server' = server + 1
    /\ UNCHANGED <<loop, source, graph, rgsTimestamp, query, encoded, cache, legacy, raced,
                   migrated, scoreVars, metrics>>
-----------------------------------------------------------------------------
(* The RGS task.                                                           *)

RgsAsk ==
    /\ Spend("polls")
    /\ source = "rgs" /\ query = Rest
    /\ query' = [step |-> "asked", to |-> rgsTimestamp]
    /\ UNCHANGED <<loop, server, source, graph, rgsTimestamp, encoded, cache, legacy, raced,
                   migrated, scoreVars, metrics>>

\* A query that fails, or times out, changes nothing; an update that fails may have
\* changed some of the graph.
RgsReply ==
    /\ query.step = "asked"
    /\ LET deltas == query.to + 1 .. server
       IN  \/ graph' = graph \cup deltas /\ query' = [step |-> "applied", to |-> server]
           \/ query' = Rest /\ \E some \in SUBSET deltas : graph' = graph \cup some
    /\ UNCHANGED <<loop, left, server, source, rgsTimestamp, encoded, cache, legacy, raced,
                   migrated, scoreVars, metrics>>

RgsStoreTimestamp ==
    /\ query.step = "applied"
    /\ rgsTimestamp' = query.to
    /\ query' = [query EXCEPT !.step = "metrics"]
    /\ UNCHANGED <<loop, left, server, source, graph, encoded, cache, legacy, raced, migrated,
                   scoreVars, metrics>>

\* Under the lock of the metrics: a failing write is logged.
WriteMetrics(m) ==
    /\ metricsMem' = m
    /\ \/ metricsDisk' = m /\ UNCHANGED left
       \/ Spend("fails") /\ UNCHANGED metricsDisk

\* The metrics follow the recovery of peers (PeerStore), where the task may be cancelled.
RgsMetrics ==
    /\ query.step = "metrics"
    /\ \/ WriteMetrics([metricsMem EXCEPT !.rgs = query.to])
       \/ UNCHANGED <<metrics, left>>
    /\ query' = Rest
    /\ UNCHANGED <<loop, server, source, graph, rgsTimestamp, encoded, cache, legacy, raced,
                   migrated, scoreVars>>
-----------------------------------------------------------------------------
(* LocalGraphStore, called by LDK's background processor.                  *)

\* LDK (external) encodes the graph and calls write with the bytes.
EncodeGraph ==
    /\ Spend("persists")
    /\ encoded = NotEncoded
    /\ encoded' = [step |-> "bytes", graph |-> graph, timestamp |-> 0]
    /\ UNCHANGED <<loop, server, source, graph, rgsTimestamp, query, cache, legacy, raced,
                   migrated, scoreVars, metrics>>

\* write: the timestamp is the one by now.
LoadTimestamp ==
    /\ encoded.step = "bytes"
    /\ encoded' = [encoded EXCEPT !.step = "write", !.timestamp = rgsTimestamp]
    /\ raced' = (raced \/ ~(1..rgsTimestamp \subseteq encoded.graph))
    /\ UNCHANGED <<loop, left, server, source, graph, rgsTimestamp, query, cache, legacy,
                   migrated, scoreVars, metrics>>

\* The file is written in place.
WriteCache ==
    /\ encoded.step = "write"
    /\ \/ cache' = encoded /\ UNCHANGED left
       \/ Spend("fails") /\ cache' \in {cache, [encoded EXCEPT !.step = "torn"]}
    /\ encoded' = NotEncoded
    /\ UNCHANGED <<loop, server, source, graph, rgsTimestamp, query, legacy, raced, migrated,
                   scoreVars, metrics>>
-----------------------------------------------------------------------------
(* External scores.                                                        *)

ScoresAsk ==
    /\ Spend("scorePolls")
    /\ scoreSync = Rest
    /\ scoreSync' = [step |-> "asked", to |-> 0]
    /\ UNCHANGED <<loop, graphVars, scores, scoreCache, scoresLost, metrics>>

ScoresReply ==
    /\ scoreSync.step = "asked"
    /\ \/ scoreSync' = [step |-> "cache", to |-> server]
       \/ scoreSync' = Rest
    /\ UNCHANGED <<loop, left, graphVars, scores, scoreCache, scoresLost, metrics>>

\* An error is logged; the task may be cancelled while it waits.
write_external_pathfinding_scores_to_cache ==
    /\ scoreSync.step = "cache"
    /\ \/ /\ scoreCache' = scoreSync.to
          /\ scoreSync' \in {Rest, [scoreSync EXCEPT !.step = "merge"]}
          /\ UNCHANGED <<left, scoresLost>>
       \/ /\ Spend("fails") /\ scoresLost' = TRUE
          /\ scoreSync' = [scoreSync EXCEPT !.step = "merge"]
          /\ UNCHANGED scoreCache
    /\ UNCHANGED <<loop, graphVars, scores, metrics>>

MergeScores ==
    /\ scoreSync.step = "merge"
    /\ scores' = scoreSync.to
    /\ WriteMetrics([metricsMem EXCEPT !.scores = scoreSync.to])
    /\ scoreSync' = Rest
    /\ UNCHANGED <<loop, graphVars, scoreCache, scoresLost>>
-----------------------------------------------------------------------------
(* Building the node.                                                      *)

EmptyGraph == [graph |-> {}, timestamp |-> 0]
FromStore == [graph |-> 1..legacy, timestamp |-> metricsDisk.rgs]
FromCache(file) == [graph |-> file.graph, timestamp |-> file.timestamp]

\* Mutant: for an invalid cache the timestamp comes from the metrics.
LoadedWithMetrics(file) ==
    IF file # NoGraph /\ file.step = "write" THEN FromCache(file)
    ELSE IF file # NoGraph THEN [EmptyGraph EXCEPT !.timestamp = metricsDisk.rgs]
    ELSE IF legacy # NoGraph THEN FromStore ELSE EmptyGraph

\* The cache; without one the KV store's graph, with the timestamp of the metrics;
\* for an invalid one an empty graph.
Loaded(file) ==
    IF file # NoGraph /\ file.step = "write" THEN FromCache(file)
    ELSE IF file = NoGraph /\ legacy # NoGraph THEN FromStore
    ELSE EmptyGraph

\* With the P2P source the timestamp of the metrics is reset.
MetricsFor(newSource) ==
    IF newSource = "p2p" THEN [metricsDisk EXCEPT !.rgs = 0] ELSE metricsDisk

\* The node dies, which can tear the file, and is built again, with either source.
GossipCrash ==
    /\ cache' \in {cache} \cup IF encoded.step = "write"
                               THEN {[encoded EXCEPT !.step = "torn"]} ELSE {}
    /\ LET loaded == Loaded(cache')
       IN  /\ graph' = loaded.graph /\ rgsTimestamp' = loaded.timestamp
    /\ migrated' = (migrated \/ (cache' = NoGraph /\ legacy # NoGraph /\ metricsDisk.rgs > legacy))
    /\ source' \in IF server = 0 THEN {source} ELSE {"rgs", "p2p"}
    /\ metricsDisk' = MetricsFor(source')
    /\ metricsMem' = metricsDisk'
    /\ scores' = scoreCache
    /\ query' = Rest /\ encoded' = NotEncoded /\ scoreSync' = Rest
    /\ UNCHANGED <<server, legacy, raced, scoreCache, scoresLost>>

GossipStep ==
    \/ Publish \/ RgsAsk \/ RgsReply \/ RgsStoreTimestamp \/ RgsMetrics
    \/ EncodeGraph \/ LoadTimestamp \/ WriteCache
    \/ ScoresAsk \/ ScoresReply \/ write_external_pathfinding_scores_to_cache \/ MergeScores
-----------------------------------------------------------------------------
\* No update of the network is skipped: the graph has every delta up to the timestamp the
\* next query asks from (builder.rs 2049, gossip.rs 89), through failing updates, a torn
\* cache, a crash at any step and changes of the gossip source; unless the graph was
\* encoded before an update and written with the timestamp after it (local_graph_store.rs
\* 239), or a graph in the KV store was loaded after the metrics had moved on (builder.rs
\* 2024).  And the scorer has the scores the node says it has, unless they could not be
\* persisted (scoring.rs 88).
GraphHasItsTimestamp ==
    /\ raced \/ migrated \/ 1..rgsTimestamp \subseteq graph
    /\ scoresLost \/ scores >= metricsMem.scores
=============================================================================
