--------------------------- MODULE BaselineLoader ---------------------------
(***************************************************************************)
(* Loading a venue's baseline build into the edge Redis                    *)
(* (apps/listener/baseline_loader.py), and the recording filter's copy of  *)
(* the prices (ResalePrices in scrapers/listing_filter.py).                *)
(*                                                                         *)
(* A load is a conversation with Redis: the baselines hash, the sticker    *)
(* prices hash and the meta hash are replaced one after the other.  Two    *)
(* listeners that share a resale venue write the same three keys.  The     *)
(* edge Redis keeps nothing over a restart.                                *)
(*                                                                         *)
(* A build is its ID, and a hash is the set of builds its fields are from. *)
(***************************************************************************)
EXTENDS Naturals, FiniteSets

CONSTANTS
    Listeners,        \* listeners with the same resale venue
    MaxBuild,         \* bound: builds the backend comes to have
    Bare,             \* the builds without sticker prices
    MaxFailures,      \* bound: failed requests and commands
    RedisRestarts,    \* bound
    RestartMidway     \* the edge Redis may restart between two commands of a load, or of the filter's refresh

ASSUME LoaderAssumption ==
    /\ IsFiniteSet(Listeners)
    /\ MaxBuild \in Nat \ {0} /\ Bare \subseteq 1..MaxBuild
    /\ MaxFailures \in Nat /\ RedisRestarts \in Nat
    /\ RestartMidway \in BOOLEAN

VARIABLES
    newest,    \* the newest build of the backend, 0 for none
    baselines, stickers, meta,  \* the venue's three keys
    staging,   \* the staging keys, one per load
    pc,        \* each listener's place in its check
    seen,      \* the build it read from the meta hash, 0 for none
    doc,       \* the build it fetched
    loaded,    \* BaselineState.loaded, 0 for None
    reader,    \* ResalePrices: its place, the build ID it read, and what it holds
    failures, restarts

redis == <<baselines, stickers, meta, staging>>
listener == <<pc, seen, doc, loaded>>
bounds == <<failures, restarts>>
vars == <<newest, baselines, stickers, meta, staging, pc, seen, doc, loaded, reader, failures, restarts>>

Builds == 1..MaxBuild
Storing == {"clear", "fill", "rename", "clear_stickers", "fill_stickers", "rename_stickers", "record"}

Init ==
    /\ newest = 0
    /\ baselines = {} /\ stickers = {} /\ meta = 0
    /\ staging = [l \in Listeners |-> {}]
    /\ pc = [l \in Listeners |-> "asleep"]
    /\ seen = [l \in Listeners |-> 0]
    /\ doc = [l \in Listeners |-> 0]
    /\ loaded = [l \in Listeners |-> 0]
    /\ reader = [pc |-> "idle", id |-> 0, new |-> 0, prices |-> {}, read |-> {}, stickers |-> {}]
    /\ failures = 0 /\ restarts = 0

\* The builder saves a build in one transaction.
Publish ==
    /\ newest < MaxBuild
    /\ newest' = newest + 1
    /\ UNCHANGED <<redis, listener, reader, bounds>>

-----------------------------------------------------------------------------
(* One check of one listener.                                              *)

Goto(l, from, to) == pc[l] = from /\ pc' = [pc EXCEPT ![l] = to]

\* Mutant of ReadMeta: the build loaded last is taken from the process, not from Redis.
ReadMetaLocally(l) ==
    /\ Goto(l, "asleep", "fetch")
    /\ seen' = [seen EXCEPT ![l] = loaded[l]]
    /\ UNCHANGED <<newest, redis, doc, loaded, reader, bounds>>

\* read_loaded_build
ReadMeta(l) ==
    /\ Goto(l, "asleep", "fetch")
    /\ seen' = [seen EXCEPT ![l] = meta]
    /\ UNCHANGED <<newest, redis, doc, loaded, reader, bounds>>

\* get_latest_baseline_build: the backend has a build, and it is newer than the one the listener has.
Newer(after) == newest > after

\* fetch_latest_build: 204, the loaded build is the newest.
UpToDate(l) ==
    /\ Goto(l, "fetch", "asleep")
    /\ newest # 0 /\ ~Newer(seen[l])
    /\ loaded' = [loaded EXCEPT ![l] = seen[l]]
    /\ UNCHANGED <<newest, redis, seen, doc, reader, bounds>>

\* fetch_latest_build: a newer build.
Fetch(l) ==
    /\ Goto(l, "fetch", "clear")
    /\ Newer(seen[l])
    /\ doc' = [doc EXCEPT ![l] = newest]
    /\ UNCHANGED <<newest, redis, seen, loaded, reader, bounds>>

\* The load's own staging key.
StagingKey(l) == l

\* _replace_hash deletes the staging key, fills it and renames it over the live one.
ClearStaging(l) ==
    /\ \/ Goto(l, "clear", "fill")
       \/ doc[l] \notin Bare /\ Goto(l, "clear_stickers", "fill_stickers")
    /\ staging' = [staging EXCEPT ![StagingKey(l)] = {}]
    /\ UNCHANGED <<newest, baselines, stickers, meta, seen, doc, loaded, reader, bounds>>

FillStaging(l) ==
    /\ Goto(l, "fill", "rename") \/ Goto(l, "fill_stickers", "rename_stickers")
    /\ staging' = [staging EXCEPT ![StagingKey(l)] = @ \cup {doc[l]}]
    /\ UNCHANGED <<newest, baselines, stickers, meta, seen, doc, loaded, reader, bounds>>

RenameBaselines(l) ==
    /\ Goto(l, "rename", "clear_stickers")
    /\ staging[StagingKey(l)] # {}
    /\ baselines' = staging[StagingKey(l)]
    /\ staging' = [staging EXCEPT ![StagingKey(l)] = {}]
    /\ UNCHANGED <<newest, stickers, meta, seen, doc, loaded, reader, bounds>>

RenameStickers(l) ==
    /\ Goto(l, "rename_stickers", "record")
    /\ staging[StagingKey(l)] # {}
    /\ stickers' = staging[StagingKey(l)]
    /\ staging' = [staging EXCEPT ![StagingKey(l)] = {}]
    /\ UNCHANGED <<newest, baselines, meta, seen, doc, loaded, reader, bounds>>

\* A build without sticker prices deletes the key.
DeleteStickers(l) ==
    /\ Goto(l, "clear_stickers", "record")
    /\ doc[l] \in Bare
    /\ stickers' = {}
    /\ UNCHANGED <<newest, baselines, meta, staging, seen, doc, loaded, reader, bounds>>

\* store_build ends with the meta hash.
Record(l) ==
    /\ Goto(l, "record", "asleep")
    /\ meta' = doc[l]
    /\ loaded' = [loaded EXCEPT ![l] = doc[l]]
    /\ UNCHANGED <<newest, baselines, stickers, staging, seen, doc, reader, bounds>>

\* Any exception of the check, also of a rename without its staging key: logged, and tried again later.
Fail(l) ==
    /\ pc[l] # "asleep"
    /\ \/ failures < MaxFailures /\ failures' = failures + 1
       \/ pc[l] = "fetch" /\ newest = 0 /\ UNCHANGED failures
       \/ pc[l] \in {"rename", "rename_stickers"} /\ staging[StagingKey(l)] = {} /\ UNCHANGED failures
    /\ pc' = [pc EXCEPT ![l] = "asleep"]
    /\ UNCHANGED <<newest, redis, seen, doc, loaded, reader, restarts>>

\* The listener restarts; its next load uses another staging key.
RestartListener(l) ==
    /\ failures < MaxFailures /\ failures' = failures + 1
    /\ pc' = [pc EXCEPT ![l] = "asleep"]
    /\ loaded' = [loaded EXCEPT ![l] = 0]
    /\ UNCHANGED <<newest, redis, seen, doc, reader, restarts>>

Resting == \A l \in Listeners : pc[l] \notin Storing

\* The edge Redis comes back empty.
RestartRedis ==
    /\ restarts < RedisRestarts /\ restarts' = restarts + 1
    /\ RestartMidway \/ (Resting /\ reader.pc = "idle")
    /\ baselines' = {} /\ stickers' = {} /\ meta' = 0
    /\ staging' = [l \in Listeners |-> {}]
    /\ UNCHANGED <<newest, listener, reader, failures>>

-----------------------------------------------------------------------------
(* ResalePrices.refresh: three reads, then the copy is replaced.           *)

ReadBuildId ==
    /\ reader.pc = "idle" /\ meta # 0 /\ meta # reader.id
    /\ reader' = [reader EXCEPT !.pc = "prices", !.new = meta]
    /\ UNCHANGED <<newest, redis, listener, bounds>>

ReadPrices ==
    /\ reader.pc = "prices"
    /\ reader' = [reader EXCEPT !.pc = "stickers", !.read = baselines]
    /\ UNCHANGED <<newest, redis, listener, bounds>>

\* Mutant of ReadStickers: the copy takes the ID that the meta hash has by now.
ReadStickersLateId ==
    /\ reader.pc = "stickers"
    /\ reader' = [reader EXCEPT !.pc = "idle", !.id = meta, !.prices = reader.read, !.stickers = stickers]
    /\ UNCHANGED <<newest, redis, listener, bounds>>

ReadStickers ==
    /\ reader.pc = "stickers"
    /\ reader' = [reader EXCEPT !.pc = "idle", !.id = reader.new, !.prices = reader.read, !.stickers = stickers]
    /\ UNCHANGED <<newest, redis, listener, bounds>>

\* A Redis error: the copy stays.
ReaderFails ==
    /\ reader.pc # "idle" /\ failures < MaxFailures /\ failures' = failures + 1
    /\ reader' = [reader EXCEPT !.pc = "idle"]
    /\ UNCHANGED <<newest, redis, listener, restarts>>

-----------------------------------------------------------------------------
Check(l) ==
    \/ ReadMeta(l) \/ UpToDate(l) \/ Fetch(l) \/ ClearStaging(l) \/ FillStaging(l) \/ RenameBaselines(l)
    \/ RenameStickers(l) \/ DeleteStickers(l) \/ Record(l) \/ Fail(l)

Refresh == ReadBuildId \/ ReadPrices \/ ReadStickers

Next ==
    \/ Publish \/ RestartRedis \/ Refresh \/ ReaderFails
    \/ \E l \in Listeners : Check(l) \/ RestartListener(l)

Spec == Init /\ [][Next]_vars

\* keep_baselines_loaded loops for ever, and the feed keeps refreshing its copy.
FairSpec == Spec /\ WF_vars(Refresh) /\ \A l \in Listeners : WF_vars(Check(l))

-----------------------------------------------------------------------------
TypeOK ==
    /\ newest \in 0..MaxBuild /\ meta \in 0..MaxBuild
    /\ baselines \subseteq Builds /\ stickers \subseteq Builds
    /\ staging \in [Listeners -> SUBSET Builds]
    /\ pc \in [Listeners -> {"asleep", "fetch"} \cup Storing]
    /\ seen \in [Listeners -> 0..MaxBuild] /\ loaded \in [Listeners -> 0..MaxBuild]
    /\ doc \in [Listeners -> 0..MaxBuild]
    /\ \A l \in Listeners : pc[l] \in Storing => doc[l] \in Builds
    /\ reader \in [pc : {"idle", "prices", "stickers"}, id : 0..MaxBuild, new : 0..MaxBuild,
                   prices : SUBSET Builds, read : SUBSET Builds, stickers : SUBSET Builds]
    /\ failures \in 0..MaxFailures /\ restarts \in 0..RedisRestarts

(* The meta hash names a build that the edge Redis holds (LoadedBuild), or one already replaced by a newer:
   otherwise the refresh takes an old or missing build for the newest. *)
MetaBacked ==
    meta # 0 =>
        /\ baselines # {} /\ \A b \in baselines : b >= meta
        /\ \A b \in stickers : b >= meta
        /\ stickers = {} => \E b \in Bare : b >= meta

(* The same while no load is under way: what is wrong then stays wrong until the next build. *)
RestBacked == Resting => MetaBacked

(* The recording filter reads again only on another build ID, so what it holds must be at least as new
   as the ID it holds, as the meta hash's must be in the edge Redis. *)
EdgeFresh ==
    /\ TypeOK /\ MetaBacked
    /\ reader.id # 0 => reader.prices # {} /\ \A b \in reader.prices : b >= reader.id
    /\ \A b \in reader.stickers : b >= reader.id

(* Whatever failed, restarted or was emptied, in the end the edge Redis and the filter hold the newest build. *)
Current ==
    <>[](newest # 0 => /\ baselines = {newest} /\ meta = newest /\ stickers = {newest} \ Bare
                       /\ reader.prices = {newest} /\ reader.stickers = {newest} \ Bare)
=============================================================================
