-------------------------- MODULE RecentEventsCache --------------------------
(***************************************************************************)
(* hot_cache_bench.rs and memcache_bench.rs: a program seeds a stream,     *)
(* loads its last events once, and from then on keeps them up to date      *)
(* itself: it appends an event and then pushes it to the cache.            *)
(*                                                                         *)
(* The cache is a ring buffer in memory (RecentEventsCache), or a value in *)
(* Memcached, which the program sets as a whole from a tail of its own and *)
(* which may still be there from an earlier run.                           *)
(***************************************************************************)
EXTENDS Integers, Sequences, FiniteSets

CONSTANTS
  CacheSizes,   \* cache_size, chosen at the start
  CacheSeeds,   \* seed_events
  CacheBatch,   \* seed_batch_size
  LiveWrites,   \* live_writes
  MaxPrior      \* bound: events of an earlier run

ASSUME CacheAssumption ==
  /\ CacheSizes \subseteq Nat \ {0} /\ CacheSizes # {}
  /\ CacheBatch \in Nat \ {0}
  /\ CacheSeeds \in Nat /\ LiveWrites \in Nat /\ MaxPrior \in Nat

VARIABLES
  cache,    \* which cache, of which size, over which event store
  at,       \* where the program is
  stream,   \* `seq` of the events in the stream; an earlier run's are negative
  ring,     \* the ring buffer, or local_tail
  shared    \* the value in Memcached

cacheVars == <<cache, at, stream, ring, shared>>

Absent == <<>>  \* no value; an empty one tells a reader as much
TailOf(s, size) == SubSeq(s, IF Len(s) > size THEN Len(s) - size + 1 ELSE 1, Len(s))

Cache == [memcached : BOOLEAN, keepsStream : BOOLEAN, size : CacheSizes]

CacheTypeOK ==
  /\ cache \in Cache
  /\ at \in {"starting", "seeding", "loaded", "ready", "written", "pushed",
             "done", "stopped", "aborted"}
  /\ stream \in Seq(Int) /\ ring \in Seq(Int)
  /\ shared \in Seq(Int)

\* KurrentDB keeps the stream of an earlier run; the others empty the table.
CacheInit(caches) ==
  \E prior \in 0 .. MaxPrior :
    LET old == [i \in 1 .. prior |-> i - prior - 1]
    IN  /\ cache \in caches
        /\ at = "starting"
        /\ stream = IF cache.keepsStream THEN old ELSE <<>>
        /\ ring = <<>>
        /\ shared \in IF cache.memcached THEN {Absent, TailOf(old, cache.size)} ELSE {Absent}
-----------------------------------------------------------------------------
\* let _ = mc_delete(key): it may fail, and the old value stays.
DropKey ==
  /\ at = "starting"
  /\ at' = "seeding"
  /\ shared' \in {Absent, shared}
  /\ UNCHANGED <<cache, stream, ring>>

\* The events this run has written, counted from 0.
NextSeq == Cardinality({i \in 1 .. Len(stream) : stream[i] >= 0})

\* append_batch, append_batch_versioned: batches, and what remains.
Extend(count) == stream' = stream \o [i \in 1 .. count |-> NextSeq + i - 1]

SeedStream ==
  /\ at = "seeding"
  /\ NextSeq < CacheSeeds
  /\ Extend(IF CacheSeeds - NextSeq < CacheBatch THEN CacheSeeds - NextSeq ELSE CacheBatch)
  /\ UNCHANGED <<cache, at, ring, shared>>

\* read_last_n_*: the last `size` events, oldest first, pushed one by one.
LoadTail ==
  /\ at = "seeding"
  /\ NextSeq = CacheSeeds
  /\ ring' = TailOf(stream, cache.size)
  /\ at' = IF cache.memcached THEN "loaded" ELSE "ready"
  /\ UNCHANGED <<cache, stream, shared>>

\* mc_set_tail, at the start-up and after each push.
SetTail ==
  /\ at \in {"loaded", "pushed"}
  /\ shared' = ring
  /\ at' = "ready"
  /\ UNCHANGED <<cache, stream, ring>>

WriteThrough ==
  /\ at = "ready"
  /\ NextSeq < CacheSeeds + LiveWrites
  /\ Extend(1)
  /\ at' = "written"
  /\ UNCHANGED <<cache, ring, shared>>

\* RecentEventsCache::push; local_tail.pop_front and push_back.
Evicted_Late(r) == IF Len(r) > cache.size THEN Tail(r) ELSE r
Evicted(r) == IF Len(r) = cache.size THEN Tail(r) ELSE r

PushEvent ==
  /\ at = "written"
  /\ ring' = Evicted(ring) \o <<stream[Len(stream)]>>
  /\ at' = IF cache.memcached THEN "pushed" ELSE "ready"
  /\ UNCHANGED <<cache, stream, shared>>

EndOfRun ==
  /\ at = "ready"
  /\ NextSeq = CacheSeeds + LiveWrites
  /\ at' = "done"
  /\ UNCHANGED <<cache, stream, ring, shared>>

\* Any `?` ends the program, and so does a crash; the call may have had its
\* effect.  What is in Memcached stays.
CacheFails ==
  /\ at \notin {"done", "stopped", "aborted"}
  /\ at' = IF at \in {"starting", "seeding", "loaded"} THEN "aborted" ELSE "stopped"
  /\ \/ UNCHANGED <<stream, shared>>
     \/ at = "loaded" /\ shared' = ring /\ UNCHANGED stream
     \/ at = "pushed" /\ shared' = ring /\ UNCHANGED stream
     \/ at = "ready" /\ Extend(1) /\ UNCHANGED shared
  /\ UNCHANGED <<cache, ring>>

\* The value lives for an hour at most, and may be evicted.
Expire ==
  /\ shared # Absent
  /\ shared' = Absent
  /\ UNCHANGED <<cache, at, stream, ring>>

CacheStep ==
  \/ DropKey \/ SeedStream \/ LoadTail \/ SetTail
  \/ WriteThrough \/ PushEvent \/ EndOfRun \/ CacheFails \/ Expire
-----------------------------------------------------------------------------
(* Properties.                                                             *)

\* Once the start-up is complete, what readers get from the cache, without a
\* look at the database, is the tail of the stream: between writes all of it,
\* otherwise (a write under way, a run that failed) but for the last event.
\* In Memcached there may be nothing, but never an older tail.
CacheIsRecent ==
  LET current == TailOf(stream, cache.size)
      before == TailOf(SubSeq(stream, 1, Len(stream) - 1), cache.size)
      between == at \in {"ready", "done"}
      Recent(tail) == tail = current \/ (~ between /\ tail = before)
  IN  at \in {"ready", "written", "pushed", "done", "stopped"} =>
        /\ Recent(ring)
        /\ cache.memcached /\ shared # Absent => Recent(shared)
=============================================================================
