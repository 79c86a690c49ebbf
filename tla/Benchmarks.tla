----------------------------- MODULE Benchmarks -----------------------------
(***************************************************************************)
(* One run of the program, src/rust-app/src/main.rs: the command line      *)
(* names one benchmark or demo, which has the process to itself.           *)
(* HotStream, the largest of them, is checked on its own; the event store  *)
(* demos call the stores that PgDelivery and MongoDelivery are about.      *)
(***************************************************************************)
EXTENDS SearchIndex, HotColdView, RateBench, RecentEventsCache, SnapshotDemo, Bootstrap

searchBenchVars == <<vars, searchVars>>
otherVars == <<hotColdVars, rateVars, cacheVars, snapshotVars, bootVars>>
runVars == <<searchBenchVars, otherVars>>

Commands == {"projection", "search", "hot-cold", "rate", "cache", "snapshot", "bootstrap"}

RunTypeOK ==
  /\ program \in Commands
  /\ SearchTypeOK /\ HotColdTypeOK /\ RateTypeOK /\ CacheTypeOK /\ SnapshotTypeOK /\ BootTypeOK

OneOf(S) == {CHOOSE x \in S : TRUE}

\* The arguments of the command that runs; any for those that do not.
RunInit ==
  /\ SearchInit
  /\ program \notin {"projection", "search"} => leftover = 0 /\ backend = "postgres"
  /\ HotColdInit
  /\ program # "hot-cold" => old = 0
  /\ RateInit(IF program = "rate" THEN Bench ELSE OneOf(Bench))
  /\ CacheInit(IF program = "cache" THEN Cache ELSE OneOf({c \in Cache : ~ c.memcached}))
  /\ program # "cache" => stream = <<>> /\ ~ cache.keepsStream
  /\ SnapshotInit
  /\ BootInit(IF program = "bootstrap" THEN DOMAIN Objects ELSE {"postgres"})

ProjectionCommand == Next /\ UNCHANGED <<searchVars, otherVars>>

SearchCommand == SearchNext /\ UNCHANGED otherVars

HotColdCommand ==
  /\ program = "hot-cold" /\ HotColdStep
  /\ UNCHANGED <<searchBenchVars, rateVars, cacheVars, snapshotVars, bootVars>>

RateCommand ==
  /\ program = "rate" /\ RateStep
  /\ UNCHANGED <<searchBenchVars, hotColdVars, cacheVars, snapshotVars, bootVars>>

CacheCommand ==
  /\ program = "cache" /\ CacheStep
  /\ UNCHANGED <<searchBenchVars, hotColdVars, rateVars, snapshotVars, bootVars>>

SnapshotCommand ==
  /\ program = "snapshot" /\ SnapshotStep
  /\ UNCHANGED <<searchBenchVars, hotColdVars, rateVars, cacheVars, bootVars>>

\* Every command that needs a schema sees to it first; here, on its own.
BootstrapCommand ==
  /\ program = "bootstrap" /\ BootStep
  /\ UNCHANGED <<searchBenchVars, hotColdVars, rateVars, cacheVars, snapshotVars>>

\* The process has ended, or its tasks wait for each other: where that may
\* happen is what WaitsEndOrHaveAReason says.
Ended ==
  /\ \/ program \in {"projection", "search", "hot-cold"}
     \/ program = "rate" /\ stage = "reported"
     \/ program = "cache" /\ at \in {"done", "stopped", "aborted"}
     \/ program = "snapshot" /\ demo \in {"restored", "failed"}
  /\ UNCHANGED runVars

RunNext ==
  \/ ProjectionCommand \/ SearchCommand \/ HotColdCommand \/ RateCommand
  \/ CacheCommand \/ SnapshotCommand \/ BootstrapCommand
  \/ Ended

RunSpec == RunInit /\ [][RunNext]_runVars

\* All tasks are polled, and time passes; a poll with rows to return does not
\* fail every time.
MainTask ==
  \/ Writing /\ UNCHANGED <<searchVars, otherVars>>
  \/ WritingSearchable /\ UNCHANGED otherVars
  \/ /\ program = "hot-cold" /\ HotColdMain
     /\ UNCHANGED <<searchBenchVars, rateVars, cacheVars, snapshotVars, bootVars>>

SpawnedTask ==
  \/ Projecting /\ UNCHANGED <<searchVars, otherVars>>
  \/ Indexing /\ UNCHANGED otherVars
  \/ /\ program = "hot-cold" /\ HotColdTask
     /\ UNCHANGED <<searchBenchVars, rateVars, cacheVars, snapshotVars, bootVars>>

PollingTask ==
  \/ Polling /\ UNCHANGED <<searchVars, otherVars>>
  \/ PollingForIndexing /\ UNCHANGED otherVars

FairRunSpec ==
  /\ RunSpec
  /\ WF_runVars(MainTask) /\ WF_runVars(SpawnedTask) /\ SF_runVars(PollingTask)
-----------------------------------------------------------------------------
(* Properties.                                                             *)

\* A benchmark with a projector comes to its end, or waits for ever for a
\* projector that died, for an event that fell between a cursor and a change
\* stream, or for one that is held back in a buffer.  The hot/cold benchmark,
\* which hears of a dead projector and waits with a timeout, always ends.
WaitsEndOrHaveAReason ==
  /\ program = "projection" => <>Excused
  /\ program = "search" => <>(Excused \/ HeldBack)
  /\ program = "hot-cold" => <>(section \in {"done", "failed"})
=============================================================================
