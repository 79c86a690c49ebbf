----------------------------- MODULE SearchIndex -----------------------------
(***************************************************************************)
(* search_bench.rs: the writer of Projection, with an indexer for a        *)
(* projector.  The indexer collects events and writes them to the          *)
(* `search_index` table in one INSERT (index_batch), whose failure it      *)
(* ignores; then it adds them to the counter the writer waits for.         *)
(*                                                                         *)
(* `batch` is the indexer's buffer, or the rows of its last poll; `pushed` *)
(* are the places it has counted.                                          *)
(***************************************************************************)
EXTENDS Projection

CONSTANT
  FlushSize  \* events the buffer takes before it is written (200)

ASSUME FlushAssumption == FlushSize \in Nat \ {0}

VARIABLES
  indexed,   \* places whose row is in search_index
  refused,   \* history: places in an INSERT that failed
  inserted   \* the batch has been to the database and is to be counted

searchVars == <<indexed, refused, inserted>>

SearchTypeOK ==
  /\ TypeOK
  /\ indexed \subseteq Places /\ refused \subseteq Places
  /\ inserted \in BOOLEAN

\* The table is emptied; there is no view.
SearchInit ==
  /\ Init
  /\ program # "projection" => capacity = CHOOSE c \in Capacities : TRUE
  /\ indexed = {} /\ refused = {} /\ inserted = FALSE
-----------------------------------------------------------------------------
(* The writer is that of the projection benchmark.                         *)

SeedForSearch == Seed /\ UNCHANGED searchVars

SpawnIndexer == Spawn /\ UNCHANGED searchVars

AppendSearchable == AppendLive /\ UNCHANGED searchVars

FailToAppend == FailAppend /\ UNCHANGED searchVars

StopWaitingForIndex == StopWaiting /\ UNCHANGED searchVars

SearchWriter == SeedForSearch \/ SpawnIndexer \/ AppendSearchable \/ StopWaitingForIndex
-----------------------------------------------------------------------------
(* The indexer.                                                            *)

Buffered == ToSet(batch)

\* The buffer is written at FlushSize; MongoDB writes what is left at the end
\* of its cursor, and then every event; PostgreSQL writes every poll.
Due ==
  IF backend = "kurrentdb" \/ projector = "replaying"
    THEN Len(batch) >= FlushSize ELSE batch # <<>>

Collect(n) ==
  /\ ~ Due
  /\ batch' = Append(batch, n)
  /\ UNCHANGED <<setup, writerVars, projector, view, pushed, missed, searchVars>>

\* sub.next(), cs.next(): in log order.
ReceiveEvent ==
  /\ projector = "live"
  /\ Unpushed \ Buffered # {}
  /\ Collect(Min(Unpushed \ Buffered))

\* cursor.next(), by _id: in any order.
ReadCursor ==
  /\ projector = "replaying"
  /\ \E n \in Unpushed \ Buffered : Collect(n)

\* The end of the cursor; what the buffer holds is then written.
ExhaustCursor ==
  /\ projector = "replaying"
  /\ ~ Due
  /\ 1 .. Seeds \subseteq ToSet(pushed) \cup Buffered
  /\ projector' = "opening"
  /\ UNCHANGED <<setup, writerVars, batch, view, pushed, missed, searchVars>>

OpenChangeStream ==
  /\ projector = "opening"
  /\ batch = <<>>
  /\ projector' = "live"
  /\ missed' = Unpushed
  /\ UNCHANGED <<setup, writerVars, batch, view, pushed, searchVars>>

\* poll_events_for_indexing(stream, checkpoint, 200): as poll_new_events.
PollForIndexing == Poll /\ UNCHANGED searchVars

PollNothingToIndex == PollNothing /\ UNCHANGED searchVars

ConnectIndexer == Connect /\ UNCHANGED searchVars

WakeIndexer == Wake /\ UNCHANGED searchVars

\* index_batch: one INSERT, ON CONFLICT DO NOTHING.  Its result is dropped.
IndexBatch ==
  /\ projector # "dead"
  /\ Due
  /\ ~ inserted
  /\ inserted' = TRUE
  /\ \/ indexed' = indexed \cup Buffered /\ UNCHANGED refused
     \/ refused' = refused \cup Buffered /\ UNCHANGED indexed
  /\ UNCHANGED <<setup, writerVars, projectorVars>>

\* processed += buf.len(); buf.clear(); tx.send(processed).
Countable_BeforeInsert == Due
Countable == inserted

CountBatch ==
  /\ projector # "dead"
  /\ Countable
  /\ pushed' = pushed \o batch
  /\ batch' = <<>>
  /\ inserted' = FALSE
  /\ projector' = IF projector = "pushing" THEN "polling" ELSE projector
  /\ UNCHANGED <<setup, writerVars, view, missed, indexed, refused>>

\* As for the projector, the writer is not told.
IndexerDies == Die /\ UNCHANGED searchVars

Indexer ==
  \/ ReceiveEvent \/ ReadCursor \/ ExhaustCursor \/ OpenChangeStream
  \/ ConnectIndexer \/ IndexBatch \/ CountBatch \/ WakeIndexer
-----------------------------------------------------------------------------
\* The steps of the tasks, which are polled; a poll may fail.
WritingSearchable == program = "search" /\ SearchWriter
Indexing == program = "search" /\ Indexer
PollingForIndexing == program = "search" /\ PollForIndexing

SearchNext ==
  \/ WritingSearchable \/ Indexing \/ PollingForIndexing
  \/ program = "search" /\ (FailToAppend \/ PollNothingToIndex \/ IndexerDies)
-----------------------------------------------------------------------------
(* Properties.                                                             *)

\* "time from event-store write-ack -> search index updated": an event whose
\* lag has been recorded has been projected, or is searchable unless the
\* INSERT with its row failed; the writer's counter alone would not tell.
MeasuredIsProcessed ==
  /\ program = "projection" => MeasuredIsProjected
  /\ program = "search" /\ leftover = 0 => measured \subseteq indexed \cup refused

\* The indexer of KurrentDB holds back what does not fill its buffer.
HeldBack == backend = "kurrentdb" /\ batch # <<>>

\* "for 300 live writes": every live write gets its lag, or something failed.
EveryLiveWriteIsMeasured == program = "search" => <>Excused
=============================================================================
