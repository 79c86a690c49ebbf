-------------------------- MODULE MongoSubscription --------------------------
(***************************************************************************)
(* `catch_up_subscribe` of mongodb/event_store.rs for one consumer id.     *)
(*                                                                         *)
(* Phase 1 reads the events past the checkpoint with a cursor in position  *)
(* order, a batch at a time: later batches show events that came after the *)
(* first.  Phase 2 opens a change stream, which delivers the inserts since *)
(* then in commit order and survives a lost connection (the driver resumes *)
(* it).  MongoEventStore shows that commit order is position order here.   *)
(***************************************************************************)
EXTENDS EventLog, Sequences, FiniteSets

CONSTANTS
  BatchSize,  \* documents in one batch of the cursor (101 in the server)
  MaxRuns     \* bound: times the consumer is started

ASSUME SubscriptionAssumption == BatchSize \in Nat \ {0} /\ MaxRuns \in Nat \ {0}

VARIABLES
  stage,       \* where the subscription is
  exhausted,   \* the server has closed the cursor with the last batch
  batch,       \* positions of the batch still to handle, taken in order
  stream,      \* inserts the change stream has to deliver, as positions
  current,     \* `last_pos`, `pos`: the position being handled
  checkpoint,  \* `_checkpoints.global_position`, -1 without a document
  seen,        \* history: positions handled in this run, in order
  ever,        \* history: positions handled in any run
  gap,         \* history: positions committed between the phases of a run
  runs         \* times started

subVars ==
  <<stage, exhausted, batch, stream, current, checkpoint, seen, ever, gap, runs>>

Position == 0 .. MaxPos
Stages == {"down", "starting", "reading", "save_read", "watching", "handed", "save_live"}

SubTypeOK ==
  /\ stage \in Stages
  /\ exhausted \in BOOLEAN
  /\ batch \subseteq Position /\ Cardinality(batch) <= BatchSize
  /\ stream \in Seq(Position)
  /\ current \in Position \cup {-1}
  /\ checkpoint \in Position \cup {-1}
  /\ seen \in Seq(Position)
  /\ ever \subseteq Position /\ gap \subseteq Position
  /\ runs \in 0 .. MaxRuns

\* The consumer has been started n times, on an empty log.
SubInit(n) ==
  /\ stage = "down" /\ exhausted = FALSE /\ batch = {} /\ stream = <<>> /\ current = -1
  /\ checkpoint = -1 /\ seen = <<>> /\ ever = {} /\ gap = {} /\ runs = n

\* The change stream is open.
Watching == stage \in {"watching", "handed", "save_live"}
-----------------------------------------------------------------------------
\* What an insert at position p does to the subscription.
Observe(p) ==
  /\ stream' = IF Watching THEN stream \o <<p>> ELSE stream
  /\ gap' = IF exhausted /\ ~ Watching THEN gap \cup {p} ELSE gap
  /\ UNCHANGED <<stage, exhausted, batch, current, checkpoint, seen, ever, runs>>

\* load_checkpoint(consumer_id)?.unwrap_or(-1)
Start ==
  /\ stage = "down"
  /\ runs < MaxRuns
  /\ runs' = runs + 1
  /\ stage' = "starting"
  /\ current' = checkpoint
  /\ seen' = <<>>
  /\ UNCHANGED <<exhausted, batch, stream, checkpoint, ever, gap>>

\* find({global_position: {$gt: from}}).sort(...), and the getMore of a cursor
\* that is still open: the first documents after the last position handled.
\* A batch that is not full closes the cursor; a full one may.
After_Inclusive(p) == {e.pos : e \in {x \in events : x.pos >= p}}
After(p) == {e.pos : e \in {x \in events : x.pos > p}}

FetchBatch ==
  /\ stage = "starting" \/ (stage = "reading" /\ batch = {} /\ ~ exhausted)
  /\ \E b \in SUBSET After(current) :
       LET rest == After(current) \ b
       IN  /\ \A p \in b, q \in rest : p < q
           /\ \/ Cardinality(b) < BatchSize /\ rest = {} /\ exhausted' = TRUE
              \/ Cardinality(b) = BatchSize /\ exhausted' \in {FALSE, rest = {}}
           /\ batch' = b
  /\ stage' = "reading"
  /\ UNCHANGED <<stream, current, checkpoint, seen, ever, gap, runs>>

\* handler(envelope) answers Ok for position p.
Handle(p) ==
  /\ current' = p
  /\ seen' = seen \o <<p>>
  /\ ever' = ever \cup {p}

HandleRead ==
  /\ stage = "reading"
  /\ \E p \in batch :
       /\ \A q \in batch : p <= q
       /\ Handle(p)
       /\ batch' = batch \ {p}
  /\ stage' = "save_read"
  /\ UNCHANGED <<exhausted, stream, checkpoint, gap, runs>>

\* save_checkpoint: an upsert that overwrites whatever is there.
Saved_Next(p) == p + 1
Saved(p) == p

SaveRead ==
  /\ stage = "save_read"
  /\ checkpoint' = Saved(current)
  /\ stage' = "reading"
  /\ UNCHANGED <<exhausted, batch, stream, current, seen, ever, gap, runs>>

\* coll.watch(), after the last document of the cursor.
Watch ==
  /\ stage = "reading"
  /\ batch = {} /\ exhausted
  /\ stage' = "watching"
  /\ UNCHANGED <<exhausted, batch, stream, current, checkpoint, seen, ever, gap, runs>>

\* change_stream.next() ...
Receive ==
  /\ stage = "watching"
  /\ stream # <<>>
  /\ current' = Head(stream)
  /\ stream' = Tail(stream)
  /\ stage' = "handed"
  /\ UNCHANGED <<exhausted, batch, checkpoint, seen, ever, gap, runs>>

\* ... handler(envelope) ...
HandleLive ==
  /\ stage = "handed"
  /\ Handle(current)
  /\ stage' = "save_live"
  /\ UNCHANGED <<exhausted, batch, stream, checkpoint, gap, runs>>

\* ... and save_checkpoint.
SaveLive ==
  /\ stage = "save_live"
  /\ checkpoint' = Saved(current)
  /\ stage' = "watching"
  /\ UNCHANGED <<exhausted, batch, stream, current, seen, ever, gap, runs>>

\* Any `?` returns the error to the caller, the handler's included; a killed
\* process looks the same.  Only the collections survive.
Crash ==
  /\ stage # "down"
  /\ stage' = "down"
  /\ exhausted' = FALSE /\ batch' = {} /\ stream' = <<>> /\ current' = -1
  /\ UNCHANGED <<checkpoint, seen, ever, gap, runs>>

SubStep ==
  \/ Start \/ FetchBatch \/ HandleRead \/ SaveRead \/ Watch
  \/ Receive \/ HandleLive \/ SaveLive \/ Crash
-----------------------------------------------------------------------------
(* Properties.                                                             *)

\* An event the consumer has passed without handling it was committed between
\* the last batch of the cursor and the opening of the change stream; crashes,
\* restarts and late batches skip nothing else.
SkippedOnlyInTheGap ==
  \A e \in events : e.pos <= checkpoint => e.pos \in ever \cup gap

\* One run hands over the events in position order and none twice, across
\* batches and across the switch from the cursor to the change stream.
AscendingInARun ==
  \A i, j \in 1 .. Len(seen) : i < j => seen[i] < seen[j]
=============================================================================
