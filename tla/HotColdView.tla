----------------------------- MODULE HotColdView -----------------------------
(***************************************************************************)
(* kurrentdb/hot_cold_view_bench.rs: two streams are seeded alike, one of  *)
(* them capped with $maxCount (section A) and written and read in turn     *)
(* (B).  Then a projector replays the other one from its start (C, cold),  *)
(* and another is subscribed from its end while events are appended one by *)
(* one, each time waiting at most 5 s for a lag (C, hot).                  *)
(*                                                                         *)
(* An event is its place in the cold stream.  Unlike in Projection, each   *)
(* projector owns the sending end of its channel: the program notices when *)
(* a projector dies.                                                       *)
(***************************************************************************)
EXTENDS Integers, Sequences

CONSTANTS
  ViewSeeds,    \* seed_events
  ViewBatch,    \* seed_batch
  SyncWrites,   \* writes of section B (100)
  LagWrites,    \* live_writes
  MaxOldCold    \* bound: events an earlier run left in the cold stream

ASSUME HotColdAssumption ==
  /\ ViewSeeds \in Nat /\ SyncWrites \in Nat /\ LagWrites \in Nat /\ MaxOldCold \in Nat
  /\ ViewBatch \in Nat \ {0}

VARIABLES
  section,   \* where the program is
  old,       \* events in the cold stream at the start
  cold,      \* events in the cold stream
  hot,       \* events written to the hot stream in this run
  task,      \* where the projector is
  position,  \* the last event it has got
  replayed,  \* what it has sent: the value of the watch channel
  lags,      \* events whose lags are in the mpsc channel
  recorded   \* what went into the histogram: events, or TimedOut

hotColdVars == <<section, old, cold, hot, task, position, replayed, lags, recorded>>
streams == <<old, cold, hot>>

TimedOut == 0  \* the 5 s sentinel
Base == old + ViewSeeds
ChannelSize == LagWrites + 16

HotColdTypeOK ==
  /\ section \in {"seeding", "rewriting", "replaying", "writing", "receiving", "done", "failed"}
  /\ old \in 0 .. MaxOldCold /\ cold \in Nat /\ hot \in Nat
  /\ task \in {"unborn", "replaying", "subscribing", "live", "gone"}
  /\ position \in Nat /\ replayed \in Nat
  /\ lags \in Seq(Nat) /\ recorded \in Seq(Nat)

\* The streams have fixed names and are never emptied.
HotColdInit ==
  /\ section = "seeding"
  /\ old \in 0 .. MaxOldCold
  /\ cold = old /\ hot = 0
  /\ task = "unborn" /\ position = 0 /\ replayed = 0
  /\ lags = <<>> /\ recorded = <<>>
-----------------------------------------------------------------------------
(* The program.                                                            *)

\* A batch to each of the streams; a failure may fall between the two.
SeedBoth ==
  LET rest == ViewSeeds - hot
      size == IF rest < ViewBatch THEN rest ELSE ViewBatch
  IN  /\ section = "seeding" /\ rest > 0
      /\ cold' = cold + size
      /\ \/ hot' = hot + size /\ UNCHANGED section
         \/ section' = "failed" /\ UNCHANGED hot
      /\ UNCHANGED <<old, task, position, replayed, lags, recorded>>

\* Sections A and B: reads of both streams, then writes to the hot one.
ReadBoth ==
  /\ section = "seeding" /\ hot = ViewSeeds
  /\ section' = "rewriting"
  /\ UNCHANGED <<streams, task, position, replayed, lags, recorded>>

WriteAndRead ==
  /\ section = "rewriting" /\ hot < ViewSeeds + SyncWrites
  /\ hot' = hot + 1
  /\ UNCHANGED <<section, old, cold, task, position, replayed, lags, recorded>>

\* spawn(cold_projector), and the loop on rx.changed().
SpawnReplay ==
  /\ section = "rewriting" /\ hot = ViewSeeds + SyncWrites
  /\ section' = "replaying"
  /\ task' = "replaying"
  /\ UNCHANGED <<streams, position, replayed, lags, recorded>>

\* The replay is complete: the projector is aborted and the next one spawned,
\* with StreamPosition::End.  100 ms later the first write.
ReplayComplete ==
  /\ section = "replaying"
  /\ replayed >= ViewSeeds
  /\ section' = "writing"
  /\ task' = "subscribing"
  /\ UNCHANGED <<streams, position, replayed, lags, recorded>>

\* changed() answers Err when the sender is gone and nothing new was sent.
SenderGone_Cloned == FALSE
SenderGone == task = "gone"

ReplayFails ==
  /\ section = "replaying"
  /\ replayed < ViewSeeds
  /\ SenderGone
  /\ section' = "failed"
  /\ UNCHANGED <<streams, task, position, replayed, lags, recorded>>

AppendForLag ==
  /\ section = "writing"
  /\ Len(recorded) < LagWrites
  /\ cold' = cold + 1
  /\ section' = "receiving"
  /\ UNCHANGED <<old, hot, task, position, replayed, lags, recorded>>

\* timeout(5 s, lag_rx.recv()): what is in the channel is taken first.
ReceiveLag ==
  /\ section = "receiving"
  /\ lags # <<>>
  /\ recorded' = Append(recorded, Head(lags))
  /\ lags' = Tail(lags)
  /\ section' = "writing"
  /\ UNCHANGED <<streams, task, position, replayed>>

TimeOut ==
  /\ section = "receiving"
  /\ lags = <<>> /\ task # "gone"
  /\ recorded' = Append(recorded, TimedOut)
  /\ section' = "writing"
  /\ UNCHANGED <<streams, task, position, replayed, lags>>

\* Ok(None), the channel is closed; or all the writes are done.
EndLags ==
  /\ \/ section = "receiving" /\ lags = <<>> /\ task = "gone"
     \/ section = "writing" /\ Len(recorded) = LagWrites
  /\ section' = "done"
  /\ task' = "gone"
  /\ UNCHANGED <<streams, position, replayed, lags, recorded>>

\* An append or a read answers an error; the append may be stored.
HotColdFails ==
  /\ section \in {"seeding", "rewriting", "writing"}
  /\ section' = "failed"
  /\ \/ UNCHANGED cold
     \/ section = "writing" /\ cold' = cold + 1
  /\ UNCHANGED <<old, hot, task, position, replayed, lags, recorded>>

HotColdMain ==
  \/ SeedBoth \/ ReadBoth \/ WriteAndRead \/ SpawnReplay \/ ReplayComplete \/ ReplayFails
  \/ AppendForLag \/ ReceiveLag \/ TimeOut \/ EndLags
-----------------------------------------------------------------------------
(* The projectors.                                                         *)

\* Counts up to the seed and then ends, which drops the sender.
ReplayEvent ==
  /\ task = "replaying"
  /\ position < cold
  /\ position' = position + 1
  /\ replayed' = replayed + 1
  /\ task' = IF replayed + 1 >= ViewSeeds THEN "gone" ELSE task
  /\ UNCHANGED <<section, streams, lags, recorded>>

\* The subscription is established some time after the spawn.
Origin_Start == 0
Origin == cold

Subscribe ==
  /\ task = "subscribing"
  /\ position' = Origin
  /\ task' = "live"
  /\ UNCHANGED <<section, streams, replayed, lags, recorded>>

SendLag ==
  /\ task = "live"
  /\ position < cold
  /\ Len(lags) < ChannelSize
  /\ position' = position + 1
  /\ lags' = Append(lags, position + 1)
  /\ UNCHANGED <<section, streams, task, replayed, recorded>>

\* "subscription error": the loop breaks.
ProjectorDies ==
  /\ task \in {"replaying", "subscribing", "live"}
  /\ task' = "gone"
  /\ UNCHANGED <<section, streams, position, replayed, lags, recorded>>

HotColdTask == ReplayEvent \/ Subscribe \/ SendLag

HotColdStep == HotColdMain \/ HotColdFails \/ HotColdTask \/ ProjectorDies
-----------------------------------------------------------------------------
(* Properties.                                                             *)

\* A late lag is not lost, it is taken for that of a later write: but no lag
\* is recorded twice, none is that of a seed event or of an event of an
\* earlier run, and as long as no wait has timed out each is that of the very
\* event the program has just written.
LagsBelongToWrites ==
  \A i, j \in 1 .. Len(recorded) :
    /\ i < j /\ recorded[i] # TimedOut /\ recorded[j] # TimedOut => recorded[i] < recorded[j]
    /\ recorded[i] # TimedOut => recorded[i] \in Base + 1 .. Base + i
    /\ (\A k \in 1 .. i : recorded[k] # TimedOut) => recorded[i] = Base + i
=============================================================================
