---------------------------- MODULE SnapshotDemo ----------------------------
(***************************************************************************)
(* kurrentdb/snapshot_demo.rs: an aggregate is written in windows of       *)
(* snapshot_every events, one append each, and after each window its state *)
(* is appended to a snapshot stream, with the revision it covers.  Later   *)
(* the state is restored from the last snapshot and the events after it,   *)
(* and compared with a replay of the whole stream.                         *)
(***************************************************************************)
EXTENDS Integers, Sequences, SequencesExt

CONSTANTS
  EventCount,       \* event_count
  SnapshotEvery,    \* snapshot_every
  Quantities        \* quantities drawn at random (1 to 5)

ASSUME SnapshotAssumption ==
  EventCount \in Nat /\ SnapshotEvery \in Nat \ {0} /\ Quantities \subseteq Nat

VARIABLES
  demo,       \* where the program is
  domain,     \* the main stream; an event's revision is its place less one
  snapshots,  \* the snapshot stream
  live,       \* live_state
  restored    \* restored_state

snapshotVars == <<demo, domain, snapshots, live, restored>>

DomainEvent == [type : {"ItemAdded", "ItemPriceUpdated", "ItemRemoved"},
                quantity : Quantities \cup {0}]
State == [stock : Int, added : Nat, updates : Nat, removals : Nat, revision : Int]
Empty == [stock |-> 0, added |-> 0, updates |-> 0, removals |-> 0, revision |-> -1]

SnapshotTypeOK ==
  /\ demo \in {"writing", "written", "restarted", "restored", "failed"}
  /\ domain \in Seq(DomainEvent)
  /\ snapshots \in Seq([state : State, covers : Int])
  /\ live \in State /\ restored \in State

SnapshotInit ==
  /\ demo = "writing"
  /\ domain = <<>> /\ snapshots = <<>>
  /\ live = Empty /\ restored = Empty
-----------------------------------------------------------------------------
\* InventoryState::apply.
Apply(state, e, revision) ==
  CASE e.type = "ItemAdded" ->
         [state EXCEPT !.stock = @ + e.quantity, !.added = @ + 1, !.revision = revision]
    [] e.type = "ItemPriceUpdated" ->
         [state EXCEPT !.updates = @ + 1, !.revision = revision]
    [] e.type = "ItemRemoved" ->
         [state EXCEPT !.stock = @ - e.quantity, !.removals = @ + 1, !.revision = revision]

\* The loops that apply events in order, those of q past place `from`; the
\* event at place n has revision `first` + n - 1.
Folded(state, q, from, first) ==
  LET after[n \in from .. Len(q)] ==
        IF n = from THEN state ELSE Apply(after[n - 1], q[n], first + n - 1)
  IN  after[Len(q)]

\* The events from revision `from` on, applied to a state.
Fold(state, from) == Folded(state, domain, from, 0)

\* The events of one window: their types take turns, quantities are random.
TypeOf(i) == <<"ItemAdded", "ItemPriceUpdated", "ItemRemoved">>[(i % 3) + 1]

Windows ==
  LET size == IF EventCount - Len(domain) < SnapshotEvery
                THEN EventCount - Len(domain) ELSE SnapshotEvery
  IN  {[i \in 1 .. size |->
          [type |-> TypeOf(Len(domain) + i - 1),
           quantity |-> IF TypeOf(Len(domain) + i - 1) = "ItemPriceUpdated" THEN 0 ELSE q[i]]] :
        q \in [1 .. size -> Quantities]}

\* append_to_stream answers the revision of the last event; the window is
\* then folded into live_state, counting back from it.
LastRevision == Len(domain') - 1

WriteWindow ==
  /\ demo = "writing"
  /\ Len(domain) < EventCount
  /\ \E window \in Windows :
       /\ domain' = domain \o window
       /\ live' = Folded(live, window, 0, LastRevision - (Len(window) - 1))
  /\ demo' = "written"
  /\ UNCHANGED <<snapshots, restored>>

\* The snapshot, after every window, a short last one included.
Covers == Len(domain) - 1

TakeSnapshot ==
  /\ demo = "written"
  /\ snapshots' = Append(snapshots, [state |-> live, covers |-> Covers])
  /\ demo' = "writing"
  /\ UNCHANGED <<domain, live, restored>>

\* Phase 2: the state in memory is dropped.
Restart ==
  /\ demo = "writing"
  /\ Len(domain) = EventCount
  /\ demo' = "restarted"
  /\ live' = Empty
  /\ UNCHANGED <<domain, snapshots, restored>>

\* Phase 3: start_from is the revision after the one the snapshot covers.
StartFrom_Covered(snapshot) == snapshot.covers
StartFrom(snapshot) == snapshot.covers + 1
RestoredFrom(snapshot) == Fold(snapshot.state, StartFrom(snapshot))

Rehydrate ==
  /\ demo = "restarted"
  /\ restored' = IF snapshots = <<>> THEN Fold(Empty, 0) ELSE RestoredFrom(Last(snapshots))
  /\ demo' = "restored"
  /\ UNCHANGED <<domain, snapshots, live>>

\* A call fails, or the process dies; an append may have been stored.
DemoFails ==
  /\ demo \in {"writing", "written", "restarted"}
  /\ demo' = "failed"
  /\ \/ UNCHANGED <<domain, snapshots>>
     \/ /\ demo = "writing" /\ Len(domain) < EventCount
        /\ \E window \in Windows : domain' = domain \o window
        /\ UNCHANGED snapshots
     \/ /\ demo = "written"
        /\ snapshots' = Append(snapshots, [state |-> live, covers |-> Covers])
        /\ UNCHANGED domain
  /\ UNCHANGED <<live, restored>>

SnapshotStep == WriteWindow \/ TakeSnapshot \/ Restart \/ Rehydrate \/ DemoFails
-----------------------------------------------------------------------------
(* Properties.                                                             *)

\* Any snapshot of the stream, the events after it added, restores what a
\* replay of the whole stream gives: none is skipped and none applied twice,
\* also when the program stopped between an append and its snapshot.
RestoredIsReplayed ==
  /\ \A i \in 1 .. Len(snapshots) : RestoredFrom(snapshots[i]) = Fold(Empty, 0)
  /\ demo = "restored" => restored = Fold(Empty, 0)
=============================================================================
