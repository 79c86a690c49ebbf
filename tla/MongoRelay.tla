------------------------------ MODULE MongoRelay ------------------------------
(***************************************************************************)
(* The integration-event relay of mongodb/event_store.rs:                  *)
(* `relay_next_integration_event` and `run_relay_loop`, run by several     *)
(* workers.  Unlike the PostgreSQL relay it holds nothing while it is at   *)
(* an entry: it finds a pending one, publishes it and then sets its        *)
(* `dispatched`, in three separate calls.                                  *)
(***************************************************************************)
EXTENDS EventLog, FiniteSets

CONSTANTS
  Relays,     \* relay workers
  None,       \* no entry
  MaxAborts   \* bound: abandoned attempts per entry

ASSUME RelayAssumption == None \notin Ids /\ MaxAborts \in Nat /\ IsFiniteSet(Relays)

VARIABLES
  worker,      \* where each worker is in its loop
  entry,       \* the entry it has found
  dispatched,  \* entries whose document says dispatched: true
  delivered,   \* history: messages at the broker, per entry
  aborted      \* history: attempts that ended before the update, per entry

relayVars == <<worker, entry, dispatched, delivered, aborted>>

AtEntry == {"found", "published"}

RelayTypeOK ==
  /\ worker \in [Relays -> {"idle", "asleep", "stopped"} \cup AtEntry]
  /\ entry \in [Relays -> Ids \cup {None}]
  /\ \A r \in Relays : entry[r] # None <=> worker[r] \in AtEntry
  /\ dispatched \subseteq {x.id : x \in outbox}
  /\ delivered \in [Ids -> Nat]
  /\ aborted \in [Ids -> 0 .. MaxAborts]

\* Every worker is at the given point of its loop.
RelayInit(label) ==
  /\ worker = [r \in Relays |-> label]
  /\ entry = [r \in Relays |-> None]
  /\ dispatched = {}
  /\ delivered = [i \in Ids |-> 0]
  /\ aborted = [i \in Ids |-> 0]

At(r, label, e) ==
  /\ worker' = [worker EXCEPT ![r] = label]
  /\ entry' = [entry EXCEPT ![r] = e]
-----------------------------------------------------------------------------
\* find_one({dispatched: false}): no order is asked for, any will do.
Pending_Any == {x.id : x \in outbox}
Pending == {x.id : x \in outbox} \ dispatched

Find(r) ==
  /\ worker[r] = "idle"
  /\ \E i \in Pending : At(r, "found", i)
  /\ UNCHANGED <<dispatched, delivered, aborted>>

\* Ok(false) on an empty outbox and Err from the query: the loop sleeps.
FindNothing(r) ==
  /\ worker[r] = "idle"
  /\ At(r, "asleep", None)
  /\ UNCHANGED <<dispatched, delivered, aborted>>

Wake_Never(r) == FALSE
Wake(r) ==
  /\ worker[r] = "asleep"
  /\ At(r, "idle", None)
  /\ UNCHANGED <<dispatched, delivered, aborted>>

\* publish(doc) answers Ok.
Publish(r) ==
  /\ worker[r] = "found"
  /\ delivered' = [delivered EXCEPT ![entry[r]] = @ + 1]
  /\ At(r, "published", entry[r])
  /\ UNCHANGED <<dispatched, aborted>>

\* update_one({_id}, $set dispatched: true); its answer may be lost, after
\* which the loop sleeps.
Mark(r) ==
  /\ worker[r] = "published"
  /\ dispatched' = dispatched \cup {entry[r]}
  /\ \E label \in {"idle", "asleep"} : At(r, label, None)
  /\ UNCHANGED <<delivered, aborted>>

\* publish answers Err (the broker may have the message all the same), the
\* update fails, the process dies, or shutdown drops the attempt.
Abort(r) ==
  /\ worker[r] \in AtEntry
  /\ aborted[entry[r]] < MaxAborts
  /\ aborted' = [aborted EXCEPT ![entry[r]] = @ + 1]
  /\ \/ UNCHANGED delivered
     \/ worker[r] = "found" /\ delivered' = [delivered EXCEPT ![entry[r]] = @ + 1]
  /\ \E label \in {"asleep", "stopped"} : At(r, label, None)
  /\ UNCHANGED dispatched

\* Shutdown is polled first each time around the loop.
Shutdown(r) ==
  /\ worker[r] = "idle"
  /\ At(r, "stopped", None)
  /\ UNCHANGED <<dispatched, delivered, aborted>>

Proceed(r) == Wake(r) \/ Publish(r) \/ Mark(r)

RelayStep(r) == Find(r) \/ FindNothing(r) \/ Proceed(r) \/ Abort(r) \/ Shutdown(r)
-----------------------------------------------------------------------------
(* Properties.                                                             *)

\* Each worker delivers an entry once for itself, however many are at it at
\* the same time, and again only after an attempt of its own was abandoned.
DeliveriesAreBounded ==
  \A i \in Ids : delivered[i] <= Cardinality(Relays) + aborted[i]

\* An entry marked dispatched has reached the broker, and every pending entry
\* is dispatched in the end, unless all workers were told to stop.
EveryEntryDispatched ==
  \A i \in Ids :
    (\E x \in outbox : x.id = i)
      ~> ((i \in dispatched /\ delivered[i] > 0) \/ \A r \in Relays : worker[r] = "stopped")
=============================================================================
