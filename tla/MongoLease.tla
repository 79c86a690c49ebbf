------------------------------ MODULE MongoLease ------------------------------
(***************************************************************************)
(* The consumer lease of mongodb/event_store.rs: `try_acquire_lease` and   *)
(* `release_lease`, for one consumer group.                                *)
(*                                                                         *)
(* The lease is a document of `_competing_consumers` with a holder and an  *)
(* expiry.  The caller reads its clock, computes both times and sends one  *)
(* update; the server executes it some time later.  Clocks agree.          *)
(***************************************************************************)
EXTENDS Integers

CONSTANTS
  Consumers,  \* consumer ids of the group, one per process
  Ttl,        \* lease_ttl_secs
  MaxClock    \* bound: time

ASSUME LeaseAssumption == Ttl \in Nat /\ MaxClock \in Nat

VARIABLES
  clock,    \* time
  leases,   \* documents of the group, none or one
  call,     \* `now` of the call a consumer has in flight, or Idle, Stopped
  granted   \* expiry of the lease a consumer was told it has, -1 for none

leaseVars == <<clock, leases, call, granted>>

Idle == -1
Stopped == -2

Time == 0 .. MaxClock
Expiry == 0 .. MaxClock + Ttl

LeaseTypeOK ==
  /\ clock \in Time
  /\ leases \subseteq [holder : Consumers, expires : Expiry]
  /\ \A d, e \in leases : d = e
  /\ call \in [Consumers -> Time \cup {Idle, Stopped}]
  /\ granted \in [Consumers -> Expiry \cup {-1}]

LeaseInit(label) ==
  /\ clock = 0
  /\ leases = {}
  /\ call = [c \in Consumers |-> label]
  /\ granted = [c \in Consumers |-> -1]
-----------------------------------------------------------------------------
Tick ==
  /\ \E c \in Consumers : call[c] # Stopped
  /\ clock < MaxClock
  /\ clock' = clock + 1
  /\ UNCHANGED <<leases, call, granted>>

\* let now = Utc::now(); the update is on its way.
Ask(c) ==
  /\ call[c] = Idle
  /\ call' = [call EXCEPT ![c] = clock]
  /\ UNCHANGED <<clock, leases, granted>>

\* The $or of the filter: expired, or our own (a document always names its
\* holder); without a document the update becomes an insert.
Obtainable(c, now) == \A d \in leases : d.expires < now \/ d.holder = c

\* The update is applied; the answer Ok(true) may be lost.
Acquire(c) ==
  /\ call[c] \in Time
  /\ Obtainable(c, call[c])
  /\ leases' = {[holder |-> c, expires |-> call[c] + Ttl]}
  /\ \E heard \in BOOLEAN :
       granted' = IF heard THEN [granted EXCEPT ![c] = call[c] + Ttl] ELSE granted
  /\ call' = [call EXCEPT ![c] = Idle]
  /\ UNCHANGED clock

\* Err: the call fails, or the document is another's: the filter does not
\* match it and the insert of the upsert meets its _id.
Reject(c) ==
  /\ call[c] \in Time
  /\ call' = [call EXCEPT ![c] = Idle]
  /\ UNCHANGED <<clock, leases, granted>>

\* delete_one({_id, consumer_id}): the caller's own document only.
Remaining_None(c) == {}
Remaining(c) == {d \in leases : d.holder # c}

\* The caller stops consuming and releases; the delete may fail.  A consumer
\* that dies looks like a release that fails.
Release(c) ==
  /\ call[c] = Idle
  /\ leases' \in {leases, Remaining(c)}
  /\ granted' = [granted EXCEPT ![c] = -1]
  /\ UNCHANGED <<clock, call>>

LeaseStep == Tick \/ \E c \in Consumers : Ask(c) \/ Acquire(c) \/ Reject(c) \/ Release(c)
-----------------------------------------------------------------------------
(* Properties.                                                             *)

\* The consumers that were granted the lease and whose time has not run out.
Active == {c \in Consumers : clock <= granted[c]}

\* "Only the task that holds the lease processes events": at most one consumer
\* holds an unexpired grant, whatever calls are delayed, lost or repeated, and
\* although a release may come after another consumer took the lease over.
OneUnexpiredGrant == \A c, d \in Active : c = d
=============================================================================
