------------------------------- MODULE PgLease -------------------------------
(***************************************************************************)
(* The consumer lease of postgres/event_store.rs: `try_acquire_lease` and  *)
(* `release_lease`, for one consumer group.                                *)
(*                                                                         *)
(* The lease is a PostgreSQL advisory lock.  Such a lock belongs to a      *)
(* session and counts how often that session has taken it.  Both calls run *)
(* on whichever connection the process's pool hands out, and the consumers *)
(* of one process share its pool.                                          *)
(***************************************************************************)
EXTENDS Integers, FiniteSets

CONSTANTS
  Processes,   \* processes, each with an event store and its pool
  Slots,       \* connections of one pool
  Workers,     \* consumers of the group in one process
  Nobody,      \* nobody
  MaxCount     \* bound: depth of the re-entrant lock

ASSUME LeaseAssumption ==
  /\ IsFiniteSet(Processes) /\ IsFiniteSet(Workers)
  /\ MaxCount \in Nat

Sessions  == Processes \X Slots
Consumers == Processes \X Workers

ASSUME NobodyAssumption == Nobody \notin Sessions

VARIABLES
  owner,   \* session that holds the advisory lock
  count,   \* how many times it has taken it
  told,    \* last answer each consumer got: none, true, false, released
  lost,    \* history: processes that have lost the session holding the lock
  stray    \* history: processes where a release took a level off the lock for
           \* a consumer that did not have the lease

leaseVars == <<owner, count, told, lost, stray>>

Active == {c \in Consumers : told[c] = "true"}

\* Types; the lock has an owner exactly while its count is positive.
LeaseTypeOK ==
  /\ owner \in Sessions \cup {Nobody}
  /\ count \in 0 .. MaxCount
  /\ (owner = Nobody) <=> (count = 0)
  /\ told \in [Consumers -> {"none", "true", "false", "released", "stopped"}]
  /\ lost \subseteq Processes
  /\ stray \subseteq Processes

\* The lock is free; the consumers have not called yet ("none"), or will
\* never call ("stopped").
LeaseInit(label) ==
  /\ owner = Nobody
  /\ count = 0
  /\ told = [c \in Consumers |-> label]
  /\ lost = {}
  /\ stray = {}

\* The connections a consumer's calls can run on.
PoolOf(c) == {c[1]} \X Slots

\* pg_try_advisory_lock on session s: true if the lock is free or s has it.
TryAcquire(c) ==
  /\ told[c] # "stopped"
  /\ UNCHANGED <<lost, stray>>
  /\ \E s \in PoolOf(c) :
       \/ /\ owner \in {Nobody, s}
          /\ count < MaxCount
          /\ owner' = s
          /\ count' = count + 1
          /\ told' = [told EXCEPT ![c] = "true"]
       \/ /\ owner \notin {Nobody, s}
          /\ told' = [told EXCEPT ![c] = IF @ = "true" THEN "true" ELSE "false"]
          /\ UNCHANGED <<owner, count>>

\* pg_advisory_unlock on session s: one level of the lock if s has it, a
\* warning and nothing else if not.
Unlock_AllLevels(s) ==
  IF owner = s THEN count' = 0 /\ owner' = Nobody
               ELSE UNCHANGED <<owner, count>>
Unlock(s) ==
  IF owner = s
    THEN /\ count' = count - 1
         /\ owner' = IF count = 1 THEN Nobody ELSE owner
    ELSE UNCHANGED <<owner, count>>

\* The caller gets Ok whatever the SELECT answered, and may call whatever it
\* was told before: the session of another consumer of the process does not
\* refuse to give a level back.  (The demo acquires twice and releases once,
\* without a look at the answers.)
Release(c) ==
  /\ told[c] # "stopped"
  /\ \E s \in PoolOf(c) :
       /\ Unlock(s)
       /\ stray' = IF owner = s /\ c \notin Active THEN stray \cup {c[1]} ELSE stray
  /\ told' = [told EXCEPT ![c] = "released"]
  /\ UNCHANGED lost

\* A connection is lost, or recycled by the pool: PostgreSQL frees its lock.
\* Nobody is told.
DropSession(s) ==
  /\ owner = s
  /\ owner' = Nobody
  /\ count' = 0
  /\ lost' = lost \cup {s[1]}
  /\ UNCHANGED <<told, stray>>

LeaseStep ==
  \/ \E c \in Consumers : TryAcquire(c) \/ Release(c)
  \/ \E s \in Sessions : DropSession(s)

LeaseSpec == LeaseInit("none") /\ [][LeaseStep]_leaseVars
-----------------------------------------------------------------------------
(* Properties.                                                             *)

\* Consumers of different processes are active together only if one of the
\* processes has lost the session that held the lock, or has given a level of
\* it back for a consumer without the lease.  Until then, whatever connections
\* the calls ran on and however often a consumer acquired again, every active
\* consumer of a process is covered by one level of the lock its pool holds.
ExclusiveAcrossProcesses ==
  \A c, d \in Active : c[1] # d[1] => {c[1], d[1]} \cap (lost \cup stray) # {}

\* "Single-Active-Consumer guarantee": one consumer of the group at a time.
SingleActiveConsumer == Cardinality(Active) <= 1
=============================================================================
