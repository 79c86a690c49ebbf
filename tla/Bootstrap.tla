------------------------------ MODULE Bootstrap ------------------------------
(***************************************************************************)
(* The `bootstrap` of the PostgreSQL and of the MongoDB event store, which *)
(* every process runs when it starts, and which may be cut short anywhere. *)
(*                                                                         *)
(* Both are rows of statements, each a no-op when its object is there.     *)
(* But the events collection and its indexes, the unique key among them,   *)
(* hang together: a bootstrap that finds the collection leaves the indexes *)
(* to the one that has created it.                                         *)
(***************************************************************************)
EXTENDS Integers, Sequences, SequencesExt

CONSTANT
  Services  \* processes that bootstrap one database

VARIABLES
  store,      \* the event store
  schema,     \* objects in the database
  booting,    \* per process: its next statement; 0 when down
  abandoned   \* history: a bootstrap has ended between collection and indexes

bootVars == <<store, schema, booting, abandoned>>

\* The objects in the order of the statements.
Objects ==
  [postgres |-> <<"events", "stream index", "global index", "immutability guard",
                  "notify trigger", "auxiliary tables">>,
   mongodb  |-> <<"events", "event indexes", "auxiliary collections">>]

Statements == Objects[store]
Complete == Len(Statements) + 1

BootTypeOK ==
  /\ store \in DOMAIN Objects
  /\ schema \subseteq ToSet(Statements)
  /\ booting \in [Services -> 0 .. Complete]
  /\ abandoned \in BOOLEAN

BootInit(stores) ==
  /\ store \in stores
  /\ schema = {}
  /\ booting = [p \in Services |-> 0]
  /\ abandoned = FALSE
-----------------------------------------------------------------------------
\* A process starts, for the first time or again.
Boot(p) ==
  /\ booting[p] \in {0, Complete}
  /\ booting' = [booting EXCEPT ![p] = 1]
  /\ UNCHANGED <<store, schema, abandoned>>

\* NamespaceExists: "already created; skip index creation below".
FindsCollection(i) == store = "mongodb" /\ i = 1 /\ "events" \in schema

After_NothingElse(i) == IF FindsCollection(i) THEN Complete ELSE i + 1
After(i) == IF FindsCollection(i) THEN i + 2 ELSE i + 1

Execute(p) ==
  /\ booting[p] \in 1 .. Len(Statements)
  /\ schema' = schema \cup {Statements[booting[p]]}
  /\ booting' = [booting EXCEPT ![p] = After(@)]
  /\ UNCHANGED <<store, abandoned>>

\* A statement answers an error (two processes create one object at the same
\* time, say) or the process dies; the statement may have been executed.
CutShort(p) ==
  /\ booting[p] \in 1 .. Len(Statements)
  /\ \/ /\ UNCHANGED schema
        /\ abandoned' = (abandoned \/ (store = "mongodb" /\ booting[p] = 2))
     \/ /\ schema' = schema \cup {Statements[booting[p]]}
        /\ abandoned' = (abandoned \/ (store = "mongodb" /\ booting[p] = 1))
  /\ booting' = [booting EXCEPT ![p] = 0]
  /\ UNCHANGED store

BootStep == \E p \in Services : Boot(p) \/ Execute(p) \/ CutShort(p)
-----------------------------------------------------------------------------
(* Properties.                                                             *)

\* "Safe to call on every startup - idempotent": a bootstrap that answers Ok
\* leaves the whole schema behind, whatever others were doing or had left
\* undone, but for the indexes of the MongoDB events collection: another
\* process may still be about to create them, or may have died before.
OkMeansSchema ==
  (\E p \in Services : booting[p] = Complete) =>
    \A i \in 1 .. Len(Statements) :
      \/ Statements[i] \in schema
      \/ /\ store = "mongodb" /\ i = 2
         /\ abandoned \/ \E q \in Services : booting[q] = 2
=============================================================================
