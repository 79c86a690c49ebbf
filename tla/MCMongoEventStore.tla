-------------------------- MODULE MCMongoEventStore --------------------------
\* Instance of MongoEventStore for TLC: three calls on two streams, one of which
\* makes an event that rehydrate cannot read.
EXTENDS MongoEventStore, TLC

Symmetry == Permutations(Calls \ Unreadable) \cup Permutations(Streams)
=============================================================================
