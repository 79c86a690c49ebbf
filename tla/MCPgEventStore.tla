--------------------------- MODULE MCPgEventStore ---------------------------
\* Instance of PgEventStore for TLC: three calls on two streams, one of which
\* makes an event that rehydrate cannot read, and a pool too small for all of
\* them at once.
EXTENDS PgEventStore
=============================================================================
