--------------------------- MODULE MCTaskBindings ---------------------------
EXTENDS TaskBindings

\* Four names: enough for a name reached by three paths of different length.
MCNames == {"group", "task", "shared", "leaf"}
MCRank == [group |-> 1, task |-> 2, shared |-> 3, leaf |-> 4]
=============================================================================
