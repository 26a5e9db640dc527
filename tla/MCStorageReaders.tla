-------------------------- MODULE MCStorageReaders --------------------------
(***************************************************************************)
(* Readers of both kinds, with pages that fit their queue and pages that   *)
(* do not.                                                                 *)
(***************************************************************************)
EXTENDS StorageReaders

Reader(kind, pageSize, max, limit, flush, concurrency) ==
  [kind |-> kind, size |-> pageSize, max |-> max, limit |-> limit, flush |-> flush,
   concurrency |-> concurrency, retries |-> 2]

SomeSettings ==
  { Reader("query", 2, 0, 2, 1, 2),         \* one lane
    Reader("query", 2, 0, 3, 2, 2),         \* one lane, chunks of two
    Reader("query", 2, 0, 1, 1, 2),         \* several lanes
    Reader("controller", 2, 3, 3, 2, 2),    \* one lane, chunks of two, a maximum
    Reader("controller", 2, 0, 2, 1, 2),    \* one lane
    Reader("controller", 3, 0, 1, 1, 2) }   \* several lanes
=============================================================================
