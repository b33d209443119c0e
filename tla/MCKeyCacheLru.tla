--------------------------- MODULE MCKeyCacheLru ---------------------------
(* A small heap for KeyCacheLru. *)
EXTENDS KeyCacheLru

\* A heap that holds data of an earlier owner in some slots.
UsedHeap == [ticks : {0, 2}, rollover : {0, 1}]
============================================================================
