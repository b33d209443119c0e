------------------------- MODULE MCSecPduProcessing -------------------------
(* Small traffic for SecPduProcessing. *)
EXTENDS SecPduProcessing

CONSTANTS a, b, d,           \* senders
          a1, a2, a3, b1, d1 \* their sessions

Data(k) == [cmd |-> "DATA_CMD", session |-> k, fragment |-> 0,
            authentic |-> TRUE]

Frag(k, f) == [cmd |-> "KEY_FRAGMENT_CMD", session |-> k, fragment |-> f,
               authentic |-> TRUE]

Forged(k, f) == [Frag(k, f) EXCEPT !.authentic = FALSE]

\* Identifiers that differ modulo 256.
DistinctIds == [k \in Session |-> IF k = a2 THEN 300 ELSE 257]

\* The third session of a has the first's identifier plus 256.
AliasedIds == [k \in Session |-> IF k = a3 THEN 513 ELSE 257]

\* The identifier of the second session of a is 0 modulo 256.
FreeLookingIds == [k \in Session |-> IF k = a2 THEN 512
                                     ELSE IF k = a3 THEN 300 ELSE 257]

\* Two sessions of one sender; a fragment comes again.
TwoSessions ==
    [s \in {a} |-> << Data(a1), Frag(a1, 0), Frag(a1, 1), Frag(a1, 0),
                      Data(a1), Data(a2), Frag(a2, 0), Frag(a2, 1) >>]

\* Two senders that use one session identifier, and one sender too many.
ThreeSenders ==
    [s \in {a, b, d} |->
        IF s = a THEN << Frag(a1, 0), Data(a1), Frag(a1, 1) >>
        ELSE IF s = b THEN << Frag(b1, 0), Data(b1), Frag(b1, 1) >>
        ELSE << Data(d1) >>]

\* More sessions than the cache has slots, and a forged fragment; under
\* FreeLookingIds the fragment of a2 is stored in an entry that looks free.
ThreeSessions ==
    [s \in {a} |-> << Frag(a1, 0), Frag(a1, 1), Data(a1), Frag(a2, 0),
                      Data(a3), Forged(a3, 0), Frag(a3, 1), Frag(a3, 0),
                      Data(a3) >>]

\* The key of a session is completed while PDUs of the next one wait.
LateKey ==
    [s \in {a} |-> << Data(a1), Frag(a1, 0), Data(a2), Frag(a2, 0) >>]

\* Two sessions, each with data before its fragment, and one after.
TwoShortSessions ==
    [s \in {a} |-> << Data(a1), Frag(a1, 0), Data(a1), Data(a2),
                      Frag(a2, 0) >>]

\* Two sessions whose identifiers coincide modulo 256.
AliasedSessions == [s \in {a} |-> << Frag(a1, 0), Data(a3) >>]
============================================================================
