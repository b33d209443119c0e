------------------------- MODULE MCAdvTimeAuthorize -------------------------
(* What can be heard, for AdvTimeAuthorize. *)
EXTENDS AdvTimeAuthorize

CONSTANTS a, b, d    \* senders

\* PDU no of session key_id of sender s, heard at time ms.
Heard(s, key_id, no, ms) ==
    [mac |-> s, key_id |-> key_id, pdu_no |-> no, timestamp_us |-> 1000 * ms]

\* Session 1 has an interval of 3040 ms, session 16383 one of 5000 ms.  Of
\* the first sender the third PDU comes 420 ms late and one is heard twice;
\* it changes its session, and then draws the first identifier again.  The
\* third is one sender too many.
ThreeSenders ==
    [s \in {a, b, d} |->
        IF s = a THEN << Heard(a, 1, 1, 1000), Heard(a, 1, 1, 1100),
                         Heard(a, 1, 2, 4040), Heard(a, 1, 3, 7500),
                         Heard(a, 16383, 0, 10540),
                         Heard(a, 1, 1, 15540), Heard(a, 1, 2, 18580) >>
        ELSE IF s = b THEN << Heard(b, 16383, 1, 2000),
                              Heard(b, 16383, 2, 7000) >>
        ELSE << Heard(d, 1, 1, 1500) >>]

\* Three PDUs in time.
ThreePdus == [s \in {a} |-> << Heard(a, 1, 1, 1000), Heard(a, 1, 2, 4040),
                               Heard(a, 1, 3, 7080) >>]
============================================================================
