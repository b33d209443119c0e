--------------------------- MODULE MCReceiverApp ---------------------------
(* Senders for ReceiverApp. *)
EXTENDS ReceiverApp

CONSTANTS a, b, d    \* senders
============================================================================
