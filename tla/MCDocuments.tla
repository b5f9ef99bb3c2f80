---------------------------- MODULE MCDocuments ----------------------------
(* An instance of Documents for TLC.                                        *)
EXTENDS Documents

\* Chat "a" asks; chat "b" sells, too.
SomeRequests ==
  {[kind |-> "invoice", chat |-> "a", target |-> Latest],
   [kind |-> "invoice", chat |-> "a", target |-> 1],
   [kind |-> "find", chat |-> "a", target |-> Latest],
   [kind |-> "deck", chat |-> "a", target |-> Latest]}
=============================================================================
