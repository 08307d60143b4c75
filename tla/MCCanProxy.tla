----------------------------- MODULE MCCanProxy ------------------------------
(* Two clients and two descriptors: the proxy's own requests compete with    *)
(* the clients' for the pool.  One retry; a device with one field of two.   *)
EXTENDS CanProxy

OneRequest  == 1
TwoRequests == 2
TwoFields   == 2
OneField    == 1
OneRetry    == 1
OneThread   == 1
TwoThreads  == 2
AllNumbers  == 32
OneCall     == 1
TwoCalls    == 2
OneLife     == 1
NoLife      == 0

\* The two clients are alike.
Alike == Permutations(Client)
=============================================================================
