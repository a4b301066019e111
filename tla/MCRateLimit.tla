----------------------------- MODULE MCRateLimit -----------------------------
(* Sign-ins to one address from two clients.  A lookup is the case of one key. *)
EXTENDS RateLimit

CONSTANTS email, client1, client2, signin1, signin2

MCKeysOf == [a \in Attempts |->
    IF a = signin1 THEN <<email, client1>> ELSE <<email, client2>>]
=============================================================================
