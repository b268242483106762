----------------------------- MODULE MCDnstres -----------------------------
(* Instance of Dnstres for TLC: a request with two hosts, one with a single *)
(* host and one without any.                                                *)
EXTENDS Dnstres

CONSTANTS a, b, c

MCRequests == {a, b, c}
MCNHosts == [r \in MCRequests |-> CASE r = a -> 2 [] r = b -> 1 [] r = c -> 0]

============================================================================
