----------------------------- MODULE MCReaplan -----------------------------
(* Instance of Reaplan for model checking.                                 *)
EXTENDS Reaplan

\* Without TLS three destinations for two slots, so that a slot is used again;
\* with TLS, whose handshakes have more outcomes, as many as slots.
MCConfs == {[delay |-> TRUE, tls |-> FALSE, dsts |-> 3],
            [delay |-> FALSE, tls |-> FALSE, dsts |-> 3],
            [delay |-> TRUE, tls |-> TRUE, dsts |-> 2]}
====
