------------------------------- MODULE MCClid -------------------------------
(* Instances of Clid for model checking.                                   *)
EXTENDS Clid

MCHosts == [c \in Clients |-> c]
====
