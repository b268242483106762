------------------------------ MODULE MCStore ------------------------------
(* Instance of Store for TLC: every kind of command, two stores, two names. *)
EXTENDS Store

CONSTANTS i1, i2, f1, f2

MCIds == {i1, i2}
MCNames == {f1, f2}

\* A daemon started on a store and two index entries of an earlier one.
MCDisk0 == [i \in {i1} |-> {f1}]
MCIndex0 == <<i1, i1>>

MCCmds ==
  {[op |-> "job", id |-> None, name |-> f2],
   [op |-> "other", before |-> <<>>],
   [op |-> "other", before |-> <<Enter(i2, FALSE)>>],
   [op |-> "get", id |-> i2, name |-> f1],
   [op |-> "rename", id |-> i1, name |-> f1, to |-> f2],
   [op |-> "list", id |-> i1],
   [op |-> "index", n |-> 2, before |-> 5]}
====
