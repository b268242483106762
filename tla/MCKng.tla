------------------------------ MODULE MCKng -------------------------------
(* Instances of Kng for TLC. *)
EXTENDS Kng, TLC

\* What the queue depends on: the locals of a function are dead once it has
\* returned, and the signals that a job was sent and its age make no
\* difference to when it may exit.
QueueView ==
  LET dispatching == pc \in {"next", "walk", "read", "unlink", "start"}
      putting == pc \in {"write", "link"}
  IN <<clock, files, dirtime, links, seq, fts, nrunning, pc, chld, histVars,
       [j \in 1..Len(jobs) |-> <<jobs[j].pid, jobs[j].id, jobs[j].via>>],
       [p \in Pids |-> IF proc[p] = "killed" THEN "run" ELSE proc[p]],
       IF dispatching THEN <<n, back, retry>> ELSE <<>>,
       IF putting \/ pc \in {"unlink", "start"} THEN id ELSE NoKey,
       IF putting \/ pc \in {"read", "unlink"} THEN key ELSE NoKey>>

PidSymmetry == Permutations(Pids)
IdSymmetry == Permutations(Ids)
AllSymmetry == PidSymmetry \cup IdSymmetry

============================================================================
