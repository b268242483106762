--------------------------- MODULE EdsSupervisor ---------------------------
(***************************************************************************)
(* The process supervisor of the event driven service library              *)
(* (lib/util/eds.c, eds_serve): it forks the listener processes of every   *)
(* service, restarts the ones that terminate, gives up when a service      *)
(* restarts too often within a second, and stops the listeners on SIGTERM. *)
(***************************************************************************)
EXTENDS Integers, FiniteSets

CONSTANTS
  NSvcs,         \* length of the service table
  NProcs,        \* svc->nprocs of every service
  MaxRestarts,   \* MAX_SERVICE_RESTARTS_PER_SEC
  Pids,          \* process ids of listener processes
  NoPid          \* the value -1 of a pids[] entry without a process

ASSUME SupervisorAssumption ==
  /\ NSvcs \in Nat \ {0}
  /\ NProcs \in [1..NSvcs -> Nat \ {0}]
  /\ MaxRestarts \in Nat \ {0, 1}
  /\ NoPid \notin Pids

VARIABLES
  pids,       \* superv.pids[] of every service
  alloc,      \* superv.pids # NULL
  recent,     \* superv.last_restart is the current second
  nrestarts,  \* superv.nrestarts
  done,       \* restarts done for the service in this second (history)
  proc,       \* the kernel's view of every listener process
  broken,     \* fork() failed in a restart (history)
  shutdown,   \* shutdown_supervisor
  pc, svc, i, \* position of the supervisor and of its loops
  reaped      \* the pid wait() returned

procVars == <<pids, proc>>
rateVars == <<recent, nrestarts, done>>
vars == <<pids, alloc, recent, nrestarts, done, proc, broken, shutdown, pc, svc, i, reaped>>

Svcs == 1..NSvcs
Procs(s) == 1..NProcs[s]
Slots == UNION {{s} \X Procs(s) : s \in Svcs}
Alive == {"running", "asked"}
Stopping == {"term", "sleep", "kill", "exit"}
Pcs == {"init", "start", "wait", "waiting", "returned", "restart"} \cup Stopping

Init ==
  /\ pids = [x \in Slots |-> NoPid]
  /\ alloc = [s \in Svcs |-> FALSE]
  /\ recent = [s \in Svcs |-> FALSE]
  /\ nrestarts = [s \in Svcs |-> 0]
  /\ done = [s \in Svcs |-> 0]
  /\ proc = [p \in Pids |-> "none"]
  /\ broken = FALSE
  /\ shutdown = FALSE
  /\ pc = "init"
  /\ svc = 1
  /\ i = 1
  /\ reaped = NoPid

\* fork_service_listener(svc, i): in the parent, pids[i] gets the new pid.
ForkListener(s, n, p) ==
  /\ proc[p] = "none"
  /\ proc' = [proc EXCEPT ![p] = "running"]
  /\ pids' = [pids EXCEPT ![<<s, n>>] = p]

\* stop_service_listeners starts with the first service's SIGTERM loop.
GoStop == pc' = "term" /\ svc' = 1 /\ i' = 1

----------------------------------------------------------------------------
(* Start-up: eds_serve, start_service_listeners.                           *)

\* eds_service_init and the allocation of pids[]; the failure of either stops
\* what was started so far.
InitService ==
  /\ pc = "init"
  /\ \/ /\ svc \in Svcs
        /\ alloc' = [alloc EXCEPT ![svc] = TRUE]
        /\ pids' = [x \in Slots |-> IF x[1] = svc THEN NoPid ELSE pids[x]]
        /\ pc' = "start"
        /\ i' = 1
        /\ UNCHANGED svc
     \/ svc \in Svcs /\ GoStop /\ UNCHANGED <<alloc, pids>>
     \/ svc \notin Svcs /\ pc' = "wait" /\ UNCHANGED <<alloc, pids, svc, i>>
  /\ UNCHANGED <<proc, broken, rateVars, shutdown, reaped>>

StartListener ==
  /\ pc = "start"
  /\ \/ /\ i \in Procs(svc)
        /\ \E p \in Pids : ForkListener(svc, i, p)
        /\ i' = i + 1
        /\ UNCHANGED <<pc, svc>>
     \/ i \in Procs(svc) /\ GoStop /\ UNCHANGED procVars
     \/ i \notin Procs(svc) /\ pc' = "init" /\ svc' = svc + 1 /\ UNCHANGED <<procVars, i>>
  /\ UNCHANGED <<alloc, broken, rateVars, shutdown, reaped>>

----------------------------------------------------------------------------
(* Supervision: supervise_service_listeners.                               *)

CallWait ==
  /\ pc = "wait"
  /\ pc' = "waiting"
  /\ UNCHANGED <<procVars, alloc, broken, rateVars, shutdown, svc, i, reaped>>

\* wait() returns a dead child, or fails because there is none.
WaitReturns ==
  /\ pc = "waiting"
  /\ \/ \E p \in Pids :
          /\ proc[p] = "zombie"
          /\ proc' = [proc EXCEPT ![p] = "none"]
          /\ reaped' = p
     \/ /\ \A p \in Pids : proc[p] = "none"
        /\ reaped' = NoPid
        /\ UNCHANGED proc
  /\ pc' = "returned"
  /\ UNCHANGED <<pids, alloc, broken, rateVars, shutdown, svc, i>>

\* The tests after wait(): the shutdown flag first, then its error.
CheckShutdown ==
  /\ pc = "returned"
  /\ IF shutdown \/ reaped = NoPid THEN GoStop ELSE pc' = "restart" /\ UNCHANGED <<svc, i>>
  /\ UNCHANGED <<procVars, alloc, broken, rateVars, shutdown, reaped>>

NextRestarts(s) == IF recent[s] THEN nrestarts[s] + 1 ELSE 1

\* Mutant of TooManyRestarts: the counter is compared with > instead of >=.
TooManyRestartsLoose(s) == recent[s] /\ nrestarts[s] + 1 > MaxRestarts

\* test_restart_interval: the counter restarts in every second that has a
\* restart, and the service is given up when it reaches the maximum.
TooManyRestarts(s) == recent[s] /\ nrestarts[s] + 1 >= MaxRestarts

\* Mutant of Restart: pids[] is not updated with the new pid.
RestartKeepPid ==
  /\ pc = "restart"
  /\ \E x \in Slots :
       /\ pids[x] = reaped
       /\ recent' = [recent EXCEPT ![x[1]] = TRUE]
       /\ nrestarts' = [nrestarts EXCEPT ![x[1]] = NextRestarts(x[1])]
       /\ IF TooManyRestarts(x[1])
          THEN GoStop /\ UNCHANGED <<procVars, done>>
          ELSE /\ pc' = "wait"
               /\ UNCHANGED <<svc, i>>
               /\ \E p \in Pids :
                       /\ proc[p] = "none"
                       /\ proc' = [proc EXCEPT ![p] = "running"]
                       /\ done' = [done EXCEPT ![x[1]] = @ + 1]
                       /\ UNCHANGED pids
  /\ UNCHANGED <<alloc, broken, shutdown, reaped>>

\* Mutant of Restart: the dead listener is forgotten.
RestartDropsService ==
  /\ pc = "restart"
  /\ pc' = "wait"
  /\ pids' = [x \in Slots |-> IF pids[x] = reaped THEN NoPid ELSE pids[x]]
  /\ UNCHANGED <<alloc, rateVars, proc, broken, shutdown, svc, i, reaped>>

\* The slot of the dead listener is cleared; the service is given up or the
\* listener forked again.  A failed fork() leaves the slot empty.
Restart ==
  /\ pc = "restart"
  /\ \/ \E x \in Slots :
          /\ pids[x] = reaped
          /\ recent' = [recent EXCEPT ![x[1]] = TRUE]
          /\ nrestarts' = [nrestarts EXCEPT ![x[1]] = NextRestarts(x[1])]
          /\ \/ /\ TooManyRestarts(x[1])
                /\ GoStop
                /\ pids' = [pids EXCEPT ![x] = NoPid]
                /\ UNCHANGED <<proc, done, broken>>
             \/ /\ ~TooManyRestarts(x[1])
                /\ \E p \in Pids : ForkListener(x[1], x[2], p)
                /\ done' = [done EXCEPT ![x[1]] = @ + 1]
                /\ pc' = "wait"
                /\ UNCHANGED <<svc, i, broken>>
             \/ /\ ~TooManyRestarts(x[1])
                /\ broken' = TRUE
                /\ pids' = [pids EXCEPT ![x] = NoPid]
                /\ pc' = "wait"
                /\ UNCHANGED <<proc, done, svc, i>>
     \/ /\ \A x \in Slots : pids[x] # reaped
        /\ pc' = "wait"
        /\ UNCHANGED <<procVars, rateVars, svc, i, broken>>
  /\ UNCHANGED <<alloc, shutdown, reaped>>

----------------------------------------------------------------------------
(* Shutdown: stop_service_listeners.                                       *)

\* The next round of a loop over services and their processes; services
\* without a pids[] are skipped.
Advance(l) ==
  IF i < NProcs[svc] /\ alloc[svc]
  THEN i' = i + 1 /\ UNCHANGED <<pc, svc>>
  ELSE IF svc < NSvcs
       THEN svc' = svc + 1 /\ i' = 1 /\ UNCHANGED pc
       ELSE pc' = l /\ svc' = 1 /\ i' = 1

Slot == <<svc, i>>

\* kill(2) of the processes in S, which become "asked" to stop (SIGTERM, which
\* a listener may act on late or never) or "dying" (SIGKILL).
Signal(S, how) == proc' = [p \in Pids |-> IF p \in S /\ proc[p] \in Alive THEN how ELSE proc[p]]

\* The round of the SIGTERM loop for one entry of pids[].
TermListener ==
  /\ pc = "term"
  /\ Signal(IF alloc[svc] THEN {pids[Slot]} \ {NoPid} ELSE {}, "asked")
  /\ Advance("sleep")
  /\ UNCHANGED <<pids, alloc, broken, rateVars, shutdown, reaped>>

SleepDone ==
  /\ pc = "sleep"
  /\ pc' = "kill"
  /\ UNCHANGED <<procVars, alloc, broken, rateVars, shutdown, svc, i, reaped>>

\* The entries of a service are freed after its last one.
FreePids == alloc' = [alloc EXCEPT ![svc] = @ /\ i < NProcs[svc]]

\* SIGKILL, without the test for -1 that the SIGTERM loop has: kill(-1) goes
\* to every process the user may signal, the listeners among them.
KillListener ==
  /\ pc = "kill"
  /\ IF alloc[svc]
     THEN /\ Signal(IF pids[Slot] = NoPid THEN Pids ELSE {pids[Slot]}, "dying")
          /\ pids' = [pids EXCEPT ![Slot] = NoPid]
     ELSE UNCHANGED procVars
  /\ FreePids
  /\ Advance("exit")
  /\ UNCHANGED <<broken, rateVars, shutdown, reaped>>

Supervise ==
  \/ InitService \/ StartListener \/ CallWait \/ WaitReturns \/ CheckShutdown
  \/ Restart \/ TermListener \/ SleepDone \/ KillListener

----------------------------------------------------------------------------
(* The environment.                                                        *)

\* A listener terminates: it fails, is killed, or leaves its main loop.
Die(p) ==
  /\ proc[p] \in Alive \cup {"dying"}
  /\ proc' = [proc EXCEPT ![p] = "zombie"]
  /\ UNCHANGED <<pids, alloc, broken, rateVars, shutdown, pc, svc, i, reaped>>

\* SIGTERM to the supervisor sets the flag and interrupts wait().
Shutdown ==
  /\ ~shutdown
  /\ pc \notin Stopping
  /\ shutdown' = TRUE
  /\ pc' = IF pc = "waiting" THEN "returned" ELSE pc
  /\ reaped' = IF pc = "waiting" THEN NoPid ELSE reaped
  /\ UNCHANGED <<procVars, alloc, broken, rateVars, svc, i>>

\* The wall clock reaches the next second.
Second ==
  /\ \E s \in Svcs : recent[s]
  /\ recent' = [s \in Svcs |-> FALSE]
  /\ done' = [s \in Svcs |-> 0]
  /\ UNCHANGED <<procVars, alloc, broken, nrestarts, shutdown, pc, svc, i, reaped>>

Finished ==
  /\ pc = "exit"
  /\ UNCHANGED vars

Next ==
  \/ Supervise
  \/ \E p \in Pids : Die(p)
  \/ Shutdown
  \/ Second
  \/ Finished

Spec == Init /\ [][Next]_vars

\* The supervisor runs, time passes, and wait() does not return other children
\* for ever while one is dead (the kernel scans them in order).
FairSpec ==
  /\ Spec
  /\ WF_vars(Supervise)
  /\ WF_vars(Second)
  /\ \A p \in Pids : SF_vars(WaitReturns /\ reaped' = p)

----------------------------------------------------------------------------
(* Properties.                                                             *)

\* Every variable stays in its domain.
TypeOK ==
  /\ pids \in [Slots -> Pids \cup {NoPid}]
  /\ alloc \in [Svcs -> BOOLEAN]
  /\ recent \in [Svcs -> BOOLEAN]
  /\ nrestarts \in [Svcs -> Nat]
  /\ done \in [Svcs -> Nat]
  /\ proc \in [Pids -> Alive \cup {"none", "dying", "zombie"}]
  /\ broken \in BOOLEAN
  /\ shutdown \in BOOLEAN
  /\ pc \in Pcs
  /\ svc \in 1..(NSvcs + 1)
  /\ i \in Nat \ {0}
  /\ pc \in {"term", "kill"} => Slot \in Slots
  /\ reaped \in Pids \cup {NoPid}

\* Until the supervisor stops, every listener process is in exactly one slot
\* of pids[]: the only way stop_service_listeners or a restart can reach it.
ListenersRecorded ==
  pc \notin Stopping =>
    \A p \in Pids : proc[p] # "none" =>
      \E x \in Slots : pids[x] = p /\ \A y \in Slots : pids[y] = p => y = x

\* A service is restarted less than MAX_SERVICE_RESTARTS_PER_SEC times within
\* one second: the restart that would be the last of them gives it up instead,
\* whichever of its listeners die and however the seconds pass in between.
RestartRate == \A s \in Svcs : done[s] < MaxRestarts

\* When the supervisor exits, no listener is left running.
NoneLeftRunning == pc = "exit" => \A p \in Pids : proc[p] \notin Alive

\* No listener gets out of reach: start, restart and stop, interleaved with
\* deaths, never leave a process that pids[] does not name, and so none
\* survives the supervisor.
ListenersReachable == ListenersRecorded /\ NoneLeftRunning

\* As long as fork() works, a listener that terminates is replaced, unless
\* the supervisor stops; that several die at once or while another is being
\* restarted loses none of them.
DeadReplaced ==
  \A x \in Slots :
    (pids[x] # NoPid /\ proc[pids[x]] = "zombie") ~>
      (broken \/ pc \in Stopping \/ (pids[x] # NoPid /\ proc[pids[x]] = "running"))

\* "Terminated service processes are always restarted by the supervisor
\* process" (eds.h): a terminated listener is replaced as long as the
\* supervisor is not told to shut down and does not stop.
AlwaysRestarted ==
  \A x \in Slots :
    (pc \notin {"init", "start"} /\ pids[x] = NoPid) ~>
      (pc \in Stopping \/ pids[x] # NoPid)

============================================================================
