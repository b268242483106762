-------------------------------- MODULE Sc2 --------------------------------
(***************************************************************************)
(* The SCGI server sc2 (apps/sc2/main.c): one process that polls a listen  *)
(* socket, forks one child per request into a table of MaxReqs slots, and  *)
(* kills the children that outlive Lifetime.  Children are reaped by the   *)
(* SIGCHLD handler, which preempts the main loop between any two of its    *)
(* steps unless the signal is masked.                                      *)
(***************************************************************************)
EXTENDS Integers, FiniteSets

CONSTANTS
  MaxReqs,    \* opts.maxreqs, the number of request slots
  Lifetime,   \* opts.lifetime, in ticks of the clock
  Pids,       \* the process ids the kernel hands out
  NoPid,      \* the pid 0 of a free slot
  ReusePids   \* may fork() return the pid of a reaped child whose slot
              \* sc2_reset_reaped has not cleared yet?

ASSUME Sc2Assumption ==
  /\ MaxReqs \in Nat \ {0}
  /\ Lifetime \in Nat
  /\ NoPid \notin Pids
  /\ IsFiniteSet(Pids)
  /\ ReusePids \in BOOLEAN

VARIABLES
  pid,        \* children[i].pid
  waited,     \* children[i].flags & SC2CHLD_WAITED
  age,        \* ticks since children[i].started, saturating at Lifetime
  used,       \* ctx->used
  proc,       \* the kernel's view of every child process
  pc,         \* where the main loop is
  idx,        \* loop index of sc2_check_procs and sc2_reset_reaped
  cur,        \* the pid about to be killed or just forked
  masked,     \* SIGCHLD is blocked
  pending,    \* SIGCHLD is pending
  handling,   \* the SIGCHLD handler is running
  term        \* term_

slotVars == <<pid, waited, age, used>>
sigVars == <<masked, pending, handling>>
vars == <<pid, waited, age, used, proc, pc, idx, cur, masked, pending, handling, term>>

Slots == 1..MaxReqs
Occupied == {s \in Slots : pid[s] # NoPid}
Children == {p \in Pids : proc[p] # "none"}
Halted == {"stopped", "abort"}
Blocked == {"sleep", "poll"}
MainPcs == {"check", "kill", "reset", "term", "capacity", "sleep", "poll",
            "accept", "fork", "register"} \cup Halted

Init ==
  /\ pid = [s \in Slots |-> NoPid]
  /\ waited = [s \in Slots |-> FALSE]
  /\ age = [s \in Slots |-> 0]
  /\ used = 0
  /\ proc = [p \in Pids |-> "none"]
  /\ pc = "check"
  /\ idx = 1
  /\ cur = NoPid
  /\ masked = FALSE
  /\ pending = FALSE
  /\ handling = FALSE
  /\ term = FALSE

----------------------------------------------------------------------------
(* The main loop.  It does not run while a signal handler does.            *)

MainAt(l) == ~handling /\ pc = l

Overdue(s) == pid[s] # NoPid /\ ~waited[s] /\ age[s] >= Lifetime

\* One round of the loop of sc2_check_procs.  nleft is only tested, never
\* decremented: it skips the loop when no slot is used.
CheckProc ==
  /\ MainAt("check")
  /\ IF used > 0 /\ idx \in Slots
     THEN IF Overdue(idx)
          THEN cur' = pid[idx] /\ pc' = "kill" /\ UNCHANGED idx
          ELSE idx' = idx + 1 /\ UNCHANGED <<cur, pc>>
     ELSE pc' = "reset" /\ idx' = 1 /\ UNCHANGED cur
  /\ UNCHANGED <<slotVars, proc, sigVars, term>>

\* kill(child->pid, SIGKILL): the pid was read before, in CheckProc.
KillProc ==
  /\ MainAt("kill")
  /\ proc' = IF proc[cur] = "running" THEN [proc EXCEPT ![cur] = "killed"] ELSE proc
  /\ idx' = idx + 1
  /\ pc' = "check"
  /\ UNCHANGED <<slotVars, cur, sigVars, term>>

\* Mutant of ResetReaped: used is not decremented.
ResetReapedNoDecrement ==
  /\ MainAt("reset")
  /\ IF idx \in Slots
     THEN /\ IF waited[idx]
             THEN /\ pid' = [pid EXCEPT ![idx] = NoPid]
                  /\ waited' = [waited EXCEPT ![idx] = FALSE]
             ELSE UNCHANGED <<pid, waited>>
          /\ idx' = idx + 1
          /\ UNCHANGED <<pc, used>>
     ELSE pc' = "term" /\ idx' = 1 /\ UNCHANGED <<pid, waited, used>>
  /\ UNCHANGED <<age, proc, cur, sigVars, term>>

\* One round of the loop of sc2_reset_reaped: a child the handler has waited
\* for gives its slot back.
ResetReaped ==
  /\ MainAt("reset")
  /\ IF idx \in Slots
     THEN /\ IF waited[idx]
             THEN /\ used' = used - 1
                  /\ pid' = [pid EXCEPT ![idx] = NoPid]
                  /\ waited' = [waited EXCEPT ![idx] = FALSE]
             ELSE UNCHANGED <<pid, waited, used>>
          /\ idx' = idx + 1
          /\ UNCHANGED pc
     ELSE pc' = "term" /\ idx' = 1 /\ UNCHANGED <<pid, waited, used>>
  /\ UNCHANGED <<age, proc, cur, sigVars, term>>

TermCheck ==
  /\ MainAt("term")
  /\ pc' = IF term THEN "stopped" ELSE "capacity"
  /\ UNCHANGED <<slotVars, proc, idx, cur, sigVars, term>>

\* Mutant of Capacity: one request too many.
CapacityOffByOne ==
  /\ MainAt("capacity")
  /\ pc' = IF used > MaxReqs THEN "sleep" ELSE "poll"
  /\ UNCHANGED <<slotVars, proc, idx, cur, sigVars, term>>

\* At capacity the loop sleeps, else it enters poll().
Capacity ==
  /\ MainAt("capacity")
  /\ pc' = IF used >= MaxReqs THEN "sleep" ELSE "poll"
  /\ UNCHANGED <<slotVars, proc, idx, cur, sigVars, term>>

SleepDone ==
  /\ MainAt("sleep")
  /\ pc' = "check"
  /\ UNCHANGED <<slotVars, proc, idx, cur, sigVars, term>>

\* Mutant of PollTimeout: poll() always waits for ever.
PollTimeoutNever ==
  /\ MainAt("poll")
  /\ used < 0
  /\ pc' = "check"
  /\ UNCHANGED <<slotVars, proc, idx, cur, sigVars, term>>

\* poll() has a timeout only when there are children to watch.
PollTimeout ==
  /\ MainAt("poll")
  /\ used > 0
  /\ pc' = "check"
  /\ UNCHANGED <<slotVars, proc, idx, cur, sigVars, term>>

\* poll() reports a connection, or an error that ends the server.
PollReady ==
  /\ MainAt("poll")
  /\ pc' \in {"accept", "stopped"}
  /\ UNCHANGED <<slotVars, proc, idx, cur, sigVars, term>>

\* accept() and clock_gettime(); the failure of either ends the server.
Accept ==
  /\ MainAt("accept")
  /\ pc' \in {"fork", "stopped"}
  /\ UNCHANGED <<slotVars, proc, idx, cur, sigVars, term>>

\* fork() returns a pid no process has.  Pid numbers are handed out round
\* robin, so one a slot still names comes back only when ReusePids.
FreshPids ==
  {p \in Pids : proc[p] = "none" /\ (ReusePids \/ \A s \in Slots : pid[s] # p)}

\* Mutant of Fork: SIGCHLD is not masked.
ForkUnmasked ==
  /\ MainAt("fork")
  /\ \E p \in FreshPids :
       /\ proc' = [proc EXCEPT ![p] = "running"]
       /\ cur' = p
  /\ pc' = "register"
  /\ UNCHANGED <<slotVars, idx, sigVars, term>>

\* SIGCHLD is masked around fork() and the registration of the child.
Fork ==
  /\ MainAt("fork")
  /\ \E p \in FreshPids :
       /\ proc' = [proc EXCEPT ![p] = "running"]
       /\ cur' = p
  /\ masked' = TRUE
  /\ pc' = "register"
  /\ UNCHANGED <<slotVars, idx, pending, handling, term>>

\* A failed fork() is undone by unmasking SIGCHLD; sc2_serve then returns.
ForkFails ==
  /\ MainAt("fork")
  /\ pc' = "stopped"
  /\ UNCHANGED <<slotVars, proc, idx, cur, sigVars, term>>

\* s is where a search of children[] for pid p stops.
FirstWith(s, p) == pid[s] = p /\ \A t \in 1..(s - 1) : pid[t] # p

\* The rest of sc2_serve_incoming in the parent: take the first free slot,
\* count it, unmask SIGCHLD, and assert that there was a free slot.
Register ==
  /\ MainAt("register")
  /\ \/ /\ Occupied = Slots
        /\ pc' = "abort"
        /\ UNCHANGED <<pid, waited, age>>
     \/ \E s \in Slots :
          /\ FirstWith(s, NoPid)
          /\ pid' = [pid EXCEPT ![s] = cur]
          /\ waited' = [waited EXCEPT ![s] = FALSE]
          /\ age' = [age EXCEPT ![s] = 0]
          /\ pc' = "check"
  /\ used' = used + 1
  /\ masked' = FALSE
  /\ idx' = 1
  /\ UNCHANGED <<proc, cur, pending, handling, term>>

MainStep ==
  \/ CheckProc \/ KillProc \/ ResetReaped \/ TermCheck \/ Capacity
  \/ SleepDone \/ PollTimeout \/ Accept \/ Fork \/ ForkFails \/ Register

----------------------------------------------------------------------------
(* The SIGCHLD handler (on_sigchld, sc2_reap_children).                    *)

HandlerEnter ==
  /\ pending /\ ~masked /\ ~handling
  /\ pc \notin Halted
  /\ pending' = FALSE
  /\ handling' = TRUE
  /\ UNCHANGED <<slotVars, proc, pc, idx, cur, masked, term>>

\* One waitpid(-1, WNOHANG) that returns p, the marking of its slot, and the
\* assert that p is a registered child.
Reap(p) ==
  /\ handling
  /\ proc[p] = "zombie"
  /\ proc' = [proc EXCEPT ![p] = "none"]
  /\ \/ /\ \A s \in Slots : pid[s] # p
        /\ pc' = "abort"
        /\ handling' = FALSE
        /\ UNCHANGED waited
     \/ \E s \in Slots :
          /\ FirstWith(s, p)
          /\ waited' = [waited EXCEPT ![s] = TRUE]
          /\ UNCHANGED <<pc, handling>>
  /\ UNCHANGED <<pid, age, used, idx, cur, masked, pending, term>>

\* waitpid() finds no more zombies.  A blocking call the handler interrupted
\* returns early, and the main loop starts over.
HandlerReturn ==
  /\ handling
  /\ \A p \in Pids : proc[p] # "zombie"
  /\ handling' = FALSE
  /\ pc' = IF pc \in Blocked THEN "check" ELSE pc
  /\ UNCHANGED <<slotVars, proc, idx, cur, masked, pending, term>>

HandlerStep == HandlerEnter \/ (\E p \in Pids : Reap(p)) \/ HandlerReturn

----------------------------------------------------------------------------
(* The environment: children, clock and signals.                           *)

\* A child exits by itself or dies of SIGKILL, and SIGCHLD is raised.
Exit(p) ==
  /\ proc[p] \in {"running", "killed"}
  /\ proc' = [proc EXCEPT ![p] = "zombie"]
  /\ pending' = TRUE
  /\ UNCHANGED <<slotVars, pc, idx, cur, masked, handling, term>>

Tick ==
  /\ \E s \in Occupied : age[s] < Lifetime
  /\ age' = [s \in Slots |-> IF pid[s] # NoPid /\ age[s] < Lifetime
                             THEN age[s] + 1 ELSE age[s]]
  /\ UNCHANGED <<pid, waited, used, proc, pc, idx, cur, sigVars, term>>

\* SIGTERM, SIGHUP or SIGINT: on_term sets term_ and interrupts a blocking call.
Terminate ==
  /\ ~term
  /\ pc \notin Halted
  /\ term' = TRUE
  /\ pc' = IF pc \in Blocked THEN "check" ELSE pc
  /\ UNCHANGED <<slotVars, proc, idx, cur, sigVars>>

Finished ==
  /\ pc \in Halted
  /\ UNCHANGED vars

Next ==
  \/ MainStep
  \/ PollReady
  \/ HandlerStep
  \/ \E p \in Pids : Exit(p)
  \/ Tick
  \/ Terminate
  \/ Finished

\* The process is scheduled, its timeouts fire, the clock runs, and a child
\* that got SIGKILL dies.  Nothing promises a connection or a child's own exit.
Fairness ==
  /\ WF_vars(MainStep)
  /\ WF_vars(HandlerStep)
  /\ WF_vars(Tick)
  /\ \A p \in Pids : WF_vars(proc[p] = "killed" /\ Exit(p))

Spec == Init /\ [][Next]_vars
FairSpec == Spec /\ Fairness

----------------------------------------------------------------------------
(* Properties.                                                             *)

\* Every variable stays in its domain.
TypeOK ==
  /\ pid \in [Slots -> Pids \cup {NoPid}]
  /\ waited \in [Slots -> BOOLEAN]
  /\ age \in [Slots -> 0..Lifetime]
  /\ used \in Int
  /\ proc \in [Pids -> {"none", "running", "killed", "zombie"}]
  /\ pc \in MainPcs
  /\ idx \in 1..(MaxReqs + 1)
  /\ cur \in Pids \cup {NoPid}
  /\ masked \in BOOLEAN
  /\ pending \in BOOLEAN
  /\ handling \in BOOLEAN
  /\ term \in BOOLEAN

\* ctx->used, which decides whether sc2 accepts a connection, always equals
\* the number of slots that name a child, whatever the handler interrupts.
SlotAccounting == used = Cardinality(Occupied)

\* Neither assert fails: sc2_serve_incoming always finds a free slot, and the
\* handler never reaps a child that is not registered.
NoAbort == pc # "abort"

\* maxreqs is "Maximum number of concurrent requests": there are never more
\* unreaped children than slots, even counting the one being registered.
NoOvercommit == Cardinality(Children) <= MaxReqs

\* When a pid is not handed out again while a slot names it, a slot that is
\* not marked WAITED belongs to an unreaped child: no slot is lost, and the
\* lifetime check of that slot looks at a child of this server.
NoSlotLeak ==
  ~ReusePids => \A s \in Occupied : ~waited[s] => proc[pid[s]] # "none"

\* The slot table, the counter and the kernel agree at every point where the
\* handler can run: no slot is counted twice, forgotten, or kept for a child
\* that is gone.
SlotTable == SlotAccounting /\ NoSlotLeak

\* Every unreaped child is the one being registered or has an unmarked slot.
ChildrenCovered ==
  \A p \in Children :
    \/ pc = "register" /\ p = cur
    \/ \E s \in Slots : pid[s] = p /\ ~waited[s]

\* With fresh pids, no two slots, and no slot and a new child, share a pid.
PidsDistinct ==
  ~ReusePids =>
    /\ \A s, t \in Occupied : pid[s] = pid[t] => s = t
    /\ pc = "register" => \A s \in Slots : pid[s] # cur

\* The inductive invariant behind the safety properties: it relates the
\* slots to the kernel's processes at every point where the handler can run,
\* and says that the loop reaches fork() only with a free slot and registers
\* only with SIGCHLD masked.
IInv ==
  /\ TypeOK
  /\ SlotAccounting
  /\ NoAbort
  /\ ChildrenCovered
  /\ \A s \in Slots : waited[s] => pid[s] # NoPid
  /\ pc \in {"poll", "accept", "fork", "register"} => used < MaxReqs
  /\ pc = "register" => masked /\ ~handling /\ cur \in Pids /\ proc[cur] # "none"
  /\ pc = "kill" => cur \in Pids /\ idx \in Slots
  /\ PidsDistinct
  /\ NoSlotLeak

\* A slot in use is given back: a child that does not exit is killed when it
\* is overdue, reaped by the handler, and its slot reset, unless the server
\* stops.
SlotsReturn ==
  \A s \in Slots : (s \in Occupied) ~> (s \notin Occupied \/ pc \in Halted)

\* "break the main loop on requested termination" (sc2_serve): after SIGTERM
\* the server stops.
TermStops == term ~> (pc = "stopped")
============================================================================
