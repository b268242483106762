------------------------ MODULE EdsSupervisorProofs ------------------------
(***************************************************************************)
(* Proofs that the supervisor of eds keeps track of every listener and     *)
(* limits restarts, for any service table, any number of processes of each *)
(* service, any limit and any set of process ids.                          *)
(***************************************************************************)
EXTENDS EdsSupervisor, TLAPS

\* A leaf that names no prover is for Zenon.
USE ZenonT(40)

\* The restarts of this second are counted by superv.nrestarts.
RateInv ==
  \A s \in Svcs :
    /\ ~recent[s] => done[s] = 0
    /\ recent[s] => done[s] <= nrestarts[s]
    /\ done[s] < MaxRestarts

\* The slots that start_service_listeners has yet to fill are empty.
StartInv ==
  /\ pc \in {"init", "start"} =>
       \A x \in Slots :
         (x[1] > svc \/ (x[1] = svc /\ (pc = "init" \/ x[2] >= i))) => pids[x] = NoPid
  /\ pc = "start" => svc \in Svcs /\ alloc[svc]

\* The pid that wait() returned is free for the kernel to give out again.
ReapedInv ==
  /\ pc \in {"returned", "restart"} /\ reaped # NoPid => proc[reaped] = "none"
  /\ pc = "restart" => reaped # NoPid

\* pids[] while the supervisor runs: every process has a slot, of a service
\* that is allocated, no two slots name the same one, and only the slot of
\* the process that was just waited for is out of date.
TableInv ==
  /\ \A p \in Pids : proc[p] # "none" => \E x \in Slots : pids[x] = p
  /\ \A x, y \in Slots : pids[x] = pids[y] /\ pids[x] # NoPid => x = y
  /\ \A x \in Slots : pids[x] # NoPid =>
       /\ alloc[x[1]]
       /\ proc[pids[x]] # "none" \/ (pc \in {"returned", "restart"} /\ pids[x] = reaped)

\* While it stops: the processes that run are in slots that the SIGKILL loop
\* has yet to come to.
Ahead(x) == x[1] > svc \/ (x[1] = svc /\ x[2] >= i)
StopInv ==
  /\ pc \in Stopping \ {"exit"} =>
       \A p \in Pids : proc[p] \in Alive =>
         \E x \in Slots : pids[x] = p /\ alloc[x[1]] /\ (pc = "kill" => Ahead(x))
  /\ pc = "exit" => \A p \in Pids : proc[p] \notin Alive
  /\ pc = "sleep" => svc = 1 /\ i = 1

IInv ==
  /\ TypeOK
  /\ RateInv
  /\ pc \notin Stopping => StartInv /\ ReapedInv /\ TableInv
  /\ StopInv

----------------------------------------------------------------------------

\* A slot is a service and the number of one of its processes.
LEMMA SlotPairs ==
  /\ \A s \in Svcs : \A n \in Procs(s) : <<s, n>> \in Slots
  /\ \A x \in Slots : x[1] \in Svcs /\ x[2] \in Procs(x[1]) /\ x = <<x[1], x[2]>>
BY SMTT(30) DEF Slots

\* The supervisor starts with no child and every slot to start (eds.c).
LEMMA InitIInv == Init => IInv
<1> SUFFICES ASSUME Init PROVE IInv
  OBVIOUS
<1> USE SupervisorAssumption DEF Init
<1>1. TypeOK
  <2>1. alloc \in [Svcs -> BOOLEAN] /\ recent \in [Svcs -> BOOLEAN]
    OBVIOUS
  <2>2. /\ nrestarts \in [Svcs -> Nat] /\ done \in [Svcs -> Nat]
        /\ svc \in 1..(NSvcs + 1) /\ i \in Nat \ {0}
    BY SMTT(30)
  <2> QED
    BY <2>1, <2>2 DEF TypeOK, Pcs, Alive
<1>2. RateInv
  BY SMTT(30) DEF RateInv
<1>3. StartInv /\ ReapedInv /\ TableInv /\ StopInv
  BY DEF StartInv, ReapedInv, TableInv, StopInv, Stopping
<1> QED
  BY <1>1, <1>2, <1>3 DEF IInv

\* GoStop, and the rounds of the loops of stop_service_listeners, stay inside
\* pids[].
LEMMA LoopTypes ==
  ASSUME TypeOK, pc' \in Pcs
  PROVE  /\ GoStop => /\ svc' \in 1..(NSvcs + 1) /\ i' \in Nat \ {0}
                      /\ <<svc', i'>> \in Slots
         /\ \A l \in {"sleep", "exit"} :
              pc \in {"term", "kill"} /\ Advance(l) =>
                /\ svc' \in 1..(NSvcs + 1) /\ i' \in Nat \ {0}
                /\ <<svc', i'>> \in Slots
<1> USE SupervisorAssumption
<1>1. <<1, 1>> \in Slots
  BY SlotPairs, SMTT(30) DEF Svcs, Procs
<1>2. GoStop => /\ svc' \in 1..(NSvcs + 1) /\ i' \in Nat \ {0}
                /\ <<svc', i'>> \in Slots
  BY <1>1, SMTT(30) DEF GoStop
<1>3. ASSUME NEW l \in {"sleep", "exit"}, pc \in {"term", "kill"}, Advance(l)
      PROVE  /\ svc' \in 1..(NSvcs + 1) /\ i' \in Nat \ {0}
             /\ <<svc', i'>> \in Slots
  <2>1. Slot \in Slots /\ svc \in Svcs /\ i \in Procs(svc)
    BY <1>3, SlotPairs DEF TypeOK, Slot
  <2>2. \A s \in Svcs : NProcs[s] \in Nat \ {0}
    BY DEF Svcs
  <2>3. CASE i < NProcs[svc] /\ alloc[svc]
    <3>1. i' = i + 1 /\ svc' = svc /\ i + 1 \in Procs(svc)
      BY <1>3, <2>1, <2>2, <2>3, SMTT(30) DEF Advance, Procs, Svcs
    <3> QED
      BY <2>1, <3>1, SlotPairs, SMTT(30) DEF Svcs, Procs
  <2>4. CASE ~(i < NProcs[svc] /\ alloc[svc]) /\ svc < NSvcs
    <3>1. i' = 1 /\ svc' = svc + 1 /\ svc + 1 \in Svcs /\ 1 \in Procs(svc + 1)
      BY <1>3, <2>1, <2>2, <2>4, SMTT(30) DEF Advance, Procs, Svcs
    <3> QED
      BY <2>1, <3>1, SlotPairs, SMTT(30) DEF Svcs
  <2>5. CASE ~(i < NProcs[svc] /\ alloc[svc]) /\ ~(svc < NSvcs)
    BY <1>3, <1>1, <2>5, SMTT(30) DEF Advance
  <2> QED
    BY <2>3, <2>4, <2>5
<1> QED
  BY <1>2, <1>3

\* A step of any kind preserves the type invariant.
LEMMA TypeStep == IInv /\ [Next]_vars => TypeOK'
<1> SUFFICES ASSUME IInv, [Next]_vars PROVE TypeOK'
  OBVIOUS
<1> USE SupervisorAssumption DEF procVars, rateVars
<1>t. TypeOK
  BY DEF IInv
<1>p. pc' \in Pcs
  <2> USE <1>t DEF TypeOK, Pcs, Stopping, GoStop, Advance
  <2>1. CASE InitService \/ StartListener \/ CallWait \/ WaitReturns \/ CheckShutdown
    BY <2>1 DEF InitService, StartListener, CallWait, WaitReturns, CheckShutdown
  <2>2. CASE Restart
    BY <2>2 DEF Restart
  <2>3. CASE TermListener \/ SleepDone \/ KillListener
    BY <2>3 DEF TermListener, SleepDone, KillListener
  <2>4. CASE (\E p \in Pids : Die(p)) \/ Shutdown \/ Second \/ Finished \/ UNCHANGED vars
    BY <2>4 DEF Die, Shutdown, Second, Finished, vars
  <2> QED
    BY <2>1, <2>2, <2>3, <2>4 DEF Next, Supervise
<1>1. CASE InitService
  <2>1. alloc' \in [Svcs -> BOOLEAN]
    BY <1>1, <1>t DEF InitService, TypeOK
  <2>2. pids' \in [Slots -> Pids \cup {NoPid}]
    BY <1>1, <1>t DEF InitService, TypeOK
  <2>3. svc' \in 1..(NSvcs + 1) /\ i' \in Nat \ {0}
    BY <1>1, <1>t, <1>p, LoopTypes, SMTT(30) DEF InitService, TypeOK
  <2>4. pc' \in {"term", "kill"} => Slot' \in Slots
    BY <1>1, <1>p, <1>t, LoopTypes DEF InitService, Slot
  <2> QED
    BY <1>1, <1>t, <1>p, <2>1, <2>2, <2>3, <2>4 DEF InitService, TypeOK
<1>2. CASE StartListener
  <2>1. pids' \in [Slots -> Pids \cup {NoPid}]
        /\ proc' \in [Pids -> Alive \cup {"none", "dying", "zombie"}]
    <3>1. \/ UNCHANGED procVars
          \/ \E p \in Pids : /\ proc' = [proc EXCEPT ![p] = "running"]
                             /\ pids' = [pids EXCEPT ![<<svc, i>>] = p]
      BY <1>2 DEF StartListener, ForkListener
    <3>2. CASE UNCHANGED procVars
      BY <1>t, <3>2 DEF TypeOK, procVars
    <3>3. ASSUME NEW p \in Pids, proc' = [proc EXCEPT ![p] = "running"],
                 pids' = [pids EXCEPT ![<<svc, i>>] = p]
          PROVE  /\ pids' \in [Slots -> Pids \cup {NoPid}]
                 /\ proc' \in [Pids -> Alive \cup {"none", "dying", "zombie"}]
      BY <1>t, <3>3 DEF TypeOK, Alive
    <3> QED
      BY <3>1, <3>2, <3>3
  <2>2. svc' \in 1..(NSvcs + 1) /\ i' \in Nat \ {0}
    BY <1>2, <1>t, <1>p, LoopTypes, SMTT(30) DEF StartListener, TypeOK, IInv, StartInv, Stopping, Svcs
  <2>3. pc' \in {"term", "kill"} => Slot' \in Slots
    BY <1>2, <1>p, <1>t, LoopTypes DEF StartListener, Slot
  <2> QED
    BY <1>2, <1>t, <1>p, <2>1, <2>2, <2>3 DEF StartListener, TypeOK
<1>3. CASE CallWait
  BY <1>3, <1>t, <1>p DEF CallWait, TypeOK
<1>4. CASE WaitReturns
  <2>1. /\ reaped' \in Pids \cup {NoPid}
        /\ proc' \in [Pids -> Alive \cup {"none", "dying", "zombie"}]
    BY <1>4, <1>t DEF WaitReturns, TypeOK
  <2> QED
    BY <1>4, <1>t, <1>p, <2>1 DEF WaitReturns, TypeOK
<1>5. CASE CheckShutdown
  <2>1. /\ svc' \in 1..(NSvcs + 1) /\ i' \in Nat \ {0}
        /\ pc' \in {"term", "kill"} => Slot' \in Slots
    BY <1>5, <1>t, <1>p, LoopTypes DEF CheckShutdown, TypeOK, Slot
  <2> QED
    BY <1>5, <1>t, <1>p, <2>1 DEF CheckShutdown, TypeOK
<1>6. CASE Restart
  <2>1. CASE \A x \in Slots : pids[x] # reaped
    BY <2>1, <1>6, <1>t, <1>p DEF Restart, TypeOK
  <2>2. CASE \E x \in Slots : pids[x] = reaped
    <3>1. PICK x \in Slots :
          /\ recent' = [recent EXCEPT ![x[1]] = TRUE]
          /\ nrestarts' = [nrestarts EXCEPT ![x[1]] = NextRestarts(x[1])]
          /\ \/ /\ GoStop
                /\ pids' = [pids EXCEPT ![x] = NoPid]
                /\ UNCHANGED <<proc, done, broken>>
             \/ /\ \E p \in Pids : ForkListener(x[1], x[2], p)
                /\ done' = [done EXCEPT ![x[1]] = @ + 1]
                /\ pc' = "wait"
                /\ UNCHANGED <<svc, i, broken>>
             \/ /\ broken' = TRUE
                /\ pids' = [pids EXCEPT ![x] = NoPid]
                /\ pc' = "wait"
                /\ UNCHANGED <<proc, done, svc, i>>
      BY <2>2, <1>6 DEF Restart
    <3>2. x[1] \in Svcs /\ <<x[1], x[2]>> \in Slots
      BY SlotPairs
    <3>3. recent' \in [Svcs -> BOOLEAN]
      BY <1>t, <3>1 DEF TypeOK
    <3>a. /\ nrestarts' = [nrestarts EXCEPT ![x[1]] = NextRestarts(x[1])]
          /\ done' \in {done, [done EXCEPT ![x[1]] = @ + 1]}
      BY <3>1
    <3>b. \/ UNCHANGED proc /\ pids' = [pids EXCEPT ![x] = NoPid]
          \/ \E p \in Pids : ForkListener(x[1], x[2], p)
      BY <3>1
    <3>4. nrestarts' \in [Svcs -> Nat] /\ done' \in [Svcs -> Nat]
      BY <1>t, <3>a, <3>2, SMTT(30) DEF TypeOK, NextRestarts
    <3>5. /\ pids' \in [Slots -> Pids \cup {NoPid}]
          /\ proc' \in [Pids -> Alive \cup {"none", "dying", "zombie"}]
      <4>1. CASE UNCHANGED proc /\ pids' = [pids EXCEPT ![x] = NoPid]
        BY <4>1, <1>t DEF TypeOK
      <4>2. CASE \E p \in Pids : ForkListener(x[1], x[2], p)
        <5> PICK p \in Pids : ForkListener(x[1], x[2], p)
          BY <4>2
        <5>1. pids' = [pids EXCEPT ![<<x[1], x[2]>>] = p] /\ proc' = [proc EXCEPT ![p] = "running"]
          BY DEF ForkListener
        <5> QED
          BY <5>1, <1>t DEF TypeOK, Alive
      <4> QED
        BY <3>b, <4>1, <4>2
    <3>6. /\ svc' \in 1..(NSvcs + 1) /\ i' \in Nat \ {0}
          /\ pc' \in {"term", "kill"} => Slot' \in Slots
      BY <3>1, <1>t, <1>p, LoopTypes DEF TypeOK, Slot
    <3>7. broken' \in BOOLEAN
      BY <3>1, <1>t DEF TypeOK
    <3>8. UNCHANGED <<alloc, shutdown, reaped>>
      BY <1>6 DEF Restart
    <3> QED
      BY <1>t, <1>p, <3>3, <3>4, <3>5, <3>6, <3>7, <3>8 DEF TypeOK
  <2> QED
    BY <2>1, <2>2
<1>7. CASE TermListener
  <2>1. /\ svc' \in 1..(NSvcs + 1) /\ i' \in Nat \ {0}
        /\ Slot' \in Slots
    BY <1>7, <1>t, <1>p, LoopTypes DEF TermListener, Slot
  <2>2. proc' \in [Pids -> Alive \cup {"none", "dying", "zombie"}]
    BY <1>7, <1>t DEF TermListener, Signal, TypeOK, Alive
  <2> QED
    BY <1>7, <1>t, <1>p, <2>1, <2>2 DEF TermListener, TypeOK
<1>8. CASE SleepDone
  <2>1. <<1, 1>> \in Slots /\ svc = 1 /\ i = 1
    BY <1>8, SlotPairs, SMTT(30) DEF SleepDone, IInv, StopInv, Svcs, Procs
  <2> QED
    BY <1>8, <1>t, <1>p, <2>1 DEF SleepDone, TypeOK, Slot
<1>9. CASE KillListener
  <2>1. /\ svc' \in 1..(NSvcs + 1) /\ i' \in Nat \ {0}
        /\ Slot' \in Slots
    BY <1>9, <1>t, <1>p, LoopTypes DEF KillListener, Slot
  <2>2. /\ proc' \in [Pids -> Alive \cup {"none", "dying", "zombie"}]
        /\ pids' \in [Slots -> Pids \cup {NoPid}]
    BY <1>9, <1>t DEF KillListener, Signal, TypeOK, Alive
  <2>3. alloc' \in [Svcs -> BOOLEAN]
    BY <1>9, <1>t DEF KillListener, FreePids, TypeOK
  <2> QED
    BY <1>9, <1>t, <1>p, <2>1, <2>2, <2>3 DEF KillListener, TypeOK
<1>10. ASSUME NEW p \in Pids, Die(p) PROVE TypeOK'
  <2>1. proc' \in [Pids -> Alive \cup {"none", "dying", "zombie"}]
    BY <1>10, <1>t DEF Die, TypeOK
  <2> QED
    BY <1>10, <1>t, <1>p, <2>1 DEF Die, TypeOK, Slot
<1>11. CASE Shutdown
  BY <1>11, <1>t, <1>p DEF Shutdown, TypeOK, Slot
<1>12. CASE Second
  <2>1. recent' \in [Svcs -> BOOLEAN]
    BY <1>12 DEF Second
  <2>2. done' \in [Svcs -> Nat]
    BY <1>12 DEF Second
  <2> QED
    BY <1>12, <1>t, <1>p, <2>1, <2>2 DEF Second, TypeOK, Slot
<1>13. CASE Finished \/ UNCHANGED vars
  BY <1>13, <1>t DEF Finished, vars, TypeOK, Slot
<1> QED
  BY <1>1, <1>2, <1>3, <1>4, <1>5, <1>6, <1>7, <1>8, <1>9, <1>10, <1>11, <1>12, <1>13
     DEF Next, Supervise

\* The restarts of a second are counted, and the count is limited.
LEMMA RateStep == ASSUME IInv, [Next]_vars, TypeOK' PROVE RateInv'
<1> USE SupervisorAssumption DEF procVars, rateVars
<1>1. CASE UNCHANGED rateVars
  BY <1>1 DEF IInv, RateInv
<1>2. CASE Second
  BY <1>2, SMTT(30) DEF Second, RateInv, Svcs
<1>3. CASE Restart /\ ~UNCHANGED rateVars
  <2>1. PICK x \in Slots :
          /\ recent' = [recent EXCEPT ![x[1]] = TRUE]
          /\ nrestarts' = [nrestarts EXCEPT ![x[1]] = NextRestarts(x[1])]
          /\ \/ TooManyRestarts(x[1]) /\ done' = done
             \/ ~TooManyRestarts(x[1]) /\ done' = [done EXCEPT ![x[1]] = @ + 1]
             \/ ~TooManyRestarts(x[1]) /\ done' = done
    BY <1>3 DEF Restart
  <2>2. x[1] \in Svcs
    BY SlotPairs
  <2>3. /\ recent \in [Svcs -> BOOLEAN]
        /\ nrestarts \in [Svcs -> Nat]
        /\ done \in [Svcs -> Nat]
        /\ RateInv
    BY DEF IInv, TypeOK
  <2> SUFFICES ASSUME NEW s \in Svcs
               PROVE  /\ ~recent'[s] => done'[s] = 0
                      /\ recent'[s] => done'[s] <= nrestarts'[s]
                      /\ done'[s] < MaxRestarts
    BY DEF RateInv
  <2>4. CASE s # x[1]
    BY <2>1, <2>2, <2>3, <2>4 DEF RateInv
  <2>5. CASE s = x[1]
    <3>1. recent'[s] /\ nrestarts'[s] = NextRestarts(s)
      BY <2>1, <2>3, <2>5
    <3>2. done'[s] = done[s] \/ (~TooManyRestarts(s) /\ done'[s] = done[s] + 1)
      BY <2>1, <2>3, <2>5
    <3>3. CASE recent[s]
      BY <3>1, <3>2, <3>3, <2>3, SMTT(30) DEF RateInv, NextRestarts, TooManyRestarts
    <3>4. CASE ~recent[s]
      BY <3>1, <3>2, <3>4, <2>3, SMTT(30) DEF RateInv, NextRestarts
    <3> QED
      BY <3>3, <3>4
  <2> QED
    BY <2>4, <2>5
<1> QED
  BY <1>1, <1>2, <1>3
     DEF Next, Supervise, InitService, StartListener, CallWait, WaitReturns, CheckShutdown,
         TermListener, SleepDone, KillListener, Die, Shutdown, Finished, vars

\* fork_service_listener on a slot that holds no process, or one that is gone,
\* keeps the table exact: the pid that fork() returns is in no other slot.
LEMMA ForkTable ==
  ASSUME TypeOK, TableInv, NEW z \in Slots, NEW p \in Pids, alloc[z[1]],
         pids[z] = NoPid \/ proc[pids[z]] = "none",
         pc \in {"returned", "restart"} => pids[z] = reaped,
         ForkListener(z[1], z[2], p)
  PROVE  /\ pids' = [pids EXCEPT ![z] = p]
         /\ \A q \in Pids : proc'[q] # "none" => \E x \in Slots : pids'[x] = q
         /\ \A x, y \in Slots : pids'[x] = pids'[y] /\ pids'[x] # NoPid => x = y
         /\ \A x \in Slots : pids'[x] # NoPid => alloc[x[1]] /\ proc'[pids'[x]] # "none"
<1> USE SupervisorAssumption
<1>1. /\ pids' = [pids EXCEPT ![z] = p] /\ proc' = [proc EXCEPT ![p] = "running"]
      /\ proc[p] = "none"
  BY SlotPairs DEF ForkListener
<1>2. \A x \in Slots : x # z /\ pids[x] # NoPid => proc[pids[x]] # "none"
  BY SMTT(30) DEF TableInv
<1>3. \A x, y \in Slots : pids[x] = pids[y] /\ pids[x] # NoPid => x = y
  BY DEF TableInv
<1>4. /\ \A x \in Slots : pids'[x] = IF x = z THEN p ELSE pids[x]
      /\ \A q \in Pids : proc'[q] = IF q = p THEN "running" ELSE proc[q]
  BY <1>1 DEF TypeOK
<1>5. \A x \in Slots : pids[x] \in Pids \cup {NoPid}
  BY DEF TypeOK
<1>6. \A q \in Pids : proc'[q] # "none" => \E x \in Slots : pids'[x] = q
  BY <1>4, <1>1, SMTT(30) DEF TableInv
<1>7. \A x, y \in Slots : pids'[x] = pids'[y] /\ pids'[x] # NoPid => x = y
  BY <1>1, <1>2, <1>3, <1>4, <1>5, SMTT(30)
<1>8. \A x \in Slots : pids'[x] # NoPid => alloc[x[1]] /\ proc'[pids'[x]] # "none"
  BY <1>1, <1>2, <1>4, <1>5, SMTT(30) DEF TableInv
<1> QED
  BY <1>1, <1>6, <1>7, <1>8

\* Outside stop_service_listeners, a step keeps pids[] and the processes in
\* step: start-up fills empty slots, wait() makes one slot out of date, and
\* the restart gives that slot, and no other, the new process.
LEMMA TableStep ==
  ASSUME IInv, [Next]_vars, TypeOK', pc' \notin Stopping
  PROVE  StartInv' /\ ReapedInv' /\ TableInv'
<1> USE SupervisorAssumption DEF procVars, rateVars
<1>t. TypeOK /\ pc' \in Pcs
  BY DEF IInv, TypeOK
<1>n. pc \notin Stopping
  BY DEF Next, Supervise, InitService, StartListener, CallWait, WaitReturns, CheckShutdown,
         Restart, TermListener, SleepDone, KillListener, Die, Shutdown, Second, Finished,
         Advance, vars, Stopping
<1>i. StartInv /\ ReapedInv /\ TableInv
  BY <1>n DEF IInv
<1>g. ~GoStop
  BY DEF GoStop, Stopping
<1>1. CASE InitService
  <2>1. StartInv' /\ ReapedInv'
    BY <1>1, <1>g, <1>i, <1>t, SMTT(30) DEF InitService, StartInv, ReapedInv, TypeOK, Svcs
  <2>2. \A s \in Svcs : alloc[s] => alloc'[s]
    BY <1>1, <1>t DEF InitService, TypeOK
  <2>3. \A x \in Slots : pids'[x] = pids[x]
    BY <1>1, <1>g, <1>i DEF InitService, StartInv
  <2>4. UNCHANGED proc /\ pc = "init"
    BY <1>1 DEF InitService
  <2>5. TableInv'
    BY <2>2, <2>3, <2>4, <1>i, SlotPairs, SMTT(30) DEF TableInv
  <2> QED
    BY <2>1, <2>5
<1>2. CASE StartListener
  <2>1. CASE i \in Procs(svc) /\ i' = i + 1 /\ UNCHANGED <<pc, svc>>
    <3>1. PICK p \in Pids : ForkListener(svc, i, p)
      BY <1>2, <1>g, <2>1 DEF StartListener, Procs
    <3>2. <<svc, i>> \in Slots /\ alloc[svc] /\ pids[<<svc, i>>] = NoPid
      BY <1>2, <2>1, <1>i, <1>t, SlotPairs, SMTT(30) DEF StartListener, StartInv, TypeOK
    <3>3. pc = "start" /\ UNCHANGED alloc
      BY <1>2 DEF StartListener
    <3> DEFINE z == <<svc, i>>
    <3>z. z[1] = svc /\ z[2] = i /\ z \in Slots /\ alloc[z[1]] /\ pids[z] = NoPid
      BY <3>2
    <3> HIDE DEF z
    <3>f. /\ pids' = [pids EXCEPT ![z] = p]
          /\ \A q \in Pids : proc'[q] # "none" => \E x \in Slots : pids'[x] = q
          /\ \A x, y \in Slots : pids'[x] = pids'[y] /\ pids'[x] # NoPid => x = y
          /\ \A x \in Slots : pids'[x] # NoPid => alloc[x[1]] /\ proc'[pids'[x]] # "none"
      BY <3>1, <3>z, <3>3, <1>i, <1>t, ForkTable
    <3>4. StartInv'
      <4>1. svc \in Svcs
        BY <3>3, <1>i DEF StartInv
      <4>2. ASSUME NEW x \in Slots, x[1] > svc \/ (x[1] = svc /\ x[2] >= i + 1)
            PROVE  pids'[x] = NoPid
        <5>1. x # z
          BY <4>1, <4>2, <3>z, <1>t, SlotPairs, SMTT(30) DEF TypeOK, Svcs, Procs
        <5>2. pids[x] = NoPid
          BY <3>3, <4>2, <1>i, <1>t, SlotPairs, SMTT(30) DEF StartInv, TypeOK, Svcs, Procs
        <5> QED
          BY <3>f, <5>1, <5>2, <1>t, SMTT(30) DEF TypeOK
      <4> QED
        BY <2>1, <3>2, <3>3, <4>1, <4>2 DEF StartInv
    <3>5. ReapedInv'
      BY <2>1, <3>3 DEF ReapedInv
    <3>6. TableInv'
      BY <3>f, <3>3 DEF TableInv
    <3> QED
      BY <3>4, <3>5, <3>6
  <2>2. CASE i \notin Procs(svc) /\ pc' = "init" /\ svc' = svc + 1 /\ UNCHANGED <<pids, proc, i>>
    <3>1. pc = "start" /\ UNCHANGED alloc
      BY <1>2 DEF StartListener
    <3>2. svc \in Svcs
      BY <3>1, <1>i DEF StartInv
    <3>3. \A x \in Slots : x[1] >= svc + 1 => pids[x] = NoPid
      BY <3>1, <3>2, <1>i, SlotPairs, SMTT(30) DEF StartInv, Svcs
    <3>4. StartInv'
      BY <2>2, <3>2, <3>3, SlotPairs, SMTT(30) DEF StartInv, Svcs
    <3> QED
      BY <2>2, <3>1, <3>4, <1>i DEF ReapedInv, TableInv
  <2> QED
    BY <1>2, <1>g, <2>1, <2>2 DEF StartListener
<1>3. CASE CallWait \/ CheckShutdown
  BY <1>3, <1>g, <1>i, <1>t, SMTT(30) DEF CallWait, CheckShutdown, StartInv, ReapedInv, TableInv, TypeOK
<1>4. CASE WaitReturns
  BY <1>4, <1>i, <1>t, SMTT(30) DEF WaitReturns, StartInv, ReapedInv, TableInv, TypeOK
<1>5. CASE Restart
  <2>1. CASE \A x \in Slots : pids[x] # reaped
    BY <2>1, <1>5, <1>i, <1>t, SMTT(30) DEF Restart, StartInv, ReapedInv, TableInv, TypeOK
  <2>2. CASE \E x \in Slots : pids[x] = reaped
    <3>1. PICK x \in Slots :
            /\ pids[x] = reaped
            /\ \/ UNCHANGED proc /\ pids' = [pids EXCEPT ![x] = NoPid]
               \/ \E p \in Pids : ForkListener(x[1], x[2], p)
      BY <2>2, <1>5, <1>g DEF Restart
    <3>2. pc = "restart" /\ pc' = "wait" /\ UNCHANGED <<alloc, reaped>>
      BY <1>5, <1>g DEF Restart
    <3>3. reaped # NoPid /\ proc[reaped] = "none"
      BY <3>2, <1>i DEF ReapedInv
    <3>4. CASE UNCHANGED proc /\ pids' = [pids EXCEPT ![x] = NoPid]
      BY <3>1, <3>2, <3>3, <3>4, <1>i, <1>t, SMTT(30) DEF StartInv, ReapedInv, TableInv, TypeOK
    <3>5. CASE \E p \in Pids : ForkListener(x[1], x[2], p)
      <4>1. alloc[x[1]]
        BY <3>1, <3>3, <1>i DEF TableInv
      <4>2. PICK p \in Pids : ForkListener(x[1], x[2], p)
        BY <3>5
      <4>3. /\ \A q \in Pids : proc'[q] # "none" => \E y \in Slots : pids'[y] = q
            /\ \A y, z \in Slots : pids'[y] = pids'[z] /\ pids'[y] # NoPid => y = z
            /\ \A y \in Slots : pids'[y] # NoPid => alloc[y[1]] /\ proc'[pids'[y]] # "none"
        BY <3>1, <3>3, <4>1, <4>2, <1>i, <1>t, ForkTable
      <4> QED
        BY <3>2, <4>3 DEF StartInv, ReapedInv, TableInv
    <3> QED
      BY <3>1, <3>4, <3>5
  <2> QED
    BY <2>1, <2>2
<1>6. CASE TermListener \/ SleepDone \/ KillListener \/ Finished
  BY <1>6, <1>n DEF TermListener, SleepDone, KillListener, Finished, Stopping
<1>7. ASSUME NEW p \in Pids, Die(p) PROVE StartInv' /\ ReapedInv' /\ TableInv'
  BY <1>7, <1>i, <1>t, SMTT(30) DEF Die, StartInv, ReapedInv, TableInv, TypeOK, Alive
<1>8. CASE Shutdown
  BY <1>8, <1>i, <1>t DEF Shutdown, StartInv, ReapedInv, TableInv, TypeOK
<1>9. CASE Second \/ UNCHANGED vars
  BY <1>9, <1>i, <1>t, SMTT(30) DEF Second, vars, StartInv, ReapedInv, TableInv, TypeOK
<1> QED
  BY <1>1, <1>2, <1>3, <1>4, <1>5, <1>6, <1>7, <1>8, <1>9 DEF Next, Supervise

\* A round of the SIGKILL loop leaves no running process behind it: the one in
\* the slot is killed, an empty slot has every process killed, and a service
\* without pids[] has none.
LEMMA KillStep == ASSUME IInv, TypeOK', KillListener PROVE StopInv'
<1> USE SupervisorAssumption
<1>t. /\ TypeOK /\ pc = "kill" /\ Slot \in Slots /\ svc \in Svcs /\ i \in Procs(svc)
      /\ Slot[1] = svc /\ Slot[2] = i
  BY SlotPairs DEF IInv, TypeOK, KillListener, Slot
<1>e. pc' \in {"kill", "exit"}
  BY <1>t DEF KillListener, Advance
<1>1. ASSUME NEW p \in Pids, proc'[p] \in Alive
      PROVE  \E x \in Slots : /\ pids'[x] = p /\ alloc'[x[1]]
                              /\ x[1] > svc \/ (x[1] = svc /\ x[2] > i /\ alloc[svc])
  <2>1. proc[p] \in Alive /\ (alloc[svc] => pids[Slot] \notin {p, NoPid})
    BY <1>1, <1>t, SMTT(30) DEF KillListener, Signal, procVars, Alive, TypeOK
  <2>2. PICK x \in Slots : pids[x] = p /\ alloc[x[1]] /\ Ahead(x)
    BY <2>1, <1>t DEF IInv, StopInv, Stopping
  <2>3. x # Slot
    BY <2>1, <2>2, <1>t
  <2>4. x[1] > svc \/ (x[1] = svc /\ x[2] > i /\ alloc[svc])
    <3>1. x[1] \in Nat /\ x[2] \in Nat /\ x = <<x[1], x[2]>> /\ svc \in Nat /\ i \in Nat
      BY <1>t, SlotPairs, SMTT(30) DEF Svcs, Procs
    <3> QED
      BY <2>2, <2>3, <3>1, SMTT(30) DEF Ahead, Slot
  <2>5. pids'[x] = p
    BY <2>2, <2>3, <1>t DEF KillListener, procVars, TypeOK
  <2>6. alloc'[x[1]]
    <3>1. x[1] \in Svcs /\ x[2] \in Procs(x[1])
      BY SlotPairs
    <3>2. CASE x[1] # svc
      BY <2>2, <3>1, <3>2, <1>t DEF KillListener, FreePids, TypeOK
    <3>3. CASE x[1] = svc
      <4>1. i < NProcs[svc]
        BY <2>4, <3>1, <3>3, <1>t, SMTT(30) DEF Procs, Svcs
      <4>2. alloc'[svc] = (alloc[svc] /\ i < NProcs[svc])
        BY <1>t DEF KillListener, FreePids, TypeOK
      <4> QED
        BY <2>2, <3>3, <4>1, <4>2
    <3> QED
      BY <3>2, <3>3
  <2> QED
    BY <2>4, <2>5, <2>6
<1>2. ASSUME NEW x \in Slots, x[1] > svc \/ (x[1] = svc /\ x[2] > i /\ alloc[svc])
      PROVE  pc' = "kill" /\ Ahead(x)'
  <2>1. x[1] \in Svcs /\ x[2] \in Procs(x[1])
    BY SlotPairs
  <2>2. CASE i < NProcs[svc] /\ alloc[svc]
    BY <1>t, <1>2, <2>1, <2>2, SMTT(30) DEF KillListener, Advance, Ahead, Svcs, Procs
  <2>3. CASE ~(i < NProcs[svc] /\ alloc[svc])
    <3>1. x[1] > svc
      BY <1>t, <1>2, <2>1, <2>3, SMTT(30) DEF Procs, Svcs
    <3>2. svc < NSvcs
      BY <3>1, <2>1, <1>t, SMTT(30) DEF Svcs
    <3>3. svc' = svc + 1 /\ i' = 1 /\ pc' = "kill"
      BY <2>3, <3>2, <1>t DEF KillListener, Advance
    <3> QED
      BY <2>1, <3>1, <3>3, <1>t, SMTT(30) DEF Ahead, Svcs, Procs
  <2> QED
    BY <2>2, <2>3
<1> QED
  BY <1>e, <1>1, <1>2 DEF StopInv, Stopping

\* stop_service_listeners starts with every process in an allocated slot, and
\* every step of it keeps that for the processes that still run.
LEMMA StopStep == ASSUME IInv, [Next]_vars, TypeOK' PROVE StopInv'
<1> USE SupervisorAssumption DEF procVars, rateVars
<1>t. TypeOK /\ pc \in Pcs /\ StopInv
  BY DEF IInv, TypeOK
<1>1. ASSUME pc \notin Stopping, GoStop, UNCHANGED <<proc, alloc>>,
             \A x \in Slots : pids'[x] = pids[x] \/ proc[pids[x]] = "none"
      PROVE  StopInv'
  BY <1>1, SMTT(30) DEF IInv, TableInv, StopInv, Stopping, GoStop, Alive
<1>2. CASE InitService \/ StartListener \/ CheckShutdown
  BY <1>1, <1>2 DEF InitService, StartListener, CheckShutdown, Stopping, StopInv
<1>3. CASE Restart
  <2>1. CASE GoStop
    <3>1. /\ pc = "restart" /\ UNCHANGED <<proc, alloc>>
          /\ \E x \in Slots : pids[x] = reaped /\ pids' = [pids EXCEPT ![x] = NoPid]
      BY <1>3, <2>1 DEF Restart, GoStop
    <3>2. proc[reaped] = "none"
      BY <3>1 DEF IInv, ReapedInv, Stopping
    <3> QED
      BY <1>1, <2>1, <3>1, <3>2, <1>t DEF Stopping, TypeOK
  <2>2. CASE pc' = "wait"
    BY <2>2 DEF StopInv, Stopping
  <2> QED
    BY <1>3, <2>1, <2>2 DEF Restart
<1>4. CASE CallWait \/ WaitReturns
  BY <1>4 DEF CallWait, WaitReturns, StopInv, Stopping
<1>5. CASE TermListener
  <2>1. /\ pc = "term" /\ pc' \in {"term", "sleep"} /\ UNCHANGED <<pids, alloc>>
        /\ pc' = "sleep" => svc' = 1 /\ i' = 1
    BY <1>5 DEF TermListener, Advance
  <2>2. \A p \in Pids : proc'[p] \in Alive => proc[p] \in Alive
    BY <1>5, <1>t DEF TermListener, Signal, TypeOK
  <2> QED
    BY <2>1, <2>2, <1>t DEF StopInv, Stopping
<1>6. CASE SleepDone
  <2>1. \A x \in Slots : Ahead(x)'
    BY <1>6, <1>t, SlotPairs, SMTT(30) DEF SleepDone, StopInv, Ahead, Svcs, Procs
  <2> QED
    BY <1>6, <2>1, <1>t DEF SleepDone, StopInv, Stopping
<1>7. CASE KillListener
  BY <1>7, KillStep
<1>8. ASSUME NEW p \in Pids, Die(p) PROVE StopInv'
  BY <1>8, <1>t, SMTT(30) DEF Die, StopInv, TypeOK, Alive, Ahead
<1>9. CASE Shutdown
  BY <1>9 DEF Shutdown, StopInv, Stopping
<1>10. CASE Second \/ Finished \/ UNCHANGED vars
  BY <1>10, <1>t, SMTT(30) DEF Second, Finished, vars, StopInv, Ahead
<1> QED
  BY <1>2, <1>3, <1>4, <1>5, <1>6, <1>7, <1>8, <1>9, <1>10 DEF Next, Supervise

----------------------------------------------------------------------------

\* The inductive invariant of the supervisor holds in every reachable state.
THEOREM SupervisorInvariant == Spec => []IInv
<1>1. IInv /\ [Next]_vars => IInv'
  BY TypeStep, RateStep, TableStep, StopStep DEF IInv
<1> QED
  BY InitIInv, <1>1, PTL DEF Spec

\* Start, restart and stop (fork_service_listener, supervise_service_listeners,
\* stop_service_listeners) never lose a listener process, whatever dies when:
\* each is in exactly one slot of pids[] while the supervisor runs, and none
\* runs when it exits.
THEOREM ListenersReachableHolds == Spec => []ListenersReachable
<1>1. IInv => ListenersReachable
  BY SupervisorAssumption, SMTT(30)
     DEF IInv, TableInv, StopInv, ListenersReachable, ListenersRecorded, NoneLeftRunning
<1> QED
  BY <1>1, SupervisorInvariant, PTL

\* test_restart_interval: every service is restarted less than
\* MAX_SERVICE_RESTARTS_PER_SEC times in a second.
THEOREM RestartRateHolds == Spec => []RestartRate
<1>1. IInv => RestartRate
  BY DEF IInv, RateInv, RestartRate
<1> QED
  BY <1>1, SupervisorInvariant, PTL

============================================================================
