----------------------------- MODULE Sc2Proofs -----------------------------
(***************************************************************************)
(* Proofs that the safety properties of Sc2 hold for any number of slots,  *)
(* any lifetime and any finite set of process ids.                         *)
(***************************************************************************)
EXTENDS Sc2, FiniteSetTheorems, TLAPS

\* A leaf that names no prover is for Zenon.
USE ZenonT(40)

\* The slots are finitely many, MaxReqs of them.
LEMMA SlotsFinite == IsFiniteSet(Slots) /\ Cardinality(Slots) = MaxReqs
BY Sc2Assumption, FS_Interval, SMTT(30) DEF Slots

\* So are the slots in use, whose number bounds nothing beyond MaxReqs.
LEMMA OccupiedFinite ==
  /\ IsFiniteSet(Occupied)
  /\ Cardinality(Occupied) \in Nat
  /\ Cardinality(Occupied) < MaxReqs => Occupied # Slots
<1>1. Occupied \in SUBSET Slots
  BY DEF Occupied
<1>2. IsFiniteSet(Occupied)
  BY <1>1, SlotsFinite, FS_Subset
<1>3. Cardinality(Occupied) \in Nat
  BY <1>2, FS_CardinalityType
<1>4. Cardinality(Occupied) < MaxReqs => Occupied # Slots
  BY <1>3, SlotsFinite, Sc2Assumption, SMTT(30)
<1> QED
  BY <1>2, <1>3, <1>4

\* The initial state satisfies the inductive invariant.
LEMMA InitIInv == Init => IInv
<1> SUFFICES ASSUME Init PROVE IInv
  OBVIOUS
<1> USE Sc2Assumption DEF Init
<1>0. waited \in [Slots -> BOOLEAN]
  OBVIOUS
<1>a. 1 \in 1..(MaxReqs + 1) /\ 0 \in 0..Lifetime /\ used \in Int
  BY SMTT(30)
<1>b. age \in [Slots -> 0..Lifetime]
  BY <1>a
<1>1. TypeOK
  BY <1>0, <1>a, <1>b DEF TypeOK, MainPcs, Halted
<1>2. Occupied = {} /\ Children = {}
  BY DEF Occupied, Children
<1>3. SlotAccounting
  BY <1>2, FS_EmptySet DEF SlotAccounting
<1> QED
  BY <1>1, <1>2, <1>3 DEF IInv, NoAbort, ChildrenCovered, PidsDistinct, NoSlotLeak

\* A step of any kind preserves the type invariant.
LEMMA TypeStep == IInv /\ [Next]_vars => TypeOK'
<1> SUFFICES ASSUME IInv, [Next]_vars PROVE TypeOK'
  OBVIOUS
<1> USE Sc2Assumption DEF IInv, TypeOK, MainAt, Slots, MainPcs, Halted, Blocked,
      slotVars, sigVars
<1>1. CASE CheckProc
  BY <1>1, SMTT(30) DEF CheckProc
<1>2. CASE KillProc
  BY <1>2, SMTT(30) DEF KillProc
<1>3. CASE ResetReaped
  <2>1. waited' \in [Slots -> BOOLEAN]
    BY <1>3 DEF ResetReaped
  <2>2. pid' \in [Slots -> Pids \cup {NoPid}]
    BY <1>3 DEF ResetReaped
  <2>3. /\ used' \in Int
        /\ pc' \in MainPcs
        /\ idx' \in 1..(MaxReqs + 1)
    BY <1>3, SMTT(30) DEF ResetReaped
  <2> QED
    BY <1>3, <2>1, <2>2, <2>3 DEF ResetReaped
<1>4. CASE TermCheck \/ Capacity \/ SleepDone \/ PollTimeout \/ PollReady \/ Accept \/ ForkFails
  BY <1>4 DEF TermCheck, Capacity, SleepDone, PollTimeout, PollReady, Accept, ForkFails
<1>5. CASE Fork
  BY <1>5 DEF Fork, FreshPids
<1>6. CASE Register
  <2>1. waited' \in [Slots -> BOOLEAN]
    BY <1>6 DEF Register
  <2>2. pid' \in [Slots -> Pids \cup {NoPid}]
    BY <1>6 DEF Register
  <2>3. age' \in [Slots -> 0..Lifetime]
    BY <1>6, SMTT(30) DEF Register
  <2>4. /\ used' \in Int
        /\ pc' \in MainPcs
        /\ idx' \in 1..(MaxReqs + 1)
    BY <1>6, SMTT(30) DEF Register
  <2> QED
    BY <1>6, <2>1, <2>2, <2>3, <2>4 DEF Register
<1>7. CASE HandlerEnter \/ HandlerReturn
  BY <1>7 DEF HandlerEnter, HandlerReturn
<1>8. ASSUME NEW p \in Pids, Reap(p) PROVE TypeOK'
  BY <1>8 DEF Reap
<1>9. ASSUME NEW p \in Pids, Exit(p) PROVE TypeOK'
  BY <1>9 DEF Exit
<1>10. CASE Tick
  BY <1>10, SMTT(30) DEF Tick
<1>11. CASE Terminate
  BY <1>11 DEF Terminate
<1>12. CASE UNCHANGED vars
  BY <1>12 DEF vars
<1> QED
  BY <1>1, <1>2, <1>3, <1>4, <1>5, <1>6, <1>7, <1>8, <1>9, <1>10, <1>11, <1>12
     DEF Next, MainStep, HandlerStep, Finished

\* Everything in the inductive invariant but the types.
SlotInv ==
  /\ SlotAccounting
  /\ NoAbort
  /\ ChildrenCovered
  /\ \A s \in Slots : waited[s] => pid[s] # NoPid
  /\ pc \in {"poll", "accept", "fork", "register"} => used < MaxReqs
  /\ pc = "register" => masked /\ ~handling /\ cur \in Pids /\ proc[cur] # "none"
  /\ pc = "kill" => cur \in Pids /\ idx \in Slots
  /\ PidsDistinct
  /\ NoSlotLeak

\* A step that changes neither slots nor processes keeps what relates them.
LEMMA FrameStep ==
  ASSUME IInv, UNCHANGED <<pid, waited, used>>, TypeOK',
         \A p \in Pids : (proc[p] = "none") <=> (proc'[p] = "none"),
         (pc' = "register") <=> (pc = "register"), NoAbort',
         pc = "register" => UNCHANGED <<cur, masked, handling>>,
         pc' \in {"poll", "accept", "fork"} => used < MaxReqs,
         pc' = "kill" => cur' \in Pids /\ idx' \in Slots
  PROVE  SlotInv'
<1> USE DEF IInv
<1>1. Occupied' = Occupied
  BY DEF Occupied
<1>2. Children' = Children
  BY DEF Children
<1>3. SlotAccounting'
  BY <1>1 DEF SlotAccounting
<1>4. ChildrenCovered'
  BY <1>2 DEF ChildrenCovered
<1>5. PidsDistinct'
  BY <1>1 DEF PidsDistinct
<1>6. NoSlotLeak'
  BY <1>1 DEF NoSlotLeak, Occupied, TypeOK
<1> QED
  BY <1>3, <1>4, <1>5, <1>6, SMTT(30) DEF SlotInv

\* The steps of the main loop that only move it along.
LEMMA ControlStep ==
  ASSUME IInv, TypeOK',
         \/ CheckProc \/ KillProc \/ TermCheck \/ Capacity \/ SleepDone
         \/ PollTimeout \/ PollReady \/ Accept \/ ForkFails
  PROVE  SlotInv'
<1> USE DEF IInv, MainAt, slotVars, sigVars, NoAbort
<1>1. CASE CheckProc
  <2>1. pc' = "kill" => cur' \in Pids /\ idx' \in Slots
    BY <1>1 DEF CheckProc, Overdue, TypeOK
  <2> QED
    BY <1>1, <2>1, FrameStep DEF CheckProc
<1>2. CASE KillProc
  <2>1. \A p \in Pids : (proc[p] = "none") <=> (proc'[p] = "none")
    BY <1>2 DEF KillProc, TypeOK
  <2> QED
    BY <1>2, <2>1, FrameStep DEF KillProc
<1>3. CASE Capacity
  <2>1. pc' = "poll" => used < MaxReqs
    BY <1>3, Sc2Assumption, SMTT(30) DEF Capacity, TypeOK
  <2> QED
    BY <1>3, <2>1, FrameStep DEF Capacity
<1>4. CASE TermCheck \/ SleepDone \/ PollTimeout \/ PollReady \/ Accept \/ ForkFails
  BY <1>4, FrameStep DEF TermCheck, SleepDone, PollTimeout, PollReady, Accept, ForkFails
<1> QED
  BY <1>1, <1>2, <1>3, <1>4

\* The handler's entry and return, the clock, the exits and SIGTERM.
LEMMA OutsideStep ==
  ASSUME IInv, TypeOK',
         \/ HandlerEnter \/ HandlerReturn \/ Tick \/ Terminate
         \/ \E p \in Pids : Exit(p)
         \/ UNCHANGED vars
  PROVE  SlotInv'
<1> USE DEF IInv, slotVars, sigVars, NoAbort, Blocked, Halted
<1>1. CASE HandlerEnter
  BY <1>1, FrameStep DEF HandlerEnter
<1>2. CASE HandlerReturn
  BY <1>2, FrameStep DEF HandlerReturn
<1>3. CASE Tick
  BY <1>3, FrameStep DEF Tick
<1>4. CASE Terminate
  BY <1>4, FrameStep DEF Terminate
<1>5. ASSUME NEW p \in Pids, Exit(p) PROVE SlotInv'
  <2>1. \A q \in Pids : (proc[q] = "none") <=> (proc'[q] = "none")
    BY <1>5 DEF Exit, TypeOK
  <2> QED
    BY <1>5, <2>1, FrameStep DEF Exit
<1>6. CASE UNCHANGED vars
  BY <1>6, FrameStep DEF vars
<1> QED
  BY <1>1, <1>2, <1>3, <1>4, <1>5, <1>6

\* A reset frees the slot of a reaped child and counts it, nothing else.
LEMMA ResetStep == ASSUME IInv, TypeOK', ResetReaped PROVE SlotInv'
<1> USE DEF IInv, MainAt, slotVars, sigVars, NoAbort
<1>1. CASE idx \in Slots /\ waited[idx]
  <2>1. /\ pid' = [pid EXCEPT ![idx] = NoPid]
        /\ waited' = [waited EXCEPT ![idx] = FALSE]
        /\ used' = used - 1
        /\ UNCHANGED <<proc, pc, cur>>
        /\ pc = "reset"
    BY <1>1 DEF ResetReaped
  <2>2. Occupied' = Occupied \ {idx} /\ idx \in Occupied
    BY <1>1, <2>1 DEF Occupied, TypeOK
  <2>3. SlotAccounting'
    <3>1. IsFiniteSet(Occupied) /\ Cardinality(Occupied) \in Nat
      BY OccupiedFinite DEF IInv
    <3>2. Cardinality(Occupied \ {idx}) = Cardinality(Occupied) - 1
      BY ONLY <2>2, <3>1, FS_RemoveElement
    <3> QED
      BY <2>1, <2>2, <3>2 DEF SlotAccounting
  <2>4. Children' = Children
    BY <2>1 DEF Children
  <2>5. ChildrenCovered'
    BY <1>1, <2>1, <2>4, SMTT(30) DEF ChildrenCovered, TypeOK
  <2>6. \A s \in Slots : waited'[s] => pid'[s] # NoPid
    BY <2>1 DEF TypeOK
  <2>7. PidsDistinct'
    BY <2>1, <2>2 DEF PidsDistinct, Occupied, TypeOK
  <2>8. NoSlotLeak'
    BY <2>1, <2>2 DEF NoSlotLeak, Occupied, TypeOK
  <2> QED
    BY <2>1, <2>3, <2>5, <2>6, <2>7, <2>8 DEF SlotInv
<1>2. CASE ~(idx \in Slots /\ waited[idx])
  BY <1>2, FrameStep DEF ResetReaped
<1> QED
  BY <1>1, <1>2

\* fork() adds one child, the one being registered.
LEMMA ForkStep == ASSUME IInv, TypeOK', Fork PROVE SlotInv'
<1> USE DEF IInv, MainAt, slotVars, NoAbort
<1>1. PICK p \in FreshPids : proc' = [proc EXCEPT ![p] = "running"] /\ cur' = p
  BY DEF Fork
<1>2. /\ UNCHANGED <<pid, waited, used, handling>>
      /\ pc = "fork" /\ pc' = "register"
      /\ masked' /\ ~handling
  BY DEF Fork
<1>3. p \in Pids /\ proc[p] = "none" /\ proc'[p] = "running"
  BY <1>1 DEF FreshPids, TypeOK
<1>4. Occupied' = Occupied
  BY <1>2 DEF Occupied
<1>5. SlotAccounting'
  BY <1>2, <1>4 DEF SlotAccounting
<1>6. ChildrenCovered'
  BY <1>1, <1>2, <1>3 DEF ChildrenCovered, Children, TypeOK
<1>7. PidsDistinct'
  BY <1>1, <1>2, <1>4 DEF PidsDistinct, FreshPids
<1>8. NoSlotLeak'
  BY <1>1, <1>2, <1>3, <1>4 DEF NoSlotLeak, Occupied, TypeOK
<1> QED
  BY <1>1, <1>2, <1>3, <1>5, <1>6, <1>7, <1>8 DEF SlotInv

\* Registration finds a free slot, because the capacity check left one and
\* only Register itself takes slots.
LEMMA RegisterStep == ASSUME IInv, TypeOK', Register PROVE SlotInv'
<1> USE DEF IInv, MainAt, NoAbort
<1>1. Occupied # Slots
  BY OccupiedFinite DEF Register, SlotAccounting
<1>2. PICK s \in Slots : /\ FirstWith(s, NoPid)
                        /\ pid' = [pid EXCEPT ![s] = cur]
                        /\ waited' = [waited EXCEPT ![s] = FALSE]
                        /\ pc' = "check"
  BY <1>1 DEF Register
<1>3. used' = used + 1 /\ UNCHANGED <<proc, cur>> /\ cur \in Pids /\ pc = "register"
  BY DEF Register
<1>4. s \notin Occupied /\ Occupied' = Occupied \cup {s}
  BY <1>2, <1>3, Sc2Assumption, SMTT(30) DEF FirstWith, Occupied, TypeOK
<1>5. SlotAccounting'
  BY <1>3, <1>4, OccupiedFinite, FS_AddElement DEF SlotAccounting
<1>6. Children' = Children
  BY <1>3 DEF Children
<1>7. ChildrenCovered'
  <2> SUFFICES ASSUME NEW p \in Children
               PROVE  \E t \in Slots : pid'[t] = p /\ ~waited'[t]
    BY <1>6 DEF ChildrenCovered
  <2>1. CASE p = cur
    BY <2>1, <1>2 DEF TypeOK
  <2>2. CASE p # cur
    <3>1. PICK t \in Slots : pid[t] = p /\ ~waited[t]
      BY <2>2 DEF ChildrenCovered
    <3>2. t # s
      BY <3>1, <1>2, Sc2Assumption DEF FirstWith, Children
    <3> QED
      BY <3>1, <3>2, <1>2 DEF TypeOK
  <2> QED
    BY <2>1, <2>2
<1>8. \A t \in Slots : waited'[t] => pid'[t] # NoPid
  BY <1>2, <1>3, Sc2Assumption DEF TypeOK
<1>9. PidsDistinct'
  BY <1>2, <1>3, <1>4 DEF PidsDistinct, Occupied, TypeOK
<1>10. NoSlotLeak'
  BY <1>2, <1>3, <1>4 DEF NoSlotLeak, Occupied, TypeOK
<1> QED
  BY <1>2, <1>5, <1>7, <1>8, <1>9, <1>10 DEF SlotInv

\* The handler finds the child it reaps, because it cannot run while a child
\* is forked and not registered.
LEMMA ReapStep == ASSUME IInv, TypeOK', NEW p \in Pids, Reap(p) PROVE SlotInv'
<1> USE DEF IInv, NoAbort
<1>1. pc # "register" /\ p \in Children
  BY DEF Reap, Children
<1>2. \E s \in Slots : pid[s] = p
  BY <1>1 DEF ChildrenCovered
<1>3. PICK s \in Slots : /\ FirstWith(s, p)
                        /\ waited' = [waited EXCEPT ![s] = TRUE]
                        /\ UNCHANGED <<pc, handling>>
  BY <1>2 DEF Reap
<1>4. /\ proc' = [proc EXCEPT ![p] = "none"]
      /\ UNCHANGED <<pid, used, idx, cur, masked>>
  BY DEF Reap
<1>5. Occupied' = Occupied
  BY <1>4 DEF Occupied
<1>6. SlotAccounting'
  BY <1>4, <1>5 DEF SlotAccounting
<1>7. \A q \in Children' : q \in Children /\ q # p
  BY <1>4 DEF Children, TypeOK
<1>8. ChildrenCovered'
  BY <1>1, <1>3, <1>4, <1>7 DEF ChildrenCovered, FirstWith, TypeOK
<1>9. \A t \in Slots : waited'[t] => pid'[t] # NoPid
  BY <1>3, <1>4, Sc2Assumption, SMTT(30) DEF FirstWith, TypeOK
<1>10. PidsDistinct'
  BY <1>1, <1>3, <1>4, <1>5 DEF PidsDistinct
<1>11. NoSlotLeak'
  BY <1>3, <1>4, <1>5, SMTT(30) DEF NoSlotLeak, PidsDistinct, Occupied, FirstWith, TypeOK
<1> QED
  BY <1>1, <1>3, <1>4, <1>6, <1>8, <1>9, <1>10, <1>11 DEF SlotInv

----------------------------------------------------------------------------

\* IInv is an invariant of every behaviour of sc2.
THEOREM InvariantHolds == Spec => []IInv
<1>1. IInv /\ [Next]_vars => IInv'
  <2> SUFFICES ASSUME IInv, [Next]_vars PROVE IInv'
    OBVIOUS
  <2>1. TypeOK'
    BY TypeStep
  <2>2. SlotInv'
    BY <2>1, ControlStep, OutsideStep, ResetStep, ForkStep, RegisterStep, ReapStep
       DEF Next, MainStep, HandlerStep, Finished
  <2> QED
    BY <2>1, <2>2 DEF IInv, SlotInv
<1> QED
  BY <1>1, InitIInv, PTL DEF Spec

\* An injection of the unreaped children into the slots: each has a slot of
\* its own, or is being registered while some slot is free.
LEMMA ChildrenBounded == IInv => NoOvercommit
<1> SUFFICES ASSUME IInv PROVE NoOvercommit
  OBVIOUS
<1> USE DEF IInv
<1> DEFINE slot(p) == CHOOSE s \in Slots : pid[s] = p
           free == CHOOSE s \in Slots : pid[s] = NoPid
           f == [p \in Children |-> IF \E s \in Slots : pid[s] = p THEN slot(p) ELSE free]
<1>1. \A p \in Children : (\A s \in Slots : pid[s] # p) => pc = "register" /\ p = cur
  BY DEF ChildrenCovered
<1>2. pc = "register" => free \in Slots /\ pid[free] = NoPid
  BY OccupiedFinite DEF SlotAccounting, Occupied
<1>3. \A p \in Children : (\E s \in Slots : pid[s] = p) => slot(p) \in Slots /\ pid[slot(p)] = p
  OBVIOUS
<1>4. f \in [Children -> Slots]
  BY <1>1, <1>2, <1>3
<1>5. \A p \in Children : pid[f[p]] = p \/ (pid[f[p]] = NoPid /\ p = cur)
  BY <1>1, <1>2, <1>3
<1>6. NoPid \notin Children
  BY Sc2Assumption DEF Children
<1>7. \A p, q \in Children : f[p] = f[q] => p = q
  <2> HIDE DEF f
  <2> SUFFICES ASSUME NEW p \in Children, NEW q \in Children, f[p] = f[q] PROVE p = q
    OBVIOUS
  <2>1. CASE pid[f[p]] = p
    BY <1>5, <1>6, <2>1
  <2>2. CASE pid[f[p]] = NoPid /\ p = cur
    BY <1>5, <1>6, <2>2
  <2> QED
    BY <1>5, <2>1, <2>2
<1>8. f \in Injection(Children, Slots)
  BY <1>4, <1>7 DEF Injection, IsInjective
<1> QED
  BY <1>8, SlotsFinite, FS_Injection DEF NoOvercommit

\* For any number of slots, any lifetime and any pids: the slot counter is
\* exact, neither assert of sc2 can fail, there are never more children than
\* maxreqs, and no slot is lost to a child that is gone.
THEOREM Sc2Safety ==
  Spec => [](TypeOK /\ SlotAccounting /\ NoAbort /\ NoOvercommit /\ NoSlotLeak)
<1>1. IInv => TypeOK /\ SlotAccounting /\ NoAbort /\ NoOvercommit /\ NoSlotLeak
  BY ChildrenBounded DEF IInv
<1> QED
  BY <1>1, InvariantHolds, PTL

\* For every instance the table, the counter and the kernel agree, and no slot
\* is lost while pids are fresh.
THEOREM SlotTableHolds == Spec => []SlotTable
<1>1. SlotAccounting /\ NoSlotLeak => SlotTable
  BY DEF SlotTable
<1> QED BY <1>1, Sc2Safety, PTL

\* For every instance neither assert of sc2 fails.
THEOREM NoAbortHolds == Spec => []NoAbort
  BY Sc2Safety, PTL

\* For every instance there are at most maxreqs unreaped children.
THEOREM NoOvercommitHolds == Spec => []NoOvercommit
  BY Sc2Safety, PTL
============================================================================
