--------------------------- MODULE DnstresProofs ---------------------------
(***************************************************************************)
(* Proofs that the resolver pool counts its references exactly and that    *)
(* it implements DnstresAbs, for any set of requests, any number of hosts  *)
(* and any finite pool of threads.                                         *)
(***************************************************************************)
EXTENDS Dnstres, FiniteSetTheorems, TLAPS

\* A leaf that names no prover is for Zenon.
USE ZenonT(40)

Resolving(r) == {t \in Threads : pc[t] = "resolve" /\ req[t] = r}

\* Where the actors can be, and that one inside a request has one.
ActorInv ==
  /\ pc[Caller] \in {"idle", "insert", "notify"}
  /\ pc[Freer] \in {"idle", "notify", "put", "join", "exit"}
  /\ \A t \in Threads :
       /\ pc[t] \in {"init", "lock", "locked", "wait", "resolve", "put", "exit"}
       /\ pc[t] \in {"resolve", "put"} => req[t] \in Requests
  /\ pc[Caller] = "insert" => req[Caller] \in Requests

\* The reference that Listed counts is held once: a request is not twice in a
\* list, nor in two of them, nor in one while the caller has it.
ListedOnce ==
  /\ IsInjective(list) /\ IsInjective(detached)
  /\ Range(list) \cap Range(detached) = {}
  /\ pc[Caller] = "insert" => req[Caller] \notin Range(list) \cup Range(detached)

\* A request is open as long as it has a reference, and is new before.
StatusInv ==
  \A r \in Requests :
    /\ status[r] = "open" <=> refs[r] > 0
    /\ status[r] = "new" => left[r] = NHosts[r] /\ results[r] = 0

\* A host is still in the request, is looked up, or was reported; a request
\* leaves the list without hosts, unless the pool is freed.
HostsInv ==
  \A r \in Requests :
    /\ results[r] + left[r] + Cardinality(Resolving(r)) = NHosts[r]
    /\ status[r] = "open" /\ ~done /\ ~Listed(r) => left[r] = 0

\* dnstres_pool_free empties the list for good and then what it took from it.
FreeInv ==
  /\ done <=> pc[Freer] # "idle"
  /\ done => list = <<>>
  /\ pc[Freer] \notin {"notify", "put"} => detached = <<>>
  /\ pc[Freer] = "exit" => \A t \in Threads : pc[t] = "exit"

IInv ==
  /\ TypeOK /\ ActorInv /\ RefsExact
  /\ ListedOnce /\ StatusInv /\ HostsInv /\ FreeInv

----------------------------------------------------------------------------

\* The requests of a list after dnstres_pool_add_hosts appends one, and after
\* the first one is removed.
LEMMA ListRanges ==
  /\ Range(<<>>) = {} /\ IsInjective(<<>>)
  /\ \A s \in Seq(Requests) :
       /\ Range(s) \subseteq Requests
       /\ \A r \in Requests :
            /\ Append(s, r) \in Seq(Requests)
            /\ Range(Append(s, r)) = Range(s) \cup {r}
            /\ IsInjective(s) /\ r \notin Range(s) => IsInjective(Append(s, r))
       /\ s # <<>> /\ IsInjective(s) =>
            /\ Head(s) \in Requests /\ Head(s) \in Range(s)
            /\ Tail(s) \in Seq(Requests)
            /\ IsInjective(Tail(s))
            /\ Range(Tail(s)) = Range(s) \ {Head(s)}
<1>1. Range(<<>>) = {} /\ IsInjective(<<>>)
  BY SMTT(30) DEF Range, IsInjective
<1>2. ASSUME NEW s \in Seq(Requests) PROVE Range(s) \subseteq Requests
  BY SMTT(30) DEF Range
<1>3. ASSUME NEW s \in Seq(Requests), NEW r \in Requests
      PROVE  /\ Append(s, r) \in Seq(Requests)
             /\ Range(Append(s, r)) = Range(s) \cup {r}
             /\ IsInjective(s) /\ r \notin Range(s) => IsInjective(Append(s, r))
  <2>1. /\ Append(s, r) \in Seq(Requests) /\ DOMAIN Append(s, r) = 1..(Len(s) + 1)
        /\ DOMAIN s = 1..Len(s) /\ Len(s) \in Nat
        /\ \A k \in 1..Len(s) : Append(s, r)[k] = s[k]
        /\ Append(s, r)[Len(s) + 1] = r
    BY SMTT(30)
  <2>2. Range(Append(s, r)) = Range(s) \cup {r}
    BY <2>1, SMTT(30) DEF Range
  <2>3. IsInjective(s) /\ r \notin Range(s) => IsInjective(Append(s, r))
    BY <2>1, SMTT(30) DEF Range, IsInjective
  <2> QED
    BY <2>1, <2>2, <2>3
<1>4. ASSUME NEW s \in Seq(Requests), s # <<>>, IsInjective(s)
      PROVE  /\ Head(s) \in Requests /\ Head(s) \in Range(s)
             /\ Tail(s) \in Seq(Requests)
             /\ IsInjective(Tail(s))
             /\ Range(Tail(s)) = Range(s) \ {Head(s)}
  <2>1. /\ Tail(s) \in Seq(Requests) /\ Len(s) \in Nat \ {0}
        /\ DOMAIN s = 1..Len(s) /\ DOMAIN Tail(s) = 1..(Len(s) - 1)
        /\ \A k \in 1..(Len(s) - 1) : Tail(s)[k] = s[k + 1]
        /\ Head(s) = s[1] /\ Head(s) \in Requests
    BY <1>4, SMTT(30)
  <2>2. \A k \in 1..Len(s) : k # 1 => k - 1 \in 1..(Len(s) - 1) /\ Tail(s)[k - 1] = s[k]
    BY <2>1, SMTT(30)
  <2>3. IsInjective(Tail(s))
    BY <2>1, <1>4, SMTT(30) DEF IsInjective
  <2>4. Range(Tail(s)) = Range(s) \ {Head(s)}
    <3>1. ASSUME NEW x \in Range(Tail(s)) PROVE x \in Range(s) \ {Head(s)}
      <4>1. PICK k \in 1..(Len(s) - 1) : x = Tail(s)[k]
        BY <2>1, <3>1 DEF Range
      <4>2. x = s[k + 1] /\ k + 1 \in DOMAIN s /\ 1 \in DOMAIN s /\ k + 1 # 1
        BY <2>1, <4>1, SMTT(30)
      <4> QED
        BY <2>1, <4>2, <1>4 DEF Range, IsInjective
    <3>2. ASSUME NEW x \in Range(s), x # Head(s) PROVE x \in Range(Tail(s))
      <4>1. PICK k \in 1..Len(s) : x = s[k]
        BY <2>1, <3>2 DEF Range
      <4>2. k - 1 \in DOMAIN Tail(s) /\ Tail(s)[k - 1] = x
        BY <2>1, <2>2, <3>2, <4>1
      <4> QED
        BY <4>2 DEF Range
    <3> QED
      BY <3>1, <3>2
  <2>5. Head(s) \in Range(s)
    BY <2>1, SMTT(30) DEF Range
  <2> QED
    BY <2>1, <2>3, <2>4, <2>5
<1> QED
  BY <1>1, <1>2, <1>3, <1>4

\* The threads that hold a request are finitely many.
LEMMA UsersFinite ==
  ASSUME NEW r
  PROVE  /\ IsFiniteSet(Users(r)) /\ Cardinality(Users(r)) \in Nat
         /\ IsFiniteSet(Resolving(r)) /\ Cardinality(Resolving(r)) \in Nat
         /\ Resolving(r) \subseteq Users(r)
<1>1. Users(r) \subseteq Threads /\ Resolving(r) \subseteq Users(r)
  BY DEF Users, Resolving
<1>2. IsFiniteSet(Users(r)) /\ IsFiniteSet(Resolving(r))
  BY <1>1, DnstresAssumption, FS_Subset
<1> QED
  BY <1>1, <1>2, FS_CardinalityType

\* A request that is referred to has a positive count, which dnstres_hosts_put
\* may decrement.
LEMMA Referenced ==
  ASSUME TypeOK, RefsExact, NEW r \in Requests
  PROVE  /\ Listed(r) => refs[r] > 0
         /\ \A t \in Users(r) : refs[r] > 0
         /\ refs[r] > 0 => Listed(r) \/ Users(r) # {}
         /\ Listed(r) /\ refs[r] = 1 => Users(r) = {}
         /\ \A t \in Users(r) : refs[r] = 1 => Users(r) = {t} /\ ~Listed(r)
<1>1. Cardinality(Users(r)) \in Nat /\ IsFiniteSet(Users(r))
  BY UsersFinite
<1>2. Cardinality(Users(r)) = 0 <=> Users(r) = {}
  BY <1>1, FS_EmptySet
<1>3. ASSUME NEW t \in Users(r) PROVE Cardinality(Users(r)) = 1 => Users(r) = {t}
  <2>1. IsFiniteSet(Users(r) \ {t}) /\ Cardinality(Users(r) \ {t}) = Cardinality(Users(r)) - 1
    BY <1>1, <1>3, FS_RemoveElement
  <2>2. Cardinality(Users(r)) = 1 => Users(r) \ {t} = {}
    BY <2>1, FS_EmptySet, SMTT(30)
  <2> QED
    BY <2>2
<1>4. refs[r] = Cardinality(Users(r)) + (IF Listed(r) THEN 1 ELSE 0)
  BY DEF RefsExact
<1> QED
  BY <1>1, <1>2, <1>3, <1>4, SMTT(30)

\* Only Take, Resolve and PutHost change which threads hold a request.
LEMMA HoldersStep ==
  ASSUME TypeOK, ActorInv, [Next]_vars, NEW r \in Requests
  PROVE  \/ Users(r)' = Users(r) /\ Resolving(r)' = Resolving(r)
         \/ \E t \in Threads : Take(t) \/ Resolve(t) \/ PutHost(t)
<1> USE DnstresAssumption DEF Actors, TypeOK, ActorInv, Users, Resolving, Goto
<1>1. CASE (\E s \in Requests : NewHosts(s)) \/ Insert \/ Notify
  <2>1. ASSUME NEW s \in Requests, NewHosts(s)
        PROVE  Users(r)' = Users(r) /\ Resolving(r)' = Resolving(r)
    BY <2>1, SMTT(30) DEF NewHosts
  <2>2. CASE Insert
    BY <2>2 DEF Insert
  <2>3. CASE Notify
    BY <2>3 DEF Notify, Broadcast
  <2> QED
    BY <1>1, <2>1, <2>2, <2>3
<1>2. ASSUME NEW t \in Threads, Lock(t) \/ Begin(t) \/ Leave(t) \/ Drop(t) \/ Wait(t) \/ Spurious(t)
      PROVE  Users(r)' = Users(r) /\ Resolving(r)' = Resolving(r)
  <2>1. CASE Lock(t) \/ Begin(t) \/ Leave(t)
    BY <2>1, SMTT(30) DEF Lock, Begin, Leave
  <2>2. CASE Drop(t) \/ Wait(t) \/ Spurious(t)
    BY <2>2, SMTT(30) DEF Drop, Wait, Spurious
  <2> QED
    BY <1>2, <2>1, <2>2
<1>3. CASE Free \/ FreeNotify \/ FreePut \/ Join \/ Finished \/ UNCHANGED vars
  <2>1. CASE Free \/ FreeNotify
    BY <2>1, SMTT(30) DEF Free, FreeNotify, Broadcast
  <2>2. CASE FreePut \/ Join
    BY <2>2, SMTT(30) DEF FreePut, Join
  <2>3. CASE Finished \/ UNCHANGED vars
    BY <2>3 DEF Finished, vars
  <2> QED
    BY <1>3, <2>1, <2>2, <2>3
<1> HIDE DnstresAssumption DEF Actors, TypeOK, ActorInv, Users, Resolving, Goto
<1> QED
  BY <1>1, <1>2, <1>3 DEF Next, ThreadStep

\* The pool starts with empty lists and every thread before its first lock (dnstres.c).
LEMMA InitIInv == Init => IInv
<1> SUFFICES ASSUME Init PROVE IInv
  OBVIOUS
<1> USE DnstresAssumption DEF Init, Actors
<1>0. pc \in [Actors -> {"init", "idle"}]
  OBVIOUS
<1>1. TypeOK /\ ActorInv
  <2>1. list \in Seq(Requests) /\ detached \in Seq(Requests)
    BY SMTT(30)
  <2>2. TypeOK
    BY <1>0, <2>1 DEF TypeOK
  <2>3. ActorInv
    BY DEF ActorInv
  <2> QED
    BY <2>2, <2>3
<1>2. \A r \in Requests : Users(r) = {} /\ Resolving(r) = {} /\ ~Listed(r)
  BY ListRanges DEF Users, Resolving, Listed
<1>3. \A r \in Requests : Cardinality(Users(r)) = 0 /\ Cardinality(Resolving(r)) = 0
  BY <1>2, FS_EmptySet
<1>4. RefsExact /\ StatusInv /\ HostsInv
  BY <1>2, <1>3, SMTT(30) DEF RefsExact, StatusInv, HostsInv
<1>5. ListedOnce /\ FreeInv
  BY ListRanges DEF ListedOnce, FreeInv
<1> QED
  BY <1>1, <1>4, <1>5 DEF IInv

\* dnstres_hosts_put is only called with a reference that is counted.
LEMMA PutTypes ==
  ASSUME TypeOK, NEW r \in Requests, refs[r] > 0, Put(r)
  PROVE  /\ refs' = [refs EXCEPT ![r] = refs[r] - 1]
         /\ refs' \in [Requests -> Nat]
         /\ status' \in [Requests -> {"new", "open", "done"}]
BY SMTT(30) DEF TypeOK, Put

\* Which request an actor gives back, and that it has a reference.
LEMMA PutArguments ==
  ASSUME IInv
  PROVE  /\ pc[Caller] = "insert" => req[Caller] \in Requests /\ refs[req[Caller]] > 0
         /\ list # <<>> => Head(list) \in Requests /\ refs[Head(list)] > 0
         /\ detached # <<>> => Head(detached) \in Requests /\ refs[Head(detached)] > 0
         /\ \A t \in Threads : pc[t] \in {"resolve", "put"} =>
              req[t] \in Requests /\ refs[req[t]] > 0
<1>1. pc[Caller] = "insert" => req[Caller] \in Requests /\ refs[req[Caller]] > 0
  BY Referenced DEF IInv, ActorInv, Listed
<1>2. list # <<>> => Head(list) \in Requests /\ refs[Head(list)] > 0
  BY Referenced, ListRanges DEF IInv, TypeOK, ListedOnce, Listed
<1>3. detached # <<>> => Head(detached) \in Requests /\ refs[Head(detached)] > 0
  BY Referenced, ListRanges DEF IInv, TypeOK, ListedOnce, Listed
<1>4. ASSUME NEW t \in Threads, pc[t] \in {"resolve", "put"}
      PROVE  req[t] \in Requests /\ refs[req[t]] > 0
  <2>1. req[t] \in Requests /\ t \in Users(req[t])
    BY <1>4 DEF IInv, ActorInv, Users
  <2> QED
    BY <2>1, Referenced DEF IInv
<1> QED
  BY <1>1, <1>2, <1>3, <1>4

\* A step leaves every variable in its domain and every actor where its program counter
\* says (dnstres.c).
LEMMA TypeStep == ASSUME IInv, [Next]_vars PROVE TypeOK' /\ ActorInv'
<1> USE DnstresAssumption, PutArguments DEF Actors, poolVars, hostVars, histVars
<1>t. TypeOK /\ ActorInv
  BY DEF IInv
<1>1. ASSUME NEW r \in Requests, NewHosts(r) PROVE TypeOK' /\ ActorInv'
  <2>1. TypeOK'
    <3>1. /\ refs' \in [Requests -> Nat]
          /\ req' \in [Threads \cup {Caller} -> Requests \cup {NoOne}]
      BY <1>t, <1>1, SMTT(30) DEF NewHosts, TypeOK
    <3>2. /\ status' \in [Requests -> {"new", "open", "done"}]
          /\ pc' \in [Actors -> {"init", "lock", "locked", "wait", "resolve", "put", "exit",
                                 "idle", "insert", "notify", "join"}]
      BY <1>t, <1>1 DEF NewHosts, TypeOK, Goto
    <3> QED
      BY <1>t, <1>1, <3>1, <3>2 DEF NewHosts, TypeOK
  <2>2. ActorInv'
    BY <1>t, <1>1 DEF NewHosts, TypeOK, ActorInv, Goto
  <2> QED
    BY <2>1, <2>2
<1>2. CASE Insert
  <2>1. CASE done /\ Put(req[Caller])
    BY <1>t, <1>2, <2>1, PutTypes DEF Insert, TypeOK, ActorInv, Goto
  <2>2. CASE list' = Append(list, req[Caller])
    BY <1>t, <1>2, <2>2, ListRanges, SMTT(30) DEF Insert, TypeOK, ActorInv, Goto
  <2> QED
    BY <1>2, <2>1, <2>2 DEF Insert
<1>3. CASE Notify
  BY <1>t, <1>3 DEF Notify, Broadcast, TypeOK, ActorInv
<1>4. ASSUME NEW t \in Threads, Lock(t) \/ Begin(t) \/ Leave(t) \/ Wait(t) \/ Spurious(t)
      PROVE  TypeOK' /\ ActorInv'
  BY <1>t, <1>4 DEF Lock, Begin, Leave, Wait, Spurious, TypeOK, ActorInv, Goto
<1>5. ASSUME NEW t \in Threads, Drop(t) PROVE TypeOK' /\ ActorInv'
  <2>1. Tail(list) \in Seq(Requests)
    BY <1>t, <1>5, ListRanges DEF Drop, TypeOK, IInv, ListedOnce
  <2> QED
    BY <1>t, <1>5, <2>1, PutTypes DEF Drop, TypeOK, ActorInv
<1>6. ASSUME NEW t \in Threads, Take(t) PROVE TypeOK' /\ ActorInv'
  <2>1. Head(list) \in Requests
    BY <1>6 DEF Take
  <2>2. left' \in [Requests -> Nat] /\ refs' \in [Requests -> Nat]
    <3>1. /\ left[Head(list)] > 0
          /\ left' = [left EXCEPT ![Head(list)] = @ - 1]
          /\ refs' = [refs EXCEPT ![Head(list)] = @ + 1]
      BY <1>6 DEF Take
    <3>2. left \in [Requests -> Nat] /\ refs \in [Requests -> Nat]
      BY <1>t DEF TypeOK
    <3> QED
      BY <2>1, <3>1, <3>2, SMTT(30)
  <2>3. TypeOK'
    <3>1. /\ pc' \in [Actors -> {"init", "lock", "locked", "wait", "resolve", "put", "exit",
                                 "idle", "insert", "notify", "join"}]
          /\ req' \in [Threads \cup {Caller} -> Requests \cup {NoOne}]
      BY <1>t, <1>6, <2>1 DEF Take, TypeOK, Goto
    <3>2. mutex' \in Threads \cup {NoOne}
      BY <1>6 DEF Take
    <3> QED
      BY <1>t, <1>6, <2>2, <3>1, <3>2 DEF Take, TypeOK
  <2>4. ActorInv'
    BY <1>t, <1>6, <2>1 DEF Take, TypeOK, ActorInv, Goto
  <2> QED
    BY <2>3, <2>4
<1>7. ASSUME NEW t \in Threads, Resolve(t) PROVE TypeOK' /\ ActorInv'
  BY <1>t, <1>7, SMTT(30) DEF Resolve, TypeOK, ActorInv, Goto
<1>8. ASSUME NEW t \in Threads, PutHost(t) PROVE TypeOK' /\ ActorInv'
  BY <1>t, <1>8, PutTypes DEF PutHost, TypeOK, ActorInv, Goto
<1>9. CASE Free \/ Join
  <2>1. <<>> \in Seq(Requests)
    BY SMTT(30)
  <2> QED
    BY <1>t, <1>9, <2>1 DEF Free, Join, TypeOK, ActorInv, Goto
<1>11. CASE FreeNotify
  BY <1>t, <1>11 DEF FreeNotify, Broadcast, TypeOK, ActorInv
<1>12. CASE Finished \/ UNCHANGED vars
  BY <1>t, <1>12 DEF Finished, vars, TypeOK, ActorInv
<1>10. CASE FreePut
  <2>1. CASE detached = <<>>
    BY <1>t, <1>10, <2>1, SMTT(30) DEF FreePut, TypeOK, ActorInv, Goto
  <2>2. CASE detached # <<>>
    <3>1. Tail(detached) \in Seq(Requests)
      BY <1>t, <2>2, ListRanges DEF TypeOK, IInv, ListedOnce
    <3> QED
      BY <1>t, <1>10, <2>2, <3>1, PutTypes DEF FreePut, TypeOK, ActorInv
  <2> QED
    BY <2>1, <2>2
<1> QED
  BY <1>1, <1>2, <1>3, <1>4, <1>5, <1>6, <1>7, <1>8, <1>9, <1>10, <1>11, <1>12
     DEF Next, ThreadStep

\* Every step moves the reference that is not a thread's as the code does: the
\* caller hands it to the list, the list to dnstres_pool_free, and Drop, the
\* late Insert and FreePut give it back.
LEMMA ListedStep ==
  ASSUME IInv, [Next]_vars, TypeOK', ActorInv'
  PROVE  /\ ListedOnce'
         /\ \A s \in Requests : NewHosts(s) =>
              /\ ~Listed(s)
              /\ \A r \in Requests : Listed(r)' <=> Listed(r) \/ (r = s /\ status'[s] = "open")
         /\ Insert => \A r \in Requests : Listed(r)' <=> Listed(r) /\ ~(done /\ r = req[Caller])
         /\ (\E t \in Threads : Drop(t)) =>
              \A r \in Requests : Listed(r)' <=> Listed(r) /\ r # Head(list)
         /\ FreePut =>
              \A r \in Requests :
                Listed(r)' <=> Listed(r) /\ ~(detached # <<>> /\ r = Head(detached))
         /\ (\E t \in Threads : Lock(t) \/ Begin(t) \/ Leave(t) \/ Take(t) \/ Wait(t)
                                  \/ Spurious(t) \/ Resolve(t) \/ PutHost(t))
              \/ Notify \/ Free \/ FreeNotify \/ Join \/ Finished \/ UNCHANGED vars =>
              \A r \in Requests : Listed(r)' <=> Listed(r)
<1> DEFINE Same == \A r \in Requests : Listed(r)' <=> Listed(r)
<1> USE DnstresAssumption DEF Actors, poolVars, hostVars, histVars
<1>t. TypeOK /\ ActorInv /\ ListedOnce /\ StatusInv /\ FreeInv /\ RefsExact
  BY DEF IInv
<1>l. list \in Seq(Requests) /\ detached \in Seq(Requests)
  BY <1>t DEF TypeOK
<1>1. ASSUME NEW s \in Requests, NewHosts(s)
      PROVE  /\ ListedOnce' /\ ~Listed(s)
             /\ \A r \in Requests : Listed(r)' <=> Listed(r) \/ (r = s /\ status'[s] = "open")
  <2>1. ~Listed(s) /\ pc[Caller] = "idle" /\ UNCHANGED <<list, detached>>
    BY <1>1, <1>t, Referenced DEF NewHosts, StatusInv, TypeOK
  <2>2. CASE /\ status' = [status EXCEPT ![s] = "open"]
             /\ req' = [req EXCEPT ![Caller] = s] /\ Goto(Caller, "insert")
    <3>1. pc'[Caller] = "insert" /\ req'[Caller] = s /\ status'[s] = "open"
      BY <2>2, <1>t DEF TypeOK, Goto
    <3> QED
      BY <2>1, <3>1, <1>t DEF ListedOnce, Listed
  <2>3. CASE status' = [status EXCEPT ![s] = "done"] /\ UNCHANGED <<req, pc>>
    <3>1. status'[s] = "done"
      BY <2>3, <1>t DEF TypeOK
    <3> QED
      BY <2>1, <2>3, <3>1, <1>t DEF ListedOnce, Listed
  <2> QED
    BY <1>1, <2>2, <2>3 DEF NewHosts
<1>2. ASSUME Insert
      PROVE  /\ ListedOnce'
             /\ \A r \in Requests : Listed(r)' <=> Listed(r) /\ ~(done /\ r = req[Caller])
  <2>1. req[Caller] \in Requests /\ Listed(req[Caller]) /\ UNCHANGED <<req, detached>>
    BY <1>2, <1>t DEF Insert, ActorInv, Listed
  <2>2. CASE done /\ Goto(Caller, "idle") /\ UNCHANGED list
    <3>1. pc'[Caller] = "idle"
      BY <2>2, <1>t DEF TypeOK, Goto
    <3> QED
      BY <1>2, <2>1, <2>2, <3>1, <1>t DEF Insert, ListedOnce, Listed
  <2>3. CASE ~done /\ list' = Append(list, req[Caller]) /\ Goto(Caller, "notify")
    <3>1. pc'[Caller] = "notify"
      BY <2>3, <1>t DEF TypeOK, Goto
    <3>2. req[Caller] \notin Range(list) \cup Range(detached)
      BY <1>2, <1>t DEF Insert, ListedOnce
    <3>3. Range(list') = Range(list) \cup {req[Caller]} /\ IsInjective(list')
      BY <2>1, <2>3, <3>2, <1>l, <1>t, ListRanges DEF ListedOnce
    <3> QED
      BY <1>2, <2>1, <2>3, <3>1, <3>2, <3>3, <1>t DEF Insert, ListedOnce, Listed
  <2> QED
    BY <1>2, <2>2, <2>3 DEF Insert
<1>3. ASSUME UNCHANGED <<list, detached>>,
             pc'[Caller] = pc[Caller] /\ req'[Caller] = req[Caller]
      PROVE  ListedOnce' /\ Same
  BY <1>3, <1>t DEF ListedOnce, Listed
<1>4. ASSUME Notify PROVE ListedOnce' /\ Same
  <2>1. pc'[Caller] = "idle" /\ pc[Caller] = "notify" /\ UNCHANGED <<list, detached>>
    BY <1>4 DEF Notify, Broadcast
  <2> QED
    BY <2>1, <1>t DEF ListedOnce, Listed
<1>5. ASSUME NEW t \in Threads,
             Lock(t) \/ Begin(t) \/ Leave(t) \/ Take(t) \/ Wait(t) \/ Spurious(t)
               \/ Resolve(t) \/ PutHost(t)
      PROVE  ListedOnce' /\ Same
  <2>1. UNCHANGED <<list, detached>>
    BY <1>5 DEF Lock, Begin, Leave, Take, Wait, Spurious, Resolve, PutHost
  <2>2. pc'[Caller] = pc[Caller]
    BY <1>5, <1>t DEF Lock, Begin, Leave, Take, Wait, Spurious, Resolve, PutHost, Goto, TypeOK
  <2>3. req'[Caller] = req[Caller]
    BY <1>5, <1>t DEF Lock, Begin, Leave, Take, Wait, Spurious, Resolve, PutHost, TypeOK
  <2> QED
    BY <1>3, <2>1, <2>2, <2>3
<1>6. ASSUME NEW t \in Threads, Drop(t)
      PROVE  /\ ListedOnce'
             /\ \A r \in Requests : Listed(r)' <=> Listed(r) /\ r # Head(list)
  <2>1. /\ IsInjective(list') /\ Range(list') = Range(list) \ {Head(list)}
        /\ UNCHANGED <<pc, req, detached>> /\ Head(list) \in Range(list)
    BY <1>6, <1>l, <1>t, ListRanges DEF Drop, ListedOnce
  <2> QED
    BY <2>1, <1>t DEF ListedOnce, Listed
<1>7. ASSUME Free PROVE ListedOnce' /\ Same
  <2>1. detached = <<>> /\ detached' = list /\ list' = <<>> /\ UNCHANGED req
    BY <1>7, <1>t DEF Free, FreeInv
  <2>2. pc'[Caller] = pc[Caller]
    BY <1>7, <1>t DEF Free, Goto, TypeOK
  <2> QED
    BY <2>1, <2>2, <1>t, ListRanges DEF ListedOnce, Listed
<1>8. ASSUME FreeNotify \/ Join \/ Finished \/ UNCHANGED vars PROVE ListedOnce' /\ Same
  <2>1. UNCHANGED <<list, detached, req>>
    BY <1>8 DEF FreeNotify, Join, Finished, vars
  <2>2. pc'[Caller] = pc[Caller]
    BY <1>8, <1>t, SMTT(30) DEF FreeNotify, Broadcast, Join, Finished, vars, Goto, TypeOK, ActorInv
  <2> QED
    BY <1>3, <2>1, <2>2
<1>9. ASSUME FreePut
      PROVE  /\ ListedOnce'
             /\ \A r \in Requests :
                  Listed(r)' <=> Listed(r) /\ ~(detached # <<>> /\ r = Head(detached))
  <2>1. CASE detached = <<>>
    BY <1>3, <1>9, <2>1, <1>t DEF FreePut, Goto, TypeOK
  <2>2. CASE detached # <<>>
    <3>1. /\ IsInjective(detached') /\ Range(detached') = Range(detached) \ {Head(detached)}
          /\ UNCHANGED <<pc, req, list>> /\ Head(detached) \in Range(detached)
      BY <1>9, <2>2, <1>l, <1>t, ListRanges DEF FreePut, ListedOnce
    <3> QED
      BY <1>9, <2>2, <3>1, <1>t DEF ListedOnce, Listed
  <2> QED
    BY <2>1, <2>2
<1> QED
  BY <1>1, <1>2, <1>4, <1>5, <1>6, <1>7, <1>8, <1>9 DEF Next, ThreadStep

\* The threads that hold a request after dnstres_pool_get_host, after the
\* lookup and after the put that follows it.
LEMMA ThreadHolders ==
  ASSUME IInv, NEW t \in Threads
  PROVE  /\ Take(t) =>
              \A r \in Requests :
                /\ Cardinality(Users(r)') =
                     Cardinality(Users(r)) + (IF r = Head(list) THEN 1 ELSE 0)
                /\ Cardinality(Resolving(r)') =
                     Cardinality(Resolving(r)) + (IF r = Head(list) THEN 1 ELSE 0)
         /\ Resolve(t) =>
              \A r \in Requests :
                /\ Users(r)' = Users(r)
                /\ Cardinality(Resolving(r)') =
                     Cardinality(Resolving(r)) - (IF r = req[t] THEN 1 ELSE 0)
         /\ PutHost(t) =>
              \A r \in Requests :
                /\ Cardinality(Users(r)') =
                     Cardinality(Users(r)) - (IF r = req[t] THEN 1 ELSE 0)
                /\ Resolving(r)' = Resolving(r)
<1> USE DnstresAssumption DEF Actors, Goto
<1>t. TypeOK /\ ActorInv
  BY DEF IInv
<1>1. ASSUME Take(t), NEW r \in Requests
      PROVE  /\ Cardinality(Users(r)') =
                  Cardinality(Users(r)) + (IF r = Head(list) THEN 1 ELSE 0)
             /\ Cardinality(Resolving(r)') =
                  Cardinality(Resolving(r)) + (IF r = Head(list) THEN 1 ELSE 0)
  <2>1. pc[t] = "locked" /\ pc' = [pc EXCEPT ![t] = "resolve"]
        /\ req' = [req EXCEPT ![t] = Head(list)]
    BY <1>1 DEF Take
  <2>2. t \notin Users(r) /\ t \notin Resolving(r)
    BY <2>1 DEF Users, Resolving
  <2>3. CASE r = Head(list)
    <3>1. Users(r)' = Users(r) \cup {t} /\ Resolving(r)' = Resolving(r) \cup {t}
      BY <2>1, <2>3, <1>t, SMTT(30) DEF TypeOK, Users, Resolving
    <3> QED
      BY <2>2, <2>3, <3>1, UsersFinite, FS_AddElement
  <2>4. CASE r # Head(list)
    <3>1. Users(r)' = Users(r) /\ Resolving(r)' = Resolving(r)
      BY <2>1, <2>4, <1>t DEF TypeOK, Users, Resolving
    <3> QED
      BY <2>4, <3>1, UsersFinite, SMTT(30)
  <2> QED
    BY <2>3, <2>4
<1>2. ASSUME Resolve(t), NEW r \in Requests
      PROVE  /\ Users(r)' = Users(r)
             /\ Cardinality(Resolving(r)') =
                  Cardinality(Resolving(r)) - (IF r = req[t] THEN 1 ELSE 0)
  <2>1. pc[t] = "resolve" /\ pc' = [pc EXCEPT ![t] = "put"] /\ UNCHANGED req
    BY <1>2 DEF Resolve
  <2>2. Users(r)' = Users(r)
    BY <2>1, <1>t DEF TypeOK, Users
  <2>3. CASE r = req[t]
    <3>1. t \in Resolving(r) /\ Resolving(r)' = Resolving(r) \ {t}
      BY <2>1, <2>3, <1>t DEF TypeOK, Resolving
    <3> QED
      BY <2>2, <2>3, <3>1, UsersFinite, FS_RemoveElement
  <2>4. CASE r # req[t]
    <3>1. Resolving(r)' = Resolving(r)
      BY <2>1, <2>4, <1>t DEF TypeOK, Resolving
    <3> QED
      BY <2>2, <2>4, <3>1, UsersFinite, SMTT(30)
  <2> QED
    BY <2>3, <2>4
<1>3. ASSUME PutHost(t), NEW r \in Requests
      PROVE  /\ Cardinality(Users(r)') =
                  Cardinality(Users(r)) - (IF r = req[t] THEN 1 ELSE 0)
             /\ Resolving(r)' = Resolving(r)
  <2>1. pc[t] = "put" /\ pc' = [pc EXCEPT ![t] = "lock"] /\ UNCHANGED req
    BY <1>3 DEF PutHost
  <2>2. Resolving(r)' = Resolving(r)
    BY <2>1, <1>t DEF TypeOK, Resolving
  <2>3. CASE r = req[t]
    <3>1. t \in Users(r) /\ Users(r)' = Users(r) \ {t}
      BY <2>1, <2>3, <1>t DEF TypeOK, Users
    <3> QED
      BY <2>2, <2>3, <3>1, UsersFinite, FS_RemoveElement
  <2>4. CASE r # req[t]
    <3>1. Users(r)' = Users(r)
      BY <2>1, <2>4, <1>t DEF TypeOK, Users
    <3> QED
      BY <2>2, <2>4, <3>1, UsersFinite, SMTT(30)
  <2> QED
    BY <2>3, <2>4
<1> QED
  BY <1>1, <1>2, <1>3

\* Which actions change refcount, and by how much: what the holders changed.
LEMMA RefsStep ==
  ASSUME IInv, [Next]_vars, TypeOK', ActorInv'
  PROVE  RefsExact'
<1> USE DnstresAssumption DEF Actors, poolVars, hostVars, histVars
<1>t. TypeOK /\ ActorInv /\ RefsExact /\ StatusInv
  BY DEF IInv
<1> SUFFICES ASSUME NEW r \in Requests
             PROVE  refs'[r] = Cardinality(Users(r)') + (IF Listed(r)' THEN 1 ELSE 0)
  BY DEF RefsExact
<1>r. /\ refs[r] = Cardinality(Users(r)) + (IF Listed(r) THEN 1 ELSE 0)
      /\ refs[r] \in Nat /\ Cardinality(Users(r)) \in Nat
  BY <1>t, UsersFinite DEF RefsExact, TypeOK
<1>f. refs \in [Requests -> Nat]
  BY <1>t DEF TypeOK
<1>u. Users(r)' = Users(r) \/ \E t \in Threads : Take(t) \/ PutHost(t)
  BY <1>t, HoldersStep, ThreadHolders
<1>1. ASSUME NEW s \in Requests, NewHosts(s), Users(r)' = Users(r)
      PROVE  refs'[r] = Cardinality(Users(r)') + (IF Listed(r)' THEN 1 ELSE 0)
  <2>1. ~Listed(s) /\ (Listed(r)' <=> Listed(r) \/ (r = s /\ status'[s] = "open"))
    BY <1>1, ListedStep
  <2>2. refs[s] = 0
    BY <1>1, <1>t, SMTT(30) DEF NewHosts, StatusInv, TypeOK
  <2>3. \/ status'[s] = "open" /\ refs' = [refs EXCEPT ![s] = 1]
        \/ status'[s] = "done" /\ UNCHANGED refs
    BY <1>1, <1>t DEF NewHosts, TypeOK
  <2> QED
    <3>1. r # s => refs'[r] = refs[r]
      BY <2>3, <1>f
    <3>2. r = s => refs'[r] = IF status'[s] = "open" THEN 1 ELSE 0
      BY <2>2, <2>3, <1>f
    <3> QED
      BY <1>1, <1>r, <2>1, <2>2, <3>1, <3>2, SMTT(30)
<1>2. ASSUME NEW q \in Requests, Put(q), Users(r)' = Users(r), Listed(q),
             Listed(r)' <=> Listed(r) /\ r # q
      PROVE  refs'[r] = Cardinality(Users(r)') + (IF Listed(r)' THEN 1 ELSE 0)
  <2>1. refs' = [refs EXCEPT ![q] = @ - 1]
    BY <1>2 DEF Put
  <2>2. refs'[r] = IF r = q THEN refs[r] - 1 ELSE refs[r]
    BY <2>1, <1>f
  <2> QED
    BY <1>2, <2>2, <1>r, SMTT(30)
<1>3. ASSUME UNCHANGED refs, Users(r)' = Users(r), Listed(r)' <=> Listed(r)
      PROVE  refs'[r] = Cardinality(Users(r)') + (IF Listed(r)' THEN 1 ELSE 0)
  BY <1>3, <1>r
<1>4. ASSUME NEW t \in Threads, Take(t)
      PROVE  refs'[r] = Cardinality(Users(r)') + (IF Listed(r)' THEN 1 ELSE 0)
  <2>1. /\ Cardinality(Users(r)') = Cardinality(Users(r)) + (IF r = Head(list) THEN 1 ELSE 0)
        /\ Listed(r)' <=> Listed(r)
    BY <1>4, ThreadHolders, ListedStep
  <2>2. refs' = [refs EXCEPT ![Head(list)] = @ + 1]
    BY <1>4 DEF Take
  <2>3. refs'[r] = IF r = Head(list) THEN refs[r] + 1 ELSE refs[r]
    BY <2>2, <1>f
  <2> QED
    BY <2>1, <2>3, <1>r, SMTT(30)
<1>5. ASSUME NEW t \in Threads, PutHost(t)
      PROVE  refs'[r] = Cardinality(Users(r)') + (IF Listed(r)' THEN 1 ELSE 0)
  <2>1. /\ Cardinality(Users(r)') = Cardinality(Users(r)) - (IF r = req[t] THEN 1 ELSE 0)
        /\ Listed(r)' <=> Listed(r)
    BY <1>5, ThreadHolders, ListedStep
  <2>2. refs' = [refs EXCEPT ![req[t]] = @ - 1]
    BY <1>5 DEF PutHost, Put
  <2>3. refs'[r] = IF r = req[t] THEN refs[r] - 1 ELSE refs[r]
    BY <2>2, <1>f
  <2> QED
    BY <2>1, <2>3, <1>r, SMTT(30)
<1>6. ASSUME Insert, Users(r)' = Users(r)
      PROVE  refs'[r] = Cardinality(Users(r)') + (IF Listed(r)' THEN 1 ELSE 0)
  <2>1. Listed(r)' <=> Listed(r) /\ ~(done /\ r = req[Caller])
    BY <1>6, ListedStep
  <2>2. req[Caller] \in Requests /\ Listed(req[Caller])
    BY <1>6, <1>t DEF Insert, ActorInv, Listed
  <2> QED
    BY <1>2, <1>3, <1>6, <2>1, <2>2 DEF Insert
<1>7. ASSUME NEW t \in Threads, Drop(t), Users(r)' = Users(r)
      PROVE  refs'[r] = Cardinality(Users(r)') + (IF Listed(r)' THEN 1 ELSE 0)
  <2>1. Listed(r)' <=> Listed(r) /\ r # Head(list)
    BY <1>7, ListedStep
  <2>2. Head(list) \in Requests /\ Listed(Head(list))
    BY <1>7, <1>t, ListRanges DEF Drop, TypeOK, IInv, ListedOnce, Listed
  <2> QED
    BY <1>2, <1>7, <2>1, <2>2 DEF Drop
<1>8. ASSUME FreePut, Users(r)' = Users(r)
      PROVE  refs'[r] = Cardinality(Users(r)') + (IF Listed(r)' THEN 1 ELSE 0)
  <2>1. Listed(r)' <=> Listed(r) /\ ~(detached # <<>> /\ r = Head(detached))
    BY <1>8, ListedStep
  <2>2. detached # <<>> => Head(detached) \in Requests /\ Listed(Head(detached))
    BY <1>t, ListRanges DEF TypeOK, IInv, ListedOnce, Listed
  <2> QED
    BY <1>2, <1>3, <1>8, <2>1, <2>2 DEF FreePut
<1>9. ASSUME NEW t \in Threads, Resolve(t)
      PROVE  refs'[r] = Cardinality(Users(r)') + (IF Listed(r)' THEN 1 ELSE 0)
  BY <1>3, <1>9, ThreadHolders, ListedStep DEF Resolve
<1>10. ASSUME \/ \E t \in Threads : Lock(t) \/ Begin(t) \/ Leave(t) \/ Wait(t) \/ Spurious(t)
              \/ Notify \/ Free \/ FreeNotify \/ Join \/ Finished \/ UNCHANGED vars,
              Users(r)' = Users(r)
       PROVE  refs'[r] = Cardinality(Users(r)') + (IF Listed(r)' THEN 1 ELSE 0)
  <2>1. UNCHANGED refs
    BY <1>10 DEF Lock, Begin, Leave, Wait, Spurious, Notify, Free, FreeNotify, Join, Finished,
                 vars
  <2>2. Listed(r)' <=> Listed(r)
    BY <1>10, ListedStep
  <2> QED
    BY <1>3, <1>10, <2>1, <2>2
<1> QED
  BY <1>u, <1>1, <1>4, <1>5, <1>6, <1>7, <1>8, <1>9, <1>10 DEF Next, ThreadStep

\* dnstres_hosts_put closes the request with its last reference and no other.
LEMMA PutStatus ==
  ASSUME TypeOK, StatusInv, NEW q \in Requests, refs[q] > 0, Put(q), NEW r \in Requests
  PROVE  /\ r # q => refs'[r] = refs[r] /\ status'[r] = status[r]
         /\ status'[q] = "open" <=> refs'[q] > 0
         /\ status'[q] # "new" /\ status[q] = "open"
         /\ status'[r] = "open" => status[r] = "open"
<1>1. refs \in [Requests -> Nat] /\ status \in [Requests -> {"new", "open", "done"}]
  BY DEF TypeOK
<1>2. refs' = [refs EXCEPT ![q] = @ - 1] /\ refs'[q] = refs[q] - 1
  BY <1>1 DEF Put
<1>3. status' = IF refs[q] = 1 THEN [status EXCEPT ![q] = "done"] ELSE status
  BY DEF Put
<1>4. status[q] = "open"
  BY DEF StatusInv
<1> QED
  BY <1>1, <1>2, <1>3, <1>4, SMTT(30)

\* A step keeps the status of a request in agreement with its references and with the
\* results still to come (dnstres.c).
LEMMA StatusStep ==
  ASSUME IInv, [Next]_vars, TypeOK', ActorInv'
  PROVE  StatusInv'
<1> USE DnstresAssumption DEF Actors, poolVars, hostVars, histVars
<1>t. TypeOK /\ ActorInv /\ StatusInv
  BY DEF IInv
<1>f. /\ refs \in [Requests -> Nat] /\ status \in [Requests -> {"new", "open", "done"}]
      /\ left \in [Requests -> Nat] /\ results \in [Requests -> Nat]
  BY <1>t DEF TypeOK
<1> SUFFICES ASSUME NEW r \in Requests
             PROVE  /\ status'[r] = "open" <=> refs'[r] > 0
                    /\ status'[r] = "new" => left'[r] = NHosts[r] /\ results'[r] = 0
  BY DEF StatusInv
<1>r. /\ status[r] = "open" <=> refs[r] > 0
      /\ status[r] = "new" => left[r] = NHosts[r] /\ results[r] = 0
  BY <1>t DEF StatusInv
<1>1. ASSUME NEW s \in Requests, NewHosts(s)
      PROVE  /\ status'[r] = "open" <=> refs'[r] > 0
             /\ status'[r] = "new" => left'[r] = NHosts[r] /\ results'[r] = 0
  BY <1>1, <1>f, <1>r, SMTT(30) DEF NewHosts
<1>2. ASSUME NEW q \in Requests, refs[q] > 0, Put(q), UNCHANGED <<left, results>>
      PROVE  /\ status'[r] = "open" <=> refs'[r] > 0
             /\ status'[r] = "new" => left'[r] = NHosts[r] /\ results'[r] = 0
  BY <1>2, <1>t, <1>r, PutStatus
<1>3. ASSUME UNCHANGED <<hostVars, histVars>>
      PROVE  /\ status'[r] = "open" <=> refs'[r] > 0
             /\ status'[r] = "new" => left'[r] = NHosts[r] /\ results'[r] = 0
  BY <1>3, <1>r
<1>4. CASE Insert
  BY <1>2, <1>3, <1>4, PutArguments DEF Insert
<1>5. ASSUME NEW t \in Threads, Drop(t) \/ PutHost(t)
      PROVE  /\ status'[r] = "open" <=> refs'[r] > 0
             /\ status'[r] = "new" => left'[r] = NHosts[r] /\ results'[r] = 0
  BY <1>2, <1>5, PutArguments DEF Drop, PutHost
<1>6. ASSUME NEW t \in Threads, Take(t)
      PROVE  /\ status'[r] = "open" <=> refs'[r] > 0
             /\ status'[r] = "new" => left'[r] = NHosts[r] /\ results'[r] = 0
  <2>1. /\ Head(list) \in Requests /\ refs[Head(list)] > 0
        /\ left' = [left EXCEPT ![Head(list)] = @ - 1]
        /\ refs' = [refs EXCEPT ![Head(list)] = @ + 1]
        /\ UNCHANGED histVars
    BY <1>6, PutArguments DEF Take
  <2> QED
    BY <2>1, <1>f, <1>r, SMTT(30)
<1>7. ASSUME NEW t \in Threads, Resolve(t)
      PROVE  /\ status'[r] = "open" <=> refs'[r] > 0
             /\ status'[r] = "new" => left'[r] = NHosts[r] /\ results'[r] = 0
  <2>1. /\ req[t] \in Requests /\ refs[req[t]] > 0
        /\ results' = [results EXCEPT ![req[t]] = @ + 1]
        /\ UNCHANGED <<refs, left, status>>
    BY <1>7, PutArguments DEF Resolve
  <2> QED
    BY <2>1, <1>f, <1>r
<1>8. CASE FreePut
  BY <1>2, <1>3, <1>8, PutArguments DEF FreePut
<1>9. CASE \/ \E t \in Threads : Lock(t) \/ Begin(t) \/ Leave(t) \/ Wait(t) \/ Spurious(t)
           \/ Notify \/ Free \/ FreeNotify \/ Join \/ Finished \/ UNCHANGED vars
  BY <1>3, <1>9 DEF Lock, Begin, Leave, Wait, Spurious, Notify, Free, FreeNotify, Join,
                    Finished, vars
<1> QED
  BY <1>1, <1>4, <1>5, <1>6, <1>7, <1>8, <1>9 DEF Next, ThreadStep

\* A step keeps the teardown of the pool in order: detach, wake, join (dnstres.c).
LEMMA FreeStep ==
  ASSUME IInv, [Next]_vars, TypeOK', ActorInv'
  PROVE  FreeInv'
<1> USE DnstresAssumption DEF Actors, poolVars, hostVars, histVars
<1>t. TypeOK /\ ActorInv /\ FreeInv
  BY DEF IInv
<1>1. CASE (\E r \in Requests : NewHosts(r)) \/ Insert
  BY <1>1, <1>t DEF NewHosts, Insert, FreeInv, TypeOK, Goto
<1>2. CASE Notify
  BY <1>2, <1>t DEF Notify, Broadcast, FreeInv, TypeOK, ActorInv
<1>3. ASSUME NEW t \in Threads,
             Lock(t) \/ ThreadStep(t) \/ Spurious(t)
      PROVE  FreeInv'
  <2>1. pc[t] # "exit" /\ pc'[Freer] = pc[Freer] /\ UNCHANGED <<done, detached>>
    BY <1>3, <1>t DEF Lock, ThreadStep, Begin, Leave, Drop, Take, Wait, Resolve, PutHost,
                      Spurious, Goto, TypeOK
  <2>2. done => UNCHANGED list
    BY <1>3 DEF Lock, ThreadStep, Begin, Leave, Drop, Take, Wait, Resolve, PutHost, Spurious
  <2> QED
    BY <2>1, <2>2, <1>t DEF FreeInv
<1>4. CASE Free
  BY <1>4, <1>t DEF Free, FreeInv, TypeOK, Goto
<1>5. CASE FreeNotify
  BY <1>5, <1>t DEF FreeNotify, Broadcast, FreeInv, TypeOK
<1>6. CASE FreePut
  BY <1>6, <1>t DEF FreePut, FreeInv, TypeOK, Goto
<1>7. CASE Join
  BY <1>7, <1>t DEF Join, FreeInv, TypeOK, Goto
<1>8. CASE Finished \/ UNCHANGED vars
  BY <1>8, <1>t, SMTT(30) DEF Finished, vars, FreeInv
<1> QED
  BY <1>1, <1>2, <1>3, <1>4, <1>5, <1>6, <1>7, <1>8 DEF Next

\* A host that leaves the request is looked up, and then reported.
LEMMA HostsStep ==
  ASSUME IInv, [Next]_vars, TypeOK', ActorInv'
  PROVE  HostsInv'
<1> USE DnstresAssumption DEF Actors, poolVars, hostVars, histVars
<1>t. TypeOK /\ ActorInv /\ StatusInv /\ HostsInv
  BY DEF IInv
<1>f. left \in [Requests -> Nat] /\ results \in [Requests -> Nat]
  BY <1>t DEF TypeOK
<1> SUFFICES ASSUME NEW r \in Requests
             PROVE  /\ results'[r] + left'[r] + Cardinality(Resolving(r)') = NHosts[r]
                    /\ status'[r] = "open" /\ ~done' /\ ~Listed(r)' => left'[r] = 0
  BY DEF HostsInv
<1> DEFINE Goal == /\ results'[r] + left'[r] + Cardinality(Resolving(r)') = NHosts[r]
                   /\ status'[r] = "open" /\ ~done' /\ ~Listed(r)' => left'[r] = 0
<1>r. /\ results[r] + left[r] + Cardinality(Resolving(r)) = NHosts[r]
      /\ status[r] = "open" /\ ~done /\ ~Listed(r) => left[r] = 0
      /\ results[r] \in Nat /\ left[r] \in Nat /\ Cardinality(Resolving(r)) \in Nat
  BY <1>t, <1>f, UsersFinite DEF HostsInv
<1>v. Resolving(r)' = Resolving(r) \/ \E t \in Threads : Take(t) \/ Resolve(t)
  BY <1>t, HoldersStep, ThreadHolders
<1>0. ASSUME UNCHANGED <<left, results>>, Resolving(r)' = Resolving(r),
             status'[r] = "open" /\ ~done' => status[r] = "open" /\ ~done,
             Listed(r)' <=> Listed(r)
      PROVE  Goal
  BY <1>0, <1>r
<1>1. ASSUME NEW s \in Requests, NewHosts(s), Resolving(r)' = Resolving(r)
      PROVE  Goal
  <2>1. Listed(r)' <=> Listed(r) \/ (r = s /\ status'[s] = "open")
    BY <1>1, ListedStep
  <2>2. UNCHANGED <<left, results, done>> /\ (r # s => status'[r] = status[r])
    BY <1>1, <1>t DEF NewHosts, TypeOK
  <2> QED
    BY <1>1, <2>1, <2>2, <1>r
<1>2. ASSUME NEW q \in Requests, refs[q] > 0, Put(q) PROVE status'[r] = "open" => status[r] = "open"
  BY <1>2, <1>t, PutStatus
<1>3. ASSUME Insert, Resolving(r)' = Resolving(r) PROVE Goal
  <2>1. Listed(r)' <=> Listed(r) /\ ~(done /\ r = req[Caller])
    BY <1>3, ListedStep, SMTT(30)
  <2>2. UNCHANGED <<left, results, done>> /\ (status'[r] = "open" => status[r] = "open")
    BY <1>2, <1>3, PutArguments DEF Insert
  <2> QED
    BY <1>3, <2>1, <2>2, <1>r
<1>4. ASSUME NEW t \in Threads, Drop(t), Resolving(r)' = Resolving(r) PROVE Goal
  <2>1. Listed(r)' <=> Listed(r) /\ r # Head(list)
    BY <1>4, ListedStep, SMTT(30)
  <2>2. /\ UNCHANGED <<left, results, done>> /\ left[Head(list)] = 0
        /\ status'[r] = "open" => status[r] = "open"
    BY <1>2, <1>4, PutArguments DEF Drop
  <2> QED
    BY <1>4, <2>1, <2>2, <1>r
<1>5. ASSUME NEW t \in Threads, Take(t) PROVE Goal
  <2>1. /\ Cardinality(Resolving(r)') =
             Cardinality(Resolving(r)) + (IF r = Head(list) THEN 1 ELSE 0)
        /\ Listed(r)' <=> Listed(r)
    BY <1>5, ThreadHolders, ListedStep, SMTT(30)
  <2>2. left' = [left EXCEPT ![Head(list)] = @ - 1] /\ UNCHANGED <<results, status, done>>
    BY <1>5 DEF Take
  <2>3. left'[r] = IF r = Head(list) THEN left[r] - 1 ELSE left[r]
    BY <2>2, <1>f
  <2>4. Listed(Head(list))
    BY <1>5, <1>t, ListRanges DEF Take, TypeOK, IInv, ListedOnce, Listed
  <2> QED
    BY <2>1, <2>2, <2>3, <2>4, <1>r, SMTT(30)
<1>6. ASSUME NEW t \in Threads, Resolve(t) PROVE Goal
  <2>1. /\ Cardinality(Resolving(r)') =
             Cardinality(Resolving(r)) - (IF r = req[t] THEN 1 ELSE 0)
        /\ Listed(r)' <=> Listed(r)
    BY <1>6, ThreadHolders, ListedStep
  <2>2. results' = [results EXCEPT ![req[t]] = @ + 1] /\ UNCHANGED <<left, status, done>>
    BY <1>6 DEF Resolve
  <2>3. results'[r] = IF r = req[t] THEN results[r] + 1 ELSE results[r]
    BY <2>2, <1>f
  <2> QED
    BY <2>1, <2>2, <2>3, <1>r, SMTT(30)
<1>7. ASSUME NEW t \in Threads, PutHost(t), Resolving(r)' = Resolving(r) PROVE Goal
  <2>1. Listed(r)' <=> Listed(r)
    BY <1>7, ListedStep
  <2>2. UNCHANGED <<left, results, done>> /\ (status'[r] = "open" => status[r] = "open")
    BY <1>2, <1>7, PutArguments DEF PutHost
  <2> QED
    BY <1>0, <1>7, <2>1, <2>2
<1>8. ASSUME Free \/ FreePut, Resolving(r)' = Resolving(r) PROVE Goal
  <2>1. UNCHANGED <<left, results>> /\ done'
    BY <1>8, <1>t DEF Free, FreePut, IInv, FreeInv
  <2> QED
    BY <1>8, <2>1, <1>r
<1>9. ASSUME \/ \E t \in Threads : Lock(t) \/ Begin(t) \/ Leave(t) \/ Wait(t) \/ Spurious(t)
             \/ Notify \/ FreeNotify \/ Join \/ Finished \/ UNCHANGED vars,
             Resolving(r)' = Resolving(r)
      PROVE  Goal
  <2>1. UNCHANGED <<left, results, status, done>>
    BY <1>9 DEF Lock, Begin, Leave, Wait, Spurious, Notify, FreeNotify, Join, Finished, vars
  <2>2. Listed(r)' <=> Listed(r)
    BY <1>9, ListedStep
  <2> QED
    BY <1>0, <1>9, <2>1, <2>2
<1> QED
  BY <1>v, <1>1, <1>3, <1>4, <1>5, <1>6, <1>7, <1>8, <1>9 DEF Next, ThreadStep

----------------------------------------------------------------------------

\* Every step of the pool preserves the inductive invariant.
LEMMA NextIInv == IInv /\ [Next]_vars => IInv'
<1> SUFFICES ASSUME IInv, [Next]_vars PROVE IInv'
  OBVIOUS
<1>1. TypeOK' /\ ActorInv'
  BY TypeStep
<1>2. ListedOnce'
  BY <1>1, ListedStep
<1> QED
  BY <1>1, <1>2, RefsStep, StatusStep, HostsStep, FreeStep DEF IInv

\* The inductive invariant of the pool holds in every reachable state.
THEOREM PoolInvariant == Spec => []IInv
BY InitIInv, NextIInv, PTL DEF Spec

\* The reference count of a request (refcount, dnstres_hosts_put) is at every
\* moment the number of its holders, and dnstres_pool_free leaves no request
\* open but one that the caller is about to find refused.
THEOREM RequestsOwnedHolds == Spec => []RequestsOwned
<1>1. IInv => RequestsOwned
  <2> SUFFICES ASSUME IInv, pc[Freer] = "exit", NEW r \in Requests, status[r] = "open"
               PROVE  pc[Caller] = "insert" /\ req[Caller] = r
    BY DEF RequestsOwned, FreeLeavesNothing, IInv
  <2>1. Users(r) = {}
    BY DEF IInv, FreeInv, Users
  <2>2. Listed(r)
    BY <2>1, Referenced DEF IInv, StatusInv
  <2>3. list = <<>> /\ detached = <<>>
    BY DEF IInv, FreeInv
  <2> QED
    BY <2>2, <2>3, ListRanges DEF Listed
<1> QED
  BY <1>1, PoolInvariant, PTL

----------------------------------------------------------------------------
(* The pool implements DnstresAbs.                                         *)

\* dnstres_hosts_put is OnDone when it drops the last reference, which the
\* abstract specification allows when every host was reported or the pool is
\* being freed; any other put is invisible to the caller.
LEMMA PutRefines ==
  ASSUME IInv, NEW q \in Requests, refs[q] > 0, Put(q), UNCHANGED <<results, done>>,
         refs[q] = 1 => done \/ results[q] = NHosts[q]
  PROVE  [Abs!ANext]_(Abs!absVars)
<1>1. CASE refs[q] = 1
  <2>1. status[q] = "open" /\ status' = [status EXCEPT ![q] = "done"]
    BY <1>1 DEF Put, IInv, StatusInv
  <2>2. Abs!OnDone(q)
    BY <1>1, <2>1 DEF Abs!OnDone
  <2> QED
    BY <2>2 DEF Abs!ANext
<1>2. CASE refs[q] # 1
  BY <1>2 DEF Put, Abs!absVars
<1> QED
  BY <1>1, <1>2

\* Nobody looks up a host of the request any more: all were reported.
LEMMA AllReported ==
  ASSUME IInv, NEW r \in Requests, Resolving(r) = {}, left[r] = 0
  PROVE  results[r] = NHosts[r]
<1>1. Cardinality(Resolving(r)) = 0
  BY FS_EmptySet
<1>2. results[r] \in Nat /\ results[r] + left[r] + Cardinality(Resolving(r)) = NHosts[r]
  BY DEF IInv, HostsInv, TypeOK
<1> QED
  BY <1>1, <1>2, SMTT(30)

\* Each step of the pool is a step of DnstresAbs, or changes nothing of it.
LEMMA StepRefines == ASSUME IInv, [Next]_vars PROVE [Abs!ANext]_(Abs!absVars)
<1> USE DnstresAssumption DEF poolVars, hostVars, histVars
<1>t. TypeOK /\ ActorInv /\ StatusInv /\ RefsExact
  BY DEF IInv
<1>1. ASSUME NEW r \in Requests, NewHosts(r) PROVE [Abs!ANext]_(Abs!absVars)
  <2>1. Abs!Submit(r) \/ Abs!Refuse(r)
    BY <1>1 DEF NewHosts, Abs!Submit, Abs!Refuse
  <2> QED
    BY <2>1 DEF Abs!ANext
<1>2. CASE Insert
  <2>1. CASE done /\ Put(req[Caller])
    BY <1>2, <2>1, PutArguments, PutRefines DEF Insert
  <2>2. CASE UNCHANGED <<refs, status>>
    BY <1>2, <2>2 DEF Insert, Abs!absVars
  <2> QED
    BY <1>2, <2>1, <2>2 DEF Insert
<1>3. ASSUME NEW t \in Threads, Drop(t) PROVE [Abs!ANext]_(Abs!absVars)
  <2>1. /\ Head(list) \in Requests /\ refs[Head(list)] > 0 /\ Put(Head(list))
        /\ UNCHANGED <<results, done>> /\ left[Head(list)] = 0
    BY <1>3, PutArguments DEF Drop
  <2>2. Listed(Head(list))
    BY <1>3, <1>t, ListRanges DEF Drop, TypeOK, IInv, ListedOnce, Listed
  <2>3. refs[Head(list)] = 1 => Resolving(Head(list)) = {}
    BY <2>1, <2>2, <1>t, Referenced, UsersFinite
  <2> QED
    BY <2>1, <2>3, AllReported, PutRefines
<1>4. ASSUME NEW t \in Threads, Resolve(t) PROVE [Abs!ANext]_(Abs!absVars)
  <2>1. /\ req[t] \in Requests /\ status[req[t]] = "open" /\ t \in Resolving(req[t])
        /\ results' = [results EXCEPT ![req[t]] = @ + 1] /\ UNCHANGED <<status, done>>
    BY <1>4, <1>t, PutArguments DEF Resolve, StatusInv, Resolving
  <2>2. results[req[t]] < NHosts[req[t]]
    <3>1. Cardinality(Resolving(req[t])) \in Nat /\ Cardinality(Resolving(req[t])) # 0
      BY <2>1, UsersFinite, FS_EmptySet
    <3>2. results[req[t]] \in Nat /\ left[req[t]] \in Nat
      BY <2>1, <1>t DEF TypeOK
    <3>3. results[req[t]] + left[req[t]] + Cardinality(Resolving(req[t])) = NHosts[req[t]]
      BY <2>1 DEF IInv, HostsInv
    <3> QED
      BY <3>1, <3>2, <3>3, SMTT(30)
  <2>3. Abs!Report(req[t])
    BY <2>1, <2>2 DEF Abs!Report
  <2> QED
    BY <2>1, <2>3 DEF Abs!ANext
<1>5. ASSUME NEW t \in Threads, PutHost(t) PROVE [Abs!ANext]_(Abs!absVars)
  <2>1. /\ req[t] \in Requests /\ refs[req[t]] > 0 /\ Put(req[t]) /\ pc[t] = "put"
        /\ UNCHANGED <<results, done>> /\ t \in Users(req[t])
    BY <1>5, PutArguments DEF PutHost, Users
  <2>2. ASSUME refs[req[t]] = 1, ~done PROVE results[req[t]] = NHosts[req[t]]
    <3>1. Users(req[t]) = {t} /\ ~Listed(req[t])
      BY <2>1, <2>2, <1>t, Referenced
    <3>2. Resolving(req[t]) = {}
      BY <2>1, <3>1, UsersFinite DEF Resolving
    <3>3. left[req[t]] = 0
      BY <2>1, <2>2, <3>1 DEF IInv, HostsInv, StatusInv
    <3> QED
      BY <2>1, <3>2, <3>3, AllReported
  <2> QED
    BY <2>1, <2>2, PutRefines
<1>6. CASE Free
  <2>1. Abs!Close
    BY <1>6 DEF Free, Abs!Close, IInv, FreeInv
  <2> QED
    BY <2>1 DEF Abs!ANext
<1>7. CASE FreePut
  <2>1. done /\ UNCHANGED <<results, done>>
    BY <1>7 DEF FreePut, IInv, FreeInv
  <2>2. CASE detached = <<>>
    BY <1>7, <2>1, <2>2 DEF FreePut, Abs!absVars
  <2>3. CASE detached # <<>>
    BY <1>7, <2>1, <2>3, PutArguments, PutRefines DEF FreePut
  <2> QED
    BY <2>2, <2>3
<1>8. CASE \/ \E t \in Threads : Lock(t) \/ Begin(t) \/ Leave(t) \/ Take(t) \/ Wait(t) \/ Spurious(t)
           \/ Notify \/ FreeNotify \/ Join \/ Finished \/ UNCHANGED vars
  <2>1. UNCHANGED <<status, results, done>>
    BY <1>8 DEF Lock, Begin, Leave, Take, Wait, Spurious, Notify, FreeNotify, Join, Finished,
                vars
  <2> QED
    BY <2>1 DEF Abs!absVars
<1> QED
  BY <1>1, <1>2, <1>3, <1>4, <1>5, <1>6, <1>7, <1>8, SMTT(30) DEF Next, ThreadStep

\* The threads, the caller and dnstres_pool_free keep, in every interleaving,
\* what DnstresAbs promises: each host is reported once, then on_done is
\* called once and last.
THEOREM ImplementsHolds == Spec => Implements
<1>1. Init => Abs!AInit
  BY DEF Init, Abs!AInit
<1>2. IInv /\ [Next]_vars => [Abs!ANext]_(Abs!absVars)
  BY StepRefines
<1> QED
  BY <1>1, <1>2, PoolInvariant, PTL DEF Spec, Implements, Abs!ASpec

============================================================================
