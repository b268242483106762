--------------------------- MODULE ReaplanProofs ---------------------------
(***************************************************************************)
(* Proofs that the connection engine keeps its slots, its destinations and *)
(* its connection rate, for any number of slots and destinations, any      *)
(* batch size, timeout and word size of the ID set.                        *)
(***************************************************************************)
EXTENDS Reaplan, FiniteSetTheorems, TLAPS

\* A leaf that names no prover is for Zenon.
USE ZenonT(40)

Conn == [open : BOOLEAN, dst : Nat, flags : SUBSET {"tls", "r", "w"}, reg : SUBSET {"r", "w"},
         wrote : BOOLEAN, read : BOOLEAN, left : Nat]
Sock == [st : {"none", "connecting", "est", "refused"}, data : BOOLEAN, eof : BOOLEAN]
Event == [f : {"r", "w", "timer"}, i : Nat, data : BOOLEAN, eof : BOOLEAN]

Types ==
  /\ conf \in Confs
  /\ conns \in [Slots -> Conn] /\ sock \in [Slots -> Sock]
  /\ free \subseteq Nat
  /\ active \in Nat /\ nevs \in Nat /\ started \in Nat
  /\ pc \in {"timer", "loop", "connect", "wait", "handle", "finished", "failed"}
  /\ batch \in Seq(Event) /\ closeq \in Seq(Slots)
  /\ next \in 1..(conf.dsts + 1)
  /\ done \in [Dsts -> Nat] /\ banners \in [Dsts -> Nat]

\* The ID set marks the open slots, the counter counts them.
SlotInv == Open = Slots \ free /\ active = Cardinality(Open)

\* Open connections have destinations of their own, that were handed out and
\* are not done with; one that was read from has its banner.
DstInv ==
  /\ \A i \in Open : /\ conns[i].dst \in 1..(next - 1)
                     /\ done[conns[i].dst] = 0
                     /\ banners[conns[i].dst] = IF conns[i].read THEN 1 ELSE 0
  /\ \A i, j \in Open : conns[i].dst = conns[j].dst => i = j

\* A destination that was handed out is connected to or done with.
OnceInv ==
  \A d \in Dsts :
    /\ d >= next => done[d] = 0 /\ banners[d] = 0
    /\ d < next => done[d] = 1 \/ \E i \in Open : conns[i].dst = d
    /\ done[d] <= 1 /\ banners[d] <= 1

\* While a batch is handled: its events and the queue name open connections, no
\* connection twice for the same reason, the queue has room for the events that
\* are left, and a connection that was read from is in the queue.
BatchInv ==
  /\ \A k \in 1..Len(batch) : batch[k].f # "timer" => batch[k].i \in Open
  /\ \A k \in 1..Len(batch) : batch[k].f = "r" => ~conns[batch[k].i].read
  /\ \A j, k \in 1..Len(batch) :
       batch[j].f = "r" /\ batch[k].f = "r" /\ batch[j].i = batch[k].i => j = k
  /\ \A j, k \in 1..Len(closeq) : closeq[j] = closeq[k] => j = k
  /\ \A k \in 1..Len(closeq) : closeq[k] \in Open
  /\ Len(closeq) + Len(batch) <= ConnectsPerTick
  /\ \A i \in Open : conns[i].read => \E k \in 1..Len(closeq) : closeq[k] = i
  /\ pc # "handle" => closeq = <<>> /\ batch = <<>>

\* The connections of a tick are those of one call of setup_connections.
RateInv ==
  /\ nevs <= 2 * ConnectsPerTick
  /\ pc # "connect" => nevs = 0
  /\ pc = "connect" => ~connectDone /\ (delay => ~throttle)
  /\ delay /\ ~throttle => nevs = 2 * started
  /\ ConnectRate

\* All connections are made when there is no destination left; a run ends
\* without connections.
EndInv ==
  /\ connectDone => next = conf.dsts + 1
  /\ pc \in {"finished", "failed"} => Open = {}
  /\ pc = "finished" => connectDone

IInv == Types /\ SlotInv /\ DstInv /\ OnceInv /\ BatchInv /\ RateInv /\ EndInv

----------------------------------------------------------------------------

(* The ID set, sequences of slots and batches.                             *)

\* The least element of a set of numbers: the first bit that is set.
LEMMA MinOf ==
  ASSUME NEW S \in SUBSET Nat, S # {}
  PROVE  Min(S) \in S /\ \A y \in S : Min(S) <= y
<1> DEFINE R == OpToRel(<, Nat)
<1>1. \A x, y \in Nat : y < x => <<y, x>> \in R
  BY DEF OpToRel
<1>2. PICK x \in S : \A y \in S : ~ (<<y, x>> \in R)
  <2>1. IsWellFoundedOn(R, Nat)
    BY NatLessThanWellFounded
  <2> HIDE DEF R
  <2> QED
    BY <2>1, WFMin
<1> HIDE DEF R
<1>3. ASSUME NEW y \in S PROVE x <= y
  <2>1. ~(y < x)
    BY <1>1, <1>2
  <2> QED
    BY <2>1, SMTT(30)
<1> QED
  BY <1>3 DEF Min

\* Sets of slots are finite.
LEMMA SlotSets ==
  ASSUME NEW S \in SUBSET Slots
  PROVE  IsFiniteSet(S) /\ Cardinality(S) \in Nat
<1>1. IsFiniteSet(Slots)
  BY ReaplanAssumption, FS_Interval, SMTT(30) DEF Slots
<1> QED
  BY <1>1, FS_Subset, FS_CardinalityType

\* idset_use_next returns a slot whose bit was clear and sets it, or fails
\* without touching the bit of a slot.
LEMMA IdsetFacts ==
  ASSUME free \subseteq Nat
  PROVE  LET u == IdsetUseNext IN
         /\ u.id \in Int /\ u.free \subseteq Nat
         /\ u.id >= 0 => u.id \in Slots \cap free /\ u.free = free \ {u.id}
         /\ u.id < 0 => Slots \ u.free = Slots \ free
<1> DEFINE b == Min(free)
           u == IdsetUseNext
<1>1. CASE full \/ free = {}
  BY <1>1, SMTT(30) DEF IdsetUseNext
<1>2. CASE ~(full \/ free = {})
  <2>1. b \in free /\ b \in Nat
    BY <1>2, MinOf
  <2> HIDE DEF b
  <2>2. CASE b > MaxClients - 1
    <3>1. u = [id |-> -1, free |-> free \ {b}, full |-> TRUE]
      BY <1>2, <2>2 DEF IdsetUseNext, b
    <3>2. b \notin Slots
      BY <2>1, <2>2, ReaplanAssumption, SMTT(30) DEF Slots
    <3>3. u.id = -1 /\ u.free = free \ {b}
      BY <3>1
    <3>4. Slots \ (free \ {b}) = Slots \ free
      BY <3>2
    <3> HIDE DEF u
    <3>5. u.id \in Int /\ ~(u.id >= 0)
      BY <3>3, SMTT(30)
    <3> QED
      BY <3>3, <3>4, <3>5 DEF u
  <2>3. CASE ~(b > MaxClients - 1)
    <3>1. u = [id |-> b, free |-> free \ {b}, full |-> full]
      BY <1>2, <2>3 DEF IdsetUseNext, b
    <3>2. b \in Slots
      BY <2>1, <2>3, ReaplanAssumption, SMTT(30) DEF Slots
    <3> HIDE DEF u
    <3> QED
      BY <2>1, <3>1, <3>2, SMTT(30) DEF u
  <2> QED
    BY <2>2, <2>3
<1> QED
  BY <1>1, <1>2

\* The length of a queue or a batch is a number.
LEMMA SeqLength == \A S : \A s \in Seq(S) : Len(s) \in Nat
BY SMTT(30)

\* The slots of a set in some order, each once.
LEMMA SlotSeq ==
  ASSUME NEW S \in SUBSET Slots
  PROVE  LET q == InSomeOrder(S) IN
         /\ q \in Seq(S) /\ Len(q) = Cardinality(S)
         /\ \A j, k \in 1..Len(q) : q[j] = q[k] => j = k
         /\ \A i \in S : \E k \in 1..Len(q) : q[k] = i
<1> DEFINE n == Cardinality(S)
           q == InSomeOrder(S)
<1>1. n \in Nat /\ ExistsBijection(1..n, S) /\ IsFiniteSet(S)
  BY SlotSets, FS_CardinalityType
<1>2. \E f \in [1..n -> S] : IsInjective(f)
  BY <1>1 DEF ExistsBijection, Bijection, Injection, IsInjective
<1>3. q \in [1..n -> S] /\ IsInjective(q)
  BY <1>2 DEF InSomeOrder
<1>4. q \in Injection(1..n, S)
  BY <1>3 DEF Injection, IsInjective
<1>5. IsFiniteSet(1..n) /\ Cardinality(1..n) = n
  BY <1>1, FS_Interval, SMTT(30)
<1> HIDE DEF q
<1>6. q \in Surjection(1..n, S)
  BY <1>1, <1>4, <1>5, FS_Injection
<1>7. q \in Seq(S) /\ Len(q) = n
  BY <1>1, <1>3, SMTT(30)
<1>8. \A j, k \in 1..Len(q) : q[j] = q[k] => j = k
  BY <1>3, <1>7 DEF IsInjective
<1>9. \A i \in S : \E k \in 1..Len(q) : q[k] = i
  BY <1>6, <1>7 DEF Surjection
<1> QED
  BY <1>7, <1>8, <1>9 DEF q

\* As many slots as the sequence is long, when no slot is in it twice.
LEMMA SeqSlots ==
  ASSUME NEW q \in Seq(Slots), \A j, k \in 1..Len(q) : q[j] = q[k] => j = k
  PROVE  Range(q) \in SUBSET Slots /\ Cardinality(Range(q)) = Len(q)
<1>1. /\ Len(q) \in Nat /\ DOMAIN q = 1..Len(q)
      /\ IsFiniteSet(1..Len(q)) /\ Cardinality(1..Len(q)) = Len(q)
  BY FS_Interval, SMTT(30)
<1>2. Range(q) \in SUBSET Slots
  BY <1>1, SMTT(30) DEF Range
<1>3. q \in Bijection(1..Len(q), Range(q))
  BY <1>1, SMTT(30) DEF Range, Bijection, Injection, Surjection, IsInjective
<1>4. ExistsBijection(1..Len(q), Range(q))
  BY <1>3 DEF ExistsBijection
<1> QED
  BY <1>1, <1>2, <1>4, FS_Bijection

----------------------------------------------------------------------------
(* Closing connections.                                                    *)

\* reaplan_conn_close of distinct open slots gives their slots back and is the
\* one end of their destinations.
LEMMA CloseStep ==
  ASSUME Types, SlotInv, DstInv, OnceInv,
         NEW q \in Seq(Slots), \A j, k \in 1..Len(q) : q[j] = q[k] => j = k,
         \A k \in 1..Len(q) : q[k] \in Open,
         CloseAll(q), UNCHANGED <<conf, next>>
  PROVE  /\ conns' \in [Slots -> Conn] /\ sock' \in [Slots -> Sock]
         /\ free' \subseteq Nat /\ active' \in Nat
         /\ done' \in [Dsts -> Nat] /\ banners' \in [Dsts -> Nat]
         /\ Open' = Open \ Range(q)
         /\ \A i \in Open' : conns'[i] = conns[i]
         /\ SlotInv' /\ DstInv' /\ OnceInv'
<1> DEFINE S == Range(q)
           Of(d) == {k \in DOMAIN q : conns[q[k]].dst = d}
           Empty(d) == {k \in Of(d) : BgrabOnDone(conns[q[k]])}
<1>1. /\ S \in SUBSET Slots /\ Cardinality(S) = Len(q) /\ Len(q) \in Nat /\ DOMAIN q = 1..Len(q)
      /\ S \subseteq Open /\ \A i : i \in S <=> \E k \in 1..Len(q) : q[k] = i
  BY SeqSlots, SMTT(30) DEF Range
<1>2. Open \subseteq Slots /\ IsFiniteSet(Open) /\ Cardinality(Open) \in Nat
  BY SlotSets DEF Open
<1>3. /\ conns' = [i \in Slots |-> IF i \in S THEN Closed ELSE conns[i]]
      /\ sock' = [i \in Slots |-> IF i \in S THEN NoSock ELSE sock[i]]
      /\ free' = free \cup S /\ active' = active - Len(q)
      /\ done' = [d \in Dsts |-> done[d] + Cardinality(Of(d))]
      /\ banners' = [d \in Dsts |-> banners[d] + Cardinality(Empty(d))]
  BY DEF CloseAll
<1>4. conns' \in [Slots -> Conn] /\ sock' \in [Slots -> Sock] /\ free' \subseteq Nat
  <2>1. Closed \in Conn /\ NoSock \in Sock
    BY DEF Closed, Conn, NoSock, Sock
  <2>2. Slots \subseteq Nat
    BY SMTT(30) DEF Slots
  <2> QED
    BY <1>1, <1>3, <2>1, <2>2 DEF Types
<1>5. Open' = Open \ S /\ \A i \in Open' : conns'[i] = conns[i]
  BY <1>3 DEF Open, Closed
<1>6. Dsts' = Dsts
  BY DEF Dsts
<1> HIDE DEF S
<1>7. SlotInv' /\ active' \in Nat
  <2>1. Cardinality(Open \ S) = Cardinality(Open) - Cardinality(Open \cap S)
    BY <1>2, FS_Difference
  <2>2. Open \cap S = S
    BY <1>1
  <2>3. Cardinality(Open \ S) \in Nat
    BY <1>2, SlotSets
  <2>4. Open' = Slots \ free'
    BY <1>1, <1>3, <1>5 DEF SlotInv
  <2>5. active' = Cardinality(Open')
    BY <1>1, <1>2, <1>3, <1>5, <2>1, <2>2 DEF SlotInv
  <2> QED
    BY <1>5, <2>3, <2>4, <2>5 DEF SlotInv
<1>8. ASSUME NEW d \in Dsts, NEW i \in S, conns[i].dst = d
      PROVE  Cardinality(Of(d)) = 1 /\ Cardinality(Empty(d)) = IF BgrabOnDone(conns[i]) THEN 1 ELSE 0
  <2>1. PICK k \in 1..Len(q) : q[k] = i
    BY <1>1
  <2>2. \A j \in 1..Len(q) : conns[q[j]].dst = d => j = k
    BY <1>1, <1>8, <2>1, SMTT(30) DEF DstInv
  <2>3. Of(d) = {k}
    BY <1>1, <1>8, <2>1, <2>2, SMTT(30)
  <2>4. Empty(d) = IF BgrabOnDone(conns[i]) THEN {k} ELSE {}
    BY <2>1, <2>3
  <2> QED
    BY <2>3, <2>4, FS_Singleton, FS_EmptySet
<1>9. ASSUME NEW d \in Dsts, \A i \in S : conns[i].dst # d
      PROVE  Cardinality(Of(d)) = 0 /\ Cardinality(Empty(d)) = 0
  <2>1. Of(d) = {}
    BY <1>1, <1>9
  <2>2. Empty(d) = {}
    BY <2>1
  <2> QED
    BY <2>1, <2>2, FS_EmptySet
<1>10. done \in [Dsts -> Nat] /\ banners \in [Dsts -> Nat] /\ next \in Nat
  BY SMTT(30) DEF Types
<1>11. ASSUME NEW d \in Dsts
       PROVE  done'[d] = done[d] + Cardinality(Of(d)) /\ banners'[d] = banners[d] + Cardinality(Empty(d))
  BY <1>3
<1> HIDE DEF Of, Empty
<1>12. \A d \in Dsts : done'[d] \in Nat /\ banners'[d] \in Nat
  <2> SUFFICES ASSUME NEW d \in Dsts PROVE done'[d] \in Nat /\ banners'[d] \in Nat
    OBVIOUS
  <2>1. Cardinality(Of(d)) \in Nat /\ Cardinality(Empty(d)) \in Nat
    BY <1>8, <1>9, SMTT(30)
  <2>2. done[d] \in Nat /\ banners[d] \in Nat
    BY <1>10
  <2> QED
    BY <1>11, <2>1, <2>2, SMTT(30)
<1>13. done' \in [Dsts -> Nat] /\ banners' \in [Dsts -> Nat]
  BY <1>3, <1>12
<1>14. \A i \in Open : conns[i].dst \in Dsts
  <2>1. conf.dsts \in Nat /\ next \in 1..(conf.dsts + 1)
    BY ReaplanAssumption DEF Types
  <2> QED
    BY <2>1, SMTT(30) DEF DstInv, Dsts
<1>15. DstInv'
  <2>1. ASSUME NEW i \in Open \ S
        PROVE  LET d == conns[i].dst IN done'[d] = done[d] /\ banners'[d] = banners[d]
    <3> DEFINE d == conns[i].dst
    <3>1. d \in Dsts /\ \A j \in S : conns[j].dst # d
      BY <1>1, <1>14 DEF DstInv
    <3>2. done[d] \in Nat /\ banners[d] \in Nat
      BY <1>10, <3>1
    <3> HIDE DEF d
    <3>3. done'[d] = done[d] /\ banners'[d] = banners[d]
      BY <1>9, <1>11, <3>1, <3>2, SMTT(30)
    <3> QED
      BY <3>3 DEF d
  <2> QED
    BY <1>5, <2>1, SMTT(30) DEF DstInv
<1>16. OnceInv'
  <2> SUFFICES ASSUME NEW d \in Dsts
               PROVE  /\ d >= next => done'[d] = 0 /\ banners'[d] = 0
                      /\ d < next => done'[d] = 1 \/ \E i \in Open' : conns'[i].dst = d
                      /\ done'[d] <= 1 /\ banners'[d] <= 1
    BY <1>6 DEF OnceInv
  <2>1. /\ d >= next => done[d] = 0 /\ banners[d] = 0
        /\ d < next => done[d] = 1 \/ \E i \in Open : conns[i].dst = d
        /\ done[d] <= 1 /\ banners[d] <= 1
    BY DEF OnceInv
  <2>2. CASE \E i \in S : conns[i].dst = d
    <3>1. PICK i \in S : conns[i].dst = d
      BY <2>2
    <3>2. /\ done[d] = 0 /\ banners[d] = (IF conns[i].read THEN 1 ELSE 0)
          /\ d < next /\ d \in Nat
      BY <1>1, <1>10, <3>1, SMTT(30) DEF DstInv
    <3>3. done'[d] = 1
      BY <1>8, <1>11, <3>1, <3>2, SMTT(30)
    <3>4. banners'[d] <= 1
      BY <1>8, <1>11, <3>1, <3>2, SMTT(30) DEF BgrabOnDone
    <3> QED
      BY <1>10, <3>2, <3>3, <3>4, SMTT(30)
  <2>3. CASE ~\E i \in S : conns[i].dst = d
    <3>1. done'[d] = done[d] /\ banners'[d] = banners[d]
      BY <1>9, <1>10, <1>11, <2>3, SMTT(30)
    <3>2. (\E i \in Open : conns[i].dst = d) => \E i \in Open' : conns'[i].dst = d
      BY <1>5, <2>3
    <3> QED
      BY <2>1, <3>1, <3>2
  <2> QED
    BY <2>2, <2>3
<1> QED
  BY <1>4, <1>5, <1>7, <1>13, <1>15, <1>16 DEF S

----------------------------------------------------------------------------
(* The rate of connections.                                                *)

\* setup_connections fills the tick's event slots once, and again only after
\* the timer event has reset the flag and the count.
LEMMA RateStep ==
  ASSUME IInv, Next
  PROVE  RateInv'
<1> USE DEF IInv
<1>1. nevs \in Nat /\ started \in Nat /\ ConnectsPerTick \in Nat \ {0}
  BY ReaplanAssumption, SMTT(30) DEF Types
<1>2. CASE Loop
  BY <1>2 DEF Loop, runVars, RateInv, ConnectRate, delay, MayConnect
<1>3. CASE SetupOne
  <2>1. /\ pc = "connect" /\ pc' = "connect" /\ nevs <= 2 * ConnectsPerTick - 2
        /\ UNCHANGED <<conf, connectDone, throttle>>
    BY <1>3 DEF SetupOne, MoreEvents, runVars
  <2>2. \/ UNCHANGED <<nevs, started>>
        \/ nevs' = nevs + 2 /\ started' = IF delay THEN started + 1 ELSE 0
    BY <1>3 DEF SetupOne, BgrabConnectFails
  <2>3. CASE UNCHANGED <<nevs, started>>
    BY <2>1, <2>3 DEF RateInv, ConnectRate, delay
  <2>4. CASE nevs' = nevs + 2 /\ started' = IF delay THEN started + 1 ELSE 0
    <3>1. delay => ~throttle /\ nevs = 2 * started
      BY <2>1 DEF RateInv
    <3>2. nevs' <= 2 * ConnectsPerTick
      BY <1>1, <2>1, <2>4, SMTT(30)
    <3>3. delay => nevs' = 2 * started' /\ started' <= ConnectsPerTick
      BY <1>1, <2>1, <2>4, <3>1, SMTT(30)
    <3> QED
      BY <2>1, <3>1, <3>2, <3>3 DEF RateInv, ConnectRate, delay
  <2> QED
    BY <2>2, <2>3, <2>4
<1>4. CASE SetupEnds
  <2>1. pc' = "wait" /\ nevs' = 0 /\ throttle' = TRUE /\ UNCHANGED <<conf, started>>
    BY <1>4 DEF SetupEnds, Connected
  <2> QED
    BY <1>1, <2>1, SMTT(30) DEF RateInv, ConnectRate, delay
<1>5. CASE Wait \/ CloseConns \/ UpdateTimer \/ Fail
  <2>1. /\ pc # "connect" /\ pc' # "connect"
        /\ UNCHANGED <<conf, nevs, started, throttle>>
    BY <1>5 DEF Wait, CloseConns, UpdateTimer, Fail, runVars
  <2> QED
    BY <2>1 DEF RateInv, ConnectRate, delay
<1>6. CASE HandleEvent
  <2>1. pc = "handle" /\ pc' = "handle" /\ UNCHANGED <<conf, nevs>>
    BY <1>6 DEF HandleEvent
  <2>2. (throttle' = FALSE /\ started' = 0) \/ UNCHANGED <<throttle, started>>
    BY <1>6 DEF HandleEvent
  <2> QED
    BY <1>1, <2>1, <2>2, SMTT(30) DEF RateInv, ConnectRate, delay
<1>7. CASE Second \/ (\E i \in Slots : Peer(i)) \/ Finished
  BY <1>7 DEF Second, Peer, Finished, vars, runVars, RateInv, ConnectRate, delay
<1> QED
  BY <1>2, <1>3, <1>4, <1>5, <1>6, <1>7 DEF Next, Step

----------------------------------------------------------------------------
(* Slots and destinations.                                                 *)

\* What a step that neither opens nor closes nor reads leaves as it is.
LEMMA SameConns ==
  ASSUME IInv, UNCHANGED <<conf, free, active, next, done, banners>>,
         \A j \in Slots : /\ conns'[j].open = conns[j].open /\ conns'[j].dst = conns[j].dst
                          /\ conns'[j].read = conns[j].read
  PROVE  Open' = Open /\ SlotInv' /\ DstInv' /\ OnceInv'
<1>1. Open' = Open /\ Open \subseteq Slots /\ Dsts' = Dsts
  BY DEF Open, Dsts
<1>2. SlotInv'
  BY <1>1 DEF IInv, SlotInv
<1>3. DstInv'
  BY <1>1, SMTT(30) DEF IInv, DstInv
<1>4. OnceInv'
  BY <1>1, SMTT(30) DEF IInv, OnceInv
<1> QED
  BY <1>1, <1>2, <1>3, <1>4

\* setup_connections with a slot and a destination at hand.
LEMMA SetupOneStep ==
  ASSUME IInv, SetupOne
  PROVE  Types' /\ SlotInv' /\ DstInv' /\ OnceInv' /\ BatchInv' /\ EndInv'
<1> USE DEF IInv
<1> DEFINE u == IdsetUseNext
           i == u.id
<1>1. /\ pc = "connect" /\ i >= 0 /\ next <= conf.dsts /\ next' = next + 1
      /\ UNCHANGED <<conf, pc, batch, closeq, connectDone, banners>>
  BY DEF SetupOne, HasDst, runVars
<1>2. i \in Slots \cap free /\ u.free = free \ {i} /\ free \subseteq Nat
  BY <1>1, IdsetFacts DEF Types
<1>3. /\ conf.dsts \in Nat /\ next \in Dsts /\ next \in Nat /\ Dsts' = Dsts
      /\ next' \in 1..(conf'.dsts + 1)
  BY <1>1, ReaplanAssumption, SMTT(30) DEF Types, Dsts
<1>4. done[next] = 0 /\ banners[next] = 0 /\ done \in [Dsts -> Nat] /\ banners \in [Dsts -> Nat]
  BY <1>3, SMTT(30) DEF OnceInv, Types
<1>5. batch = <<>> /\ closeq = <<>> /\ ~connectDone
  BY <1>1 DEF BatchInv, RateInv
<1>6. Open \subseteq Slots /\ IsFiniteSet(Open) /\ Cardinality(Open) \in Nat /\ i \notin Open
  BY <1>2, SlotSets DEF Open, SlotInv
<1> HIDE DEF u, i
<1>7. CASE BgrabConnectFails
  <2>1. done' = [done EXCEPT ![next] = @ + 1] /\ UNCHANGED <<conns, sock, free, active, nevs, started>>
    BY <1>7 DEF BgrabConnectFails, idVars
  <2>2. \A d \in Dsts : done'[d] = IF d = next THEN 1 ELSE done[d]
    BY <1>4, <2>1, SMTT(30)
  <2>3. Open' = Open
    BY <2>1 DEF Open
  <2>4. Types'
    BY <1>1, <1>3, <1>4, <2>1, SMTT(30) DEF Types
  <2>5. DstInv'
    <3>1. \A j \in Open : conns[j].dst \in 1..(next - 1) /\ conns[j].dst \in Dsts /\ conns[j].dst # next
      BY <1>3, SMTT(30) DEF DstInv, Dsts
    <3>2. \A j \in Open : conns[j].dst \in 1..(next' - 1)
      BY <1>1, <1>3, <3>1, SMTT(30)
    <3> QED
      BY <1>1, <2>1, <2>2, <2>3, <3>1, <3>2, SMTT(30) DEF DstInv
  <2>6. OnceInv'
    <3> SUFFICES ASSUME NEW d \in Dsts
                 PROVE  /\ d >= next + 1 => done'[d] = 0 /\ banners[d] = 0
                        /\ d < next + 1 => done'[d] = 1 \/ \E j \in Open : conns[j].dst = d
                        /\ done'[d] <= 1 /\ banners[d] <= 1
      BY <1>1, <1>3, <2>1, <2>3 DEF OnceInv
    <3>1. d \in Nat
      BY SMTT(30) DEF Dsts
    <3> QED
      BY <1>3, <1>4, <2>2, <3>1, SMTT(30) DEF OnceInv
  <2>7. SlotInv'
    BY <2>1, <2>3 DEF SlotInv
  <2>8. BatchInv' /\ EndInv'
    BY <1>1, <1>5, <2>1, <2>3, SMTT(30) DEF BatchInv, EndInv
  <2> QED
    BY <2>4, <2>5, <2>6, <2>7, <2>8
<1>8. CASE ~BgrabConnectFails
  <2>1. /\ free' = free \ {i} /\ conns' = [conns EXCEPT ![i] = Registered(next)]
        /\ sock' = [sock EXCEPT ![i].st = "connecting"]
        /\ active' = active + 1 /\ nevs' = nevs + 2
        /\ started' = (IF delay THEN started + 1 ELSE 0) /\ done' = done
    BY <1>2, <1>8 DEF SetupOne, u, i
  <2>2. /\ Registered(next) \in Conn /\ Registered(next).open /\ Registered(next).dst = next
        /\ Registered(next).read = FALSE
    BY <1>3, ReaplanAssumption DEF Registered, Closed, Conn
  <2>3. /\ conns' \in [Slots -> Conn]
        /\ \A j \in Slots : conns'[j] = IF j = i THEN Registered(next) ELSE conns[j]
    BY <1>2, <2>1, <2>2 DEF Types
  <2>4. Open' = Open \cup {i}
    BY <1>2, <2>2, <2>3 DEF Open
  <2>5. Types'
    <3>1. sock' \in [Slots -> Sock]
      BY <1>2, <2>1 DEF Types, Sock
    <3>2. active' \in Nat /\ nevs' \in Nat /\ started' \in Nat /\ free' \subseteq Nat
      BY <2>1, SMTT(30) DEF Types
    <3> QED
      BY <1>1, <1>3, <1>4, <2>1, <2>3, <3>1, <3>2 DEF Types
  <2>6. SlotInv'
    <3>1. Cardinality(Open \cup {i}) = Cardinality(Open) + 1
      BY <1>6, FS_AddElement
    <3> QED
      BY <1>2, <2>1, <2>4, <3>1 DEF SlotInv
  <2>7. DstInv'
    <3>1. \A j \in Open : /\ conns[j].dst \in 1..(next - 1) /\ conns[j].dst # next
                          /\ conns'[j] = conns[j] /\ j # i
      BY <1>3, <1>6, <2>3, SMTT(30) DEF DstInv
    <3>2. conns'[i] = Registered(next) /\ next \in 1..(next' - 1)
      BY <1>1, <1>2, <1>3, <2>3, SMTT(30) DEF Dsts
    <3>3. \A j \in Open : conns[j].dst \in 1..(next' - 1)
      BY <1>1, <1>3, <3>1, SMTT(30)
    <3> QED
      BY <1>1, <1>4, <2>1, <2>2, <2>4, <3>1, <3>2, <3>3, SMTT(30) DEF DstInv
  <2>8. OnceInv'
    <3> SUFFICES ASSUME NEW d \in Dsts
                 PROVE  /\ d >= next + 1 => done[d] = 0 /\ banners[d] = 0
                        /\ d < next + 1 => done[d] = 1 \/ \E j \in Open' : conns'[j].dst = d
                        /\ done[d] <= 1 /\ banners[d] <= 1
      BY <1>1, <1>3, <2>1 DEF OnceInv
    <3>1. d \in Nat /\ (d < next + 1 => d < next \/ d = next) /\ (d >= next + 1 => d >= next)
      BY <1>3, SMTT(30) DEF Dsts
    <3>2. d = next => \E j \in Open' : conns'[j].dst = d
      BY <1>2, <2>2, <2>3, <2>4
    <3>3. (\E j \in Open : conns[j].dst = d) => \E j \in Open' : conns'[j].dst = d
      BY <1>6, <2>3, <2>4
    <3> QED
      BY <3>1, <3>2, <3>3 DEF OnceInv
  <2>9. BatchInv' /\ EndInv'
    <3>0. \A j \in Open : ~conns[j].read
      BY <1>5, SMTT(30) DEF BatchInv
    <3>1. \A j \in Open' : ~conns'[j].read
      BY <1>2, <1>6, <2>2, <2>3, <2>4, <3>0
    <3> QED
      BY <1>1, <1>5, <3>1, SMTT(30) DEF BatchInv, EndInv
  <2> QED
    BY <2>5, <2>6, <2>7, <2>8, <2>9
<1> QED
  BY <1>7, <1>8

----------------------------------------------------------------------------
(* Waiting for events, and handling them.                                  *)

\* kevent reports finitely many events, of open connections, and one for
\* reading at most of each.
LEMMA ReadyFacts ==
  ASSUME IInv
  PROVE  /\ IsFiniteSet(ReadyEvents)
         /\ \A e \in ReadyEvents : e \in Event /\ e.f \in {"r", "w"} /\ e.i \in Open
         /\ \A d, e \in ReadyEvents : d.f = e.f /\ d.i = e.i => d = e
<1> DEFINE Ev(i, f) == [f |-> f, i |-> i, data |-> sock[i].data,
                        eof |-> sock[i].eof \/ sock[i].st = "refused"]
<1>1. ASSUME NEW i \in Open PROVE Ready(i) \subseteq {Ev(i, "r"), Ev(i, "w")}
  <2>1. conns[i].reg \subseteq {"r", "w"}
    BY DEF IInv, Types, Conn, Open
  <2> QED
    BY <2>1 DEF Ready
<1>2. ASSUME NEW i \in Open PROVE Ev(i, "r") \in Event /\ Ev(i, "w") \in Event
  <2>1. i \in Nat /\ sock[i].data \in BOOLEAN
    BY ReaplanAssumption, SMTT(30) DEF IInv, Types, Sock, Open, Slots
  <2> QED
    BY <2>1 DEF Event
<1>3. ASSUME NEW e \in ReadyEvents
      PROVE  \E i \in Open : e \in Ready(i) /\ (e = Ev(i, "r") \/ e = Ev(i, "w"))
  BY <1>1, <1>3, SMTT(30) DEF ReadyEvents
<1>4. ASSUME NEW e \in ReadyEvents
      PROVE  e \in Event /\ e.f \in {"r", "w"} /\ e.i \in Open
  <2>1. PICK i \in Open : e = Ev(i, "r") \/ e = Ev(i, "w")
    BY <1>3
  <2>2. e \in Event
    BY <1>2, <2>1
  <2> QED
    BY <2>1, <2>2, SMTT(30)
<1>5. \A d, e \in ReadyEvents : d.f = e.f /\ d.i = e.i => d = e
  <2> SUFFICES ASSUME NEW d \in ReadyEvents, NEW e \in ReadyEvents, d.f = e.f, d.i = e.i
               PROVE  d = e
    OBVIOUS
  <2>1. PICK i \in Open : d = Ev(i, "r") \/ d = Ev(i, "w")
    BY <1>3
  <2>2. PICK j \in Open : e = Ev(j, "r") \/ e = Ev(j, "w")
    BY <1>3
  <2> QED
    BY <2>1, <2>2, SMTT(30)
<1>6. ASSUME NEW i \in Open PROVE IsFiniteSet(Ready(i))
  <2>1. IsFiniteSet({Ev(i, "r")}) /\ IsFiniteSet({Ev(i, "w")})
    BY FS_Singleton
  <2>2. IsFiniteSet({Ev(i, "r")} \cup {Ev(i, "w")})
    BY <2>1, FS_Union
  <2>3. Ready(i) \in SUBSET ({Ev(i, "r")} \cup {Ev(i, "w")})
    BY <1>1
  <2> QED
    BY <2>2, <2>3, FS_Subset, SMTT(30)
<1>7. IsFiniteSet(Open)
  BY SlotSets DEF Open
<1>8. IsFiniteSet({Ready(i) : i \in Open})
  <2> DEFINE f == [i \in Open |-> Ready(i)]
             T == {Ready(i) : i \in Open}
  <2>1. f \in [Open -> T] /\ \A t \in T : \E i \in Open : f[i] = t
    OBVIOUS
  <2>2. f \in Surjection(Open, T)
    BY <2>1 DEF Surjection
  <2> HIDE DEF f, T
  <2>3. IsFiniteSet(T)
    BY <1>7, <2>2, FS_Surjection
  <2> QED
    BY <2>3 DEF T
<1>9. IsFiniteSet(ReadyEvents)
  BY <1>6, <1>8, FS_UNION DEF ReadyEvents
<1> QED
  BY <1>4, <1>5, <1>9

\* kevent fills a batch no larger than the queue of connections to close.
LEMMA WaitStep ==
  ASSUME IInv, Wait
  PROVE  Types' /\ SlotInv' /\ DstInv' /\ OnceInv' /\ BatchInv' /\ EndInv'
<1> DEFINE all == ReadyEvents \cup (IF timer THEN {TimerEvent} ELSE {})
           n == Min({Cardinality(all), ConnectsPerTick})
<1>1. IsFiniteSet(all)
  <2>1. IsFiniteSet({TimerEvent}) /\ IsFiniteSet({})
    BY FS_Singleton, FS_EmptySet
  <2> QED
    BY <2>1, ReadyFacts, FS_Union
<1>2. n \in Nat /\ n <= ConnectsPerTick
  <2>1. Cardinality(all) \in Nat /\ ConnectsPerTick \in Nat
    BY <1>1, FS_CardinalityType, ReaplanAssumption, SMTT(30)
  <2> HIDE DEF all
  <2> QED
    BY <2>1, MinOf
<1>3. all \subseteq Event /\ \A e \in all : e.f # "timer" => e \in ReadyEvents
  <2>1. TimerEvent \in Event /\ TimerEvent.f = "timer"
    BY DEF TimerEvent, Event
  <2> QED
    BY <2>1, ReadyFacts
<1>4. PICK b \in [1..n -> all] :
        /\ \A j, k \in 1..n : j # k => b[j] # b[k]
        /\ batch' = b
        /\ conns' = [i \in Slots |->
             IF \E k \in 1..n : b[k].f = "w" /\ b[k].i = i
             THEN [conns[i] EXCEPT !.reg = @ \ {"w"}] ELSE conns[i]]
  BY DEF Wait
<1>5. /\ pc = "wait" /\ pc' = "handle"
      /\ UNCHANGED <<conf, sock, free, full, active, nevs, closeq, connectDone, newsec, next, done, banners, started>>
  BY DEF Wait, idVars, runVars, outVars
<1> HIDE DEF all, n
<1>6. batch' \in Seq(Event) /\ Len(batch') = n /\ b = batch'
  <2>1. b \in [1..n -> Event]
    BY <1>3
  <2> QED
    BY <1>2, <1>4, <2>1, SMTT(30)
<1>7. /\ conns' \in [Slots -> Conn]
      /\ \A j \in Slots : /\ conns'[j].open = conns[j].open /\ conns'[j].dst = conns[j].dst
                          /\ conns'[j].read = conns[j].read
  <2> DEFINE W(i) == \E k \in 1..n : b[k].f = "w" /\ b[k].i = i
  <2>1. conns' = [i \in Slots |-> IF W(i) THEN [conns[i] EXCEPT !.reg = @ \ {"w"}] ELSE conns[i]]
    BY <1>4
  <2> HIDE DEF W
  <2>2. conns \in [Slots -> Conn]
    BY DEF IInv, Types
  <2>3. ASSUME NEW i \in Slots
        PROVE  /\ conns'[i] \in Conn
               /\ conns'[i].open = conns[i].open /\ conns'[i].dst = conns[i].dst
               /\ conns'[i].read = conns[i].read
    <3>1. conns[i] \in Conn /\ conns'[i] = IF W(i) THEN [conns[i] EXCEPT !.reg = @ \ {"w"}] ELSE conns[i]
      BY <2>1, <2>2, <2>3
    <3>2. CASE W(i)
      BY ONLY <3>1, <3>2, SMTT(30) DEF Conn
    <3> QED
      BY <3>1, <3>2
  <2> QED
    BY <2>1, <2>3
<1>8. Open' = Open /\ SlotInv' /\ DstInv' /\ OnceInv'
  BY <1>5, <1>7, SameConns
<1>9. Types'
  BY <1>5, <1>6, <1>7 DEF IInv, Types, Dsts
<1>10. EndInv'
  BY <1>5 DEF IInv, EndInv
<1>11. BatchInv'
  <2>1. closeq = <<>> /\ closeq' = <<>> /\ \A i \in Open : ~conns[i].read
    BY <1>5, SMTT(30) DEF IInv, BatchInv
  <2>2. \A k \in 1..n : b[k].f # "timer" => b[k] \in ReadyEvents /\ b[k].i \in Open
    BY <1>3, ReadyFacts
  <2>3. \A k \in 1..n : b[k].f = "r" => ~conns'[b[k].i].read
    BY <1>7, <2>1, <2>2 DEF Open
  <2>4. \A j, k \in 1..n : b[j].f = "r" /\ b[k].f = "r" /\ b[j].i = b[k].i => j = k
    BY <1>4, <2>2, ReadyFacts
  <2>5. \A i \in Open' : ~conns'[i].read
    BY <1>7, <1>8, <2>1 DEF Open
  <2> QED
    BY <1>2, <1>5, <1>6, <1>8, <2>1, <2>2, <2>3, <2>4, <2>5, SMTT(30) DEF BatchInv
<1> QED
  BY <1>8, <1>9, <1>10, <1>11

\* enqueue_close_conn leaves a connection in the queue, once.
LEMMA EnqueueFacts ==
  ASSUME NEW q \in Seq(Slots), NEW i \in Slots, Len(q) < ConnectsPerTick,
         \A j, k \in 1..Len(q) : q[j] = q[k] => j = k
  PROVE  LET p == Enqueue(q, i) IN
         /\ p \in Seq(Slots) /\ Len(p) <= Len(q) + 1
         /\ \A j, k \in 1..Len(p) : p[j] = p[k] => j = k
         /\ \A k \in 1..Len(p) : p[k] = i \/ \E j \in 1..Len(q) : q[j] = p[k]
         /\ \A k \in 1..Len(q) : \E j \in 1..Len(p) : p[j] = q[k]
         /\ \E k \in 1..Len(p) : p[k] = i
         /\ Enqueue(p, i) = p
<1> DEFINE p == Enqueue(q, i)
<1>1. CASE \E k \in 1..Len(q) : q[k] = i
  <2>1. p = q
    BY <1>1 DEF Enqueue
  <2> QED
    BY <1>1, <2>1, SMTT(30)
<1>2. CASE \A k \in 1..Len(q) : q[k] # i
  <2>0. Len(q) \in Nat /\ Len(q) # ConnectsPerTick
    BY ReaplanAssumption, SMTT(30)
  <2>1. p = Append(q, i)
    BY <1>2, <2>0 DEF Enqueue
  <2>2. /\ p \in Seq(Slots) /\ Len(p) = Len(q) + 1
        /\ \A k \in 1..Len(q) : p[k] = q[k] /\ k \in 1..Len(p)
        /\ p[Len(q) + 1] = i /\ Len(q) + 1 \in 1..Len(p)
        /\ \A k \in 1..Len(p) : k \in 1..Len(q) \/ k = Len(q) + 1
    BY <2>0, <2>1, SMTT(30)
  <2>3. Enqueue(p, i) = p
    BY <2>2 DEF Enqueue
  <2> HIDE DEF p
  <2>4. \A j, k \in 1..Len(p) : p[j] = p[k] => j = k
    BY <1>2, <2>2
  <2>5. \A k \in 1..Len(p) : p[k] = i \/ \E j \in 1..Len(q) : q[j] = p[k]
    BY <2>2
  <2>6. \A k \in 1..Len(q) : \E j \in 1..Len(p) : p[j] = q[k]
    BY <2>2
  <2> QED
    <3>1. Len(p) <= Len(q) + 1 /\ \E k \in 1..Len(p) : p[k] = i
      BY <2>0, <2>2, SMTT(30)
    <3> QED
      BY <2>2, <2>3, <2>4, <2>5, <2>6, <3>1 DEF p
<1> QED
  BY <1>1, <1>2

\* A banner was read from slot i.
Grab(i) ==
  /\ conns'[i].read /\ closeq' = Enqueue(closeq, i)
  /\ banners' = [banners EXCEPT ![conns[i].dst] = @ + 1]

\* What the handling of an event does to the slot it names: the connection stays
\* open, it may be queued, and it is queued if a banner was read.
LEMMA HandleEffect ==
  ASSUME IInv, HandleEvent, Head(batch).f # "timer"
  PROVE  LET i == Head(batch).i IN
         /\ i \in Open
         /\ conns' \in [Slots -> Conn] /\ sock' \in [Slots -> Sock]
         /\ \A j \in Slots : conns'[j].open = conns[j].open /\ conns'[j].dst = conns[j].dst
         /\ \A j \in Slots : j # i => conns'[j].read = conns[j].read
         /\ closeq' = closeq \/ closeq' = Enqueue(closeq, i)
         /\ \/ conns'[i].read = conns[i].read /\ banners' = banners
            \/ Head(batch).f = "r" /\ Grab(i)
<1> DEFINE e == Head(batch)
           i == e.i
           q == IF e.eof THEN Enqueue(closeq, i) ELSE closeq
<1>1. /\ batch # <<>> /\ batch \in Seq(Event) /\ closeq \in Seq(Slots)
      /\ conns \in [Slots -> Conn] /\ sock \in [Slots -> Sock]
  BY DEF HandleEvent, IInv, Types
<1>2. Len(batch) \in Nat \ {0} /\ 1 \in 1..Len(batch) /\ e = batch[1]
  BY <1>1, SMTT(30)
<1>3. i \in Open /\ i \in Slots
  BY <1>2, SMTT(30) DEF IInv, BatchInv, Open
<1>4. q = closeq \/ q = Enqueue(closeq, i)
  OBVIOUS
<1>5. Enqueue(q, i) = Enqueue(closeq, i)
  <2>1. Len(closeq) < ConnectsPerTick
    BY <1>1, <1>2, ReaplanAssumption, SMTT(30) DEF IInv, BatchInv
  <2>2. \A j, k \in 1..Len(closeq) : closeq[j] = closeq[k] => j = k
    BY DEF IInv, BatchInv
  <2> QED
    BY <1>1, <1>3, <1>4, <2>1, <2>2, EnqueueFacts
<1>6. e.f = "r" \/ e.f = "w"
  <2>1. e \in Event /\ e.f # "timer"
    BY <1>1, <1>2, SMTT(30)
  <2> HIDE DEF e
  <2> QED
    BY <2>1 DEF Event
<1>7. sock' \in [Slots -> Sock]
  <2>1. sock' = sock \/ sock' = [sock EXCEPT ![i].data = FALSE]
    BY DEF HandleEvent
  <2> HIDE DEF i
  <2> QED
    BY <1>1, <1>3, <2>1 DEF Sock
<1>8. \/ Handshake(i, q) /\ banners' = banners
      \/ e.f = "r" /\ Readable(i, q)
      \/ closeq' = q /\ UNCHANGED <<conns, banners>>
      \/ Writable(i, q) /\ banners' = banners
  BY <1>6 DEF HandleEvent
<1> HIDE DEF e, i, q
<1>9. /\ conns' \in [Slots -> Conn]
      /\ \A j \in Slots : conns'[j].open = conns[j].open /\ conns'[j].dst = conns[j].dst
      /\ \A j \in Slots : j # i => conns'[j].read = conns[j].read
  <2> DEFINE OneOf(c) == /\ c \in Conn /\ conns' = [conns EXCEPT ![i] = c]
                         /\ c.open = conns[i].open /\ c.dst = conns[i].dst
  <2>0. conns[i] \in Conn
    BY <1>1, <1>3
  <2>1. CASE conns' = [conns EXCEPT ![i].reg = @ \cup {"w"}]
    <3>1. OneOf([conns[i] EXCEPT !.reg = @ \cup {"w"}])
      BY <2>0, <2>1 DEF Conn
    <3> QED
      BY <1>1, <1>3, <3>1
  <2>2. CASE conns' = [conns EXCEPT ![i].flags = {"r", "w"}, ![i].reg = @ \cup {"w"}]
    <3>1. OneOf([conns[i] EXCEPT !.flags = {"r", "w"}, !.reg = @ \cup {"w"}])
      BY <1>1, <1>3, <2>0, <2>2 DEF Conn
    <3> QED
      BY <1>1, <1>3, <3>1
  <2>3. CASE UNCHANGED conns
    BY <1>1, <2>3
  <2>4. ASSUME NEW n, conns' = [conns EXCEPT ![i].read = @ \/ n = "some"]
        PROVE  /\ conns' \in [Slots -> Conn]
               /\ \A j \in Slots : conns'[j].open = conns[j].open /\ conns'[j].dst = conns[j].dst
               /\ \A j \in Slots : j # i => conns'[j].read = conns[j].read
    <3>1. OneOf([conns[i] EXCEPT !.read = @ \/ n = "some"])
      BY <2>0, <2>4 DEF Conn
    <3> QED
      BY <1>1, <1>3, <3>1
  <2>5. ASSUME NEW n, conns' = [conns EXCEPT ![i].wrote = @ \/ n = "some"]
        PROVE  /\ conns' \in [Slots -> Conn]
               /\ \A j \in Slots : conns'[j].open = conns[j].open /\ conns'[j].dst = conns[j].dst
               /\ \A j \in Slots : j # i => conns'[j].read = conns[j].read
    <3>1. OneOf([conns[i] EXCEPT !.wrote = @ \/ n = "some"])
      BY <2>0, <2>5 DEF Conn
    <3> QED
      BY <1>1, <1>3, <3>1
  <2>6. Handshake(i, q) => \/ UNCHANGED conns
                           \/ conns' = [conns EXCEPT ![i].reg = @ \cup {"w"}]
                           \/ conns' = [conns EXCEPT ![i].flags = {"r", "w"}, ![i].reg = @ \cup {"w"}]
    BY DEF Handshake
  <2>7. CASE Readable(i, q)
    BY <2>4, <2>7 DEF Readable, BgrabOnReadable
  <2>8. CASE Writable(i, q)
    BY <2>5, <2>8 DEF Writable, BgrabOnWritable
  <2> QED
    BY <1>8, <2>1, <2>2, <2>3, <2>6, <2>7, <2>8
<1>10. closeq' = closeq \/ closeq' = Enqueue(closeq, i)
  BY <1>4, <1>5, <1>8 DEF Handshake, Readable, Writable
<1>11. \/ conns'[i].read = conns[i].read /\ banners' = banners
       \/ e.f = "r" /\ Grab(i)
  <2>1. CASE Handshake(i, q) /\ banners' = banners
    BY <1>1, <1>3, <2>1, SMTT(30) DEF Handshake, Conn
  <2>2. CASE e.f = "r" /\ Readable(i, q)
    <3>1. PICK n \in ReadResults :
            BgrabOnReadable(i, n) /\ closeq' = IF n = "again" THEN q ELSE Enqueue(q, i)
      BY <2>2 DEF Readable
    <3>2. CASE n = "some"
      <4>1. conns'[i].read
        BY <1>1, <1>3, <3>1, <3>2 DEF BgrabOnReadable, Conn
      <4>2. banners' = [banners EXCEPT ![conns[i].dst] = @ + 1]
        BY <3>1, <3>2 DEF BgrabOnReadable
      <4>3. closeq' = Enqueue(closeq, i)
        BY <1>5, <3>1, <3>2
      <4> QED
        BY <2>2, <4>1, <4>2, <4>3 DEF Grab
    <3>3. CASE n # "some"
      <4>1. conns'[i].read = conns[i].read
        BY <1>1, <1>3, <3>1, <3>3 DEF BgrabOnReadable, Conn
      <4>2. banners' = [banners EXCEPT ![conns[i].dst] = banners[conns[i].dst]]
        BY <3>1, <3>3 DEF BgrabOnReadable
      <4>3. banners' = banners
        BY <4>2 DEF IInv, Types
      <4> QED
        BY <4>1, <4>3
    <3> QED
      BY <3>2, <3>3
  <2>3. CASE UNCHANGED <<conns, banners>>
    BY <2>3
  <2>4. CASE Writable(i, q) /\ banners' = banners
    BY <1>1, <1>3, <2>4, SMTT(30) DEF Writable, BgrabOnWritable, Conn
  <2> QED
    BY <1>8, <2>1, <2>2, <2>3, <2>4
<1> QED
  BY <1>3, <1>7, <1>9, <1>10, <1>11 DEF e, i

\* An event of a batch: the connection is read from once, queued once, and
\* there is room for it in the queue.
LEMMA HandleStep ==
  ASSUME IInv, HandleEvent
  PROVE  Types' /\ SlotInv' /\ DstInv' /\ OnceInv' /\ BatchInv' /\ EndInv'
<1> DEFINE e == Head(batch)
           i == e.i
           p == Enqueue(closeq, i)
<1>1. /\ batch # <<>> /\ batch \in Seq(Event) /\ closeq \in Seq(Slots)
      /\ batch' = Tail(batch) /\ pc = "handle" /\ pc' = "handle"
      /\ UNCHANGED <<conf, free, full, active, nevs, connectDone, newsec, next, done>>
      /\ started' \in Nat
  BY SMTT(30) DEF HandleEvent, IInv, Types, idVars
<1>2. /\ Len(batch) \in Nat \ {0} /\ e = batch[1] /\ 1 \in 1..Len(batch)
      /\ batch' \in Seq(Event) /\ Len(batch') = Len(batch) - 1
      /\ \A k \in 1..Len(batch') : k + 1 \in 1..Len(batch) /\ batch'[k] = batch[k + 1] /\ k + 1 # 1
  BY <1>1, SMTT(30)
<1>5. ASSUME NEW k \in 1..Len(batch')
      PROVE  /\ batch'[k].f # "timer" => batch'[k].i \in Open
             /\ batch'[k].f = "r" => ~conns[batch'[k].i].read
  <2>1. k + 1 \in 1..Len(batch) /\ batch'[k] = batch[k + 1]
    BY <1>2
  <2> QED
    BY <2>1, SMTT(30) DEF IInv, BatchInv
<1>6. ASSUME NEW j \in 1..Len(batch'), NEW k \in 1..Len(batch'),
             batch'[j].f = "r", batch'[k].f = "r", batch'[j].i = batch'[k].i
      PROVE  j = k
  <2>1. /\ j + 1 \in 1..Len(batch) /\ batch'[j] = batch[j + 1]
        /\ k + 1 \in 1..Len(batch) /\ batch'[k] = batch[k + 1]
    BY <1>2
  <2>2. j + 1 = k + 1
    BY <1>6, <2>1, SMTT(30) DEF IInv, BatchInv
  <2> QED
    BY <1>2, <2>2, SMTT(30)
<1>3. CASE e.f = "timer"
  <2>1. UNCHANGED <<conns, closeq, banners, sock>>
    BY <1>3 DEF HandleEvent
  <2>2. Open' = Open /\ SlotInv' /\ DstInv' /\ OnceInv'
    BY <1>1, <2>1, SameConns
  <2>3. Types' /\ EndInv'
    BY <1>1, <1>2, <2>1, <2>2 DEF IInv, Types, Dsts, EndInv
  <2>4. BatchInv'
    <3>1. Len(closeq) \in Nat /\ Len(closeq) + Len(batch) <= ConnectsPerTick /\ ConnectsPerTick \in Nat
      BY <1>1, ReaplanAssumption, SMTT(30) DEF IInv, BatchInv
    <3>2. Len(closeq') + Len(batch') <= ConnectsPerTick
      BY <1>2, <2>1, <3>1, SMTT(30)
    <3>5. /\ \A j, k \in 1..Len(closeq) : closeq[j] = closeq[k] => j = k
          /\ \A k \in 1..Len(closeq) : closeq[k] \in Open
          /\ \A j \in Open : conns[j].read => \E k \in 1..Len(closeq) : closeq[k] = j
      BY DEF IInv, BatchInv
    <3> QED
      BY <1>1, <1>5, <1>6, <2>1, <2>2, <3>2, <3>5 DEF BatchInv
  <2> QED
    BY <2>2, <2>3, <2>4
<1>4. CASE e.f # "timer"
  <2>1. /\ i \in Open /\ i \in Slots
        /\ conns' \in [Slots -> Conn] /\ sock' \in [Slots -> Sock]
        /\ \A j \in Slots : conns'[j].open = conns[j].open /\ conns'[j].dst = conns[j].dst
        /\ \A j \in Slots : j # i => conns'[j].read = conns[j].read
        /\ closeq' = closeq \/ closeq' = p
        /\ \/ conns'[i].read = conns[i].read /\ banners' = banners
           \/ e.f = "r" /\ Grab(i)
    BY <1>4, HandleEffect DEF Open
  <2>2. /\ p \in Seq(Slots) /\ Len(p) <= Len(closeq) + 1
        /\ \A j, k \in 1..Len(p) : p[j] = p[k] => j = k
        /\ \A k \in 1..Len(p) : p[k] = i \/ \E j \in 1..Len(closeq) : closeq[j] = p[k]
        /\ \A k \in 1..Len(closeq) : \E j \in 1..Len(p) : p[j] = closeq[k]
        /\ \E k \in 1..Len(p) : p[k] = i
    <3>1. Len(closeq) < ConnectsPerTick
      BY <1>1, <1>2, ReaplanAssumption, SMTT(30) DEF IInv, BatchInv
    <3>2. \A j, k \in 1..Len(closeq) : closeq[j] = closeq[k] => j = k
      BY DEF IInv, BatchInv
    <3> QED
      BY <1>1, <2>1, <3>1, <3>2, EnqueueFacts
  <2>3. e.f = "r" => ~conns[i].read
    BY <1>2, SMTT(30) DEF IInv, BatchInv
  <2>4. \A k \in 1..Len(batch') : batch'[k].f = "r" /\ e.f = "r" => batch'[k].i # i
    BY <1>2, SMTT(30) DEF IInv, BatchInv
  <2> HIDE DEF e, i, p
  <2>5. Open' = Open /\ Dsts' = Dsts /\ Open \subseteq Slots
    BY <1>1, <2>1 DEF Open, Dsts
  <2>6. /\ conns[i].dst \in Dsts /\ banners \in [Dsts -> Nat]
        /\ \A d \in Dsts : banners'[d] = banners[d] \/ (d = conns[i].dst /\ banners'[d] = banners[d] + 1)
        /\ banners' \in [Dsts -> Nat]
    <3>1. conns[i].dst \in Dsts /\ banners \in [Dsts -> Nat]
      BY <2>1, ReaplanAssumption, SMTT(30) DEF IInv, Types, DstInv, Dsts
    <3> QED
      BY <2>1, <3>1, SMTT(30) DEF Grab
  <2>7. Types'
    BY <1>1, <1>2, <2>1, <2>2, <2>5, <2>6 DEF IInv, Types
  <2>8. SlotInv' /\ EndInv'
    BY <1>1, <2>5 DEF IInv, SlotInv, EndInv
  <2>9. DstInv'
    <3>1. \A j \in Open : conns[j].dst \in Dsts /\ (j # i => conns[j].dst # conns[i].dst)
      BY <2>1, ReaplanAssumption, SMTT(30) DEF IInv, Types, DstInv, Dsts
    <3>2. banners[conns[i].dst] = IF conns[i].read THEN 1 ELSE 0
      BY <2>1 DEF IInv, DstInv
    <3>3. banners'[conns[i].dst] = IF conns'[i].read THEN 1 ELSE 0
      <4>1. CASE conns'[i].read = conns[i].read /\ banners' = banners
        BY <3>2, <4>1
      <4>2. CASE e.f = "r" /\ Grab(i)
        BY <2>3, <2>6, <3>2, <4>2, SMTT(30) DEF Grab
      <4> QED
        BY <2>1, <4>1, <4>2
    <3>4. \A j \in Open : banners'[conns[j].dst] = IF conns'[j].read THEN 1 ELSE 0
      <4> SUFFICES ASSUME NEW j \in Open, j # i
                   PROVE  banners'[conns[j].dst] = IF conns'[j].read THEN 1 ELSE 0
        BY <3>3
      <4>1. banners'[conns[j].dst] = banners[conns[j].dst] /\ conns'[j].read = conns[j].read
        BY <2>1, <2>5, <2>6, <3>1
      <4> QED
        BY <4>1 DEF IInv, DstInv
    <3> QED
      BY <1>1, <2>1, <2>5, <3>4, SMTT(30) DEF IInv, DstInv
  <2>10. OnceInv'
    <3>1. conns[i].dst < next /\ banners'[conns[i].dst] <= 1
      <4>1. conns[i].dst \in 1..(next - 1)
        BY <2>1 DEF IInv, DstInv
      <4>2. banners'[conns'[i].dst] <= 1
        BY <2>1, <2>5, <2>9, SMTT(30) DEF DstInv
      <4> QED
        BY <2>1, <4>1, <4>2, ReaplanAssumption, SMTT(30) DEF IInv, Types
    <3>2. next \in Nat /\ \A d \in Dsts : d \in Nat
      BY ReaplanAssumption, SMTT(30) DEF IInv, Types, Dsts
    <3>3. \A d \in Dsts : (d >= next => banners'[d] = 0) /\ banners'[d] <= 1
      BY <2>6, <3>1, <3>2, SMTT(30) DEF IInv, OnceInv
    <3> QED
      BY <1>1, <2>1, <2>5, <3>3, SMTT(30) DEF IInv, OnceInv
  <2>11. BatchInv'
    <3>1. Len(closeq') + Len(batch') <= ConnectsPerTick
      <4>1. Len(closeq) \in Nat /\ Len(p) \in Nat
        BY <1>1, <2>2, SeqLength
      <4>2. Len(closeq) + Len(batch) <= ConnectsPerTick
        BY DEF IInv, BatchInv
      <4>3. (closeq' = closeq \/ closeq' = p) /\ Len(p) <= Len(closeq) + 1
        BY <2>1, <2>2
      <4>4. Len(batch) \in Nat \ {0} /\ Len(batch') = Len(batch) - 1
        BY <1>2
      <4> QED
        BY ONLY <4>1, <4>2, <4>3, <4>4, ReaplanAssumption, SMTT(30)
    <3>3. ASSUME NEW k \in 1..Len(batch'), batch'[k].f = "r"
          PROVE  ~conns'[batch'[k].i].read
      <4>1. ~conns[batch'[k].i].read /\ batch'[k].i \in Slots
        BY <1>5, <2>5, <3>3
      <4>2. CASE e.f = "r"
        BY <2>1, <2>4, <3>3, <4>1, <4>2
      <4>3. CASE e.f # "r"
        BY <2>1, <4>1, <4>3
      <4> QED
        BY <4>2, <4>3
    <3>5. \A j, k \in 1..Len(closeq') : closeq'[j] = closeq'[k] => j = k
      <4>1. \A j, k \in 1..Len(closeq) : closeq[j] = closeq[k] => j = k
        BY DEF IInv, BatchInv
      <4>2. CASE closeq' = closeq
        BY <4>1, <4>2
      <4>3. CASE closeq' = p
        BY <2>2, <4>3
      <4> QED
        BY <2>1, <4>2, <4>3
    <3>6. \A k \in 1..Len(closeq') : closeq'[k] \in Open
      <4>1. \A k \in 1..Len(closeq) : closeq[k] \in Open
        BY DEF IInv, BatchInv
      <4>2. CASE closeq' = closeq
        BY <4>1, <4>2
      <4>3. CASE closeq' = p
        BY <2>1, <2>2, <4>1, <4>3
      <4> QED
        BY <2>1, <4>2, <4>3
    <3>7. ASSUME NEW j \in Open, conns'[j].read PROVE \E k \in 1..Len(closeq') : closeq'[k] = j
      <4>1. CASE conns[j].read
        <5>1. \E k \in 1..Len(closeq) : closeq[k] = j
          BY <4>1 DEF IInv, BatchInv
        <5> QED
          BY <2>1, <2>2, <5>1, SMTT(30)
      <4>2. CASE ~conns[j].read
        <5>1. j = i
          BY <2>1, <2>5, <3>7, <4>2
        <5>2. Grab(i)
          BY <2>1, <3>7, <4>2, <5>1
        <5>3. closeq' = p
          BY <5>2 DEF Grab, p
        <5> QED
          BY <2>2, <5>1, <5>3
      <4> QED
        BY <4>1, <4>2
    <3> QED
      BY <1>1, <1>5, <1>6, <2>5, <3>1, <3>3, <3>5, <3>6, <3>7 DEF BatchInv
  <2> QED
    BY <2>7, <2>8, <2>9, <2>10, <2>11
<1> QED
  BY <1>3, <1>4

----------------------------------------------------------------------------
(* The inductive invariant.                                                *)

\* The bits of the ID set cover the slots: idset_new rounds up to whole words.
LEMMA CeilCovers == Slots \subseteq 0..(Ceil - 1)
<1> DEFINE m == MaxClients + WordBits - 1
           k == m \div WordBits
<1>1. m \in Nat /\ WordBits \in Nat \ {0} /\ MaxClients \in Nat \ {0}
  BY ReaplanAssumption, SMTT(30)
<1>2. k \in Int /\ m % WordBits \in 0..(WordBits - 1) /\ m = WordBits * k + (m % WordBits)
  <2> HIDE DEF m
  <2> QED
    BY <1>1, SMTT(30)
<1>3. WordBits * k = k * WordBits /\ Ceil = k * WordBits
  <2>1. Ceil = k * WordBits
    BY DEF Ceil
  <2> HIDE DEF k
  <2> QED
    BY <1>1, <1>2, <2>1, SMTT(30)
<1>4. WordBits * k \in Int
  <2> HIDE DEF k
  <2> QED
    BY <1>1, <1>2, SMTT(30)
<1> DEFINE c == WordBits * k
<1>5. c \in Int /\ Ceil = c /\ m = c + (m % WordBits)
  BY <1>2, <1>3, <1>4
<1> DEFINE r == m % WordBits
<1>6. r \in 0..(WordBits - 1) /\ m = c + r
  BY <1>2, <1>5
<1> HIDE DEF c, r
<1>7. Ceil >= MaxClients
  BY <1>1, <1>5, <1>6, SMTT(30)
<1> QED
  BY <1>1, <1>5, <1>7, SMTT(30) DEF Slots

\* reaplan_init establishes the invariant.
LEMMA InitIInv == Init => IInv
<1> SUFFICES ASSUME Init PROVE IInv
  OBVIOUS
<1> USE DEF Init
<1>1. Closed \in Conn /\ NoSock \in Sock /\ ~Closed.open
  BY DEF Closed, NoSock, Conn, Sock
<1>2. Open = {} /\ Cardinality(Open) = 0
  BY <1>1, FS_EmptySet DEF Open
<1>3. Slots \ free = {}
  BY CeilCovers
<1>4. Types
  <2>1. conf.dsts \in Nat
    BY ReaplanAssumption
  <2> QED
    BY <1>1, <2>1, SMTT(30) DEF Types, Dsts
<1>5. SlotInv /\ DstInv
  BY <1>2, <1>3 DEF SlotInv, DstInv
<1>6. OnceInv
  BY SMTT(30) DEF OnceInv, Dsts
<1>7. BatchInv /\ RateInv /\ EndInv
  BY <1>2, ReaplanAssumption, SMTT(30) DEF BatchInv, RateInv, ConnectRate, EndInv
<1> QED
  BY <1>4, <1>5, <1>6, <1>7 DEF IInv

\* Steps that close connections, between two batches or at the end of one.
LEMMA ClosingStep ==
  ASSUME IInv, CloseConns \/ UpdateTimer \/ Fail
  PROVE  Types' /\ SlotInv' /\ DstInv' /\ OnceInv' /\ BatchInv' /\ EndInv'
<1>1. UNCHANGED <<conf, next, nevs, batch, started, connectDone>> /\ pc' \in {"timer", "loop", "failed"}
  BY DEF CloseConns, UpdateTimer, Fail, runVars
<1>2. batch = <<>> /\ closeq' = <<>>
  BY DEF IInv, BatchInv, CloseConns, UpdateTimer, Fail
<1>3. ASSUME NEW q \in Seq(Slots), \A j, k \in 1..Len(q) : q[j] = q[k] => j = k,
             \A k \in 1..Len(q) : q[k] \in Open, CloseAll(q),
             \A i \in Open : conns[i].read => \E k \in 1..Len(q) : q[k] = i,
             pc' = "failed" => \A i \in Open : \E k \in 1..Len(q) : q[k] = i
      PROVE  Types' /\ SlotInv' /\ DstInv' /\ OnceInv' /\ BatchInv' /\ EndInv'
  <2>1. /\ conns' \in [Slots -> Conn] /\ sock' \in [Slots -> Sock]
        /\ free' \subseteq Nat /\ active' \in Nat
        /\ done' \in [Dsts -> Nat] /\ banners' \in [Dsts -> Nat]
        /\ Open' = Open \ Range(q)
        /\ \A i \in Open' : conns'[i] = conns[i]
        /\ SlotInv' /\ DstInv' /\ OnceInv'
    BY <1>1, <1>3, CloseStep DEF IInv
  <2>2. \A i : (\E k \in 1..Len(q) : q[k] = i) => i \in Range(q)
    BY SMTT(30) DEF Range
  <2>3. Types'
    BY <1>1, <1>2, <2>1, SMTT(30) DEF IInv, Types, Dsts
  <2>4. \A i \in Open' : ~conns'[i].read
    BY <1>3, <2>1, <2>2
  <2>5. BatchInv'
    <3>1. \A k \in 1..0 : FALSE
      BY SMTT(30)
    <3> QED
      BY <1>1, <1>2, <2>4, ReaplanAssumption, SMTT(30) DEF BatchInv
  <2>6. EndInv'
    <3>1. pc' = "failed" => Open' = {}
      BY <1>3, <2>1, <2>2
    <3> QED
      BY <1>1, <3>1 DEF IInv, EndInv
  <2> QED
    BY <2>1, <2>3, <2>5, <2>6
<1>4. CASE CloseConns
  BY <1>3, <1>4 DEF CloseConns, IInv, Types, BatchInv
<1>5. ASSUME NEW S \in SUBSET Open, CloseAll(InSomeOrder(S)), closeq = <<>>, pc' = "failed" => S = Open
      PROVE  Types' /\ SlotInv' /\ DstInv' /\ OnceInv' /\ BatchInv' /\ EndInv'
  <2> DEFINE q == InSomeOrder(S)
  <2>1. S \in SUBSET Slots
    BY DEF Open
  <2>2. /\ q \in Seq(S) /\ \A j, k \in 1..Len(q) : q[j] = q[k] => j = k
        /\ \A i \in S : \E k \in 1..Len(q) : q[k] = i
    BY <2>1, SlotSeq
  <2>3. CloseAll(q)
    BY <1>5
  <2> HIDE DEF q
  <2>4. q \in Seq(Slots) /\ \A k \in 1..Len(q) : q[k] \in Open
    BY <2>1, <2>2, SMTT(30)
  <2>5. \A i \in Open : ~conns[i].read
    BY <1>5, SMTT(30) DEF IInv, BatchInv
  <2>6. pc' = "failed" => \A i \in Open : \E k \in 1..Len(q) : q[k] = i
    BY <1>5, <2>2
  <2> QED
    BY <1>3, <2>2, <2>3, <2>4, <2>5, <2>6
<1>6. CASE UpdateTimer
  <2>1. closeq = <<>> /\ pc' = "loop" /\ pc = "timer"
    BY <1>6 DEF UpdateTimer, IInv, BatchInv
  <2>2. CASE CloseAll(InSomeOrder(Expired))
    BY <1>5, <2>1, <2>2 DEF Expired
  <2>3. CASE UNCHANGED <<conns, sock, idVars, active, outVars>>
    <3>1. Open' = Open /\ SlotInv' /\ DstInv' /\ OnceInv'
      BY <1>1, <2>3, SameConns DEF idVars, outVars
    <3>2. Types'
      BY <1>1, <1>2, <2>1, <2>3 DEF IInv, Types, Dsts, idVars, outVars
    <3>3. BatchInv' /\ EndInv'
      BY <1>1, <1>2, <2>1, <2>3, <3>1, SMTT(30) DEF IInv, BatchInv, EndInv
    <3> QED
      BY <3>1, <3>2, <3>3
  <2> QED
    BY <1>6, <2>2, <2>3 DEF UpdateTimer
<1>7. CASE Fail
  <2>1. closeq = <<>> /\ CloseAll(InSomeOrder(Open))
    BY <1>7 DEF Fail, IInv, BatchInv
  <2> QED
    BY <1>5, <2>1
<1> QED
  BY <1>4, <1>6, <1>7

\* Every step of the loop, of a peer and of the clock keeps the invariant.
LEMMA NextIInv == IInv /\ [Next]_vars => IInv'
<1> SUFFICES ASSUME IInv, [Next]_vars PROVE IInv'
  OBVIOUS
<1>1. CASE UNCHANGED vars
  <2> USE DEF vars, idVars, runVars, outVars, IInv
  <2>1. Types' /\ RateInv' /\ EndInv'
    BY <1>1 DEF Types, Dsts, RateInv, ConnectRate, delay, EndInv, Open
  <2>2. SlotInv' /\ DstInv' /\ OnceInv'
    BY <1>1 DEF SlotInv, DstInv, OnceInv, Open, Dsts
  <2>3. BatchInv'
    BY <1>1 DEF BatchInv, Open
  <2> QED
    BY <2>1, <2>2, <2>3
<1>2. CASE Next
  <2>1. RateInv'
    BY <1>2, RateStep
  <2>2. CASE SetupOne
    BY <2>1, <2>2, SetupOneStep DEF IInv
  <2>3. CASE Wait
    BY <2>1, <2>3, WaitStep, SMTT(30) DEF IInv
  <2>4. CASE HandleEvent
    BY <2>1, <2>4, HandleStep, SMTT(30) DEF IInv
  <2>5. CASE CloseConns \/ UpdateTimer \/ Fail
    BY <2>1, <2>5, ClosingStep DEF IInv
  <2>6. CASE Loop
    <3>1. pc = "loop" /\ UNCHANGED <<conf, conns, sock, free, active, nevs, batch, closeq,
                                     connectDone, next, done, banners, started>>
      BY <2>6 DEF Loop, idVars, runVars, outVars
    <3>2. pc' \in {"finished", "connect", "wait"} /\ (pc' = "finished" => connectDone /\ active = 0)
      BY <2>6 DEF Loop
    <3>3. Open' = Open /\ SlotInv' /\ DstInv' /\ OnceInv'
      BY <3>1, SameConns
    <3>4. Types' /\ BatchInv'
      BY <3>1, <3>2, <3>3, SMTT(30) DEF IInv, Types, Dsts, BatchInv
    <3>5. active = 0 => Open = {}
      <4>1. IsFiniteSet(Open) /\ active = Cardinality(Open)
        BY SlotSets DEF Open, IInv, SlotInv
      <4> QED
        BY <4>1, FS_EmptySet
    <3>6. EndInv'
      BY <3>1, <3>2, <3>3, <3>5 DEF IInv, EndInv
    <3> QED
      BY <2>1, <3>3, <3>4, <3>6 DEF IInv
  <2>7. CASE SetupEnds
    <3>1. /\ pc = "connect" /\ pc' = "wait" /\ nevs' = 0
          /\ UNCHANGED <<conf, conns, sock, active, batch, closeq, next, done, banners, started>>
      BY <2>7 DEF SetupEnds, Connected, outVars
    <3>2. connectDone' => next > conf.dsts
      <4>1. next \in Int /\ conf.dsts \in Int
        BY ReaplanAssumption, SMTT(30) DEF IInv, Types
      <4> QED
        BY <2>7, <4>1, SMTT(30) DEF SetupEnds, Connected, HasDst
    <3>3. free' \subseteq Nat /\ Slots \ free' = Slots \ free
      <4>1. free \subseteq Nat
        BY DEF IInv, Types
      <4> QED
        BY <2>7, <4>1, IdsetFacts DEF SetupEnds, idVars
    <3>4. Open' = Open /\ Dsts' = Dsts
      BY <3>1 DEF Open, Dsts
    <3>5. Types'
      BY <3>1, <3>3, <3>4 DEF IInv, Types
    <3>6. SlotInv' /\ DstInv' /\ OnceInv'
      BY <3>1, <3>3, <3>4, SMTT(30) DEF IInv, SlotInv, DstInv, OnceInv
    <3>7. BatchInv'
      BY <3>1, <3>4, SMTT(30) DEF IInv, BatchInv
    <3>8. EndInv'
      <4>1. next \in 1..(conf.dsts + 1) /\ conf.dsts \in Nat
        BY ReaplanAssumption DEF IInv, Types
      <4> QED
        BY <3>1, <3>2, <4>1, SMTT(30) DEF EndInv
    <3> QED
      BY <2>1, <3>5, <3>6, <3>7, <3>8 DEF IInv
  <2>8. CASE Second \/ (\E i \in Slots : Peer(i))
    <3>1. pc = "wait" /\ UNCHANGED <<conf, free, active, pc, nevs, batch, closeq,
                                     connectDone, next, done, banners, started>>
      BY <2>8 DEF Second, Peer, idVars, runVars, outVars
    <3>2. /\ conns' \in [Slots -> Conn]
          /\ \A j \in Slots : /\ conns'[j].open = conns[j].open /\ conns'[j].dst = conns[j].dst
                              /\ conns'[j].read = conns[j].read
      <4>1. conns \in [Slots -> Conn]
        BY DEF IInv, Types
      <4>2. CASE Second
        <5>1. conns' = [i \in Slots |-> [conns[i] EXCEPT !.left = Less(@)]]
          BY <4>2 DEF Second
        <5>2. \A i \in Slots : Less(conns[i].left) \in Nat
          BY <4>1, SMTT(30) DEF Less, Conn
        <5>3. ASSUME NEW i \in Slots
              PROVE  /\ conns'[i] \in Conn
                     /\ conns'[i].open = conns[i].open /\ conns'[i].dst = conns[i].dst
                     /\ conns'[i].read = conns[i].read
          BY <4>1, <5>1, <5>2, SMTT(30) DEF Conn
        <5> QED
          BY <5>1, <5>3
      <4>3. CASE \E i \in Slots : Peer(i)
        BY <4>1, <4>3 DEF Peer
      <4> QED
        BY <2>8, <4>2, <4>3
    <3>3. sock' \in [Slots -> Sock]
      <4>1. sock \in [Slots -> Sock]
        BY DEF IInv, Types
      <4>2. CASE Second
        BY <4>1, <4>2 DEF Second
      <4>3. ASSUME NEW i \in Slots, Peer(i)
            PROVE  sock' \in [Slots -> Sock]
        <5>1. \/ \E s \in {"est", "refused"} : sock' = [sock EXCEPT ![i].st = s]
              \/ sock' = [sock EXCEPT ![i].data = TRUE]
              \/ sock' = [sock EXCEPT ![i].eof = TRUE]
          BY <4>3 DEF Peer
        <5> QED
          BY <4>1, <5>1 DEF Sock
      <4> QED
        BY <2>8, <4>2, <4>3
    <3>4. Open' = Open /\ SlotInv' /\ DstInv' /\ OnceInv'
      BY <3>1, <3>2, SameConns
    <3>5. Types' /\ EndInv'
      BY <3>1, <3>2, <3>3, <3>4 DEF IInv, Types, Dsts, EndInv
    <3>6. BatchInv'
      <4>1. batch = <<>> /\ closeq = <<>> /\ \A j \in Open : ~conns[j].read
        BY <3>1, SMTT(30) DEF IInv, BatchInv
      <4>2. \A j \in Open' : ~conns'[j].read
        BY <3>2, <3>4, <4>1 DEF Open
      <4> QED
        BY <3>1, <4>1, <4>2, ReaplanAssumption, SMTT(30) DEF BatchInv
    <3> QED
      BY <2>1, <3>4, <3>5, <3>6 DEF IInv
  <2>9. CASE Finished
    BY <1>1, <2>9 DEF Finished
  <2> QED
    BY <1>2, <2>2, <2>3, <2>4, <2>5, <2>6, <2>7, <2>8, <2>9 DEF Next, Step
<1> QED
  BY <1>1, <1>2

----------------------------------------------------------------------------
(* Theorems.                                                               *)

\* The inductive invariant of reaplan_run with bgrab's callbacks: the ID set,
\* the counter, the batch, the queue of connections to close and the counts per
\* destination agree at every point of the loop.
THEOREM EngineInvariant == Spec => []IInv
  BY InitIInv, NextIInv, PTL DEF Spec

\* The open slots are those the ID set marks, active_conns counts them, and no
\* two of them have the same destination (reaplan_run, reaplan_conn_close).
THEOREM SlotsExactHolds == Spec => []SlotsExact
<1>1. ASSUME IInv PROVE SlotsExact
  <2> DEFINE f == [i \in Open |-> conns[i].dst]
             T == {conns[i].dst : i \in Open}
  <2>1. active = Cardinality(Open) /\ Open = Slots \ free /\ IsFiniteSet(Open)
    BY <1>1, SlotSets DEF IInv, SlotInv, Open
  <2>2. f \in [Open -> T] /\ \A t \in T : \E i \in Open : f[i] = t
    OBVIOUS
  <2>3. \A i, j \in Open : f[i] = f[j] => i = j
    BY <1>1 DEF IInv, DstInv
  <2>4. f \in Bijection(Open, T)
    BY <2>2, <2>3 DEF Bijection, Injection, Surjection, IsInjective
  <2> HIDE DEF f, T
  <2>5. Cardinality(T) = Cardinality(Open)
    <3>1. ExistsBijection(Open, T)
      BY <2>4 DEF ExistsBijection
    <3> QED
      BY <2>1, <3>1, FS_Bijection
  <2> QED
    BY <2>1, <2>5 DEF SlotsExact, T
<1> QED
  BY <1>1, EngineInvariant, PTL

\* on_done is called once for every destination and never while it is connected,
\* at most one banner is written for it, the events and the queue of a batch
\* name open connections, and a run that ends is done with every destination.
THEOREM EachDestinationOnceHolds == Spec => []EachDestinationOnce
<1>1. ASSUME IInv PROVE EachDestinationOnce
  <2>1. \A d \in Dsts : banners[d] <= 1 /\ done[d] <= 1
    BY <1>1 DEF IInv, OnceInv
  <2>2. \A i \in Open : done[conns[i].dst] = 0
    BY <1>1 DEF IInv, DstInv
  <2>3. \A k \in 1..Len(batch) : batch[k].f # "timer" => conns[batch[k].i].open
    BY <1>1 DEF IInv, BatchInv, Open
  <2>4. Range(closeq) \subseteq Open
    <3>1. DOMAIN closeq = 1..Len(closeq)
      BY <1>1, SMTT(30) DEF IInv, Types
    <3> QED
      BY <1>1, <3>1, SMTT(30) DEF IInv, BatchInv, Range
  <2>5. ASSUME pc \in {"finished", "failed"}
        PROVE  Open = {} /\ \A d \in 1..(next - 1) : done[d] = 1
    <3>1. Open = {}
      BY <1>1, <2>5 DEF IInv, EndInv
    <3>2. \A d \in 1..(next - 1) : d \in Dsts /\ d < next
      <4>1. next \in 1..(conf.dsts + 1) /\ conf.dsts \in Nat
        BY <1>1, ReaplanAssumption DEF IInv, Types
      <4> QED
        BY <4>1, SMTT(30) DEF Dsts
    <3> QED
      BY <1>1, <3>1, <3>2 DEF IInv, OnceInv
  <2>6. pc = "finished" => next = conf.dsts + 1
    BY <1>1 DEF IInv, EndInv
  <2> QED
    BY <2>1, <2>2, <2>3, <2>4, <2>5, <2>6 DEF EachDestinationOnce
<1> QED
  BY <1>1, EngineInvariant, PTL

\* With mdelay_per_tick no more than connects_per_tick connections are started
\* between two expirations of the timer (setup_connections).
THEOREM ConnectRateHolds == Spec => []ConnectRate
<1>1. IInv => ConnectRate
  BY DEF IInv, RateInv
<1> QED
  BY <1>1, EngineInvariant, PTL

============================================================================
