----------------------------- MODULE EdsProofs -----------------------------
(***************************************************************************)
(* Proofs about the listener loop, for any number of descriptors, any      *)
(* service and any nesting of its callbacks.                               *)
(***************************************************************************)
EXTENDS Eds, TLAPS

\* A leaf that names no prover is for Zenon.
USE ZenonT(40)

\* Of a stack of calls: the clients being removed, the clients any call is
\* for, and that no client is removed twice.
Fins(s) == {s[n].fd : n \in {m \in 1..Len(s) : s[m].k = "fin"}}
FrameFds(s) == {s[n].fd : n \in 1..Len(s)}
FinOnce(s) ==
  \A m, n \in 1..Len(s) :
    s[m].k = "fin" /\ s[n].k = "fin" /\ s[m].fd = s[n].fd => m = n

\* A client structure that was ever used is in use or removed.
Used == inuse \cup removed

\* A client being removed is not in use, not being added again, and is removed
\* by one call only; its descriptor is closed by that call.  Tickers belong to
\* clients that are there.
StackInv ==
  /\ inuse \cap removed = {}
  /\ FrameFds(stack) \subseteq Used
  /\ Fins(stack) \subseteq removed
  /\ FinOnce(stack)
  /\ ext \cap (inuse \cup Fins(stack)) = {}
  /\ ticker \subseteq inuse \cup Fins(stack)

\* The loop looks only at structures that were used; before on_readable is
\* called the client is in use and no callback runs.
LoopInv ==
  /\ rsel \cup wsel \subseteq Used
  /\ pc \in {"readable", "writable", "post", "tickpost"} => at \in Fds \cap Used
  /\ pc = "readable" => stack = <<>> /\ at \in inuse

\* The ready descriptors from n on.
Ready(n) == {f \in rsel \cup wsel : f >= n}

\* num_fds covers the ready descriptors that are still to come, and the
\* command descriptor as long as it is not served.
CountInv ==
  /\ pc = "accept" => num >= Cardinality(rsel \cup wsel) + 1
  /\ pc = "scan" => num >= Cardinality(Ready(at))
  /\ pc \in {"readable", "writable", "post"} => num >= Cardinality(Ready(at + 1))

IInv ==
  /\ TypeOK /\ StackInv /\ LoopInv /\ CountInv
  /\ BitsMatchActions /\ OpenWhileInUse /\ TickersCounted

----------------------------------------------------------------------------

\* Facts about sets of descriptors that the steps use; they are proved below.
FdSets ==
  \A S \in SUBSET Fds :
    /\ Cardinality(S) \in Nat
    /\ Cardinality(S) = 0 <=> S = {}
    /\ S # {} => \E f \in S : \A g \in S : f <= g

\* accept4 and the services open the lowest free descriptor, and there is one.
LEMMA LowestIsFree ==
  ASSUME FdSets, Free # {}
  PROVE  LowestFree \in Free
<1>1. PICK f \in Free : \A g \in Free : f <= g
  BY DEF FdSets, Free
<1> QED
  BY <1>1 DEF LowestFree

\* What a call adds to the stack when it is entered.
LEMMA StackCons ==
  ASSUME NEW s \in Seq(Frames), NEW a \in Frames
  PROVE  LET t == <<a>> \o s IN
         /\ t \in Seq(Frames) /\ t # <<>> /\ Len(t) = Len(s) + 1 /\ Head(t) = a
         /\ FrameFds(t) = FrameFds(s) \cup {a.fd}
         /\ Fins(t) = IF a.k = "fin" THEN Fins(s) \cup {a.fd} ELSE Fins(s)
         /\ FinOnce(s) /\ (a.k = "fin" => a.fd \notin Fins(s)) => FinOnce(t)
<1> DEFINE t == <<a>> \o s
<1>1. t \in Seq(Frames) /\ Len(t) = Len(s) + 1 /\ t[1] = a /\ Len(s) \in Nat
      /\ \A i \in 1..Len(s) : t[i + 1] = s[i]
  BY SMTT(30)
<1>2. \A j \in 1..Len(t) : j = 1 \/ (j - 1 \in 1..Len(s) /\ t[j] = s[j - 1])
  BY <1>1, SMTT(30)
<1>3. t # <<>> /\ Head(t) = a
  BY <1>1, SMTT(30)
<1> HIDE DEF t
<1>9. 1 \in 1..Len(t) /\ \A i \in 1..Len(s) : i + 1 \in 1..Len(t)
  BY <1>1, SMTT(30)
<1>4. FrameFds(t) = FrameFds(s) \cup {a.fd}
  <2>1. ASSUME NEW f \in FrameFds(t) PROVE f \in FrameFds(s) \cup {a.fd}
    <3>1. PICK j \in 1..Len(t) : f = t[j].fd
      BY DEF FrameFds
    <3>2. j = 1 \/ (j - 1 \in 1..Len(s) /\ f = s[j - 1].fd)
      BY <1>2, <3>1
    <3> QED
      BY <1>1, <3>1, <3>2 DEF FrameFds
  <2>2. ASSUME NEW f \in FrameFds(s) PROVE f \in FrameFds(t)
    <3>1. PICK i \in 1..Len(s) : f = s[i].fd
      BY DEF FrameFds
    <3>2. i + 1 \in 1..Len(t) /\ t[i + 1].fd = f
      BY <1>1, <1>9, <3>1
    <3> QED
      BY <3>2 DEF FrameFds
  <2>3. a.fd \in FrameFds(t)
    BY <1>1, <1>9 DEF FrameFds
  <2> QED
    BY <2>1, <2>2, <2>3
<1>5. Fins(t) = IF a.k = "fin" THEN Fins(s) \cup {a.fd} ELSE Fins(s)
  <2>1. ASSUME NEW f \in Fins(t) PROVE f \in Fins(s) \/ (a.k = "fin" /\ f = a.fd)
    BY <1>1, <1>2, SMTT(30) DEF Fins
  <2>2. ASSUME NEW f \in Fins(s) PROVE f \in Fins(t)
    <3>1. PICK i \in 1..Len(s) : f = s[i].fd /\ s[i].k = "fin"
      BY DEF Fins
    <3>2. i + 1 \in 1..Len(t) /\ t[i + 1].fd = f /\ t[i + 1].k = "fin"
      BY <1>1, <1>9, <3>1
    <3> QED
      BY <3>2 DEF Fins
  <2>3. a.k = "fin" => a.fd \in Fins(t)
    BY <1>1, <1>9 DEF Fins
  <2> QED
    BY <2>1, <2>2, <2>3
<1>6. ASSUME FinOnce(s), a.k = "fin" => a.fd \notin Fins(s)
      PROVE  FinOnce(t)
  <2> SUFFICES ASSUME NEW m \in 1..Len(t), NEW n \in 1..Len(t), m <= n,
                      t[m].k = "fin", t[n].k = "fin", t[m].fd = t[n].fd
               PROVE  m = n
    BY SMTT(30) DEF FinOnce
  <2>1. CASE m = 1
    <3>1. n = 1 \/ (t[n] = s[n - 1] /\ n - 1 \in 1..Len(s))
      BY <1>2
    <3>2. n # 1 => a.fd \in Fins(s)
      BY <1>1, <2>1, <3>1 DEF Fins
    <3> QED
      BY <1>1, <1>6, <2>1, <3>2
  <2>2. CASE m # 1
    <3>1. m - 1 \in 1..Len(s) /\ n - 1 \in 1..Len(s) /\ t[m] = s[m - 1] /\ t[n] = s[n - 1]
      BY <1>2, <2>2, SMTT(30)
    <3> QED
      BY <1>6, <3>1, SMTT(30) DEF FinOnce
  <2> QED
    BY <2>1, <2>2
<1> QED
  BY <1>1, <1>3, <1>4, <1>5, <1>6 DEF t

\* Two calls on the stack are entered one after the other.
LEMMA StackConsTwo ==
  ASSUME NEW s \in Seq(Frames), NEW a \in Frames, NEW b \in Frames
  PROVE  <<a, b>> \o s = <<a>> \o (<<b>> \o s)
<1> DEFINE t == <<a, b>> \o s
           u == <<b>> \o s
           v == <<a>> \o u
<1>1. /\ t \in Seq(Frames) /\ Len(t) = Len(s) + 2 /\ t[1] = a /\ t[2] = b
      /\ \A i \in 1..Len(s) : t[i + 2] = s[i]
  BY SMTT(30)
<1>2. u \in Seq(Frames) /\ Len(u) = Len(s) + 1 /\ u[1] = b
      /\ \A i \in 1..Len(s) : u[i + 1] = s[i]
  BY SMTT(30)
<1>3. /\ v \in Seq(Frames) /\ Len(v) = Len(u) + 1 /\ v[1] = a
      /\ \A i \in 1..Len(u) : v[i + 1] = u[i]
  <2> HIDE DEF u
  <2> QED
    BY <1>2, SMTT(30)
<1> HIDE DEF t, u, v
<1>4. Len(t) = Len(v)
  BY <1>1, <1>2, <1>3, SMTT(30)
<1>5. ASSUME NEW i \in 1..Len(t) PROVE t[i] = v[i]
  <2>1. CASE i = 1
    BY <2>1, <1>1, <1>3
  <2>2. CASE i = 2
    <3>1. 1 \in 1..Len(u) /\ v[1 + 1] = u[1]
      BY <1>2, <1>3, SMTT(30)
    <3> QED
      BY <2>2, <3>1, <1>1, <1>2, SMTT(30)
  <2>3. CASE i > 2
    <3>1. i - 2 \in 1..Len(s) /\ i - 1 \in 1..Len(u)
      BY <2>3, <1>1, <1>2, SMTT(30)
    <3>2. t[(i - 2) + 2] = s[i - 2] /\ u[(i - 2) + 1] = s[i - 2] /\ v[(i - 1) + 1] = u[i - 1]
      BY <3>1, <1>1, <1>2, <1>3
    <3>3. (i - 2) + 2 = i /\ (i - 2) + 1 = i - 1 /\ (i - 1) + 1 = i
      BY <1>1, SMTT(30)
    <3> QED
      BY <3>2, <3>3
  <2> QED
    BY <1>1, <2>1, <2>2, <2>3, SMTT(30)
<1>6. t \in [1..Len(t) -> Frames] /\ v \in [1..Len(t) -> Frames]
  BY <1>1, <1>3, <1>4, SMTT(30)
<1>7. t = v
  BY ONLY <1>5, <1>6
<1> QED
  BY <1>7 DEF t, v, u

\* What a call takes from the stack when it returns.
LEMMA StackTail ==
  ASSUME NEW s \in Seq(Frames), s # <<>>
  PROVE  /\ Head(s) \in Frames /\ Tail(s) \in Seq(Frames) /\ Len(Tail(s)) = Len(s) - 1
         /\ Head(s).fd \in FrameFds(s)
         /\ FrameFds(Tail(s)) \subseteq FrameFds(s)
         /\ Head(s).k # "fin" => Fins(Tail(s)) = Fins(s)
         /\ FinOnce(s) => FinOnce(Tail(s))
         /\ Head(s).k = "fin" => Head(s).fd \in Fins(s)
         /\ FinOnce(s) /\ Head(s).k = "fin" => Fins(Tail(s)) = Fins(s) \ {Head(s).fd}
<1> DEFINE t == Tail(s)
<1>1. /\ t \in Seq(Frames) /\ Len(t) = Len(s) - 1 /\ Len(s) \in Nat \ {0}
      /\ Head(s) = s[1] /\ s[1] \in Frames
      /\ \A i \in 1..Len(t) : t[i] = s[i + 1]
  BY SMTT(30)
<1>2. \A j \in 1..Len(s) : j = 1 \/ (j - 1 \in 1..Len(t) /\ s[j] = t[j - 1])
  BY <1>1, SMTT(30)
<1>3. \A i \in 1..Len(t) : i + 1 \in 1..Len(s) /\ i + 1 # 1
  BY <1>1, SMTT(30)
<1>7. 1 \in 1..Len(s)
  BY <1>1, SMTT(30)
<1> HIDE DEF t
<1>4. FrameFds(t) \subseteq FrameFds(s) /\ s[1].fd \in FrameFds(s)
  BY <1>1, <1>3, <1>7, SMTT(30) DEF FrameFds
<1>5. /\ s[1].k # "fin" => Fins(t) = Fins(s)
      /\ s[1].k = "fin" => s[1].fd \in Fins(s)
  BY <1>1, <1>2, <1>3, <1>7, SMTT(30) DEF Fins
<1>6. ASSUME FinOnce(s) PROVE FinOnce(t)
  <2> SUFFICES ASSUME NEW m \in 1..Len(t), NEW n \in 1..Len(t),
                      t[m].k = "fin", t[n].k = "fin", t[m].fd = t[n].fd
               PROVE  m + 1 = n + 1
    BY SMTT(30) DEF FinOnce
  <2>1. /\ m + 1 \in 1..Len(s) /\ n + 1 \in 1..Len(s)
        /\ t[m] = s[m + 1] /\ t[n] = s[n + 1]
    BY <1>1, <1>3
  <2> QED
    BY <1>6, <2>1 DEF FinOnce
<1>8. ASSUME FinOnce(s), s[1].k = "fin"
      PROVE  Fins(t) = Fins(s) \ {s[1].fd}
  <2>1. ASSUME NEW f \in Fins(s), f # s[1].fd PROVE f \in Fins(t)
    BY <1>1, <1>2, <2>1, SMTT(30) DEF Fins
  <2>2. Fins(t) \subseteq Fins(s)
    BY <1>1, <1>3, SMTT(30) DEF Fins
  <2>3. s[1].fd \notin Fins(t)
    BY <1>1, <1>3, <1>7, <1>8, SMTT(30) DEF Fins, FinOnce
  <2> QED
    BY <2>1, <2>2, <2>3
<1> QED
  BY <1>1, <1>4, <1>5, <1>6, <1>8 DEF t

----------------------------------------------------------------------------
(* What a step does to the stack.                                          *)

\* The calls that go on after the innermost one has pushed or returned.
Below(T) ==
  /\ T \in Seq(Frames) /\ FinOnce(T)
  /\ Fins(T) = Fins(stack)
  /\ FrameFds(T) \subseteq FrameFds(stack)

\* No removal begins or ends, and what runs is for a structure that was used.
StackKept ==
  /\ stack' \in Seq(Frames) /\ FinOnce(stack')
  /\ Fins(stack') = Fins(stack)
  /\ FrameFds(stack') \subseteq Used

\* A removal begins.
Removes(f) ==
  /\ f \in inuse
  /\ inuse' = inuse \ {f} /\ removed' = removed \cup {f}
  /\ stack' \in Seq(Frames) /\ FinOnce(stack')
  /\ Fins(stack') = Fins(stack) \cup {f}
  /\ FrameFds(stack') \subseteq Used

\* The stack itself, and the stack without a call that is not a removal.
LEMMA BelowStack ==
  ASSUME TypeOK, StackInv
  PROVE  /\ Below(stack)
         /\ stack # <<>> /\ Head(stack).k # "fin" => Below(Tail(stack))
         /\ stack # <<>> => Head(stack) \in Frames /\ Head(stack).fd \in Used \cap Fds
<1>1. stack \in Seq(Frames) /\ FinOnce(stack) /\ FrameFds(stack) \subseteq Used
  BY DEF TypeOK, StackInv
<1>2. ASSUME stack # <<>>
      PROVE  /\ Head(stack) \in Frames /\ Head(stack).fd \in Used \cap Fds
             /\ Head(stack).k # "fin" => Below(Tail(stack))
  <2>1. Head(stack) \in Frames /\ Head(stack).fd \in FrameFds(stack)
    BY <1>1, <1>2, StackTail
  <2>2. Head(stack).fd \in Fds
    BY <2>1 DEF Frames
  <2>3. Head(stack).k # "fin" => Below(Tail(stack))
    BY <1>1, <1>2, StackTail DEF Below
  <2> QED
    BY <1>1, <2>1, <2>2, <2>3
<1> QED
  BY <1>1, <1>2 DEF Below

\* A call of a callback or of on_eds_client_send for a client in use.
LEMMA PushedKept ==
  ASSUME TypeOK, StackInv, NEW T, Below(T),
         NEW f \in inuse, NEW k \in {"cb", "done", "write", "sendw"}
  PROVE  /\ stack' = T => StackKept
         /\ stack' = <<Frame(k, f)>> \o T => StackKept
         /\ Len(<<Frame(k, f)>> \o T) = Len(T) + 1
         /\ Head(<<Frame(k, f)>> \o T) = Frame(k, f)
<1>1. /\ Frame(k, f) \in Frames /\ Frame(k, f).k = k /\ Frame(k, f).fd = f
      /\ k # "fin"
  BY DEF Frame, Frames, TypeOK
<1>2. /\ T \in Seq(Frames) /\ FinOnce(T) /\ Fins(T) = Fins(stack)
      /\ FrameFds(T) \subseteq Used /\ f \in Used
  BY DEF Below, StackInv, Used
<1> DEFINE a == Frame(k, f)
           t == <<a>> \o T
<1>3. /\ t \in Seq(Frames) /\ FinOnce(t) /\ Fins(t) = Fins(stack)
      /\ FrameFds(t) \subseteq Used /\ Len(t) = Len(T) + 1 /\ Head(t) = a
  <2> HIDE DEF a
  <2>1. a \in Frames /\ a.k # "fin" /\ a.fd = f
    BY <1>1 DEF a
  <2>2. /\ t \in Seq(Frames) /\ Len(t) = Len(T) + 1 /\ Head(t) = a
        /\ FrameFds(t) = FrameFds(T) \cup {a.fd}
        /\ Fins(t) = IF a.k = "fin" THEN Fins(T) \cup {a.fd} ELSE Fins(T)
        /\ FinOnce(T) /\ (a.k = "fin" => a.fd \notin Fins(T)) => FinOnce(t)
    BY <1>2, <2>1, StackCons
  <2> HIDE DEF t
  <2> QED
    BY <1>2, <2>1, <2>2
<1> QED
  BY <1>2, <1>3 DEF StackKept

\* eds_service_remove_client leaves a client that is being removed alone; of
\* one in use it begins the removal.
LEMMA RemoveEffect ==
  ASSUME TypeOK, StackInv, NEW T, Below(T),
         NEW f \in Used, RemoveClient(f, T)
  PROVE  \/ f \in removed /\ stack' = T /\ UNCHANGED <<inuse, removed>> /\ StackKept
         \/ /\ f \notin removed /\ Removes(f)
            /\ Len(stack') = Len(T) + 2 /\ Head(stack') = Frame("done", f)
<1>1. CASE f \in removed
  <2>1. stack' = T /\ UNCHANGED <<inuse, removed>>
    BY <1>1 DEF RemoveClient
  <2>2. StackKept
    BY <2>1 DEF StackKept, Below, StackInv
  <2> QED
    BY <1>1, <2>1, <2>2
<1>2. CASE f \notin removed
  <2> DEFINE a == Frame("done", f)
             b == Frame("fin", f)
             u == <<b>> \o T
  <2>1. f \in inuse /\ f \in Fds
    BY <1>2 DEF Used, TypeOK
  <2>2. /\ a \in Frames /\ a.k = "done" /\ a.fd = f
        /\ b \in Frames /\ b.k = "fin" /\ b.fd = f
    BY <2>1 DEF Frame, Frames
  <2>3. /\ T \in Seq(Frames) /\ FinOnce(T) /\ Fins(T) = Fins(stack)
        /\ FrameFds(T) \subseteq Used /\ f \notin Fins(T)
    BY <1>2 DEF Below, StackInv
  <2>4. /\ removed' = removed \cup {f} /\ inuse' = inuse \ {f}
        /\ stack' = <<a, b>> \o T
    BY <1>2 DEF RemoveClient
  <2> HIDE DEF a, b
  <2>5. /\ u \in Seq(Frames) /\ FinOnce(u) /\ Fins(u) = Fins(stack) \cup {f}
        /\ FrameFds(u) \subseteq Used /\ Len(u) = Len(T) + 1
    <3>1. /\ u \in Seq(Frames) /\ Len(u) = Len(T) + 1
          /\ FrameFds(u) = FrameFds(T) \cup {b.fd}
          /\ Fins(u) = IF b.k = "fin" THEN Fins(T) \cup {b.fd} ELSE Fins(T)
          /\ FinOnce(T) /\ (b.k = "fin" => b.fd \notin Fins(T)) => FinOnce(u)
      BY <2>2, <2>3, StackCons
    <3> HIDE DEF u
    <3> QED
      BY <3>1, <2>2, <2>3
  <2>6. stack' = <<a>> \o u
    BY <2>2, <2>3, <2>4, StackConsTwo
  <2> HIDE DEF u
  <2>7. /\ stack' \in Seq(Frames) /\ FinOnce(stack') /\ Fins(stack') = Fins(u)
        /\ FrameFds(stack') \subseteq Used /\ Len(stack') = Len(u) + 1 /\ Head(stack') = a
    <3>1. /\ stack' \in Seq(Frames) /\ Len(stack') = Len(u) + 1 /\ Head(stack') = a
          /\ FrameFds(stack') = FrameFds(u) \cup {a.fd}
          /\ Fins(stack') = IF a.k = "fin" THEN Fins(u) \cup {a.fd} ELSE Fins(u)
          /\ FinOnce(u) /\ (a.k = "fin" => a.fd \notin Fins(u)) => FinOnce(stack')
      BY <2>2, <2>5, <2>6, StackCons
    <3> QED
      BY <3>1, <2>2, <2>5
  <2>8. Len(stack') = Len(T) + 2
    <3>1. Len(T) \in Nat
      BY <2>3, SMTT(30)
    <3> QED
      BY <3>1, <2>5, <2>7, SMTT(30)
  <2> QED
    BY <1>2, <2>1, <2>4, <2>5, <2>7, <2>8 DEF Removes, a
<1> QED
  BY <1>1, <1>2

\* The four things a step can do to the client table.
Calm == StackKept /\ UNCHANGED <<inuse, removed, ext, open>>
Adds == stack' = stack /\ \E f \in Free : AddClient(f)
Begins == \E f \in Fds : Removes(f) /\ UNCHANGED <<susp, ext, onr, onw, tickVars, rfds, wfds, open>>

\* A step of the loop or of a service calls callbacks, adds a client, begins
\* the removal of one or ends it.
LEMMA StackStep ==
  ASSUME FdSets, IInv, Next
  PROVE  Calm \/ Adds \/ Begins \/ FinishRemove
<1> USE DEF IInv
<1>1. /\ Below(stack)
      /\ stack # <<>> /\ Head(stack).k # "fin" => Below(Tail(stack))
      /\ stack # <<>> => Head(stack) \in Frames /\ Head(stack).fd \in Used \cap Fds
  BY BelowStack
<1>2. stack' = stack => StackKept
  BY <1>1 DEF StackKept, Below, StackInv
<1>3. stack # <<>> /\ Head(stack).k # "fin" /\ stack' = Tail(stack) => StackKept
  BY <1>1 DEF StackKept, Below, StackInv
<1>4. ASSUME NEW f \in inuse, NEW k \in {"cb", "write"}, stack' = <<Frame(k, f)>> \o stack
      PROVE  StackKept
  BY <1>1, <1>4, PushedKept
<1>5. <<>> \o stack = stack
  BY SMTT(30) DEF TypeOK
<1>6. ASSUME NEW f \in Used, NEW T, Below(T), RemoveClient(f, T),
             UNCHANGED <<susp, ext, onr, onw, tickVars, rfds, wfds, open>>
      PROVE  Calm \/ Begins
  <2>1. f \in Fds
    BY DEF TypeOK, Used
  <2> QED
    BY <1>6, <2>1, RemoveEffect DEF Calm, Begins
<1>7. ASSUME NEW f, f \in inuse \cup {Self}, f \notin removed, Running
      PROVE  f \in inuse
  BY <1>1, <1>7 DEF Running, Self, Used
<1>8. ASSUME Loop PROVE Calm \/ Adds \/ Begins
  <2>1. CASE Select \/ AcceptFails \/ Scan \/ Tick \/ Stop \/ Finished
    BY <2>1, <1>2 DEF Select, AcceptFails, Scan, Tick, Stop, Finished, Calm, flagVars, vars
  <2>2. CASE Accept
    BY <2>2, LowestIsFree DEF Accept, Adds
  <2>3. CASE CallReadable
    <3>1. at \in inuse
      BY <2>3 DEF CallReadable, LoopAt, LoopInv
    <3>2. StackKept
      BY <2>3, <3>1, <1>2, <1>4, <1>5 DEF CallReadable, Push
    <3> QED
      BY <2>3, <3>2 DEF CallReadable, Calm, flagVars
  <2>4. CASE CallWritable
    <3>1. at \in Used
      BY <2>4 DEF CallWritable, LoopAt, LoopInv
    <3>2. CASE at \in removed
      BY <2>4, <3>2, <1>2 DEF CallWritable, Calm, flagVars
    <3>3. CASE at \notin removed
      <4>1. at \in inuse
        BY <3>1, <3>3 DEF Used
      <4>2. \/ stack' = <<>> \o stack
            \/ \E k \in {"cb", "write"} : stack' = <<Frame(k, at)>> \o stack
        BY <2>4, <3>3 DEF CallWritable, Push
      <4>3. StackKept
        BY <4>1, <4>2, <1>2, <1>4, <1>5
      <4> QED
        BY <2>4, <4>3 DEF CallWritable, Calm, flagVars
    <3> QED
      BY <3>2, <3>3
  <2>5. ASSUME NEW here \in {"post", "tickpost"}, NEW next, Post(here, next)
        PROVE  Calm \/ Begins
    <3>1. at \in Used
      BY <2>5 DEF Post, LoopAt, LoopInv
    <3>2. UNCHANGED <<susp, ext, onr, onw, tickVars, rfds, wfds, open>>
      BY <2>5 DEF Post, setVars
    <3>3. CASE NoActions(at)
      BY <2>5, <3>1, <3>2, <3>3, <1>1, <1>6 DEF Post
    <3>4. CASE ~NoActions(at)
      BY <2>5, <3>2, <3>4, <1>2 DEF Post, Calm
    <3> QED
      BY <3>3, <3>4
  <2>6. CASE RunTicker
    <3>1. CASE at \in ticker
      <4>1. at \in inuse
        BY <2>6, <3>1, SMTT(30) DEF RunTicker, LoopAt, StackInv, Fins
      <4>2. stack' = stack \/ stack' = <<Frame("cb", at)>> \o stack
        BY <2>6, <3>1 DEF RunTicker, Push
      <4>3. StackKept
        BY <4>1, <4>2, <1>2, <1>4
      <4> QED
        BY <2>6, <4>3 DEF RunTicker, Calm, flagVars
    <3>2. CASE at \notin ticker
      BY <2>6, <3>2, <1>2 DEF RunTicker, Calm, flagVars
    <3> QED
      BY <3>1, <3>2, SMTT(30)
  <2>7. CASE CleanupClient
    <3>1. UNCHANGED <<susp, ext, onr, onw, tickVars, rfds, wfds, open>>
      BY <2>7 DEF CleanupClient, setVars
    <3>2. CASE at \in Fds /\ at < NFds /\ at \in rfds \cup wfds
      <4>1. at \in Used
        BY <2>7, <3>2, SMTT(30) DEF CleanupClient, LoopAt, BitsMatchActions, Finishing, Used
      <4>2. RemoveClient(at, stack)
        BY <2>7, <3>2 DEF CleanupClient
      <4> QED
        BY <4>1, <4>2, <3>1, <1>1, <1>6
    <3>3. CASE ~(at \in Fds /\ at < NFds /\ at \in rfds \cup wfds)
      BY <2>7, <3>1, <3>3, <1>2 DEF CleanupClient, Calm
    <3> QED
      BY <3>2, <3>3
  <2> QED
    BY <1>8, <2>1, <2>2, <2>3, <2>4, <2>5, <2>6, <2>7 DEF Loop, PostEvents, PostTicker
<1>9. ASSUME Service PROVE Calm \/ Adds \/ Begins
  <2>1. CASE AddCall
    BY <2>1, LowestIsFree DEF AddCall, Adds
  <2>2. CASE Return
    BY <2>2, <1>3 DEF Return, Running, Callbacks, Calm, flagVars
  <2>3. ASSUME NEW f \in Fds, SetOnReadable(f) \/ SetOnWritable(f) \/ Send(f)
        PROVE  Calm
    <3>1. f \in inuse
      BY <2>3, <1>7 DEF SetOnReadable, SetOnWritable, Send, Call, Targets
    <3>2. stack' = stack \/ \E k \in {"cb", "write"} : stack' = <<Frame(k, f)>> \o stack
      BY <2>3 DEF SetOnReadable, SetOnWritable, Send, Nested, Push
    <3>3. StackKept
      BY <3>1, <3>2, <1>2, <1>4
    <3> QED
      BY <2>3, <3>3 DEF SetOnReadable, SetOnWritable, Send, Calm, flagVars
  <2>4. ASSUME NEW f \in Fds, SuspendReadable(f) \/ ClearActions(f) \/ SetTicker(f)
        PROVE  Calm
    BY <2>4, <1>2 DEF SuspendReadable, ClearActions, SetTicker, Calm, flagVars
  <2>5. ASSUME NEW f \in Fds, RemoveCall(f) PROVE Calm \/ Begins
    <3>1. f \in Used /\ RemoveClient(f, stack)
      BY <2>5, <1>1 DEF RemoveCall, Call, Running, Targets, Self, Used
    <3>2. UNCHANGED <<susp, ext, onr, onw, tickVars, rfds, wfds, open>>
      BY <2>5 DEF RemoveCall, setVars
    <3> QED
      BY <3>1, <3>2, <1>1, <1>6
  <2> QED
    BY <1>9, <2>1, <2>2, <2>3, <2>4, <2>5 DEF Service
<1>10. CASE WriteBlocks
  BY <1>10, <1>3 DEF WriteBlocks, Calm, flagVars
<1>11. CASE WriteFails
  <2>1. Head(stack).fd \in Used /\ Below(Tail(stack)) /\ RemoveClient(Head(stack).fd, Tail(stack))
    BY <1>11, <1>1 DEF WriteFails
  <2>2. UNCHANGED <<susp, ext, onr, onw, tickVars, rfds, wfds, open>>
    BY <1>11 DEF WriteFails, setVars
  <2> QED
    BY <2>1, <2>2, <1>6
<1>12. ASSUME NEW f, NEW tr, f = Head(stack).fd, stack # <<>>, Head(stack).k # "fin",
              WriteTransition(f, tr, Tail(stack))
       PROVE  StackKept
  <2>1. stack' = Tail(stack) \/ (f \in inuse /\ stack' = <<Frame("cb", f)>> \o Tail(stack))
    BY <1>1, <1>12 DEF WriteTransition, Used
  <2> QED
    BY <2>1, <1>1, <1>3, <1>12, PushedKept
<1>13. CASE WriteCompletes
  <2> DEFINE f == Head(stack).fd
  <2>1. stack # <<>> /\ Head(stack).k = "write" /\ f \in Used /\ Below(Tail(stack))
    BY <1>13, <1>1 DEF WriteCompletes
  <2>2. UNCHANGED <<inuse, removed, ext, open>>
    BY <1>13 DEF WriteCompletes
  <2>3. CASE trans[f].r = "cb" /\ f \notin removed
    <3> DEFINE a == Frame("cb", f)
               b == Frame("sendw", f)
               u == <<b>> \o Tail(stack)
    <3>1. f \in inuse /\ stack' = <<a, b>> \o Tail(stack)
      BY <1>13, <2>1, <2>3 DEF WriteCompletes, Used
    <3>2. a \in Frames /\ b \in Frames /\ b.k = "sendw" /\ b.fd = f /\ f \in FrameFds(stack)
      BY <2>1, <1>1, StackTail DEF Frame, Frames, TypeOK
    <3>3. Tail(stack) \in Seq(Frames)
      BY <2>1 DEF Below
    <3>4. stack' = <<a>> \o u
      BY <3>1, <3>2, <3>3, StackConsTwo
    <3>5. /\ u \in Seq(Frames)
          /\ FrameFds(u) = FrameFds(Tail(stack)) \cup {b.fd}
          /\ Fins(u) = IF b.k = "fin" THEN Fins(Tail(stack)) \cup {b.fd} ELSE Fins(Tail(stack))
          /\ FinOnce(Tail(stack)) /\ (b.k = "fin" => b.fd \notin Fins(Tail(stack))) => FinOnce(u)
      BY <3>2, <3>3, StackCons
    <3> HIDE DEF u
    <3>6. Below(u)
      BY <3>5, <3>2, <2>1 DEF Below
    <3>7. StackKept
      BY <3>1, <3>4, <3>6, PushedKept
    <3> QED
      BY <2>2, <3>7 DEF Calm
  <2>4. CASE ~(trans[f].r = "cb" /\ f \notin removed)
    <3>1. WriteTransition(f, trans[f], Tail(stack))
      BY <1>13, <2>4 DEF WriteCompletes
    <3>2. StackKept
      BY <2>1, <3>1, <1>12
    <3> QED
      BY <2>2, <3>2, SMTT(30) DEF Calm
  <2> QED
    BY <2>3, <2>4
<1>14. CASE ResumeSend
  <2>1. StackKept
    BY <1>14, <1>12 DEF ResumeSend
  <2> QED
    BY <1>14, <2>1 DEF ResumeSend, Calm, flagVars
<1> QED
  BY <1>8, <1>9, <1>10, <1>11, <1>13, <1>14 DEF Next

----------------------------------------------------------------------------
(* The invariant is preserved.                                             *)

\* Steps that only move the loop or enter and leave callbacks.
Quiet == UNCHANGED <<flagVars, onr, onw, sendVars, tickVars, setVars, open>>
QuietNext ==
  \/ Select \/ AcceptFails \/ Scan \/ CallReadable \/ CallWritable \/ Tick
  \/ RunTicker \/ Stop \/ Finished \/ Return \/ WriteBlocks

\* Selecting, scanning and entering or leaving a callback change no registration (eds.c).
LEMMA QuietStep ==
  ASSUME QuietNext
  PROVE  Quiet
BY DEF QuietNext, Quiet, Select, AcceptFails, Scan, CallReadable, CallWritable, Tick,
       RunTicker, Stop, Finished, Return, WriteBlocks, vars, flagVars, sendVars, tickVars, setVars

\* A step leaves every variable in its domain.
LEMMA TypeStep ==
  ASSUME FdSets, IInv, Next
  PROVE  TypeOK'
<1> USE DEF IInv
<1>1. stack' \in Seq(Frames)
  <2>1. CASE Calm \/ Begins
    BY <2>1 DEF Calm, Begins, Removes, StackKept
  <2>2. CASE Adds
    BY <2>2 DEF Adds, TypeOK
  <2>3. CASE FinishRemove
    BY <2>3, StackTail DEF FinishRemove, TypeOK
  <2> QED
    BY <2>1, <2>2, <2>3, StackStep
<1>2. Fds \subseteq Nat /\ \A f \in Fds : f + 1 \in 1..(MaxFd + 1)
  BY EdsAssumption, SMTT(30) DEF Fds
<1>3. \A S \in SUBSET Fds : Cardinality(S) \in Nat
  BY DEF FdSets
<1>4. \A f \in ticker : ntickers - 1 \in Nat
  <2>1. ntickers = Cardinality(ticker) /\ ntickers \in Nat /\ ticker \in SUBSET Fds
    BY <1>3 DEF TypeOK, TickersCounted
  <2>2. \A f \in ticker : ntickers # 0
    BY <2>1 DEF FdSets
  <2> QED
    BY <2>1, <2>2, SMTT(30)
<1>5. ASSUME NEW f \in Free, AddClient(f)
      PROVE  /\ inuse' \subseteq Fds /\ removed' \subseteq Fds /\ susp' \subseteq Fds
             /\ ext' \subseteq Fds /\ onr' \subseteq Fds
             /\ onw' \in [Fds -> {"none", "cb", "send"}] /\ trans' \in [Fds -> Transition]
             /\ unsent' \subseteq Fds /\ ticker' \subseteq Fds /\ ntickers' \in Nat
             /\ rfds' \subseteq Fds /\ wfds' \subseteq Fds /\ cmd' \in BOOLEAN /\ open' \subseteq Fds
  <2>1. f \in Fds /\ NoTransition \in Transition
    BY DEF Free, NoTransition, Transition, Action
  <2>2. cmd' \in BOOLEAN
    BY <1>5 DEF AddClient
  <2> QED
    BY <1>5, <2>1, <2>2 DEF AddClient, TypeOK
<1>6. ASSUME NEW f \in Fds, NEW tr \in Transition, NEW T, WriteTransition(f, tr, T)
      PROVE  onw' \in [Fds -> {"none", "cb", "send"}] /\ wfds' \subseteq Fds
  BY <1>6 DEF WriteTransition, TypeOK
<1>7. ASSUME NEW f \in Fds, NEW T, RemoveClient(f, T)
      PROVE  inuse' \subseteq Fds /\ removed' \subseteq Fds
  BY <1>7 DEF RemoveClient, TypeOK
<1>8. ASSUME Running PROVE Head(stack).fd \in Fds
  BY <1>8, BelowStack DEF Running
<1>9. ops + 1 \in 0..MaxOps \/ ~(ops < MaxOps)
  BY EdsAssumption, SMTT(30) DEF TypeOK
<1>10. ASSUME QuietNext PROVE TypeOK'
  <2>1. Quiet
    BY <1>10, QuietStep
  <2>2. /\ rsel' \subseteq Fds /\ wsel' \subseteq Fds /\ num' \in Nat /\ at' \in 1..(MaxFd + 1)
        /\ pc' \in LoopPcs /\ ops' \in 0..MaxOps
    <3> USE EdsAssumption DEF LoopPcs
    <3>1. CASE Select
      <4>1. rsel' \subseteq Fds /\ wsel' \subseteq Fds
        BY <3>1 DEF Select, TypeOK
      <4>2. num' \in Nat
        BY <3>1, <4>1, <1>3, SMTT(30) DEF Select
      <4> QED
        BY <3>1, <4>1, <4>2, SMTT(30) DEF Select
    <3>2. CASE AcceptFails
      BY <3>2, SMTT(30) DEF AcceptFails, TypeOK
    <3>3. CASE Scan
      <4>1. CASE num = 0 \/ at \notin Fds
        BY <3>3, <4>1, SMTT(30) DEF Scan, EndScan, TypeOK
      <4>2. CASE ~(num = 0 \/ at \notin Fds)
        <5>1. num - 1 \in Nat /\ at + 1 \in 1..(MaxFd + 1)
          BY <4>2, <1>2, SMTT(30) DEF TypeOK
        <5> QED
          BY <3>3, <4>2, <5>1 DEF Scan, TypeOK
      <4> QED
        BY <4>1, <4>2
    <3>4. CASE CallReadable
      BY <3>4 DEF CallReadable, selVars, TypeOK
    <3>5. CASE CallWritable
      <4>1. at \in Fds
        BY <3>5 DEF CallWritable, LoopAt, LoopInv
      <4> QED
        BY <3>5, <4>1, <1>2 DEF CallWritable, TypeOK
    <3>6. CASE Tick
      BY <3>6, SMTT(30) DEF Tick, TypeOK
    <3>7. CASE RunTicker
      <4>1. CASE num = 0 \/ at \notin Fds
        BY <3>7, <4>1, SMTT(30) DEF RunTicker, EndScan, TypeOK
      <4>2. CASE ~(num = 0 \/ at \notin Fds)
        <5>1. num - 1 \in Nat /\ at + 1 \in 1..(MaxFd + 1)
          BY <4>2, <1>2, SMTT(30) DEF TypeOK
        <5> QED
          BY <3>7, <4>2, <5>1 DEF RunTicker, TypeOK
      <4> QED
        BY <4>1, <4>2, SMTT(30)
    <3>8. CASE Stop
      BY <3>8, SMTT(30) DEF Stop, TypeOK
    <3>9. CASE Finished \/ Return \/ WriteBlocks
      BY <3>9 DEF Finished, vars, Return, WriteBlocks, selVars, TypeOK
    <3> QED
      BY <1>10, <3>1, <3>2, <3>3, <3>4, <3>5, <3>6, <3>7, <3>8, <3>9 DEF QuietNext
  <2>3. cmd' \in BOOLEAN
    BY <2>1 DEF Quiet, setVars, TypeOK
  <2> QED
    BY <1>1, <2>1, <2>2, <2>3 DEF Quiet, flagVars, sendVars, tickVars, setVars, TypeOK
<1>11. ASSUME Accept PROVE TypeOK'
  <2>1. LowestFree \in Free /\ LowestFree \in Fds
    BY <1>11, LowestIsFree DEF Accept, Free
  <2>2. /\ rsel' \subseteq Fds /\ wsel' \subseteq Fds /\ num' \in Nat /\ at' \in 1..(MaxFd + 1)
        /\ pc' \in LoopPcs /\ ops' \in 0..MaxOps
    <3>1. num >= Cardinality(rsel \cup wsel) + 1 /\ Cardinality(rsel \cup wsel) \in Nat
      BY <1>11, <1>3 DEF Accept, LoopAt, CountInv, TypeOK
    <3>2. num - 1 \in Nat
      BY <3>1, SMTT(30) DEF TypeOK
    <3> QED
      BY <1>11, <2>1, <3>2 DEF Accept, TypeOK, LoopPcs
  <2> QED
    BY <1>1, <1>5, <1>11, <2>1, <2>2 DEF Accept, TypeOK
<1>12. ASSUME AddCall PROVE TypeOK'
  <2>1. LowestFree \in Free
    BY <1>12, LowestIsFree DEF AddCall
  <2>2. ops' \in 0..MaxOps
    BY <1>9, <1>12 DEF AddCall, Call
  <2> QED
    BY <1>1, <1>5, <1>12, <2>1, <2>2 DEF AddCall, TypeOK, selVars
<1>13. ASSUME NEW here \in {"post", "tickpost"}, NEW next \in LoopPcs, Post(here, next)
       PROVE  TypeOK'
  <2>1. at \in Fds /\ at + 1 \in 1..(MaxFd + 1)
    BY <1>2, <1>13 DEF Post, LoopAt, LoopInv
  <2>2. inuse' \subseteq Fds /\ removed' \subseteq Fds
    BY <1>7, <1>13, <2>1 DEF Post, TypeOK
  <2>3. cmd' \in BOOLEAN
    BY <1>13 DEF Post, setVars, TypeOK
  <2> QED
    BY <1>1, <1>13, <2>1, <2>2, <2>3 DEF Post, TypeOK, sendVars, tickVars, setVars
<1>14. ASSUME CleanupClient PROVE TypeOK'
  <2>1. inuse' \subseteq Fds /\ removed' \subseteq Fds
    BY <1>7, <1>14 DEF CleanupClient, TypeOK
  <2>2. at' \in 1..(MaxFd + 1) /\ pc' \in LoopPcs
    BY <1>2, <1>14 DEF CleanupClient, TypeOK, LoopPcs
  <2>3. cmd' \in BOOLEAN
    BY <1>14 DEF CleanupClient, setVars, TypeOK
  <2> QED
    BY <1>1, <1>14, <2>1, <2>2, <2>3 DEF CleanupClient, TypeOK, sendVars, tickVars, setVars
<1>15. ASSUME NEW f \in Fds, SetOnReadable(f) \/ SuspendReadable(f) \/ ClearActions(f) \/ SetOnWritable(f)
       PROVE  TypeOK'
  <2> USE DEF SetOnReadable, SuspendReadable, ClearActions, SetOnWritable
  <2>1. ops' \in 0..MaxOps
    BY <1>9, <1>15 DEF Call
  <2>2. cmd' \in BOOLEAN
    BY <1>15 DEF setVars, TypeOK
  <2>3. /\ susp' \subseteq Fds /\ onr' \subseteq Fds /\ rfds' \subseteq Fds /\ wfds' \subseteq Fds
        /\ onw' \in [Fds -> {"none", "cb", "send"}]
    BY <1>15 DEF TypeOK, setVars, flagVars
  <2> QED
    BY <1>1, <1>15, <2>1, <2>2, <2>3, SMTT(30) DEF TypeOK, flagVars, sendVars, tickVars, setVars, selVars
<1>16. ASSUME NEW f \in Fds, Send(f) \/ SetTicker(f) \/ RemoveCall(f)
       PROVE  TypeOK'
  <2> USE DEF Send, SetTicker, RemoveCall
  <2>1. ops' \in 0..MaxOps
    BY <1>9, <1>16 DEF Call
  <2>2. cmd' \in BOOLEAN
    BY <1>16 DEF setVars, TypeOK
  <2>3. trans' \in [Fds -> Transition] /\ onw' \in [Fds -> {"none", "cb", "send"}]
    <3>1. Transitions \subseteq Transition
      BY EdsAssumption DEF Transition, Action
    <3> QED
      BY <1>16, <3>1 DEF TypeOK, sendVars
  <2>4. ntickers' \in Nat /\ ticker' \subseteq Fds
    BY <1>4, <1>16, SMTT(30) DEF TypeOK, tickVars
  <2>5. inuse' \subseteq Fds /\ removed' \subseteq Fds
    BY <1>7, <1>16 DEF TypeOK, flagVars
  <2> QED
    <3>1. CASE Send(f)
      BY <3>1, <1>1, <2>1, <2>2, <2>3, <2>4, <2>5 DEF TypeOK, flagVars, setVars, selVars
    <3>2. CASE SetTicker(f)
      BY <3>2, <1>1, <2>1, <2>2, <2>3, <2>4, <2>5 DEF TypeOK, flagVars, sendVars, setVars, selVars
    <3>3. CASE RemoveCall(f)
      BY <3>3, <1>1, <2>1, <2>2, <2>3, <2>4, <2>5 DEF TypeOK, sendVars, setVars, selVars
    <3> QED
      BY <1>16, <3>1, <3>2, <3>3
<1>17. ASSUME stack # <<>> PROVE Head(stack).fd \in Fds
  BY <1>17, BelowStack
<1>18. ASSUME WriteFails PROVE TypeOK'
  <2>1. inuse' \subseteq Fds /\ removed' \subseteq Fds
    BY <1>7, <1>17, <1>18 DEF WriteFails
  <2>2. cmd' \in BOOLEAN
    BY <1>18 DEF WriteFails, setVars, TypeOK
  <2> QED
    BY <1>1, <1>18, <2>1, <2>2 DEF WriteFails, TypeOK, sendVars, tickVars, setVars, selVars
<1>19. \A f \in Fds : /\ trans[f] \in Transition
                      /\ [trans EXCEPT ![f].r = "keep"] \in [Fds -> Transition]
                      /\ [trans EXCEPT ![f].w = "keep"] \in [Fds -> Transition]
                      /\ [trans EXCEPT ![f] = NoTransition] \in [Fds -> Transition]
  BY SMTT(30) DEF TypeOK, Transition, Action, NoTransition
<1>20. ASSUME WriteCompletes PROVE TypeOK'
  <2> DEFINE f == Head(stack).fd
  <2>1. f \in Fds /\ trans[f] \in Transition
    BY <1>17, <1>19, <1>20 DEF WriteCompletes
  <2>2. onw' \in [Fds -> {"none", "cb", "send"}] /\ wfds' \subseteq Fds
    <3>1. UNCHANGED <<onw, wfds>> \/ WriteTransition(f, trans[f], Tail(stack))
      BY <1>20 DEF WriteCompletes
    <3> QED
      BY <1>6, <2>1, <3>1 DEF TypeOK
  <2>3. /\ trans' \in [Fds -> Transition] /\ unsent' \subseteq Fds /\ susp' \subseteq Fds
        /\ onr' \subseteq Fds /\ rfds' \subseteq Fds
    <3>1. \/ trans' = [trans EXCEPT ![f].r = "keep"]
          \/ trans' = [trans EXCEPT ![f] = NoTransition]
      BY <1>20 DEF WriteCompletes
    <3>2. unsent' \subseteq Fds /\ susp' \subseteq Fds /\ onr' \subseteq Fds /\ rfds' \subseteq Fds
      BY <1>20, <2>1, SMTT(30) DEF WriteCompletes, TypeOK
    <3> QED
      BY <1>19, <2>1, <3>1, <3>2
  <2>4. cmd' \in BOOLEAN
    BY <1>20 DEF WriteCompletes, TypeOK
  <2> QED
    BY <1>1, <1>20, <2>2, <2>3, <2>4 DEF WriteCompletes, TypeOK, tickVars, selVars
<1>21. ASSUME ResumeSend PROVE TypeOK'
  <2> DEFINE f == Head(stack).fd
  <2>1. f \in Fds /\ trans[f] \in Transition
    BY <1>17, <1>19, <1>21 DEF ResumeSend
  <2>2. onw' \in [Fds -> {"none", "cb", "send"}] /\ wfds' \subseteq Fds
    BY <1>6, <1>21, <2>1 DEF ResumeSend
  <2>3. trans' \in [Fds -> Transition]
    BY <1>19, <1>21, <2>1 DEF ResumeSend
  <2>4. cmd' \in BOOLEAN
    BY <1>21 DEF ResumeSend, TypeOK
  <2> QED
    BY <1>1, <1>21, <2>2, <2>3, <2>4 DEF ResumeSend, TypeOK, flagVars, tickVars, selVars
<1>22. ASSUME FinishRemove PROVE TypeOK'
  <2> DEFINE f == Head(stack).fd
  <2>1. f \in Fds
    BY <1>17, <1>22 DEF FinishRemove
  <2>2. ntickers' \in Nat
    BY <1>4, <1>22 DEF FinishRemove, TypeOK
  <2>3. cmd' \in BOOLEAN
    BY <1>22 DEF FinishRemove
  <2>4. /\ ticker' \subseteq Fds /\ open' \subseteq Fds /\ ext' \subseteq Fds
        /\ rfds' \subseteq Fds /\ wfds' \subseteq Fds
    BY <1>22, <2>1 DEF FinishRemove, TypeOK
  <2> QED
    BY <1>1, <1>22, <2>2, <2>3, <2>4 DEF FinishRemove, TypeOK, sendVars, selVars
<1> QED
  BY <1>10, <1>11, <1>12, <1>13, <1>14, <1>15, <1>16, <1>18, <1>20, <1>21, <1>22
  DEF Next, Loop, Service, QuietNext, PostEvents, PostTicker, LoopPcs

\* Tickers change only when a client is added or removed and in
\* eds_client_set_ticker, which is called for a client in use.
LEMMA TickerCases ==
  ASSUME FdSets, IInv, Next
  PROVE  \/ UNCHANGED tickVars
         \/ \E f \in Free : AddClient(f)
         \/ FinishRemove
         \/ \E f \in inuse : SetTicker(f)
<1>1. ASSUME NEW f \in Fds, SetTicker(f) PROVE f \in inuse
  BY <1>1, BelowStack DEF SetTicker, Call, Running, Targets, Self, Used, IInv
<1>2. CASE QuietNext
  BY <1>2, QuietStep DEF Quiet
<1>3. CASE Accept \/ AddCall
  BY <1>3, LowestIsFree DEF Accept, AddCall
<1>4. CASE PostEvents \/ PostTicker \/ CleanupClient \/ WriteFails \/ WriteCompletes \/ ResumeSend
  BY <1>4 DEF PostEvents, PostTicker, Post, CleanupClient, WriteFails, WriteCompletes, ResumeSend
<1>5. ASSUME NEW f \in Fds,
             \/ SetOnReadable(f) \/ SuspendReadable(f) \/ ClearActions(f)
             \/ SetOnWritable(f) \/ Send(f) \/ RemoveCall(f)
      PROVE  UNCHANGED tickVars
  BY <1>5 DEF SetOnReadable, SuspendReadable, ClearActions, SetOnWritable, Send, RemoveCall
<1> QED
  BY <1>1, <1>2, <1>3, <1>4, <1>5 DEF Next, Loop, Service, QuietNext

\* The removals in progress, the flags and the open descriptors agree.
LEMMA TableStep ==
  ASSUME FdSets, IInv, Next
  PROVE  StackInv' /\ OpenWhileInUse'
<1> USE DEF IInv
<1>1. ticker' \subseteq inuse' \cup Fins(stack')
  <2>1. CASE Calm
    <3>1. ticker' \subseteq ticker \cup inuse
      BY TickerCases DEF tickVars, AddClient, FinishRemove, SetTicker
    <3> QED
      BY <2>1, <3>1 DEF Calm, StackKept, StackInv
  <2>2. CASE Adds
    BY <2>2 DEF Adds, AddClient, StackInv
  <2>3. CASE Begins
    BY <2>3 DEF Begins, Removes, tickVars, StackInv
  <2>4. CASE FinishRemove
    <3>1. Fins(stack') = Fins(stack) \ {Head(stack).fd}
      BY <2>4, StackTail DEF FinishRemove, StackInv, TypeOK
    <3> QED
      BY <2>4, <3>1 DEF FinishRemove, StackInv
  <2> QED
    BY <2>1, <2>2, <2>3, <2>4, StackStep
<1>2. CASE Calm
  BY <1>1, <1>2 DEF Calm, StackKept, StackInv, OpenWhileInUse, Finishing, Fins, Used
<1>3. CASE Adds
  <2>1. PICK f \in Free : AddClient(f)
    BY <1>3 DEF Adds
  <2>2. f \notin inuse /\ f \notin Fins(stack) /\ stack' = stack
    BY <1>3 DEF Adds, Free, OpenWhileInUse, Finishing, Fins
  <2> QED
    BY <1>1, <2>1, <2>2, SMTT(30) DEF AddClient, StackInv, OpenWhileInUse, Finishing, Fins, Used
<1>4. CASE Begins
  <2>1. PICK f \in Fds : Removes(f) /\ UNCHANGED <<ext, open>>
    BY <1>4 DEF Begins
  <2>2. Finishing = Fins(stack) /\ Finishing' = Fins(stack')
    BY DEF Finishing, Fins
  <2>3. OpenWhileInUse'
    BY <2>1, <2>2 DEF Removes, OpenWhileInUse
  <2> QED
    BY <1>1, <2>1, <2>3 DEF Removes, StackInv, Used
<1>5. CASE FinishRemove
  <2> DEFINE f == Head(stack).fd
  <2>1. /\ Fins(stack') = Fins(stack) \ {f} /\ f \in Fins(stack)
        /\ FrameFds(stack') \subseteq FrameFds(stack) /\ FinOnce(stack')
    BY <1>5, StackTail DEF FinishRemove, StackInv, TypeOK
  <2>2. f \notin inuse /\ f \notin ext
    BY <2>1 DEF StackInv
  <2> QED
    <3>1. Finishing = Fins(stack) /\ Finishing' = Fins(stack')
      BY DEF Finishing, Fins
    <3>2. /\ inuse' = inuse /\ removed' = removed
          /\ open' = open \ {f} /\ ext' = ext \cup {f}
      BY <1>5, <2>2 DEF FinishRemove
    <3>3. OpenWhileInUse'
      BY <2>1, <2>2, <3>1, <3>2 DEF OpenWhileInUse
    <3> QED
      BY <1>1, <2>1, <2>2, <3>2, <3>3 DEF StackInv, Used
<1> QED
  BY <1>2, <1>3, <1>4, <1>5, StackStep

\* The descriptor sets follow the actions of the clients.
LEMMA BitsStep ==
  ASSUME FdSets, IInv, Next
  PROVE  BitsMatchActions'
<1> USE DEF IInv
<1>1. Finishing = Fins(stack) /\ Finishing' = Fins(stack')
  BY SMTT(30) DEF Finishing, Fins
<1> DEFINE Bits(g) == /\ g \in onr => g \in rfds
                      /\ g \in rfds => g \in onr \cup susp
                      /\ g \in wfds <=> onw[g] # "none"
<1>2. \A g \in inuse : g \in Fds /\ Bits(g)
  BY DEF BitsMatchActions, TypeOK
<1>3. rfds \subseteq inuse \cup Fins(stack) /\ wfds \subseteq inuse \cup Fins(stack)
  BY <1>1 DEF BitsMatchActions
<1>4. SUFFICES /\ \A g \in inuse' : Bits(g)'
               /\ rfds' \subseteq inuse' \cup Fins(stack') /\ wfds' \subseteq inuse' \cup Fins(stack')
  BY <1>1, <1>4 DEF BitsMatchActions
<1> DEFINE Goal == /\ \A g \in inuse' : Bits(g)'
                   /\ rfds' \subseteq inuse' \cup Fins(stack')
                   /\ wfds' \subseteq inuse' \cup Fins(stack')
<1>5. ASSUME Calm, UNCHANGED <<susp, onr, onw, rfds, wfds>> PROVE Goal
  BY <1>2, <1>3, <1>5 DEF Calm, StackKept
<1>6. CASE QuietNext
  <2>1. UNCHANGED <<susp, onr, onw, rfds, wfds, inuse>>
    BY <1>6, QuietStep DEF Quiet, flagVars, setVars
  <2>2. Fins(stack') = Fins(stack)
    <3>1. ~Begins
      BY <2>1 DEF Begins, Removes
    <3>2. ~FinishRemove
      <4>1. stack = <<>> \/ Head(stack).k \in {"cb", "done", "write"}
        BY <1>6 DEF QuietNext, Select, AcceptFails, Scan, CallReadable, CallWritable, Tick,
           RunTicker, Stop, Finished, LoopAt, Return, Running, Callbacks, WriteBlocks
      <4> QED
        BY <4>1 DEF FinishRemove
    <3> QED
      BY <3>1, <3>2, StackStep DEF Calm, StackKept, Adds
  <2> QED
    BY <1>2, <1>3, <2>1, <2>2
<1>7. CASE Adds
  <2>1. PICK f \in Free : AddClient(f)
    BY <1>7, SMTT(30) DEF Adds
  <2>2. stack' = stack /\ f \in Fds /\ f \notin wfds
    BY <1>1, <1>3, <1>7 DEF Adds, Free, OpenWhileInUse
  <2>3. \A g \in Fds : onw'[g] = IF g = f THEN "none" ELSE onw[g]
    BY <2>1, <2>2 DEF AddClient, TypeOK
  <2> QED
    BY <1>2, <1>3, <2>1, <2>2, <2>3 DEF AddClient
<1>8. CASE Begins
  <2>1. PICK f \in Fds : Removes(f) /\ UNCHANGED <<susp, onr, onw, rfds, wfds>>
    BY <1>8 DEF Begins
  <2> QED
    BY <1>2, <1>3, <2>1 DEF Removes
<1>9. CASE FinishRemove
  <2> DEFINE f == Head(stack).fd
  <2>1. Fins(stack') = Fins(stack) \ {f} /\ f \notin inuse
    BY <1>9, StackTail DEF FinishRemove, StackInv, TypeOK
  <2>2. /\ UNCHANGED <<inuse, susp, onr, onw>>
        /\ rfds' = rfds \ {f} /\ wfds' = wfds \ {f}
    BY <1>9 DEF FinishRemove
  <2> QED
    BY <1>2, <1>3, <2>1, <2>2
<1>10. ASSUME Calm, NEW f \in Fds,
              UNCHANGED <<susp, onr, rfds>> \/ (onr' = onr \cup {f} /\ rfds' = rfds \cup {f} /\ susp' = susp \ {f})
              \/ (onr' = onr \ {f} /\ rfds' = rfds \ {f} /\ susp' \in {susp, susp \ {f}})
              \/ (onr' = onr \ {f} /\ rfds' = rfds /\ susp' = susp \cup {f}),
              UNCHANGED <<onw, wfds>> \/ (onw' = [onw EXCEPT ![f] = "none"] /\ wfds' = wfds \ {f})
              \/ (\E a \in {"cb", "send"} : onw' = [onw EXCEPT ![f] = a] /\ wfds' = wfds \cup {f}),
              f \in inuse \/ (rfds' \subseteq rfds /\ wfds' \subseteq wfds)
       PROVE  Goal
  <2>1. inuse' = inuse /\ Fins(stack') = Fins(stack)
    BY <1>10 DEF Calm, StackKept
  <2>2. rfds' \subseteq inuse \cup Fins(stack) /\ wfds' \subseteq inuse \cup Fins(stack)
    BY <1>3, <1>10
  <2>3. ASSUME NEW g \in inuse
        PROVE  (g \in onr' => g \in rfds') /\ (g \in rfds' => g \in onr' \cup susp')
    BY <1>2, <1>10
  <2>4. ASSUME NEW g \in inuse PROVE g \in wfds' <=> onw'[g] # "none"
    <3>1. g \in Fds /\ (g \in wfds <=> onw[g] # "none")
      BY <1>2
    <3>2. CASE UNCHANGED <<onw, wfds>>
      BY <3>1, <3>2
    <3>3. ASSUME NEW a, onw' = [onw EXCEPT ![f] = a]
          PROVE  onw'[g] = IF g = f THEN a ELSE onw[g]
      BY <3>1, <3>3 DEF TypeOK
    <3> QED
      BY <1>10, <3>1, <3>2, <3>3
  <2> QED
    BY <2>1, <2>2, <2>3, <2>4

<1>11. ASSUME stack # <<>>
       PROVE  /\ Head(stack).fd \in Fds
              /\ Head(stack).fd \notin removed => Head(stack).fd \in inuse
  BY <1>11, BelowStack DEF Used
<1>12. ASSUME NEW f \in Fds, f \in Targets \ removed, Running PROVE f \in inuse
  BY <1>11, <1>12 DEF Targets, Self, Running
<1>13. ASSUME Calm, NEW f \in Fds,
              \/ SetOnReadable(f) \/ SuspendReadable(f) \/ ClearActions(f)
              \/ SetOnWritable(f) \/ Send(f)
       PROVE  Goal
  <2>1. CASE SetOnReadable(f)
    <3>1. f \in inuse
      BY <1>12, <2>1 DEF SetOnReadable, Call
    <3> QED
      BY <1>10, <1>13, <2>1, <3>1 DEF SetOnReadable
  <2>2. CASE SuspendReadable(f)
    <3>1. f \in inuse
      BY <1>12, <2>2 DEF SuspendReadable, Call
    <3> QED
      BY <1>10, <1>13, <2>2, <3>1 DEF SuspendReadable, setVars
  <2>3. CASE ClearActions(f)
    <3>1. rfds' \subseteq rfds /\ wfds' \subseteq wfds
      BY <2>3 DEF ClearActions
    <3> QED
      BY <1>10, <1>13, <2>3, <3>1 DEF ClearActions
  <2>4. CASE SetOnWritable(f)
    <3>1. f \in inuse
      BY <1>12, <2>4 DEF SetOnWritable, Call
    <3> QED
      BY <1>10, <1>13, <2>4, <3>1 DEF SetOnWritable, flagVars
  <2>5. CASE Send(f)
    <3>1. f \in inuse
      BY <1>12, <2>5 DEF Send, Call
    <3> QED
      BY <1>10, <1>13, <2>5, <3>1 DEF Send, flagVars
  <2> QED
    BY <1>13, <2>1, <2>2, <2>3, <2>4, <2>5
<1>14. ASSUME NEW f, NEW tr, NEW T, WriteTransition(f, tr, T)
       PROVE  \/ UNCHANGED <<onw, wfds>>
              \/ onw' = [onw EXCEPT ![f] = "none"] /\ wfds' = wfds \ {f}
              \/ f \notin removed /\ onw' = [onw EXCEPT ![f] = "cb"] /\ wfds' = wfds \cup {f}
  BY <1>14 DEF WriteTransition
<1>15. ASSUME Calm, WriteCompletes PROVE Goal
  <2> DEFINE f == Head(stack).fd
  <2>1. f \in Fds /\ (f \notin removed => f \in inuse)
    BY <1>11, <1>15 DEF WriteCompletes
  <2>2. CASE trans[f].r = "cb" /\ f \notin removed
    <3>1. /\ onr' = onr \cup {f} /\ rfds' = rfds \cup {f} /\ susp' = susp \ {f}
          /\ UNCHANGED <<onw, wfds>>
      BY <1>15, <2>2 DEF WriteCompletes
    <3> QED
      BY <1>10, <1>15, <2>1, <2>2, <3>1
  <2>3. CASE ~(trans[f].r = "cb" /\ f \notin removed)
    <3>1. /\ \/ onr' = onr \ {f} /\ rfds' = rfds \ {f}
             \/ UNCHANGED <<onr, rfds>>
          /\ UNCHANGED susp
      BY <1>15, <2>3 DEF WriteCompletes
    <3>2. WriteTransition(f, trans[f], Tail(stack))
      BY <1>15, <2>3 DEF WriteCompletes
    <3>3. \/ UNCHANGED <<onw, wfds>>
          \/ onw' = [onw EXCEPT ![f] = "none"] /\ wfds' = wfds \ {f}
          \/ f \notin removed /\ onw' = [onw EXCEPT ![f] = "cb"] /\ wfds' = wfds \cup {f}
      BY <3>2, <1>14
    <3>4. f \in inuse \/ (rfds' \subseteq rfds /\ wfds' \subseteq wfds)
      BY <2>1, <3>1, <3>3
    <3> HIDE DEF f, Goal
    <3> QED
      BY <1>10, <1>15, <2>1, <3>1, <3>3, <3>4
  <2> QED
    BY <2>2, <2>3
<1>16. ASSUME Calm, ResumeSend PROVE Goal
  <2> DEFINE f == Head(stack).fd
  <2>1. f \in Fds /\ (f \notin removed => f \in inuse)
    BY <1>11, <1>16 DEF ResumeSend
  <2>2. UNCHANGED <<susp, onr, rfds>> /\ WriteTransition(f, trans[f], Tail(stack))
    BY <1>16 DEF ResumeSend, flagVars
  <2>3. \/ UNCHANGED <<onw, wfds>>
        \/ onw' = [onw EXCEPT ![f] = "none"] /\ wfds' = wfds \ {f}
        \/ f \notin removed /\ onw' = [onw EXCEPT ![f] = "cb"] /\ wfds' = wfds \cup {f}
    BY <2>2, <1>14
  <2>4. f \in inuse \/ (rfds' \subseteq rfds /\ wfds' \subseteq wfds)
    BY <2>1, <2>2, <2>3
  <2> HIDE DEF f, Goal
  <2> QED
    BY <1>10, <1>16, <2>1, <2>2, <2>3, <2>4
<1>17. ASSUME Calm,
              \/ Accept \/ AddCall \/ PostEvents \/ PostTicker \/ CleanupClient
              \/ WriteFails \/ \E f \in Fds : RemoveCall(f) \/ SetTicker(f)
       PROVE  Goal
  <2>1. CASE Accept \/ AddCall
    BY <2>1, <1>17, LowestIsFree DEF Accept, AddCall, AddClient, Calm, Free
  <2>2. CASE PostEvents \/ PostTicker \/ CleanupClient \/ WriteFails \/ \E f \in Fds : RemoveCall(f) \/ SetTicker(f)
    <3>1. UNCHANGED <<susp, onr, onw, rfds, wfds>>
      BY <2>2 DEF PostEvents, PostTicker, Post, CleanupClient, WriteFails, RemoveCall,
         SetTicker, flagVars, setVars
    <3> QED
      BY <1>5, <1>17, <3>1
  <2> QED
    BY <1>17, <2>1, <2>2
<1> HIDE DEF Goal
<1>18. ASSUME Calm PROVE Goal
  BY <1>6, <1>13, <1>15, <1>16, <1>17, <1>18, <1>9 DEF Next, Loop, Service, QuietNext, Goal
<1> QED
  BY <1>7, <1>8, <1>9, <1>18, StackStep DEF Goal

\* What the services and the removals do while the loop waits for them.
Inner ==
  \/ Service \/ WriteBlocks \/ WriteFails \/ WriteCompletes \/ ResumeSend \/ FinishRemove

\* While a service call runs, the position of the loop over the descriptors stays (eds.c).
LEMMA InnerStep ==
  ASSUME Inner
  PROVE  stack # <<>> /\ UNCHANGED selVars /\ UNCHANGED pc
<1>1. ASSUME NEW f \in Fds,
             \/ SetOnReadable(f) \/ SuspendReadable(f) \/ ClearActions(f)
             \/ SetOnWritable(f) \/ Send(f) \/ SetTicker(f) \/ RemoveCall(f)
      PROVE  stack # <<>> /\ UNCHANGED selVars /\ UNCHANGED pc
  BY <1>1 DEF SetOnReadable, SuspendReadable, ClearActions, SetOnWritable, Send, SetTicker,
     RemoveCall, Call, Running
<1>2. CASE AddCall \/ Return \/ WriteBlocks \/ WriteFails
  BY <1>2 DEF AddCall, Return, Call, Running, WriteBlocks, WriteFails
<1>3. CASE WriteCompletes \/ ResumeSend \/ FinishRemove
  BY <1>3 DEF WriteCompletes, ResumeSend, FinishRemove
<1> QED
  BY <1>1, <1>2, <1>3 DEF Inner, Service

\* The loop stays with structures that were used.
LEMMA LoopStep ==
  ASSUME FdSets, IInv, Next
  PROVE  LoopInv'
<1> USE DEF IInv
<1>1. Used \subseteq Used'
  BY StackStep DEF Calm, Adds, AddClient, Begins, Removes, FinishRemove, Used
<1>2. rsel \cup wsel \subseteq Used'
  BY <1>1 DEF LoopInv
<1>3. CASE Inner
  BY <1>1, <1>2, <1>3, InnerStep DEF LoopInv, selVars
<1>4. CASE Select
  <2>1. rfds \cup wfds \subseteq Used
    BY DEF BitsMatchActions, Finishing, Fins, StackInv, Used
  <2>2. rsel' \cup wsel' \subseteq Used
    BY <1>4, <2>1 DEF Select
  <2> QED
    BY <1>1, <1>4, <2>2 DEF Select, LoopInv
<1>5. CASE Accept
  <2>1. LowestFree \in Used'
    BY <1>5 DEF Accept, AddClient, Used
  <2> QED
    BY <1>2, <1>5, <2>1 DEF Accept, LoopInv
<1>6. CASE Scan
  <2>1. UNCHANGED <<stack, inuse, removed>>
    BY <1>6 DEF Scan, flagVars
  <2>2. pc' = "readable" => at' \in inuse /\ at' \in Fds /\ stack = <<>>
    <3>1. pc' = "readable" => at \in rsel \cup wsel /\ at \notin removed /\ at' = at /\ at \in Fds
      BY <1>6 DEF Scan, LoopAt
    <3> QED
      BY <1>6, <3>1 DEF LoopInv, Used, Scan, LoopAt
  <2>3. pc' \in {"tick", "readable", "scan"} /\ rsel' \cup wsel' \subseteq rsel \cup wsel
    BY <1>6 DEF Scan, EndScan, LoopAt
  <2> QED
    BY <1>2, <2>1, <2>2, <2>3 DEF LoopInv, Used
<1>7. CASE CallReadable
  BY <1>1, <1>2, <1>7 DEF CallReadable, LoopAt, LoopInv, selVars
<1>8. CASE CallWritable
  BY <1>1, <1>2, <1>8 DEF CallWritable, LoopAt, LoopInv
<1>9. CASE RunTicker
  <2>1. pc' = "tickpost" => at' \in Fds /\ at' \in Used
    <3>1. pc' = "tickpost" => at' = at /\ at \in ticker /\ stack = <<>>
      BY <1>9 DEF RunTicker, LoopAt
    <3> QED
      BY <3>1 DEF StackInv, Fins, Used, TypeOK
  <2>2. pc' \in {"select", "tickpost", "tickers"} /\ rsel' \cup wsel' \subseteq rsel \cup wsel
    BY <1>9 DEF RunTicker, EndScan, LoopAt
  <2> QED
    BY <1>1, <1>2, <2>1, <2>2 DEF LoopInv
<1>10. CASE AcceptFails \/ PostEvents \/ PostTicker \/ Tick \/ Stop \/ CleanupClient
  <2>1. UNCHANGED <<rsel, wsel>>
    BY <1>10 DEF AcceptFails, PostEvents, PostTicker, Post, Tick, Stop, CleanupClient, selVars
  <2>2. pc' \in {"select", "scan", "tickers", "cleanup", "stopped"}
    BY <1>10 DEF AcceptFails, PostEvents, PostTicker, Post, Tick, Stop, CleanupClient, LoopAt
  <2> QED
    BY <1>2, <2>1, <2>2 DEF LoopInv
<1>11. CASE Finished
  BY <1>11 DEF Finished, vars, LoopInv, Used
<1> QED
  BY <1>3, <1>4, <1>5, <1>6, <1>7, <1>8, <1>9, <1>10, <1>11 DEF Next, Loop, Inner

----------------------------------------------------------------------------
(* Callbacks and the lifetime of a client.                                 *)

\* A step that calls nothing, one that calls a callback of a client in use,
\* and one that calls the on_done of a client it takes out of use.
CallsNothing == ~Enters /\ inuse \subseteq inuse'
CallsBack ==
  \E f \in inuse, k \in {"cb", "write"} :
    Head(stack') = Frame(k, f) /\ inuse' = inuse
CallsDone ==
  \E f \in inuse :
    Enters /\ Head(stack') = Frame("done", f) /\ inuse' = inuse \ {f}

\* A step calls nothing, or a callback of a client in use, or the on_done of the
\* client it removes (eds.c).
LEMMA CallCases ==
  ASSUME IInv, Next
  PROVE  CallsNothing \/ CallsBack \/ CallsDone
<1> USE DEF IInv
<1>1. /\ Below(stack)
      /\ stack # <<>> /\ Head(stack).k # "fin" => Below(Tail(stack))
      /\ stack # <<>> => Head(stack) \in Frames /\ Head(stack).fd \in Used \cap Fds
  BY BelowStack
<1>2. Len(stack) \in Nat /\ (stack # <<>> => Len(Tail(stack)) = Len(stack) - 1)
  BY StackTail, SMTT(30) DEF TypeOK
<1>3. ASSUME stack' = stack \/ (stack # <<>> /\ stack' = Tail(stack)), inuse \subseteq inuse'
      PROVE  CallsNothing
  BY <1>2, <1>3, SMTT(30) DEF CallsNothing, Enters
<1>4. ASSUME NEW f \in inuse, NEW k \in {"cb", "write"},
             stack' = <<Frame(k, f)>> \o stack, inuse' = inuse
      PROVE  CallsBack
  <2>1. Head(stack') = Frame(k, f)
    BY <1>1, <1>4, PushedKept
  <2> QED
    BY <1>4, <2>1 DEF CallsBack
<1>5. <<>> \o stack = stack
  BY SMTT(30) DEF TypeOK
<1>6. ASSUME NEW f \in Used, NEW T, Below(T), RemoveClient(f, T),
             T = stack \/ (stack # <<>> /\ T = Tail(stack))
      PROVE  CallsNothing \/ CallsDone
  <2>1. CASE f \in removed /\ stack' = T /\ UNCHANGED <<inuse, removed>> /\ StackKept
    BY <1>3, <1>6, <2>1
  <2>2. CASE /\ f \notin removed /\ Removes(f)
             /\ Len(stack') = Len(T) + 2 /\ Head(stack') = Frame("done", f)
    <3>1. f \in inuse /\ inuse' = inuse \ {f}
      BY <2>2 DEF Removes
    <3>2. Len(stack') > Len(stack)
      BY <1>2, <1>6, <2>2, SMTT(30)
    <3>3. Enters
      BY <1>2, <2>2, <3>2, SMTT(30) DEF Enters, Removes
    <3> QED
      BY <2>2, <3>1, <3>3 DEF CallsDone
  <2> QED
    BY <2>1, <2>2, <1>6, RemoveEffect
<1>7. ASSUME NEW f, f \in inuse \cup {Self}, f \notin removed, Running
      PROVE  f \in inuse
  BY <1>1, <1>7 DEF Running, Self, Used
<1>8. ASSUME Loop PROVE CallsNothing \/ CallsBack \/ CallsDone
  <2>1. CASE Select \/ AcceptFails \/ Scan \/ Tick \/ Stop \/ Finished
    BY <2>1, <1>3 DEF Select, AcceptFails, Scan, Tick, Stop, Finished, flagVars, vars
  <2>2. CASE Accept
    BY <2>2, <1>3 DEF Accept, AddClient
  <2>3. CASE CallReadable
    <3>1. at \in inuse /\ inuse' = inuse
      BY <2>3 DEF CallReadable, LoopAt, LoopInv, flagVars
    <3> QED
      BY <2>3, <3>1, <1>3, <1>4, <1>5 DEF CallReadable, Push
  <2>4. CASE CallWritable
    <3>1. at \in Used /\ inuse' = inuse
      BY <2>4 DEF CallWritable, LoopAt, LoopInv, flagVars
    <3>2. CASE at \in removed
      BY <2>4, <3>1, <3>2, <1>3 DEF CallWritable
    <3>3. CASE at \notin removed
      <4>1. at \in inuse
        BY <3>1, <3>3 DEF Used
      <4>2. \/ stack' = <<>> \o stack
            \/ \E k \in {"cb", "write"} : stack' = <<Frame(k, at)>> \o stack
        BY <2>4, <3>3 DEF CallWritable, Push
      <4> QED
        BY <3>1, <4>1, <4>2, <1>3, <1>4, <1>5
    <3> QED
      BY <3>2, <3>3
  <2>5. ASSUME NEW here \in {"post", "tickpost"}, NEW next, Post(here, next)
        PROVE  CallsNothing \/ CallsDone
    <3>1. at \in Used
      BY <2>5 DEF Post, LoopAt, LoopInv
    <3>2. CASE NoActions(at)
      BY <2>5, <3>1, <3>2, <1>1, <1>6 DEF Post
    <3>3. CASE ~NoActions(at)
      BY <2>5, <3>3, <1>3 DEF Post
    <3> QED
      BY <3>2, <3>3
  <2>6. CASE RunTicker
    <3>1. inuse' = inuse
      BY <2>6 DEF RunTicker, flagVars
    <3>2. CASE at \in ticker
      <4>1. at \in inuse
        BY <2>6, <3>2, SMTT(30) DEF RunTicker, LoopAt, StackInv, Fins
      <4>2. stack' = stack \/ stack' = <<Frame("cb", at)>> \o stack
        BY <2>6, <3>2 DEF RunTicker, Push
      <4> QED
        BY <3>1, <4>1, <4>2, <1>3, <1>4
    <3>3. CASE at \notin ticker
      BY <2>6, <3>1, <3>3, <1>3 DEF RunTicker
    <3> QED
      BY <3>2, <3>3, SMTT(30)
  <2>7. CASE CleanupClient
    <3>1. CASE at \in Fds /\ at < NFds /\ at \in rfds \cup wfds
      <4>1. at \in Used
        BY <2>7, <3>1, SMTT(30) DEF CleanupClient, LoopAt, BitsMatchActions, Finishing, Used
      <4>2. RemoveClient(at, stack)
        BY <2>7, <3>1 DEF CleanupClient
      <4> QED
        BY <4>1, <4>2, <1>1, <1>6
    <3>2. CASE ~(at \in Fds /\ at < NFds /\ at \in rfds \cup wfds)
      BY <2>7, <3>2, <1>3 DEF CleanupClient
    <3> QED
      BY <3>1, <3>2
  <2> QED
    BY <1>8, <2>1, <2>2, <2>3, <2>4, <2>5, <2>6, <2>7 DEF Loop, PostEvents, PostTicker
<1>9. ASSUME Service PROVE CallsNothing \/ CallsBack \/ CallsDone
  <2>1. CASE AddCall
    BY <2>1, <1>3 DEF AddCall, AddClient
  <2>2. CASE Return
    BY <2>2, <1>3 DEF Return, Running, flagVars
  <2>3. ASSUME NEW f \in Fds, SetOnReadable(f) \/ SetOnWritable(f) \/ Send(f)
        PROVE  CallsNothing \/ CallsBack
    <3>1. f \in inuse
      BY <2>3, <1>7 DEF SetOnReadable, SetOnWritable, Send, Call, Targets
    <3>2. stack' = stack \/ \E k \in {"cb", "write"} : stack' = <<Frame(k, f)>> \o stack
      BY <2>3 DEF SetOnReadable, SetOnWritable, Send, Nested, Push
    <3>3. inuse' = inuse
      BY <2>3 DEF SetOnReadable, SetOnWritable, Send, flagVars
    <3> QED
      BY <3>1, <3>2, <3>3, <1>3, <1>4
  <2>4. ASSUME NEW f \in Fds, SuspendReadable(f) \/ ClearActions(f) \/ SetTicker(f)
        PROVE  CallsNothing
    BY <2>4, <1>3 DEF SuspendReadable, ClearActions, SetTicker, flagVars
  <2>5. ASSUME NEW f \in Fds, RemoveCall(f) PROVE CallsNothing \/ CallsDone
    <3>1. f \in Used /\ RemoveClient(f, stack)
      BY <2>5, <1>1 DEF RemoveCall, Call, Running, Targets, Self, Used
    <3> QED
      BY <3>1, <1>1, <1>6
  <2> QED
    BY <1>9, <2>1, <2>2, <2>3, <2>4, <2>5 DEF Service
<1>10. CASE WriteBlocks \/ FinishRemove
  BY <1>10, <1>3 DEF WriteBlocks, FinishRemove, flagVars
<1>11. CASE WriteFails
  <2>1. Head(stack).fd \in Used /\ Below(Tail(stack)) /\ RemoveClient(Head(stack).fd, Tail(stack))
    BY <1>11, <1>1 DEF WriteFails
  <2> QED
    BY <1>6, <1>11, <2>1 DEF WriteFails
<1>12. ASSUME NEW f, NEW tr, f = Head(stack).fd, stack # <<>>, Head(stack).k # "fin",
              WriteTransition(f, tr, Tail(stack)), inuse' = inuse
       PROVE  CallsNothing \/ CallsBack
  <2>1. CASE stack' = Tail(stack)
    BY <1>3, <1>12, <2>1
  <2>2. CASE f \in inuse /\ stack' = <<Frame("cb", f)>> \o Tail(stack)
    <3>1. Head(stack') = Frame("cb", f)
      BY <1>1, <1>12, <2>2, PushedKept
    <3> QED
      BY <1>12, <2>2, <3>1 DEF CallsBack
  <2>3. stack' = Tail(stack) \/ (f \in inuse /\ stack' = <<Frame("cb", f)>> \o Tail(stack))
    BY <1>1, <1>12 DEF WriteTransition, Used
  <2> QED
    BY <2>1, <2>2, <2>3
<1>13. CASE WriteCompletes
  <2> DEFINE f == Head(stack).fd
  <2>1. stack # <<>> /\ Head(stack).k = "write" /\ f \in Used /\ Below(Tail(stack))
    BY <1>13, <1>1 DEF WriteCompletes
  <2>2. inuse' = inuse
    BY <1>13 DEF WriteCompletes
  <2>3. CASE trans[f].r = "cb" /\ f \notin removed
    <3> DEFINE a == Frame("cb", f)
               b == Frame("sendw", f)
               u == <<b>> \o Tail(stack)
    <3>1. f \in inuse /\ stack' = <<a, b>> \o Tail(stack)
      BY <1>13, <2>1, <2>3 DEF WriteCompletes, Used
    <3>2. a \in Frames /\ b \in Frames
      BY <2>1, <1>1 DEF Frame, Frames
    <3>3. Tail(stack) \in Seq(Frames)
      BY <2>1 DEF Below
    <3>4. stack' = <<a>> \o u
      BY <3>1, <3>2, <3>3, StackConsTwo
    <3>5. u \in Seq(Frames) /\ Len(u) = Len(Tail(stack)) + 1
      BY <3>2, <3>3, StackCons
    <3>6. Head(stack') = a
      BY <3>2, <3>4, <3>5, StackCons
    <3> QED
      BY <2>2, <3>1, <3>6 DEF CallsBack
  <2>4. CASE ~(trans[f].r = "cb" /\ f \notin removed)
    <3>1. WriteTransition(f, trans[f], Tail(stack))
      BY <1>13, <2>4 DEF WriteCompletes
    <3> QED
      BY <2>1, <2>2, <3>1, <1>12
  <2> QED
    BY <2>3, <2>4
<1>14. CASE ResumeSend
  BY <1>14, <1>12 DEF ResumeSend, flagVars
<1> QED
  BY <1>8, <1>9, <1>10, <1>11, <1>13, <1>14 DEF Next

----------------------------------------------------------------------------

\* A listener starts without clients.
LEMMA InitIInv ==
  ASSUME FdSets, Init
  PROVE  IInv
<1>1. stack = <<>> /\ stack \in Seq(Frames) /\ Len(stack) = 0
  BY SMTT(30) DEF Init
<1>2. Fins(stack) = {} /\ FrameFds(stack) = {} /\ FinOnce(stack) /\ Finishing = {}
  BY <1>1, SMTT(30) DEF Fins, FrameFds, FinOnce, Finishing
<1>3. TypeOK
  <2>1. cmd \in BOOLEAN
    BY DEF Init
  <2>2. trans \in [Fds -> Transition] /\ onw \in [Fds -> {"none", "cb", "send"}]
    BY DEF Init, NoTransition, Transition, Action
  <2>3. 0 \in 0..MaxOps /\ 1 \in 1..(MaxFd + 1)
    BY EdsAssumption, SMTT(30)
  <2> QED
    BY <1>1, <2>1, <2>2, <2>3 DEF Init, TypeOK, LoopPcs
<1>4. StackInv /\ LoopInv /\ CountInv
  BY <1>2 DEF Init, StackInv, LoopInv, CountInv
<1>5. BitsMatchActions /\ OpenWhileInUse
  BY <1>2 DEF Init, BitsMatchActions, OpenWhileInUse
<1>6. TickersCounted
  BY DEF Init, TickersCounted, FdSets
<1> QED
  BY <1>3, <1>4, <1>5, <1>6 DEF IInv

\* Nothing changes when no step is taken.
LEMMA StutterIInv == IInv /\ UNCHANGED vars => IInv'
BY SMTT(30) DEF IInv, vars, TypeOK, StackInv, LoopInv, CountInv, Ready, Used, BitsMatchActions,
       OpenWhileInUse, TickersCounted, Finishing

----------------------------------------------------------------------------
(* Counting.                                                               *)

INSTANCE FiniteSetTheorems

\* Sets of descriptors are finite.
LEMMA FdFinite ==
  ASSUME NEW S \in SUBSET Fds
  PROVE  IsFiniteSet(S) /\ Cardinality(S) \in Nat
<1>1. IsFiniteSet(Fds)
  BY EdsAssumption, FS_Interval, SMTT(30) DEF Fds
<1> QED
  BY <1>1, FS_Subset, FS_CardinalityType

\* l->ntickers is counted up and down with the tickers.
LEMMA TickersStep ==
  ASSUME FdSets, IInv, Next
  PROVE  TickersCounted'
<1> USE DEF IInv
<1>1. IsFiniteSet(ticker) /\ ntickers = Cardinality(ticker) /\ ntickers \in Nat
  BY FdFinite DEF TypeOK, TickersCounted
<1>2. CASE UNCHANGED tickVars
  BY <1>1, <1>2 DEF tickVars, TickersCounted
<1>3. ASSUME NEW f \in Free, AddClient(f) PROVE TickersCounted'
  <2>1. ticker \ {f} = ticker
    BY DEF Free, StackInv, OpenWhileInUse, Finishing, Fins
  <2> QED
    BY <1>1, <1>3, <2>1 DEF AddClient, TickersCounted
<1>4. ASSUME NEW f, ticker' = ticker \ {f},
             ntickers' = IF f \in ticker THEN ntickers - 1 ELSE ntickers
      PROVE  TickersCounted'
  BY <1>1, <1>4, FS_RemoveElement DEF TickersCounted
<1>5. ASSUME NEW f, ticker' = ticker \cup {f},
             ntickers' = IF f \in ticker THEN ntickers ELSE ntickers + 1
      PROVE  TickersCounted'
  BY <1>1, <1>5, FS_AddElement DEF TickersCounted
<1>6. CASE FinishRemove
  BY <1>4, <1>6 DEF FinishRemove
<1>7. ASSUME NEW f, SetTicker(f) PROVE TickersCounted'
  BY <1>4, <1>5, <1>7 DEF SetTicker
<1> QED
  BY <1>2, <1>3, <1>6, <1>7, TickerCases

\* num_fds is counted down once for each ready descriptor.
LEMMA CountStep ==
  ASSUME FdSets, IInv, Next
  PROVE  CountInv'
<1> USE DEF IInv
<1>1. /\ rsel \cup wsel \subseteq Fds /\ num \in Nat /\ at \in Nat
      /\ \A S \in SUBSET Fds : IsFiniteSet(S) /\ Cardinality(S) \in Nat
  BY FdFinite, SMTT(30) DEF TypeOK
<1>2. ASSUME NEW T \in SUBSET Fds, NEW S \in SUBSET T
      PROVE  Cardinality(S) <= Cardinality(T)
  <2>1. IsFiniteSet(T)
    BY <1>1
  <2> QED
    BY <2>1, FS_Subset
<1>3. Fds \subseteq Nat
  BY SMTT(30) DEF Fds
<1>4. /\ Ready(at) \in SUBSET Fds /\ Ready(at + 1) \in SUBSET Fds
      /\ at \notin rsel \cup wsel => Ready(at + 1) = Ready(at)
      /\ at \in rsel \cup wsel => at \in Ready(at) /\ Ready(at + 1) = Ready(at) \ {at}
  <2>1. ASSUME NEW f \in rsel \cup wsel
        PROVE  f \in Ready(at + 1) <=> f \in Ready(at) /\ f # at
    <3>1. f \in Nat /\ at \in Nat
      BY <1>1, <1>3
    <3> QED
      BY <3>1, SMTT(30) DEF Ready
  <2>2. Ready(at) \subseteq rsel \cup wsel /\ Ready(at + 1) \subseteq rsel \cup wsel
    BY DEF Ready
  <2>3. at \in rsel \cup wsel => at \in Ready(at)
    BY <1>1, SMTT(30) DEF Ready
  <2> QED
    BY <1>1, <2>1, <2>2, <2>3
<1>5. at \in rsel \cup wsel => Cardinality(Ready(at + 1)) = Cardinality(Ready(at)) - 1
  BY <1>1, <1>4, FS_RemoveElement, SMTT(30)
<1>6. CASE Inner
  BY <1>6, InnerStep DEF CountInv, Ready, selVars
<1>7. CASE Select
  <2>1. rsel' \in SUBSET Fds /\ wsel' \in SUBSET Fds
    BY <1>7 DEF Select, TypeOK
  <2>2. Cardinality(rsel' \cup wsel') <= Cardinality(rsel') + Cardinality(wsel')
    <3>1. IsFiniteSet(rsel') /\ IsFiniteSet(wsel')
      BY <1>1, <2>1
    <3>2. Cardinality(rsel' \cup wsel')
            = Cardinality(rsel') + Cardinality(wsel') - Cardinality(rsel' \cap wsel')
      BY <3>1, FS_Union
    <3>3. rsel' \cap wsel' \in SUBSET Fds
      BY <2>1
    <3> QED
      BY <1>1, <2>1, <3>2, <3>3, SMTT(30)
  <2>3. Ready(at)' \in SUBSET (rsel' \cup wsel') /\ rsel' \cup wsel' \in SUBSET Fds
    BY <2>1 DEF Ready
  <2>4. Cardinality(Ready(at)') <= Cardinality(rsel' \cup wsel')
    BY <1>2, <2>3
  <2>5. /\ pc' = "accept" => num' = Cardinality(rsel') + Cardinality(wsel') + 1
        /\ pc' = "scan" => num' = Cardinality(rsel') + Cardinality(wsel')
        /\ pc' \in {"accept", "scan"}
    <3>1. Cardinality(rsel') \in Nat /\ Cardinality(wsel') \in Nat
      BY <1>1, <2>1
    <3>2. PICK c \in {FALSE, cmd} :
            /\ num' = Cardinality(rsel') + Cardinality(wsel') + (IF c THEN 1 ELSE 0)
            /\ pc' = IF c THEN "accept" ELSE "scan"
      BY <1>7 DEF Select
    <3> QED
      BY <3>1, <3>2, SMTT(30)
  <2>6. /\ Cardinality(rsel') \in Nat /\ Cardinality(wsel') \in Nat
        /\ Cardinality(rsel' \cup wsel') \in Nat /\ Cardinality(Ready(at)') \in Nat
    BY <1>1, <2>1, <2>3
  <2>7. /\ pc' = "accept" => num' >= Cardinality(rsel' \cup wsel') + 1
        /\ pc' = "scan" => num' >= Cardinality(Ready(at)')
    BY <2>2, <2>4, <2>5, <2>6, SMTT(30)
  <2> QED
    BY <2>5, <2>7 DEF CountInv
<1>8. CASE Accept
  <2> DEFINE g == LowestFree
             S == rsel \cup wsel
  <2>1. g \in Fds
    BY <1>8, LowestIsFree DEF Accept, Free
  <2>2. S \in SUBSET Fds /\ num >= Cardinality(S) + 1 /\ IsFiniteSet(S) /\ Cardinality(S) \in Nat
    BY <1>1, <1>8 DEF Accept, LoopAt, CountInv
  <2>3. Cardinality(S \cup {g}) <= Cardinality(S) + 1 /\ S \cup {g} \in SUBSET Fds
    <3> HIDE DEF S, g
    <3>1. Cardinality(S \cup {g}) = IF g \in S THEN Cardinality(S) ELSE Cardinality(S) + 1
      BY <2>2, FS_AddElement
    <3> QED
      BY <2>1, <2>2, <3>1, SMTT(30)
  <2>4. pc' = "scan" /\ num' >= Cardinality(rsel' \cup wsel') /\ rsel' \cup wsel' \in SUBSET Fds
    <3>1. CASE num > 1
      <4>1. rsel' \cup wsel' = S \cup {g} /\ num' = num /\ pc' = "scan"
        BY <1>8, <3>1 DEF Accept
      <4> HIDE DEF S, g
      <4>2. Cardinality(S \cup {g}) \in Nat
        BY <1>1, <2>3
      <4>3. num >= Cardinality(S \cup {g})
        BY <1>1, <2>2, <2>3, <4>2, SMTT(30)
      <4> QED
        BY <2>3, <4>1, <4>3
    <3>2. CASE ~(num > 1)
      <4>1. rsel' \cup wsel' = S /\ num' = num - 1 /\ pc' = "scan"
        BY <1>8, <3>2 DEF Accept
      <4> HIDE DEF S
      <4>2. num - 1 >= Cardinality(S)
        BY <1>1, <2>2, SMTT(30)
      <4> QED
        BY <2>2, <4>1, <4>2
    <3> QED
      BY <3>1, <3>2
  <2>5. Ready(at)' \in SUBSET (rsel' \cup wsel')
    BY DEF Ready
  <2>6. Cardinality(Ready(at)') <= Cardinality(rsel' \cup wsel')
    BY <1>2, <2>4, <2>5
  <2>7. /\ Cardinality(rsel' \cup wsel') \in Nat /\ Cardinality(Ready(at)') \in Nat
        /\ num' \in Nat
    BY <1>1, <2>4, <2>5, TypeStep DEF TypeOK
  <2>8. num' >= Cardinality(Ready(at)')
    BY <2>4, <2>6, <2>7, SMTT(30)
  <2> QED
    BY <2>4, <2>8 DEF CountInv

<1>9. CASE Scan
  <2>1. num >= Cardinality(Ready(at)) /\ Cardinality(Ready(at)) \in Nat
    BY <1>1, <1>4, <1>9 DEF Scan, LoopAt, CountInv
  <2>2. CASE num = 0 \/ at \notin Fds
    BY <1>9, <2>2 DEF Scan, CountInv
  <2>3. CASE ~(num = 0 \/ at \notin Fds)
    <3>1. UNCHANGED <<rsel, wsel>>
      BY <1>9, <2>3 DEF Scan
    <3>2. CASE at \in rsel \cup wsel
      <4>1. num - 1 >= Cardinality(Ready(at + 1))
        BY <1>1, <1>5, <2>1, <3>2, SMTT(30)
      <4>2. \/ num' = num - 1 /\ at' = at + 1 /\ pc' = "scan"
            \/ num' = num - 1 /\ at' = at /\ pc' = "readable"
        BY <1>9, <2>3, <3>2 DEF Scan, LoopAt
      <4> QED
        BY <3>1, <4>1, <4>2 DEF CountInv, Ready
    <3>3. CASE at \notin rsel \cup wsel
      <4>1. num' = num /\ at' = at + 1 /\ pc' = "scan"
        BY <1>9, <2>3, <3>3 DEF Scan, LoopAt
      <4>2. num >= Cardinality(Ready(at + 1))
        BY <1>4, <2>1, <3>3
      <4> QED
        BY <3>1, <4>1, <4>2 DEF CountInv, Ready
    <3> QED
      BY <3>2, <3>3
  <2> QED
    BY <2>2, <2>3
<1>10. CASE CallReadable
  BY <1>10 DEF CallReadable, LoopAt, selVars, CountInv, Ready
<1>11. CASE CallWritable
  <2>1. /\ UNCHANGED <<rsel, wsel, num>>
        /\ \/ pc' = "scan" /\ at' = at + 1
           \/ pc' = "post" /\ at' = at
    BY <1>11 DEF CallWritable
  <2>2. num >= Cardinality(Ready(at + 1))
    BY <1>11 DEF CallWritable, LoopAt, CountInv
  <2> QED
    BY <2>1, <2>2 DEF CountInv, Ready
<1>12. CASE PostEvents
  <2>1. UNCHANGED <<rsel, wsel, num>> /\ pc' = "scan" /\ at' = at + 1
    BY <1>12 DEF PostEvents, Post
  <2>2. num >= Cardinality(Ready(at + 1))
    BY <1>12 DEF PostEvents, Post, LoopAt, CountInv
  <2> QED
    BY <2>1, <2>2 DEF CountInv, Ready
<1>13. CASE AcceptFails \/ PostTicker \/ Tick \/ RunTicker \/ Stop \/ CleanupClient \/ Finished
  <2>1. pc' \in {"select", "tickers", "tickpost", "cleanup", "stopped"}
    BY <1>13 DEF AcceptFails, PostTicker, Post, Tick, RunTicker, Stop, CleanupClient,
       Finished, LoopAt, vars
  <2> QED
    BY <2>1 DEF CountInv
<1> QED
  BY <1>6, <1>7, <1>8, <1>9, <1>10, <1>11, <1>12, <1>13, SMTT(30) DEF Next, Loop, Inner

\* A set of descriptors has a size and, unless it is empty, a lowest descriptor.
LEMMA FdSetsHold == FdSets
<1> SUFFICES ASSUME NEW S \in SUBSET Fds, S # {}
             PROVE  \E x \in S : \A y \in S : x <= y
  BY FdFinite, FS_EmptySet DEF FdSets
<1>1. S \subseteq Nat
  BY EdsAssumption, SMTT(30) DEF Fds
<1> DEFINE R == OpToRel(<, Nat)
<1>4. \A x, y \in Nat : y < x => <<y, x>> \in R
  BY DEF OpToRel
<1>2. PICK x \in S : \A y \in S : ~ (<<y, x>> \in R)
  <2>1. IsWellFoundedOn(R, Nat)
    BY NatLessThanWellFounded
  <2> HIDE DEF R
  <2> QED
    BY <1>1, <2>1, WFMin
<1> HIDE DEF R
<1>3. ASSUME NEW y \in S PROVE x <= y
  <2>1. ~(y < x)
    BY <1>1, <1>2, <1>4
  <2>2. x \in Nat /\ y \in Nat
    BY <1>1
  <2> QED
    BY <2>1, <2>2, SMTT(30)
<1> QED
  BY <1>3

\* The inductive invariant of the listener, through every nesting of callbacks
\* of eds_serve_single_mainloop.
THEOREM ListenerInvariant == Spec => []IInv
<1>1. ASSUME IInv, Next PROVE IInv'
  BY <1>1, FdSetsHold, TypeStep, TableStep, TickersStep, BitsStep, LoopStep, CountStep DEF IInv
<1>2. IInv /\ [Next]_vars => IInv'
  BY <1>1, StutterIInv
<1>3. Init => IInv
  BY FdSetsHold, InitIInv
<1> QED
  BY <1>2, <1>3, PTL DEF Spec

\* l->rfds, l->wfds, the open descriptors and l->ntickers follow the client
\* table, for every number of descriptors and every service.
THEOREM ClientsConsistentHolds == Spec => []ClientsConsistent
<1>1. IInv => ClientsConsistent
  BY DEF IInv, ClientsConsistent
<1> QED
  BY <1>1, ListenerInvariant, PTL

\* num_fds does not run out before the last descriptor that select reported,
\* although clients are accepted and removed while the sets are scanned.
THEOREM NoEventSkippedHolds == Spec => []NoEventSkipped
<1>1. IInv => NoEventSkipped
  BY DEF IInv, CountInv, Ready, NoEventSkipped
<1> QED
  BY <1>1, ListenerInvariant, PTL

\* A service gets its callbacks between the accept and the removal of a
\* client, and on_done once, in the step that takes the client out of use:
\* for every service, however the removals of several clients nest.
THEOREM CallbacksInLifetimeHolds == Spec => CallbacksInLifetime
<1>1. ASSUME IInv, Next PROVE NoLateCallback /\ DoneOnce
  <2>1. \A k, f : Frame(k, f).k = k /\ Frame(k, f).fd = f
    BY DEF Frame
  <2>2. CASE CallsNothing
    BY <2>2 DEF CallsNothing, NoLateCallback, DoneOnce, Calls
  <2>3. CASE CallsBack
    <3>1. inuse \cap removed = {}
      BY <1>1 DEF IInv, StackInv
    <3> QED
      BY <2>1, <2>3, <3>1, SMTT(30) DEF CallsBack, NoLateCallback, DoneOnce, Calls
  <2>4. CASE CallsDone
    BY <2>1, <2>4, SMTT(30) DEF CallsDone, NoLateCallback, DoneOnce, Calls
  <2> QED
    BY <1>1, <2>2, <2>3, <2>4, CallCases
<1>2. IInv /\ [Next]_vars => [NoLateCallback /\ DoneOnce]_vars
  BY <1>1
<1> QED
  BY <1>2, ListenerInvariant, PTL DEF Spec, CallbacksInLifetime

============================================================================
