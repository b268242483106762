----------------------------- MODULE ClidProofs -----------------------------
(***************************************************************************)
(* Proofs that every open descriptor of clid has one owner, and that the   *)
(* end of the descriptor a client waits for means a complete result, for   *)
(* any number of clients, hosts and descriptors.  Both hold as long as     *)
(* descriptor 0 is the null device it was opened as, which it stays until  *)
(* a client is removed whose user data, zeroed by calloc, was never set.   *)
(***************************************************************************)
EXTENDS Clid, TLAPS

\* A leaf that names no prover is for Zenon.
USE ZenonT(40)

Kinds == {"null", "conn", "res", "cf0", "cf1"}
Steps == {"free", "resolver_on_readable", "on_readfd", "on_readreq", "on_sendclosefd"}
Null == Obj("null", None)
Stale == {-1, UserData.close0}   \* close0 and close1 of a client without a request

Types ==
  /\ cli \in [Clients -> {"new", "open", "sentfd", "sent", "wait"} \cup Over]
  /\ chan \in [Clients -> Seq({"fd", "req"})]
  /\ fdt \in [Fds -> [k : Kinds, c : Clients \cup {None}] \cup {None}]
  /\ slot \in [Fds -> Steps]
  /\ ud \in [Fds -> [resfd : Int, resfile : [fd : Int, c : Clients] \cup {None},
                     close0 : Int, close1 : Int]]
  /\ run \in {None} \cup [f : Fds, call : Steps \ {"free"}]
  /\ pool \in [Clients -> [st : {"none", "busy", "closing"}, left : Nat, resfd : Int, closefd : Int]]
  /\ buffer \in [Clients -> Nat] /\ file \in [Clients -> Seq(Clients)]

\* In the table t, descriptor f is open for purpose k of client c.
Is(t, f, k, c) == f \in Fds /\ t[f] = Obj(k, c)

\* The clients of eds are the connections, one for each program; the callback
\* in progress is the action of one.
ConnInv ==
  /\ \A g \in Fds : slot[g] # "free" => \E c \in Clients : Is(fdt, g, "conn", c)
  /\ \A g \in Fds : slot[g] = "free" => \A c \in Clients : ~Is(fdt, g, "conn", c)
  /\ \A g, h \in Fds : \A c \in Clients : Is(fdt, g, "conn", c) /\ Is(fdt, h, "conn", c) => g = h
  /\ \A g \in Fds : \A c \in Clients : Is(fdt, g, "conn", c) => cli[c] # "new"
  /\ run # None => slot[run.f] = run.call

\* A client with a request has the descriptors of the results and of the socket
\* pair, according to the step it is at.
Request == {"on_readreq", "on_sendclosefd"}
DataInv ==
  \A g \in Fds :
    /\ slot[g] # "on_sendclosefd" =>
         ud[g].resfile = None /\ ud[g].close0 \in Stale /\ ud[g].close1 \in Stale
    /\ \A c \in Clients : Is(fdt, g, "conn", c) =>
         /\ slot[g] = "on_readreq" => Is(fdt, ud[g].resfd, "res", c)
         /\ slot[g] = "on_sendclosefd" =>
              /\ ud[g].resfile # None /\ ud[g].resfile.c = c /\ Is(fdt, ud[g].resfile.fd, "res", c)
              /\ Is(fdt, ud[g].close0, "cf0", c) /\ Is(fdt, ud[g].close1, "cf1", c)
              /\ ud[g].resfd = -1
         /\ slot[g] \in Request => cli[c] \notin {"wait", "done"} /\ pool[c].st = "none"

\* A request in the pool has the descriptors it was given.
PoolInv ==
  \A c \in Clients :
    /\ pool[c].st = "busy" => Is(fdt, pool[c].resfd, "res", c)
    /\ pool[c].st # "none" => /\ Is(fdt, pool[c].closefd, "cf0", c)
                              /\ cli[c] \in {"wait", "gone"} /\ chan[c] = <<>>

\* What a client has sent and clid has not received.
Consumed(s) == CASE s = "on_sendclosefd" -> 2 [] s = "on_readreq" -> 1 [] OTHER -> 0
Sent(s) == CASE s = "sent" -> 2 [] s = "sentfd" -> 1 [] OTHER -> 0
ChanInv ==
  \A c \in Clients :
    /\ cli[c] \in {"new", "wait", "done"} => chan[c] = <<>>
    /\ cli[c] \in {"open", "sentfd", "sent"} =>
         \A g \in Fds : Is(fdt, g, "conn", c) => Len(chan[c]) + Consumed(slot[g]) = Sent(cli[c])

\* Whatever is open belongs to someone.
HasOwner(f, k) ==
  CASE k = "null" -> f = 0
    [] k = "conn" -> slot[f] # "free"
    [] k = "res" -> \/ \E g \in Fds : slot[g] = "on_readreq" /\ ud[g].resfd = f
                    \/ \E g \in Fds : slot[g] = "on_sendclosefd" /\ ud[g].resfile.fd = f
                    \/ \E c \in Clients : pool[c].st = "busy" /\ pool[c].resfd = f
    [] k = "cf0" -> \/ \E g \in Fds : slot[g] = "on_sendclosefd" /\ ud[g].close0 = f
                    \/ \E c \in Clients : pool[c].st # "none" /\ pool[c].closefd = f
    [] k = "cf1" -> \E g \in Fds : slot[g] = "on_sendclosefd" /\ ud[g].close1 = f
OwnerInv == \A f \in Fds : fdt[f] # None => HasOwner(f, fdt[f].k)

\* The lines of a request that the pool took are to be looked up, in the buffer or
\* in the file.
Lines(c) == [i \in 1..Hosts[c] |-> c]
LineInv ==
  \A c \in Clients \ dropped :
    /\ cli[c] \in {"new", "open", "sentfd", "sent"} =>
         file[c] = <<>> /\ buffer[c] = 0 /\ pool[c].st = "none"
    /\ cli[c] \in {"wait", "done"} =>
         /\ pool[c].st = "busy" => file[c] = <<>> /\ buffer[c] + pool[c].left = Hosts[c]
         /\ pool[c].st # "busy" => file[c] = Lines(c)
    /\ cli[c] = "done" => pool[c].st = "none"

Core == Types /\ up /\ ConnInv /\ DataInv /\ PoolInv /\ ChanInv /\ OwnerInv /\ (~term => LineInv)
Sane == fdt[0] = Null
Table == fdt = [f \in Fds |-> fdt[f]]
IInv == Table /\ (Sane => Core)

----------------------------------------------------------------------------
(* Descriptors.                                                            *)

\* A set of descriptors has a least one.  What follows assumes it; LeastHolds
\* below is its proof.
Least == \A S \in SUBSET Nat : S # {} => Min(S) \in S

\* A descriptor that a call takes was free; a socket pair takes two.
LEMMA FreeFd ==
  ASSUME Least
  PROVE  /\ FreeFds # {} => Min(FreeFds) \in FreeFds
         /\ TwoFree =>
              LET a == Min(FreeFds)
                  b == Min(FreeFds \ {a})
              IN  a \in FreeFds /\ b \in FreeFds /\ a # b
<1>1. FreeFds \in SUBSET Nat
  BY ClidAssumption, SMTT(30) DEF FreeFds, Fds
<1>2. FreeFds # {} => Min(FreeFds) \in FreeFds
  BY <1>1 DEF Least
<1>3. ASSUME TwoFree
      PROVE  FreeFds # {} /\ FreeFds # {Min(FreeFds)}
  BY <1>3 DEF TwoFree
<1>4. ASSUME TwoFree
      PROVE  LET a == Min(FreeFds)
                 b == Min(FreeFds \ {a})
             IN  a \in FreeFds /\ b \in FreeFds /\ a # b
  <2> DEFINE a == Min(FreeFds)
             S == FreeFds \ {a}
  <2>1. a \in FreeFds /\ S # {} /\ S \in SUBSET Nat
    BY <1>1, <1>2, <1>3, <1>4
  <2>2. Min(S) \in S
    BY <2>1 DEF Least
  <2> QED
    BY <2>1, <2>2
<1> QED
  BY <1>2, <1>4

\* The kinds and clients tell descriptors apart.
LEMMA ObjFacts ==
  /\ \A k1, k2, c1, c2 : Obj(k1, c1) = Obj(k2, c2) => k1 = k2 /\ c1 = c2
  /\ \A k \in Kinds, c \in Clients \cup {None} : Obj(k, c) # None
  BY ClidAssumption, SMTT(30) DEF Obj, Kinds

\* The descriptors that the removal of client f closes.
Own(f) ==
  {f} \cup (IF slot[f] = "on_readreq" THEN {ud[f].resfd} ELSE {})
      \cup (IF slot[f] = "on_sendclosefd"
            THEN {ud[f].resfile.fd, ud[f].close0, ud[f].close1} ELSE {})

\* They are open for the client.
LEMMA OwnFacts ==
  ASSUME Core, NEW f \in Fds, slot[f] # "free"
  PROVE  \E c \in Clients :
           /\ Is(fdt, f, "conn", c) /\ Peer(f) = c
           /\ \A x \in Own(f) : x \in Fds /\ fdt[x] # None /\ fdt[x].c = c /\ fdt[x].k # "null"
<1>1. PICK c \in Clients : Is(fdt, f, "conn", c)
  BY DEF Core, ConnInv
<1>2. \A x, k : Is(fdt, x, k, c) /\ k \in Kinds /\ k # "null" =>
        x \in Fds /\ fdt[x] # None /\ fdt[x].c = c /\ fdt[x].k # "null"
  BY ClidAssumption, SMTT(30) DEF Is, Obj, Kinds
<1>3. \A x \in Own(f) : \E k \in Kinds \ {"null"} : Is(fdt, x, k, c)
  BY <1>1, SMTT(30) DEF Core, DataInv, Own, Kinds
<1>4. Peer(f) = c
  BY <1>1, SMTT(30) DEF Is, Obj, Peer
<1> QED
  BY <1>1, <1>2, <1>3, <1>4

----------------------------------------------------------------------------
(* The removal of a client.                                                *)

\* A client that is removed has got no end of a descriptor, or got it for a
\* request that the pool will not see.
Told(c) ==
  \/ UNCHANGED <<cli, dropped>>
  \/ /\ cli[c] = "sent" /\ chan[c] = <<>>
     /\ cli' = [cli EXCEPT ![c] = "wait"] /\ dropped' = dropped \cup {c}

\* What eds_client_clear_actions and resolver_cli_cleanup amount to for the
\* tables: a client is gone with its descriptors.
Removal(f, c) ==
  /\ fdt' = [x \in Fds |-> IF x \in Own(f) THEN None ELSE fdt[x]]
  /\ slot' = [slot EXCEPT ![f] = "free"] /\ run' = None
  /\ ud' \in [Fds -> [resfd : Int, resfile : [fd : Int, c : Clients] \cup {None},
                      close0 : Int, close1 : Int]]
  /\ \A g \in Fds \ {f} : ud'[g] = ud[g]
  /\ ud'[f].resfile = None /\ ud'[f].close0 \in Stale /\ ud'[f].close1 \in Stale
  /\ UNCHANGED <<pool, term, up>> /\ Told(c)
  /\ chan' = chan \/ (chan[c] # <<>> /\ chan' = [chan EXCEPT ![c] = Tail(@)])

\* The tables stay consistent when a client is removed.
LEMMA RemovalStep ==
  ASSUME Core, NEW f \in Fds, NEW c \in Clients, Is(fdt, f, "conn", c), Removal(f, c),
         buffer' \in [Clients -> Nat], file' \in [Clients -> Seq(Clients)],
         ~term => LineInv'
  PROVE  Core'
<1> USE DEF Core
<1>1. slot[f] # "free" /\ c = Peer(f) /\ f \in Own(f)
  BY SMTT(30) DEF ConnInv, Own, Is, Peer, Obj
<1>2. \A x \in Own(f) : x \in Fds /\ fdt[x] # None /\ fdt[x].c = c
  BY <1>1, OwnFacts
<1>3. ASSUME NEW x, NEW k \in Kinds, NEW d \in Clients
      PROVE  Is(fdt', x, k, d) <=> Is(fdt, x, k, d) /\ x \notin Own(f)
  <2>1. x \in Fds => fdt'[x] = IF x \in Own(f) THEN None ELSE fdt[x]
    BY DEF Removal
  <2> QED
    BY <2>1, ObjFacts DEF Is
<1>4. ASSUME NEW x, NEW k \in Kinds, NEW d \in Clients, d # c
      PROVE  Is(fdt', x, k, d) <=> Is(fdt, x, k, d)
  BY <1>2, <1>3, <1>4, SMTT(30) DEF Is, Obj
<1>5. \A g \in Fds : slot'[g] = IF g = f THEN "free" ELSE slot[g]
  BY DEF Removal, Types
<1>6. \A g \in Fds, d \in Clients : g # f /\ Is(fdt, g, "conn", d) => d # c
  BY DEF ConnInv
<1>7. chan' \in [Clients -> Seq({"fd", "req"})]
      /\ \A d \in Clients : chan'[d] = chan[d] \/ (d = c /\ chan[d] # <<>> /\ chan'[d] = Tail(chan[d]))
  <2>1. chan \in [Clients -> Seq({"fd", "req"})]
    BY DEF Types
  <2>2. chan[c] # <<>> => Tail(chan[c]) \in Seq({"fd", "req"})
    BY <2>1, SMTT(30)
  <2> QED
    BY <2>1, <2>2 DEF Removal
<1>8. /\ UNCHANGED <<pool, term, up>> /\ run' = None
      /\ cli' \in [Clients -> {"new", "open", "sentfd", "sent", "wait"} \cup Over]
      /\ \A d \in Clients : \/ cli'[d] = cli[d]
                            \/ d = c /\ cli'[d] = "wait" /\ cli[d] = "sent" /\ chan[d] = <<>>
  BY DEF Removal, Told, Types
<1>9. Types'
  <2>1. fdt' \in [Fds -> [k : Kinds, c : Clients \cup {None}] \cup {None}]
    BY SMTT(30) DEF Removal, Types
  <2>2. slot' \in [Fds -> Steps] /\ ud' \in [Fds -> [resfd : Int, resfile : [fd : Int, c : Clients] \cup {None},
                      close0 : Int, close1 : Int]]
    BY DEF Removal, Types, Steps
  <2> QED
    BY <1>7, <1>8, <2>1, <2>2 DEF Types
<1>10. ConnInv'
  <2>1. ASSUME NEW g \in Fds, slot'[g] # "free" PROVE \E d \in Clients : Is(fdt', g, "conn", d)
    <3>1. g # f /\ slot[g] # "free"
      BY <1>5, <2>1
    <3>2. PICK d \in Clients : Is(fdt, g, "conn", d)
      BY <3>1 DEF ConnInv
    <3> QED
      BY <1>4, <1>6, <3>1, <3>2 DEF Kinds
  <2>2. \A g \in Fds, d \in Clients : Is(fdt', g, "conn", d) => Is(fdt, g, "conn", d) /\ g # f
    BY <1>1, <1>3 DEF Kinds
  <2>3. \A g \in Fds : slot'[g] = "free" => \A d \in Clients : ~Is(fdt', g, "conn", d)
    BY <1>5, <2>2 DEF ConnInv
  <2> QED
    BY <1>8, <2>1, <2>2, <2>3 DEF ConnInv
<1>11. DataInv'
  <2> SUFFICES ASSUME NEW g \in Fds
               PROVE  /\ slot'[g] # "on_sendclosefd" =>
                           ud'[g].resfile = None /\ ud'[g].close0 \in Stale /\ ud'[g].close1 \in Stale
                      /\ \A d \in Clients : Is(fdt', g, "conn", d) =>
                           /\ slot'[g] = "on_readreq" => Is(fdt', ud'[g].resfd, "res", d)
                           /\ slot'[g] = "on_sendclosefd" =>
                                /\ ud'[g].resfile # None /\ ud'[g].resfile.c = d
                                /\ Is(fdt', ud'[g].resfile.fd, "res", d)
                                /\ Is(fdt', ud'[g].close0, "cf0", d) /\ Is(fdt', ud'[g].close1, "cf1", d)
                                /\ ud'[g].resfd = -1
                           /\ slot'[g] \in Request => cli'[d] \notin {"wait", "done"} /\ pool'[d].st = "none"
    BY SMTT(30) DEF DataInv, Is, Obj
  <2>1. CASE g = f
    BY <1>5, <2>1, SMTT(30) DEF Removal, Request
  <2>2. CASE g # f
    <3>1. ud'[g] = ud[g] /\ slot'[g] = slot[g]
      BY <1>5, <2>2 DEF Removal
    <3>2. \A d \in Clients : Is(fdt', g, "conn", d) => Is(fdt, g, "conn", d) /\ d # c
      BY <1>3, <1>6, <2>2 DEF Kinds
    <3> QED
      BY <1>4, <1>8, <3>1, <3>2 DEF DataInv, Kinds
  <2> QED
    BY <2>1, <2>2
<1>12. PoolInv'
  <2> SUFFICES ASSUME NEW d \in Clients
               PROVE  /\ pool[d].st = "busy" => Is(fdt', pool[d].resfd, "res", d)
                      /\ pool[d].st # "none" => /\ Is(fdt', pool[d].closefd, "cf0", d)
                                                /\ cli'[d] \in {"wait", "gone"} /\ chan'[d] = <<>>
    BY <1>8 DEF PoolInv, Is, Obj
  <2>1. pool[d].st # "none" => chan'[d] = <<>> /\ cli'[d] \in {"wait", "gone"}
    BY <1>7, <1>8 DEF PoolInv
  <2>2. CASE d # c
    BY <1>4, <2>1, <2>2 DEF PoolInv, Kinds
  <2>3. CASE d = c /\ pool[c].st # "none"
    <3>1. Own(f) = {f}
      BY <2>3 DEF DataInv, Request, Own
    <3>2. \A x : Is(fdt, x, "res", c) \/ Is(fdt, x, "cf0", c) => x # f
      BY ObjFacts DEF Is
    <3> QED
      BY <1>3, <2>1, <2>3, <3>1, <3>2 DEF PoolInv, Kinds
  <2> QED
    BY <2>1, <2>2, <2>3
<1>13. ChanInv'
  <2> SUFFICES ASSUME NEW d \in Clients
               PROVE  /\ cli'[d] \in {"new", "wait", "done"} => chan'[d] = <<>>
                      /\ cli'[d] \in {"open", "sentfd", "sent"} =>
                           \A g \in Fds : Is(fdt', g, "conn", d) =>
                             Len(chan'[d]) + Consumed(slot'[g]) = Sent(cli'[d])
    BY <1>8 DEF ChanInv, Is, Obj
  <2>1. cli'[d] \in {"new", "wait", "done"} => chan'[d] = <<>>
    BY <1>7, <1>8 DEF ChanInv
  <2>2. \A g \in Fds : Is(fdt', g, "conn", d) => Is(fdt, g, "conn", d) /\ g # f /\ d # c
    BY <1>1, <1>3, <1>6 DEF Kinds
  <2> QED
    BY <1>5, <1>7, <1>8, <2>1, <2>2 DEF ChanInv
<1>14. OwnerInv'
  <2> SUFFICES ASSUME NEW x \in Fds, fdt'[x] # None
               PROVE  HasOwner(x, fdt[x].k)'
    BY DEF OwnerInv
  <2>1. x \notin Own(f) /\ fdt'[x] = fdt[x] /\ HasOwner(x, fdt[x].k)
    BY DEF Removal, OwnerInv
  <2>2. \A g \in Fds : g # f => slot'[g] = slot[g] /\ ud'[g] = ud[g]
    BY <1>5 DEF Removal
  <2>3. x # f
    BY <1>1, <2>1
  <2>4. slot[f] = "on_readreq" => ud[f].resfd # x
    BY <2>1 DEF Own
  <2>5. slot[f] = "on_sendclosefd" => ud[f].resfile.fd # x /\ ud[f].close0 # x /\ ud[f].close1 # x
    BY <2>1 DEF Own
  <2>6. fdt[x].k \in Kinds
    BY <2>1 DEF Types
  <2>7. CASE fdt[x].k = "null"
    BY <2>1, <2>7 DEF HasOwner
  <2>8. CASE fdt[x].k = "conn"
    BY <2>1, <2>2, <2>3, <2>8 DEF HasOwner
  <2>9. CASE fdt[x].k = "res"
    BY <1>8, <2>1, <2>2, <2>4, <2>5, <2>9 DEF HasOwner
  <2>10. CASE fdt[x].k = "cf0"
    <3>1. UNCHANGED pool
      BY <1>8
    <3> QED
      BY <2>1, <2>2, <2>5, <2>10, <3>1, SMTT(30) DEF HasOwner
  <2>11. CASE fdt[x].k = "cf1"
    BY <2>1, <2>2, <2>5, <2>11 DEF HasOwner
  <2> QED
    BY <2>6, <2>7, <2>8, <2>9, <2>10, <2>11 DEF Kinds
<1> QED
  BY <1>8, <1>9, <1>10, <1>11, <1>12, <1>13, <1>14

\* The user data u that a client is removed with: what it was, or after the
\* descriptor of the results was taken out, into a stream or not.
Removed(f, c, u) ==
  \/ slot[f] # "on_readreq" /\ u = ud[f]
  \/ slot[f] = "on_readreq" /\ u = [ud[f] EXCEPT !.resfd = -1]
  \/ slot[f] = "on_readreq" /\ u = [ud[f] EXCEPT !.resfile = [fd |-> ud[f].resfd, c |-> c], !.resfd = -1]

\* It has the descriptors of the socket pair, and those of the results.
LEMMA RemovedData ==
  ASSUME Core, NEW f \in Fds, NEW c \in Clients, Is(fdt, f, "conn", c), NEW u, Removed(f, c, u)
  PROVE  /\ u \in [resfd : Int, resfile : [fd : Int, c : Clients] \cup {None}, close0 : Int, close1 : Int]
         /\ u.close0 = ud[f].close0 /\ u.close1 = ud[f].close1
         /\ slot[f] # "on_readreq" => u.resfd = ud[f].resfd /\ u.resfile = ud[f].resfile
         /\ slot[f] = "on_readreq" =>
              /\ ud[f].resfd \in Fds /\ Is(fdt, ud[f].resfd, "res", c)
              /\ u.resfd = -1
              /\ u.resfile = ud[f].resfile \/ (u.resfile.fd = ud[f].resfd /\ u.resfile.c = c)
         /\ u.resfile # None => u.resfile.c = c /\ Is(fdt, u.resfile.fd, "res", c)
<1> USE DEF Core, Removed
<1> DEFINE Ud == [resfd : Int, resfile : [fd : Int, c : Clients] \cup {None}, close0 : Int, close1 : Int]
<1>1. ud \in [Fds -> Ud] /\ ud[f] \in Ud
  BY DEF Types
<1>2. slot[f] = "on_readreq" => ud[f].resfd \in Fds /\ Is(fdt, ud[f].resfd, "res", c)
  BY DEF DataInv, Is
<1>3. /\ u \in Ud /\ u.close0 = ud[f].close0 /\ u.close1 = ud[f].close1
      /\ slot[f] # "on_readreq" => u.resfd = ud[f].resfd /\ u.resfile = ud[f].resfile
      /\ slot[f] = "on_readreq" =>
           /\ u.resfd = -1
           /\ u.resfile = ud[f].resfile \/ (u.resfile.fd = ud[f].resfd /\ u.resfile.c = c)
  <2>1. [fd |-> ud[f].resfd, c |-> c] \in [fd : Int, c : Clients] /\ -1 \in Int
    BY <1>1, SMTT(30)
  <2>2. CASE slot[f] # "on_readreq" /\ u = ud[f]
    BY <1>1, <2>2
  <2>3. CASE slot[f] = "on_readreq" /\ u = [ud[f] EXCEPT !.resfd = -1]
    BY <1>1, <2>1, <2>3
  <2>4. CASE slot[f] = "on_readreq" /\ u = [ud[f] EXCEPT !.resfile = [fd |-> ud[f].resfd, c |-> c], !.resfd = -1]
    <3> DEFINE r == [fd |-> ud[f].resfd, c |-> c]
    <3>1. r.fd = ud[f].resfd /\ r.c = c
      OBVIOUS
    <3>2. r \in [fd : Int, c : Clients] /\ u = [ud[f] EXCEPT !.resfile = r, !.resfd = -1]
      BY <2>1, <2>4
    <3> HIDE DEF r
    <3>3. u \in Ud /\ u.close0 = ud[f].close0 /\ u.close1 = ud[f].close1 /\ u.resfd = -1 /\ u.resfile = r
      <4> DEFINE w == [ud[f] EXCEPT !.resfile = r]
      <4>1. w \in Ud /\ w.close0 = ud[f].close0 /\ w.close1 = ud[f].close1 /\ w.resfile = r
        BY <1>1, <3>2
      <4>2. u = [w EXCEPT !.resfd = -1]
        BY <3>2
      <4> HIDE DEF w
      <4> QED
        BY <2>1, <4>1, <4>2
    <3> QED
      BY <2>4, <3>1, <3>3
  <2> QED
    BY <2>2, <2>3, <2>4
<1>4. u.resfile # None => /\ u.resfile.c = c /\ Is(fdt, u.resfile.fd, "res", c)
  <2>1. CASE slot[f] = "on_readreq"
    BY <1>2, <1>3, <2>1 DEF DataInv
  <2>2. CASE slot[f] # "on_readreq"
    BY <1>3, <2>2, SMTT(30) DEF DataInv
  <2> QED
    BY <2>1, <2>2
<1> QED
  BY <1>2, <1>3, <1>4

\* The removal of a client, in a state where descriptor 0 stays what it is.
LEMMA ClearStep ==
  ASSUME Core, Sane', NEW f \in Fds, NEW c \in Clients, Is(fdt, f, "conn", c),
         NEW u, Clear(f, u), Removed(f, c, u),
         cli[c] \notin {"wait", "done"} \/ u.resfile = None,
         UNCHANGED <<pool, term, up>>, Told(c),
         chan' = chan \/ (chan[c] # <<>> /\ chan' = [chan EXCEPT ![c] = Tail(@)])
  PROVE  Core'
<1> USE DEF Core
<1> DEFINE Ud == [resfd : Int, resfile : [fd : Int, c : Clients] \cup {None}, close0 : Int, close1 : Int]
<1>1. ud \in [Fds -> Ud] /\ ud[f] \in Ud
  BY DEF Types
<1>2. slot[f] = "on_readreq" => ud[f].resfd \in Fds /\ Is(fdt, ud[f].resfd, "res", c)
  BY RemovedData
<1>3. /\ u \in Ud /\ u.close0 = ud[f].close0 /\ u.close1 = ud[f].close1
      /\ slot[f] # "on_readreq" => u.resfd = ud[f].resfd /\ u.resfile = ud[f].resfile
      /\ slot[f] = "on_readreq" =>
           /\ u.resfd = -1
           /\ u.resfile = ud[f].resfile \/ (u.resfile.fd = ud[f].resfd /\ u.resfile.c = c)
  BY RemovedData, SMTT(30)
<1>4. 0 \in Fds /\ -1 \notin Fds /\ fdt'[0] # None
  BY ClidAssumption, ObjFacts, SMTT(30) DEF Fds, Sane, Null, Kinds
<1> DEFINE F == {f, u.close0, u.close1}
                  \cup (IF u.resfile # None THEN {u.resfile.fd} ELSE {})
                  \cup (IF u.resfd # ud[f].resfd THEN {ud[f].resfd} ELSE {})
<1>5. /\ fdt' = [x \in Fds |-> IF x \in F THEN None ELSE fdt[x]]
      /\ ud' = [ud EXCEPT ![f] = [u EXCEPT !.close0 = -1, !.close1 = -1, !.resfile = None]]
      /\ slot' = [slot EXCEPT ![f] = "free"] /\ run' = None
      /\ IF u.resfile # None THEN Fclose(u.resfile.c, u.resfile.fd) ELSE UNCHANGED <<file, buffer>>
  BY DEF Clear, Close
<1>6. 0 \notin F
  BY <1>4, <1>5
<1>7. F \cap Fds = Own(f)
  <2>1. CASE slot[f] = "on_sendclosefd"
    BY <1>3, <2>1, SMTT(30) DEF DataInv, Own, Is
  <2>2. CASE slot[f] # "on_sendclosefd"
    <3>1. u.close0 = -1 /\ u.close1 = -1 /\ ud[f].resfile = None
      BY <1>3, <1>6, <2>2 DEF DataInv, Stale, UserData
    <3>2. CASE slot[f] = "on_readreq"
      <4>1. ud[f].resfd # -1 /\ u.resfd = -1 /\ (u.resfile = None \/ u.resfile.fd = ud[f].resfd)
        BY <1>2, <1>3, <1>4, <3>1, <3>2
      <4> QED
        BY <1>2, <1>4, <3>1, <3>2, <4>1 DEF Own
    <3>3. CASE slot[f] # "on_readreq"
      BY <1>3, <1>4, <2>2, <3>1, <3>3, SMTT(30) DEF Own
    <3> QED
      BY <3>2, <3>3
  <2> QED
    BY <2>1, <2>2
<1>8. Removal(f, c)
  <2>1. fdt' = [x \in Fds |-> IF x \in Own(f) THEN None ELSE fdt[x]]
    BY <1>5, <1>7
  <2> DEFINE v == [u EXCEPT !.close0 = -1, !.close1 = -1, !.resfile = None]
  <2>2. v \in Ud /\ v.close0 = -1 /\ v.close1 = -1 /\ v.resfile = None
    <3>1. -1 \in Int /\ u \in Ud
      BY <1>3, SMTT(30)
    <3> QED
      BY <3>1
  <2>3. ud' = [ud EXCEPT ![f] = v]
    BY <1>5
  <2> HIDE DEF v
  <2>4. ud' \in [Fds -> Ud] /\ (\A g \in Fds \ {f} : ud'[g] = ud[g]) /\ ud'[f] = v
    BY <1>1, <2>2, <2>3
  <2> QED
    BY <1>5, <2>1, <2>2, <2>4 DEF Removal, Stale
<1>9. u.resfile # None => /\ u.resfile.c = c /\ Is(fdt, u.resfile.fd, "res", c)
  BY RemovedData
<1>10. /\ buffer' \in [Clients -> Nat] /\ file' \in [Clients -> Seq(Clients)]
       /\ \A d \in Clients : d # c => file'[d] = file[d] /\ buffer'[d] = buffer[d]
       /\ u.resfile = None => UNCHANGED <<file, buffer>>
       /\ buffer[c] = 0 => file'[c] = file[c] /\ buffer'[c] = 0
  <2>1. CASE u.resfile = None
    BY <1>5, <2>1 DEF Types
  <2>2. CASE u.resfile # None
    <3>1. /\ file' = [file EXCEPT ![c] = @ \o [i \in 1..buffer[c] |-> c]]
          /\ buffer' = [buffer EXCEPT ![c] = 0]
      <4>1. Fclose(c, u.resfile.fd) /\ fdt[u.resfile.fd] = Obj("res", c) /\ Obj("res", c) # None
        BY <1>5, <1>9, <2>2, ObjFacts DEF Is, Kinds
      <4>2. fdt[u.resfile.fd].k = "res" /\ fdt[u.resfile.fd].c = c
        BY <4>1, SMTT(30) DEF Obj
      <4> QED
        BY <4>1, <4>2 DEF Fclose
    <3>2. buffer[c] \in Nat /\ file[c] \in Seq(Clients) /\ [i \in 1..buffer[c] |-> c] \in Seq(Clients)
      <4>1. buffer[c] \in Nat /\ file[c] \in Seq(Clients)
        BY DEF Types
      <4> QED
        BY <4>1, SMTT(30)
    <3>3. file[c] \o [i \in 1..buffer[c] |-> c] \in Seq(Clients)
      BY <3>2, SMTT(30)
    <3>4. buffer[c] = 0 => file[c] \o [i \in 1..buffer[c] |-> c] = file[c]
      <4>1. ASSUME buffer[c] = 0 PROVE [i \in 1..buffer[c] |-> c] = <<>>
        BY <4>1, SMTT(30)
      <4> QED
        BY <3>2, <4>1, SMTT(30)
    <3> QED
      BY <2>2, <3>1, <3>3, <3>4 DEF Types
  <2> QED
    BY <2>1, <2>2
<1>11. ~term => LineInv'
  <2> SUFFICES ASSUME ~term PROVE LineInv'
    OBVIOUS
  <2>1. \A d \in Clients \ dropped' : d \notin dropped /\ cli'[d] = cli[d] /\ pool'[d] = pool[d]
    BY DEF Told, Types
  <2> QED
    BY <1>10, <2>1 DEF LineInv, Lines
<1> QED
  BY <1>8, <1>10, <1>11, RemovalStep

----------------------------------------------------------------------------
(* Steps that open and close nothing.                                      *)

\* What is open has the same owner while descriptors, client data and requests
\* stay where they are.
LEMMA SameOwners ==
  ASSUME Types, OwnerInv, UNCHANGED <<fdt, ud>>,
         \A g \in Fds : /\ slot'[g] = "free" <=> slot[g] = "free"
                        /\ slot'[g] = "on_readreq" <=> slot[g] = "on_readreq"
                        /\ slot'[g] = "on_sendclosefd" <=> slot[g] = "on_sendclosefd",
         \A c \in Clients : /\ pool'[c].st = pool[c].st /\ pool'[c].resfd = pool[c].resfd
                            /\ pool'[c].closefd = pool[c].closefd
  PROVE  OwnerInv'
<1> SUFFICES ASSUME NEW x \in Fds, fdt[x] # None PROVE HasOwner(x, fdt[x].k)'
  BY DEF OwnerInv
<1>1. HasOwner(x, fdt[x].k) /\ fdt[x].k \in Kinds
  BY SMTT(30) DEF OwnerInv, Types
<1>2. CASE fdt[x].k = "null"
  BY <1>1, <1>2 DEF HasOwner
<1>3. CASE fdt[x].k = "conn"
  BY <1>1, <1>3 DEF HasOwner
<1>4. CASE fdt[x].k = "res"
  BY <1>1, <1>4, SMTT(30) DEF HasOwner
<1>5. CASE fdt[x].k = "cf0"
  BY <1>1, <1>5, SMTT(30) DEF HasOwner
<1>6. CASE fdt[x].k = "cf1"
  BY <1>1, <1>6 DEF HasOwner
<1> QED
  BY <1>1, <1>2, <1>3, <1>4, <1>5, <1>6 DEF Kinds

\* A program sends, receives or hangs up.  One that sees the end of its
\* descriptor has no request in the pool any more.
LEMMA ClientStep ==
  ASSUME Core, NEW c \in Clients, ClientSend(c) \/ ClientRecv(c) \/ ClientHangup(c)
  PROVE  Core'
<1> USE DEF Core
<1>1. UNCHANGED <<fdt, slot, ud, run, pool, dropped, term, buffer, file, up>>
  BY DEF ClientSend, ClientRecv, ClientHangup, loopVars, poolVars
<1>2. /\ cli \in [Clients -> {"new", "open", "sentfd", "sent", "wait"} \cup Over]
      /\ chan \in [Clients -> Seq({"fd", "req"})]
  BY DEF Types
<1>3. \/ /\ cli[c] = "open" /\ cli' = [cli EXCEPT ![c] = "sentfd"]
         /\ chan' = [chan EXCEPT ![c] = Append(@, "fd")]
      \/ /\ cli[c] = "sentfd" /\ cli' = [cli EXCEPT ![c] = "sent"]
         /\ chan' = [chan EXCEPT ![c] = Append(@, "req")]
      \/ /\ cli[c] = "wait" /\ ~Holds(Obj("cf0", c))
         /\ cli' = [cli EXCEPT ![c] = "done"] /\ chan' = chan
      \/ /\ cli[c] \in {"open", "sentfd", "sent"}
         /\ cli' = [cli EXCEPT ![c] = "failed"] /\ chan' = chan
      \/ /\ cli[c] \in {"open", "sentfd", "sent", "wait"}
         /\ cli' = [cli EXCEPT ![c] = "gone"] /\ chan' = chan
  BY <1>2 DEF ClientSend, ClientRecv, ClientHangup
<1>4. /\ cli' \in [Clients -> {"new", "open", "sentfd", "sent", "wait"} \cup Over]
      /\ chan' \in [Clients -> Seq({"fd", "req"})]
      /\ \A d \in Clients : d # c => cli'[d] = cli[d] /\ chan'[d] = chan[d]
  <2>1. Append(chan[c], "fd") \in Seq({"fd", "req"}) /\ Append(chan[c], "req") \in Seq({"fd", "req"})
    BY <1>2, SMTT(30)
  <2>2. chan' \in [Clients -> Seq({"fd", "req"})] /\ \A d \in Clients : d # c => chan'[d] = chan[d]
    BY <1>2, <1>3, <2>1
  <2>3. /\ cli' \in [Clients -> {"new", "open", "sentfd", "sent", "wait"} \cup Over]
        /\ \A d \in Clients : d # c => cli'[d] = cli[d]
    BY <1>2, <1>3 DEF Over
  <2> QED
    BY <2>2, <2>3
<1>5. \/ /\ cli[c] = "open" /\ cli'[c] = "sentfd" /\ Len(chan'[c]) = Len(chan[c]) + 1
      \/ /\ cli[c] = "sentfd" /\ cli'[c] = "sent" /\ Len(chan'[c]) = Len(chan[c]) + 1
      \/ /\ cli[c] = "wait" /\ pool[c].st = "none" /\ cli'[c] = "done" /\ chan'[c] = chan[c]
      \/ /\ cli[c] \in {"open", "sentfd", "sent", "wait"}
         /\ cli'[c] \in {"failed", "gone"} /\ chan'[c] = chan[c]
         /\ cli[c] = "wait" => cli'[c] = "gone"
  <2>1. ~Holds(Obj("cf0", c)) => pool[c].st = "none"
    BY DEF PoolInv, Holds, Is
  <2> QED
    BY <1>2, <1>3, <2>1, SMTT(30)
<1>6. Types'
  BY <1>1, <1>4 DEF Types
<1>7. ConnInv'
  BY <1>1, <1>4, <1>5 DEF ConnInv
<1>8. DataInv'
  <2>1. \A d \in Clients : cli[d] \notin {"wait", "done"} => cli'[d] \notin {"wait", "done"}
    BY <1>4, <1>5
  <2> QED
    BY <1>1, <2>1, SMTT(30) DEF DataInv
<1>9. PoolInv'
  <2> SUFFICES ASSUME NEW d \in Clients, pool[d].st # "none"
               PROVE  cli'[d] \in {"wait", "gone"} /\ chan'[d] = <<>>
    BY <1>1 DEF PoolInv
  <2>1. cli[d] \in {"wait", "gone"} /\ chan[d] = <<>>
    BY DEF PoolInv
  <2> QED
    BY <1>4, <1>5, <2>1
<1>10. ChanInv'
  <2> SUFFICES ASSUME NEW d \in Clients
               PROVE  /\ cli'[d] \in {"new", "wait", "done"} => chan'[d] = <<>>
                      /\ cli'[d] \in {"open", "sentfd", "sent"} =>
                           \A g \in Fds : Is(fdt, g, "conn", d) =>
                             Len(chan'[d]) + Consumed(slot[g]) = Sent(cli'[d])
    BY <1>1 DEF ChanInv
  <2>1. CASE d # c
    BY <1>4, <2>1 DEF ChanInv
  <2>2. CASE d = c
    <3>1. cli'[c] \in {"new", "wait", "done"} => chan'[c] = <<>>
      BY <1>5 DEF ChanInv
    <3>2. ASSUME cli'[c] \in {"open", "sentfd", "sent"}, NEW g \in Fds, Is(fdt, g, "conn", c)
          PROVE  Len(chan'[c]) + Consumed(slot[g]) = Sent(cli'[c])
      <4>1. Consumed(slot[g]) \in Nat /\ Len(chan[c]) \in Nat
        BY <1>2, SMTT(30) DEF Consumed
      <4>2. Len(chan[c]) + Consumed(slot[g]) = Sent(cli[c])
        BY <1>5, <3>2 DEF ChanInv
      <4>3. Len(chan'[c]) = Len(chan[c]) + 1 /\ Sent(cli'[c]) = Sent(cli[c]) + 1
        BY <1>5, <3>2, SMTT(30) DEF Sent
      <4> QED
        BY <4>1, <4>2, <4>3, SMTT(30)
    <3> QED
      BY <2>2, <3>1, <3>2
  <2> QED
    BY <2>1, <2>2
<1>11. OwnerInv'
  BY <1>1, SameOwners
<1>12. ~term => LineInv'
  <2> SUFFICES ASSUME ~term, NEW d \in Clients \ dropped
               PROVE  /\ cli'[d] \in {"new", "open", "sentfd", "sent"} =>
                           file[d] = <<>> /\ buffer[d] = 0 /\ pool[d].st = "none"
                      /\ cli'[d] \in {"wait", "done"} =>
                           /\ pool[d].st = "busy" => file[d] = <<>> /\ buffer[d] + pool[d].left = Hosts[d]
                           /\ pool[d].st # "busy" => file[d] = Lines(d)
                      /\ cli'[d] = "done" => pool[d].st = "none"
    BY <1>1 DEF LineInv, Lines
  <2>1. CASE d # c
    BY <1>4, <2>1 DEF LineInv
  <2>2. CASE d = c
    BY <1>5, <2>2 DEF LineInv
  <2> QED
    BY <2>1, <2>2
<1> QED
  BY <1>1, <1>6, <1>7, <1>8, <1>9, <1>10, <1>11, <1>12

\* A callback begins, goes on to the next step or returns.
LEMMA CallStep ==
  ASSUME Core, UNCHANGED <<cli, chan, fdt, ud, pool, dropped, term, buffer, file, up>>,
         \/ slot' = slot
         \/ \E f \in Fds : slot[f] = "resolver_on_readable" /\ slot' = [slot EXCEPT ![f] = "on_readfd"],
         run' \in {None} \cup [f : Fds, call : Steps \ {"free"}],
         run' # None => slot'[run'.f] = run'.call
  PROVE  Core'
<1> USE DEF Core
<1>1. slot' \in [Fds -> Steps] /\ slot \in [Fds -> Steps]
  BY DEF Types, Steps
<1>2. \A g \in Fds : slot'[g] = slot[g] \/ (slot[g] = "resolver_on_readable" /\ slot'[g] = "on_readfd")
  BY <1>1
<1>3. Types'
  BY <1>1 DEF Types
<1>4. \A g \in Fds : /\ slot'[g] = "free" <=> slot[g] = "free"
                     /\ slot'[g] = "on_readreq" <=> slot[g] = "on_readreq"
                     /\ slot'[g] = "on_sendclosefd" <=> slot[g] = "on_sendclosefd"
  BY <1>2
<1>5. ConnInv'
  BY <1>4, SMTT(30) DEF ConnInv
<1>6. DataInv'
  <2> SUFFICES ASSUME NEW g \in Fds
               PROVE  /\ slot'[g] # "on_sendclosefd" =>
                           ud[g].resfile = None /\ ud[g].close0 \in Stale /\ ud[g].close1 \in Stale
                      /\ \A c \in Clients : Is(fdt, g, "conn", c) =>
                           /\ slot'[g] = "on_readreq" => Is(fdt, ud[g].resfd, "res", c)
                           /\ slot'[g] = "on_sendclosefd" =>
                                /\ ud[g].resfile # None /\ ud[g].resfile.c = c
                                /\ Is(fdt, ud[g].resfile.fd, "res", c)
                                /\ Is(fdt, ud[g].close0, "cf0", c) /\ Is(fdt, ud[g].close1, "cf1", c)
                                /\ ud[g].resfd = -1
                           /\ slot'[g] \in Request => cli[c] \notin {"wait", "done"} /\ pool[c].st = "none"
    BY SMTT(30) DEF DataInv
  <2> QED
    BY <1>4, SMTT(30) DEF DataInv, Request
<1>7. PoolInv'
  BY DEF PoolInv
<1>8. ChanInv'
  <2>1. \A g \in Fds : Consumed(slot'[g]) = Consumed(slot[g])
    BY <1>2 DEF Consumed
  <2> QED
    BY <2>1 DEF ChanInv
<1>9. OwnerInv'
  BY <1>4, SameOwners
<1>10. ~term => LineInv'
  BY DEF LineInv, Lines
<1> QED
  BY <1>3, <1>5, <1>6, <1>7, <1>8, <1>9, <1>10

\* A line is written, or the signal thread drops hosts that are queued.
LEMMA HostsStep ==
  ASSUME Core, Signal \/ \E c \in Clients : Resolved(c)
  PROVE  Core'
<1> USE DEF Core
<1> DEFINE Req == [st : {"none", "busy", "closing"}, left : Nat, resfd : Int, closefd : Int]
<1>1. UNCHANGED <<cli, chan, fdt, slot, ud, run, dropped, file, up>>
  BY DEF Signal, Resolved, cliVars, loopVars
<1>2. pool \in [Clients -> Req]
  BY DEF Types
<1>3. /\ pool' \in [Clients -> Req]
      /\ \A d \in Clients : /\ pool'[d].st = pool[d].st /\ pool'[d].resfd = pool[d].resfd
                            /\ pool'[d].closefd = pool[d].closefd
  <2>1. CASE Signal
    <3>1. PICK n \in [Clients -> 0..1] :
            pool' = [c \in Clients |-> [pool[c] EXCEPT !.left = Min({@, n[c]})]]
      BY <2>1 DEF Signal
    <3>2. ASSUME NEW c \in Clients
          PROVE  /\ pool'[c] \in Req /\ pool'[c].st = pool[c].st
                 /\ pool'[c].resfd = pool[c].resfd /\ pool'[c].closefd = pool[c].closefd
      <4>1. {pool[c].left, n[c]} \in SUBSET Nat
        BY <1>2, SMTT(30)
      <4>2. Min({pool[c].left, n[c]}) \in Nat
        BY <4>1, SMTT(30) DEF Min
      <4> QED
        BY <1>2, <3>1, <4>2
    <3> QED
      BY <3>1, <3>2
  <2>2. ASSUME NEW c \in Clients, Resolved(c)
        PROVE  /\ pool' \in [Clients -> Req]
               /\ \A d \in Clients : /\ pool'[d].st = pool[d].st /\ pool'[d].resfd = pool[d].resfd
                                     /\ pool'[d].closefd = pool[d].closefd
    <3>1. pool' = [pool EXCEPT ![c].left = @ - 1] /\ pool[c].left > 0
      BY <2>2 DEF Resolved
    <3>2. pool[c].left - 1 \in Nat
      BY <1>2, <3>1, SMTT(30)
    <3> QED
      BY <1>2, <3>1, <3>2, SMTT(30)
  <2> QED
    BY <2>1, <2>2
<1>4. buffer' \in [Clients -> Nat]
  <2>1. buffer \in [Clients -> Nat]
    BY DEF Types
  <2>2. buffer' = buffer \/ \E c \in Clients : buffer' = [buffer EXCEPT ![c] = @ + 1]
    BY DEF Signal, Resolved
  <2> QED
    BY <2>1, <2>2, SMTT(30)
<1>5. Types'
  BY <1>1, <1>3, <1>4 DEF Types
<1>6. ConnInv'
  BY <1>1 DEF ConnInv
<1>7. DataInv'
  <2> SUFFICES ASSUME NEW g \in Fds, NEW c \in Clients, Is(fdt, g, "conn", c), slot[g] \in Request
               PROVE  pool'[c].st = "none"
    BY <1>1, SMTT(30) DEF DataInv
  <2> QED
    BY <1>3 DEF DataInv
<1>8. PoolInv'
  BY <1>1, <1>3 DEF PoolInv
<1>9. ChanInv'
  BY <1>1 DEF ChanInv
<1>10. OwnerInv'
  BY <1>1, <1>3, SameOwners
<1>11. ~term' => LineInv'
  <2> SUFFICES ASSUME ~term' PROVE LineInv'
    OBVIOUS
  <2>1. PICK c \in Clients : Resolved(c)
    BY DEF Signal
  <2>2. /\ ~term /\ pool[c].st = "busy" /\ pool[c].left > 0
        /\ pool' = [pool EXCEPT ![c].left = @ - 1] /\ buffer' = [buffer EXCEPT ![c] = @ + 1]
    BY <2>1 DEF Resolved
  <2>3. pool'[c].left = pool[c].left - 1 /\ buffer'[c] = buffer[c] + 1
    BY <1>2, <2>2 DEF Types
  <2>4. \A d \in Clients : d # c => pool'[d] = pool[d] /\ buffer'[d] = buffer[d]
    BY <1>2, <2>2 DEF Types
  <2>5. pool[c].left \in Nat /\ buffer[c] \in Nat /\ Hosts[c] \in Nat
    BY <1>2, ClidAssumption DEF Types
  <2> SUFFICES ASSUME NEW d \in Clients \ dropped
               PROVE  /\ cli[d] \in {"new", "open", "sentfd", "sent"} =>
                           file[d] = <<>> /\ buffer'[d] = 0 /\ pool'[d].st = "none"
                      /\ cli[d] \in {"wait", "done"} =>
                           /\ pool'[d].st = "busy" => file[d] = <<>> /\ buffer'[d] + pool'[d].left = Hosts[d]
                           /\ pool'[d].st # "busy" => file[d] = Lines(d)
                      /\ cli[d] = "done" => pool'[d].st = "none"
    BY <1>1 DEF LineInv, Lines
  <2>6. CASE d # c
    BY <2>2, <2>4, <2>6, SMTT(30) DEF LineInv
  <2>7. CASE d = c
    <3>1. /\ cli[c] \notin {"new", "open", "sentfd", "sent", "done"}
          /\ cli[c] = "wait" => file[c] = <<>> /\ buffer[c] + pool[c].left = Hosts[c]
      BY <2>2, <2>7 DEF LineInv
    <3>2. pool'[c].st = "busy"
      BY <1>3, <2>2
    <3> QED
      BY <2>3, <2>5, <2>7, <3>1, <3>2, SMTT(30)
  <2> QED
    BY <2>6, <2>7
<1> QED
  BY <1>1, <1>5, <1>6, <1>7, <1>8, <1>9, <1>10, <1>11

----------------------------------------------------------------------------
(* Steps that open descriptors.                                            *)

\* Descriptors that are opened were nobody's.
LEMMA Opened ==
  ASSUME Core, NEW N \in SUBSET FreeFds, \A x \in Fds \ N : fdt'[x] = fdt[x],
         NEW x, NEW k \in Kinds, NEW c \in Clients
  PROVE  /\ Is(fdt, x, k, c) => Is(fdt', x, k, c) /\ x \notin N
         /\ Is(fdt', x, k, c) /\ x \notin N => Is(fdt, x, k, c)
  BY ObjFacts DEF Is, FreeFds

\* A connection is accepted: its descriptor was the client of nobody.
LEMMA AcceptStep ==
  ASSUME Least, Core, NEW c \in Clients, Accept(c)
  PROVE  Core'
<1> USE DEF Core
<1> DEFINE f == Min(FreeFds)
<1>1. /\ cli[c] = "new" /\ run = None
      /\ fdt' = [fdt EXCEPT ![f] = Obj("conn", c)]
      /\ slot' = [slot EXCEPT ![f] = "resolver_on_readable"]
      /\ cli' = [cli EXCEPT ![c] = "open"]
      /\ UNCHANGED <<chan, ud, run, pool, dropped, term, buffer, file, up>>
  BY DEF Accept, poolVars
<1>2. f \in FreeFds /\ f \in Fds /\ fdt[f] = None
  <2>1. f \in FreeFds
    BY FreeFd DEF Accept
  <2> QED
    BY <2>1 DEF FreeFds
<1> HIDE DEF f
<1>3. /\ \A x \in Fds : fdt'[x] = IF x = f THEN Obj("conn", c) ELSE fdt[x]
      /\ \A g \in Fds : slot'[g] = IF g = f THEN "resolver_on_readable" ELSE slot[g]
      /\ \A d \in Clients : cli'[d] = IF d = c THEN "open" ELSE cli[d]
  BY <1>1, <1>2 DEF Types
<1>4. ASSUME NEW x, NEW k \in Kinds, NEW d \in Clients
      PROVE  /\ Is(fdt, x, k, d) => Is(fdt', x, k, d) /\ x # f
             /\ Is(fdt', x, k, d) => Is(fdt, x, k, d) \/ (x = f /\ k = "conn" /\ d = c)
  <2>1. {f} \in SUBSET FreeFds /\ \A y \in Fds \ {f} : fdt'[y] = fdt[y]
    BY <1>2, <1>3
  <2>2. Is(fdt', f, k, d) => k = "conn" /\ d = c
    BY <1>2, <1>3, ObjFacts, SMTT(30) DEF Is
  <2> QED
    BY <2>1, <2>2, Opened
<1>5. slot[f] = "free"
  BY <1>2, ObjFacts DEF ConnInv, Is, Kinds
<1>6. \A g \in Fds : ~Is(fdt, g, "conn", c)
  BY <1>1 DEF ConnInv
<1>7. pool[c].st = "none" /\ chan[c] = <<>>
  BY <1>1 DEF PoolInv, ChanInv
<1>8. Types'
  <2>1. fdt' \in [Fds -> [k : Kinds, c : Clients \cup {None}] \cup {None}]
    BY <1>1, <1>2 DEF Types, Obj, Kinds
  <2>2. slot' \in [Fds -> Steps] /\ cli' \in [Clients -> {"new", "open", "sentfd", "sent", "wait"} \cup Over]
    BY <1>1, <1>2 DEF Types, Steps
  <2> QED
    BY <1>1, <2>1, <2>2 DEF Types
<1>9. ConnInv'
  <2>0. /\ Is(fdt', f, "conn", c)
        /\ \A d \in Clients : Is(fdt', f, "conn", d) => d = c
        /\ \A g \in Fds \ {f}, d \in Clients : Is(fdt', g, "conn", d) <=> Is(fdt, g, "conn", d) /\ d # c
    <3>1. Is(fdt', f, "conn", c)
      BY <1>2, <1>3 DEF Is
    <3>2. "conn" \in Kinds
      BY DEF Kinds
    <3> QED
      BY ONLY <1>2, <1>4, <1>6, <3>1, <3>2
  <2>1. \A g \in Fds : slot'[g] # "free" => \E d \in Clients : Is(fdt', g, "conn", d)
    <3> SUFFICES ASSUME NEW g \in Fds \ {f}, slot'[g] # "free"
                 PROVE  \E d \in Clients : Is(fdt', g, "conn", d)
      BY <2>0
    <3>1. PICK d \in Clients : Is(fdt, g, "conn", d)
      BY <1>3 DEF ConnInv
    <3> QED
      BY <1>6, <2>0, <3>1
  <2>2. \A g \in Fds : slot'[g] = "free" => \A d \in Clients : ~Is(fdt', g, "conn", d)
    <3>1. \A g \in Fds : slot'[g] = "free" => g # f /\ slot[g] = "free"
      BY <1>3
    <3> QED
      BY <2>0, <3>1 DEF ConnInv
  <2>3. \A g, h \in Fds : \A d \in Clients : Is(fdt', g, "conn", d) /\ Is(fdt', h, "conn", d) => g = h
    BY <2>0, SMTT(30) DEF ConnInv
  <2>4. \A g \in Fds : \A d \in Clients : Is(fdt', g, "conn", d) => cli'[d] # "new"
    BY <1>3, <2>0, SMTT(30) DEF ConnInv
  <2> QED
    BY <1>1, <2>1, <2>2, <2>3, <2>4 DEF ConnInv
<1>10. DataInv'
  <2> SUFFICES ASSUME NEW g \in Fds
               PROVE  /\ slot'[g] # "on_sendclosefd" =>
                           ud[g].resfile = None /\ ud[g].close0 \in Stale /\ ud[g].close1 \in Stale
                      /\ \A d \in Clients : Is(fdt', g, "conn", d) =>
                           /\ slot'[g] = "on_readreq" => Is(fdt', ud[g].resfd, "res", d)
                           /\ slot'[g] = "on_sendclosefd" =>
                                /\ ud[g].resfile # None /\ ud[g].resfile.c = d
                                /\ Is(fdt', ud[g].resfile.fd, "res", d)
                                /\ Is(fdt', ud[g].close0, "cf0", d) /\ Is(fdt', ud[g].close1, "cf1", d)
                                /\ ud[g].resfd = -1
                           /\ slot'[g] \in Request => cli'[d] \notin {"wait", "done"} /\ pool[d].st = "none"
    BY <1>1 DEF DataInv
  <2>1. CASE g = f
    BY <1>3, <1>5, <2>1 DEF DataInv, Request
  <2>2. CASE g # f
    <3>1. slot'[g] = slot[g]
      BY <1>3, <2>2
    <3>2. \A d \in Clients : Is(fdt', g, "conn", d) => Is(fdt, g, "conn", d) /\ d # c
      BY <1>4, <1>6, <2>2 DEF Kinds
    <3> QED
      BY <1>3, <1>4, <3>1, <3>2 DEF DataInv, Kinds
  <2> QED
    BY <2>1, <2>2
<1>11. PoolInv'
  <2>1. \A d \in Clients : \A x : \A k \in {"res", "cf0"} : Is(fdt, x, k, d) => Is(fdt', x, k, d)
    BY <1>4 DEF Kinds
  <2> QED
    BY <1>1, <1>3, <1>7, <2>1 DEF PoolInv
<1>12. ChanInv'
  <2> SUFFICES ASSUME NEW d \in Clients
               PROVE  /\ cli'[d] \in {"new", "wait", "done"} => chan[d] = <<>>
                      /\ cli'[d] \in {"open", "sentfd", "sent"} =>
                           \A g \in Fds : Is(fdt', g, "conn", d) =>
                             Len(chan[d]) + Consumed(slot'[g]) = Sent(cli'[d])
    BY <1>1 DEF ChanInv
  <2>1. CASE d = c
    <3>1. \A g \in Fds : Is(fdt', g, "conn", c) => g = f
      BY <1>4, <1>6 DEF Kinds
    <3>2. Consumed(slot'[f]) = 0 /\ Sent(cli'[c]) = 0 /\ Len(chan[c]) = 0
      BY <1>2, <1>3, <1>7 DEF Consumed, Sent
    <3> QED
      BY <1>3, <2>1, <3>1, <3>2, SMTT(30)
  <2>2. CASE d # c
    <3>1. \A g \in Fds : Is(fdt', g, "conn", d) => Is(fdt, g, "conn", d) /\ g # f
      BY <1>4, <2>2 DEF Kinds
    <3> QED
      BY <1>3, <2>2, <3>1 DEF ChanInv
  <2> QED
    BY <2>1, <2>2
<1>13. OwnerInv'
  <2> SUFFICES ASSUME NEW x \in Fds, fdt'[x] # None
               PROVE  HasOwner(x, fdt[x].k)'
    BY DEF OwnerInv
  <2>1. CASE x = f
    <3>1. fdt'[x].k = "conn" /\ slot'[x] # "free"
      BY <1>2, <1>3, <2>1, SMTT(30) DEF Obj
    <3> QED
      BY <3>1 DEF HasOwner
  <2>2. CASE x # f
    <3>1. fdt'[x] = fdt[x] /\ HasOwner(x, fdt[x].k) /\ fdt[x].k \in Kinds
      BY <1>3, <2>2 DEF OwnerInv, Types
    <3>2. \A g \in Fds : slot[g] # "free" => slot'[g] = slot[g]
      BY <1>3, <1>5
    <3>3. CASE fdt[x].k = "null"
      BY <3>1, <3>3 DEF HasOwner
    <3>4. CASE fdt[x].k = "conn"
      BY <3>1, <3>2, <3>4 DEF HasOwner
    <3>5. CASE fdt[x].k = "res"
      BY <1>1, <3>1, <3>2, <3>5 DEF HasOwner
    <3>6. CASE fdt[x].k = "cf0"
      BY <1>1, <3>1, <3>2, <3>6 DEF HasOwner
    <3>7. CASE fdt[x].k = "cf1"
      BY <1>1, <3>1, <3>2, <3>7 DEF HasOwner
    <3> QED
      BY <3>1, <3>3, <3>4, <3>5, <3>6, <3>7 DEF Kinds
  <2> QED
    BY <2>1, <2>2
<1>14. ~term => LineInv'
  BY <1>1, <1>3, SMTT(30) DEF LineInv, Lines
<1> QED
  BY <1>1, <1>8, <1>9, <1>10, <1>11, <1>12, <1>13, <1>14


\* A step of the callback of client f of eds, the connection of c, leaves what
\* belongs to the others alone
Frame(f, c) ==
  /\ up' /\ term' = term /\ dropped' \ {c} = dropped \ {c}
  /\ \A g \in Fds \ {f} : slot'[g] = slot[g] /\ ud'[g] = ud[g]
  /\ \A d \in Clients \ {c} : /\ cli'[d] = cli[d] /\ chan'[d] = chan[d] /\ pool'[d] = pool[d]
                               /\ buffer'[d] = buffer[d] /\ file'[d] = file[d]
  /\ \A x : \A k \in {"conn", "res", "cf0", "cf1"} : \A d \in Clients \ {c} :
       Is(fdt', x, k, d) <=> Is(fdt, x, k, d)

\* and its own part consistent.
Mine(f, c) ==
  /\ run' # None => slot'[run'.f] = run'.call
  /\ \A x \in Fds : Is(fdt', x, "conn", c) <=> x = f
  /\ slot'[f] # "free" /\ cli'[c] # "new"
  /\ slot'[f] # "on_sendclosefd" =>
       ud'[f].resfile = None /\ ud'[f].close0 \in Stale /\ ud'[f].close1 \in Stale
  /\ slot'[f] = "on_readreq" => Is(fdt', ud'[f].resfd, "res", c)
  /\ slot'[f] = "on_sendclosefd" =>
       /\ ud'[f].resfile # None /\ ud'[f].resfile.c = c /\ Is(fdt', ud'[f].resfile.fd, "res", c)
       /\ Is(fdt', ud'[f].close0, "cf0", c) /\ Is(fdt', ud'[f].close1, "cf1", c)
       /\ ud'[f].resfd = -1
  /\ slot'[f] \in Request => cli'[c] \notin {"wait", "done"} /\ pool'[c].st = "none"
  /\ pool'[c].st = "busy" => Is(fdt', pool'[c].resfd, "res", c)
  /\ pool'[c].st # "none" => /\ Is(fdt', pool'[c].closefd, "cf0", c)
                             /\ cli'[c] \in {"wait", "gone"} /\ chan'[c] = <<>>
  /\ cli'[c] \in {"new", "wait", "done"} => chan'[c] = <<>>
  /\ cli'[c] \in {"open", "sentfd", "sent"} => Len(chan'[c]) + Consumed(slot'[f]) = Sent(cli'[c])
  /\ ~term /\ c \notin dropped' =>
              /\ cli'[c] \in {"new", "open", "sentfd", "sent"} =>
                   file'[c] = <<>> /\ buffer'[c] = 0 /\ pool'[c].st = "none"
              /\ cli'[c] \in {"wait", "done"} =>
                   /\ pool'[c].st = "busy" => file'[c] = <<>> /\ buffer'[c] + pool'[c].left = Hosts[c]
                   /\ pool'[c].st # "busy" => file'[c] = Lines(c)
              /\ cli'[c] = "done" => pool'[c].st = "none"

\* Such a step keeps the whole consistent.
LEMMA OneClient ==
  ASSUME Core, NEW f \in Fds, NEW c \in Clients, Is(fdt, f, "conn", c), Types', Frame(f, c), Mine(f, c),
         \A x \in Fds : fdt'[x] # None =>
           HasOwner(x, fdt[x].k)' \/ (fdt'[x] = fdt[x] /\ fdt[x].c # c)
  PROVE  Core'
<1> DEFINE Purposes == {"conn", "res", "cf0", "cf1"}
<1>0. Types /\ ConnInv /\ DataInv /\ PoolInv /\ ChanInv /\ OwnerInv /\ (~term => LineInv)
  BY DEF Core
<1>1. /\ up' /\ term' = term /\ dropped' \ {c} = dropped \ {c}
      /\ \A g \in Fds \ {f} : slot'[g] = slot[g] /\ ud'[g] = ud[g]
  BY DEF Frame
<1>2. \A d \in Clients \ {c} : cli'[d] = cli[d] /\ chan'[d] = chan[d] /\ pool'[d] = pool[d]
                               /\ buffer'[d] = buffer[d] /\ file'[d] = file[d]
  BY DEF Frame
<1>3. \A x : \A k \in Purposes : \A d \in Clients \ {c} : Is(fdt', x, k, d) <=> Is(fdt, x, k, d)
  BY DEF Frame
<1>4. /\ \A g \in Fds : Is(fdt', g, "conn", c) <=> g = f
      /\ slot'[f] # "free" /\ cli'[c] # "new"
      /\ run' # None => slot'[run'.f] = run'.call
  BY DEF Mine
<1>5. \A d \in Clients : Is(fdt', f, "conn", d) => d = c
  BY <1>4, ObjFacts, SMTT(30) DEF Is
<1>6. \A g \in Fds \ {f}, d \in Clients : Is(fdt', g, "conn", d) => d # c /\ Is(fdt, g, "conn", d)
  BY ONLY <1>3, <1>4
<1>7. ConnInv'
  <2>1. \A g \in Fds : slot'[g] # "free" => \E d \in Clients : Is(fdt', g, "conn", d)
    <3> SUFFICES ASSUME NEW g \in Fds \ {f}, slot'[g] # "free"
                 PROVE  \E d \in Clients : Is(fdt', g, "conn", d)
      BY <1>4
    <3>1. PICK d \in Clients : Is(fdt, g, "conn", d)
      BY <1>0, <1>1 DEF ConnInv
    <3>2. d # c
      BY <1>0, <3>1 DEF ConnInv
    <3> QED
      BY <1>3, <3>1, <3>2
  <2>2. \A g \in Fds : slot'[g] = "free" => \A d \in Clients : ~Is(fdt', g, "conn", d)
    BY <1>0, <1>1, <1>4, <1>6, SMTT(30) DEF ConnInv
  <2>3. \A g, h \in Fds : \A d \in Clients : Is(fdt', g, "conn", d) /\ Is(fdt', h, "conn", d) => g = h
    BY <1>0, <1>5, <1>6, SMTT(30) DEF ConnInv
  <2>4. \A g \in Fds : \A d \in Clients : Is(fdt', g, "conn", d) => cli'[d] # "new"
    BY <1>0, <1>2, <1>4, <1>5, <1>6, SMTT(30) DEF ConnInv
  <2> QED
    BY ONLY <1>4, <2>1, <2>2, <2>3, <2>4 DEF ConnInv
<1>8. DataInv'
  <2> DEFINE Data(g, s, u) ==
        /\ s[g] # "on_sendclosefd" =>
             u[g].resfile = None /\ u[g].close0 \in Stale /\ u[g].close1 \in Stale
        /\ \A d \in Clients : Is(fdt', g, "conn", d) =>
             /\ s[g] = "on_readreq" => Is(fdt', u[g].resfd, "res", d)
             /\ s[g] = "on_sendclosefd" =>
                  /\ u[g].resfile # None /\ u[g].resfile.c = d /\ Is(fdt', u[g].resfile.fd, "res", d)
                  /\ Is(fdt', u[g].close0, "cf0", d) /\ Is(fdt', u[g].close1, "cf1", d)
                  /\ u[g].resfd = -1
             /\ s[g] \in Request => cli'[d] \notin {"wait", "done"} /\ pool'[d].st = "none"
  <2>1. Data(f, slot', ud')
    <3>1. /\ slot'[f] # "on_sendclosefd" =>
               ud'[f].resfile = None /\ ud'[f].close0 \in Stale /\ ud'[f].close1 \in Stale
          /\ slot'[f] = "on_readreq" => Is(fdt', ud'[f].resfd, "res", c)
          /\ slot'[f] = "on_sendclosefd" =>
               /\ ud'[f].resfile # None /\ ud'[f].resfile.c = c /\ Is(fdt', ud'[f].resfile.fd, "res", c)
               /\ Is(fdt', ud'[f].close0, "cf0", c) /\ Is(fdt', ud'[f].close1, "cf1", c)
               /\ ud'[f].resfd = -1
          /\ slot'[f] \in Request => cli'[c] \notin {"wait", "done"} /\ pool'[c].st = "none"
      BY DEF Mine
    <3> QED
      BY ONLY <1>5, <3>1
  <2>2. ASSUME NEW g \in Fds \ {f} PROVE Data(g, slot', ud')
    <3>1. slot[g] # "on_sendclosefd" =>
            ud[g].resfile = None /\ ud[g].close0 \in Stale /\ ud[g].close1 \in Stale
      BY <1>0 DEF DataInv
    <3>2. ASSUME NEW d \in Clients, Is(fdt', g, "conn", d)
          PROVE  /\ slot[g] = "on_readreq" => Is(fdt', ud[g].resfd, "res", d)
                 /\ slot[g] = "on_sendclosefd" =>
                      /\ ud[g].resfile # None /\ ud[g].resfile.c = d
                      /\ Is(fdt', ud[g].resfile.fd, "res", d)
                      /\ Is(fdt', ud[g].close0, "cf0", d) /\ Is(fdt', ud[g].close1, "cf1", d)
                      /\ ud[g].resfd = -1
                 /\ slot[g] \in Request => cli'[d] \notin {"wait", "done"} /\ pool'[d].st = "none"
      <4>1. d # c /\ Is(fdt, g, "conn", d)
        BY <1>6, <3>2
      <4>2. cli'[d] = cli[d] /\ pool'[d] = pool[d]
        BY <1>2, <4>1
      <4>3. \A x : \A k \in Purposes : Is(fdt, x, k, d) => Is(fdt', x, k, d)
        BY <1>3, <4>1
      <4> QED
        BY ONLY <1>0, <4>1, <4>2, <4>3, g \in Fds, d \in Clients DEF DataInv
    <3> QED
      BY ONLY <1>1, <3>1, <3>2, g \in Fds \ {f}
  <2>3. \A g \in Fds : Data(g, slot', ud')
    BY ONLY <2>1, <2>2
  <2> QED
    BY ONLY <2>3 DEF DataInv
<1>9. PoolInv'
  <2>1. /\ pool'[c].st = "busy" => Is(fdt', pool'[c].resfd, "res", c)
        /\ pool'[c].st # "none" => /\ Is(fdt', pool'[c].closefd, "cf0", c)
                                   /\ cli'[c] \in {"wait", "gone"} /\ chan'[c] = <<>>
    BY DEF Mine
  <2>2. ASSUME NEW d \in Clients \ {c}
        PROVE  /\ pool'[d].st = "busy" => Is(fdt', pool'[d].resfd, "res", d)
               /\ pool'[d].st # "none" => /\ Is(fdt', pool'[d].closefd, "cf0", d)
                                          /\ cli'[d] \in {"wait", "gone"} /\ chan'[d] = <<>>
    BY ONLY <1>0, <1>2, <1>3, d \in Clients \ {c} DEF PoolInv
  <2> QED
    BY ONLY <2>1, <2>2 DEF PoolInv
<1>10. ChanInv'
  <2>1. /\ cli'[c] \in {"new", "wait", "done"} => chan'[c] = <<>>
        /\ cli'[c] \in {"open", "sentfd", "sent"} => Len(chan'[c]) + Consumed(slot'[f]) = Sent(cli'[c])
    BY DEF Mine
  <2>2. \A g \in Fds : Is(fdt', g, "conn", c) => g = f
    BY <1>4
  <2>3. ASSUME NEW d \in Clients \ {c}
        PROVE  /\ cli'[d] \in {"new", "wait", "done"} => chan'[d] = <<>>
               /\ cli'[d] \in {"open", "sentfd", "sent"} =>
                    \A g \in Fds : Is(fdt', g, "conn", d) =>
                      Len(chan'[d]) + Consumed(slot'[g]) = Sent(cli'[d])
    <3>1. cli'[d] = cli[d] /\ chan'[d] = chan[d]
      BY <1>2
    <3>2. \A g \in Fds : Is(fdt', g, "conn", d) => slot'[g] = slot[g] /\ Is(fdt, g, "conn", d)
      BY <1>1, <1>5, <1>6
    <3> QED
      BY ONLY <1>0, <3>1, <3>2, d \in Clients DEF ChanInv
  <2> QED
    BY ONLY <2>1, <2>2, <2>3 DEF ChanInv
<1>11. OwnerInv'
  <2> SUFFICES ASSUME NEW x \in Fds, fdt'[x] # None, fdt'[x] = fdt[x], fdt[x].c # c
               PROVE  HasOwner(x, fdt[x].k)'
    BY DEF OwnerInv
  <2>1. HasOwner(x, fdt[x].k)
    BY <1>0 DEF OwnerInv
  <2>2. fdt[x].k \in Kinds
    BY <1>0 DEF Types
  <2>3. \A k : ~Is(fdt, x, k, c)
    BY SMTT(30) DEF Is, Obj
  <2>4. /\ slot[f] = "on_readreq" => ud[f].resfd # x
        /\ slot[f] = "on_sendclosefd" => ud[f].resfile.fd # x /\ ud[f].close0 # x /\ ud[f].close1 # x
    BY <1>0, <2>3, SMTT(30) DEF DataInv
  <2>5. /\ pool[c].st = "busy" => pool[c].resfd # x
        /\ pool[c].st # "none" => pool[c].closefd # x
    BY <1>0, <2>3 DEF PoolInv
  <2>6. \A d \in Clients \ {c} : pool'[d] = pool[d]
    BY <1>2
  <2>7. CASE fdt[x].k = "null"
    BY ONLY <2>1, <2>7, fdt'[x] = fdt[x], Zenon DEF HasOwner
  <2>8. CASE fdt[x].k = "conn"
    BY ONLY <1>1, <1>4, <2>1, <2>8, x \in Fds, fdt'[x] = fdt[x], Zenon DEF HasOwner
  <2>9. CASE fdt[x].k = "res"
    <3>1. \/ \E g \in Fds \ {f} : slot[g] = "on_readreq" /\ ud[g].resfd = x
          \/ \E g \in Fds \ {f} : slot[g] = "on_sendclosefd" /\ ud[g].resfile.fd = x
          \/ \E d \in Clients \ {c} : pool[d].st = "busy" /\ pool[d].resfd = x
      BY ONLY <2>1, <2>4, <2>5, <2>9 DEF HasOwner
    <3>2. \/ \E g \in Fds : slot'[g] = "on_readreq" /\ ud'[g].resfd = x
          \/ \E g \in Fds : slot'[g] = "on_sendclosefd" /\ ud'[g].resfile.fd = x
          \/ \E d \in Clients : pool'[d].st = "busy" /\ pool'[d].resfd = x
      BY ONLY <1>1, <2>6, <3>1
    <3> QED
      BY ONLY <2>9, <3>2, fdt'[x] = fdt[x], Zenon DEF HasOwner
  <2>10. CASE fdt[x].k = "cf0"
    <3>1. \/ \E g \in Fds \ {f} : slot[g] = "on_sendclosefd" /\ ud[g].close0 = x
          \/ \E d \in Clients \ {c} : pool[d].st # "none" /\ pool[d].closefd = x
      BY ONLY <2>1, <2>4, <2>5, <2>10 DEF HasOwner
    <3> QED
      BY ONLY <1>1, <2>6, <2>10, <3>1, fdt'[x] = fdt[x], Zenon DEF HasOwner
  <2>11. CASE fdt[x].k = "cf1"
    BY ONLY <1>1, <2>1, <2>4, <2>11, fdt'[x] = fdt[x], Zenon DEF HasOwner
  <2> QED
    BY <2>2, <2>7, <2>8, <2>9, <2>10, <2>11 DEF Kinds
<1>12. ~term => LineInv'
  <2> SUFFICES ASSUME ~term PROVE LineInv'
    OBVIOUS
  <2>1. c \notin dropped' =>
        /\ cli'[c] \in {"new", "open", "sentfd", "sent"} =>
             file'[c] = <<>> /\ buffer'[c] = 0 /\ pool'[c].st = "none"
        /\ cli'[c] \in {"wait", "done"} =>
             /\ pool'[c].st = "busy" => file'[c] = <<>> /\ buffer'[c] + pool'[c].left = Hosts[c]
             /\ pool'[c].st # "busy" => file'[c] = Lines(c)
        /\ cli'[c] = "done" => pool'[c].st = "none"
    BY DEF Mine
  <2>2. LineInv
    BY <1>0
  <2>3. ASSUME NEW d \in Clients \ {c}, d \notin dropped'
        PROVE  /\ cli'[d] = cli[d] /\ pool'[d] = pool[d] /\ buffer'[d] = buffer[d] /\ file'[d] = file[d]
               /\ cli[d] \in {"new", "open", "sentfd", "sent"} =>
                    file[d] = <<>> /\ buffer[d] = 0 /\ pool[d].st = "none"
               /\ cli[d] \in {"wait", "done"} =>
                    /\ pool[d].st = "busy" => file[d] = <<>> /\ buffer[d] + pool[d].left = Hosts[d]
                    /\ pool[d].st # "busy" => file[d] = Lines(d)
               /\ cli[d] = "done" => pool[d].st = "none"
    BY <1>1, <1>2, <2>2, <2>3 DEF LineInv
  <2>4. ASSUME NEW d \in Clients \ dropped'
        PROVE  /\ cli'[d] \in {"new", "open", "sentfd", "sent"} =>
                    file'[d] = <<>> /\ buffer'[d] = 0 /\ pool'[d].st = "none"
               /\ cli'[d] \in {"wait", "done"} =>
                    /\ pool'[d].st = "busy" => file'[d] = <<>> /\ buffer'[d] + pool'[d].left = Hosts[d]
                    /\ pool'[d].st # "busy" => file'[d] = Lines(d)
               /\ cli'[d] = "done" => pool'[d].st = "none"
    BY ONLY <2>1, <2>3, d \in Clients \ dropped', Zenon
  <2> QED
    BY ONLY <2>4 DEF LineInv
<1> QED
  BY <1>1, <1>7, <1>8, <1>9, <1>10, <1>11, <1>12 DEF Core


\* The callback in progress is that of a connection.
LEMMA RunFacts ==
  ASSUME Core, run # None
  PROVE  /\ run.f \in Fds /\ slot[run.f] = run.call /\ slot[run.f] # "free"
         /\ run \in [f : Fds, call : Steps \ {"free"}]
         /\ \E c \in Clients : Is(fdt, run.f, "conn", c) /\ Peer(run.f) = c
<1>1. run \in [f : Fds, call : Steps \ {"free"}]
  BY DEF Core, Types
<1>2. run.f \in Fds /\ slot[run.f] = run.call /\ slot[run.f] # "free"
  BY <1>1 DEF Core, ConnInv
<1> QED
  BY <1>1, <1>2, OwnFacts

\* A client with something to read has no request in the pool and no result.
LEMMA ReadFacts ==
  ASSUME Core, NEW c \in Clients, chan[c] # <<>>
  PROVE  /\ cli[c] \notin {"new", "wait", "done"} /\ pool[c].st = "none"
         /\ chan[c] \in Seq({"fd", "req"}) /\ Tail(chan[c]) \in Seq({"fd", "req"})
         /\ Len(Tail(chan[c])) = Len(chan[c]) - 1 /\ Len(chan[c]) \in Nat
<1>1. cli[c] \notin {"new", "wait", "done"} /\ pool[c].st = "none"
  BY DEF Core, ChanInv, PoolInv
<1>2. chan[c] \in Seq({"fd", "req"})
  BY DEF Core, Types
<1>3. Tail(chan[c]) \in Seq({"fd", "req"}) /\ Len(Tail(chan[c])) = Len(chan[c]) - 1 /\ Len(chan[c]) \in Nat
  BY <1>2, SMTT(30)
<1> QED
  BY <1>1, <1>2, <1>3

\* The descriptor for the results is received.
LEMMA OnReadfdStep ==
  ASSUME Least, Core, Sane', OnReadfd
  PROVE  Core'
<1> USE DEF Core
<1> DEFINE f == run.f
<1>1. run # None /\ run.call = "on_readfd" /\ UNCHANGED <<cli, pool, dropped, term, up>>
  BY DEF OnReadfd, poolVars
<1>2. /\ f \in Fds /\ slot[f] = "on_readfd"
  BY <1>1, RunFacts
<1>3. PICK c \in Clients : Is(fdt, f, "conn", c) /\ Peer(f) = c
  BY <1>1, RunFacts
<1>4. \/ /\ Return /\ UNCHANGED <<chan, fdt, ud, slot, buffer, file>>
      \/ Clear(f, ud[f]) /\ UNCHANGED chan
      \/ /\ chan[c] # <<>> /\ FreeFds # {}
         /\ chan' = [chan EXCEPT ![c] = Tail(@)]
         /\ fdt' = [fdt EXCEPT ![Min(FreeFds)] = Obj("res", c)]
         /\ ud' = [ud EXCEPT ![f].resfd = Min(FreeFds)]
         /\ Call(f, "on_readreq")
         /\ UNCHANGED <<buffer, file>>
  BY <1>3 DEF OnReadfd
<1> HIDE DEF f
<1>5. CASE Return /\ UNCHANGED <<chan, fdt, ud, slot, buffer, file>>
  BY <1>1, <1>5, CallStep DEF Return
<1>6. CASE Clear(f, ud[f]) /\ UNCHANGED chan
  <2>1. slot[f] # "on_readreq" /\ ud[f].resfile = None
    BY <1>2 DEF DataInv
  <2> QED
    BY <1>1, <1>2, <1>3, <1>6, <2>1, ClearStep DEF Removed, Told
<1>7. CASE /\ chan[c] # <<>> /\ FreeFds # {}
           /\ chan' = [chan EXCEPT ![c] = Tail(@)]
           /\ fdt' = [fdt EXCEPT ![Min(FreeFds)] = Obj("res", c)]
           /\ ud' = [ud EXCEPT ![f].resfd = Min(FreeFds)]
           /\ Call(f, "on_readreq")
           /\ UNCHANGED <<buffer, file>>
  <2>0. PICK a \in FreeFds : /\ fdt' = [fdt EXCEPT ![a] = Obj("res", c)]
                             /\ ud' = [ud EXCEPT ![f].resfd = a]
    BY <1>7, FreeFd
  <2>1. a \in Fds /\ fdt[a] = None /\ a \in Int
    BY ClidAssumption, SMTT(30) DEF FreeFds, Fds
  <2>2. /\ \A x \in Fds : fdt'[x] = IF x = a THEN Obj("res", c) ELSE fdt[x]
        /\ \A g \in Fds : slot'[g] = IF g = f THEN "on_readreq" ELSE slot[g]
        /\ \A g \in Fds : g # f => ud'[g] = ud[g]
        /\ \A d \in Clients : chan'[d] = IF d = c THEN Tail(chan[d]) ELSE chan[d]
    BY <1>2, <1>7, <2>0 DEF Types, Call
  <2>3. /\ ud'[f].resfd = a /\ ud'[f].resfile = None
        /\ ud'[f].close0 \in Stale /\ ud'[f].close1 \in Stale
    <3>1. ud \in [Fds -> [resfd : Int, resfile : [fd : Int, c : Clients] \cup {None},
                          close0 : Int, close1 : Int]]
      BY DEF Types
    <3>2. /\ ud'[f].resfd = a /\ ud'[f].resfile = ud[f].resfile
          /\ ud'[f].close0 = ud[f].close0 /\ ud'[f].close1 = ud[f].close1
      BY <1>2, <2>0, <3>1
    <3> QED
      BY <1>2, <3>2 DEF DataInv
  <2>4. ASSUME NEW x, NEW k \in {"conn", "res", "cf0", "cf1"}, NEW d \in Clients
        PROVE  Is(fdt', x, k, d) <=> Is(fdt, x, k, d) \/ (x = a /\ k = "res" /\ d = c)
    <3>1. fdt[a] # Obj(k, d)
      BY <2>1, ObjFacts DEF Kinds
    <3>2. Obj("res", c) = Obj(k, d) <=> k = "res" /\ d = c
      BY ObjFacts, SMTT(30)
    <3>3. CASE x = a
      BY <2>1, <2>2, <3>1, <3>2, <3>3 DEF Is
    <3>4. CASE x # a
      BY <2>2, <3>4 DEF Is
    <3> QED
      BY <3>3, <3>4
  <2>5. Types'
    <3>1. chan' \in [Clients -> Seq({"fd", "req"})]
      BY <1>7, ReadFacts DEF Types
    <3>2. fdt' \in [Fds -> [k : Kinds, c : Clients \cup {None}] \cup {None}]
      BY <2>0, <2>1 DEF Types, Obj, Kinds
    <3>3. slot' \in [Fds -> Steps] /\ run' \in [f : Fds, call : Steps \ {"free"}]
      <4>1. "on_readreq" \in Steps \ {"free"}
        BY DEF Steps
      <4>2. run' = [f |-> f, call |-> "on_readreq"] /\ slot' = [slot EXCEPT ![f] = "on_readreq"]
        BY <1>7 DEF Call
      <4> QED
        BY <1>2, <4>1, <4>2 DEF Types
    <3>4. ud' \in [Fds -> [resfd : Int, resfile : [fd : Int, c : Clients] \cup {None},
                           close0 : Int, close1 : Int]]
      <4> DEFINE Ud == [resfd : Int, resfile : [fd : Int, c : Clients] \cup {None},
                        close0 : Int, close1 : Int]
      <4>1. ud \in [Fds -> Ud]
        BY DEF Types
      <4>2. [ud[f] EXCEPT !.resfd = a] \in Ud
        BY <1>2, <2>1, <4>1, SMTT(30)
      <4>3. ud' = [ud EXCEPT ![f] = [ud[f] EXCEPT !.resfd = a]]
        BY <2>0
      <4> QED
        BY <1>2, <4>1, <4>2, <4>3
    <3> QED
      BY <1>1, <1>7, <3>1, <3>2, <3>3, <3>4 DEF Types
  <2>6. cli[c] \notin {"new", "wait", "done"} /\ pool[c].st = "none"
    BY <1>7, ReadFacts
  <2>7. cli[c] \in {"open", "sentfd", "sent"} => Len(chan'[c]) + Consumed(slot'[f]) = Sent(cli[c])
    <3>1. Len(chan'[c]) = Len(chan[c]) - 1 /\ Len(chan[c]) \in Nat
      BY <1>7, <2>2, ReadFacts
    <3>2. Consumed(slot[f]) = 0 /\ Consumed(slot'[f]) = 1
      BY <1>2, <2>2 DEF Consumed
    <3>3. cli[c] \in {"open", "sentfd", "sent"} => Len(chan[c]) + Consumed(slot[f]) = Sent(cli[c])
      BY <1>2, <1>3 DEF ChanInv
    <3>4. Sent(cli[c]) \in Int
      BY SMTT(30) DEF Sent
    <3> QED
      BY <3>1, <3>2, <3>3, <3>4, SMTT(30)
  <2>8. ASSUME NEW x \in Fds, fdt'[x] # None
        PROVE  HasOwner(x, fdt[x].k)' \/ (fdt'[x] = fdt[x] /\ fdt[x].c # c)
    <3>1. CASE x = a
      <4>1. fdt'[x].k = "res" /\ slot'[f] = "on_readreq" /\ ud'[f].resfd = x
        BY <1>2, <2>2, <2>3, <3>1, SMTT(30) DEF Obj
      <4> QED
        BY <1>2, <4>1 DEF HasOwner
    <3>2. CASE x # a
      <4>1. fdt'[x] = fdt[x] /\ HasOwner(x, fdt[x].k) /\ fdt[x].k \in Kinds
        BY <2>2, <2>8, <3>2, SMTT(30) DEF OwnerInv, Types
      <4>2. \A g \in Fds : slot[g] \in Request => slot'[g] = slot[g] /\ ud'[g] = ud[g]
        BY <1>2, <2>2 DEF Request
      <4>3. CASE fdt[x].k = "null"
        BY <4>1, <4>3 DEF HasOwner
      <4>4. CASE fdt[x].k = "conn"
        BY <2>2, <4>1, <4>4 DEF HasOwner
      <4>5. CASE fdt[x].k = "res"
        BY <1>1, <4>1, <4>2, <4>5, SMTT(30) DEF HasOwner, Request
      <4>6. CASE fdt[x].k = "cf0"
        BY <1>1, <4>1, <4>2, <4>6, SMTT(30) DEF HasOwner, Request
      <4>7. CASE fdt[x].k = "cf1"
        BY <1>1, <4>1, <4>2, <4>7 DEF HasOwner, Request
      <4> QED
        BY <4>1, <4>3, <4>4, <4>5, <4>6, <4>7 DEF Kinds
    <3> QED
      BY <3>1, <3>2
  <2>9. \A x \in Fds : Is(fdt', x, "conn", c) <=> x = f
    BY <1>2, <1>3, <2>4, SMTT(30) DEF ConnInv
  <2>10. \A x : \A k \in {"conn", "res", "cf0", "cf1"} : \A d \in Clients \ {c} :
           Is(fdt', x, k, d) <=> Is(fdt, x, k, d)
    BY <2>4
  <2>11. Is(fdt', ud'[f].resfd, "res", c)
    BY <2>3, <2>4
  <2>12. run' # None => slot'[run'.f] = run'.call
    BY <1>2, <1>7, <2>2 DEF Call
  <2>13. ~term /\ c \notin dropped /\ cli[c] \in {"open", "sentfd", "sent"} => file[c] = <<>> /\ buffer[c] = 0
    BY DEF LineInv
  <2>14. Frame(f, c)
    BY <1>1, <1>7, <2>2, <2>10 DEF Frame
  <2>15. /\ slot'[f] = "on_readreq" /\ cli'[c] = cli[c] /\ pool'[c] = pool[c]
         /\ buffer'[c] = buffer[c] /\ file'[c] = file[c]
    BY <1>1, <1>2, <1>7, <2>2
  <2> HIDE DEF Core
  <2>16. Mine(f, c)
    <3>1. slot'[f] = "on_readreq" /\ slot'[f] \notin {"free", "on_sendclosefd"}
      BY <2>15
    <3>2. cli'[c] \notin {"new", "wait", "done"} /\ pool'[c].st = "none" /\ cli'[c] = cli[c]
      BY <2>6, <2>15
    <3>3. ~term /\ c \notin dropped' /\ cli'[c] \in {"open", "sentfd", "sent"} =>
            file'[c] = <<>> /\ buffer'[c] = 0
      BY <1>1, <2>13, <2>15
    <3> QED
      BY <2>3, <2>7, <2>9, <2>11, <2>12, <3>1, <3>2, <3>3 DEF Mine
  <2> QED
    BY <1>2, <1>3, <2>5, <2>8, <2>14, <2>16, OneClient
<1> QED
  BY <1>4, <1>5, <1>6, <1>7


\* The request is received: its results get a stream and a socket pair is made.
LEMMA OnReadreqStep ==
  ASSUME Least, Core, Sane', OnReadreq
  PROVE  Core'
<1> USE DEF Core
<1>1. run # None /\ run.call = "on_readreq" /\ UNCHANGED <<cli, pool, dropped, term, up>>
  BY DEF OnReadreq, poolVars
<1>2. PICK f \in Fds : f = run.f /\ slot[f] = "on_readreq"
  BY <1>1, RunFacts
<1>3. PICK c \in Clients : Is(fdt, f, "conn", c) /\ Peer(f) = c
  BY <1>1, <1>2, RunFacts
<1> DEFINE r == [fd |-> ud[f].resfd, c |-> c]
           u == [ud[f] EXCEPT !.resfile = r, !.resfd = -1]
           Pair(a, b) ==
             /\ chan[c] # <<>> /\ chan' = [chan EXCEPT ![c] = Tail(@)]
             /\ fdt' = [fdt EXCEPT ![a] = Obj("cf0", c), ![b] = Obj("cf1", c)]
             /\ ud' = [ud EXCEPT ![f] = [u EXCEPT !.close0 = a, !.close1 = b]]
             /\ Call(f, "on_sendclosefd")
             /\ UNCHANGED <<buffer, file>>
<1>4. \/ /\ Return /\ UNCHANGED <<chan, fdt, ud, slot, buffer, file>>
      \/ /\ Clear(f, [ud[f] EXCEPT !.resfd = -1])
         /\ chan' = chan \/ (chan[c] # <<>> /\ chan' = [chan EXCEPT ![c] = Tail(@)])
      \/ Clear(f, u) /\ chan[c] # <<>> /\ chan' = [chan EXCEPT ![c] = Tail(@)]
      \/ TwoFree /\ Pair(Min(FreeFds), Min(FreeFds \ {Min(FreeFds)}))
  BY <1>2, <1>3 DEF OnReadreq
<1>5. CASE Return /\ UNCHANGED <<chan, fdt, ud, slot, buffer, file>>
  BY <1>1, <1>5, CallStep DEF Return
<1>6. cli[c] \notin {"wait", "done"} /\ pool[c].st = "none" /\ Is(fdt, ud[f].resfd, "res", c)
  BY <1>2, <1>3 DEF DataInv, Request
<1>7. CASE /\ Clear(f, [ud[f] EXCEPT !.resfd = -1])
           /\ chan' = chan \/ (chan[c] # <<>> /\ chan' = [chan EXCEPT ![c] = Tail(@)])
  BY <1>1, <1>2, <1>3, <1>6, <1>7, ClearStep DEF Removed, Told
<1>8. CASE Clear(f, u) /\ chan[c] # <<>> /\ chan' = [chan EXCEPT ![c] = Tail(@)]
  BY <1>1, <1>2, <1>3, <1>6, <1>8, ClearStep DEF Removed, Told
<1>9. CASE TwoFree /\ Pair(Min(FreeFds), Min(FreeFds \ {Min(FreeFds)}))
  <2>0. PICK a \in FreeFds, b \in FreeFds : a # b /\ Pair(a, b)
    BY <1>9, FreeFd
  <2>1. a \in Fds /\ fdt[a] = None /\ a \in Int /\ b \in Fds /\ fdt[b] = None /\ b \in Int /\ a # b
    BY <2>0, ClidAssumption, SMTT(30) DEF FreeFds, Fds
  <2>2. /\ \A x \in Fds : fdt'[x] = IF x = a THEN Obj("cf0", c) ELSE IF x = b THEN Obj("cf1", c) ELSE fdt[x]
        /\ \A g \in Fds : slot'[g] = IF g = f THEN "on_sendclosefd" ELSE slot[g]
        /\ \A g \in Fds : g # f => ud'[g] = ud[g]
        /\ \A d \in Clients : chan'[d] = IF d = c THEN Tail(chan[d]) ELSE chan[d]
    <3>1. \A x \in Fds : fdt'[x] = IF x = a THEN Obj("cf0", c) ELSE IF x = b THEN Obj("cf1", c) ELSE fdt[x]
      BY <2>0, <2>1 DEF Types
    <3>2. \A g \in Fds : slot'[g] = IF g = f THEN "on_sendclosefd" ELSE slot[g]
      BY <2>0 DEF Types, Call
    <3>3. \A g \in Fds : g # f => ud'[g] = ud[g]
      BY <2>0 DEF Types
    <3>4. \A d \in Clients : chan'[d] = IF d = c THEN Tail(chan[d]) ELSE chan[d]
      BY <2>0 DEF Types
    <3> QED
      BY <3>1, <3>2, <3>3, <3>4
  <2> DEFINE Ud == [resfd : Int, resfile : [fd : Int, c : Clients] \cup {None}, close0 : Int, close1 : Int]
  <2>3. /\ ud' \in [Fds -> Ud]
        /\ ud'[f].resfd = -1 /\ ud'[f].resfile = r /\ ud'[f].close0 = a /\ ud'[f].close1 = b
    <3>0. ud \in [Fds -> Ud]
      BY DEF Types
    <3> HIDE DEF Core
    <3>1. ud \in [Fds -> Ud] /\ ud[f] \in Ud /\ -1 \in Int
      BY <3>0, <1>2, SMTT(30)
    <3>2. r \in [fd : Int, c : Clients]
      BY <3>1
    <3> HIDE DEF r
    <3> DEFINE w == [ud[f] EXCEPT !.resfile = r]
    <3>3. w \in Ud /\ w.resfile = r
      BY <3>1, <3>2
    <3>4. u = [w EXCEPT !.resfd = -1]
      OBVIOUS
    <3> HIDE DEF w, u
    <3>5. u \in Ud /\ u.resfile = r /\ u.resfd = -1
      BY <3>1, <3>3, <3>4
    <3> DEFINE v == [u EXCEPT !.close0 = a, !.close1 = b]
    <3>6. v \in Ud /\ v.resfd = -1 /\ v.resfile = r /\ v.close0 = a /\ v.close1 = b
      BY <2>1, <3>5
    <3>7. ud' = [ud EXCEPT ![f] = v]
      BY <2>0
    <3> HIDE DEF v
    <3> QED
      BY <3>1, <3>6, <3>7
  <2>4. ASSUME NEW x, NEW k \in {"conn", "res", "cf0", "cf1"}, NEW d \in Clients
        PROVE  Is(fdt', x, k, d) <=>
                 Is(fdt, x, k, d) \/ (x = a /\ k = "cf0" /\ d = c) \/ (x = b /\ k = "cf1" /\ d = c)
    <3>1. fdt[a] # Obj(k, d) /\ fdt[b] # Obj(k, d)
      BY <2>1, ObjFacts DEF Kinds
    <3>2. /\ Obj("cf0", c) = Obj(k, d) <=> k = "cf0" /\ d = c
          /\ Obj("cf1", c) = Obj(k, d) <=> k = "cf1" /\ d = c
      BY ObjFacts, SMTT(30)
    <3>3. CASE x = a
      BY <2>0, <2>1, <2>2, <3>1, <3>2, <3>3 DEF Is
    <3>4. CASE x = b
      BY <2>0, <2>1, <2>2, <3>1, <3>2, <3>4 DEF Is
    <3>5. CASE x # a /\ x # b
      BY <2>2, <3>5 DEF Is
    <3> QED
      BY <3>3, <3>4, <3>5
  <2>5. Types'
    <3>1. chan' \in [Clients -> Seq({"fd", "req"})]
      BY <2>0, ReadFacts DEF Types
    <3>2. fdt' \in [Fds -> [k : Kinds, c : Clients \cup {None}] \cup {None}]
      BY <2>0, <2>1 DEF Types, Obj, Kinds
    <3>3. slot' \in [Fds -> Steps] /\ run' \in [f : Fds, call : Steps \ {"free"}]
      <4>1. "on_sendclosefd" \in Steps \ {"free"}
        BY DEF Steps
      <4>2. run' = [f |-> f, call |-> "on_sendclosefd"] /\ slot' = [slot EXCEPT ![f] = "on_sendclosefd"]
        BY <2>0 DEF Call
      <4> QED
        BY <4>1, <4>2 DEF Types
    <3> QED
      BY <1>1, <2>0, <2>3, <3>1, <3>2, <3>3 DEF Types
  <2>6. cli[c] \in {"open", "sentfd", "sent"} => Len(chan'[c]) + Consumed(slot'[f]) = Sent(cli[c])
    <3>1. Len(chan'[c]) = Len(chan[c]) - 1 /\ Len(chan[c]) \in Nat
      BY <2>0, <2>2, ReadFacts
    <3>2. Consumed(slot[f]) = 1 /\ Consumed(slot'[f]) = 2
      BY <1>2, <2>2 DEF Consumed
    <3>3. cli[c] \in {"open", "sentfd", "sent"} => Len(chan[c]) + Consumed(slot[f]) = Sent(cli[c])
      BY <1>2, <1>3 DEF ChanInv
    <3>4. Sent(cli[c]) \in Int
      BY SMTT(30) DEF Sent
    <3> QED
      BY <3>1, <3>2, <3>3, <3>4, SMTT(30)
  <2>7. ASSUME NEW x \in Fds, fdt'[x] # None
        PROVE  HasOwner(x, fdt[x].k)' \/ (fdt'[x] = fdt[x] /\ fdt[x].c # c)
    <3>0. slot'[f] = "on_sendclosefd" /\ ud'[f].resfile.fd = ud[f].resfd
      BY <2>2, <2>3, SMTT(30)
    <3>1. CASE x = a
      <4>1. fdt'[x].k = "cf0"
        BY <2>2, <3>1, SMTT(30) DEF Obj
      <4> QED
        BY <2>3, <3>0, <3>1, <4>1 DEF HasOwner
    <3>2. CASE x = b
      <4>1. fdt'[x].k = "cf1"
        BY <2>1, <2>2, <3>2, SMTT(30) DEF Obj
      <4> QED
        BY <2>3, <3>0, <3>2, <4>1 DEF HasOwner
    <3>3. CASE x # a /\ x # b
      <4>1. fdt'[x] = fdt[x] /\ HasOwner(x, fdt[x].k) /\ fdt[x].k \in Kinds
        BY <2>2, <2>7, <3>3, SMTT(30) DEF OwnerInv, Types
      <4>2. \A g \in Fds : g # f => slot'[g] = slot[g] /\ ud'[g] = ud[g]
        BY <2>2
      <4>3. CASE fdt[x].k = "null"
        BY <4>1, <4>3 DEF HasOwner
      <4>4. CASE fdt[x].k = "conn"
        BY <2>2, <4>1, <4>4 DEF HasOwner
      <4>5. CASE fdt[x].k = "res"
        BY <1>1, <1>2, <3>0, <4>1, <4>2, <4>5, SMTT(30) DEF HasOwner
      <4>6. CASE fdt[x].k = "cf0"
        BY <1>1, <1>2, <4>1, <4>2, <4>6, SMTT(30) DEF HasOwner
      <4>7. CASE fdt[x].k = "cf1"
        BY <1>1, <1>2, <4>1, <4>2, <4>7, SMTT(30) DEF HasOwner
      <4> QED
        BY <4>1, <4>3, <4>4, <4>5, <4>6, <4>7 DEF Kinds
    <3> QED
      BY <3>1, <3>2, <3>3
  <2>8. \A x \in Fds : Is(fdt', x, "conn", c) <=> x = f
    BY <1>3, <2>4, SMTT(30) DEF ConnInv
  <2>9. \A x : \A k \in {"conn", "res", "cf0", "cf1"} : \A d \in Clients \ {c} :
          Is(fdt', x, k, d) <=> Is(fdt, x, k, d)
    BY <2>4
  <2>10. /\ ud'[f].resfile # None /\ ud'[f].resfile.c = c /\ Is(fdt', ud'[f].resfile.fd, "res", c)
         /\ Is(fdt', ud'[f].close0, "cf0", c) /\ Is(fdt', ud'[f].close1, "cf1", c) /\ ud'[f].resfd = -1
    <3>1. r # None /\ r.c = c /\ r.fd = ud[f].resfd
      <4>1. ud[f].resfd \in Int
        BY DEF Types
      <4> QED
        BY <4>1, ClidAssumption, SMTT(30)
    <3> HIDE DEF r
    <3> QED
      BY <1>6, <2>3, <2>4, <3>1
  <2>11. run' # None => slot'[run'.f] = run'.call
    BY <2>0, <2>2 DEF Call
  <2>12. ~term /\ c \notin dropped /\ cli[c] \in {"open", "sentfd", "sent"} => file[c] = <<>> /\ buffer[c] = 0
    BY DEF LineInv
  <2>13. UNCHANGED <<buffer, file>>
    BY <2>0
  <2>14. Frame(f, c)
    BY <1>1, <2>2, <2>9, <2>13 DEF Frame
  <2>15. /\ slot'[f] = "on_sendclosefd" /\ cli'[c] = cli[c] /\ pool'[c] = pool[c]
         /\ buffer'[c] = buffer[c] /\ file'[c] = file[c] /\ cli[c] # "new"
    BY <1>1, <1>3, <2>2, <2>13 DEF ConnInv
  <2>16. Mine(f, c)
    BY <1>1, <1>6, <2>6, <2>8, <2>10, <2>11, <2>12, <2>15 DEF Mine
  <2> HIDE DEF Core
  <2> QED
    BY <1>3, <2>5, <2>7, <2>14, <2>16, OneClient
<1> QED
  BY <1>4, <1>5, <1>7, <1>8, <1>9


----------------------------------------------------------------------------
(* The request goes to the pool and ends there.                            *)

\* Stream and descriptor go from the client data to the request.
LEMMA OnSendclosefdStep ==
  ASSUME Core, Sane', OnSendclosefd
  PROVE  Core'
<1> USE DEF Core
<1>1. run # None /\ run.call = "on_sendclosefd" /\ UNCHANGED <<chan, term, up>>
  BY DEF OnSendclosefd
<1>2. PICK f \in Fds : f = run.f /\ slot[f] = "on_sendclosefd"
  BY <1>1, RunFacts
<1>3. PICK c \in Clients : Is(fdt, f, "conn", c) /\ Peer(f) = c
  BY <1>1, <1>2, RunFacts
<1> DEFINE Req(taken) == [st |-> "busy", left |-> IF taken THEN Hosts[c] ELSE 0,
                          resfd |-> ud[f].resfile.fd, closefd |-> ud[f].close0]
           Handover(taken) ==
             /\ cli[c] = "sent"
             /\ cli' = [cli EXCEPT ![c] = "wait"]
             /\ fdt' = Close(fdt, {ud[f].close1})
             /\ ud' = [ud EXCEPT ![f] = [ud[f] EXCEPT !.close0 = -1, !.close1 = -1, !.resfile = None]]
             /\ slot' = [slot EXCEPT ![f] = "on_readfd"]
             /\ pool' = [pool EXCEPT ![c] = Req(taken)]
             /\ dropped' = IF taken THEN dropped ELSE dropped \cup {c}
             /\ Return
             /\ UNCHANGED <<buffer, file>>
<1>4. \/ Clear(f, ud[f]) /\ UNCHANGED <<cli, pool, dropped>>
      \/ /\ cli[c] = "sent" /\ cli' = [cli EXCEPT ![c] = "wait"]
         /\ Clear(f, ud[f]) /\ dropped' = dropped \cup {c} /\ UNCHANGED pool
      \/ \E taken \in {FALSE, ~term} : Handover(taken)
  BY <1>2, <1>3 DEF OnSendclosefd, poolVars
<1>5. /\ cli[c] \notin {"wait", "done"} /\ pool[c].st = "none"
      /\ ud[f].resfile # None /\ ud[f].resfile.c = c /\ Is(fdt, ud[f].resfile.fd, "res", c)
      /\ Is(fdt, ud[f].close0, "cf0", c) /\ Is(fdt, ud[f].close1, "cf1", c)
      /\ ud[f].resfd = -1
  BY <1>2, <1>3 DEF DataInv, Request
<1>6. cli[c] = "sent" => chan[c] = <<>>
  <2>1. ASSUME cli[c] = "sent" PROVE Len(chan[c]) + 2 = 2 /\ chan[c] \in Seq({"fd", "req"})
    BY <1>2, <1>3, <2>1 DEF ChanInv, Consumed, Sent, Types
  <2> QED
    BY <2>1, SMTT(30)
<1>7. CASE \/ Clear(f, ud[f]) /\ UNCHANGED <<cli, pool, dropped>>
           \/ /\ cli[c] = "sent" /\ cli' = [cli EXCEPT ![c] = "wait"]
              /\ Clear(f, ud[f]) /\ dropped' = dropped \cup {c} /\ UNCHANGED pool
  <2>1. slot[f] # "on_readreq" /\ Told(c)
    BY <1>2, <1>6, <1>7 DEF Told
  <2> QED
    BY <1>1, <1>3, <1>5, <1>7, <2>1, ClearStep DEF Removed
<1>8. ASSUME NEW taken \in {FALSE, ~term}, Handover(taken) PROVE Core'
  <2>1. /\ \A x \in Fds : fdt'[x] = IF x = ud[f].close1 THEN None ELSE fdt[x]
        /\ \A g \in Fds : slot'[g] = IF g = f THEN "on_readfd" ELSE slot[g]
        /\ \A g \in Fds : g # f => ud'[g] = ud[g]
        /\ \A d \in Clients : cli'[d] = IF d = c THEN "wait" ELSE cli[d]
    <3>1. \A x \in Fds : fdt'[x] = IF x = ud[f].close1 THEN None ELSE fdt[x]
      BY <1>8 DEF Close
    <3>2. \A g \in Fds : slot'[g] = IF g = f THEN "on_readfd" ELSE slot[g]
      BY <1>8 DEF Types
    <3>3. \A g \in Fds : g # f => ud'[g] = ud[g]
      BY <1>8 DEF Types
    <3>4. \A d \in Clients : cli'[d] = IF d = c THEN "wait" ELSE cli[d]
      BY <1>8 DEF Types
    <3> QED
      BY <3>1, <3>2, <3>3, <3>4
  <2> DEFINE Ud == [resfd : Int, resfile : [fd : Int, c : Clients] \cup {None}, close0 : Int, close1 : Int]
             Pool == [st : {"none", "busy", "closing"}, left : Nat, resfd : Int, closefd : Int]
  <2>2. ud' \in [Fds -> Ud] /\ ud'[f].resfile = None /\ ud'[f].close0 = -1 /\ ud'[f].close1 = -1
    <3>0. ud \in [Fds -> Ud]
      BY DEF Types
    <3> HIDE DEF Core
    <3>1. ud \in [Fds -> Ud] /\ ud[f] \in Ud /\ -1 \in Int
      BY <3>0, <1>2, SMTT(30)
    <3> DEFINE v == [ud[f] EXCEPT !.close0 = -1, !.close1 = -1, !.resfile = None]
    <3>2. v \in Ud /\ v.resfile = None /\ v.close0 = -1 /\ v.close1 = -1
      BY <3>1
    <3>3. ud' = [ud EXCEPT ![f] = v]
      BY <1>8
    <3> HIDE DEF v
    <3> QED
      BY <3>1, <3>2, <3>3
  <2>3. /\ pool' \in [Clients -> Pool] /\ \A d \in Clients : d # c => pool'[d] = pool[d]
        /\ pool'[c].st = "busy" /\ pool'[c].resfd = ud[f].resfile.fd /\ pool'[c].closefd = ud[f].close0
        /\ taken => pool'[c].left = Hosts[c]
    <3>1. pool \in [Clients -> Pool] /\ pool' = [pool EXCEPT ![c] = Req(taken)]
      BY <1>8 DEF Types
    <3>2. Req(taken) \in Pool
      <4>1. Hosts[c] \in Nat /\ ud[f].resfile.fd \in Int /\ ud[f].close0 \in Int
        BY <1>5, ClidAssumption, SMTT(30) DEF Is, Fds
      <4> QED
        BY <4>1
    <3>3. /\ Req(taken).st = "busy" /\ Req(taken).resfd = ud[f].resfile.fd
          /\ Req(taken).closefd = ud[f].close0 /\ (taken => Req(taken).left = Hosts[c])
      OBVIOUS
    <3> HIDE DEF Req
    <3> QED
      BY <3>1, <3>2, <3>3
  <2> HIDE DEF Req
  <2>4. ASSUME NEW x, NEW k \in {"conn", "res", "cf0", "cf1"}, NEW d \in Clients
        PROVE  Is(fdt', x, k, d) <=> Is(fdt, x, k, d) /\ ~(k = "cf1" /\ x = ud[f].close1)
    <3>1. None # Obj(k, d) /\ (fdt[ud[f].close1] = Obj(k, d) => k = "cf1")
      BY <1>5, ObjFacts, SMTT(30) DEF Kinds, Is
    <3>2. CASE x = ud[f].close1
      BY <2>1, <3>1, <3>2 DEF Is
    <3>3. CASE x # ud[f].close1
      BY <2>1, <3>3 DEF Is
    <3> QED
      BY <3>2, <3>3
  <2>5. ASSUME NEW x, NEW d \in Clients, d # c
        PROVE  Is(fdt', x, "cf1", d) <=> Is(fdt, x, "cf1", d)
    BY <1>5, <2>4, <2>5, ObjFacts, SMTT(30) DEF Is
  <2>6. Types'
    <3>1. cli' \in [Clients -> {"new", "open", "sentfd", "sent", "wait"} \cup Over]
      BY <1>8 DEF Types
    <3>2. fdt' \in [Fds -> [k : Kinds, c : Clients \cup {None}] \cup {None}]
      BY <1>8 DEF Types, Close
    <3>3. slot' \in [Fds -> Steps] /\ run' = None /\ UNCHANGED <<chan, buffer, file>>
      BY <1>1, <1>8 DEF Types, Steps, Return
    <3> QED
      BY <2>2, <2>3, <3>1, <3>2, <3>3 DEF Types
  <2>7. chan[c] = <<>>
    BY <1>6, <1>8
  <2>8. ASSUME NEW x \in Fds, fdt'[x] # None
        PROVE  HasOwner(x, fdt[x].k)'
    <3>1. x # ud[f].close1 /\ fdt'[x] = fdt[x] /\ HasOwner(x, fdt[x].k) /\ fdt[x].k \in Kinds
      BY <2>1, <2>8, SMTT(30) DEF OwnerInv, Types
    <3>2. \A g \in Fds : g # f => slot'[g] = slot[g] /\ ud'[g] = ud[g]
      BY <2>1
    <3>3. CASE fdt[x].k = "null"
      BY <3>1, <3>3 DEF HasOwner
    <3>4. CASE fdt[x].k = "conn"
      BY <2>1, <3>1, <3>4 DEF HasOwner
    <3>5. CASE fdt[x].k = "res"
      BY <1>2, <1>5, <2>3, <3>1, <3>2, <3>5, SMTT(30) DEF HasOwner
    <3>6. CASE fdt[x].k = "cf0"
      BY <1>2, <1>5, <2>3, <3>1, <3>2, <3>6, SMTT(30) DEF HasOwner
    <3>7. CASE fdt[x].k = "cf1"
      BY <1>2, <3>1, <3>2, <3>7, SMTT(30) DEF HasOwner
    <3> QED
      BY <3>1, <3>3, <3>4, <3>5, <3>6, <3>7 DEF Kinds
  <2>9. \A x \in Fds : Is(fdt', x, "conn", c) <=> x = f
    BY <1>3, <2>4, SMTT(30) DEF ConnInv
  <2>10. \A x : \A k \in {"conn", "res", "cf0", "cf1"} : \A d \in Clients \ {c} :
           Is(fdt', x, k, d) <=> Is(fdt, x, k, d)
    BY <2>4, <2>5
  <2>11. Is(fdt', pool'[c].resfd, "res", c) /\ Is(fdt', pool'[c].closefd, "cf0", c)
    BY <1>5, <2>3, <2>4
  <2>12. ~term /\ c \notin dropped' => /\ taken /\ Hosts[c] \in Nat
                                       /\ file[c] = <<>> /\ buffer[c] = 0
    BY <1>8, ClidAssumption DEF LineInv
  <2>13. run' = None /\ UNCHANGED <<buffer, file>>
    BY <1>8 DEF Return
  <2>14. Frame(f, c)
    <3>1. dropped' \ {c} = dropped \ {c}
      BY <1>8
    <3> QED
      BY <1>1, <2>1, <2>3, <2>10, <2>13, <3>1 DEF Frame
  <2>15. /\ slot'[f] = "on_readfd" /\ cli'[c] = "wait" /\ pool'[c].st = "busy" /\ chan'[c] = <<>>
         /\ buffer'[c] = buffer[c] /\ file'[c] = file[c]
    BY <1>1, <2>1, <2>3, <2>7, <2>13
  <2>16. Mine(f, c)
    <3>1. ud'[f].resfile = None /\ ud'[f].close0 \in Stale /\ ud'[f].close1 \in Stale
      BY <2>2 DEF Stale
    <3>2. slot'[f] \notin Request
      BY <2>15 DEF Request
    <3>3. ~term /\ c \notin dropped' => file'[c] = <<>> /\ buffer'[c] + pool'[c].left = Hosts[c]
      BY <2>3, <2>12, <2>15, SMTT(30)
    <3> QED
      BY <2>9, <2>11, <2>13, <2>15, <3>1, <3>2, <3>3 DEF Mine
  <2> HIDE DEF Core
  <2> QED
    BY <1>3, <2>6, <2>8, <2>14, <2>16, OneClient
<1> QED
  BY <1>4, <1>7, <1>8


\* A request closes one of its descriptors, p: that of the results when it has
\* written them, then the one the client waits for.
LEMMA ResOnDoneStep ==
  ASSUME Core, NEW c \in Clients, ResOnDone(c)
  PROVE  Core'
<1> USE DEF Core
<1> DEFINE Busy == pool[c].st = "busy"
           Pool == [st : {"none", "busy", "closing"}, left : Nat, resfd : Int, closefd : Int]
<1>1. UNCHANGED <<cli, chan, slot, ud, run, dropped, term, up>>
  BY DEF ResOnDone, cliVars, loopVars
<1>2. /\ Busy => Is(fdt, pool[c].resfd, "res", c)
      /\ pool[c].st # "none" /\ Is(fdt, pool[c].closefd, "cf0", c)
      /\ cli[c] \in {"wait", "gone"} /\ chan[c] = <<>>
  BY DEF ResOnDone, PoolInv
<1>3. PICK p \in Fds :
        /\ fdt' = Close(fdt, {p})
        /\ Busy => p = pool[c].resfd /\ Is(fdt, p, "res", c)
        /\ ~Busy => p = pool[c].closefd /\ Is(fdt, p, "cf0", c)
  BY <1>2 DEF ResOnDone, Is
<1>4. /\ pool' \in [Clients -> Pool] /\ \A d \in Clients : d # c => pool'[d] = pool[d]
      /\ Busy => pool'[c].st = "closing" /\ pool'[c].closefd = pool[c].closefd /\ pool[c].left = 0
      /\ ~Busy => pool'[c].st = "none"
  <2>1. pool \in [Clients -> Pool]
    BY DEF Types
  <2>2. CASE Busy
    BY <2>1, <2>2, SMTT(30) DEF ResOnDone
  <2>3. CASE ~Busy
    <3>1. pool' = [pool EXCEPT ![c] = NoReq]
      BY <2>3 DEF ResOnDone
    <3>2. NoReq \in Pool /\ NoReq.st = "none"
      <4>1. -1 \in Int
        BY SMTT(30)
      <4> QED
        BY <4>1 DEF NoReq
    <3> QED
      BY <2>1, <2>3, <3>1, <3>2
  <2> QED
    BY <2>2, <2>3
<1>5. /\ buffer' \in [Clients -> Nat] /\ file' \in [Clients -> Seq(Clients)]
      /\ \A d \in Clients : d # c => file'[d] = file[d] /\ buffer'[d] = buffer[d]
      /\ ~Busy => file' = file
      /\ Busy /\ file[c] = <<>> => file'[c] = [i \in 1..buffer[c] |-> c]
  <2>1. CASE Busy
    <3>1. /\ file' = [file EXCEPT ![c] = @ \o [i \in 1..buffer[c] |-> c]]
          /\ buffer' = [buffer EXCEPT ![c] = 0]
      <4>1. Fclose(c, p) /\ fdt[p] = Obj("res", c) /\ Obj("res", c) # None
        BY <1>3, <2>1, ObjFacts DEF ResOnDone, Is, Kinds
      <4>2. fdt[p].k = "res" /\ fdt[p].c = c
        BY <4>1, SMTT(30) DEF Obj
      <4> QED
        BY <4>1, <4>2 DEF Fclose
    <3>2. buffer[c] \in Nat /\ file[c] \in Seq(Clients)
      BY DEF Types
    <3>3. [i \in 1..buffer[c] |-> c] \in Seq(Clients)
      BY <3>2, SMTT(30)
    <3>4. file[c] \o [i \in 1..buffer[c] |-> c] \in Seq(Clients)
      BY <3>2, <3>3, SMTT(30)
    <3> DEFINE l == [i \in 1..buffer[c] |-> c]
    <3> HIDE DEF l
    <3>5. file[c] = <<>> => file[c] \o l = l
      BY <3>3, SMTT(30) DEF l
    <3>6. file' = [file EXCEPT ![c] = @ \o l] /\ file[c] \o l \in Seq(Clients)
      BY <3>1, <3>4 DEF l
    <3>7. file'[c] = file[c] \o l /\ file' \in [Clients -> Seq(Clients)]
          /\ \A d \in Clients : d # c => file'[d] = file[d]
      BY <3>6 DEF Types
    <3>8. file[c] = <<>> => file'[c] = [i \in 1..buffer[c] |-> c]
      BY <3>5, <3>7 DEF l
    <3>9. buffer' \in [Clients -> Nat] /\ \A d \in Clients : d # c => buffer'[d] = buffer[d]
      BY <3>1 DEF Types
    <3> QED
      BY <2>1, <3>7, <3>8, <3>9
  <2>2. CASE ~Busy
    BY <2>2 DEF ResOnDone, Types
  <2> QED
    BY <2>1, <2>2
<1> HIDE DEF Busy
<1>6. \A x \in Fds : fdt'[x] = IF x = p THEN None ELSE fdt[x]
  BY <1>3 DEF Close
<1>7. ASSUME NEW x, NEW k \in {"conn", "res", "cf0", "cf1"}, NEW d \in Clients
      PROVE  Is(fdt', x, k, d) <=> Is(fdt, x, k, d) /\ x # p
  <2>1. None # Obj(k, d)
    BY ObjFacts DEF Kinds
  <2> QED
    BY <1>6, <2>1 DEF Is
<1>8. ASSUME NEW k \in {"conn", "res", "cf0", "cf1"}, NEW d \in Clients
      PROVE  Is(fdt, p, k, d) => d = c /\ k = IF Busy THEN "res" ELSE "cf0"
  BY <1>3, ObjFacts, SMTT(30) DEF Is
<1>9. ASSUME NEW x, NEW k \in {"conn", "res", "cf0", "cf1"}, NEW d \in Clients, d # c, Is(fdt, x, k, d)
       PROVE  Is(fdt', x, k, d)
  BY <1>7, <1>8, <1>9
<1>10. Types'
  <2>1. fdt' \in [Fds -> [k : Kinds, c : Clients \cup {None}] \cup {None}]
    BY <1>3 DEF Types, Close
  <2> QED
    BY <1>1, <1>4, <1>5, <2>1 DEF Types
<1>11. \A g \in Fds : \A d \in Clients : Is(fdt', g, "conn", d) <=> Is(fdt, g, "conn", d)
  BY <1>7, <1>8
<1>12. ConnInv'
  <2>1. \A g \in Fds : slot[g] # "free" => \E d \in Clients : Is(fdt', g, "conn", d)
    BY <1>11 DEF ConnInv
  <2>2. \A g \in Fds : slot[g] = "free" => \A d \in Clients : ~Is(fdt', g, "conn", d)
    BY <1>11 DEF ConnInv
  <2>3. \A g, h \in Fds : \A d \in Clients : Is(fdt', g, "conn", d) /\ Is(fdt', h, "conn", d) => g = h
    BY <1>11 DEF ConnInv
  <2>4. \A g \in Fds : \A d \in Clients : Is(fdt', g, "conn", d) => cli[d] # "new"
    BY <1>11 DEF ConnInv
  <2> QED
    BY <1>1, <2>1, <2>2, <2>3, <2>4 DEF ConnInv
<1>13. DataInv'
  <2> SUFFICES ASSUME NEW g \in Fds, NEW d \in Clients, Is(fdt, g, "conn", d)
               PROVE  /\ slot[g] = "on_readreq" => Is(fdt', ud[g].resfd, "res", d)
                      /\ slot[g] = "on_sendclosefd" =>
                           /\ Is(fdt', ud[g].resfile.fd, "res", d)
                           /\ Is(fdt', ud[g].close0, "cf0", d) /\ Is(fdt', ud[g].close1, "cf1", d)
                      /\ slot[g] \in Request => pool'[d].st = "none"
    BY <1>1, <1>11, SMTT(30) DEF DataInv
  <2>1. CASE slot[g] \notin Request
    BY <2>1 DEF Request
  <2>2. CASE slot[g] \in Request
    <3>1. pool[d].st = "none" /\ d # c
      BY <1>2, <2>2 DEF DataInv
    <3>2. /\ slot[g] = "on_readreq" => Is(fdt, ud[g].resfd, "res", d)
          /\ slot[g] = "on_sendclosefd" =>
               /\ Is(fdt, ud[g].resfile.fd, "res", d)
               /\ Is(fdt, ud[g].close0, "cf0", d) /\ Is(fdt, ud[g].close1, "cf1", d)
      BY DEF DataInv
    <3> QED
      BY <1>4, <1>9, <3>1, <3>2
  <2> QED
    BY <2>1, <2>2
<1>14. PoolInv'
  <2> SUFFICES ASSUME NEW d \in Clients
               PROVE  /\ pool'[d].st = "busy" => Is(fdt', pool'[d].resfd, "res", d)
                      /\ pool'[d].st # "none" => /\ Is(fdt', pool'[d].closefd, "cf0", d)
                                                 /\ cli[d] \in {"wait", "gone"} /\ chan[d] = <<>>
    BY <1>1 DEF PoolInv, Is, Obj
  <2>1. CASE d = c
    <3>1. CASE Busy
      <4>1. pool[c].closefd # p
        BY <1>2, <1>8, <3>1
      <4> QED
        BY <1>2, <1>4, <1>7, <2>1, <3>1, <4>1
    <3>2. CASE ~Busy
      BY <1>4, <2>1, <3>2
    <3> QED
      BY <3>1, <3>2
  <2>2. CASE d # c
    <3>1. /\ pool[d].st = "busy" => Is(fdt, pool[d].resfd, "res", d)
          /\ pool[d].st # "none" => /\ Is(fdt, pool[d].closefd, "cf0", d)
                                    /\ cli[d] \in {"wait", "gone"} /\ chan[d] = <<>>
      BY DEF PoolInv
    <3> QED
      BY <1>4, <1>9, <2>2, <3>1
  <2> QED
    BY <2>1, <2>2
<1>15. ChanInv'
  BY <1>1, <1>11 DEF ChanInv
<1>16. OwnerInv'
  <2> SUFFICES ASSUME NEW x \in Fds, fdt'[x] # None
               PROVE  HasOwner(x, fdt[x].k)'
    BY DEF OwnerInv
  <2>1. x # p /\ fdt'[x] = fdt[x] /\ HasOwner(x, fdt[x].k) /\ fdt[x].k \in Kinds
    BY <1>6 DEF OwnerInv, Types
  <2>2. Busy => \A d \in Clients : pool[d].st # "none" =>
                  pool'[d].st # "none" /\ pool'[d].closefd = pool[d].closefd
    BY <1>4
  <2>3. \A d \in Clients : pool[d].st = "busy" /\ pool[d].resfd = x =>
                  pool'[d].st = "busy" /\ pool'[d].resfd = x
    BY <1>3, <1>4, <2>1 DEF Busy
  <2>4. \A d \in Clients : pool[d].st # "none" /\ pool[d].closefd = x =>
                  pool'[d].st # "none" /\ pool'[d].closefd = x
    BY <1>3, <1>4, <2>1, <2>2
  <2>5. CASE fdt[x].k = "null"
    BY <2>1, <2>5 DEF HasOwner
  <2>6. CASE fdt[x].k = "conn"
    BY <1>1, <2>1, <2>6 DEF HasOwner
  <2>7. CASE fdt[x].k = "res"
    BY <1>1, <2>1, <2>3, <2>7 DEF HasOwner
  <2>8. CASE fdt[x].k = "cf0"
    BY <1>1, <2>1, <2>4, <2>8 DEF HasOwner
  <2>9. CASE fdt[x].k = "cf1"
    BY <1>1, <2>1, <2>9 DEF HasOwner
  <2> QED
    BY <2>1, <2>5, <2>6, <2>7, <2>8, <2>9 DEF Kinds
<1>17. ~term => LineInv'
  <2> SUFFICES ASSUME ~term, NEW d \in Clients \ dropped
               PROVE  /\ cli[d] \in {"new", "open", "sentfd", "sent"} =>
                           file'[d] = <<>> /\ buffer'[d] = 0 /\ pool'[d].st = "none"
                      /\ cli[d] \in {"wait", "done"} =>
                           /\ pool'[d].st = "busy" => file'[d] = <<>> /\ buffer'[d] + pool'[d].left = Hosts[d]
                           /\ pool'[d].st # "busy" => file'[d] = Lines(d)
                      /\ cli[d] = "done" => pool'[d].st = "none"
    BY <1>1 DEF LineInv, Lines
  <2>1. CASE d # c
    BY <1>4, <1>5, <2>1 DEF LineInv
  <2>2. CASE d = c
    <3>1. cli[c] \in {"wait", "gone"} /\ pool'[c].st # "busy"
      BY <1>2, <1>4
    <3>2. ASSUME cli[c] = "wait", Busy PROVE file'[c] = Lines(c)
      <4>1. file[c] = <<>> /\ buffer[c] + pool[c].left = Hosts[c] /\ pool[c].left = 0 /\ buffer[c] \in Nat
        BY <1>4, <2>2, <3>2 DEF LineInv, Busy, Types
      <4>2. buffer[c] = Hosts[c]
        BY <4>1, SMTT(30)
      <4> QED
        BY <1>5, <3>2, <4>1, <4>2 DEF Lines, Busy
    <3>3. ASSUME cli[c] = "wait", ~Busy PROVE file'[c] = Lines(c)
      BY <1>5, <2>2, <3>3 DEF LineInv, Busy
    <3> QED
      BY <2>2, <3>1, <3>2, <3>3
  <2> QED
    BY <2>1, <2>2
<1> QED
  BY <1>1, <1>10, <1>12, <1>13, <1>14, <1>15, <1>16, <1>17


----------------------------------------------------------------------------
(* Descriptor 0, and every step.                                           *)

\* What a step does to the table of descriptors: the null device is never
\* opened again.
LEMMA TableStep ==
  ASSUME Table, [Next]_vars
  PROVE  Table' /\ (Sane' => Sane)
<1> DEFINE New(o) == \E k \in Kinds \ {"null"} : \E c : o = Obj(k, c)
<1>1. \/ fdt' = fdt
      \/ \E F : fdt' = Close(fdt, F)
      \/ \E a, o : New(o) /\ fdt' = [fdt EXCEPT ![a] = o]
      \/ \E a, b, o, q : New(o) /\ New(q) /\ fdt' = [fdt EXCEPT ![a] = o, ![b] = q]
  <2>1. CASE UNCHANGED vars
    BY <2>1 DEF vars
  <2>2. ASSUME NEW c \in Clients, Accept(c)
        PROVE  \E a, o : New(o) /\ fdt' = [fdt EXCEPT ![a] = o]
    <3>1. fdt' = [fdt EXCEPT ![Min(FreeFds)] = Obj("conn", c)] /\ New(Obj("conn", c))
      BY <2>2 DEF Accept, Kinds
    <3> QED
      BY <3>1
  <2>3. ASSUME NEW f \in Fds, Event(f) PROVE fdt' = fdt
    BY <2>3 DEF Event
  <2>4. ASSUME NEW f, NEW u, Clear(f, u) PROVE \E F : fdt' = Close(fdt, F)
    BY <2>4 DEF Clear
  <2>5. CASE OnReadfd
    <3>1. CASE fdt' = fdt \/ Clear(run.f, ud[run.f])
      BY <2>4, <3>1
    <3>2. CASE fdt' = [fdt EXCEPT ![Min(FreeFds)] = Obj("res", Peer(run.f))]
      <4>1. New(Obj("res", Peer(run.f)))
        BY DEF Kinds
      <4> QED
        BY <3>2, <4>1
    <3> QED
      BY <2>5, <3>1, <3>2 DEF OnReadfd
  <2>6. CASE OnReadreq
    <3> DEFINE a == Min(FreeFds)
               b == Min(FreeFds \ {a})
               o == Obj("cf0", Peer(run.f))
               q == Obj("cf1", Peer(run.f))
    <3>1. CASE fdt' = fdt \/ \E u : Clear(run.f, u)
      BY <2>4, <3>1
    <3>2. CASE fdt' = [fdt EXCEPT ![a] = o, ![b] = q]
      <4>1. New(o) /\ New(q)
        BY DEF Kinds
      <4> QED
        BY <3>2, <4>1
    <3> QED
      BY <2>6, <3>1, <3>2 DEF OnReadreq
  <2>7. CASE OnSendclosefd
    <3>1. (\E u : Clear(run.f, u)) \/ (\E F : fdt' = Close(fdt, F))
      BY <2>7 DEF OnSendclosefd
    <3> QED
      BY <2>4, <3>1
  <2>8. CASE ResolverOnReadable
    BY <2>4, <2>8 DEF ResolverOnReadable
  <2>9. CASE Exit
    <3>1. fdt' = Close(fdt, Fds)
      BY <2>9 DEF Exit, Close
    <3> QED
      BY <3>1
  <2>10. ASSUME NEW c \in Clients, ClientSend(c) \/ ClientRecv(c) \/ ClientHangup(c) \/ Resolved(c)
         PROVE  fdt' = fdt
    BY <2>10 DEF ClientSend, ClientRecv, ClientHangup, Resolved
  <2>11. ASSUME NEW c \in Clients, ResOnDone(c)
         PROVE  \E F : fdt' = Close(fdt, F)
    BY <2>11 DEF ResOnDone
  <2>12. CASE Signal \/ Finished
    BY <2>12 DEF Signal, Finished, vars
  <2> QED
    BY <2>1, <2>2, <2>3, <2>5, <2>6, <2>7, <2>8, <2>9, <2>10, <2>11, <2>12
       DEF Next, Loop, Callback, Program, Threads
<1>2. \A o : New(o) => o # Null
  BY ObjFacts DEF Null
<1>3. 0 \in Fds /\ None # Null
  BY ClidAssumption, ObjFacts, SMTT(30) DEF Fds, Null, Kinds
<1> HIDE DEF New
<1>4. CASE fdt' = fdt
  BY <1>4 DEF Table, Sane
<1>5. ASSUME NEW F, fdt' = Close(fdt, F) PROVE Table' /\ (Sane' => Sane)
  BY <1>3, <1>5 DEF Close, Table, Sane
<1>6. ASSUME NEW a, NEW o, New(o), fdt' = [fdt EXCEPT ![a] = o] PROVE Table' /\ (Sane' => Sane)
  <2>1. fdt' = [x \in Fds |-> IF x = a THEN o ELSE fdt[x]]
    BY <1>6 DEF Table
  <2> QED
    BY <1>2, <1>3, <1>6, <2>1 DEF Table, Sane
<1>7. ASSUME NEW a, NEW b, NEW o, NEW q, New(o), New(q), fdt' = [fdt EXCEPT ![a] = o, ![b] = q]
      PROVE  Table' /\ (Sane' => Sane)
  <2>1. fdt' = [x \in Fds |-> IF x = b THEN q ELSE IF x = a THEN o ELSE fdt[x]]
    BY <1>7 DEF Table
  <2> QED
    BY <1>2, <1>3, <1>7, <2>1 DEF Table, Sane
<1> QED
  BY <1>1, <1>4, <1>5, <1>6, <1>7

\* Every step keeps the tables consistent while descriptor 0 is the null device.
LEMMA CoreStep ==
  ASSUME Least, Core, Sane', [Next]_vars
  PROVE  Core'
<1>1. CASE UNCHANGED vars \/ Finished
  <2>1. UNCHANGED <<cli, chan, fdt, slot, ud, run, pool, dropped, term, buffer, file, up>>
    BY <1>1 DEF Finished, vars, cliVars, loopVars, poolVars
  <2>2. run' \in {None} \cup [f : Fds, call : Steps \ {"free"}] /\ (run' # None => slot'[run'.f] = run'.call)
    BY <2>1 DEF Core, Types, ConnInv
  <2> QED
    BY <2>1, <2>2, CallStep
<1>2. ASSUME NEW f \in Fds, Event(f) PROVE Core'
  <2>1. /\ UNCHANGED <<cli, chan, fdt, slot, ud, pool, dropped, term, buffer, file, up>>
        /\ slot[f] # "free" /\ run' = [f |-> f, call |-> slot[f]]
    BY <1>2 DEF Event, cliVars, poolVars
  <2>2. slot[f] \in Steps \ {"free"}
    BY <2>1 DEF Core, Types
  <2>3. run' \in [f : Fds, call : Steps \ {"free"}] /\ run'.f = f /\ run'.call = slot[f]
    BY <2>1, <2>2
  <2> QED
    BY <2>1, <2>3, CallStep
<1>3. CASE ResolverOnReadable
  <2>1. PICK f \in Fds, c \in Clients :
          f = run.f /\ slot[f] = "resolver_on_readable" /\ Is(fdt, f, "conn", c)
    BY <1>3, RunFacts DEF ResolverOnReadable
  <2>2. /\ UNCHANGED <<cli, chan, pool, dropped, term, up>>
        /\ \/ /\ slot' = [slot EXCEPT ![f] = "on_readfd"] /\ run' = [f |-> f, call |-> "on_readfd"]
              /\ UNCHANGED <<fdt, ud, buffer, file>>
           \/ Clear(f, ud[f])
    BY <1>3, <2>1 DEF ResolverOnReadable, Call, cliVars, poolVars
  <2>3. CASE Clear(f, ud[f])
    <3>1. slot[f] # "on_readreq" /\ ud[f].resfile = None
      BY <2>1 DEF Core, DataInv
    <3> QED
      BY <2>1, <2>2, <2>3, <3>1, ClearStep DEF Removed, Told
  <2>4. CASE /\ slot' = [slot EXCEPT ![f] = "on_readfd"] /\ run' = [f |-> f, call |-> "on_readfd"]
             /\ UNCHANGED <<fdt, ud, buffer, file>>
    <3>1. run' \in [f : Fds, call : Steps \ {"free"}] /\ run'.f = f /\ run'.call = "on_readfd"
      BY <2>4 DEF Steps
    <3>2. slot'[f] = "on_readfd"
      BY <2>4 DEF Core, Types
    <3> QED
      BY <2>1, <2>2, <2>4, <3>1, <3>2, CallStep
  <2> QED
    BY <2>2, <2>3, <2>4
<1>4. CASE Exit
  BY <1>4, ClidAssumption, ObjFacts, SMTT(30) DEF Exit, Sane, Null, Kinds, Fds
<1>5. CASE OnReadfd \/ OnReadreq \/ OnSendclosefd
  BY <1>5, OnReadfdStep, OnReadreqStep, OnSendclosefdStep
<1>6. ASSUME NEW c \in Clients,
             Accept(c) \/ ClientSend(c) \/ ClientRecv(c) \/ ClientHangup(c) \/ Resolved(c) \/ ResOnDone(c)
      PROVE  Core'
  BY <1>6, AcceptStep, ClientStep, HostsStep, ResOnDoneStep
<1>7. CASE Signal
  BY <1>7, HostsStep
<1> QED
  BY <1>1, <1>2, <1>3, <1>4, <1>5, <1>6, <1>7 DEF Next, Loop, Callback, Program, Threads


\* The invariant holds in the beginning.
LEMMA InitIInv == Init => IInv
<1> SUFFICES ASSUME Init PROVE IInv
  OBVIOUS
<1>1. 0 \in Fds /\ Fds \subseteq Int /\ -1 \in Int /\ 0 \in Nat /\ None # Null /\ Null.k = "null"
  BY ClidAssumption, ObjFacts, SMTT(30) DEF Fds, Null, Obj, Kinds
<1>2. /\ \A x \in Fds : fdt[x] = IF x = 0 THEN Null ELSE None
      /\ \A x, c : \A k \in Kinds \ {"null"} : c \in Clients => ~Is(fdt, x, k, c)
  <2>1. \A x \in Fds : fdt[x] = IF x = 0 THEN Null ELSE None
    BY DEF Init, Null
  <2> QED
    BY <2>1, ObjFacts, SMTT(30) DEF Is, Null
<1>3. Table /\ Sane /\ up
  BY <1>1 DEF Init, Table, Sane, Null
<1>4. Types
  <2>1. Null \in [k : Kinds, c : Clients \cup {None}]
    BY DEF Null, Obj, Kinds
  <2>2. fdt \in [Fds -> [k : Kinds, c : Clients \cup {None}] \cup {None}]
    BY <2>1 DEF Init, Null
  <2>3. UserData \in [resfd : Int, resfile : [fd : Int, c : Clients] \cup {None}, close0 : Int, close1 : Int]
    BY <1>1 DEF UserData
  <2>4. NoReq \in [st : {"none", "busy", "closing"}, left : Nat, resfd : Int, closefd : Int]
    BY <1>1 DEF NoReq
  <2>5. <<>> \in Seq({"fd", "req"}) /\ <<>> \in Seq(Clients)
    BY SMTT(30)
  <2> QED
    BY <1>1, <2>2, <2>3, <2>4, <2>5 DEF Init, Types, Steps
<1>5. ConnInv
  BY <1>2 DEF Init, ConnInv, Kinds
<1>6. DataInv
  BY <1>2 DEF Init, DataInv, UserData, Stale, Kinds
<1>7. PoolInv /\ ChanInv
  BY DEF Init, PoolInv, ChanInv, NoReq
<1>8. OwnerInv
  BY <1>1, <1>2 DEF OwnerInv, HasOwner
<1>9. LineInv
  BY DEF Init, LineInv, NoReq
<1> QED
  BY <1>3, <1>4, <1>5, <1>6, <1>7, <1>8, <1>9 DEF IInv, Core

\* Every step preserves it.
LEMMA NextIInv == Least /\ IInv /\ [Next]_vars => IInv'
<1> SUFFICES ASSUME Least, IInv, [Next]_vars PROVE IInv'
  OBVIOUS
<1>1. Table' /\ (Sane' => Sane)
  BY TableStep DEF IInv
<1>2. Sane' => Core'
  BY <1>1, CoreStep DEF IInv
<1> QED
  BY <1>1, <1>2 DEF IInv


----------------------------------------------------------------------------
(* The properties.                                                         *)

\* In a consistent state, every open descriptor has one owner.
LEMMA OneOwner ==
  ASSUME Core, NEW f \in Fds, f # 0
  PROVE  OwnedOnce(f)
<1> USE DEF Core
<1> DEFINE Conn == {g \in InUse : g = f}
           Res == {g \in InUse : ud[g].resfd = f /\ slot[g] = "on_readreq"}
           Stream == {g \in InUse : ud[g].resfile # None /\ ud[g].resfile.fd = f}
           Pair == {g \in InUse : slot[g] = "on_sendclosefd" /\ f \in {ud[g].close0, ud[g].close1}}
           PoolRes == {c \in Clients : pool[c].st = "busy" /\ pool[c].resfd = f}
           PoolEnd == {c \in Clients : pool[c].st # "none" /\ pool[c].closefd = f}
<1>1. Owners(f) = Claims("conn", Conn) \cup Claims("resfd", Res) \cup Claims("resfile", Stream)
                  \cup Claims("closefds", Pair) \cup Claims("result", PoolRes)
                  \cup Claims("done", PoolEnd)
  BY DEF Owners
<1>2. ASSUME NEW g \in InUse
      PROVE  \E c \in Clients :
               /\ Is(fdt, g, "conn", c)
               /\ g \in Conn => Is(fdt, f, "conn", c)
               /\ g \in Res => Is(fdt, f, "res", c) /\ slot[g] = "on_readreq"
               /\ g \in Stream => Is(fdt, f, "res", c) /\ slot[g] = "on_sendclosefd"
               /\ g \in Pair => /\ slot[g] = "on_sendclosefd"
                                /\ Is(fdt, f, "cf0", c) \/ Is(fdt, f, "cf1", c)
  <2>1. PICK c \in Clients : Is(fdt, g, "conn", c)
    BY DEF ConnInv, InUse
  <2>2. g \in Fds
    BY DEF InUse
  <2>3. g \in Stream => slot[g] = "on_sendclosefd"
    BY <2>2 DEF DataInv
  <2> QED
    BY <2>1, <2>2, <2>3, SMTT(30) DEF DataInv
<1>3. ASSUME NEW c \in Clients
      PROVE  /\ c \in PoolRes => Is(fdt, f, "res", c) /\ pool[c].st # "none"
             /\ c \in PoolEnd => Is(fdt, f, "cf0", c) /\ pool[c].st # "none"
  BY DEF PoolInv
<1>4. CASE fdt[f] = None
  <2>1. \A k \in Kinds, c \in Clients : ~Is(fdt, f, k, c)
    BY <1>4, ObjFacts DEF Is
  <2>2. Conn = {} /\ Res = {} /\ Stream = {} /\ Pair = {} /\ PoolRes = {} /\ PoolEnd = {}
    BY <1>2, <1>3, <2>1 DEF Kinds
  <2> HIDE DEF Conn, Res, Stream, Pair, PoolRes, PoolEnd
  <2> QED
    BY <1>1, <1>4, <2>2, SMTT(30) DEF Claims, OwnedOnce
<1>5. CASE fdt[f] # None
  <2>1. PICK k, d : k \in Kinds /\ fdt[f] = Obj(k, d)
    <3>1. fdt[f] \in [k : Kinds, c : Clients \cup {None}]
      BY <1>5 DEF Types
    <3> QED
      BY <3>1 DEF Obj
  <2>2. HasOwner(f, k) /\ k # "null"
    <3>1. fdt[f].k = k
      BY <2>1, SMTT(30) DEF Obj
    <3>2. HasOwner(f, k)
      BY <1>5, <3>1 DEF OwnerInv
    <3> QED
      BY <3>2 DEF HasOwner
  <2>3. ASSUME NEW l, NEW c \in Clients, Is(fdt, f, l, c) PROVE l = k /\ c = d
    <3>1. Obj(l, c) = Obj(k, d)
      BY <2>1, <2>3 DEF Is
    <3> QED
      BY ONLY <3>1, ObjFacts
  <2>4. /\ k # "conn" => Conn = {}
        /\ k # "res" => Res = {} /\ Stream = {} /\ PoolRes = {}
        /\ k \notin {"cf0", "cf1"} => Pair = {}
        /\ k # "cf0" => PoolEnd = {}
    BY <1>2, <1>3, <2>3
  <2>5. \A g, h \in Res \cup Stream \cup Pair : g = h
    <3>1. ASSUME NEW g \in Res \cup Stream \cup Pair PROVE g \in Fds /\ d \in Clients /\ Is(fdt, g, "conn", d)
      <4>1. g \in InUse /\ g \in Fds
        BY DEF InUse
      <4> QED
        BY <1>2, <2>3, <4>1
    <3> QED
      BY <3>1 DEF ConnInv
  <2>6. Res # {} \/ Stream # {} \/ Pair # {} => PoolRes = {} /\ PoolEnd = {}
    <3>1. ASSUME NEW g \in Res \cup Stream \cup Pair PROVE d \in Clients /\ pool[d].st = "none"
      <4>1. g \in InUse /\ g \in Fds
        BY SMTT(30) DEF InUse
      <4>2. d \in Clients /\ Is(fdt, g, "conn", d) /\ slot[g] \in Request
        BY <1>2, <2>3, <4>1 DEF Request
      <4> QED
        BY <4>1, <4>2 DEF DataInv
    <3>2. ASSUME NEW c \in PoolRes \cup PoolEnd PROVE c = d /\ pool[d].st # "none"
      BY <1>3, <2>3
    <3> QED
      BY <3>1, <3>2
  <2>7. /\ \A x, y \in PoolRes : x = y
        /\ \A x, y \in PoolEnd : x = y
        /\ Res = {} \/ Stream = {}
    <3>1. Res = {} \/ Stream = {}
      BY <1>2, <2>5, SMTT(30)
    <3> QED
      BY <1>3, <2>3, <3>1
  <2>8. /\ k = "conn" => f \in Conn
        /\ k = "res" => Res # {} \/ Stream # {} \/ PoolRes # {}
        /\ k = "cf0" => Pair # {} \/ PoolEnd # {}
        /\ k = "cf1" => Pair # {}
    <3>1. k = "conn" => f \in Conn
      BY <2>2 DEF HasOwner, InUse
    <3>2. \A g \in Fds : slot[g] = "on_sendclosefd" => ud[g].resfile # None
      BY DEF DataInv, ConnInv
    <3>3. k = "res" => Res # {} \/ Stream # {} \/ PoolRes # {}
      BY <2>2, <3>2 DEF HasOwner, InUse
    <3>4. k = "cf0" => Pair # {} \/ PoolEnd # {}
      BY <2>2 DEF HasOwner, InUse
    <3>5. k = "cf1" => Pair # {}
      BY <2>2 DEF HasOwner, InUse
    <3> QED
      BY <3>1, <3>3, <3>4, <3>5
  <2>9. \A g \in Conn : g = f
    OBVIOUS
  <2> HIDE DEF Conn, Res, Stream, Pair, PoolRes, PoolEnd
  <2>10. ASSUME NEW o, Owners(f) = {o} PROVE OwnedOnce(f)
    BY <1>5, <2>10 DEF OwnedOnce
  <2>11. CASE k = "conn"
    <3>1. Conn = {f} /\ Res = {} /\ Stream = {} /\ Pair = {} /\ PoolRes = {} /\ PoolEnd = {}
      BY <2>4, <2>8, <2>9, <2>11
    <3>2. Owners(f) = {<<"conn", f>>}
      BY <1>1, <3>1 DEF Claims
    <3> QED
      BY <2>10, <3>2
  <2>12. CASE k = "res"
    <3>1. Conn = {} /\ Pair = {} /\ PoolEnd = {}
      BY <2>4, <2>12
    <3>2. ASSUME NEW g \in Res PROVE OwnedOnce(f)
      <4>1. Res = {g} /\ Stream = {} /\ PoolRes = {}
        BY <2>5, <2>6, <2>7, <3>2, SMTT(30)
      <4>2. Owners(f) = {<<"resfd", g>>}
        BY <1>1, <3>1, <4>1 DEF Claims
      <4> QED
        BY <2>10, <4>2
    <3>3. ASSUME NEW g \in Stream PROVE OwnedOnce(f)
      <4>1. Stream = {g} /\ Res = {} /\ PoolRes = {}
        BY <2>5, <2>6, <2>7, <3>3, SMTT(30)
      <4>2. Owners(f) = {<<"resfile", g>>}
        BY <1>1, <3>1, <4>1 DEF Claims
      <4> QED
        BY <2>10, <4>2
    <3>4. ASSUME Res = {}, Stream = {}, NEW c \in PoolRes PROVE OwnedOnce(f)
      <4>1. PoolRes = {c}
        BY <2>7, <3>4
      <4>2. Owners(f) = {<<"result", c>>}
        BY <1>1, <3>1, <3>4, <4>1 DEF Claims
      <4> QED
        BY <2>10, <4>2
    <3> QED
      BY <2>8, <2>12, <3>2, <3>3, <3>4
  <2>13. CASE k \in {"cf0", "cf1"}
    <3>1. Conn = {} /\ Res = {} /\ Stream = {} /\ PoolRes = {}
      BY <2>4, <2>13
    <3>2. ASSUME NEW g \in Pair PROVE OwnedOnce(f)
      <4>1. Pair = {g} /\ PoolEnd = {}
        BY <2>5, <2>6, <3>2, SMTT(30)
      <4>2. Owners(f) = {<<"closefds", g>>}
        BY <1>1, <3>1, <4>1 DEF Claims
      <4> QED
        BY <2>10, <4>2
    <3>3. ASSUME Pair = {}, NEW c \in PoolEnd PROVE OwnedOnce(f)
      <4>1. PoolEnd = {c}
        BY <2>7, <3>3
      <4>2. Owners(f) = {<<"done", c>>}
        BY <1>1, <3>1, <3>3, <4>1 DEF Claims
      <4> QED
        BY <2>10, <4>2
    <3> QED
      BY <2>8, <2>13, <3>2, <3>3
  <2> QED
    BY <2>1, <2>2, <2>11, <2>12, <2>13 DEF Kinds
<1> QED
  BY <1>4, <1>5

\* The natural numbers are well-founded.
INSTANCE WellFoundedInduction

\* Every set of descriptors has a least element.
LEMMA LeastHolds == Least
<1> SUFFICES ASSUME NEW S \in SUBSET Nat, S # {} PROVE Min(S) \in S
  BY DEF Least
<1> DEFINE R == OpToRel(<, Nat)
<1>1. \A x, y \in Nat : y < x => <<y, x>> \in R
  BY DEF OpToRel
<1>2. PICK x \in S : \A y \in S : ~ (<<y, x>> \in R)
  <2>1. IsWellFoundedOn(R, Nat)
    BY NatLessThanWellFounded
  <2> HIDE DEF R
  <2> QED
    BY <2>1, WFMin
<1> HIDE DEF R
<1>3. ASSUME NEW y \in S PROVE x <= y
  <2>1. ~(y < x)
    BY <1>1, <1>2
  <2> QED
    BY <2>1, SMTT(30)
<1> QED
  BY <1>3 DEF Min

\* The consistent states are those of every behaviour of clid, as long as
\* descriptor 0 is the null device.
THEOREM DescriptorInvariant == Spec => []IInv
<1>1. Init => IInv
  BY InitIInv
<1>2. IInv /\ [Next]_vars => IInv'
  BY NextIInv, LeastHolds
<1> QED
  BY <1>1, <1>2, PTL DEF Spec

\* While descriptor 0 is the null device, every open descriptor has exactly one
\* owner that will close it, for any number of clients, hosts and descriptors:
\* closing descriptor 0 is the only way to come to close a descriptor twice.
THEOREM OwnedWhileNull == Spec => []DescriptorsOwned
<1>1. IInv => DescriptorsOwned
  BY OneOwner DEF IInv, Sane, Null, NullKept, DescriptorsOwned
<1> QED
  BY <1>1, DescriptorInvariant, PTL

\* While descriptor 0 is the null device, a client that sees the end of the
\* descriptor it was sent has a line for each of its hosts in its file, and none
\* of another request, unless clid was told to stop or had no memory.
THEOREM CompleteWhileNullHolds == Spec => []CompleteWhileNull
<1>1. IInv => CompleteWhileNull
  BY DEF IInv, Sane, Null, NullKept, Core, LineInv, Lines, DoneMeansComplete, CompleteWhileNull
<1> QED
  BY <1>1, DescriptorInvariant, PTL

============================================================================
