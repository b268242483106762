------------------------------ MODULE Dnstres ------------------------------
(***************************************************************************)
(* The threaded DNS resolver (lib/net/dnstres.c).  A request is a list of  *)
(* hosts.  The threads of the pool take hosts from the request at the head *)
(* of a list, under the mutex of the pool, and look them up without it; a  *)
(* request is reference counted, by the list and by every thread that      *)
(* looks up one of its hosts, and is done when the count reaches zero.     *)
(* Requests come from one caller (the main loop of clid), dnstres_pool_free *)
(* is called by another thread (the signal thread of clid).                *)
(***************************************************************************)
EXTENDS Integers, FiniteSets, Sequences, Functions

CONSTANTS
  Requests,   \* requests that are made
  NHosts,     \* number of hosts of a request
  Threads,    \* resolver threads
  Caller,     \* the thread that calls dnstres_pool_add_hosts
  Freer,      \* the thread that calls dnstres_pool_free
  NoOne       \* the mutex is not held; no request

ASSUME DnstresAssumption ==
  /\ NHosts \in [Requests -> Nat]
  /\ IsFiniteSet(Threads)
  /\ {Caller, Freer, NoOne} \cap Threads = {}
  /\ Caller # Freer /\ NoOne \notin Requests

VARIABLES
  list,       \* first_host, ..., last_host
  done,       \* p->done
  mutex,      \* the thread that holds p->mutex
  refs,       \* h->refcount
  left,       \* hosts of h that next_host has not passed
  pc,         \* where the threads are, the caller and the freer among them
  req,        \* the request a thread works on
  detached,   \* dnstres_pool_free: requests it took from the list
  status,     \* history: "new", "open" or "done" (on_done was called)
  results     \* history: hosts reported

poolVars == <<list, done, mutex>>
hostVars == <<refs, left>>
histVars == <<status, results>>
vars == <<list, done, mutex, refs, left, pc, req, detached, status, results>>

Actors == Threads \cup {Caller, Freer}

Init ==
  /\ list = <<>>
  /\ done = FALSE
  /\ mutex = NoOne
  /\ refs = [r \in Requests |-> 0]
  /\ left = NHosts
  /\ pc = [t \in Actors |-> IF t \in Threads THEN "init" ELSE "idle"]
  /\ req = [t \in Threads \cup {Caller} |-> NoOne]
  /\ detached = <<>>
  /\ status = [r \in Requests |-> "new"]
  /\ results = [r \in Requests |-> 0]

Goto(t, l) == pc' = [pc EXCEPT ![t] = l]

\* dnstres_hosts_put: the last reference calls on_done and frees the request.
Put(r) ==
  /\ refs' = [refs EXCEPT ![r] = @ - 1]
  /\ status' = IF refs[r] = 1 THEN [status EXCEPT ![r] = "done"] ELSE status

\* pthread_cond_broadcast of nonempty, by thread t which goes on to l.
Broadcast(t, l) ==
  pc' = [u \in Actors |-> IF u = t THEN l
                          ELSE IF pc[u] = "wait" THEN "lock" ELSE pc[u]]

----------------------------------------------------------------------------
(* dnstres_pool_add_hosts.                                                 *)

\* dnstres_hosts_new, which may fail.
NewHosts(r) ==
  /\ pc[Caller] = "idle"
  /\ status[r] = "new"
  /\ \/ /\ status' = [status EXCEPT ![r] = "open"]
        /\ refs' = [refs EXCEPT ![r] = 1]
        /\ req' = [req EXCEPT ![Caller] = r]
        /\ Goto(Caller, "insert")
     \/ /\ status' = [status EXCEPT ![r] = "done"]
        /\ UNCHANGED <<refs, req, pc>>
  /\ UNCHANGED <<poolVars, left, detached, results>>

\* The critical section, and the put of a request that comes too late.
Insert ==
  /\ pc[Caller] = "insert"
  /\ mutex = NoOne
  /\ \/ /\ done
        /\ Put(req[Caller])
        /\ Goto(Caller, "idle")
        /\ UNCHANGED list
     \/ /\ ~done
        /\ list' = Append(list, req[Caller])
        /\ Goto(Caller, "notify")
        /\ UNCHANGED <<refs, status>>
  /\ UNCHANGED <<done, mutex, left, req, detached, results>>

\* Mutant of Notify: nobody is woken up.
NotifyNobody ==
  /\ pc[Caller] = "notify"
  /\ Goto(Caller, "idle")
  /\ UNCHANGED <<poolVars, hostVars, req, detached, histVars>>

Notify ==
  /\ pc[Caller] = "notify"
  /\ Broadcast(Caller, "idle")
  /\ UNCHANGED <<poolVars, hostVars, req, detached, histVars>>

----------------------------------------------------------------------------
(* The resolver thread.                                                    *)

\* punycode_init may fail, and the thread ends.
Begin(t) ==
  /\ pc[t] = "init"
  /\ \/ Goto(t, "lock")
     \/ Goto(t, "exit")
  /\ UNCHANGED <<poolVars, hostVars, req, detached, histVars>>

Lock(t) ==
  /\ pc[t] = "lock"
  /\ mutex = NoOne
  /\ mutex' = t
  /\ Goto(t, "locked")
  /\ UNCHANGED <<list, done, hostVars, req, detached, histVars>>

\* The pool is being freed.
Leave(t) ==
  /\ pc[t] = "locked"
  /\ done
  /\ mutex' = NoOne
  /\ Goto(t, "exit")
  /\ UNCHANGED <<list, done, hostVars, req, detached, histVars>>

\* Mutant of Drop: the reference of the list is not given back.
DropKeepsRef(t) ==
  /\ pc[t] = "locked"
  /\ ~done
  /\ list # <<>>
  /\ left[Head(list)] = 0
  /\ UNCHANGED <<refs, status>>
  /\ list' = Tail(list)
  /\ UNCHANGED <<done, mutex, left, pc, req, detached, results>>

\* dnstres_pool_get_host removes a request without hosts left from the list.
Drop(t) ==
  /\ pc[t] = "locked"
  /\ ~done
  /\ list # <<>>
  /\ left[Head(list)] = 0
  /\ Put(Head(list))
  /\ list' = Tail(list)
  /\ UNCHANGED <<done, mutex, left, pc, req, detached, results>>

\* Mutant of Take: the thread takes no reference.
TakeNoRef(t) ==
  /\ pc[t] = "locked"
  /\ ~done
  /\ list # <<>>
  /\ LET r == Head(list)
     IN /\ left[r] > 0
        /\ left' = [left EXCEPT ![r] = @ - 1]
        /\ UNCHANGED refs
        /\ req' = [req EXCEPT ![t] = r]
  /\ mutex' = NoOne
  /\ Goto(t, "resolve")
  /\ UNCHANGED <<list, done, detached, histVars>>

\* dnstres_pool_get_host returns a host and a reference to its request.
Take(t) ==
  /\ pc[t] = "locked"
  /\ ~done
  /\ list # <<>>
  /\ LET r == Head(list)
     IN /\ left[r] > 0
        /\ left' = [left EXCEPT ![r] = @ - 1]
        /\ refs' = [refs EXCEPT ![r] = @ + 1]
        /\ req' = [req EXCEPT ![t] = r]
  /\ mutex' = NoOne
  /\ Goto(t, "resolve")
  /\ UNCHANGED <<list, done, detached, histVars>>

\* There is no host: pthread_cond_wait.
Wait(t) ==
  /\ pc[t] = "locked"
  /\ ~done
  /\ list = <<>>
  /\ mutex' = NoOne
  /\ Goto(t, "wait")
  /\ UNCHANGED <<list, done, hostVars, req, detached, histVars>>

\* pthread_cond_wait may return without a broadcast.
Spurious(t) ==
  /\ pc[t] = "wait"
  /\ Goto(t, "lock")
  /\ UNCHANGED <<poolVars, hostVars, req, detached, histVars>>

\* resolve() reports the addresses of a host, or that there are none.
Resolve(t) ==
  /\ pc[t] = "resolve"
  /\ results' = [results EXCEPT ![req[t]] = @ + 1]
  /\ Goto(t, "put")
  /\ UNCHANGED <<poolVars, hostVars, req, detached, status>>

PutHost(t) ==
  /\ pc[t] = "put"
  /\ Put(req[t])
  /\ Goto(t, "lock")
  /\ UNCHANGED <<poolVars, left, req, detached, results>>

----------------------------------------------------------------------------
(* dnstres_pool_free.                                                      *)

Free ==
  /\ pc[Freer] = "idle"
  /\ mutex = NoOne
  /\ detached' = list
  /\ list' = <<>>
  /\ done' = TRUE
  /\ Goto(Freer, "notify")
  /\ UNCHANGED <<mutex, hostVars, req, histVars>>

FreeNotify ==
  /\ pc[Freer] = "notify"
  /\ Broadcast(Freer, "put")
  /\ UNCHANGED <<poolVars, hostVars, req, detached, histVars>>

FreePut ==
  /\ pc[Freer] = "put"
  /\ IF detached = <<>>
     THEN Goto(Freer, "join") /\ UNCHANGED <<refs, status, detached>>
     ELSE Put(Head(detached)) /\ detached' = Tail(detached) /\ UNCHANGED pc
  /\ UNCHANGED <<poolVars, left, req, results>>

Join ==
  /\ pc[Freer] = "join"
  /\ \A t \in Threads : pc[t] = "exit"
  /\ Goto(Freer, "exit")
  /\ UNCHANGED <<poolVars, hostVars, req, detached, histVars>>

Finished == pc[Freer] = "exit" /\ UNCHANGED vars

----------------------------------------------------------------------------

ThreadStep(t) ==
  \/ Begin(t) \/ Leave(t) \/ Drop(t) \/ Take(t) \/ Wait(t) \/ Resolve(t) \/ PutHost(t)

Next ==
  \/ (\E r \in Requests : NewHosts(r)) \/ Insert \/ Notify
  \/ \E t \in Threads : Lock(t) \/ ThreadStep(t) \/ Spurious(t)
  \/ Free \/ FreeNotify \/ FreePut \/ Join \/ Finished

Spec == Init /\ [][Next]_vars

\* Every thread runs, a lookup returns, and a thread that wants the mutex
\* gets it some time if it is free again and again.  Nothing says that a
\* request is made or that the pool is freed.
FairSpec ==
  /\ Spec
  /\ \A t \in Threads : WF_vars(ThreadStep(t)) /\ SF_vars(Lock(t))
  /\ SF_vars(Insert) /\ WF_vars(Notify)
  /\ WF_vars(FreeNotify \/ FreePut \/ Join)

----------------------------------------------------------------------------
(* Properties.                                                             *)

\* Every variable stays in its domain.
TypeOK ==
  /\ list \in Seq(Requests)
  /\ done \in BOOLEAN
  /\ mutex \in Threads \cup {NoOne}
  /\ refs \in [Requests -> Nat]
  /\ left \in [Requests -> Nat]
  /\ pc \in [Actors -> {"init", "lock", "locked", "wait", "resolve", "put", "exit",
                        "idle", "insert", "notify", "join"}]
  /\ req \in [Threads \cup {Caller} -> Requests \cup {NoOne}]
  /\ detached \in Seq(Requests)
  /\ status \in [Requests -> {"new", "open", "done"}]
  /\ results \in [Requests -> Nat]

\* The one reference that is not a thread's: of the caller, the list, or the
\* freer.
Listed(r) ==
  \/ pc[Caller] = "insert" /\ req[Caller] = r
  \/ r \in Range(list)
  \/ r \in Range(detached)
Users(r) == {t \in Threads : pc[t] \in {"resolve", "put"} /\ req[t] = r}

\* The reference count of a request is the number of its holders, at every
\* interleaving of the caller, the threads and dnstres_pool_free; so on_done
\* is called, and the request freed, when nobody refers to it any more.
RefsExact ==
  \A r \in Requests : refs[r] = Cardinality(Users(r)) + (IF Listed(r) THEN 1 ELSE 0)

\* "queued requests will be removed" (dnstres.h): when dnstres_pool_free
\* returns, on_done was called for every request, except one that the caller
\* is about to find refused; none is stuck in the list.
FreeLeavesNothing ==
  pc[Freer] = "exit" =>
    \A r \in Requests : status[r] = "open" => pc[Caller] = "insert" /\ req[Caller] = r

\* Every reference to a request is counted until it is dropped, and after a
\* free none is left: neither a use after free nor a request that never ends.
RequestsOwned == RefsExact /\ FreeLeavesNothing

Abs == INSTANCE DnstresAbs WITH closing <- done

\* The pool keeps the promises of DnstresAbs: each host is reported once, then
\* on_done is called once and last.
Implements == Abs!ASpec

\* Every request is done in the end, as long as a thread of the pool has
\* started or the pool is freed.
RequestsFinish ==
  \A r \in Requests :
    status[r] = "open" ~> status[r] = "done" \/ \A t \in Threads : pc[t] = "exit"

\* dnstres_pool_free returns: no thread sleeps through the broadcast.
FreeReturns == done ~> pc[Freer] = "exit"

\* Nobody waits forever: every request is done in the end, as long as a thread
\* of the pool has started or the pool is freed, and dnstres_pool_free returns.
PoolDrains == RequestsFinish /\ FreeReturns

============================================================================
