---------------------------- MODULE DnstresAbs ----------------------------
(***************************************************************************)
(* What the threaded resolver (lib/net/dnstres.h) promises the caller of   *)
(* dnstres_pool_add_hosts: every host of the request is reported once,     *)
(* then on_done is called once, and nothing is reported after it.  When    *)
(* the pool is being freed, on_done may come before all hosts were looked  *)
(* up, and a request may be done without having been looked at.            *)
(***************************************************************************)
EXTENDS Naturals

CONSTANTS
  Requests,   \* requests for the resolver
  NHosts      \* the number of hosts of a request

VARIABLES
  status,     \* of a request: "new", "open" or "done"
  results,    \* hosts of the request reported with on_resolved, on_unresolved
  closing     \* dnstres_pool_free was called

absVars == <<status, results, closing>>

AInit ==
  /\ status = [r \in Requests |-> "new"]
  /\ results = [r \in Requests |-> 0]
  /\ closing = FALSE

\* The request is accepted.
Submit(r) ==
  /\ status[r] = "new"
  /\ status' = [status EXCEPT ![r] = "open"]
  /\ UNCHANGED <<results, closing>>

\* There is no memory for the request: on_done is called at once.
Refuse(r) ==
  /\ status[r] = "new"
  /\ status' = [status EXCEPT ![r] = "done"]
  /\ UNCHANGED <<results, closing>>

Report(r) ==
  /\ status[r] = "open"
  /\ results[r] < NHosts[r]
  /\ results' = [results EXCEPT ![r] = @ + 1]
  /\ UNCHANGED <<status, closing>>

OnDone(r) ==
  /\ status[r] = "open"
  /\ closing \/ results[r] = NHosts[r]
  /\ status' = [status EXCEPT ![r] = "done"]
  /\ UNCHANGED <<results, closing>>

Close == ~closing /\ closing' = TRUE /\ UNCHANGED <<status, results>>

ANext ==
  \/ \E r \in Requests : Submit(r) \/ Refuse(r) \/ Report(r) \/ OnDone(r)
  \/ Close

ASpec == AInit /\ [][ANext]_absVars

============================================================================
