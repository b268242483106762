-------------------------------- MODULE Fc2 --------------------------------
(***************************************************************************)
(* fc2 (apps/fc2/fc2.c): FastCGI requests of a web server relayed to CGI   *)
(* processes, as a service of eds.  A request has two clients of eds, its  *)
(* connection and the socket of its CGI process, each holding a pointer to *)
(* the other; either may end first.  Messages are read by lib/net/fcgi.c.  *)
(* Every callback of fc2 ends with the call of the next one, so a callback *)
(* in progress is `run` here; the web server and the CGI processes run     *)
(* between any two of them.  A CGI process has the number of its request   *)
(* as pid.                                                                 *)
(***************************************************************************)
EXTENDS Integers, Sequences, FiniteSets

CONSTANTS
  MaxReqs,     \* requests of the web server
  MaxFds,      \* descriptors of eds clients
  Scripts,     \* what a request may send: sequences of messages
  MaxOut,      \* chunks a CGI process writes
  Cap,         \* units a socket buffers
  None

ASSUME Fc2Assumption ==
  /\ MaxReqs \in Nat /\ MaxFds \in Nat /\ MaxOut \in Nat /\ Cap \in Nat \ {0}
  /\ None \notin Nat

VARIABLES
  web,         \* the web server's end of each request
  up, down,    \* the two directions of its connection
  got,         \* messages the web server has received
  cgi,         \* CGI processes and their sockets
  slot,        \* struct eds_client of each descriptor
  ud,          \* the data after it: struct fc2_ctx or struct fc2_cgi
  run, cur,    \* callback in progress, client served by the loop
  maxfd,       \* listener's maxfd
  sigchld      \* got_listener_sigchld

srvVars == <<slot, ud, run, cur, maxfd>>
vars == <<web, up, down, got, cgi, srvVars, sigchld>>

Reqs == 1..MaxReqs
Fds == 1..MaxFds

\* A message has a type, a request ID and, for FCGI_STDIN, a unit of data (0:
\* no content).  It arrives in two chunks.
Msg(k, id, d) == [k |-> k, id |-> id, d |-> d]
Chunks(s) == [i \in 1..(2 * Len(s)) |->
                [m |-> s[(i + 1) \div 2], part |-> IF i % 2 = 1 THEN 1 ELSE 2]]

FreshSlot == [inuse |-> FALSE, removed |-> FALSE, susp |-> FALSE, onr |-> None,
              onw |-> None, wr |-> None, tw |-> None, kind |-> None, peer |-> 0]
\* `link` is child_cli of a connection and parent of a CGI socket: the two
\* structures have it at the same offset.
FreshData == [magic |-> None, link |-> None, pid |-> 0, exit |-> -1, buf |-> <<>>,
              rstate |-> "incomplete", pstate |-> "begin", id |-> 0, out |-> <<>>]

\* What an earlier request leaves behind in the descriptors f of its connection
\* and g of its process: nothing clears the data, or the pid in it.
LeftBy(f, g) ==
  /\ slot = [h \in Fds |-> [FreshSlot EXCEPT !.removed = (h \in {f, g})]]
  /\ ud = [h \in Fds |->
       CASE h = f -> [FreshData EXCEPT !.magic = "ctx", !.pid = MaxReqs + 1]
         [] h = g -> [FreshData EXCEPT !.magic = "cgi", !.link = f]
         [] OTHER -> FreshData]

Init ==
  /\ web = [r \in Reqs |-> [pc |-> "new", script |-> <<>>, left |-> <<>>]]
  /\ up = [r \in Reqs |-> <<>>] /\ down = [r \in Reqs |-> <<>>] /\ got = [r \in Reqs |-> <<>>]
  /\ cgi = [r \in Reqs |-> [st |-> "none", cin |-> <<>>, in |-> <<>>, fin |-> FALSE,
                            cout |-> <<>>, n |-> 0]]
  /\ \/ slot = [f \in Fds |-> FreshSlot] /\ ud = [f \in Fds |-> FreshData]
     \/ \E f, g \in Fds : f # g /\ LeftBy(f, g)
  /\ run = None /\ cur = None /\ maxfd = 0 /\ sigchld = FALSE

Closed(r) == web[r].pc = "closed"
Dead(r) == cgi[r].st \in {"zombie", "gone"}
\* The descriptors of a request that fc2 has open.
SlotsOf(r, kind) == {f \in Fds : slot[f].inuse /\ slot[f].kind = kind /\ slot[f].peer = r}
SrvClosed(r) == web[r].pc = "open" /\ SlotsOf(r, "conn") = {}

----------------------------------------------------------------------------
(* The web server and the CGI processes.                                   *)

Close(r) == web' = [web EXCEPT ![r].pc = "closed", ![r].left = <<>>]

Connect(r) ==
  /\ web[r].pc = "new" /\ \A q \in 1..(r - 1) : web[q].pc # "new"
  /\ \E s \in Scripts :
       web' = [web EXCEPT ![r] = [pc |-> "pending", script |-> s, left |-> Chunks(s)]]
  /\ UNCHANGED <<up, down, got, cgi, srvVars, sigchld>>

\* Any part of what is left of the request is written.
WebSend(r) ==
  /\ web[r].pc \in {"pending", "open"} /\ web[r].left # <<>>
  /\ IF SrvClosed(r)
     THEN Close(r) /\ UNCHANGED up
     ELSE \E n \in 1..Len(web[r].left) :
            /\ up' = [up EXCEPT ![r] = @ \o SubSeq(web[r].left, 1, n)]
            /\ web' = [web EXCEPT ![r].left = SubSeq(@, n + 1, Len(@))]
  /\ UNCHANGED <<down, got, cgi, srvVars, sigchld>>

\* The response is read up to its end, or to the end of the connection.
WebRecv(r) ==
  /\ web[r].pc = "open"
  /\ \/ /\ down[r] # <<>>
        /\ got' = [got EXCEPT ![r] = Append(@, Head(down[r]))]
        /\ down' = [down EXCEPT ![r] = Tail(@)]
        /\ IF Head(down[r]).k = "end" THEN Close(r) ELSE UNCHANGED web
     \/ /\ down[r] = <<>> /\ SrvClosed(r)
        /\ Close(r)
        /\ UNCHANGED <<down, got>>
  /\ UNCHANGED <<up, cgi, srvVars, sigchld>>

WebHangup(r) ==
  /\ web[r].pc = "open"
  /\ Close(r)
  /\ UNCHANGED <<up, down, got, cgi, srvVars, sigchld>>

CgiRead(r) ==
  /\ cgi[r].st = "run" /\ cgi[r].cin # <<>>
  /\ cgi' = [cgi EXCEPT ![r].in = Append(@, Head(cgi[r].cin)), ![r].cin = Tail(@)]
  /\ UNCHANGED <<web, up, down, got, srvVars, sigchld>>

CgiWrite(r) ==
  /\ cgi[r].st = "run" /\ cgi[r].n < MaxOut /\ Len(cgi[r].cout) < Cap
  /\ cgi' = [cgi EXCEPT ![r].n = @ + 1, ![r].cout = Append(@, cgi[r].n + 1)]
  /\ UNCHANGED <<web, up, down, got, srvVars, sigchld>>

\* The process ends, with its input read or not.
CgiExit(r) ==
  /\ cgi[r].st = "run"
  /\ cgi' = [cgi EXCEPT ![r].st = "zombie"]
  /\ sigchld' = TRUE
  /\ UNCHANGED <<web, up, down, got, srvVars>>

----------------------------------------------------------------------------
(* eds, as far as fc2 uses it (see Eds).                                   *)

LowestFree(f) == ~slot[f].inuse /\ \A g \in 1..(f - 1) : slot[g].inuse
MaxOf(a, b) == IF a > b THEN a ELSE b

\* eds_service_add_client clears the client structure, not the data after it.
NewClient(kind, r, onr) ==
  [FreshSlot EXCEPT !.inuse = TRUE, !.kind = kind, !.peer = r, !.onr = onr]

SetR(s, f, cb) ==
  IF s[f].removed THEN s
  ELSE [s EXCEPT ![f].onr = cb, ![f].susp = IF cb = None THEN @ ELSE FALSE]
SetW(s, f, cb) == IF s[f].removed THEN s ELSE [s EXCEPT ![f].onw = cb]
Suspend(s, f) == IF s[f].removed THEN s ELSE [s EXCEPT ![f].onr = None, ![f].susp = TRUE]
ClearActions(s, f) == [s EXCEPT ![f].onr = None, ![f].onw = None, ![f].susp = FALSE]
\* eds_client_send with a transition of the write action.
Send(s, f, data, tw) == SetW([s EXCEPT ![f].wr = data, ![f].tw = tw], f, "send")
\* Setting an action runs it at once, unless the client is removed.
Call(s, f, cb) == IF s[f].removed THEN None ELSE [cb |-> cb, f |-> f]

\* Mutant of Torn: the other client of the request is left alone.
TornAlone(S) == {g \in S : ~slot[g].removed}

\* The clients that eds_service_remove_client of those in S ends up removing: on_done and
\* on_childproc_done remove the client that `link` names, until one is already
\* marked as removed.
Torn(S) ==
  LET next(T) == (T \cup {ud[g].link : g \in T}) \ {None}
      live(T) == {g \in T : ~slot[g].removed}
      reach[k \in 0..MaxFds] == IF k = 0 THEN live(S) ELSE live(next(reach[k - 1]))
  IN  reach[MaxFds]

\* eds_service_remove_client with the on_done of each: the CGI process of a
\* connection is killed unless it was reaped.
Remove(s, S) ==
  LET R == Torn(S)
      conns == {g \in R : slot[g].kind = "conn"}
      killed == {ud[g].pid : g \in {h \in conns : ud[h].pid > 0 /\ ud[h].exit < 0}}
      dying == {r \in killed \cap Reqs : cgi[r].st = "run"}
  IN
  /\ slot' = [g \in Fds |-> IF g \in R THEN [s[g] EXCEPT !.inuse = FALSE, !.removed = TRUE] ELSE s[g]]
  /\ ud' = [g \in Fds |-> IF g \in conns THEN [ud[g] EXCEPT !.link = None, !.buf = <<>>, !.out = <<>>]
                          ELSE ud[g]]
  /\ cgi' = [r \in Reqs |-> IF r \in dying THEN [cgi[r] EXCEPT !.st = "zombie"] ELSE cgi[r]]
  /\ sigchld' = (sigchld \/ dying # {})
  /\ run' = None

Waiting == run = None /\ cur = None

Accept(r, f) ==
  /\ Waiting /\ web[r].pc = "pending" /\ LowestFree(f)
  /\ slot' = [slot EXCEPT ![f] = NewClient("conn", r, "on_readable")]
  /\ web' = [web EXCEPT ![r].pc = "open"]
  /\ maxfd' = MaxOf(maxfd, f)
  /\ UNCHANGED <<up, down, got, cgi, ud, run, cur, sigchld>>

CanRead(f) == LET r == slot[f].peer IN
  IF slot[f].kind = "conn" THEN up[r] # <<>> \/ Closed(r) ELSE cgi[r].cout # <<>> \/ Dead(r)
CanWrite(f) == LET r == slot[f].peer IN
  IF slot[f].kind = "conn" THEN Len(down[r]) < Cap \/ Closed(r) ELSE Len(cgi[r].cin) < Cap \/ Dead(r)

Event(f) ==
  /\ Waiting /\ slot[f].inuse
  /\ \/ slot[f].onr # None /\ CanRead(f) /\ run' = [cb |-> slot[f].onr, f |-> f]
     \/ slot[f].onw # None /\ CanWrite(f) /\ run' = [cb |-> slot[f].onw, f |-> f]
  /\ cur' = f
  /\ UNCHANGED <<web, up, down, got, cgi, slot, ud, maxfd, sigchld>>

\* Back in the loop: a client without actions that is not suspended is removed.
Served ==
  /\ run = None /\ cur # None
  /\ cur' = None
  /\ IF slot[cur].onr = None /\ slot[cur].onw = None /\ ~slot[cur].susp
     THEN Remove(slot, {cur})
     ELSE UNCHANGED <<slot, ud, cgi, sigchld, run>>
  /\ UNCHANGED <<web, up, down, got, maxfd>>

\* reap_listener_children: the clients below maxfd are told, and
\* on_cli_reaped_child keeps the status of its process.
Reap ==
  /\ Waiting /\ sigchld
  /\ LET Z == {r \in Reqs : cgi[r].st = "zombie"} IN
       /\ cgi' = [r \in Reqs |-> IF r \in Z THEN [cgi[r] EXCEPT !.st = "gone"] ELSE cgi[r]]
       /\ ud' = [f \in Fds |->
            IF f < maxfd /\ slot[f].inuse /\ slot[f].kind = "conn" /\ ud[f].pid \in Z
            THEN [ud[f] EXCEPT !.exit = 1] ELSE ud[f]]
  /\ sigchld' = FALSE
  /\ UNCHANGED <<web, up, down, got, slot, run, cur, maxfd>>

Running(cb) == run # None /\ run.cb = cb

\* on_eds_client_send: a write error removes the client; when all is written
\* the transition sets and runs the next write action.
OnSend ==
  LET f == run.f
      r == slot[f].peer
      lost == IF slot[f].kind = "conn" THEN Closed(r) ELSE Dead(r)
      s == [SetW(slot, f, slot[f].tw) EXCEPT ![f].wr = None]
  IN
  /\ Running("send")
  /\ \/ /\ lost /\ Remove(slot, {f}) /\ UNCHANGED down
     \/ /\ ~CanWrite(f)
        /\ run' = None /\ UNCHANGED <<slot, ud, cgi, down, sigchld>>
     \/ /\ ~lost /\ CanWrite(f)
        /\ IF slot[f].kind = "conn"
           THEN down' = [down EXCEPT ![r] = Append(@, slot[f].wr)] /\ UNCHANGED cgi
           ELSE cgi' = [cgi EXCEPT ![r].cin = Append(@, slot[f].wr)] /\ UNCHANGED down
        /\ slot' = s /\ run' = Call(s, f, slot[f].tw)
        /\ UNCHANGED <<ud, sigchld>>
  /\ UNCHANGED <<web, up, got, cur, maxfd>>

----------------------------------------------------------------------------
(* fcgi_cli_readmsg and fcgi_cli_readparams.                               *)

Complete(b) == Len(b) >= 2

\* The message that was read last is dropped from the buffer.
Consume(d) ==
  IF d.rstate = "complete"
  THEN [d EXCEPT !.buf = SubSeq(@, 3, Len(@)), !.rstate = "incomplete"] ELSE d

\* One round of fcgi_cli_readmsg on the data d of a client with the bytes `in`
\* waiting: the data after it, the bytes left and what was found.  The bytes are
\* read only when no complete message is there.
ReadMsg(d, in, eof) ==
  LET e == Consume(d)
      b == IF Complete(e.buf) THEN e.buf ELSE e.buf \o in
      res == IF Complete(b) THEN "ok" ELSE IF eof THEN "err" ELSE "again"
  IN  [d |-> [e EXCEPT !.buf = b, !.rstate = IF res = "ok" THEN "complete" ELSE "incomplete"],
       in |-> IF Complete(e.buf) THEN in ELSE <<>>,
       res |-> res]

\* A message of another request: the next one is read instead.
OtherId(d) == d.pstate # "begin" /\ d.buf[1].m.id # d.id

\* fcgi_cli_readparams on a message: BEGIN_REQUEST, then PARAMS up to an empty
\* one.
ParamState(d) ==
  LET m == d.buf[1].m IN
  CASE d.pstate = "begin" /\ m.k = "begin" -> "params"
    [] d.pstate = "params" /\ m.k = "params" -> IF m.d = 0 THEN "done" ELSE "params"
    [] OTHER -> "error"

----------------------------------------------------------------------------
(* The callbacks of fc2.                                                   *)

\* on_readable: the first event of a connection.  What an earlier client of the
\* descriptor left in child_cli and cgi_pid stays.
OnReadable ==
  LET f == run.f IN
  /\ Running("on_readable")
  /\ ud' = [ud EXCEPT ![f].exit = -1, ![f].magic = "ctx", ![f].buf = <<>>, ![f].id = 0,
                      ![f].rstate = "incomplete", ![f].pstate = "begin"]
  /\ slot' = SetR(slot, f, "on_read_req")
  /\ run' = [cb |-> "on_read_req", f |-> f]
  /\ UNCHANGED <<web, up, down, got, cgi, cur, maxfd, sigchld>>

\* on_read_req with the parameters read: the CGI does not exist and the
\* response is a 404 and the teardown ...
NotFound(f, d) ==
  LET s == Send(SetR(slot, f, None), f, [k |-> "out", id |-> d.id, d |-> <<0>>],
                "on_graceful_teardown")
  IN
  /\ slot' = s /\ run' = Call(s, f, "send")
  /\ ud' = [ud EXCEPT ![f] = d]
  /\ UNCHANGED <<cgi, maxfd>>

\* ... or the process is forked, its socket becomes a client and the body of the
\* request is read.
Forked(f, d, r) ==
  \E g \in Fds :
    /\ LowestFree(g)
    /\ LET s == SetR([slot EXCEPT ![g] = NewClient("cgi", r, "on_childproc_readable")],
                     f, "on_fcgi_msg") IN
         slot' = s /\ run' = Call(s, f, "on_fcgi_msg")
    /\ ud' = [ud EXCEPT ![f] = [d EXCEPT !.link = g, !.pid = r, !.out = <<>>],
                        ![g].magic = "cgi", ![g].link = f]
    /\ cgi' = [cgi EXCEPT ![r].st = "run"]
    /\ maxfd' = MaxOf(maxfd, g)

\* ... or no memory is left for the output: the process is killed, and its
\* socket goes with the connection.
PostforkFails(f, d, r) ==
  /\ \E g \in Fds :
       /\ LowestFree(g)
       /\ slot' = ClearActions([slot EXCEPT ![g] = NewClient("cgi", r, "on_childproc_readable")], f)
       /\ ud' = [ud EXCEPT ![f] = [d EXCEPT !.link = g], ![g].magic = "cgi", ![g].link = f]
       /\ maxfd' = MaxOf(maxfd, g)
  /\ cgi' = [cgi EXCEPT ![r].st = "zombie"]
  /\ run' = None

\* on_read_req: one message of the parameters at a time, which may be more than
\* MAX_PARAMSZ in all.
OnReadReq ==
  LET f == run.f
      r == slot[f].peer
      p == ReadMsg(ud[f], up[r], Closed(r))
      d == p.d
      next == ParamState(d)
      e == [d EXCEPT !.pstate = next, !.id = IF d.pstate = "begin" THEN d.buf[1].m.id ELSE @]
      fails == /\ run' = None /\ ud' = [ud EXCEPT ![f] = d]
               /\ slot' = ClearActions(slot, f) /\ UNCHANGED <<cgi, maxfd>>
  IN
  /\ Running("on_read_req")
  /\ up' = [up EXCEPT ![r] = p.in]
  /\ \/ /\ p.res = "again"
        /\ run' = None /\ ud' = [ud EXCEPT ![f] = d] /\ UNCHANGED <<slot, cgi, maxfd>>
     \/ /\ p.res = "err" /\ fails
     \/ /\ p.res = "ok" /\ OtherId(d)
        /\ ud' = [ud EXCEPT ![f] = d] /\ UNCHANGED <<slot, cgi, maxfd, run>>
     \/ /\ p.res = "ok" /\ ~OtherId(d)
        /\ next = "error" \/ (next = "params" /\ d.pstate = "params")
        /\ fails
     \/ /\ p.res = "ok" /\ ~OtherId(d) /\ next = "params"
        /\ ud' = [ud EXCEPT ![f] = e] /\ UNCHANGED <<slot, cgi, maxfd, run>>
     \/ /\ p.res = "ok" /\ ~OtherId(d) /\ next = "done"
        /\ \/ NotFound(f, e)
           \/ Forked(f, e, r)
           \/ PostforkFails(f, e, r)
           \/ fails                \* socketpair or fork fails
  /\ sigchld' = (sigchld \/ cgi'[r].st = "zombie")
  /\ UNCHANGED <<web, down, got, cur>>

\* Mutant of StdinData: the connection is read on during the write.
StdinDataReadsOn(f, m) == Send(slot, ud[f].link, m.d, "on_reactivate_fcgi")

\* A unit of the body goes to the process; until it is written the connection,
\* whose buffer holds it, is not read.
StdinData(f, m) == Send(Suspend(slot, f), ud[f].link, m.d, "on_reactivate_fcgi")

\* on_fcgi_msg: STDIN goes to the CGI process, an empty one ends its input, and
\* anything else ends the request.
OnFcgiMsg ==
  LET f == run.f
      r == slot[f].peer
      p == ReadMsg(ud[f], up[r], Closed(r))
      m == p.d.buf[1].m
      c == ud[f].link
  IN
  /\ Running("on_fcgi_msg")
  /\ up' = [up EXCEPT ![r] = p.in]
  /\ \/ /\ p.res = "again"
        /\ run' = None /\ ud' = [ud EXCEPT ![f] = p.d] /\ UNCHANGED <<slot, cgi, sigchld>>
     \/ /\ p.res = "err" /\ Remove(slot, {c, f})
     \/ /\ p.res = "ok" /\ OtherId(p.d)
        /\ ud' = [ud EXCEPT ![f] = p.d] /\ UNCHANGED <<slot, cgi, sigchld, run>>
     \/ /\ p.res = "ok" /\ ~OtherId(p.d) /\ m.k # "stdin"
        /\ Remove(slot, {c, f})
     \/ /\ p.res = "ok" /\ ~OtherId(p.d) /\ m.k = "stdin" /\ m.d = 0
        /\ cgi' = [cgi EXCEPT ![slot[c].peer].fin = TRUE]
        /\ slot' = SetW(slot, c, None)
        /\ run' = None /\ ud' = [ud EXCEPT ![f] = p.d] /\ UNCHANGED sigchld
     \/ /\ p.res = "ok" /\ ~OtherId(p.d) /\ m.k = "stdin" /\ m.d # 0
        /\ slot' = StdinData(f, m) /\ run' = Call(slot', c, "send")
        /\ ud' = [ud EXCEPT ![f] = p.d] /\ UNCHANGED <<cgi, sigchld>>
  /\ UNCHANGED <<web, down, got, cur, maxfd>>

\* on_reactivate_fcgi: the unit is written, the connection is read again.
OnReactivateFcgi ==
  LET c == run.f
      f == ud[c].link
      s == SetR(SetW(slot, ud[f].link, None), f, "on_fcgi_msg")
  IN
  /\ Running("on_reactivate_fcgi")
  /\ slot' = s /\ run' = Call(s, f, "on_fcgi_msg")
  /\ UNCHANGED <<web, up, down, got, cgi, ud, cur, maxfd, sigchld>>

\* Mutant of EndOfOutput: the response ends as soon as the process is dead.
EndOfOutputDead(r) == Dead(r)

\* read() returns 0: the process is gone and its output was read.
EndOfOutput(r) == Dead(r) /\ cgi[r].cout = <<>>

\* on_childproc_readable: a chunk of output becomes a STDOUT message and the
\* process is not read until it is sent; the end of output suspends both and
\* leaves the teardown to the loop; an error, also the reset that a process
\* causes which ends with unread input, removes both.
OnChildprocReadable ==
  LET c == run.f
      f == ud[c].link
      r == slot[c].peer
      s == Send(Suspend(slot, c), f, [k |-> "out", id |-> ud[f].id, d |-> cgi[r].cout],
                "on_reactivate_childproc")
  IN
  /\ Running("on_childproc_readable")
  /\ \/ /\ cgi[r].cout = <<>> /\ ~Dead(r)
        /\ run' = None /\ UNCHANGED <<slot, ud, cgi, sigchld>>
     \/ /\ cgi[r].cout = <<>> /\ Dead(r) /\ cgi[r].cin # <<>>
        /\ Remove(slot, {f, c})
     \/ /\ EndOfOutput(r)
        /\ slot' = SetW(Suspend(Suspend(slot, c), f), f, "on_graceful_teardown")
        /\ run' = None /\ UNCHANGED <<ud, cgi, sigchld>>
     \/ /\ cgi[r].cout # <<>>
        /\ cgi' = [cgi EXCEPT ![r].cout = <<>>]
        /\ slot' = s /\ run' = Call(s, f, "send")
        /\ ud' = [ud EXCEPT ![f].out = cgi[r].cout] /\ UNCHANGED sigchld
  /\ UNCHANGED <<web, up, down, got, cur, maxfd>>

\* Mutant of OnReactivateChildproc: the process stays suspended.
OnReactivateChildprocStays ==
  /\ Running("on_reactivate_childproc")
  /\ ud' = [ud EXCEPT ![run.f].out = <<>>]
  /\ slot' = SetW(slot, run.f, None) /\ run' = None
  /\ UNCHANGED <<web, up, down, got, cgi, cur, maxfd, sigchld>>

\* on_reactivate_childproc: the message is sent, the process is read again.
OnReactivateChildproc ==
  LET f == run.f
      s == SetR(SetW(slot, f, None), ud[f].link, "on_childproc_readable")
  IN
  /\ Running("on_reactivate_childproc")
  /\ ud' = [ud EXCEPT ![f].out = <<>>]
  /\ slot' = s /\ run' = Call(s, ud[f].link, "on_childproc_readable")
  /\ UNCHANGED <<web, up, down, got, cgi, cur, maxfd, sigchld>>

\* on_graceful_teardown: the end of STDOUT and END_REQUEST, with the exit status
\* if the process was reaped.
OnGracefulTeardown ==
  LET f == run.f
      s == Send(slot, f, [k |-> "end", id |-> ud[f].id, d |-> IF ud[f].exit >= 0 THEN ud[f].exit ELSE 0],
                "on_graceful_teardown_done")
  IN
  /\ Running("on_graceful_teardown")
  /\ slot' = s /\ run' = Call(s, f, "send")
  /\ UNCHANGED <<web, up, down, got, cgi, ud, cur, maxfd, sigchld>>

OnGracefulTeardownDone ==
  /\ Running("on_graceful_teardown_done")
  /\ Remove(slot, {run.f})
  /\ UNCHANGED <<web, up, down, got, cur, maxfd>>

Callback ==
  \/ OnSend \/ OnReadable \/ OnReadReq \/ OnFcgiMsg \/ OnReactivateFcgi
  \/ OnChildprocReadable \/ OnReactivateChildproc \/ OnGracefulTeardown
  \/ OnGracefulTeardownDone

Finished ==
  /\ \A r \in Reqs : Closed(r) /\ ~(cgi[r].st = "run")
  /\ Waiting /\ \A f \in Fds : ~slot[f].inuse
  /\ UNCHANGED vars

Next ==
  \/ \E r \in Reqs : \/ Connect(r) \/ WebSend(r) \/ WebRecv(r) \/ WebHangup(r)
                     \/ CgiRead(r) \/ CgiWrite(r) \/ CgiExit(r)
                     \/ \E f \in Fds : Accept(r, f)
  \/ \E f \in Fds : Event(f)
  \/ Served \/ Reap \/ Callback \/ Finished

\* fc2 is scheduled and select() reports every ready descriptor in its round;
\* the web server reads the responses, and the processes what is written to them
\* (a hang-up is not noticed while a process leaves its input unread).  Nothing
\* is assumed of requests being sent or of processes writing or ending.
Fairness ==
  /\ WF_vars(Callback \/ Served)
  /\ \A f \in Fds : SF_vars(Event(f))
  /\ \A r \in Reqs : WF_vars(WebRecv(r)) /\ WF_vars(CgiRead(r))

Spec == Init /\ [][Next]_vars /\ Fairness
----------------------------------------------------------------------------
(* Properties.                                                             *)

IsPrefixOf(a, b) == Len(a) <= Len(b) /\ a = SubSeq(b, 1, Len(a))

\* The data of the messages m, joined.
Joined(m) ==
  LET j[k \in 0..Len(m)] ==
        IF k = 0 THEN <<>> ELSE j[k - 1] \o (IF m[k].k = "out" THEN m[k].d ELSE <<>>)
  IN  j[Len(m)]

\* The response is the output of the request's own process, in order, under the
\* ID of the request: read and relayed by turns between two clients, each
\* suspended while the other is written.  END_REQUEST is sent last and only
\* after all that the process wrote (on_graceful_teardown), or after the 404.
ResponseExact ==
  \A r \in Reqs : LET m == got[r] \o down[r] IN
    /\ \A k \in 1..Len(m) : m[k].id = web[r].script[1].id /\ (m[k].k = "end" => k = Len(m))
    /\ IF cgi[r].st = "none" THEN Joined(m) \in {<<>>, <<0>>}
       ELSE IsPrefixOf(Joined(m), [i \in 1..cgi[r].n |-> i])
    /\ (m # <<>> /\ m[Len(m)].k = "end" /\ cgi[r].st # "none") =>
          Dead(r) /\ Len(Joined(m)) = cgi[r].n

\* The units of the body that belong to the request.
Body(s) == SelectSeq(s, LAMBDA m : m.k = "stdin" /\ m.id = s[1].id /\ m.d # 0)

\* A CGI process gets the body of its own request, each unit once and in order,
\* however the messages were split or mixed with those of other IDs; and its
\* input is shut down only when it has all of it (the STDIN data is sent from
\* the very buffer that messages are read into).
StdinExact ==
  \A r \in Reqs : cgi[r].st # "none" =>
    LET b == Body(web[r].script)
        given == cgi[r].in \o cgi[r].cin
    IN  /\ Len(given) <= Len(b)
        /\ \A k \in 1..Len(given) : given[k] = b[k].d
        /\ cgi[r].fin => Len(given) = Len(b)

\* The two clients of a request come and go together: a CGI socket in use is
\* linked with a connection in use that is linked back, and the asserts of the
\* callbacks on the kind of a client (CTXMAGIC, CGIMAGIC) hold.
PairsLinked ==
  /\ run # None => LET d == ud[run.f] IN
       /\ run.cb \in {"on_read_req", "on_fcgi_msg", "on_reactivate_childproc",
                     "on_graceful_teardown"} => d.magic = "ctx"
       /\ run.cb \in {"on_reactivate_fcgi", "on_childproc_readable"} =>
            d.magic = "cgi" /\ ud[d.link].magic = "ctx"
  /\ \A c \in Fds : (slot[c].inuse /\ slot[c].kind = "cgi") =>
       LET f == ud[c].link IN
         slot[f].inuse /\ slot[f].kind = "conn" /\ slot[f].peer = slot[c].peer /\ ud[f].link = c

\* When the web server hangs up, or the CGI process has ended, both clients of
\* the request are removed in the end and no process of it is left running.
RequestsEnd ==
  \A r \in Reqs :
    (web[r].pc = "closed" \/ Dead(r)) ~>
      /\ SlotsOf(r, "conn") = {} /\ SlotsOf(r, "cgi") = {}
      /\ cgi[r].st # "run"
====
