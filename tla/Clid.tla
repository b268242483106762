-------------------------------- MODULE Clid --------------------------------
(***************************************************************************)
(* clid: the resolver service (apps/clid/resolver.c) with the program that *)
(* uses it (yclcli_resolve, apps/scan/resolve.c), in one process of three  *)
(* kinds of threads: the event loop of eds, the resolver threads of the    *)
(* pool (here what DnstresAbs promises), and the thread that waits for a   *)
(* signal.  They share the table of file descriptors, whose lowest free    *)
(* number each call takes: a client is its descriptor, and a result file,  *)
(* its end of a socket pair and a connection are told apart by it only.    *)
(***************************************************************************)
EXTENDS Integers, Sequences, FiniteSetsExt

CONSTANTS
  Clients,     \* programs that ask for names to be resolved, one request each
  Hosts,       \* number of hosts of the request of a client
  MaxFd,       \* highest descriptor
  None

ASSUME ClidAssumption ==
  /\ Hosts \in [Clients -> Nat] /\ MaxFd \in Nat
  /\ None \notin [k : {"null", "conn", "res", "cf0", "cf1"}, c : Clients \cup {None}]
  /\ None \notin [fd : Int, c : Clients] /\ None \notin [f : Int, call : STRING]

VARIABLES
  cli,         \* client: where it is
  chan,        \* what it has sent and clid has not received
  fdt,         \* descriptor table of clid
  slot,        \* action registered for a client of eds, by descriptor
  ud,          \* struct resolver_cli, by descriptor
  run,         \* callback in progress: its name and descriptor
  pool,        \* requests in the pool, by client
  dropped,     \* clients whose request the pool did not take (history)
  term,        \* the signal thread frees the pool
  buffer,      \* lines written to the FILE of a request and not flushed
  file,        \* lines in the result file of a client
  up           \* clid runs

cliVars == <<cli, chan>>
loopVars == <<slot, ud, run>>
poolVars == <<pool, dropped>>
vars == <<cliVars, fdt, loopVars, poolVars, term, buffer, file, up>>

Fds == 0..MaxFd
Obj(k, c) == [k |-> k, c |-> c]
NoReq == [st |-> "none", left |-> 0, resfd |-> -1, closefd |-> -1]

\* eds allocates the data of a client with calloc.
UserData == [resfd |-> 0, resfile |-> None, close0 |-> 0, close1 |-> 0]

Init ==
  /\ cli = [c \in Clients |-> "new"] /\ chan = [c \in Clients |-> <<>>]
  /\ fdt = [f \in Fds |-> IF f = 0 THEN Obj("null", None) ELSE None]
  /\ slot = [f \in Fds |-> "free"] /\ ud = [f \in Fds |-> UserData] /\ run = None
  /\ pool = [c \in Clients |-> NoReq] /\ dropped = {} /\ term = FALSE
  /\ buffer = [c \in Clients |-> 0] /\ file = [c \in Clients |-> <<>>]
  /\ up = TRUE

Over == {"done", "failed", "gone"}
Holds(o) == \E f \in Fds : fdt[f] = o
FreeFds == {f \in Fds : fdt[f] = None}
TwoFree == \E f, g \in FreeFds : f # g
InUse == {f \in Fds : slot[f] # "free"}

----------------------------------------------------------------------------
(* The client: yclcli_resolve.                                             *)

\* It sends the descriptor of its output, then the request.
ClientSend(c) ==
  /\ cli[c] \in {"open", "sentfd"}
  /\ cli' = [cli EXCEPT ![c] = IF @ = "open" THEN "sentfd" ELSE "sent"]
  /\ chan' = [chan EXCEPT ![c] = Append(@, IF cli[c] = "open" THEN "fd" ELSE "req")]
  /\ UNCHANGED <<fdt, loopVars, poolVars, term, buffer, file, up>>

\* It waits for the end of the descriptor that it got (cli "wait"), which is when
\* clid holds the other end no more, and fails if the connection ends before.
ClientRecv(c) ==
  /\ \/ cli[c] = "wait" /\ ~Holds(Obj("cf0", c)) /\ cli' = [cli EXCEPT ![c] = "done"]
     \/ /\ cli[c] \in {"open", "sentfd", "sent"} /\ ~Holds(Obj("conn", c))
        /\ cli' = [cli EXCEPT ![c] = "failed"]
  /\ UNCHANGED <<chan, fdt, loopVars, poolVars, term, buffer, file, up>>

\* It may be stopped at any time.
ClientHangup(c) ==
  /\ cli[c] \in {"open", "sentfd", "sent", "wait"}
  /\ cli' = [cli EXCEPT ![c] = "gone"]
  /\ UNCHANGED <<chan, fdt, loopVars, poolVars, term, buffer, file, up>>

----------------------------------------------------------------------------
(* The event loop.                                                         *)

\* A client connects and is accepted into the lowest free descriptor; its user
\* data stays as it was.
Accept(c) ==
  /\ up /\ run = None /\ cli[c] = "new" /\ FreeFds # {}
  /\ LET f == Min(FreeFds) IN
       /\ fdt' = [fdt EXCEPT ![f] = Obj("conn", c)]
       /\ slot' = [slot EXCEPT ![f] = "resolver_on_readable"]
  /\ cli' = [cli EXCEPT ![c] = "open"]
  /\ UNCHANGED <<chan, ud, run, poolVars, term, buffer, file, up>>

Peer(f) == fdt[f].c
AtEnd(f) == chan[Peer(f)] = <<>> /\ cli[Peer(f)] \in Over

\* select: a client has something to read, or its end, or can be written to; one
\* that was just accepted is read from without a look.
Event(f) ==
  /\ up /\ run = None /\ slot[f] # "free" /\ fdt[f] # None /\ fdt[f].k = "conn"
  /\ chan[Peer(f)] # <<>> \/ AtEnd(f) \/ slot[f] \in {"on_sendclosefd", "resolver_on_readable"}
  /\ run' = [f |-> f, call |-> slot[f]]
  /\ UNCHANGED <<cliVars, fdt, slot, ud, poolVars, term, buffer, file, up>>

\* An action registered without EDS_DEFER is called at once.
Call(f, a) == slot' = [slot EXCEPT ![f] = a] /\ run' = [f |-> f, call |-> a]

\* Closes fds in the table t.
Close(t, F) == [f \in Fds |-> IF f \in F THEN None ELSE t[f]]

\* fclose: what is in the buffer goes to whatever the descriptor is now.
Fclose(c, fd) ==
  /\ file' = IF fdt[fd] # None /\ fdt[fd].k = "res"
             THEN [file EXCEPT ![fdt[fd].c] = @ \o [i \in 1..buffer[c] |-> c]] ELSE file
  /\ buffer' = [buffer EXCEPT ![c] = 0]

\* eds_client_clear_actions; when the callback returns, the client is removed:
\* resolver_on_done, resolver_cli_cleanup, close.
Clear(f, u) ==
  /\ IF u.resfile # None THEN Fclose(u.resfile.c, u.resfile.fd) ELSE UNCHANGED <<file, buffer>>
  /\ fdt' = Close(fdt, {f, u.close0, u.close1}
                       \cup (IF u.resfile # None THEN {u.resfile.fd} ELSE {})
                       \cup (IF u.resfd # ud[f].resfd THEN {ud[f].resfd} ELSE {}))
  /\ ud' = [ud EXCEPT ![f] = [u EXCEPT !.close0 = -1, !.close1 = -1, !.resfile = None]]
  /\ slot' = [slot EXCEPT ![f] = "free"]
  /\ run' = None

Return == run' = None

\* resolver_on_readable: the message buffer is set up, for which there may be no
\* memory.
ResolverOnReadable ==
  /\ run # None /\ run.call = "resolver_on_readable"
  /\ \/ Call(run.f, "on_readfd") /\ UNCHANGED <<fdt, ud, buffer, file>>
     \/ Clear(run.f, ud[run.f])
  /\ UNCHANGED <<cliVars, poolVars, term, up>>

\* on_readfd: the descriptor for the results; an end or an error ends the client.
OnReadfd ==
  /\ run # None /\ run.call = "on_readfd"
  /\ LET f == run.f
         c == Peer(f)
     IN
     \/ /\ chan[c] = <<>> /\ ~AtEnd(f) /\ Return
        /\ UNCHANGED <<chan, fdt, ud, slot, buffer, file>>
     \/ AtEnd(f) /\ Clear(f, ud[f]) /\ UNCHANGED chan
     \/ /\ chan[c] # <<>> /\ FreeFds # {}
        /\ chan' = [chan EXCEPT ![c] = Tail(@)]
        /\ fdt' = [fdt EXCEPT ![Min(FreeFds)] = Obj("res", c)]
        /\ ud' = [ud EXCEPT ![f].resfd = Min(FreeFds)]
        /\ Call(f, "on_readreq")
        /\ UNCHANGED <<buffer, file>>
  /\ UNCHANGED <<cli, poolVars, term, up>>

\* on_readreq: the request; the stream over the descriptor for the results and
\* the socket pair are made, each of which may fail.
OnReadreq ==
  /\ run # None /\ run.call = "on_readreq"
  /\ LET f == run.f
         c == Peer(f)
         a == Min(FreeFds)
         b == Min(FreeFds \ {a})
         u == [ud[f] EXCEPT !.resfile = [fd |-> ud[f].resfd, c |-> c], !.resfd = -1]
     IN
     \/ /\ chan[c] = <<>> /\ ~AtEnd(f) /\ Return
        /\ UNCHANGED <<chan, fdt, ud, slot, buffer, file>>
     \/ /\ AtEnd(f)
        /\ Clear(f, [ud[f] EXCEPT !.resfd = -1]) /\ UNCHANGED chan
     \/ /\ chan[c] # <<>> /\ chan' = [chan EXCEPT ![c] = Tail(@)]
        /\ \/ Clear(f, [ud[f] EXCEPT !.resfd = -1])      \* a bad request, or no stream
           \/ /\ Clear(f, u)                             \* no socket pair
           \/ /\ TwoFree
              /\ fdt' = [fdt EXCEPT ![a] = Obj("cf0", c), ![b] = Obj("cf1", c)]
              /\ ud' = [ud EXCEPT ![f] = [u EXCEPT !.close0 = a, !.close1 = b]]
              /\ Call(f, "on_sendclosefd")
              /\ UNCHANGED <<buffer, file>>
  /\ UNCHANGED <<cli, poolVars, term, up>>

\* Mutant of OnSendclosefd: the client data keeps the stream and the descriptor.
OnSendclosefdKeeps ==
  /\ run # None /\ run.call = "on_sendclosefd"
  /\ LET f == run.f
         c == Peer(f)
         u == ud[f]
     IN
     \/ /\ cli[c] \in Over
        /\ Clear(f, u)
        /\ UNCHANGED <<cli, poolVars>>
     \/ /\ cli[c] = "sent"
        /\ cli' = [cli EXCEPT ![c] = "wait"]
        /\ fdt' = Close(fdt, {u.close1})
        /\ ud' = [ud EXCEPT ![f].close1 = -1]
        /\ slot' = [slot EXCEPT ![f] = "on_readfd"]
        /\ pool' = [pool EXCEPT ![c] = [st |-> "busy", left |-> IF term THEN 0 ELSE Hosts[c],
                                        resfd |-> u.resfile.fd, closefd |-> u.close0]]
        /\ Return
        /\ UNCHANGED <<dropped, buffer, file>>
  /\ UNCHANGED <<chan, term, up>>

\* on_sendclosefd: the client gets its end; stream and descriptor go from the
\* client data to the request, which is put into the pool.  Without memory for
\* the request the client is removed; without memory in the pool, or when it is
\* being freed, the request ends unresolved.
OnSendclosefd ==
  /\ run # None /\ run.call = "on_sendclosefd"
  /\ LET f == run.f
         c == Peer(f)
         u == ud[f]
     IN
     \/ /\ cli[c] \in Over
        /\ Clear(f, u)
        /\ UNCHANGED <<cli, poolVars>>
     \/ /\ cli[c] = "sent"
        /\ cli' = [cli EXCEPT ![c] = "wait"]
        /\ Clear(f, u)
        /\ dropped' = dropped \cup {c}
        /\ UNCHANGED pool
     \/ /\ cli[c] = "sent"
        /\ cli' = [cli EXCEPT ![c] = "wait"]
        /\ fdt' = Close(fdt, {u.close1})
        /\ ud' = [ud EXCEPT ![f] = [u EXCEPT !.close0 = -1, !.close1 = -1, !.resfile = None]]
        /\ slot' = [slot EXCEPT ![f] = "on_readfd"]
        /\ \E taken \in {FALSE, ~term} :
             /\ pool' = [pool EXCEPT ![c] = [st |-> "busy", left |-> IF taken THEN Hosts[c] ELSE 0,
                                             resfd |-> u.resfile.fd, closefd |-> u.close0]]
             /\ dropped' = IF taken THEN dropped ELSE dropped \cup {c}
        /\ Return
        /\ UNCHANGED <<buffer, file>>
  /\ UNCHANGED <<chan, term, up>>

----------------------------------------------------------------------------
(* The resolver threads and the signal thread.                             *)

\* res_on_resolved, res_on_unresolved: a line is written.
Resolved(c) ==
  /\ pool[c].st = "busy" /\ pool[c].left > 0
  /\ pool' = [pool EXCEPT ![c].left = @ - 1]
  /\ buffer' = [buffer EXCEPT ![c] = @ + 1]
  /\ UNCHANGED <<cliVars, fdt, loopVars, dropped, term, file, up>>

\* Mutant of ResOnDone: the descriptor is closed before the stream.
ResOnDoneEarly(c) ==
  /\ \/ /\ pool[c].st = "busy" /\ pool[c].left = 0
        /\ fdt' = Close(fdt, {pool[c].closefd})
        /\ pool' = [pool EXCEPT ![c].st = "closing"]
        /\ UNCHANGED <<file, buffer>>
     \/ /\ pool[c].st = "closing"
        /\ Fclose(c, pool[c].resfd)
        /\ fdt' = Close(fdt, {pool[c].resfd})
        /\ pool' = [pool EXCEPT ![c] = NoReq]
  /\ UNCHANGED <<cliVars, loopVars, dropped, term, up>>

\* Mutant of ResOnDone: the descriptor stays open.
ResOnDoneOpen(c) ==
  /\ pool[c].st = "busy" /\ pool[c].left = 0
  /\ Fclose(c, pool[c].resfd)
  /\ fdt' = Close(fdt, {pool[c].resfd})
  /\ pool' = [pool EXCEPT ![c] = NoReq]
  /\ UNCHANGED <<cliVars, loopVars, dropped, term, up>>

\* res_on_done, when every host is: fclose, then close.
ResOnDone(c) ==
  /\ \/ /\ pool[c].st = "busy" /\ pool[c].left = 0
        /\ Fclose(c, pool[c].resfd)
        /\ fdt' = Close(fdt, {pool[c].resfd})
        /\ pool' = [pool EXCEPT ![c].st = "closing"]
     \/ /\ pool[c].st = "closing"
        /\ fdt' = Close(fdt, {pool[c].closefd})
        /\ pool' = [pool EXCEPT ![c] = NoReq]
        /\ UNCHANGED <<file, buffer>>
  /\ UNCHANGED <<cliVars, loopVars, dropped, term, up>>

\* sigthread: a signal frees the pool, which drops the hosts that are queued.
Signal ==
  /\ up /\ ~term /\ term' = TRUE
  /\ \E n \in [Clients -> 0..1] :
       pool' = [c \in Clients |-> [pool[c] EXCEPT !.left = Min({@, n[c]})]]
  /\ UNCHANGED <<cliVars, fdt, loopVars, dropped, buffer, file, up>>

\* The process goes on unless the pool has been freed, its threads done, or
\* select finds a descriptor of a client that is not open.
GoesOn ==
  /\ term => \E c \in Clients : pool[c].st # "none"
  /\ run # None \/ \A f \in InUse : fdt[f] # None

\* Otherwise it ends, and what it has open is closed.
Exit ==
  /\ up /\ ~GoesOn
  /\ up' = FALSE /\ run' = None
  /\ fdt' = [f \in Fds |-> None] /\ slot' = [f \in Fds |-> "free"]
  /\ pool' = [c \in Clients |-> NoReq]
  /\ UNCHANGED <<cliVars, ud, dropped, term, buffer, file>>

----------------------------------------------------------------------------
Ended == \A c \in Clients : cli[c] \in Over \/ (cli[c] = "new" /\ ~up)
Finished == Ended /\ UNCHANGED vars

Callback == ResolverOnReadable \/ OnReadfd \/ OnReadreq \/ OnSendclosefd
Loop == Callback \/ Exit \/ (\E c \in Clients : Accept(c)) \/ (\E f \in Fds : Event(f))
Program == \E c \in Clients : ClientSend(c) \/ ClientRecv(c)
Threads == \E c \in Clients : Resolved(c) \/ ResOnDone(c)
Next == Loop \/ Program \/ Threads \/ (\E c \in Clients : ClientHangup(c)) \/ Signal \/ Finished

\* The loop runs, lookups return, and programs go on with their calls.
Fairness == WF_vars(Loop) /\ WF_vars(Program) /\ WF_vars(Threads)

Spec == Init /\ [][Next]_vars /\ Fairness
----------------------------------------------------------------------------
(* Properties.                                                             *)

\* The descriptor sent to a client signals when the resolving is done: when it
\* ends, the client's file has a line for each of its hosts and none of another
\* request, unless clid was told to stop or had no memory for the request.
DoneMeansComplete ==
  \A c \in Clients \ dropped : cli[c] = "done" /\ up /\ ~term => file[c] = [i \in 1..Hosts[c] |-> c]

\* Descriptor 0 is still what the process was started with: no cleanup of user
\* data that was zeroed and never set (resolver_cli_cleanup) has closed it.
NullKept == fdt[0] = Obj("null", None)

\* Until a client is removed whose data was never set, the end of a client's
\* descriptor means that its file is complete.
CompleteWhileNull == NullKept => DoneMeansComplete

\* Who is going to close a descriptor: the loop for connections, the data of a
\* client, a request of the resolver.
Claims(role, S) == {<<role, x>> : x \in S}
Owners(f) ==
  Claims("conn", {g \in InUse : g = f})
  \cup Claims("resfd", {g \in InUse : ud[g].resfd = f /\ slot[g] = "on_readreq"})
  \cup Claims("resfile", {g \in InUse : ud[g].resfile # None /\ ud[g].resfile.fd = f})
  \cup Claims("closefds", {g \in InUse : /\ slot[g] = "on_sendclosefd"
                                         /\ f \in {ud[g].close0, ud[g].close1}})
  \cup Claims("result", {c \in Clients : pool[c].st = "busy" /\ pool[c].resfd = f})
  \cup Claims("done", {c \in Clients : pool[c].st # "none" /\ pool[c].closefd = f})

OwnedOnce(f) == IF fdt[f] = None THEN Owners(f) = {} ELSE \E o \in Owners(f) : Owners(f) = {o}

\* Until a client is removed whose data was never set, every descriptor that is
\* open has exactly one owner that will close it, and a number that someone will
\* close is open: none leaks and none is closed twice, which another thread could
\* have been given in between.
DescriptorsOwned == NullKept => \A f \in Fds \ {0} : OwnedOnce(f)

\* Every program that asks gets the end of its request, or of its connection.
ResolvingEnds == <>[]Ended
====
