------------------------------ MODULE Reaplan ------------------------------
(***************************************************************************)
(* The banner grabber: the connection engine lib/net/reaplan.c with its ID *)
(* set (lib/util/idset.c), driven by the callbacks of apps/scan/bgrab.c.   *)
(* reaplan runs one loop over kqueue: connect up to a limit per tick, wait *)
(* for a batch of events, handle them with closing put off to the end of   *)
(* the batch, close what has expired and set the timer.                    *)
(***************************************************************************)
EXTENDS Integers, Sequences, FiniteSets, FiniteSetsExt

CONSTANTS
  Confs,       \* runs: delay per tick or not, TLS or not, number of destinations
  MaxClients, ConnectsPerTick, Timeout,   \* struct reaplan_opts
  WordBits     \* bits of a word of the ID set

ASSUME ReaplanAssumption ==
  /\ Confs \subseteq [delay : BOOLEAN, tls : BOOLEAN, dsts : Nat]
  /\ Timeout \in Nat \ {0} /\ WordBits \in Nat \ {0}
  /\ MaxClients \in Nat \ {0} /\ ConnectsPerTick \in 1..MaxClients

VARIABLES
  conf,        \* mdelay_per_tick > 0, ssl_ctx is set, destinations
  conns,       \* struct reaplan_conn of each slot
  sock,        \* the peer's end of a slot's socket
  free, full,  \* ID set: cleared bits, IDSETF_FULL
  active,      \* active_conns
  pc, nevs,    \* place in the loop; event slots used up in setup_connections
  batch,       \* events returned by kevent and not handled yet
  closeq,      \* closeconns
  connectDone, throttle, timer,   \* flags of the context
  newsec,      \* the second is later than last_time
  next,        \* first destination that dsts_next has not returned
  done,        \* calls of on_done per destination
  banners,     \* messages written per destination
  started      \* connections since the timer fired

idVars == <<free, full>>
runVars == <<connectDone, throttle, timer>>
outVars == <<done, banners>>
vars == <<conf, conns, sock, idVars, active, pc, nevs, batch, closeq, runVars,
          newsec, next, outVars, started>>

Slots == 0..(MaxClients - 1)
Dsts == 1..conf.dsts
delay == conf.delay
tls == conf.tls
Closed == [open |-> FALSE, dst |-> 0, flags |-> {}, reg |-> {}, wrote |-> FALSE,
           read |-> FALSE, left |-> 0]
NoSock == [st |-> "none", data |-> FALSE, eof |-> FALSE]
Open == {i \in Slots : conns[i].open}

\* reaplan_init and idset_new: the bits up to a whole word are there.
Ceil == ((MaxClients + WordBits - 1) \div WordBits) * WordBits
Init ==
  /\ conf \in Confs
  /\ conns = [i \in Slots |-> Closed] /\ sock = [i \in Slots |-> NoSock]
  /\ free = 0..(Ceil - 1) /\ full = FALSE
  /\ active = 0 /\ pc = "timer" /\ nevs = 0 /\ batch = <<>> /\ closeq = <<>>
  /\ connectDone = FALSE /\ throttle = FALSE /\ timer = FALSE
  /\ newsec = TRUE
  /\ next = 1 /\ started = 0
  /\ done = [d \in Dsts |-> 0] /\ banners = [d \in Dsts |-> 0]

----------------------------------------------------------------------------
(* The peers and the clock.                                                *)

\* A connection is established or refused, the peer sends or closes.  The loop
\* looks at its sockets in kevent only, so it happens while the loop waits.
Peer(i) ==
  /\ pc = "wait" /\ conns[i].open
  /\ \/ /\ sock[i].st = "connecting"
        /\ \E s \in {"est", "refused"} : sock' = [sock EXCEPT ![i].st = s]
     \/ /\ sock[i].st = "est" /\ ~sock[i].data /\ ~sock[i].eof
        /\ sock' = [sock EXCEPT ![i].data = TRUE]
     \/ /\ sock[i].st = "est" /\ ~sock[i].eof
        /\ sock' = [sock EXCEPT ![i].eof = TRUE]
  /\ UNCHANGED <<conf, conns, idVars, active, pc, nevs, batch, closeq, runVars,
                 newsec, next, outVars, started>>

Less(n) == IF n = 0 THEN 0 ELSE n - 1

\* A second passes while the loop waits.
Second ==
  /\ pc = "wait" /\ (~newsec \/ \E i \in Open : conns[i].left > 0)
  /\ newsec' = TRUE
  /\ conns' = [i \in Slots |-> [conns[i] EXCEPT !.left = Less(@)]]
  /\ UNCHANGED <<conf, sock, idVars, active, pc, nevs, batch, closeq, runVars,
                 next, outVars, started>>

----------------------------------------------------------------------------
(* lib/util/idset.c, and closing.                                          *)

\* idset_use_next: the first bit that is set; one past the last ID is used up
\* and the set is full.
IdsetUseNext ==
  LET b == Min(free) IN
  IF full \/ free = {} THEN [id |-> -1, free |-> free, full |-> full]
  ELSE IF b > MaxClients - 1 THEN [id |-> -1, free |-> free \ {b}, full |-> TRUE]
  ELSE [id |-> b, free |-> free \ {b}, full |-> full]

\* Mutant of BgrabOnDone: a connection that was read from is reported again.
BgrabOnDoneAlways(c) == c.wrote

\* on_done of bgrab writes an empty banner if something was written and nothing
\* read, which still shows an established connection.  The destination is freed.
BgrabOnDone(c) == c.wrote /\ ~c.read

\* A set of slots in the order in which a loop over the table meets them; only
\* that each comes once matters.
InSomeOrder(S) == CHOOSE q \in [1..Cardinality(S) -> S] : IsInjective(q)

\* reaplan_conn_close of the slots in q, one after the other.
CloseAll(q) ==
  LET S == Range(q)
      Of(d) == {k \in DOMAIN q : conns[q[k]].dst = d}
  IN
  /\ conns' = [i \in Slots |-> IF i \in S THEN Closed ELSE conns[i]]
  /\ sock' = [i \in Slots |-> IF i \in S THEN NoSock ELSE sock[i]]
  /\ done' = [d \in Dsts |-> done[d] + Cardinality(Of(d))]
  /\ banners' = [d \in Dsts |->
       banners[d] + Cardinality({k \in Of(d) : BgrabOnDone(conns[q[k]])})]
  /\ active' = active - Len(q)
  /\ free' = free \cup S
  /\ full' = (full /\ S = {})

----------------------------------------------------------------------------
(* The loop of reaplan_run.                                                *)

\* Mutant of MayConnect: connections are not throttled.
MayConnectAlways == ~connectDone

\* Not all connections are made and, with a delay per tick, not this tick's.
MayConnect == ~connectDone /\ (~delay \/ ~throttle)

\* The head of the loop: it ends when all connections are made and none is active.
Loop ==
  /\ pc = "loop"
  /\ pc' = IF connectDone /\ active = 0 THEN "finished"
           ELSE IF MayConnect THEN "connect" ELSE "wait"
  /\ UNCHANGED <<conf, conns, sock, idVars, active, nevs, batch, closeq, runVars,
                 newsec, next, outVars, started>>

\* The end of setup_connections.
Connected(isdone) ==
  /\ pc' = "wait" /\ nevs' = 0
  /\ throttle' = TRUE /\ connectDone' = isdone
  /\ UNCHANGED timer

\* The condition of the loop of setup_connections: room for two events.
MoreEvents == nevs <= 2 * ConnectsPerTick - 2

\* bgrab_next_dst, dsts_next: there is a destination left.
HasDst == next <= conf.dsts

\* reaplan_register_conn: both events, or the handshake first.
Registered(dst) ==
  [Closed EXCEPT !.open = TRUE, !.dst = dst, !.left = Timeout, !.reg = {"r", "w"},
                 !.flags = IF tls THEN {"tls"} ELSE {"r", "w"}]

\* on_connect of bgrab: a destination that cannot be connected to or registered is
\* done with and the next one is tried.
BgrabConnectFails ==
  /\ done' = [done EXCEPT ![next] = @ + 1]
  /\ UNCHANGED <<conns, sock, idVars, active, nevs, started>>

\* setup_connections: a slot is taken, on_connect of bgrab takes the next
\* destination, connects, and registers for reading and writing.
SetupOne ==
  LET u == IdsetUseNext IN
  /\ pc = "connect" /\ MoreEvents
  /\ u.id >= 0 /\ HasDst
  /\ next' = next + 1
  /\ \/ BgrabConnectFails
     \/ /\ free' = u.free /\ full' = u.full
        /\ conns' = [conns EXCEPT ![u.id] = Registered(next)]
        /\ sock' = [sock EXCEPT ![u.id].st = "connecting"]
        /\ active' = active + 1 /\ nevs' = nevs + 2 /\ started' = IF delay THEN started + 1 ELSE 0
        /\ UNCHANGED done
  /\ UNCHANGED <<conf, pc, batch, closeq, runVars, newsec, banners>>

\* ... or there is no slot left, or no destination, or the tick is used up.
SetupEnds ==
  LET u == IdsetUseNext IN
  /\ pc = "connect"
  /\ \/ /\ MoreEvents /\ u.id < 0
        /\ free' = u.free /\ full' = u.full
        /\ Connected(FALSE)
     \/ /\ MoreEvents /\ u.id >= 0 /\ ~HasDst
        /\ full' = FALSE /\ UNCHANGED free       \* idset_clear of the ID just taken
        /\ Connected(TRUE)
     \/ /\ ~MoreEvents
        /\ Connected(FALSE) /\ UNCHANGED idVars
  /\ UNCHANGED <<conf, conns, sock, active, batch, closeq, newsec, next, outVars, started>>

\* The events that kevent can report of a slot: data or the end for reading, an
\* established connection for writing, and a failed one for both.
Ready(i) ==
  LET c == conns[i]
      s == sock[i]
      ev(f) == [f |-> f, i |-> i, data |-> s.data, eof |-> s.eof \/ s.st = "refused"]
  IN  {ev(f) : f \in {g \in c.reg :
         \/ s.st = "refused"
         \/ g = "r" /\ (s.data \/ s.eof)
         \/ g = "w" /\ s.st = "est"}}
ReadyEvents == UNION {Ready(i) : i \in Open}
TimerEvent == [f |-> "timer", i |-> 0, data |-> FALSE, eof |-> FALSE]

\* kevent: the events that are ready, but at most connects_per_tick of them; it
\* waits for one unless connections are still to be made without delay.  A write event is
\* reported once.
Wait ==
  LET poll == ~delay /\ ~connectDone /\ active < MaxClients
      all == ReadyEvents \cup (IF timer THEN {TimerEvent} ELSE {})
  IN
  /\ pc = "wait"
  /\ all # {} \/ poll
  /\ LET n == Min({Cardinality(all), ConnectsPerTick}) IN \E b \in [1..n -> all] :
       /\ \A j, k \in 1..n : j # k => b[j] # b[k]
       /\ batch' = b
       /\ conns' = [i \in Slots |->
            IF \E k \in 1..n : b[k].f = "w" /\ b[k].i = i
            THEN [conns[i] EXCEPT !.reg = @ \ {"w"}] ELSE conns[i]]
  /\ pc' = "handle"
  /\ UNCHANGED <<conf, sock, idVars, active, nevs, closeq, runVars, newsec, next, outVars, started>>

\* Mutant of Enqueue: a connection is queued for each of its events.
EnqueueAgain(q, i) == IF Len(q) = ConnectsPerTick THEN q ELSE Append(q, i)

\* enqueue_close_conn: once, and only while there is room.
Enqueue(q, i) ==
  IF Len(q) = ConnectsPerTick \/ \E k \in 1..Len(q) : q[k] = i THEN q ELSE Append(q, i)

\* handle_tls_handshake: SSL_connect wants to read or to write, fails or is
\* shut down, or is done, and the requested events replace the handshake.
Handshake(i, q) ==
  \/ closeq' = q /\ UNCHANGED conns
  \/ closeq' = q /\ conns' = [conns EXCEPT ![i].reg = @ \cup {"w"}]
  \/ closeq' = Enqueue(q, i) /\ UNCHANGED conns
  \/ closeq' = q /\ conns' = [conns EXCEPT ![i].flags = {"r", "w"}, ![i].reg = @ \cup {"w"}]

\* reaplan_conn_read of a socket that has data: some is read, or it fails, or,
\* with TLS, no record is complete; reaplan_conn_write also where the socket is full.
ReadResults == {"some", "error"} \cup (IF tls THEN {"again"} ELSE {})
WriteResults == {"some", "error", "again"}

\* on_readable of bgrab: what is read is written as the banner and the
\* connection is done with (0 is returned), as it is after an error.
BgrabOnReadable(i, n) ==
  /\ conns' = [conns EXCEPT ![i].read = @ \/ n = "some"]
  /\ banners' = [banners EXCEPT ![conns[i].dst] = IF n = "some" THEN @ + 1 ELSE @]

\* on_writable of bgrab: the whole request is taken to be sent by one write.
BgrabOnWritable(i, n) == conns' = [conns EXCEPT ![i].wrote = @ \/ n = "some"]

\* handle_readable: closed unless there is more to come.
Readable(i, q) ==
  \E n \in ReadResults :
    BgrabOnReadable(i, n) /\ closeq' = IF n = "again" THEN q ELSE Enqueue(q, i)

\* handle_writable: closed after an error.  What would block is not tried again.
Writable(i, q) ==
  \E n \in WriteResults :
    BgrabOnWritable(i, n) /\ closeq' = IF n = "error" THEN Enqueue(q, i) ELSE q

\* reaplan_handle_events: one event.  EV_ERROR queues the connection and does
\* nothing else, like the end of a connection without data.
HandleEvent ==
  LET e == Head(batch)
      q == IF e.eof THEN Enqueue(closeq, e.i) ELSE closeq
  IN
  /\ pc = "handle" /\ batch # <<>>
  /\ batch' = Tail(batch)
  /\ \/ /\ e.f = "timer"
        /\ timer' = FALSE /\ throttle' = FALSE /\ started' = 0
        /\ UNCHANGED <<conns, closeq, banners, sock>>
     \/ /\ e.f = "r"
        /\ \/ "tls" \in conns[e.i].flags /\ Handshake(e.i, q) /\ UNCHANGED banners
           \/ "tls" \notin conns[e.i].flags /\ e.data /\ Readable(e.i, q)
           \/ "tls" \notin conns[e.i].flags /\ ~e.data /\ closeq' = q /\ UNCHANGED <<conns, banners>>
        /\ sock' = IF e.data THEN [sock EXCEPT ![e.i].data = FALSE] ELSE sock
        /\ UNCHANGED <<timer, throttle, started>>
     \/ /\ e.f = "w"
        /\ \/ e.eof /\ closeq' = q /\ UNCHANGED conns
           \/ ~e.eof /\ "tls" \in conns[e.i].flags /\ Handshake(e.i, q)
           \/ ~e.eof /\ "tls" \notin conns[e.i].flags /\ Writable(e.i, q)
        /\ UNCHANGED <<banners, timer, throttle, started, sock>>
  /\ UNCHANGED <<conf, idVars, active, pc, nevs, connectDone, newsec, next, done>>

\* close_conns, at the end of the batch.
CloseConns ==
  /\ pc = "handle" /\ batch = <<>>
  /\ CloseAll(closeq) /\ closeq' = <<>>
  /\ pc' = "timer"
  /\ UNCHANGED <<conf, nevs, batch, runVars, newsec, next, started>>

\* Mutant of Expired: only connections that nothing was read from or written to.
ExpiredIdle == {i \in Open : conns[i].left = 0 /\ ~conns[i].wrote}

\* The connections whose time is over.
Expired == {i \in Open : conns[i].left = 0}

\* reaplan_update_timer: with no timer pending, expired connections are closed,
\* at most once a second, and the timer is set unless connections are still to
\* be made without delay.
UpdateTimer ==
  /\ pc = "timer"
  /\ IF timer THEN UNCHANGED <<conns, sock, idVars, active, outVars, timer, newsec>>
     ELSE /\ IF newsec THEN CloseAll(InSomeOrder(Expired)) ELSE UNCHANGED <<conns, sock, idVars, active, outVars>>
          /\ newsec' = FALSE
          /\ timer' = (connectDone \/ active' = MaxClients \/ delay)
  /\ pc' = "loop"
  /\ UNCHANGED <<conf, nevs, batch, closeq, connectDone, throttle, next, started>>

\* kevent fails: reaplan_run returns an error and reaplan_cleanup closes what is
\* open.
Fail ==
  /\ pc = "wait"
  /\ CloseAll(InSomeOrder(Open))
  /\ pc' = "failed"
  /\ UNCHANGED <<conf, nevs, batch, closeq, runVars, newsec, next, started>>

Finished == pc \in {"finished", "failed"} /\ UNCHANGED vars

Step == Loop \/ SetupOne \/ SetupEnds \/ Wait \/ HandleEvent \/ CloseConns \/ UpdateTimer
Next == Step \/ Fail \/ Second \/ (\E i \in Slots : Peer(i)) \/ Finished

\* The loop runs on, the clock too, and the timer, once set, fires in the end:
\* kevent reports it among the events of some batch.
TimerFires == Wait /\ \E k \in 1..Len(batch') : batch'[k] = TimerEvent
Fairness == WF_vars(Step) /\ SF_vars(Second) /\ SF_vars(TimerFires)

Spec == Init /\ [][Next]_vars /\ Fairness
----------------------------------------------------------------------------
(* Properties.                                                             *)

\* The ID set, the slots and the counter of active connections agree, through
\* batches that name a connection twice, refused connections and expiry:
\* otherwise slots leak and the run never ends, or two connections share one.
SlotsExact ==
  /\ active = Cardinality(Open)
  /\ Open = Slots \ free
  /\ Cardinality({conns[i].dst : i \in Open}) = active

\* Every destination is done with exactly once and has at most one banner; while
\* it is connected its data is not freed.  The events of a batch and the queue
\* of connections to close only name open ones.
EachDestinationOnce ==
  /\ \A d \in Dsts : banners[d] <= 1 /\ done[d] <= 1
  /\ \A i \in Open : done[conns[i].dst] = 0
  /\ pc = "handle" => /\ \A k \in 1..Len(batch) : batch[k].f # "timer" => conns[batch[k].i].open
                      /\ Range(closeq) \subseteq Open
  /\ pc \in {"finished", "failed"} => Open = {} /\ \A d \in 1..(next - 1) : done[d] = 1
  /\ pc = "finished" => next = conf.dsts + 1

\* With a delay per tick no more than connects_per_tick connections are started
\* between two expirations of the timer, however few events each batch has.
ConnectRate == delay => started <= ConnectsPerTick

\* With a delay per tick, a run ends although peers neither answer nor close:
\* expired connections are found although the timer is only set when none is
\* pending and kevent returns but connects_per_tick events at a time.
RunEnds == delay => <>(pc \in {"finished", "failed"})
====
