-------------------------------- MODULE Eds --------------------------------
(***************************************************************************)
(* The select(2) loop of an eds listener process and the client API its    *)
(* callbacks use (lib/util/eds.c).  The service is arbitrary: a callback   *)
(* makes any sequence of API calls, on its own client and on others, that  *)
(* the services of the repository could make.  A call such as              *)
(* eds_client_set_on_readable runs the new callback at once, so callbacks  *)
(* nest; the stack holds what is still to be done when they return.        *)
(***************************************************************************)
EXTENDS Integers, Sequences, FiniteSets

CONSTANTS
  NFds,      \* svc->nfds, the number of client structures
  MaxFd,     \* the highest descriptor the kernel gives the process
  MaxOps,    \* bound: API calls made by callbacks in one round of the loop
  MaxDepth,  \* bound: nested callbacks
  Transitions \* the eds_transitions the service passes to eds_client_send

ASSUME EdsAssumption ==
  /\ NFds \in Nat \ {0}
  /\ MaxFd \in Nat \ {0}
  /\ MaxOps \in Nat
  /\ MaxDepth \in Nat
  /\ Transitions \subseteq [r : {"keep", "null", "cb"}, w : {"keep", "null", "cb"}]

VARIABLES
  inuse,     \* descriptors whose client has EDS_CLIENT_IN_USE
  removed,   \* ... EDS_CLIENT_REMOVED
  susp,      \* ... EDS_CLIENT_RSUSPEND
  ext,       \* ... EDS_CLIENT_FEXTERNALFD
  onr,       \* descriptors whose client has an on_readable callback
  onw,       \* on_writable: none, a callback, or on_eds_client_send
  trans,     \* the pending eds_transition
  unsent,    \* descriptors whose client has wrdatalen > 0
  ticker,    \* descriptors whose client has a ticker
  ntickers,  \* l->ntickers
  rfds, wfds,\* l->rfds and l->wfds without cmdfd
  cmd,       \* cmdfd is in l->rfds
  open,      \* descriptors the kernel has open
  rsel, wsel,\* the sets select() returned
  num,       \* num_fds; the local ntickers of run_tickers
  at,        \* descriptor the loop is at
  pc,        \* where the loop is
  stack,     \* callbacks and calls in progress, innermost first
  ops        \* API calls in this round

flagVars == <<inuse, removed, susp, ext>>
sendVars == <<trans, unsent>>
tickVars == <<ticker, ntickers>>
setVars == <<rfds, wfds, cmd>>
selVars == <<rsel, wsel, num, at>>
vars == <<inuse, removed, susp, ext, onr, onw, trans, unsent, ticker, ntickers,
          rfds, wfds, cmd, open, rsel, wsel, num, at, pc, stack, ops>>

Fds == 1..MaxFd
Frame(k, f) == [k |-> k, fd |-> f]
Frames == [k : {"cb", "done", "write", "sendw", "fin"}, fd : Fds]
Callbacks == {"cb", "done"}
Action == {"keep", "null", "cb"}   \* keep: the transition's flag is not set
Transition == [r : Action, w : Action]
NoTransition == [r |-> "keep", w |-> "keep"]

Init ==
  /\ inuse = {} /\ removed = {} /\ susp = {} /\ ext = {} /\ onr = {}
  /\ onw = [f \in Fds |-> "none"]
  /\ trans = [f \in Fds |-> NoTransition]
  /\ unsent = {} /\ ticker = {} /\ ntickers = 0
  /\ rfds = {} /\ wfds = {} /\ cmd = TRUE /\ open = {}
  /\ rsel = {} /\ wsel = {} /\ num = 0 /\ at = 1
  /\ pc = "select"
  /\ stack = <<>>
  /\ ops = 0

NoActions(f) == f \notin susp /\ f \notin onr /\ onw[f] = "none"
Push(frames) == stack' = frames \o stack
Free == Fds \ open
LowestFree == CHOOSE f \in Free : \A g \in Free : f <= g

----------------------------------------------------------------------------
(* Adding and removing clients.                                            *)

\* eds_service_add_client on a new descriptor, with an on_readable action.
\* The client structure is zeroed; polling of cmdfd stops at the limit.
AddClient(f) ==
  /\ open' = open \cup {f}
  /\ inuse' = inuse \cup {f}
  /\ removed' = removed \ {f}
  /\ susp' = susp \ {f}
  /\ ext' = ext \ {f}
  /\ onr' = onr \cup {f}
  /\ onw' = [onw EXCEPT ![f] = "none"]
  /\ trans' = [trans EXCEPT ![f] = NoTransition]
  /\ unsent' = unsent \ {f}
  /\ ticker' = ticker \ {f}
  /\ rfds' = rfds \cup {f}
  /\ cmd' = (cmd /\ f < NFds - 1)
  /\ UNCHANGED <<ntickers, wfds>>

\* eds_service_remove_client up to the call of on_done; frames is what is on
\* the stack below it.  A client that is being removed is left alone.
RemoveClient(f, frames) ==
  IF f \in removed
  THEN stack' = frames /\ UNCHANGED <<removed, inuse>>
  ELSE /\ removed' = removed \cup {f}
       /\ inuse' = inuse \ {f}
       /\ stack' = <<Frame("done", f), Frame("fin", f)>> \o frames

\* Mutant of FinishRemove: the bit in wfds is left.
FinishRemoveKeepsBits ==
  /\ stack # <<>>
  /\ Head(stack).k = "fin"
  /\ LET f == Head(stack).fd IN
       /\ ntickers' = IF f \in ticker THEN ntickers - 1 ELSE ntickers
       /\ ticker' = ticker \ {f}
       /\ open' = IF f \in ext THEN open ELSE open \ {f}
       /\ ext' = ext \cup {f}
       /\ rfds' = rfds \ {f}
       /\ UNCHANGED wfds
       /\ cmd' = TRUE
  /\ stack' = Tail(stack)
  /\ UNCHANGED <<inuse, removed, susp, onr, onw, sendVars, selVars, pc, ops>>

\* The rest of eds_service_remove_client, after on_done has returned.
FinishRemove ==
  /\ stack # <<>>
  /\ Head(stack).k = "fin"
  /\ LET f == Head(stack).fd IN
       /\ ntickers' = IF f \in ticker THEN ntickers - 1 ELSE ntickers
       /\ ticker' = ticker \ {f}
       /\ open' = IF f \in ext THEN open ELSE open \ {f}
       /\ ext' = ext \cup {f}
       /\ rfds' = rfds \ {f}
       /\ wfds' = wfds \ {f}
       /\ cmd' = TRUE
  /\ stack' = Tail(stack)
  /\ UNCHANGED <<inuse, removed, susp, onr, onw, sendVars, selVars, pc, ops>>

----------------------------------------------------------------------------
(* The main loop, eds_serve_single_mainloop.  It runs when no callback does. *)

LoopAt(l) == stack = <<>> /\ pc = l

\* select() reports a set of ready descriptors, times out when there are
\* tickers, or is interrupted (then nothing changes).
Select ==
  /\ LoopAt("select")
  /\ rsel' \in SUBSET rfds
  /\ wsel' \in SUBSET wfds
  /\ \E c \in {FALSE, cmd} :
       /\ c \/ rsel' # {} \/ wsel' # {} \/ ntickers > 0
       /\ num' = Cardinality(rsel') + Cardinality(wsel') + (IF c THEN 1 ELSE 0)
       /\ pc' = IF c THEN "accept" ELSE "scan"
  /\ at' = 1
  /\ ops' = 0
  /\ UNCHANGED <<flagVars, onr, onw, sendVars, tickVars, setVars, open, stack>>

\* Mutant of Accept: the new client is not counted in num_fds.
AcceptMiscounts ==
  /\ LoopAt("accept")
  /\ Free # {}
  /\ AddClient(LowestFree)
  /\ IF num > 1 THEN rsel' = rsel \cup {LowestFree} ELSE UNCHANGED rsel
  /\ num' = num - 1
  /\ pc' = "scan"
  /\ UNCHANGED <<wsel, at, stack, ops>>

\* A connection becomes a client; with other events at hand its on_readable
\* is tried in this round too.
Accept ==
  /\ LoopAt("accept")
  /\ Free # {}
  /\ AddClient(LowestFree)
  /\ IF num > 1
     THEN rsel' = rsel \cup {LowestFree} /\ UNCHANGED num
     ELSE num' = num - 1 /\ UNCHANGED rsel
  /\ pc' = "scan"
  /\ UNCHANGED <<wsel, at, stack, ops>>

\* accept4() fails: transient errors start the round over, others (no free
\* descriptor among them) leave the loop for eds_service_cleanup.
AcceptFails ==
  /\ LoopAt("accept")
  /\ pc' \in (IF Free = {} THEN {} ELSE {"select"}) \cup {"cleanup"}
  /\ at' = 1
  /\ UNCHANGED <<flagVars, onr, onw, sendVars, tickVars, setVars, open, rsel, wsel, num, stack, ops>>

\* The local variables of a round are dead at its end.
EndScan == rsel' = {} /\ wsel' = {} /\ num' = 0 /\ at' = 1

\* The loop over the descriptors that are ready.
Scan ==
  /\ LoopAt("scan")
  /\ IF num = 0 \/ at \notin Fds
     THEN pc' = "tick" /\ EndScan
     ELSE /\ IF at \in rsel \cup wsel
             THEN /\ num' = num - 1
                  /\ IF at \in removed
                     THEN at' = at + 1 /\ UNCHANGED pc
                     ELSE pc' = "readable" /\ UNCHANGED at
             ELSE at' = at + 1 /\ UNCHANGED <<num, pc>>
          /\ UNCHANGED <<rsel, wsel>>
  /\ UNCHANGED <<flagVars, onr, onw, sendVars, tickVars, setVars, open, stack, ops>>

CallReadable ==
  /\ LoopAt("readable")
  /\ Push(IF at \in rsel /\ at \in onr THEN <<Frame("cb", at)>> ELSE <<>>)
  /\ pc' = "writable"
  /\ UNCHANGED <<flagVars, onr, onw, sendVars, tickVars, setVars, open, selVars, ops>>

CallWritable ==
  /\ LoopAt("writable")
  /\ IF at \in removed
     THEN pc' = "scan" /\ at' = at + 1 /\ UNCHANGED stack
     ELSE /\ Push(IF at \in wsel /\ onw[at] # "none"
                  THEN <<Frame(IF onw[at] = "send" THEN "write" ELSE "cb", at)>>
                  ELSE <<>>)
          /\ pc' = "post"
          /\ UNCHANGED at
  /\ UNCHANGED <<flagVars, onr, onw, sendVars, tickVars, setVars, open, rsel, wsel, num, ops>>

\* A client without actions is done, after its events or after its ticker.
Post(here, next) ==
  /\ LoopAt(here)
  /\ IF NoActions(at) THEN RemoveClient(at, stack) ELSE UNCHANGED <<removed, inuse, stack>>
  /\ pc' = next
  /\ at' = at + 1
  /\ UNCHANGED <<susp, ext, onr, onw, sendVars, tickVars, setVars, open, rsel, wsel, num, ops>>

PostEvents == Post("post", "scan")
PostTicker == Post("tickpost", "tickers")

\* At the end of a round the tickers run if the time slice is over.
Tick ==
  /\ LoopAt("tick")
  /\ \/ ntickers > 0 /\ pc' = "tickers" /\ num' = ntickers /\ at' = 1
     \/ pc' = "select" /\ UNCHANGED <<num, at>>
  /\ ops' = 0
  /\ UNCHANGED <<flagVars, onr, onw, sendVars, tickVars, setVars, open, rsel, wsel, stack>>

\* One round of run_tickers.
RunTicker ==
  /\ LoopAt("tickers")
  /\ IF num = 0 \/ at \notin Fds
     THEN pc' = "select" /\ EndScan /\ UNCHANGED stack
     ELSE /\ IF at \in ticker
             THEN Push(<<Frame("cb", at)>>) /\ num' = num - 1 /\ pc' = "tickpost" /\ UNCHANGED at
             ELSE at' = at + 1 /\ UNCHANGED <<num, pc, stack>>
          /\ UNCHANGED <<rsel, wsel>>
  /\ UNCHANGED <<flagVars, onr, onw, sendVars, tickVars, setVars, open, ops>>

\* EDS_SERVICE_STOPPED leaves the loop; eds_service_cleanup then removes
\* every client of the table that is in one of the sets.
Stop ==
  /\ LoopAt("select")
  /\ pc' = "cleanup"
  /\ at' = 1
  /\ ops' = 0
  /\ UNCHANGED <<flagVars, onr, onw, sendVars, tickVars, setVars, open, rsel, wsel, num, stack>>

CleanupClient ==
  /\ LoopAt("cleanup")
  /\ IF at \in Fds /\ at < NFds
     THEN /\ IF at \in rfds \cup wfds
             THEN RemoveClient(at, stack)
             ELSE UNCHANGED <<removed, inuse, stack>>
          /\ at' = at + 1
          /\ UNCHANGED pc
     ELSE pc' = "stopped" /\ UNCHANGED <<removed, inuse, stack, at>>
  /\ UNCHANGED <<susp, ext, onr, onw, sendVars, tickVars, setVars, open, rsel, wsel, num, ops>>

----------------------------------------------------------------------------
(* on_eds_client_send, called from the loop or from eds_client_send.       *)

\* Mutant of WriteTransition: a client that its on_readable removed is not
\* looked at again.
WriteTransitionIgnoresRemoved(f, tr, frames) ==
  IF tr.w = "keep"
  THEN stack' = frames /\ UNCHANGED <<onw, wfds>>
  ELSE IF tr.w = "null"
       THEN /\ onw' = [onw EXCEPT ![f] = "none"]
            /\ wfds' = wfds \ {f}
            /\ stack' = frames
       ELSE /\ onw' = [onw EXCEPT ![f] = "cb"]
            /\ wfds' = wfds \cup {f}
            /\ stack' = <<Frame("cb", f)>> \o frames

\* The write transition of a completed send.
WriteTransition(f, tr, frames) ==
  IF tr.w = "keep"
  THEN stack' = frames /\ UNCHANGED <<onw, wfds>>
  ELSE IF f \in removed
       THEN stack' = frames /\ UNCHANGED <<onw, wfds>>
       ELSE IF tr.w = "null"
            THEN /\ onw' = [onw EXCEPT ![f] = "none"]
                 /\ wfds' = wfds \ {f}
                 /\ stack' = frames
            ELSE /\ onw' = [onw EXCEPT ![f] = "cb"]
                 /\ wfds' = wfds \cup {f}
                 /\ stack' = <<Frame("cb", f)>> \o frames

\* A write that blocks or is partial waits for the next round; an error
\* removes the client.
WriteBlocks ==
  /\ stack # <<>> /\ Head(stack).k = "write"
  /\ Head(stack).fd \in unsent
  /\ stack' = Tail(stack)
  /\ UNCHANGED <<flagVars, onr, onw, sendVars, tickVars, setVars, open, selVars, pc, ops>>

WriteFails ==
  /\ stack # <<>> /\ Head(stack).k = "write"
  /\ Head(stack).fd \in unsent
  /\ RemoveClient(Head(stack).fd, Tail(stack))
  /\ UNCHANGED <<susp, ext, onr, onw, sendVars, tickVars, setVars, open, selVars, pc, ops>>

\* Everything is written: the read transition is made, which may run the new
\* on_readable callback before the write transition.
WriteCompletes ==
  /\ stack # <<>> /\ Head(stack).k = "write"
  /\ LET f == Head(stack).fd
         tr == trans[f]
     IN /\ unsent' = unsent \ {f}
        /\ CASE tr.r = "cb" /\ f \notin removed ->
                  /\ trans' = [trans EXCEPT ![f].r = "keep"]
                  /\ onr' = onr \cup {f}
                  /\ rfds' = rfds \cup {f}
                  /\ susp' = susp \ {f}
                  /\ stack' = <<Frame("cb", f), Frame("sendw", f)>> \o Tail(stack)
                  /\ UNCHANGED <<onw, wfds>>
             [] OTHER ->
                  /\ trans' = [trans EXCEPT ![f] = NoTransition]
                  /\ IF tr.r = "null" /\ f \notin removed
                     THEN onr' = onr \ {f} /\ rfds' = rfds \ {f}
                     ELSE UNCHANGED <<onr, rfds>>
                  /\ UNCHANGED susp
                  /\ WriteTransition(f, tr, Tail(stack))
  /\ UNCHANGED <<inuse, removed, ext, tickVars, cmd, open, selVars, pc, ops>>

\* The on_readable callback has returned: the write transition, of whatever
\* cli->trans holds by now.
ResumeSend ==
  /\ stack # <<>> /\ Head(stack).k = "sendw"
  /\ LET f == Head(stack).fd IN
       /\ trans' = [trans EXCEPT ![f].w = "keep"]
       /\ WriteTransition(f, trans[f], Tail(stack))
  /\ UNCHANGED <<flagVars, onr, unsent, tickVars, rfds, cmd, open, selVars, pc, ops>>

----------------------------------------------------------------------------
(* API calls of a running callback.  The service keeps pointers to clients *)
(* that are in use, and to the client the callback was called for.         *)

Running == stack # <<>> /\ Head(stack).k \in Callbacks
Self == Head(stack).fd
Targets == inuse \cup {Self}
Call == Running /\ ops < MaxOps /\ ops' = ops + 1

\* The callback set by a call without EDS_DEFER runs inside the call.
Nested(f, defer) ==
  IF defer THEN UNCHANGED stack
           ELSE Len(stack) < MaxDepth /\ Push(<<Frame("cb", f)>>)

SetOnReadable(f) ==
  /\ Call
  /\ f \in Targets \ removed
  /\ \/ onr' = onr \ {f} /\ rfds' = rfds \ {f} /\ UNCHANGED <<susp, stack>>
     \/ /\ onr' = onr \cup {f}
        /\ rfds' = rfds \cup {f}
        /\ susp' = susp \ {f}
        /\ \E defer \in BOOLEAN : Nested(f, defer)
  /\ UNCHANGED <<inuse, removed, ext, onw, sendVars, tickVars, wfds, cmd, open, selVars, pc>>

SuspendReadable(f) ==
  /\ Call
  /\ f \in Targets \ removed
  /\ onr' = onr \ {f}
  /\ susp' = susp \cup {f}
  /\ UNCHANGED <<inuse, removed, ext, onw, sendVars, tickVars, setVars, open, selVars, pc, stack>>

\* Unlike the other calls, this one has an effect on a removed client.
ClearActions(f) ==
  /\ Call
  /\ f \in Targets
  /\ onr' = onr \ {f}
  /\ onw' = [onw EXCEPT ![f] = "none"]
  /\ susp' = susp \ {f}
  /\ rfds' = rfds \ {f}
  /\ wfds' = wfds \ {f}
  /\ UNCHANGED <<inuse, removed, ext, sendVars, tickVars, cmd, open, selVars, pc, stack>>

SetOnWritable(f) ==
  /\ Call
  /\ f \in Targets \ removed
  /\ \/ onw' = [onw EXCEPT ![f] = "none"] /\ wfds' = wfds \ {f} /\ UNCHANGED stack
     \/ /\ onw' = [onw EXCEPT ![f] = "cb"]
        /\ wfds' = wfds \cup {f}
        /\ \E defer \in BOOLEAN : Nested(f, defer)
  /\ UNCHANGED <<flagVars, onr, sendVars, tickVars, rfds, cmd, open, selVars, pc>>

\* eds_client_send: the first write is tried at once.
Send(f) ==
  /\ Call
  /\ f \in Targets \ removed
  /\ \E tr \in Transitions : trans' = [trans EXCEPT ![f] = tr]
  /\ unsent' = unsent \cup {f}
  /\ onw' = [onw EXCEPT ![f] = "send"]
  /\ wfds' = wfds \cup {f}
  /\ Len(stack) < MaxDepth
  /\ Push(<<Frame("write", f)>>)
  /\ UNCHANGED <<flagVars, onr, tickVars, rfds, cmd, open, selVars, pc>>

\* eds_client_set_ticker with a ticker or NULL.  It does not look at the
\* flags: that no callback sets the ticker of a client it has removed is left
\* to the services.
SetTicker(f) ==
  /\ Call
  /\ f \in Targets \ removed
  /\ \/ ticker' = ticker \cup {f} /\ ntickers' = IF f \in ticker THEN ntickers ELSE ntickers + 1
     \/ ticker' = ticker \ {f} /\ ntickers' = IF f \in ticker THEN ntickers - 1 ELSE ntickers
  /\ UNCHANGED <<flagVars, onr, onw, sendVars, setVars, open, selVars, pc, stack>>

RemoveCall(f) ==
  /\ Call
  /\ f \in Targets
  /\ Len(stack) < MaxDepth
  /\ RemoveClient(f, stack)
  /\ UNCHANGED <<susp, ext, onr, onw, sendVars, tickVars, setVars, open, selVars, pc>>

\* A callback adds a client for a descriptor it opened.
AddCall ==
  /\ Call
  /\ Free # {}
  /\ AddClient(LowestFree)
  /\ UNCHANGED <<selVars, pc, stack>>

Return ==
  /\ Running
  /\ stack' = Tail(stack)
  /\ UNCHANGED <<flagVars, onr, onw, sendVars, tickVars, setVars, open, selVars, pc, ops>>

Finished ==
  /\ stack = <<>>
  /\ pc = "stopped"
  /\ UNCHANGED vars

Loop ==
  \/ Select \/ Accept \/ AcceptFails \/ Scan \/ CallReadable \/ CallWritable
  \/ PostEvents \/ PostTicker \/ Tick \/ RunTicker \/ Stop \/ CleanupClient \/ Finished

Service ==
  \/ \E f \in Fds : \/ SetOnReadable(f) \/ SuspendReadable(f) \/ ClearActions(f)
                    \/ SetOnWritable(f) \/ Send(f) \/ SetTicker(f) \/ RemoveCall(f)
  \/ AddCall
  \/ Return

Next ==
  \/ Loop
  \/ Service
  \/ WriteBlocks \/ WriteFails \/ WriteCompletes \/ ResumeSend
  \/ FinishRemove

Spec == Init /\ [][Next]_vars

----------------------------------------------------------------------------
(* Properties.                                                             *)

LoopPcs == {"select", "accept", "scan", "readable", "writable", "post", "tick",
            "tickers", "tickpost", "cleanup", "stopped"}

\* Every variable stays in its domain.
TypeOK ==
  /\ inuse \subseteq Fds /\ removed \subseteq Fds /\ susp \subseteq Fds
  /\ ext \subseteq Fds /\ onr \subseteq Fds
  /\ onw \in [Fds -> {"none", "cb", "send"}]
  /\ trans \in [Fds -> Transition]
  /\ unsent \subseteq Fds
  /\ ticker \subseteq Fds /\ ntickers \in Nat
  /\ rfds \subseteq Fds /\ wfds \subseteq Fds /\ cmd \in BOOLEAN /\ open \subseteq Fds
  /\ rsel \subseteq Fds /\ wsel \subseteq Fds /\ num \in Nat /\ at \in 1..(MaxFd + 1)
  /\ pc \in LoopPcs
  /\ stack \in Seq(Frames)
  /\ ops \in 0..MaxOps

\* Clients whose removal has begun and waits for on_done to return.
Finishing == {stack[n].fd : n \in {m \in 1..Len(stack) : stack[m].k = "fin"}}

\* A client in use is polled exactly for the callbacks it has (a suspended
\* one may still be in rfds), and nothing is polled for a client that is gone:
\* the bits of l->rfds and l->wfds follow the actions through every nesting of
\* callbacks, removals and transitions.
BitsMatchActions ==
  /\ \A f \in inuse :
       /\ f \in onr => f \in rfds
       /\ f \in rfds => f \in onr \cup susp
       /\ f \in wfds <=> onw[f] # "none"
  /\ (rfds \cup wfds) \subseteq (inuse \cup Finishing)

\* A descriptor is open exactly as long as its client is in use or being
\* removed: none is leaked by remove_client, and select() is never called
\* with a closed one, which would end the listener with EBADF.
OpenWhileInUse == open = inuse \cup Finishing

\* l->ntickers is the number of clients with a ticker.
TickersCounted == ntickers = Cardinality(ticker)

\* Descriptor sets, open descriptors and the ticker count all follow the
\* client table, however removals, sends and actions nest in callbacks.
ClientsConsistent == BitsMatchActions /\ OpenWhileInUse /\ TickersCounted

\* num_fds never runs out before the last ready descriptor: no event that
\* select() reported is skipped, although accept and removals change the
\* sets while they are scanned.
NoEventSkipped ==
  pc = "scan" => num >= Cardinality({f \in rsel \cup wsel : f >= at})

\* A step enters a call: it adds frames to the stack or, when the call is the
\* last thing on_eds_client_send does, puts the call's frame in place of its
\* own.  A step that only returns shortens the stack.
Enters == stack' # stack /\ Len(stack') >= Len(stack)
Calls(k) == Enters /\ Head(stack').k = k

\* No callback but on_done is called for a client that has been removed, and
\* none is called for a structure that no connection uses.  That includes the
\* on_writable that a completed send sets and runs after an on_readable that
\* may have removed the client.
NoLateCallback ==
  (Calls("cb") \/ Calls("write")) => Head(stack').fd \in inuse \ removed

\* on_done is called once for each client, when it is removed, however the
\* removals of several clients nest.
DoneOnce ==
  \A f \in Fds : (f \in inuse /\ f \notin inuse') <=> (Calls("done") /\ Head(stack').fd = f)

\* A service gets its callbacks only between the accept and the removal of a
\* client and on_done exactly once at the end, even when a callback removes
\* clients whose events this round has still to deliver.
CallbacksInLifetime == [][NoLateCallback /\ DoneOnce]_vars

\* "stop accepting connections on cmdfd if we have reached the set limit"
\* (eds_service_add_client): every connection that is accepted has one of the
\* nfds client structures.
LimitKept ==
  [][pc = "accept" /\ pc' = "scan" => \A f \in inuse' \ inuse : f < NFds]_vars

\* "send a piece of data, and transition to the next state on success"
\* (eds.h): as long as data handed to eds_client_send is not written, only a
\* call of the service takes its writer away.
SentDataKeepsWriter ==
  [][\A f \in unsent \cap unsent' :
       onw[f] = "send" /\ onw'[f] # "send" => ops' > ops]_vars
============================================================================
