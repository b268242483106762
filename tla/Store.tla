------------------------------- MODULE Store -------------------------------
(***************************************************************************)
(* stored (apps/stored/store.c) and its clients: the store command         *)
(* (apps/store/main.c), the library under it (lib/ycl/yclcli_store.c,      *)
(* lib/ycl/opener.c) and knegd when it starts a job.  Both ends frame      *)
(* messages with ycl (lib/ycl/ycl.c) and share one buffer for receiving    *)
(* and sending.  The daemon is a service of eds: a handler that sets a     *)
(* callback runs it at once, so a callback is a frame of a stack here, and *)
(* clients run between any two frames.  A message is two chunks, so that   *)
(* reads can be short; writes only of a list, a status response fits into  *)
(* an empty socket buffer.                                                 *)
(***************************************************************************)
EXTENDS Integers, Sequences, FiniteSets

CONSTANTS
  MaxConns,    \* client connections at a time
  Ids, Names,  \* valid store IDs, valid file names
  Bad, None,   \* an ID or name that is not valid; NULL
  Cmds,        \* the commands clients run
  SockCap,     \* chunks of a list that a socket buffers towards the client
  Disk0, Index0,   \* files of the stores, and the index, at the start
  MaxCmds,     \* commands run in all
  MaxFaults    \* hang-ups in mid-command, crashes and removals of INDEX in all

ASSUME StoreAssumption ==
  /\ SockCap \in Nat \ {0} /\ MaxConns \in Nat
  /\ MaxCmds \in Nat /\ MaxFaults \in Nat
  /\ DOMAIN Disk0 \subseteq Ids /\ Index0 \in Seq(DOMAIN Disk0)
  /\ Bad \notin Ids \cup Names /\ None \notin Ids \cup Names \cup {Bad}

VARIABLES
  cl,          \* client processes: command, step of its script, buffers
  up, down,    \* the two directions of each connection
  sock,        \* none, pending in the backlog, accepted
  eds,         \* struct eds_client of each descriptor
  udata,       \* struct store_cli of each descriptor
  stk, cur,    \* callbacks in progress in the daemon, and whose they are
  held,        \* files the daemon has open, by connection
  files,       \* the files of each store that exists
  index,       \* index files, by inode
  link, fp,    \* inode INDEX names (0: none); inode sindex_ writes
  made,        \* serials of the commands a store was created for
  ncmds, faults

srvVars == <<eds, udata, stk, cur, held>>
diskVars == <<files, index, link, fp, made>>
bounds == <<ncmds, faults>>
vars == <<cl, up, down, sock, srvVars, diskVars, bounds>>

Conns == 1..MaxConns   \* their descriptors
Fd == 0   \* the part of a message that carries a descriptor (SCM_RIGHTS)
Chunks(m) == <<[m |-> m, part |-> 1], [m |-> m, part |-> 2]>>
Complete(d) == Len(d) >= 2 /\ d[1].part = 1 /\ d[2].part = 2
\* What netstring_tryparse calls a format error: bytes that do not begin a
\* message.
Malformed(d) == d # <<>> /\ d[1].part = 2

Fields == [act |-> None, id |-> None, name |-> None, to |-> None, ind |-> FALSE, ser |-> 0]
Enter(i, ind) == [Fields EXCEPT !.act = "enter", !.id = i, !.ind = ind]
Open(f, op) == [Fields EXCEPT !.act = "open", !.name = f, !.to = op]

Rename(from, to) == [Fields EXCEPT !.act = "rename", !.name = from, !.to = to]
List(i) == [Fields EXCEPT !.act = "list", !.id = i]
Index == [Fields EXCEPT !.act = "index"]

\* opener_init enters the store, opener_open and opener_fopen open a file in it.
Opener(i, f, op) == <<Enter(i, FALSE), Open(f, op)>>

\* The requests of a command, in order.
PutScript(cmd) == Opener(cmd.id, cmd.name, cmd.op)   \* put, append
GetScript(cmd) == Opener(cmd.id, cmd.name, "get")
RenameScript(cmd) == <<Enter(cmd.id, FALSE), Rename(cmd.name, cmd.to)>>
ListScript(cmd) == <<List(cmd.id)>>
IndexScript(cmd) == <<Index>>
\* start_job of knegd
JobScript(cmd) == <<Enter(cmd.id, TRUE), Open(cmd.name, "put")>>

\* The command that is run; "other" is another program, whose last request has
\* an action that stored does not have.
Script(cmd) ==
  CASE cmd.op \in {"put", "append"} -> PutScript(cmd)
    [] cmd.op = "get" -> GetScript(cmd)
    [] cmd.op = "rename" -> RenameScript(cmd)
    [] cmd.op = "list" -> ListScript(cmd)
    [] cmd.op = "index" -> IndexScript(cmd)
    [] cmd.op = "job" -> JobScript(cmd)
    [] cmd.op = "other" -> cmd.before \o <<[Fields EXCEPT !.act = "other"]>>

Resp(ok, i, list, s) == [act |-> "resp", ok |-> ok, id |-> i, list |-> list, ser |-> s]
Idle == [pc |-> "idle", cmd |-> None, step |-> 0, out |-> <<>>, buf |-> <<>>,
         ser |-> 0, page |-> <<>>]
NoClient == [inuse |-> FALSE, removed |-> FALSE, onr |-> None, onw |-> None,
             wr |-> 0, tr |-> "unset", tw |-> "unset"]
NoData == [msg |-> <<>>, next |-> 0, store |-> None, ofd |-> None, list |-> {}]

Init ==
  /\ cl = [c \in Conns |-> Idle]
  /\ up = [c \in Conns |-> <<>>] /\ down = [c \in Conns |-> <<>>]
  /\ sock = [c \in Conns |-> "none"]
  /\ eds = [c \in Conns |-> NoClient]
  /\ udata = [c \in Conns |-> NoData]
  /\ stk = <<>> /\ cur = None
  /\ held = [c \in Conns |-> {}]
  /\ files = Disk0
  /\ index = <<Index0>> /\ link = 1 /\ fp = 1
  /\ made = [i \in Ids |-> {}]
  /\ ncmds = 0 /\ faults = 0

Stores == DOMAIN files
Fault == faults < MaxFaults /\ faults' = faults + 1
Hungup(c) == cl[c].pc = "idle"          \* the client closed its end
SrvClosed(c) == sock[c] = "accepted" /\ ~eds[c].inuse

----------------------------------------------------------------------------
(* The clients.                                                            *)

\* accept() gives a connection the lowest descriptor that is free.
Free(c) == Hungup(c) /\ ~eds[c].inuse /\ sock[c] # "pending"

\* setup_cli_state, opener_init: connect; the command sends its first request.
Start(c) ==
  /\ Free(c) /\ \A d \in 1..(c - 1) : ~Free(d)
  /\ ncmds < MaxCmds
  /\ \E cmd \in Cmds :
       cl' = [cl EXCEPT ![c] =
                [Idle EXCEPT !.pc = "send", !.cmd = cmd, !.step = 1, !.ser = ncmds + 1,
                             !.out = Chunks([Script(cmd)[1] EXCEPT !.ser = ncmds + 1])]]
  /\ up' = [up EXCEPT ![c] = <<>>] /\ down' = [down EXCEPT ![c] = <<>>]
  /\ sock' = [sock EXCEPT ![c] = "pending"]
  /\ ncmds' = ncmds + 1
  /\ UNCHANGED <<srvVars, diskVars, faults>>

Request(c) == Script(cl[c].cmd)[cl[c].step]
AwaitsFd(c) == Request(c).act \in {"open", "index"}

\* yclcli_close: the command is over.
Close(c) == cl' = [cl EXCEPT ![c] = Idle]

\* ycl_sendmsg: write() of a part of the request.  When all is sent the buffer
\* is reset and the client waits for a message or a descriptor.
ClientSend(c) ==
  /\ cl[c].pc = "send"
  /\ IF SrvClosed(c)
     THEN Close(c) /\ UNCHANGED up
     ELSE /\ up' = [up EXCEPT ![c] = Append(@, Head(cl[c].out))]
          /\ cl' = [cl EXCEPT ![c].out = Tail(@),
                              ![c].pc = IF Len(cl[c].out) = 1 THEN "recv" ELSE "send"]
  /\ UNCHANGED <<down, sock, srvVars, diskVars, bounds>>

\* What the command does after an accepted request: the next one, or its
\* transfer (run_put, run_get, run_index), or the end.
NextRequest(c) ==
  LET s == cl[c].step + 1 IN
    cl' = [cl EXCEPT ![c].pc = "send", ![c].step = s, ![c].buf = <<>>,
                     ![c].out = Chunks([Script(cl[c].cmd)[s] EXCEPT !.ser = cl[c].ser])]
LastRequest(c) == cl[c].step = Len(Script(cl[c].cmd))

\* ycl_recvmsg (blocking) and the parsing of the response by
\* yclcli_store_enter, _list and _rename.
ClientRecvMsg(c) ==
  /\ cl[c].pc = "recv" /\ ~AwaitsFd(c)
  /\ \/ /\ down[c] # <<>>
        /\ down' = [down EXCEPT ![c] = Tail(@)]
        /\ LET d == Append(cl[c].buf, Head(down[c])) IN
             CASE Malformed(d) -> Close(c)
               [] Complete(d) /\ (d[1].m.act # "resp" \/ ~d[1].m.ok \/ LastRequest(c)) -> Close(c)
               [] Complete(d) /\ d[1].m.act = "resp" /\ d[1].m.ok /\ ~LastRequest(c) -> NextRequest(c)
               [] OTHER -> cl' = [cl EXCEPT ![c].buf = d]
     \/ /\ down[c] = <<>> /\ SrvClosed(c)
        /\ Close(c) /\ UNCHANGED down
  /\ UNCHANGED <<up, sock, srvVars, diskVars, bounds>>

\* ycl_recvfd, io_recvfd: the descriptor must be there and the error code 0,
\* a descriptor that comes with an error is closed.
ClientRecvFd(c) ==
  /\ cl[c].pc = "recv" /\ AwaitsFd(c)
  /\ \/ /\ down[c] # <<>>
        /\ down' = [down EXCEPT ![c] = Tail(@)]
        /\ LET d == Head(down[c]) IN
             IF d.part # Fd \/ ~d.m.ok
             THEN Close(c)
             ELSE cl' = [cl EXCEPT ![c].pc = "io", ![c].buf = <<d>>]
     \/ /\ down[c] = <<>> /\ SrvClosed(c)
        /\ Close(c) /\ UNCHANGED down
  /\ UNCHANGED <<up, sock, srvVars, diskVars, bounds>>

MinOf(a, b) == IF a < b THEN a ELSE b

\* An index with a part of an entry (Bad): its size is no multiple of that of
\* an entry, and what follows is not where it should be.
BadIndex(idx) == \E k \in DOMAIN idx : idx[k] = Bad

\* Mutant of SindexGet: the size of the index is not checked.
SindexGetUnchecked(idx, nelems, before) ==
  LET b == IF before = 0 THEN Len(idx) ELSE MinOf(before, Len(idx))
      n == MinOf(nelems, b)
  IN  [i \in 1..n |-> [pos |-> b - n + i - 1, e |-> idx[b - n + i]]]

\* sindex_get: the nelems entries before 'before' (0: the end), with the
\* position of each, or none of a bad index (get_nelems).
SindexGet(idx, nelems, before) ==
  LET b == IF before = 0 THEN Len(idx) ELSE MinOf(before, Len(idx))
      n == IF BadIndex(idx) THEN 0 ELSE MinOf(nelems, b)
  IN  [i \in 1..n |-> [pos |-> b - n + i - 1, e |-> idx[b - n + i]]]

\* run_index reads a page of the index, or fails.
RunIndex(c) ==
  /\ cl[c].cmd.op = "index" /\ cl[c].page = <<>>
  /\ LET p == SindexGet(index[cl[c].buf[1].m.ino], cl[c].cmd.n, cl[c].cmd.before) IN
       /\ p # <<>>
       /\ cl' = [cl EXCEPT ![c].page = p]

\* run_get, run_put: the transfer over the descriptor, which stored takes no
\* part in.  Then the command is over.
ClientIo(c) ==
  /\ cl[c].pc = "io"
  /\ RunIndex(c) \/ Close(c)
  /\ UNCHANGED <<up, down, sock, srvVars, diskVars, bounds>>

\* The client is interrupted or fails (out of memory, sandbox, fdopen).
ClientAbort(c) ==
  /\ cl[c].pc # "idle" /\ Fault
  /\ Close(c)
  /\ UNCHANGED <<up, down, sock, srvVars, diskVars, ncmds>>

----------------------------------------------------------------------------
(* eds, as far as stored uses it (see Eds).                                *)

Run(cb) == IF cb = None THEN <<>> ELSE <<cb>>
Return == stk' = Tail(stk)

Accept(c) ==
  /\ sock[c] = "pending" /\ stk = <<>> /\ cur = None
  /\ sock' = [sock EXCEPT ![c] = "accepted"]
  /\ eds' = [eds EXCEPT ![c] = [NoClient EXCEPT !.inuse = TRUE, !.onr = "store_on_readable"]]
  /\ UNCHANGED <<cl, up, down, udata, stk, cur, held, diskVars, bounds>>

\* select() reports a descriptor and the loop calls its action.
Event(c) ==
  /\ stk = <<>> /\ cur = None /\ eds[c].inuse
  /\ \/ eds[c].onr # None /\ (up[c] # <<>> \/ Hungup(c)) /\ stk' = <<eds[c].onr>>
     \/ eds[c].onw # None /\ (Len(down[c]) < SockCap \/ Hungup(c)) /\ stk' = <<eds[c].onw>>
  /\ cur' = c
  /\ UNCHANGED <<cl, up, down, sock, eds, udata, held, diskVars, bounds>>

\* Back in the loop: a client without actions is removed and its descriptor
\* closed.
Served ==
  /\ stk = <<>> /\ cur # None
  /\ cur' = None
  /\ eds' = IF eds[cur].onr = None /\ eds[cur].onw = None
            THEN [eds EXCEPT ![cur].inuse = FALSE, ![cur].removed = TRUE] ELSE eds
  /\ UNCHANGED <<cl, up, down, sock, udata, stk, held, diskVars, bounds>>

Top(f) == stk # <<>> /\ Head(stk) = f
ClearActions(c) == eds' = [eds EXCEPT ![c].onr = None, ![c].onw = None]

\* ycl_msg_create_* into the shared buffer and eds_client_send of it: tr and tw
\* are the transition.
SendMsg(c, m, e, tr, tw) ==
  /\ udata' = [udata EXCEPT ![c].msg = Chunks(m), ![c].next = 0]
  /\ eds' = [eds EXCEPT ![c] = [e EXCEPT !.onw = "send", !.wr = 2, !.tr = tr, !.tw = tw]]
  /\ stk' = <<"send">> \o Tail(stk)

\* on_eds_client_send: a write error removes the client, a short write waits,
\* and the last byte starts the transition, the read action first.
OnSend ==
  LET c == cur
      n == IF Head(udata[c].msg).m.list = {} THEN eds[c].wr
           ELSE MinOf(eds[c].wr, SockCap - Len(down[c]))
      done == [eds[c] EXCEPT !.wr = 0, !.tr = "unset",
                             !.onr = IF eds[c].tr = "unset" THEN @ ELSE eds[c].tr]
  IN
  /\ Top("send")
  /\ \/ /\ eds[c].wr > 0 /\ Hungup(c)
        /\ eds' = [eds EXCEPT ![c].inuse = FALSE, ![c].removed = TRUE,
                              ![c].onr = None, ![c].onw = None]
        /\ Return /\ UNCHANGED down
     \/ /\ eds[c].wr > 0 /\ ~Hungup(c)
        /\ down' = [down EXCEPT ![c] =
             @ \o SubSeq(udata[c].msg, Len(udata[c].msg) - eds[c].wr + 1,
                         Len(udata[c].msg) - eds[c].wr + n)]
        /\ IF n < eds[c].wr
           THEN eds' = [eds EXCEPT ![c].wr = @ - n] /\ Return
           ELSE /\ eds' = [eds EXCEPT ![c] = done]
                /\ stk' = (IF eds[c].tr = "unset" THEN <<>> ELSE Run(eds[c].tr))
                          \o <<"sendw">> \o Tail(stk)
  /\ UNCHANGED <<cl, up, sock, udata, cur, held, diskVars, bounds>>

\* ... then the write action, of whatever transition is set by then.
OnSendWritable ==
  /\ Top("sendw")
  /\ IF eds[cur].tw = "unset" \/ eds[cur].removed
     THEN Return /\ UNCHANGED eds
     ELSE /\ eds' = [eds EXCEPT ![cur].tw = "unset", ![cur].onw = eds[cur].tw]
          /\ stk' = Run(eds[cur].tw) \o Tail(stk)
  /\ UNCHANGED <<cl, up, down, sock, udata, cur, held, diskVars, bounds>>

----------------------------------------------------------------------------
(* The handlers of stored.                                                 *)

\* check_msg and ycl_recvmsg: what is left of the last message is moved to the
\* front; a complete one is taken, else all that has arrived is read.
Recv(c) ==
  LET d == IF udata[c].next > 0
           THEN SubSeq(udata[c].msg, udata[c].next + 1, Len(udata[c].msg)) ELSE udata[c].msg
      all == d \o up[c]
      read == ~Complete(d) /\ ~Malformed(d)
      res == CASE read /\ up[c] = <<>> -> IF Hungup(c) THEN "err" ELSE "again"
               [] read /\ up[c] # <<>> -> IF Malformed(all) THEN "err"
                                          ELSE IF Complete(all) THEN "ok"
                                          ELSE IF Hungup(c) THEN "err" ELSE "again"
               [] OTHER -> IF Complete(d) THEN "ok" ELSE "err"
  IN  [res |-> res,
       msg |-> IF read THEN all ELSE d,
       next |-> IF res = "ok" THEN 2 ELSE 0,
       up |-> IF read THEN <<>> ELSE up[c]]

\* The buffer after Recv, and the message in it.
Received(c, u) == [u EXCEPT !.msg = Recv(c).msg, !.next = Recv(c).next]
Taken(c) == up' = [up EXCEPT ![c] = Recv(c).up]
Msg(c) == Recv(c).msg[1].m

\* write_err_response: the actions are cleared, the message is sent with no
\* transition, which clears them again.
WriteErr(c, s) ==
  SendMsg(c, Resp(FALSE, None, {}, s), [eds[c] EXCEPT !.onr = None, !.onw = None], None, None)

\* Mutant of StoreOnReadable: the buffer of an earlier client is not reset.
StoreOnReadableNoReset ==
  /\ Top("store_on_readable")
  /\ eds' = [eds EXCEPT ![cur].onr = "on_readreq"]
  /\ stk' = <<"on_readreq">> \o Tail(stk)
  /\ UNCHANGED <<cl, up, down, sock, cur, held, udata, diskVars, bounds>>

\* store_on_readable: the first event of a connection.  The buffer, allocated
\* for an earlier client of the descriptor or now, is reset.
StoreOnReadable ==
  /\ Top("store_on_readable")
  /\ udata' = [udata EXCEPT ![cur].msg = <<>>, ![cur].next = 0]
  /\ eds' = [eds EXCEPT ![cur].onr = "on_readreq"]
  /\ stk' = <<"on_readreq">> \o Tail(stk)
  /\ UNCHANGED <<cl, up, down, sock, cur, held, diskVars, bounds>>

\* The end of on_readreq and on_readentered when no message is complete.
NoMessage(c) ==
  /\ udata' = [udata EXCEPT ![c] = Received(c, @)]
  /\ CASE Recv(c).res = "again" -> UNCHANGED eds
       [] Recv(c).res = "err" -> ClearActions(c)
  /\ Return
  /\ UNCHANGED <<held, diskVars>>

\* enter_store succeeds: the ID is valid and mkdir did not refuse it.
CanEnter(i, exclusive) == i \in Ids /\ (exclusive => i \notin Stores)

\* put_index: the entry is written, or the write fails, with a part of it
\* written or none.  The stream that a failed reinit_index left is closed.
PutIndex(i) ==
  \/ fp # 0 /\ \E e \in {i, Bad} : index' = [index EXCEPT ![fp] = Append(@, e)]
  \/ UNCHANGED index

\* The rest of an "enter": the directory is there; put_index if asked to, which
\* may fail; reading stops and the ID is sent.
Entered(c, i, m) ==
  /\ files' = [j \in Stores \cup {i} |-> IF j \in Stores THEN files[j] ELSE {}]
  /\ IF m.ind THEN PutIndex(i) ELSE UNCHANGED index
  /\ udata' = [udata EXCEPT ![c] =
       [@ EXCEPT !.msg = Chunks(Resp(TRUE, i, {}, m.ser)), !.next = 0, !.store = i]]
  /\ eds' = [eds EXCEPT ![c] = [@ EXCEPT !.onr = None, !.onw = "send", !.wr = 2,
                                         !.tr = "on_post_enter_response", !.tw = None]]
  /\ stk' = <<"send">> \o Tail(stk)

\* The "enter" request: the given store, created if need be, or a new one under
\* a random ID.  When all the IDs tried exist, or the ID is not valid, the
\* answer is an error.
HandleEnter(c) ==
  LET m == Msg(c) IN
  /\ m.act = "enter"
  /\ \/ /\ m.id # None /\ CanEnter(m.id, FALSE)
        /\ Entered(c, m.id, m)
        /\ UNCHANGED made
     \/ \E i \in Ids :
          /\ m.id = None /\ CanEnter(i, TRUE)
          /\ Entered(c, i, m)
          /\ made' = [made EXCEPT ![i] = @ \cup {m.ser}]
     \/ /\ IF m.id = None THEN \E i \in Ids : ~CanEnter(i, TRUE) ELSE ~CanEnter(m.id, FALSE)
        /\ WriteErr(c, m.ser)
        /\ UNCHANGED <<files, index, made>>
  /\ UNCHANGED <<held, link, fp>>

\* reinit_index, when INDEX was removed: the stream is closed and INDEX made
\* anew, or not.
ReinitIndex ==
  CASE link # 0 -> UNCHANGED <<index, link, fp>>
    [] link = 0 -> \/ /\ index' = Append(index, <<>>)
                      /\ link' = Len(index') /\ fp' = link'
                   \/ fp' = 0 /\ UNCHANGED <<index, link>>

\* The "index" request: INDEX is opened for reading; then on_index_response
\* passes the descriptor, or the error beside the null descriptor.
HandleIndex(c) ==
  LET m == Msg(c) IN
  /\ m.act = "index"
  /\ ReinitIndex
  /\ \E ok \in BOOLEAN :
       /\ ok => link' # 0
       /\ held' = IF ok THEN [held EXCEPT ![c] = @ \cup {<<"INDEX", link'>>}] ELSE held
       /\ udata' = [udata EXCEPT ![c] =
            [Received(c, @) EXCEPT !.ofd = [ok |-> ok, ino |-> link', ser |-> m.ser]]]
  /\ eds' = [eds EXCEPT ![c].onr = None, ![c].onw = "on_index_response"]
  /\ stk' = <<"on_index_response">> \o Tail(stk)
  /\ UNCHANGED <<files, made>>

\* handle_store_list: the names of the stores, or of the files of one.  An
\* error is sent with whatever the scratch buffer holds.
HandleList(c) ==
  LET m == Msg(c)
      ok == m.id \in Ids \cup {None}
      found == CASE m.id = None -> Stores
                 [] m.id \in Stores -> files[m.id]
                 [] OTHER -> {}
      list == IF ok THEN found ELSE udata[c].list
  IN
  /\ m.act = "list"
  /\ udata' = [udata EXCEPT ![c] = [@ EXCEPT !.msg = Chunks(Resp(ok, None, list, m.ser)),
                                             !.next = 0, !.list = list]]
  /\ eds' = [eds EXCEPT ![c] = [@ EXCEPT !.onw = "send", !.wr = 2,
                                         !.tr = "on_sent_store_list", !.tw = "on_sent_store_list"]]
  /\ stk' = <<"send">> \o Tail(stk)
  /\ UNCHANGED <<held, diskVars>>

\* on_readreq: a request of a client that has entered no store.
OnReadReq ==
  /\ Top("on_readreq")
  /\ Taken(cur)
  /\ \/ Recv(cur).res # "ok" /\ NoMessage(cur)
     \/ /\ Recv(cur).res = "ok"
        /\ \/ HandleEnter(cur)
           \/ HandleIndex(cur)
           \/ HandleList(cur)
           \/ /\ Msg(cur).act \notin {"enter", "index", "list"}
              /\ WriteErr(cur, Msg(cur).ser)
              /\ UNCHANGED <<held, diskVars>>
  /\ UNCHANGED <<cl, down, sock, cur, bounds>>

\* on_sent_store_list, which is both actions of its transition.
OnSentStoreList ==
  /\ Top("on_sent_store_list")
  /\ udata' = [udata EXCEPT ![cur].list = {}, ![cur].msg = <<>>, ![cur].next = 0]
  /\ eds' = [eds EXCEPT ![cur].onw = None, ![cur].onr = "on_readreq"]
  /\ stk' = <<"on_readreq">> \o Tail(stk)
  /\ UNCHANGED <<cl, up, down, sock, cur, held, diskVars, bounds>>

\* Mutant of OnPostEnterResponse: reading does not go on.
OnPostEnterResponseStays ==
  /\ Top("on_post_enter_response")
  /\ udata' = [udata EXCEPT ![cur].msg = <<>>, ![cur].next = 0]
  /\ Return
  /\ UNCHANGED <<cl, up, down, sock, eds, cur, held, diskVars, bounds>>

\* on_post_enter_response: the buffer is for requests again.
OnPostEnterResponse ==
  /\ Top("on_post_enter_response")
  /\ udata' = [udata EXCEPT ![cur].msg = <<>>, ![cur].next = 0]
  /\ eds' = [eds EXCEPT ![cur].onr = "on_readentered"]
  /\ stk' = <<"on_readentered">> \o Tail(stk)
  /\ UNCHANGED <<cl, up, down, sock, cur, held, diskVars, bounds>>

\* open(2) of a file in the entered store, for the three modes of the clients:
\* wb and ab create it, rb needs it.
CanOpen(c, m) ==
  /\ m.name \in Names
  /\ udata[c].store \in Stores
  /\ m.to = "get" => m.name \in files[udata[c].store]

\* handle_store_open: open, or an error code beside the null descriptor;
\* on_sendfd passes it.
HandleOpen(c) ==
  LET m == Msg(c)
      s == udata[c].store
  IN
  /\ m.act = "open"
  /\ IF CanOpen(c, m)
     THEN /\ files' = [files EXCEPT ![s] = @ \cup {m.name}]
          /\ held' = [held EXCEPT ![c] = @ \cup {<<s, m.name>>}]
     ELSE UNCHANGED <<files, held>>
  /\ udata' = [udata EXCEPT ![c] =
       [Received(c, @) EXCEPT !.ofd = [ok |-> CanOpen(c, m), ino |-> <<s, m.name>>, ser |-> m.ser]]]
  /\ eds' = [eds EXCEPT ![c].onr = None, ![c].onw = "on_sendfd"]
  /\ stk' = <<"on_sendfd">> \o Tail(stk)
  /\ UNCHANGED <<index, link, fp, made>>

\* handle_store_rename: rename(2) and a status response; reading goes on.
HandleRename(c) ==
  LET m == Msg(c)
      s == udata[c].store
      ok == m.name \in Names /\ m.to \in Names /\ s \in Stores /\ m.name \in files[s]
  IN
  /\ m.act = "rename"
  /\ files' = IF ok THEN [files EXCEPT ![s] = (@ \ {m.name}) \cup {m.to}] ELSE files
  /\ SendMsg(c, Resp(ok, None, {}, m.ser), eds[c], "on_post_enter_response", None)
  /\ UNCHANGED <<held, index, link, fp, made>>

\* on_readentered: a request of a client in a store.
OnReadEntered ==
  /\ Top("on_readentered")
  /\ Taken(cur)
  /\ \/ Recv(cur).res # "ok" /\ NoMessage(cur)
     \/ /\ Recv(cur).res = "ok"
        /\ \/ HandleOpen(cur)
           \/ HandleRename(cur)
           \/ /\ Msg(cur).act \notin {"open", "rename"}
              /\ WriteErr(cur, Msg(cur).ser)
              /\ UNCHANGED <<held, diskVars>>
  /\ UNCHANGED <<cl, down, sock, cur, bounds>>

\* ycl_sendfd: one message with the descriptor, if the socket takes it.
PassFd(c) == down' = [down EXCEPT ![c] = Append(@, [m |-> udata[c].ofd, part |-> Fd])]
SocketFull(c) == ~Hungup(c) /\ Len(down[c]) >= SockCap

\* Mutant of OnSendFd: the descriptor is closed only when it was passed.
OnSendFdKeeps ==
  /\ Top("on_sendfd")
  /\ CASE SocketFull(cur) -> Return /\ UNCHANGED <<down, held, eds>>
       [] Hungup(cur) -> ClearActions(cur) /\ Return /\ UNCHANGED <<down, held>>
       [] OTHER ->
            /\ PassFd(cur)
            /\ held' = [held EXCEPT ![cur] = {}]
            /\ eds' = [eds EXCEPT ![cur].onw = None, ![cur].onr = "on_readentered"]
            /\ stk' = <<"on_readentered">> \o Tail(stk)
  /\ UNCHANGED <<cl, up, sock, udata, cur, diskVars, bounds>>

\* on_sendfd: the descriptor is closed once it was passed or cannot be; then
\* the next request is read.
OnSendFd ==
  /\ Top("on_sendfd")
  /\ CASE SocketFull(cur) -> Return /\ UNCHANGED <<down, held, eds>>
       [] Hungup(cur) ->
            /\ held' = [held EXCEPT ![cur] = {}]
            /\ ClearActions(cur) /\ Return /\ UNCHANGED down
       [] OTHER ->
            /\ PassFd(cur)
            /\ held' = [held EXCEPT ![cur] = {}]
            /\ eds' = [eds EXCEPT ![cur].onw = None, ![cur].onr = "on_readentered"]
            /\ stk' = <<"on_readentered">> \o Tail(stk)
  /\ UNCHANGED <<cl, up, sock, udata, cur, diskVars, bounds>>

\* on_index_response: the same, and the connection is done with.
OnIndexResponse ==
  /\ Top("on_index_response")
  /\ Return
  /\ IF SocketFull(cur)
     THEN UNCHANGED <<down, held, eds>>
     ELSE /\ IF Hungup(cur) THEN UNCHANGED down ELSE PassFd(cur)
          /\ held' = [held EXCEPT ![cur] = {}]
          /\ ClearActions(cur)
  /\ UNCHANGED <<cl, up, sock, udata, cur, diskVars, bounds>>

Handler ==
  \/ OnSend \/ OnSendWritable \/ StoreOnReadable \/ OnReadReq \/ OnSentStoreList
  \/ OnPostEnterResponse \/ OnReadEntered \/ OnSendFd \/ OnIndexResponse

----------------------------------------------------------------------------
(* Outside.                                                                *)

\* The daemon dies at any point and its supervisor starts another: store_init,
\* init_index.
Crash ==
  /\ Fault
  /\ eds' = [c \in Conns |-> NoClient] /\ udata' = [c \in Conns |-> NoData]
  /\ stk' = <<>> /\ cur' = None /\ held' = [c \in Conns |-> {}]
  /\ index' = IF link # 0 THEN index ELSE Append(index, <<>>)
  /\ link' = IF link # 0 THEN link ELSE Len(index) + 1
  /\ fp' = link'
  /\ UNCHANGED <<cl, up, down, sock, files, made, ncmds>>

\* Someone removes INDEX, which reinit_index provides for.
UnlinkIndex ==
  /\ Fault /\ link # 0
  /\ link' = 0
  /\ UNCHANGED <<cl, up, down, sock, srvVars, files, index, fp, made, ncmds>>

Quiet ==
  /\ ncmds = MaxCmds /\ stk = <<>> /\ cur = None
  /\ \A c \in Conns : Free(c)
  /\ UNCHANGED vars

\* The handlers read and write nothing of a connection that they do not serve:
\* the steps of its client are taken before or after them.
Turn(c) == cur \in {None, c}
Client(c) == Turn(c) /\ (ClientSend(c) \/ ClientRecvMsg(c) \/ ClientRecvFd(c) \/ ClientIo(c))
Daemon == Handler \/ Served \/ \E c \in Conns : Accept(c) \/ Event(c)

Next ==
  \/ \E c \in Conns : Client(c) \/ (Turn(c) /\ (Start(c) \/ ClientAbort(c)))
  \/ Daemon \/ Crash \/ UnlinkIndex \/ Quiet

\* The daemon and the clients are scheduled, and select() reports every ready
\* descriptor in its round.
Fairness ==
  /\ WF_vars(Handler \/ Served)
  /\ \A c \in Conns : WF_vars(Client(c)) /\ SF_vars(Accept(c) \/ Event(c))

Spec == Init /\ [][Next]_vars /\ Fairness
----------------------------------------------------------------------------
(* Properties.                                                             *)

\* A client only ever gets the answer to the request it sent: whatever is on
\* its way to a client carries the serial of its command, and is a descriptor
\* exactly when the client waits for one (io_recvfd refuses a message, and
\* ycl_recvmsg would read a descriptor's bytes as text).  The daemon reuses the
\* buffers of a descriptor for its next client, and one buffer for requests
\* and responses.
RepliesMatch ==
  \A c \in Conns : cl[c].pc \in {"recv", "send"} =>
    \A k \in 1..Len(down[c]) :
      /\ down[c][k].m.ser = cl[c].ser
      /\ cl[c].pc = "recv" /\ ((down[c][k].part = Fd) <=> AwaitsFd(c))

\* No store is made for two clients: the IDs come from a generator seeded with
\* the time, so only the exclusive mkdir of enter_store keeps them apart, and
\* across restarts too.
StoresMadeOnce == \A i \in Ids : Cardinality(made[i]) <= 1

\* A client gets the answers to its own commands only, and no other client is
\* given the store that was made for it.
AnswersOwn == RepliesMatch /\ StoresMadeOnce

\* A file that stored opened for a client stays open in the daemon only until
\* on_sendfd or on_index_response has run, whatever becomes of the client.
FdsReleased ==
  \A c \in Conns : held[c] # {} =>
    /\ eds[c].inuse
    /\ eds[c].onw \in {"on_sendfd", "on_index_response"}

\* The index never names a store that is not on disk, after a crash or after
\* INDEX was removed either; put_index writes to the file that INDEX names, if
\* it names one; and the entries of a page that a client got are stores, those
\* of their positions, up to the position it asked for, also when put_index
\* failed in the middle of an entry.
IndexExact ==
  /\ \A n \in 1..Len(index) : \A k \in 1..Len(index[n]) : index[n][k] \in Stores \cup {Bad}
  /\ link # 0 => fp = link
  /\ \A c \in Conns : LET p == cl[c].page IN
       p # <<>> =>
         /\ Len(p) <= cl[c].cmd.n
         /\ \A k \in 1..Len(p) :
              /\ p[k].pos < Len(index[cl[c].buf[1].m.ino])
              /\ index[cl[c].buf[1].m.ino][p[k].pos + 1] = p[k].e
              /\ p[k].e \in Stores
              /\ p[k].pos = p[1].pos + k - 1
         /\ cl[c].cmd.before # 0 => p[Len(p)].pos < cl[c].cmd.before

\* Every command comes to an end: its request is answered or the connection is
\* closed, with any other clients, short writes, hang-ups and a crash.  (The
\* number of commands is bounded: in the end no client is left waiting.)
CommandsEnd == <>[](\A c \in Conns : cl[c].pc = "idle")
====
