------------------------------ MODULE Webfetch ------------------------------
(***************************************************************************)
(* webfetch (apps/webfetch): HTTP requests read from a file are fetched by *)
(* a fixed number of transfers, each taking the next request when it is    *)
(* done.  libcurl does the transfers; it runs inside curl_multi_perform,   *)
(* hands over what it receives in chunks of any size and queues a message  *)
(* for every transfer that ends, well or not.  A completed transfer goes   *)
(* to the modules: the writer stores its header and body, the matcher      *)
(* registers the components it sees in them.                               *)
(* A response is a sequence of characters, "c" CR, "l" LF; any other one   *)
(* stands for a text in which a component is recognized.                   *)
(***************************************************************************)
EXTENDS Integers, FiniteSets, FiniteSetsExt, SequencesExt

CONSTANTS NFetchers,     \* transfers at a time
          MaxSize,       \* bytes kept of a response
          RequestFiles,  \* sequences of messages: [kind, response]
          MaxFaults      \* transfers that fail

ASSUME WebfetchAssumption == NFetchers \in Nat \ {0} /\ MaxSize \in Nat \ {0}

Crlf2 == <<"c", "l", "c", "l">>
Fetchers == 1 .. NFetchers

VARIABLES wmsgs, wpos,   \* the messages, and how many are read
          wfetch,        \* fetcher -> transfer
          wmulti,        \* fetchers whose handle is in the multi handle
          wended,        \* handles that have ended, their messages in order
          nrunning,      \* what curl_multi_perform said last
          source_done,
          wpc,           \* where fetch_run is
          wout,          \* the writer's file
          wcomps,        \* the matcher's table: component and service
          wfaults

wvars == <<wmsgs, wpos, wfetch, wmulti, wended, nrunning, source_done, wpc, wout, wcomps,
           wfaults>>

\* a transfer as calloc and complete_transfer leave it; `left` is still to be received
Idle == [service_id |-> 0, recv |-> << >>, scanoff |-> 0, bodyoff |-> 0, left |-> << >>]

WebfetchInit ==
  /\ wmsgs \in RequestFiles
  /\ wpos = 0
  /\ wfetch = [i \in Fetchers |-> Idle]
  /\ wmulti = {} /\ wended = << >> /\ nrunning = 0 /\ source_done = FALSE
  /\ wpc = [at |-> "start", i |-> 1]
  /\ wout = << >> /\ wcomps = {} /\ wfaults = 0

(***************************************************************************)
(* writefunc: a chunk is kept up to maxsize; the end of the header is      *)
(* looked for from where it may begin.                                     *)
(***************************************************************************)
Kept(t, chunk) ==
  IF Len(t.recv) + Len(chunk) >= MaxSize THEN MaxSize - Len(t.recv) ELSE Len(chunk)

HeaderEnds(recv, scanoff) ==
  {n \in scanoff + 4 .. Len(recv) : SubSeq(recv, n - 3, n) = Crlf2}

\* Mutant of ScanHeader: the next scan starts behind what was received.
ScanHeaderBehind(t) ==
  IF t.bodyoff # 0 THEN t
  ELSE IF HeaderEnds(t.recv, t.scanoff) # {}
  THEN [t EXCEPT !.bodyoff = Min(HeaderEnds(t.recv, t.scanoff))]
  ELSE [t EXCEPT !.scanoff = Len(t.recv)]

ScanHeader(t) ==
  IF t.bodyoff # 0 THEN t
  ELSE IF HeaderEnds(t.recv, t.scanoff) # {}
  THEN [t EXCEPT !.bodyoff = Min(HeaderEnds(t.recv, t.scanoff))]
  ELSE IF Len(t.recv) > 4 THEN [t EXCEPT !.scanoff = Len(t.recv) - 4]
  ELSE t

writefunc(t, chunk) ==
  ScanHeader([t EXCEPT !.recv = @ \o SubSeq(chunk, 1, Kept(t, chunk)),
                       !.left = SubSeq(@, Len(chunk) + 1, Len(@))])

(***************************************************************************)
(* start_transfer: the next message is read.  There is none, it cannot be  *)
(* parsed, or has nothing to make a URL of: -1, the handle is not added.   *)
(***************************************************************************)
HasNext == wpos < Len(wmsgs)
NextMsg == wmsgs[wpos + 1]
Starts == HasNext /\ NextMsg.kind = "request"

StartTransfer(i, fetch, multi) ==
  /\ wpos' = IF HasNext THEN wpos + 1 ELSE wpos
  /\ wfetch' = IF Starts
               THEN [fetch EXCEPT ![i].service_id = wpos + 1, ![i].left = NextMsg.response]
               ELSE IF HasNext /\ NextMsg.kind = "nourl"
               THEN [fetch EXCEPT ![i].service_id = wpos + 1]
               ELSE fetch
  /\ wmulti' = IF Starts THEN multi \cup {i} ELSE multi

(***************************************************************************)
(* fetch_run                                                               *)
(***************************************************************************)
At(at) == wpc.at = at
Goto(at) == wpc' = [at |-> at, i |-> 1]

\* all fetchers are started, up to the first that has no request
StartFetcher ==
  /\ At("start") /\ wpc.i <= NFetchers
  /\ StartTransfer(wpc.i, wfetch, wmulti)
  /\ IF Starts THEN wpc' = [wpc EXCEPT !.i = @ + 1] ELSE Goto("first")
  /\ UNCHANGED <<wmsgs, wended, nrunning, source_done, wout, wcomps, wfaults>>

AllStarted ==
  /\ At("start") /\ wpc.i > NFetchers
  /\ Goto("first")
  /\ UNCHANGED <<wmsgs, wpos, wfetch, wmulti, wended, nrunning, source_done, wout, wcomps,
                 wfaults>>

\* inside curl_multi_perform
Performing == wpc.at \in {"first", "outer", "inner"}
Active == wmulti \ Range(wended)

\* a short return from writefunc makes curl end the transfer
CurlReceive(i, n) ==
  /\ Performing /\ i \in Active /\ n \in 1 .. Len(wfetch[i].left)
  /\ LET chunk == SubSeq(wfetch[i].left, 1, n)
     IN /\ wfetch' = [wfetch EXCEPT ![i] = writefunc(@, chunk)]
        /\ wended' = IF Kept(wfetch[i], chunk) < n THEN Append(wended, i) ELSE wended
  /\ UNCHANGED <<wmsgs, wpos, wmulti, nrunning, source_done, wpc, wout, wcomps, wfaults>>

CurlEnd(i) ==
  /\ Performing /\ i \in Active
  /\ wfetch[i].left # << >> => wfaults < MaxFaults
  /\ wfaults' = IF wfetch[i].left = << >> THEN wfaults ELSE wfaults + 1
  /\ wended' = Append(wended, i)
  /\ UNCHANGED <<wmsgs, wpos, wfetch, wmulti, nrunning, source_done, wpc, wout, wcomps>>

PerformReturns ==
  /\ Performing
  /\ nrunning' = Cardinality(Active)
  /\ Goto(IF At("first") THEN "select" ELSE "read")
  /\ UNCHANGED <<wmsgs, wpos, wfetch, wmulti, wended, source_done, wout, wcomps, wfaults>>

\* curl_multi_fdset or select fails: fetch_run gives up what is in transfer
SelectFails ==
  /\ At("select")
  /\ Goto("failed")
  /\ UNCHANGED <<wmsgs, wpos, wfetch, wmulti, wended, nrunning, source_done, wout, wcomps,
                 wfaults>>

\* fetch_select returns when curl is ready, or its timeout is over
Select ==
  /\ At("select")
  /\ Goto("outer")
  /\ UNCHANGED <<wmsgs, wpos, wfetch, wmulti, wended, nrunning, source_done, wout, wcomps,
                 wfaults>>

headerlen(t) == IF t.bodyoff > 4 THEN t.bodyoff - 4 ELSE Len(t.recv)
TransferHeader(t) == SubSeq(t.recv, 1, headerlen(t))
TransferBody(t) == IF t.bodyoff > 0 THEN SubSeq(t.recv, t.bodyoff + 1, Len(t.recv)) ELSE << >>

writer_process(t) ==
  [service_id |-> t.service_id, resphdr |-> TransferHeader(t), respbody |-> TransferBody(t)]

process_matches(data, where, service_id) ==
  {[name |-> where, version |-> s, service |-> service_id] : s \in Range(data) \ {"c", "l"}}

matcher_process(t) ==
  process_matches(TransferHeader(t), "header", t.service_id)
  \cup process_matches(TransferBody(t), "body", t.service_id)

\* complete_transfer (its modules included), and the next request in its place
ReadDone ==
  /\ At("read") /\ wended # << >>
  /\ LET i == Head(wended)
         idle == [wfetch EXCEPT ![i] = [Idle EXCEPT !.service_id = wfetch[i].service_id]]
     IN /\ wout' = Append(wout, writer_process(wfetch[i]))
        /\ wcomps' = wcomps \cup matcher_process(wfetch[i])
        /\ IF source_done
           THEN wfetch' = idle /\ wmulti' = wmulti \ {i} /\ UNCHANGED wpos
           ELSE StartTransfer(i, idle, wmulti \ {i})
  /\ wended' = Tail(wended)
  /\ source_done' = (source_done \/ ~Starts)
  /\ Goto("inner")
  /\ UNCHANGED <<wmsgs, nrunning, wfaults>>

ReadNone ==
  /\ At("read") /\ wended = << >>
  /\ Goto(IF nrunning > 0 THEN "select" ELSE "done")
  /\ UNCHANGED <<wmsgs, wpos, wfetch, wmulti, wended, nrunning, source_done, wout, wcomps,
                 wfaults>>

WebfetchNext ==
  \/ StartFetcher \/ AllStarted
  \/ \E i \in Fetchers : CurlEnd(i) \/ \E n \in 1 .. Len(wfetch[i].left) : CurlReceive(i, n)
  \/ PerformReturns \/ Select \/ SelectFails \/ ReadDone \/ ReadNone

-----------------------------------------------------------------------------
Requests == {i \in 1 .. wpos : wmsgs[i].kind = "request"}
Written(i) == {k \in DOMAIN wout : wout[k].service_id = i}
InTransfer(i) == {f \in wmulti : wfetch[f].service_id = i}

\* a response received up to byte n, cut where its header ends
SplitAt(data, r) ==
  LET ends == HeaderEnds(data, 0)
  IN IF ends = {} THEN r.resphdr = data /\ r.respbody = << >>
     ELSE /\ r.respbody = SubSeq(data, Min(ends) + 1, Len(data))
          /\ r.resphdr = IF Min(ends) = 4 THEN data ELSE SubSeq(data, 1, Min(ends) - 4)

(***************************************************************************)
(* Every request read is in exactly one transfer or in the writer's file   *)
(* exactly once, and none is left when fetch_run succeeds; what is written *)
(* is the request's own response, whole or cut at the limit unless it      *)
(* failed, header and body parted at the first empty line however curl cut *)
(* it into chunks.  The matcher has seen just what was written.  A success *)
(* leaves requests in the file only when a message that is no request      *)
(* stopped the reading.                                                    *)
(***************************************************************************)
FetchedExactly ==
  /\ \A i \in 1 .. wpos :
       Cardinality(Written(i)) + Cardinality(InTransfer(i)) = IF i \in Requests THEN 1 ELSE 0
  /\ wpc.at = "done" => wmulti = {}
  /\ wpc.at = "done" /\ wpos < Len(wmsgs) => wpos > 0 /\ wmsgs[wpos].kind # "request"
  /\ \A k \in DOMAIN wout :
       LET response == wmsgs[wout[k].service_id].response
           whole == Min({Len(response), MaxSize})
       IN \E n \in 0 .. whole :
            (wfaults = 0 => n = whole) /\ SplitAt(SubSeq(response, 1, n), wout[k])
  /\ wcomps = UNION {process_matches(wout[k].resphdr, "header", wout[k].service_id)
                     \cup process_matches(wout[k].respbody, "body", wout[k].service_id) :
                       k \in DOMAIN wout}
=============================================================================
