-------------------------------- MODULE Kng --------------------------------
(***************************************************************************)
(* The job daemon knegd (apps/knegd/kng.c) in the main loop of its event   *)
(* driven service (lib/util/eds.c): jobs are child processes, at most      *)
(* NSlots of them started from the queue; a request that finds no slot is  *)
(* filed in the queue of the module KngQueue, and the death of a job makes *)
(* room for queued ones.  The process may die at any step; its supervisor  *)
(* starts it again, with the files of the queue as they were.              *)
(***************************************************************************)
EXTENDS KngQueue

CONSTANTS
  NSlots,     \* kngq->nslots
  Pids,       \* process ids
  MaxReqs,    \* number of "queue" requests
  MaxStarts,  \* number of "start" requests
  MaxCrashes, \* number of times the process dies
  MaxStops,   \* number of orderly shutdowns
  MaxFaults   \* number of times a directory or an intact file cannot be read

ASSUME KngAssumption ==
  /\ NSlots \in Nat \ {0}
  /\ MaxReqs \in Nat /\ MaxStarts \in Nat /\ MaxCrashes \in Nat /\ MaxStops \in Nat
  /\ MaxFaults \in Nat
  /\ MaxReqs <= MaxPuts

VARIABLES
  jobs,       \* jobs_, the list of running jobs
  nrunning,   \* kngq->nrunning
  n,          \* local of dispatch_n_jobs: jobs it may still start
  back,       \* where dispatch_n_jobs returns to
  id,         \* the id of the request in hand
  key,        \* the file in hand
  pc,         \* where the process is
  chld,       \* got_listener_sigchld
  proc,       \* the kernel's view of the child processes
  nstarts,    \* history: "start" requests received
  reqs,       \* history: "queue" requests received, per id
  acked,      \* history: "queue" requests answered with OK, per id
  tried,      \* history: jobs of "queue" requests that were started, or taken
              \* from the queue and failed to start, per id
  crashes,    \* history: how often the process died
  stops,      \* history: how often it was shut down
  faults,     \* history: how often a directory or an intact file was not read
  cut,        \* history: a failure ended the last dispatch_n_jobs, or hid
              \* files from it
  unread,     \* history: intact files that were removed unread, per id
  overwritten \* history: files in the queue that kngq_put opened again and
              \* wrote over or removed, per id

listVars == <<jobs, nrunning>>
handVars == <<n, back, id, key>>
countVars == <<nstarts, reqs, acked, tried, crashes, stops>>
lossVars == <<faults, cut, unread, overwritten>>
histVars == <<countVars, lossVars>>
vars == <<queueVars, listVars, handVars, pc, chld, proc, histVars>>

Pcs == {"down", "top", "reap", "reaped", "enter", "select", "write", "link",
        "next", "walk", "read", "unlink", "start"}

\* A job may run, be killed and not dead yet, or be dead and not waited for.
Child == {"run", "killed", "zombie"}
Children == {p \in Pids : proc[p] \in Child}
JobPids == {jobs[j].pid : j \in 1..Len(jobs)}

Init ==
  /\ QueueInit
  /\ jobs = <<>>
  /\ nrunning = 0
  /\ n = 0
  /\ back = "top"
  /\ id \in Ids
  /\ key = NoKey
  /\ pc = "down"
  /\ chld = FALSE
  /\ proc = [p \in Pids |-> "none"]
  /\ nstarts = 0
  /\ reqs = [i \in Ids |-> 0]
  /\ acked = [i \in Ids |-> 0]
  /\ tried = [i \in Ids |-> 0]
  /\ crashes = 0
  /\ stops = 0
  /\ faults = 0
  /\ cut = FALSE
  /\ unread = [i \in Ids |-> 0]
  /\ overwritten = [i \in Ids |-> 0]

Up == pc # "down"
At(l) == pc = l
Goto(l) == pc' = l
Count(h, i) == [h EXCEPT ![i] = @ + 1]
Total(h) == FoldFunction(LAMBDA a, b : a + b, 0, h)

----------------------------------------------------------------------------
(* Jobs.                                                                   *)

\* kngq_navailable
Available(running) == IF running >= NSlots THEN 0 ELSE NSlots - running

\* job_new and jobs_add: the store answers, fork() succeeds and the job is
\* put at the head of the list.
StartJob(i, via) ==
  /\ \E p \in Pids :
       /\ proc[p] = "none"
       /\ proc' = [proc EXCEPT ![p] = "run"]
       /\ jobs' = <<[pid |-> p, id |-> i, stopped |-> FALSE, sent |-> FALSE,
                     due |-> FALSE, via |-> via]>> \o jobs
  /\ nrunning' = nrunning + 1

\* job_new fails: the store, memory, fork().
StartFails == UNCHANGED <<proc, jobs, nrunning>>

\* The index of the first job of the list that satisfies P, if there is one.
FirstJob(j, P(_)) == P(jobs[j]) /\ \A k \in 1..(j - 1) : ~P(jobs[k])

\* jobs_remove, and the update of nrunning if the job was found.
RemoveJob(p) ==
  IF p \in JobPids
  THEN /\ \E j \in 1..Len(jobs) :
            /\ FirstJob(j, LAMBDA job : job.pid = p)
            /\ jobs' = SubSeq(jobs, 1, j - 1) \o SubSeq(jobs, j + 1, Len(jobs))
       /\ nrunning' = nrunning - 1
  ELSE UNCHANGED listVars

\* Mutant of Checked: a job that is overdue is not marked.
CheckedUnmarked(job) == [job EXCEPT !.sent = @ \/ job.stopped]

\* jobs_check_times: a job that was sent SIGTERM is killed, one that was
\* stopped is killed on the following tick, one that is overdue is sent
\* SIGTERM, which it may ignore.
Checked(job) == [job EXCEPT !.sent = @ \/ job.stopped \/ job.due]
Killed(job) == job.sent

----------------------------------------------------------------------------
(* Requests, handled by on_readreq when select() reports the client.       *)

ReqQueue(i) ==
  /\ At("select")
  /\ Total(reqs) < MaxReqs
  /\ reqs' = Count(reqs, i)

\* "start" does not look at the slots.
ReqStart(i) ==
  /\ At("select")
  /\ nstarts < MaxStarts
  /\ nstarts' = nstarts + 1
  /\ StartJob(i, "start") \/ StartFails
  /\ Goto("top")
  /\ UNCHANGED <<queueVars, handVars, chld, reqs, acked, tried, crashes, stops, lossVars>>

\* "queue" with a slot available starts the job.
ReqQueueStart(i) ==
  /\ ReqQueue(i)
  /\ Available(nrunning) > 0
  /\ \/ StartJob(i, "queue") /\ acked' = Count(acked, i) /\ tried' = Count(tried, i)
     \/ StartFails /\ UNCHANGED <<acked, tried>>
  /\ Goto("top")
  /\ UNCHANGED <<queueVars, handVars, chld, nstarts, crashes, stops, lossVars>>

\* "queue" without one calls kngq_put: mkdir(2) fails, or open(2) fails, or the
\* file is created.
ReqQueuePut(i) ==
  /\ ReqQueue(i)
  /\ Available(nrunning) = 0
  /\ id' = i
  /\ \/ /\ key' = <<clock, seq>>
        /\ CreateFile(key')
        /\ Goto("write")
     \/ /\ \/ UNCHANGED <<seq, dirtime>>
           \/ seq' = seq + 1 /\ MakeDir(<<clock, seq>>)
        /\ Goto("top")
        /\ UNCHANGED <<key, files>>
  /\ UNCHANGED <<clock, links, fts, retry, listVars, n, back, chld, proc, nstarts,
                 acked, tried, crashes, stops, lossVars>>

\* "stop" sends SIGTERM to the first job with the id and marks it.
ReqStop(i) ==
  /\ At("select")
  /\ \E j \in 1..Len(jobs) :
       /\ FirstJob(j, LAMBDA job : job.id = i)
       /\ jobs' = [jobs EXCEPT ![j].stopped = TRUE]
  /\ Goto("top")
  /\ UNCHANGED <<queueVars, nrunning, handVars, chld, proc, histVars>>

\* _kngq_put writes the request, in one go or in parts, or fails and the file is
\* removed.  What a file in the queue held before is gone in each case.
PutWrite ==
  /\ At("write")
  /\ \/ WriteFile(key, id) /\ Goto("link") /\ UNCHANGED dirtime
     \/ /\ files[key].content # Garbage
        /\ WriteFile(key, Garbage)
        /\ UNCHANGED <<pc, dirtime>>
     \/ Unlink(key) /\ Goto("top")
  /\ overwritten' = IF files[key].content = Garbage THEN overwritten
                    ELSE Count(overwritten, files[key].content)
  /\ UNCHANGED <<clock, links, seq, fts, retry, listVars, handVars, chld, proc,
                 countVars, faults, cut, unread>>

\* kngq_link_id makes the link and the client is answered, or symlink(2)
\* fails, as it does when the id is linked already, and the file is removed.
PutLink ==
  /\ At("link")
  /\ \/ /\ LinkId(id, key)
        /\ acked' = Count(acked, id)
        /\ UNCHANGED <<files, dirtime>>
     \/ Unlink(key) /\ UNCHANGED <<links, acked>>
  /\ Goto("top")
  /\ UNCHANGED <<clock, seq, fts, retry, listVars, handVars, chld, proc,
                 nstarts, reqs, tried, crashes, stops, lossVars>>

----------------------------------------------------------------------------
(* dispatch_n_jobs: take requests from the queue while jobs may start.     *)

\* A directory or an intact file cannot be read: no descriptor is left (each
\* file that was read leaves one open), no memory, or an error of the disk.
Fault ==
  /\ faults < MaxFaults
  /\ faults' = faults + 1
  /\ cut' = TRUE

OpenQueue ==
  \/ FtsOpen /\ UNCHANGED <<faults, cut>>
  \/ FtsOpenUnread /\ Fault

\* The entry of kngq_next_file.
DispatchNext ==
  /\ At("next")
  /\ IF n = 0
     THEN Goto(back) /\ UNCHANGED <<fts, retry, faults, cut>>
     ELSE /\ IF fts.open THEN retry' = "retry" /\ UNCHANGED <<fts, faults, cut>>
             ELSE retry' = "fresh" /\ OpenQueue
          /\ Goto("walk")
  /\ UNCHANGED <<clock, diskVars, seq, listVars, handVars, chld, proc, countVars,
                 unread, overwritten>>

WalkDirs ==
  /\ At("walk")
  /\ \/ (FtsDescend \/ FtsLeave) /\ UNCHANGED <<faults, cut>>
     \/ FtsSkip /\ Fault
  /\ UNCHANGED <<clock, files, links, seq, retry, listVars, handVars, pc, chld,
                 proc, countVars, unread, overwritten>>

WalkFile ==
  /\ At("walk")
  /\ FtsHasFile
  /\ key' = Head(fts.ents)
  /\ fts' = [fts EXCEPT !.ents = Tail(@)]
  /\ Goto("read")
  /\ UNCHANGED <<clock, diskVars, seq, retry, listVars, n, back, id, chld, proc,
                 histVars>>

\* Mutant of WalkEnd: the queue is not listed a second time.
WalkEndNoRetry ==
  /\ At("walk")
  /\ FtsAtEnd
  /\ Goto(back)
  /\ UNCHANGED <<fts, retry>>
  /\ UNCHANGED <<clock, diskVars, seq, listVars, handVars, chld, proc, histVars>>

\* At the end of a traversal opened by an earlier call the queue is listed
\* again, once; otherwise it is empty and dispatch_n_jobs returns.
WalkEnd ==
  /\ At("walk")
  /\ FtsAtEnd
  /\ CASE retry = "retry" -> OpenQueue /\ retry' = "reopened" /\ UNCHANGED pc
       [] retry = "fresh" -> Goto(back) /\ UNCHANGED <<fts, retry, faults, cut>>
       [] retry = "reopened" -> fts' = NoFts /\ Goto(back) /\ UNCHANGED <<retry, faults, cut>>
  /\ UNCHANGED <<clock, diskVars, seq, listVars, handVars, chld, proc, countVars,
                 unread, overwritten>>

\* The file in hand holds a request that can be parsed.
Intact == key \in DOMAIN files /\ files[key].content # Garbage

\* A request that was read loses its link.  A file that is gone, is incomplete
\* or cannot be read is removed, its link is left, and dispatch_n_jobs ends.
ReadFile ==
  /\ At("read")
  /\ \/ /\ Intact
        /\ id' = files[key].content
        /\ links' = [links EXCEPT ![id'] = NoKey]
        /\ Goto("unlink")
        /\ UNCHANGED <<files, dirtime, faults, cut, unread>>
     \/ /\ IF Intact THEN Fault /\ unread' = Count(unread, files[key].content)
                     ELSE cut' = TRUE /\ UNCHANGED <<faults, unread>>
        /\ Unlink(key)
        /\ Goto(back)
        /\ UNCHANGED <<id, links>>
  /\ UNCHANGED <<clock, seq, fts, retry, listVars, n, back, key, chld, proc, countVars,
                 overwritten>>

\* Mutant of UnlinkFile: the file is left.
UnlinkFileKeeps ==
  /\ At("unlink")
  /\ UNCHANGED <<files, dirtime>>
  /\ Goto("start")
  /\ UNCHANGED <<clock, links, seq, fts, retry, listVars, handVars, chld, proc,
                 histVars>>

UnlinkFile ==
  /\ At("unlink")
  /\ Unlink(key)
  /\ Goto("start")
  /\ UNCHANGED <<clock, links, seq, fts, retry, listVars, handVars, chld, proc,
                 histVars>>

\* A job that does not start is gone, and does not count against n.
DispatchStart ==
  /\ At("start")
  /\ \/ StartJob(id, "queue") /\ n' = n - 1
     \/ StartFails /\ UNCHANGED n
  /\ tried' = Count(tried, id)
  /\ Goto("next")
  /\ UNCHANGED <<queueVars, back, id, key, chld, nstarts, reqs, acked, crashes, stops, lossVars>>

----------------------------------------------------------------------------
(* The main loop: eds_serve_single_mainloop and reap_listener_children.    *)

Top ==
  /\ At("top")
  /\ Goto(IF chld THEN "reap" ELSE "enter")
  /\ UNCHANGED <<queueVars, listVars, handVars, chld, proc, histVars>>

\* waitpid() returns a child and kng_on_svc_reaped_child handles it.
ReapChild(p) ==
  /\ At("reap")
  /\ proc[p] = "zombie"
  /\ proc' = [proc EXCEPT ![p] = "none"]
  /\ RemoveJob(p)
  /\ n' = Available(nrunning')
  /\ back' = "reap"
  /\ cut' = FALSE
  /\ Goto("next")
  /\ UNCHANGED <<queueVars, id, key, chld, countVars, faults, unread, overwritten>>

\* waitpid() returns 0 or fails.
NoMoreZombies ==
  /\ At("reap")
  /\ \A p \in Pids : proc[p] # "zombie"
  /\ Goto("reaped")
  /\ UNCHANGED <<queueVars, listVars, handVars, chld, proc, histVars>>

ClearChld ==
  /\ At("reaped")
  /\ chld' = FALSE
  /\ Goto("enter")
  /\ UNCHANGED <<queueVars, listVars, handVars, proc, histVars>>

EnterSelect ==
  /\ At("enter")
  /\ Goto("select")
  /\ UNCHANGED <<queueVars, listVars, handVars, chld, proc, histVars>>

\* kng_on_tick
OnTick ==
  /\ At("select")
  /\ jobs' = [j \in 1..Len(jobs) |-> Checked(jobs[j])]
  /\ proc' = [p \in Pids |->
                IF proc[p] = "run" /\ \E j \in 1..Len(jobs) : jobs[j].pid = p /\ Killed(jobs[j])
                THEN "killed" ELSE proc[p]]
  /\ Goto("top")
  /\ UNCHANGED <<queueVars, nrunning, handVars, chld, histVars>>

\* kng_mod_init
ModInit ==
  /\ At("down")
  /\ QueueReset
  /\ n' = Available(nrunning)
  /\ back' = "top"
  /\ cut' = FALSE
  /\ Goto("next")
  /\ UNCHANGED <<clock, diskVars, listVars, id, key, chld, proc, countVars, faults,
                 unread, overwritten>>

\* What a process leaves behind: the files, and no memory.
Gone ==
  /\ jobs' = <<>>
  /\ nrunning' = 0
  /\ chld' = FALSE
  /\ Goto("down")

\* kng_mod_fini kills the jobs, after SIGTERM and a second of sleep if there
\* are any, and waits for as many children as it killed.
ModFini ==
  /\ At("top")
  /\ stops < MaxStops
  /\ stops' = stops + 1
  /\ IF jobs = <<>> THEN UNCHANGED clock ELSE clock < MaxClock /\ clock' = clock + 1
  /\ proc' = [p \in Pids |-> IF p \in JobPids THEN "none" ELSE proc[p]]
  /\ Gone
  /\ UNCHANGED <<diskVars, seq, fts, retry, handVars, nstarts, reqs, acked, tried, crashes,
                 lossVars>>

----------------------------------------------------------------------------
(* The environment.                                                        *)

\* A job exits: SIGCHLD sets the flag, and interrupts select().
Exit(p) ==
  /\ proc[p] \in {"run", "killed"}
  /\ proc' = [proc EXCEPT ![p] = "zombie"]
  /\ chld' = TRUE
  /\ IF At("select") THEN Goto("top") ELSE UNCHANGED pc
  /\ UNCHANGED <<queueVars, listVars, handVars, histVars>>

\* The jobs of a process that dies run on as orphans: no process of the
\* daemon knows of them or waits for them, and they are left out.
Crash ==
  /\ Up
  /\ crashes < MaxCrashes
  /\ crashes' = crashes + 1
  /\ proc' = [p \in Pids |-> "none"]
  /\ Gone
  /\ UNCHANGED <<queueVars, handVars, nstarts, reqs, acked, tried, stops, lossVars>>

\* A job reaches its timeout, which only a tick looks at.
Expire(p) ==
  /\ At("select")
  /\ \E j \in 1..Len(jobs) :
       /\ jobs[j].pid = p /\ ~jobs[j].due
       /\ jobs' = [jobs EXCEPT ![j].due = TRUE]
  /\ UNCHANGED <<queueVars, nrunning, handVars, pc, chld, proc, histVars>>

\* A second passes while the daemon waits or is down, or between the creation
\* of a file and the write: the other steps are short.
Second ==
  /\ pc \in {"select", "down", "write"}
  /\ clock < MaxClock
  /\ clock' = clock + 1
  /\ UNCHANGED <<diskVars, seq, fts, retry, listVars, handVars, pc, chld, proc,
                 histVars>>

Dispatch == DispatchNext \/ WalkDirs \/ WalkFile \/ WalkEnd \/ ReadFile
            \/ UnlinkFile \/ DispatchStart
Loop == Top \/ (\E p \in Pids : ReapChild(p)) \/ NoMoreZombies \/ ClearChld
        \/ EnterSelect
Requests == \E i \in Ids : ReqStart(i) \/ ReqQueueStart(i) \/ ReqQueuePut(i) \/ ReqStop(i)
Environment == \/ \E p \in Pids : Exit(p) \/ Expire(p)
               \/ Crash \/ Second

Next == ModInit \/ ModFini \/ Dispatch \/ Loop \/ Requests \/ PutWrite \/ PutLink
        \/ OnTick \/ Environment

Spec == Init /\ [][Next]_vars

\* The process runs; the service tick comes round, whatever else select()
\* reports; time passes; SIGKILL kills.
FairSpec ==
  /\ Spec
  /\ WF_vars(ModInit \/ Dispatch \/ Loop \/ PutWrite \/ PutLink)
  /\ SF_vars(OnTick)
  /\ \A p \in Pids : SF_vars(Expire(p))
  /\ \A p \in Pids : WF_vars(proc[p] = "killed" /\ Exit(p))

----------------------------------------------------------------------------
(* Properties.                                                             *)

\* Types of the variables of kng.c and of the environment.
TypeOK ==
  /\ QueueTypeOK
  /\ Range(jobs) \subseteq [pid : Pids, id : Ids, stopped : BOOLEAN, sent : BOOLEAN,
                            due : BOOLEAN, via : {"start", "queue"}]
  /\ nrunning \in Nat
  /\ n \in 0..NSlots
  /\ back \in {"top", "reap"}
  /\ id \in Ids
  /\ key \in Keys \cup {NoKey}
  /\ pc \in Pcs
  /\ chld \in BOOLEAN
  /\ proc \in [Pids -> Child \cup {"none"}]
  /\ \A h \in {reqs, acked, tried, unread, overwritten} : h \in [Ids -> 0..MaxReqs]
  /\ nstarts \in 0..MaxStarts
  /\ crashes \in 0..MaxCrashes
  /\ stops \in 0..MaxStops
  /\ faults \in 0..MaxFaults
  /\ cut \in BOOLEAN

\* The list of jobs is exactly the set of children that were not waited for,
\* each once, and nrunning counts it: the signals of jobs_check_times,
\* job_stop and kng_mod_fini reach a job and never a process that reused its
\* pid, and no child runs without a timeout.
JobsAreChildren ==
  /\ JobPids = Children
  /\ nrunning = Len(jobs)
  /\ Cardinality(JobPids) = Len(jobs)

\* However deaths, requests and refused starts interleave, the jobs that were
\* started on behalf of "queue" requests never exceed the slots
\* (kngq_navailable, the budget n of dispatch_n_jobs).
QueueKeepsSlots ==
  Cardinality({j \in 1..Len(jobs) : jobs[j].via = "queue"}) <= NSlots

InHand(i) == IF pc = "start" /\ id = i THEN 1 ELSE 0
Handled(i) == tried[i] + InHand(i) + Cardinality(Queued(i))

\* A "queue" request starts at most one process, also when the daemon dies
\* at any step and is started again on the files it left ("always remove the
\* file to avoid double queueing").
StartedAtMostOnce == \A i \in Ids : Handled(i) <= reqs[i]

\* A name of a file may come up a second time: after a death, or after an
\* orderly shutdown in the second in which a failure left files in the queue.
NamesRecur == crashes > 0 \/ (stops > 0 /\ faults > 0)

\* A "queue" request that was answered with OK was started, failed to start or
\* is in the queue, unless its file could not be read, and for each death of
\* the daemon at most one of an id is lost, the one that was taken from the
\* queue and not started.  A file is written over by a later request only
\* where names recur.
AcceptedNotLost ==
  \A i \in Ids : /\ acked[i] <= Handled(i) + unread[i] + overwritten[i] + crashes
                 /\ overwritten[i] > 0 => NamesRecur

\* Whenever the daemon waits for events the links and the files of the queue
\* match, so that "status" says queued of exactly the jobs in the queue, unless
\* names recur; a link without its file, which keeps its id from being queued
\* again, is left only by a file that could not be read.
QueueIndexed ==
  ~NamesRecur /\ At("select") =>
    \A i \in Ids : /\ Queued(i) # {} => IsQueued(i)
                   /\ links[i] # NoKey => links[i] \in Queued(i) \/ unread[i] > 0

\* The daemon never waits for events with a slot available and a request in
\* the queue, also after a death, unless a failure to read cut the last
\* dispatch_n_jobs short: a traversal opened by an earlier call of kngq_next
\* hides no file.
NoSlotIdle == At("select") => files = <<>> \/ nrunning >= NSlots \/ cut

\* The slots: jobs are the unreaped children and are counted right, those of
\* the queue fit the slots, and none is left idle while a request waits.
SlotsUsed == JobsAreChildren /\ QueueKeepsSlots /\ NoSlotIdle

\* The queue: what was accepted is there until it is started, under its ID.
QueueFaithful == AcceptedNotLost /\ QueueIndexed

TakesFile == At("walk") /\ pc' = "read"

\* The file that kngq_next takes is the oldest one of its directory, although
\* it was listed when the traversal came to the directory, unless names recur
\* (a file with the name of an older one is taken in its place).
OldestOfDirectory ==
  [][TakesFile /\ key' \in DOMAIN files /\ ~NamesRecur =>
       \A k \in In(Dir(key')) : files[key'].mtime <= files[k].mtime]_vars

\* "The returned element will be the one of the oldest mtime - meaning the
\* oldest entry" (kng.c, kngq_next); no directory is reused in this model.
OldestOfQueue ==
  [][TakesFile /\ key' \in DOMAIN files =>
       \A k \in DOMAIN files : files[key'].mtime <= files[k].mtime]_vars

\* A job that runs ends: it exits, or the ticks find it overdue or stopped,
\* send SIGTERM and then SIGKILL (jobs_check_times), unless the daemon dies.
JobsEnd ==
  \A p \in Pids : proc[p] = "run" /\ p \in JobPids ~> proc[p] # "run"

\* "set to 1 when a listener receives SIGCHLD, cleared after reaping zombies"
\* (eds.c): a dead job is waited for, and its slot given back, in the end.
DeadReaped == \A p \in Pids : proc[p] = "zombie" ~> proc[p] # "zombie"

============================================================================
