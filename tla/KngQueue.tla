----------------------------- MODULE KngQueue -----------------------------
(***************************************************************************)
(* The work queue of knegd (the kngq_ functions of apps/knegd/kng.c).  A   *)
(* queued request is a file <time>-<seq> in a directory named after two    *)
(* digits of the time, and a symlink from the id of the job to that file.  *)
(* The files outlive the process.  The queue is read with an fts(3)        *)
(* traversal that stays open from one call of kngq_next to the following   *)
(* one, so that what it returns was listed some time ago.                  *)
(*                                                                         *)
(* Every operator changes the variables of this module only; the module    *)
(* Kng composes them into the steps of the daemon.                         *)
(***************************************************************************)
EXTENDS Integers, FiniteSets, Sequences, Functions

CONSTANTS
  Ids,        \* ids of jobs
  MaxClock,   \* the last second of the clock
  MaxPuts,    \* the number of files one process creates at most
  DirSpan     \* seconds of the clock that share a directory

\* What is in a file: the request of a job, or an incomplete message.
Garbage == "incomplete"

ASSUME KngQueueAssumption ==
  /\ MaxClock \in Nat
  /\ MaxPuts \in Nat
  /\ DirSpan \in Nat \ {0}
  /\ Garbage \notin Ids

\* The name of a file of the queue: the second it was created in and seq.
Keys == (0..MaxClock) \X (0..MaxPuts)
NoKey == <<>>
Dirs == 0..(MaxClock \div DirSpan)
Dir(k) == k[1] \div DirSpan
NoDir == -1
Absent == -1

VARIABLES
  clock,      \* time(NULL)
  files,      \* the files: name -> content and modification time
  dirtime,    \* modification time of a directory, or Absent
  links,      \* ids/xx/<id>: the file that the id refers to, or NoKey
  seq,        \* kngq->seq
  fts,        \* kngq->fts: the traversal, see NoFts
  retry       \* kngq_next_file found the traversal closed ("fresh"), open
              \* ("retry"), or has opened it a second time ("reopened")

queueVars == <<clock, files, dirtime, links, seq, fts, retry>>
diskVars == <<files, dirtime, links>>

\* An open traversal has directories still to visit, the directory it is in
\* and the files of that directory still to return.
NoFts == [open |-> FALSE, dirs |-> <<>>, dir |-> NoDir, ents |-> <<>>]

QueueTypeOK ==
  /\ clock \in 0..MaxClock
  /\ DOMAIN files \subseteq Keys
  /\ \A k \in DOMAIN files :
       files[k] \in [content : Ids \cup {Garbage}, mtime : 0..MaxClock]
  /\ dirtime \in [Dirs -> (0..MaxClock) \cup {Absent}]
  /\ links \in [Ids -> Keys \cup {NoKey}]
  /\ seq \in 0..MaxPuts
  /\ fts.open \in BOOLEAN
  /\ fts.dir \in Dirs \cup {NoDir}
  /\ Range(fts.dirs) \subseteq Dirs
  /\ Range(fts.ents) \subseteq Keys
  /\ retry \in {"fresh", "retry", "reopened"}

QueueInit ==
  /\ clock = 0
  /\ files = <<>>
  /\ dirtime = [d \in Dirs |-> Absent]
  /\ links = [i \in Ids |-> NoKey]
  /\ seq = 0
  /\ fts = NoFts
  /\ retry = "fresh"

\* kngq_init: what the process keeps about the queue starts from scratch.
QueueReset == seq' = 0 /\ fts' = NoFts /\ retry' = "fresh"

In(d) == {k \in DOMAIN files : Dir(k) = d}
Queued(i) == {k \in DOMAIN files : files[k].content = i}

\* kngq_contains: stat(2) follows the link.
IsQueued(i) == links[i] \in DOMAIN files

Unlinked(k) == [f \in DOMAIN files \ {k} |-> files[f]]

\* unlink(2) of a file, which modifies its directory; it may be gone.
Unlink(k) ==
  /\ files' = Unlinked(k)
  /\ dirtime' = IF k \in DOMAIN files THEN [dirtime EXCEPT ![Dir(k)] = clock] ELSE dirtime

----------------------------------------------------------------------------
(* kngq_put: create the file, write the request, create the link.          *)

\* mkdir(2) of the directory of a file, which may exist.
MakeDir(k) ==
  dirtime' = IF dirtime[Dir(k)] = Absent THEN [dirtime EXCEPT ![Dir(k)] = clock] ELSE dirtime

\* open(2) with O_CREAT of a file of an existing directory.  A file that is
\* there keeps its content: there is neither O_EXCL nor O_TRUNC.
OpenFile(k) ==
  IF k \in DOMAIN files THEN UNCHANGED <<files, dirtime>>
  ELSE /\ files' = [f \in DOMAIN files \cup {k} |->
                      IF f = k THEN [content |-> Garbage, mtime |-> clock] ELSE files[f]]
       /\ dirtime' = [dirtime EXCEPT ![Dir(k)] = clock]

\* Mutant of CreateFile: kngq->seq is never incremented.
CreateFileSameSeq(k) == k = <<clock, seq>> /\ seq' = seq /\ OpenFile(k)

\* The name may be in use: seq restarts with the process.
CreateFile(k) == k = <<clock, seq>> /\ seq' = seq + 1 /\ OpenFile(k)

WriteFile(k, i) == files' = [files EXCEPT ![k] = [content |-> i, mtime |-> clock]]

LinkId(i, k) == links[i] = NoKey /\ links' = [links EXCEPT ![i] = k]

----------------------------------------------------------------------------
(* kngq_next_file: the next file of the traversal.                         *)

\* Mutant of OldestFirst: the operands of the comparison are swapped.
NewestFirst(S, time) ==
  {q \in Injection(1..Cardinality(S), S) : \A m, n \in 1..Len(q) : m < n => time[q[m]] >= time[q[n]]}

\* fts_oldest_first compares seconds; files of the same second come in any
\* order.
OldestFirst(S, time) ==
  {q \in Injection(1..Cardinality(S), S) : \A m, n \in 1..Len(q) : m < n => time[q[m]] <= time[q[n]]}

Existing == {d \in Dirs : dirtime[d] # Absent}

FtsOpen ==
  \E q \in OldestFirst(Existing, dirtime) :
    fts' = [open |-> TRUE, dirs |-> q, dir |-> NoDir, ents |-> <<>>]

\* The base directory cannot be read: the traversal is open and has nothing to
\* return.
FtsOpenUnread == fts' = [NoFts EXCEPT !.open = TRUE]

FtsHasFile == fts.ents # <<>>
FtsAtEnd == fts.ents = <<>> /\ fts.dir = NoDir /\ fts.dirs = <<>>

\* fts_read descends into the following directory and lists it.
FtsDescend ==
  /\ fts.ents = <<>> /\ fts.dir = NoDir /\ fts.dirs # <<>>
  /\ LET d == Head(fts.dirs)
     IN \E q \in OldestFirst(In(d), [k \in In(d) |-> files[k].mtime]) :
          fts' = [fts EXCEPT !.dirs = Tail(@), !.dir = d, !.ents = q]
  /\ UNCHANGED dirtime

\* fts_read passes over a directory that it cannot read.
FtsSkip ==
  /\ fts.ents = <<>> /\ fts.dir = NoDir /\ fts.dirs # <<>>
  /\ fts' = [fts EXCEPT !.dirs = Tail(@)]
  /\ UNCHANGED dirtime

\* fts_read leaves a directory, and _kngq_next_file removes it if it is empty.
FtsLeave ==
  /\ fts.ents = <<>> /\ fts.dir # NoDir
  /\ fts' = [fts EXCEPT !.dir = NoDir]
  /\ dirtime' = IF In(fts.dir) = {} THEN [dirtime EXCEPT ![fts.dir] = Absent]
                ELSE dirtime

============================================================================
