---------------------------- MODULE KngJobProofs ----------------------------
(***************************************************************************)
(* The inductive invariant of knegd, and the part of it about the daemon   *)
(* itself: the types, the list of jobs and the children, the slots left,   *)
(* the request in hand and the counts behind starting a request at most    *)
(* once.  KngProofs adds what no failure to read hides, what holds as long *)
(* as no name of a file comes up twice, and the theorems.                  *)
(***************************************************************************)
EXTENDS Kng, FiniteSetTheorems, TLAPS

\* A leaf that names no prover is for Zenon.
USE ZenonT(40)

Job == [pid : Pids, id : Ids, stopped : BOOLEAN, sent : BOOLEAN, due : BOOLEAN,
        via : {"start", "queue"}]
Names == (0..MaxClock) \X Nat
FileData == [content : Ids \cup {Garbage}, mtime : Nat]
Traversal == [open : BOOLEAN, dirs : Seq(Dirs), dir : Dirs \cup {NoDir}, ents : Seq(Names)]

Dispatching == {"next", "walk", "read", "unlink", "start"}
Putting == {"write", "link"}

\* The files, with names that may have any sequence number.
FilesOK ==
  /\ DOMAIN files \subseteq Names /\ IsFiniteSet(DOMAIN files)
  /\ files = [k \in DOMAIN files |-> files[k]]
  /\ \A k \in DOMAIN files : files[k] \in FileData
  /\ dirtime \in [Dirs -> Nat \cup {Absent}]

\* The variables of the queue.
QueueTypes ==
  /\ FilesOK
  /\ clock \in 0..MaxClock /\ seq \in Nat
  /\ links \in [Ids -> Names \cup {NoKey}]
  /\ fts \in Traversal
  /\ retry \in {"fresh", "retry", "reopened"}

\* The variables of the daemon.
DaemonTypes ==
  /\ n \in Nat
  /\ back \in {"top", "reap"} /\ id \in Ids /\ pc \in Pcs
  /\ reqs \in [Ids -> Nat] /\ acked \in [Ids -> Nat] /\ tried \in [Ids -> Nat]
  /\ crashes \in Nat

\* The history of failures and losses.
LossTypes ==
  /\ stops \in Nat /\ faults \in Nat /\ cut \in BOOLEAN
  /\ unread \in [Ids -> Nat] /\ overwritten \in [Ids -> Nat]
FaultInv == faults = 0 => \A i \in Ids : unread[i] = 0

\* The jobs are the children, one entry each.
JobTypes == jobs \in Seq(Job) /\ nrunning \in Nat /\ proc \in [Pids -> Child \cup {"none"}]
JobInv ==
  /\ JobPids = Children
  /\ nrunning = Len(jobs)
  /\ \A j, k \in 1..Len(jobs) : jobs[j].pid = jobs[k].pid => j = k
ListInv == JobTypes /\ JobInv
QueueOf(js) == {j \in 1..Len(js) : js[j].via = "queue"}
QueueJobs == QueueOf(jobs)

\* The budget of dispatch_n_jobs is what kngq_navailable says at every point,
\* and a request is put in the queue without a slot available.
BudgetInv ==
  /\ pc \in Dispatching => n = Available(nrunning)
  /\ pc \in Dispatching \ {"next"} => n > 0
  /\ pc \in Putting => Available(nrunning) = 0

\* The file in hand: its content is what the step before left.
HandInv ==
  /\ pc \in Putting => key \in DOMAIN files
  /\ pc \in {"link", "unlink"} => key \in Queued(id)

\* A request is counted once: in hand before it is written or started, or in
\* the queue, or started.
ToWrite(i) == IF pc = "write" /\ id = i THEN 1 ELSE 0
CountInv == \A i \in Ids : Handled(i) + ToWrite(i) <= reqs[i]

\* The directory of a file exists.
DirsInv == \A k \in DOMAIN files : dirtime[Dir(k)] # Absent

\* An accepted request is somewhere, or was lost in a known way.
ToLink(i) == IF pc = "link" /\ id = i THEN 1 ELSE 0
AckedInv ==
  \A i \in Ids : acked[i] + ToLink(i) <= Handled(i) + unread[i] + overwritten[i] + crashes

\* A traversal returns everything in one go, and the queue is empty whenever a
\* slot is free, unless a failure to read cut the dispatch short.
Ents == {fts.ents[m] : m \in 1..Len(fts.ents)}
ToVisit == {fts.dirs[m] : m \in 1..Len(fts.dirs)}
WalkInv ==
  pc = "walk" /\ retry # "retry" /\ ~cut =>
    \A k \in DOMAIN files : k \in Ents \/ Dir(k) \in ToVisit
IdleInv ==
  pc \notin Dispatching \cup {"down"} => DOMAIN files = {} \/ nrunning >= NSlots \/ cut

\* As long as no name recurs a new name is new, also among the links.
Before(k) == k[1] < clock \/ (k[1] = clock /\ k[2] < seq)
Linked == {links[i] : i \in Ids} \ {NoKey}
NamesInv ==
  /\ pc # "down" => \A k \in DOMAIN files \cup Linked : Before(k)
  /\ pc = "down" => \A k \in DOMAIN files \cup Linked : k[1] < clock
  /\ \A k \in DOMAIN files : files[k].mtime <= clock

\* As long as no name recurs only a file that is being written is incomplete.
ContentInv ==
  /\ \A k \in DOMAIN files : files[k].content = Garbage => pc = "write" /\ k = key
  /\ pc = "write" => files[key].content = Garbage

\* As long as no name recurs what the traversal is to return is there.
FtsInv ==
  /\ Ents \subseteq DOMAIN files
  /\ \A l, m \in 1..Len(fts.ents) : fts.ents[l] = fts.ents[m] => l = m
  /\ pc \in Putting \cup {"read", "unlink"} => key \notin Ents
  /\ pc = "read" => key \in DOMAIN files

\* As long as no name recurs the traversal returns the files of a directory by
\* age.
InHandFile == IF pc \in {"read", "unlink"} THEN {key} ELSE {}
OrderInv ==
  /\ \A m \in 1..Len(fts.ents) : Dir(fts.ents[m]) = fts.dir
  /\ \A l, m \in 1..Len(fts.ents) :
       l < m => files[fts.ents[l]].mtime <= files[fts.ents[m]].mtime
  /\ \A k \in In(fts.dir) \ (Ents \cup InHandFile) : \A m \in 1..Len(fts.ents) :
       files[fts.ents[m]].mtime <= files[k].mtime

\* As long as no name recurs a file of the queue has the link of its id, but
\* for the time between the two steps, and a link without its file is that of a
\* file that could not be read.
LinkInv ==
  /\ \A i \in Ids : links[i] # NoKey =>
       links[i] \in Queued(i) \/ (unread[i] > 0 /\ links[i] \notin DOMAIN files)
  /\ \A i \in Ids : \A k \in Queued(i) : links[i] = k \/ (pc \in {"link", "unlink"} /\ k = key)
  /\ pc \in {"link", "unlink"} => \A i \in Ids : links[i] # key

\* As long as no name recurs nothing is written over, and only a failure to
\* read cuts a dispatch short.
LossInv == (cut => faults > 0) /\ \A i \in Ids : overwritten[i] = 0

SafeInv == NamesInv /\ ContentInv /\ FtsInv /\ OrderInv /\ LinkInv /\ LossInv
IInv ==
  /\ QueueTypes /\ DaemonTypes /\ LossTypes /\ ListInv /\ QueueKeepsSlots /\ BudgetInv
  /\ HandInv /\ CountInv /\ DirsInv /\ FaultInv /\ AckedInv /\ WalkInv /\ IdleInv
  /\ ~NamesRecur => SafeInv

----------------------------------------------------------------------------
(* Names, listings and jobs.                                               *)

\* A sequence without its element j, as jobs_remove unlinks an entry.
LEMMA Shortened ==
  ASSUME NEW S, NEW s \in Seq(S), NEW j \in 1..Len(s)
  PROVE  LET t == SubSeq(s, 1, j - 1) \o SubSeq(s, j + 1, Len(s)) IN
           /\ t \in Seq(S) /\ Len(t) = Len(s) - 1
           /\ \A k \in 1..(Len(s) - 1) : t[k] = s[IF k < j THEN k ELSE k + 1]
<1> DEFINE a == SubSeq(s, 1, j - 1)
           b == SubSeq(s, j + 1, Len(s))
<1>1. a \in Seq(S) /\ Len(a) = j - 1 /\ \A k \in 1..(j - 1) : a[k] = s[k]
  BY SMTT(30)
<1>2. b \in Seq(S) /\ Len(b) = Len(s) - j /\ \A k \in 1..(Len(s) - j) : b[k] = s[j + k]
  <2>1. b \in Seq(S) /\ Len(b) = Len(s) - j
    BY SMTT(30)
  <2>2. \A k \in 1..(Len(s) - j) : b[k] = s[(j + 1) + k - 1] /\ (j + 1) + k - 1 = j + k
    BY SMTT(30)
  <2> QED
    BY <2>1, <2>2
<1> HIDE DEF a, b
<1>3. /\ a \o b \in Seq(S) /\ Len(a \o b) = Len(s) - 1
      /\ \A k \in 1..(Len(s) - 1) : (a \o b)[k] = IF k < j THEN a[k] ELSE b[k - (j - 1)]
  <2>1. a \in Seq(S) /\ b \in Seq(S) /\ Len(a) = j - 1 /\ Len(b) = Len(s) - j
    BY <1>1, <1>2
  <2>2. a \o b \in Seq(S) /\ Len(a \o b) = Len(s) - 1
    BY <2>1, SMTT(30)
  <2>3. \A k \in 1..(Len(s) - 1) : k < j => (a \o b)[k] = a[k]
    BY <2>1, SMTT(30)
  <2>4. \A k \in 1..(Len(s) - 1) : ~(k < j) => (a \o b)[k] = b[k - (j - 1)]
    BY <2>1, SMTT(30)
  <2> QED
    BY <2>2, <2>3, <2>4
<1>4. \A k \in 1..(Len(s) - 1) :
        ~(k < j) => k - (j - 1) \in 1..(Len(s) - j) /\ j + (k - (j - 1)) = k + 1
  BY SMTT(30)
<1>5. /\ a \o b \in Seq(S) /\ Len(a \o b) = Len(s) - 1
      /\ \A k \in 1..(Len(s) - 1) : (a \o b)[k] = s[IF k < j THEN k ELSE k + 1]
  BY <1>1, <1>2, <1>3, <1>4, SMTT(30)
<1> QED
  BY <1>5 DEF a, b

\* The directory of a file that can be created is one of Dirs.
LEMMA NameFacts ==
  ASSUME NEW k \in Names
  PROVE  k[1] \in 0..MaxClock /\ k[2] \in Nat /\ k # NoKey /\ Dir(k) \in Dirs
<1>1. k[1] \in 0..MaxClock /\ k[2] \in Nat /\ k = <<k[1], k[2]>>
  BY SMTT(30) DEF Names
<1>2. k # NoKey
  <2>1. Len(<<k[1], k[2]>>) = 2 /\ Len(NoKey) = 0
    BY DEF NoKey
  <2> QED
    BY <1>1, <2>1, SMTT(30)
<1>3. \A x, y \in Nat : \A d \in Nat \ {0} :
        x <= y => x \div d \in Nat /\ y \div d \in Nat /\ x \div d <= y \div d
  BY SMTT(30)
<1>4. /\ k[1] \div DirSpan \in Nat /\ MaxClock \div DirSpan \in Nat
      /\ k[1] \div DirSpan <= MaxClock \div DirSpan
  BY <1>1, <1>3, KngQueueAssumption, SMTT(30)
<1> QED
  BY <1>1, <1>2, <1>4, SMTT(30) DEF Dir, Dirs

\* fts_read returns what it lists, each entry once, the oldest first.
LEMMA Listing ==
  ASSUME NEW S, IsFiniteSet(S), NEW time, NEW q \in OldestFirst(S, time)
  PROVE  /\ q \in Seq(S)
         /\ {q[m] : m \in 1..Len(q)} = S
         /\ \A l, m \in 1..Len(q) : q[l] = q[m] => l = m
         /\ \A l, m \in 1..Len(q) : l < m => time[q[l]] <= time[q[m]]
<1> DEFINE c == Cardinality(S)
<1>1. c \in Nat /\ IsFiniteSet(1..c) /\ Cardinality(1..c) = c
  <2>1. c \in Nat
    BY FS_CardinalityType
  <2> QED
    BY <2>1, FS_Interval, SMTT(30)
<1>2. q \in [1..c -> S] /\ \A l, m \in 1..c : l # m => q[l] # q[m]
  BY DEF OldestFirst, Injection, IsInjective
<1>3. \A l, m \in 1..Len(q) : l < m => time[q[l]] <= time[q[m]]
  BY DEF OldestFirst
<1> HIDE DEF c
<1>4. q \in Seq(S) /\ Len(q) = c
  BY <1>1, <1>2, SMTT(30)
<1>5. q \in Injection(1..c, S)
  BY <1>2 DEF Injection, IsInjective
<1>6. q \in Surjection(1..c, S)
  BY <1>1, <1>5, FS_Injection DEF c
<1> QED
  BY <1>2, <1>3, <1>4, <1>6, SMTT(30) DEF Surjection

\* unlink(2) takes a name away and changes no other file.
LEMMA Removal ==
  ASSUME QueueTypes, NEW k, Unlink(k)
  PROVE  /\ FilesOK'
         /\ DOMAIN files' = DOMAIN files \ {k}
         /\ \A f \in DOMAIN files' : files'[f] = files[f]
         /\ \A d \in Dirs : dirtime[d] # Absent => dirtime'[d] # Absent
<1>1. /\ DOMAIN files' = DOMAIN files \ {k}
      /\ \A f \in DOMAIN files' : files'[f] = files[f]
      /\ files' = [f \in DOMAIN files' |-> files'[f]]
  BY DEF Unlink, Unlinked
<1>2. IsFiniteSet(DOMAIN files')
  BY <1>1, FS_Subset DEF QueueTypes, FilesOK
<1>3. clock \in Nat /\ clock # Absent
  BY KngQueueAssumption, SMTT(30) DEF QueueTypes, Absent
<1>4. /\ dirtime' \in [Dirs -> Nat \cup {Absent}]
      /\ \A d \in Dirs : dirtime[d] # Absent => dirtime'[d] # Absent
  BY <1>3 DEF Unlink, QueueTypes, FilesOK
<1> QED
  BY <1>1, <1>2, <1>4 DEF QueueTypes, FilesOK

\* The name of a new file.
LEMMA NewName ==
  ASSUME QueueTypes
  PROVE  <<clock, seq>> \in Names /\ Dir(<<clock, seq>>) \in Dirs /\ clock \in Nat /\ clock # Absent
<1>1. <<clock, seq>> \in Names /\ clock \in Nat /\ clock # Absent
  BY KngQueueAssumption, SMTT(30) DEF QueueTypes, Absent, Names
<1> QED
  BY <1>1, NameFacts

\* open(2) of a new name makes an empty file, and leaves an old file alone.
LEMMA Creation ==
  ASSUME QueueTypes, NEW k, CreateFile(k)
  PROVE  /\ FilesOK' /\ k \in Names /\ seq' = seq + 1
         /\ DOMAIN files' = DOMAIN files \cup {k}
         /\ \A f \in DOMAIN files : files'[f] = files[f]
         /\ \A d \in Dirs : dirtime[d] # Absent => dirtime'[d] # Absent
         /\ k \notin DOMAIN files => /\ dirtime'[Dir(k)] # Absent
                                     /\ files'[k].content = Garbage
                                     /\ files'[k].mtime = clock
<1>1. k \in Names /\ clock \in Nat /\ clock # Absent /\ Dir(k) \in Dirs /\ seq' = seq + 1
  BY NewName DEF CreateFile
<1>2. CASE k \in DOMAIN files
  <2>1. UNCHANGED <<files, dirtime>> /\ DOMAIN files \cup {k} = DOMAIN files
    BY <1>2 DEF CreateFile, OpenFile
  <2> QED
    BY <1>1, <1>2, <2>1 DEF QueueTypes, FilesOK
<1>3. CASE k \notin DOMAIN files
  <2>1. /\ DOMAIN files' = DOMAIN files \cup {k}
        /\ files' = [f \in DOMAIN files' |-> files'[f]]
        /\ \A f \in DOMAIN files : files'[f] = files[f]
        /\ files'[k] = [content |-> Garbage, mtime |-> clock]
        /\ dirtime' = [dirtime EXCEPT ![Dir(k)] = clock]
    BY <1>3 DEF CreateFile, OpenFile
  <2>2. IsFiniteSet(DOMAIN files')
    BY <2>1, FS_AddElement, SMTT(30) DEF QueueTypes, FilesOK
  <2>3. files'[k] \in FileData /\ files'[k].content = Garbage /\ files'[k].mtime = clock
    BY <1>1, <2>1, SMTT(30) DEF FileData
  <2>4. /\ dirtime' \in [Dirs -> Nat \cup {Absent}]
        /\ \A d \in Dirs : dirtime[d] # Absent => dirtime'[d] # Absent
        /\ dirtime'[Dir(k)] # Absent
    BY <1>1, <2>1 DEF QueueTypes, FilesOK
  <2>5. FilesOK'
    BY <1>1, <2>1, <2>2, <2>3, <2>4 DEF QueueTypes, FilesOK
  <2> QED
    BY <1>1, <2>1, <2>3, <2>4, <2>5
<1> QED
  BY <1>2, <1>3

\* write(2) completes the file in hand, or begins to write over it.
LEMMA Writing ==
  ASSUME QueueTypes, NEW k \in DOMAIN files, NEW i \in Ids \cup {Garbage}, WriteFile(k, i),
         UNCHANGED dirtime
  PROVE  /\ FilesOK'
         /\ DOMAIN files' = DOMAIN files
         /\ files'[k].content = i /\ files'[k].mtime = clock
         /\ \A f \in DOMAIN files \ {k} : files'[f] = files[f]
<1>1. /\ DOMAIN files' = DOMAIN files
      /\ files' = [f \in DOMAIN files' |-> files'[f]]
      /\ \A f \in DOMAIN files \ {k} : files'[f] = files[f]
      /\ files'[k] = [content |-> i, mtime |-> clock]
  BY DEF WriteFile, QueueTypes, FilesOK
<1>2. files'[k] \in FileData
  BY <1>1, KngQueueAssumption, SMTT(30) DEF FileData, QueueTypes
<1> QED
  BY <1>1, <1>2, SMTT(30) DEF QueueTypes, FilesOK

\* fts_open lists the directories that exist.
LEMMA Opening ==
  ASSUME QueueTypes, FtsOpen
  PROVE  /\ fts' \in Traversal
         /\ fts'.ents = <<>> /\ Ents' = {} /\ fts'.dir = NoDir
         /\ ToVisit' = Existing
<1>1. PICK q \in OldestFirst(Existing, dirtime) :
        fts' = [open |-> TRUE, dirs |-> q, dir |-> NoDir, ents |-> <<>>]
  BY DEF FtsOpen
<1>2. IsFiniteSet(Existing)
  <2>1. IsFiniteSet(Dirs)
    BY KngQueueAssumption, FS_Interval, SMTT(30) DEF Dirs
  <2> QED
    BY <2>1, FS_Subset DEF Existing
<1>3. q \in Seq(Existing) /\ {q[m] : m \in 1..Len(q)} = Existing
  BY <1>2, Listing, SMTT(30)
<1>4. q \in Seq(Dirs)
  BY <1>3, SMTT(30) DEF Existing
<1> QED
  BY <1>1, <1>3, <1>4, SMTT(30) DEF Traversal, Ents, ToVisit

\* A traversal of a queue, or over a directory, that cannot be read.
LEMMA Unreadable ==
  ASSUME QueueTypes, FtsOpenUnread \/ FtsSkip
  PROVE  fts' \in Traversal /\ fts'.ents = <<>> /\ Ents' = {}
<1>1. fts.dirs \in Seq(Dirs) /\ fts \in Traversal
  BY DEF QueueTypes, Traversal
<1>2. CASE FtsOpenUnread
  <2>1. fts' = [open |-> TRUE, dirs |-> <<>>, dir |-> NoDir, ents |-> <<>>]
    BY <1>2 DEF FtsOpenUnread, NoFts
  <2> QED
    BY <2>1, SMTT(30) DEF Traversal, Ents
<1>3. CASE FtsSkip
  <2>1. Tail(fts.dirs) \in Seq(Dirs)
    BY <1>1, <1>3, SMTT(30) DEF FtsSkip
  <2>2. fts' \in Traversal /\ fts'.ents = <<>>
    BY <1>1, <1>3, <2>1 DEF FtsSkip, Traversal
  <2> QED
    BY <2>2, SMTT(30) DEF Ents
<1> QED
  BY <1>2, <1>3

\* fts_read lists a directory when it comes to it.
LEMMA Descent ==
  ASSUME QueueTypes, FtsDescend
  PROVE  /\ fts' \in Traversal
         /\ Ents = {} /\ Ents' = In(fts'.dir)
         /\ ToVisit \subseteq ToVisit' \cup {fts'.dir}
         /\ \A l, m \in 1..Len(fts'.ents) : fts'.ents[l] = fts'.ents[m] => l = m
         /\ \A l, m \in 1..Len(fts'.ents) :
              l < m => files[fts'.ents[l]].mtime <= files[fts'.ents[m]].mtime
<1> DEFINE d == Head(fts.dirs)
           time == [k \in In(d) |-> files[k].mtime]
<1>0. /\ fts.dirs \in Seq(Dirs) /\ fts.dirs # <<>> /\ fts.ents = <<>>
      /\ fts = [open |-> fts.open, dirs |-> fts.dirs, dir |-> fts.dir, ents |-> fts.ents]
      /\ fts.open \in BOOLEAN
  BY DEF QueueTypes, Traversal, FtsDescend
<1>1. PICK q \in OldestFirst(In(d), time) :
        fts' = [fts EXCEPT !.dirs = Tail(@), !.dir = d, !.ents = q]
  BY DEF FtsDescend
<1>2. IsFiniteSet(In(d)) /\ In(d) \subseteq Names
  BY FS_Subset DEF In, QueueTypes, FilesOK
<1> HIDE DEF d
<1>3. /\ q \in Seq(In(d))
      /\ {q[m] : m \in 1..Len(q)} = In(d)
      /\ \A l, m \in 1..Len(q) : q[l] = q[m] => l = m
      /\ \A l, m \in 1..Len(q) : l < m => time[q[l]] <= time[q[m]]
  <2> HIDE DEF time
  <2> QED
    BY <1>2, Listing
<1>4. \A m \in 1..Len(q) : q[m] \in In(d) /\ time[q[m]] = files[q[m]].mtime
  BY <1>3
<1>5. /\ fts'.open = fts.open /\ fts'.dirs = Tail(fts.dirs) /\ fts'.dir = d /\ fts'.ents = q
      /\ fts' = [open |-> fts.open, dirs |-> Tail(fts.dirs), dir |-> d, ents |-> q]
  BY <1>0, <1>1
<1>6. /\ d \in Dirs /\ Tail(fts.dirs) \in Seq(Dirs)
      /\ \A m \in 1..Len(fts.dirs) :
           m = 1 \/ (m - 1 \in 1..Len(Tail(fts.dirs)) /\ Tail(fts.dirs)[m - 1] = fts.dirs[m])
      /\ fts.dirs[1] = d
  BY <1>0, SMTT(30) DEF d
<1>7. fts' \in Traversal
  <2>1. q \in Seq(Names)
    BY <1>2, <1>3, SMTT(30)
  <2> QED
    BY <1>0, <1>5, <1>6, <2>1 DEF Traversal
<1>8. ToVisit \subseteq ToVisit' \cup {fts'.dir}
  BY <1>5, <1>6, SMTT(30) DEF ToVisit
<1>9. Ents = {} /\ Ents' = In(fts'.dir)
  BY <1>0, <1>3, <1>5, SMTT(30) DEF Ents
<1>10. \A l, m \in 1..Len(q) : l < m => files[q[l]].mtime <= files[q[m]].mtime
  BY <1>3, <1>4
<1> QED
  BY <1>3, <1>5, <1>7, <1>8, <1>9, <1>10

----------------------------------------------------------------------------
(* The list of jobs.                                                       *)

\* There are no more jobs of the queue than jobs.
LEMMA QueueJobsBound ==
  ASSUME NEW js \in Seq(Job)
  PROVE  IsFiniteSet(QueueOf(js)) /\ Cardinality(QueueOf(js)) \in Nat
         /\ Cardinality(QueueOf(js)) <= Len(js)
<1> DEFINE l == Len(js)
<1>1. l \in Nat /\ QueueOf(js) \subseteq 1..l
  BY SMTT(30) DEF QueueOf
<1>2. IsFiniteSet(1..l) /\ Cardinality(1..l) = l
  <2> HIDE DEF l
  <2> QED
    BY <1>1, FS_Interval, SMTT(30)
<1> QED
  BY <1>1, <1>2, FS_Subset, FS_CardinalityType, SMTT(30)

\* The pids of the list.
LEMMA PidsListed ==
  /\ \A q : q \in JobPids <=> \E k \in 1..Len(jobs) : jobs[k].pid = q
  /\ \A q : q \in JobPids' <=> \E k \in 1..Len(jobs') : jobs'[k].pid = q
BY DEF JobPids

\* job_new and jobs_add put a new child at the head of the list.
LEMMA Started ==
  ASSUME ListInv, NEW i \in Ids, NEW via \in {"start", "queue"}, StartJob(i, via)
  PROVE  /\ ListInv' /\ nrunning' = nrunning + 1
         /\ via = "start" => Cardinality(QueueJobs') <= Cardinality(QueueJobs)
<1> DEFINE l == Len(jobs)
<1>1. PICK p \in Pids :
        /\ proc[p] = "none"
        /\ proc' = [proc EXCEPT ![p] = "run"]
        /\ jobs' = <<[pid |-> p, id |-> i, stopped |-> FALSE, sent |-> FALSE,
                      due |-> FALSE, via |-> via]>> \o jobs
  BY DEF StartJob
<1>2. PICK r \in Job : r.pid = p /\ r.via = via /\ jobs' = <<r>> \o jobs
  BY <1>1 DEF Job
<1>3. l \in Nat /\ jobs \in Seq(Job) /\ nrunning = l
  BY DEF ListInv, JobTypes, JobInv
<1>4. /\ jobs' \in Seq(Job) /\ Len(jobs') = l + 1 /\ jobs'[1] = r
      /\ \A j \in 1..l : jobs'[j + 1] = jobs[j]
      /\ \A j \in 1..(l + 1) : j = 1 \/ (j - 1 \in 1..l /\ jobs'[j] = jobs[j - 1])
  BY <1>2, <1>3, SMTT(30)
<1>5. nrunning' = nrunning + 1
  BY DEF StartJob
<1>6. p \notin JobPids /\ JobPids' = JobPids \cup {p}
  <2>1. p \notin JobPids
    BY <1>1 DEF ListInv, JobInv, Children, Child
  <2>2. JobPids' = JobPids \cup {p}
    <3>1. ASSUME NEW j \in 1..Len(jobs) PROVE \E m \in 1..Len(jobs') : jobs'[m].pid = jobs[j].pid
      BY <1>3, <1>4, SMTT(30)
    <3>2. p \in JobPids'
      <4>1. 1 \in 1..Len(jobs') /\ jobs'[1].pid = p
        BY <1>2, <1>3, <1>4, SMTT(30)
      <4> QED
        BY <4>1, PidsListed
    <3>3. ASSUME NEW m \in 1..Len(jobs') PROVE jobs'[m].pid \in JobPids \cup {p}
      <4>1. m = 1 \/ (m - 1 \in 1..Len(jobs) /\ jobs'[m] = jobs[m - 1])
        BY <1>3, <1>4
      <4> QED
        BY <1>2, <1>4, <4>1, PidsListed
    <3> QED
      BY <3>1, <3>2, <3>3, PidsListed, SMTT(30)
  <2> QED
    BY <2>1, <2>2
<1>7. proc' \in [Pids -> Child \cup {"none"}] /\ Children' = Children \cup {p}
  BY <1>1 DEF ListInv, JobTypes, Children, Child
<1>8. \A j, k \in 1..Len(jobs') : jobs'[j].pid = jobs'[k].pid => j = k
  <2>1. \A j \in 1..l : jobs[j].pid # p
    BY <1>6 DEF JobPids
  <2>2. \A j, k \in 1..l : jobs[j].pid = jobs[k].pid => j = k
    BY DEF ListInv, JobInv
  <2> QED
    BY <1>2, <1>3, <1>4, <2>1, <2>2, SMTT(30)
<1>9. ListInv'
  <2>1. nrunning' = Len(jobs') /\ nrunning' \in Nat
    BY <1>3, <1>4, <1>5, SMTT(30)
  <2>2. JobPids' = Children'
    BY <1>6, <1>7 DEF ListInv, JobInv
  <2> QED
    BY <1>4, <1>7, <1>8, <2>1, <2>2 DEF ListInv, JobTypes, JobInv
<1>10. ASSUME via = "start" PROVE Cardinality(QueueJobs') <= Cardinality(QueueJobs)
  <2> DEFINE f == [j \in QueueJobs' |-> j - 1]
  <2>1. \A j \in QueueJobs' : j \in Int /\ j - 1 \in QueueJobs
    BY <1>2, <1>3, <1>4, <1>10, SMTT(30) DEF QueueJobs, QueueOf
  <2>2. f \in Injection(QueueJobs', QueueJobs)
    BY <2>1, SMTT(30) DEF Injection, IsInjective
  <2> QED
    BY <1>3, <2>2, QueueJobsBound, FS_Injection DEF QueueJobs
<1> QED
  BY <1>5, <1>9, <1>10

\* jobs_remove takes the child that was waited for out of the list.
LEMMA Reaped ==
  ASSUME ListInv, NEW p \in Pids, proc[p] = "zombie", RemoveJob(p),
         proc' = [proc EXCEPT ![p] = "none"]
  PROVE  ListInv' /\ Cardinality(QueueJobs') <= Cardinality(QueueJobs)
<1> DEFINE l == Len(jobs)
<1>1. p \in JobPids
  BY DEF ListInv, JobInv, Children, Child
<1>2. PICK j \in 1..l : jobs[j].pid = p /\ jobs' = SubSeq(jobs, 1, j - 1) \o SubSeq(jobs, j + 1, Len(jobs)) /\ nrunning' = nrunning - 1
  BY <1>1 DEF RemoveJob, FirstJob
<1>3. l \in Nat /\ jobs \in Seq(Job) /\ nrunning = l
  BY DEF ListInv, JobTypes, JobInv
<1>4. /\ jobs' \in Seq(Job) /\ Len(jobs') = l - 1
      /\ \A k \in 1..(l - 1) : jobs'[k] = jobs[IF k < j THEN k ELSE k + 1]
  BY <1>2, <1>3, Shortened
<1>5. \A k, m \in 1..l : jobs[k].pid = jobs[m].pid => k = m
  BY DEF ListInv, JobInv
<1>6. JobPids' = JobPids \ {p}
  <2>1. ASSUME NEW k \in 1..l, k # j PROVE \E m \in 1..(l - 1) : jobs'[m] = jobs[k]
    <3>1. CASE k < j
      BY <1>3, <1>4, <2>1, <3>1, SMTT(30)
    <3>2. CASE k > j
      <4>1. k - 1 \in 1..(l - 1) /\ ~(k - 1 < j) /\ (k - 1) + 1 = k
        BY <1>3, <3>2, SMTT(30)
      <4> QED
        BY <1>4, <4>1
    <3> QED
      BY <1>3, <2>1, <3>1, <3>2, SMTT(30)
  <2>2. \A k \in 1..(l - 1) : \E m \in 1..l : m # j /\ jobs'[k] = jobs[m]
    <3>1. \A k \in 1..(l - 1) : LET m == IF k < j THEN k ELSE k + 1 IN m \in 1..l /\ m # j
      BY <1>3, SMTT(30)
    <3> QED
      BY <1>4, <3>1
  <2>3. JobPids' \subseteq JobPids \ {p}
    <3>1. ASSUME NEW k \in 1..(l - 1) PROVE jobs'[k].pid \in JobPids \ {p}
      <4>1. PICK m \in 1..l : m # j /\ jobs'[k] = jobs[m]
        BY <2>2
      <4> QED
        BY <1>2, <1>5, <4>1, PidsListed
    <3>2. Len(jobs') = l - 1
      BY <1>4
    <3>3. \A q \in JobPids' : \E k \in 1..(l - 1) : jobs'[k].pid = q
      BY <3>2, PidsListed
    <3> QED
      BY <3>1, <3>3
  <2>4. JobPids \ {p} \subseteq JobPids'
    <3> SUFFICES ASSUME NEW q \in JobPids, q # p
                 PROVE  q \in JobPids'
      OBVIOUS
    <3>1. PICK k \in 1..l : jobs[k].pid = q
      BY PidsListed
    <3>2. PICK m \in 1..(l - 1) : jobs'[m] = jobs[k]
      BY <1>2, <2>1, <3>1
    <3>3. m \in 1..Len(jobs') /\ jobs'[m].pid = q
      BY <1>4, <3>1, <3>2
    <3> QED
      BY <3>3, PidsListed
  <2> QED
    BY <2>3, <2>4
<1>7. proc' \in [Pids -> Child \cup {"none"}] /\ Children' = Children \ {p}
  BY DEF ListInv, JobTypes, Children, Child
<1>8. \A k, m \in 1..Len(jobs') : jobs'[k].pid = jobs'[m].pid => k = m
  BY <1>3, <1>4, <1>5, SMTT(30)
<1>9. ListInv'
  <2>1. nrunning' \in Nat /\ nrunning' = Len(jobs')
    <3>1. Len(jobs') = l - 1 /\ nrunning' = l - 1
      BY <1>2, <1>3, <1>4
    <3>2. l - 1 \in Nat
      BY <1>3, SMTT(30)
    <3> QED
      BY <3>1, <3>2
  <2>2. JobPids' = Children'
    BY <1>6, <1>7 DEF ListInv, JobInv
  <2> QED
    BY <1>4, <1>7, <1>8, <2>1, <2>2 DEF ListInv, JobTypes, JobInv
<1>10. Cardinality(QueueJobs') <= Cardinality(QueueJobs)
  <2> DEFINE f == [k \in QueueJobs' |-> IF k < j THEN k ELSE k + 1]
  <2>1. \A k \in QueueJobs' : k \in Int /\ (IF k < j THEN k ELSE k + 1) \in QueueJobs
    BY <1>3, <1>4, SMTT(30) DEF QueueJobs, QueueOf
  <2>2. f \in Injection(QueueJobs', QueueJobs)
    BY <2>1, SMTT(30) DEF Injection, IsInjective
  <2> QED
    BY <1>3, <2>2, QueueJobsBound, FS_Injection DEF QueueJobs
<1> QED
  BY <1>9, <1>10

\* Marks of a job and the state of a child that stays a child make no
\* difference to the list.
LEMMA Marked ==
  ASSUME ListInv, jobs' \in Seq(Job), Len(jobs') = Len(jobs), UNCHANGED nrunning,
         \A j \in 1..Len(jobs) : jobs'[j].pid = jobs[j].pid /\ jobs'[j].via = jobs[j].via,
         proc' \in [Pids -> Child \cup {"none"}],
         \A p \in Pids : proc[p] \in Child <=> proc'[p] \in Child
  PROVE  ListInv' /\ Cardinality(QueueJobs') <= Cardinality(QueueJobs)
<1>1. Children' = Children
  BY DEF Children
<1>2. JobPids' = JobPids
  <2>1. \A q : (\E k \in 1..Len(jobs') : jobs'[k].pid = q) <=> \E k \in 1..Len(jobs) : jobs[k].pid = q
    OBVIOUS
  <2> QED
    BY <2>1, PidsListed
<1>3. QueueJobs' = QueueJobs
  BY DEF QueueJobs, QueueOf
<1>4. ListInv'
  BY <1>1, <1>2 DEF ListInv, JobTypes, JobInv
<1> QED
  BY <1>3, <1>4, QueueJobsBound, SMTT(30) DEF ListInv, JobTypes, QueueJobs

\* Whatever happens, the list of jobs stays the children, and "queue" requests
\* start no more of them than there are slots.
LEMMA ListStep ==
  ASSUME IInv, [Next]_vars
  PROVE  ListInv' /\ QueueKeepsSlots'
<1> DEFINE Same == UNCHANGED <<jobs, nrunning, proc>>
           Goal == ListInv' /\ QueueKeepsSlots'
<1>0. /\ ListInv /\ Cardinality(QueueJobs) \in Nat /\ Cardinality(QueueJobs) <= NSlots
      /\ NSlots \in Nat /\ id \in Ids /\ nrunning \in Nat
  BY KngAssumption, QueueJobsBound
     DEF IInv, QueueKeepsSlots, QueueJobs, QueueOf, DaemonTypes, ListInv, JobTypes
<1>g. ASSUME ListInv', Cardinality(QueueJobs') <= Cardinality(QueueJobs) PROVE Goal
  <2>1. Cardinality(QueueJobs') \in Nat
    BY <1>g, QueueJobsBound DEF ListInv, JobTypes, QueueJobs
  <2> QED
    BY <1>0, <1>g, <2>1, SMTT(30) DEF QueueKeepsSlots, QueueJobs, QueueOf
<1>1. ASSUME Same PROVE Goal
  <2>1. ListInv'
    BY <1>0, <1>1, SMTT(30) DEF ListInv, JobTypes, JobInv, JobPids, Children
  <2>2. QueueJobs' = QueueJobs
    BY <1>1 DEF QueueJobs
  <2> QED
    BY <1>0, <1>g, <2>1, <2>2, SMTT(30)
<1>2. ASSUME NEW i \in Ids, StartJob(i, "start") PROVE Goal
  BY <1>0, <1>2, <1>g, Started
<1>3. ASSUME NEW i \in Ids, StartJob(i, "queue"), nrunning < NSlots PROVE Goal
  <2>1. ListInv' /\ nrunning' = nrunning + 1
    BY <1>0, <1>3, Started
  <2>2. Cardinality(QueueJobs') \in Nat /\ Cardinality(QueueJobs') <= Len(jobs')
    <3>1. jobs' \in Seq(Job)
      BY <2>1 DEF ListInv, JobTypes
    <3> QED
      BY <3>1, QueueJobsBound DEF QueueJobs
  <2>3. Len(jobs') = nrunning + 1
    BY <2>1 DEF ListInv, JobInv
  <2> QED
    <3>1. Cardinality(QueueJobs') <= NSlots
      BY <1>0, <1>3, <2>2, <2>3, SMTT(30)
    <3> QED
      BY <2>1, <3>1 DEF QueueKeepsSlots, QueueJobs, QueueOf
<1>m. ASSUME NEW j \in 1..Len(jobs), NEW r \in Job, r.pid = jobs[j].pid, r.via = jobs[j].via,
             jobs' = [jobs EXCEPT ![j] = r], UNCHANGED <<proc, nrunning>>
      PROVE  Goal
  <2>1. /\ jobs' \in Seq(Job) /\ Len(jobs') = Len(jobs)
        /\ \A k \in 1..Len(jobs) : jobs'[k].pid = jobs[k].pid /\ jobs'[k].via = jobs[k].via
    BY <1>0, <1>m, SMTT(30) DEF ListInv, JobTypes
  <2>2. proc' \in [Pids -> Child \cup {"none"}]
    BY <1>0, <1>m DEF ListInv, JobTypes
  <2> QED
    BY <1>0, <1>g, <1>m, <2>1, <2>2, Marked
<1>4. CASE ModInit \/ Dispatch
  <2>1. ASSUME ModInit \/ DispatchNext \/ WalkDirs \/ WalkFile \/ WalkEnd \/ ReadFile \/ UnlinkFile
        PROVE  Same
    BY <2>1 DEF ModInit, DispatchNext, WalkDirs, WalkFile, WalkEnd, ReadFile, UnlinkFile, listVars
  <2>2. ASSUME DispatchStart PROVE Goal
    <3>1. nrunning < NSlots
      BY <1>0, <2>2, KngAssumption, SMTT(30) DEF DispatchStart, At, IInv, BudgetInv, Dispatching, Available
    <3>2. StartJob(id, "queue") \/ Same
      BY <2>2 DEF DispatchStart, StartFails
    <3> QED
      BY <1>0, <1>1, <1>3, <3>1, <3>2
  <2> QED
    BY <1>1, <1>4, <2>1, <2>2 DEF Dispatch
<1>5. CASE Requests
  <2>1. ASSUME NEW i \in Ids, ReqStart(i) PROVE Goal
    BY <1>1, <1>2, <2>1 DEF ReqStart, StartFails
  <2>2. ASSUME NEW i \in Ids, ReqQueueStart(i) PROVE Goal
    <3>1. nrunning < NSlots
      BY <1>0, <2>2, SMTT(30) DEF ReqQueueStart, Available
    <3>2. StartJob(i, "queue") \/ Same
      BY <2>2 DEF ReqQueueStart, StartFails
    <3> QED
      BY <1>1, <1>3, <3>1, <3>2
  <2>3. ASSUME NEW i \in Ids, ReqQueuePut(i) PROVE Goal
    BY <1>1, <2>3 DEF ReqQueuePut, listVars
  <2>4. ASSUME NEW i \in Ids, ReqStop(i) PROVE Goal
    <3>1. PICK j \in 1..Len(jobs) : jobs' = [jobs EXCEPT ![j].stopped = TRUE]
      BY <2>4 DEF ReqStop, FirstJob
    <3>2. UNCHANGED <<proc, nrunning>>
      BY <2>4 DEF ReqStop
    <3> DEFINE r == [jobs[j] EXCEPT !.stopped = TRUE]
    <3>3. jobs[j] \in Job
      BY <1>0, SMTT(30) DEF ListInv, JobTypes
    <3>4. r \in Job /\ r.pid = jobs[j].pid /\ r.via = jobs[j].via
      BY <3>3 DEF Job
    <3>5. jobs' = [jobs EXCEPT ![j] = r]
      BY <3>1
    <3> HIDE DEF r
    <3> QED
      BY <1>m, <3>2, <3>4, <3>5
  <2> QED
    BY <1>5, <2>1, <2>2, <2>3, <2>4 DEF Requests
<1>6. CASE PutWrite \/ PutLink
  BY <1>1, <1>6 DEF PutWrite, PutLink, listVars
<1>7. CASE Loop
  <2>1. ASSUME NEW p \in Pids, ReapChild(p) PROVE Goal
    BY <1>0, <1>g, <2>1, Reaped DEF ReapChild
  <2>2. ASSUME Top \/ NoMoreZombies \/ ClearChld \/ EnterSelect PROVE Same
    BY <2>2 DEF Top, NoMoreZombies, ClearChld, EnterSelect, listVars
  <2> QED
    BY <1>1, <1>7, <2>1, <2>2 DEF Loop
<1>8. CASE OnTick
  <2>1. jobs \in Seq(Job) /\ jobs' = [j \in 1..Len(jobs) |-> Checked(jobs[j])]
    BY <1>0, <1>8 DEF OnTick, ListInv, JobTypes
  <2>2. \A r \in Job : Checked(r) \in Job /\ Checked(r).pid = r.pid /\ Checked(r).via = r.via
    BY DEF Checked, Job
  <2>3. /\ jobs' \in Seq(Job) /\ Len(jobs') = Len(jobs)
        /\ \A k \in 1..Len(jobs) : jobs'[k].pid = jobs[k].pid /\ jobs'[k].via = jobs[k].via
    BY <2>1, <2>2, SMTT(30)
  <2>4. /\ proc' \in [Pids -> Child \cup {"none"}]
        /\ \A p \in Pids : proc[p] \in Child <=> proc'[p] \in Child
        /\ UNCHANGED nrunning
    BY <1>0, <1>8 DEF OnTick, ListInv, JobTypes, Child
  <2> QED
    BY <1>0, <1>g, <2>3, <2>4, Marked
<1>9. CASE ModFini \/ Crash
  <2>1. jobs' = <<>> /\ nrunning' = 0
    BY <1>9 DEF ModFini, Crash, Gone
  <2>2. proc' = [p \in Pids |-> "none"]
    BY <1>0, <1>9 DEF ModFini, Crash, ListInv, JobTypes, JobInv, Children
  <2>3. JobPids' = {} /\ Children' = {} /\ Len(jobs') = 0 /\ jobs' \in Seq(Job)
    BY <2>1, <2>2, SMTT(30) DEF JobPids, Children, Child
  <2>4. ListInv' /\ QueueJobs' = {}
    BY <2>1, <2>2, <2>3, SMTT(30) DEF ListInv, JobTypes, JobInv, QueueJobs, QueueOf
  <2> QED
    BY <1>0, <1>g, <2>4, FS_EmptySet, SMTT(30)
<1>10. CASE \E p \in Pids : Exit(p) \/ Expire(p)
  <2>1. ASSUME NEW p \in Pids, Exit(p) PROVE Goal
    <3>1. /\ proc' \in [Pids -> Child \cup {"none"}]
          /\ \A q \in Pids : proc[q] \in Child <=> proc'[q] \in Child
          /\ UNCHANGED <<jobs, nrunning>> /\ jobs \in Seq(Job)
      BY <1>0, <2>1 DEF Exit, ListInv, JobTypes, Child, listVars
    <3> QED
      BY <1>0, <1>g, <3>1, Marked
  <2>2. ASSUME NEW p \in Pids, Expire(p) PROVE Goal
    <3>1. PICK j \in 1..Len(jobs) : jobs' = [jobs EXCEPT ![j].due = TRUE]
      BY <2>2 DEF Expire
    <3>2. UNCHANGED <<proc, nrunning>>
      BY <2>2 DEF Expire
    <3> DEFINE r == [jobs[j] EXCEPT !.due = TRUE]
    <3>3. jobs[j] \in Job
      BY <1>0, SMTT(30) DEF ListInv, JobTypes
    <3>4. r \in Job /\ r.pid = jobs[j].pid /\ r.via = jobs[j].via
      BY <3>3 DEF Job
    <3>5. jobs' = [jobs EXCEPT ![j] = r]
      BY <3>1
    <3> HIDE DEF r
    <3> QED
      BY <1>m, <3>2, <3>4, <3>5
  <2> QED
    BY <1>10, <2>1, <2>2
<1>11. CASE Second \/ UNCHANGED vars
  BY <1>1, <1>11 DEF Second, vars, listVars
<1> QED
  BY <1>4, <1>5, <1>6, <1>7, <1>8, <1>9, <1>10, <1>11 DEF Next, Environment

----------------------------------------------------------------------------
(* Types, the budget of dispatch_n_jobs and the file in hand.              *)

\* Counting a request.
LEMMA Counted ==
  ASSUME NEW h \in [Ids -> Nat], NEW i \in Ids
  PROVE  /\ Count(h, i) \in [Ids -> Nat]
         /\ \A j \in Ids : Count(h, i)[j] = IF j = i THEN h[j] + 1 ELSE h[j]
BY SMTT(30) DEF Count

\* At its end a traversal is opened again, or dispatch_n_jobs returns.
LEMMA EndCases ==
  ASSUME IInv, WalkEnd
  PROVE  \/ retry = "retry" /\ OpenQueue /\ retry' = "reopened" /\ UNCHANGED pc
         \/ retry = "fresh" /\ pc' = back /\ UNCHANGED <<fts, retry, faults, cut>>
         \/ retry = "reopened" /\ pc' = back /\ fts' = NoFts /\ UNCHANGED <<retry, faults, cut>>
<1>1. retry \in {"fresh", "retry", "reopened"}
  BY DEF IInv, QueueTypes
<1>2. CASE retry = "retry"
  BY <1>2 DEF WalkEnd
<1>3. CASE retry = "fresh"
  BY <1>3 DEF WalkEnd, Goto
<1>4. CASE retry = "reopened"
  BY <1>4 DEF WalkEnd, Goto
<1> QED
  BY <1>1, <1>2, <1>3, <1>4

\* The variables of the daemon stay in their domains.
LEMMA DaemonStep ==
  ASSUME IInv, [Next]_vars
  PROVE  DaemonTypes'
<1> USE DEF At, Goto, handVars, histVars, countVars
<1>0. DaemonTypes /\ NSlots \in Nat /\ nrunning \in Nat /\ nrunning' \in Nat
  BY ListStep, KngAssumption DEF IInv, ListInv, JobTypes
<1>1. CASE ModInit \/ DispatchNext \/ WalkDirs \/ WalkFile \/ WalkEnd
  <2>1. CASE ModInit \/ DispatchNext \/ WalkDirs \/ WalkFile
    BY <1>0, <2>1, SMTT(30) DEF ModInit, DispatchNext, WalkDirs, WalkFile, DaemonTypes, Available, Pcs
  <2>2. CASE WalkEnd
    <3>1. pc' = pc \/ pc' = back
      BY <2>2, EndCases
    <3>2. UNCHANGED <<handVars, countVars>>
      BY <2>2 DEF WalkEnd
    <3> QED
      BY <1>0, <3>1, <3>2 DEF DaemonTypes, Pcs
  <2> QED
    BY <1>1, <2>1, <2>2
<1>2. CASE ReadFile \/ UnlinkFile
  <2>1. key \in DOMAIN files => files[key].content \in Ids \cup {Garbage}
    BY DEF IInv, QueueTypes, FilesOK, FileData
  <2> QED
    BY <1>0, <1>2, <2>1 DEF ReadFile, Intact, UnlinkFile, DaemonTypes, Pcs
<1>3. CASE DispatchStart
  <2>1. n > 0
    BY <1>3 DEF IInv, BudgetInv, Dispatching, DispatchStart
  <2>2. tried' \in [Ids -> Nat]
    BY <1>0, <1>3, Counted DEF DispatchStart, DaemonTypes
  <2> QED
    BY <1>0, <1>3, <2>1, <2>2, SMTT(30) DEF DispatchStart, DaemonTypes, Pcs
<1>4. CASE Requests
  <2>1. ASSUME NEW i \in Ids, ReqStart(i) \/ ReqStop(i) PROVE DaemonTypes'
    BY <1>0, <2>1 DEF ReqStart, ReqStop, DaemonTypes, Pcs
  <2>2. ASSUME NEW i \in Ids, ReqQueueStart(i) PROVE DaemonTypes'
    <3>1. /\ reqs' \in [Ids -> Nat] /\ acked' \in [Ids -> Nat] /\ tried' \in [Ids -> Nat]
      BY <1>0, <2>2, Counted, SMTT(30) DEF ReqQueueStart, ReqQueue, DaemonTypes
    <3> QED
      BY <1>0, <2>2, <3>1 DEF ReqQueueStart, DaemonTypes, Pcs
  <2>3. ASSUME NEW i \in Ids, ReqQueuePut(i) PROVE DaemonTypes'
    <3>1. /\ reqs' \in [Ids -> Nat]
      BY <1>0, <2>3, Counted DEF ReqQueuePut, ReqQueue, DaemonTypes
    <3> QED
      BY <1>0, <2>3, <3>1 DEF ReqQueuePut, DaemonTypes, Pcs
  <2> QED
    BY <1>4, <2>1, <2>2, <2>3 DEF Requests
<1>5. CASE PutWrite \/ PutLink
  <2>1. acked' \in [Ids -> Nat]
    BY <1>0, <1>5, Counted, SMTT(30) DEF PutWrite, PutLink, DaemonTypes
  <2> QED
    BY <1>0, <1>5, <2>1 DEF PutWrite, PutLink, DaemonTypes, Pcs
<1>6. CASE Loop \/ OnTick
  BY <1>0, <1>6, SMTT(30) DEF Loop, Top, ReapChild, NoMoreZombies, ClearChld, EnterSelect, OnTick,
                    DaemonTypes, Available, Pcs
<1>7. CASE ModFini \/ Environment \/ UNCHANGED vars
  BY <1>0, <1>7, SMTT(30) DEF ModFini, Environment, Exit, Expire, Crash, Second, Gone, vars, DaemonTypes, Pcs
<1> QED
  BY <1>1, <1>2, <1>3, <1>4, <1>5, <1>6, <1>7 DEF Next, Dispatch

\* Failures and losses are counted up, and a name that recurred did so for good.
LEMMA LossStep ==
  ASSUME IInv, [Next]_vars
  PROVE  LossTypes' /\ FaultInv' /\ (NamesRecur => NamesRecur')
<1> USE DEF At, Goto, histVars, countVars, lossVars, Fault, OpenQueue
<1>0. LossTypes /\ FaultInv /\ crashes \in Nat
  BY DEF IInv, DaemonTypes
<1>1. ASSUME UNCHANGED <<unread, overwritten>>, cut' \in BOOLEAN,
             faults' = faults \/ faults' = faults + 1, stops' = stops \/ stops' = stops + 1,
             crashes' = crashes \/ crashes' = crashes + 1
      PROVE  LossTypes' /\ FaultInv' /\ (NamesRecur => NamesRecur')
  BY <1>0, <1>1, SMTT(30) DEF LossTypes, FaultInv, NamesRecur
<1>2. CASE ModInit \/ DispatchNext \/ WalkDirs \/ WalkFile \/ UnlinkFile \/ DispatchStart
  BY <1>0, <1>1, <1>2 DEF ModInit, DispatchNext, WalkDirs, WalkFile, UnlinkFile, DispatchStart,
                          LossTypes
<1>3. CASE WalkEnd
  <2>1. UNCHANGED <<countVars, unread, overwritten>>
    BY <1>3 DEF WalkEnd
  <2>2. UNCHANGED <<faults, cut>> \/ Fault
    BY <1>3, EndCases
  <2> QED
    BY <1>0, <1>1, <2>1, <2>2 DEF LossTypes
<1>4. CASE ReadFile
  <2>1. key \in DOMAIN files => files[key].content \in Ids \cup {Garbage}
    BY DEF IInv, QueueTypes, FilesOK, FileData
  <2>2. CASE UNCHANGED unread
    BY <1>0, <1>1, <1>4, <2>2 DEF ReadFile, LossTypes
  <2>3. CASE Intact /\ Fault /\ unread' = Count(unread, files[key].content)
    <3>1. unread' \in [Ids -> Nat]
      BY <1>0, <1>4, <2>1, <2>3, Counted DEF LossTypes, Intact, ReadFile
    <3>2. faults' = faults + 1 /\ cut' = TRUE /\ UNCHANGED <<stops, crashes, overwritten>>
      BY <1>4, <2>3 DEF ReadFile
    <3> QED
      BY <1>0, <3>1, <3>2, SMTT(30) DEF LossTypes, FaultInv, NamesRecur
  <2> QED
    BY <1>4, <2>2, <2>3 DEF ReadFile
<1>5. CASE PutWrite
  <2>1. key \in DOMAIN files /\ files[key].content \in Ids \cup {Garbage}
    BY <1>5 DEF IInv, HandInv, Putting, PutWrite, QueueTypes, FilesOK, FileData
  <2>2. overwritten' \in [Ids -> Nat]
    BY <1>0, <1>5, <2>1, Counted DEF PutWrite, LossTypes
  <2>3. UNCHANGED <<stops, crashes, faults, cut, unread>>
    BY <1>5 DEF PutWrite
  <2> QED
    BY <1>0, <2>2, <2>3 DEF LossTypes, FaultInv, NamesRecur
<1>6. CASE Requests \/ PutLink
  BY <1>0, <1>1, <1>6 DEF Requests, ReqStart, ReqStop, ReqQueueStart, ReqQueuePut, PutLink, LossTypes
<1>7. CASE Loop \/ OnTick
  BY <1>0, <1>1, <1>7 DEF Loop, Top, ReapChild, NoMoreZombies, ClearChld, EnterSelect, OnTick, LossTypes
<1>8. CASE ModFini \/ Environment \/ UNCHANGED vars
  BY <1>0, <1>1, <1>8 DEF ModFini, Environment, Exit, Expire, Crash, Second, vars, LossTypes
<1> QED
  BY <1>2, <1>3, <1>4, <1>5, <1>6, <1>7, <1>8 DEF Next, Dispatch

\* The budget follows the jobs: it is set from them, and a job that starts
\* takes one from both.
LEMMA BudgetStep ==
  ASSUME IInv, [Next]_vars
  PROVE  BudgetInv'
<1> USE DEF At, Goto, handVars, histVars, listVars, Dispatching, Putting
<1>0. /\ BudgetInv /\ DaemonTypes /\ NSlots \in Nat /\ nrunning \in Nat /\ nrunning' \in Nat
  BY ListStep, KngAssumption DEF IInv, ListInv, JobTypes
<1>1. CASE ModInit \/ DispatchNext \/ WalkDirs \/ WalkFile \/ WalkEnd \/ ReadFile \/ UnlinkFile
  <2>1. CASE ModInit \/ DispatchNext \/ WalkDirs \/ WalkFile
    BY <1>0, <2>1, SMTT(30) DEF ModInit, DispatchNext, WalkDirs, WalkFile, BudgetInv, DaemonTypes
  <2>2. CASE WalkEnd
    <3>1. pc' = pc \/ pc' = back
      BY <2>2, EndCases, SMTT(30)
    <3>2. pc = "walk" /\ UNCHANGED <<handVars, listVars>>
      BY <2>2 DEF WalkEnd
    <3> QED
      BY <1>0, <3>1, <3>2 DEF BudgetInv, DaemonTypes
  <2>3. CASE ReadFile \/ UnlinkFile
    BY <1>0, <2>3 DEF ReadFile, UnlinkFile, BudgetInv, DaemonTypes
  <2> QED
    BY <1>1, <2>1, <2>2, <2>3
<1>2. CASE DispatchStart
  BY <1>0, <1>2, SMTT(30) DEF DispatchStart, StartJob, StartFails, BudgetInv, Available
<1>3. CASE Requests \/ PutWrite \/ PutLink
  BY <1>0, <1>3 DEF Requests, ReqStart, ReqStop, ReqQueueStart, ReqQueuePut, PutWrite, PutLink,
                    BudgetInv
<1>4. CASE Loop \/ OnTick
  BY <1>0, <1>4 DEF Loop, Top, ReapChild, NoMoreZombies, ClearChld, EnterSelect, OnTick, BudgetInv
<1>5. CASE ModFini \/ Environment \/ UNCHANGED vars
  BY <1>0, <1>5 DEF ModFini, Environment, Exit, Expire, Crash, Second, Gone, vars, BudgetInv
<1> QED
  BY <1>1, <1>2, <1>3, <1>4, <1>5 DEF Next, Dispatch

\* fts_read returns the first entry of its listing.
LEMMA Taking ==
  ASSUME QueueTypes, FtsHasFile, key' = Head(fts.ents), fts' = [fts EXCEPT !.ents = Tail(@)]
  PROVE  /\ fts' \in Traversal
         /\ fts'.dir = fts.dir /\ fts'.dirs = fts.dirs /\ ToVisit' = ToVisit
         /\ Len(fts.ents) \in Nat \ {0} /\ Len(fts'.ents) = Len(fts.ents) - 1
         /\ key' = fts.ents[1]
         /\ \A m \in 1..Len(fts'.ents) : fts'.ents[m] = fts.ents[m + 1]
         /\ Ents = Ents' \cup {key'}
<1>1. /\ fts.ents \in Seq(Names) /\ fts.ents # <<>>
      /\ fts = [open |-> fts.open, dirs |-> fts.dirs, dir |-> fts.dir, ents |-> fts.ents]
      /\ fts.open \in BOOLEAN /\ fts.dirs \in Seq(Dirs) /\ fts.dir \in Dirs \cup {NoDir}
  BY DEF QueueTypes, Traversal, FtsHasFile
<1>2. /\ fts' = [open |-> fts.open, dirs |-> fts.dirs, dir |-> fts.dir, ents |-> Tail(fts.ents)]
      /\ fts'.dir = fts.dir /\ fts'.dirs = fts.dirs /\ fts'.ents = Tail(fts.ents)
  BY <1>1
<1> DEFINE e == fts.ents
           t == Tail(fts.ents)
<1>3. /\ Len(e) \in Nat \ {0} /\ Len(t) = Len(e) - 1 /\ Head(e) = e[1] /\ t \in Seq(Names)
      /\ \A m \in 1..Len(t) : t[m] = e[m + 1]
  BY <1>1, SMTT(30)
<1>4. {e[m] : m \in 1..Len(e)} = {t[m] : m \in 1..Len(t)} \cup {e[1]}
  <2> HIDE DEF e, t
  <2>1. ASSUME NEW m \in 1..Len(e) PROVE e[m] \in {t[k] : k \in 1..Len(t)} \cup {e[1]}
    <3>1. CASE m = 1
      BY <3>1
    <3>2. CASE m # 1
      <4>1. m - 1 \in 1..Len(t) /\ t[m - 1] = e[m]
        BY <1>3, <3>2, SMTT(30)
      <4> QED
        BY <4>1
    <3> QED
      BY <3>1, <3>2
  <2>2. ASSUME NEW m \in 1..Len(t) PROVE t[m] \in {e[k] : k \in 1..Len(e)}
    <3>1. m + 1 \in 1..Len(e) /\ t[m] = e[m + 1]
      BY <1>3, SMTT(30)
    <3> QED
      BY <3>1
  <2>3. 1 \in 1..Len(e)
    BY <1>3, SMTT(30)
  <2> QED
    BY <2>1, <2>2, <2>3
<1>5. ToVisit' = ToVisit
  BY <1>2 DEF ToVisit
<1>6. Ents = Ents' \cup {key'}
  <2>1. key' = e[1] /\ Ents = {e[m] : m \in 1..Len(e)}
    BY <1>3 DEF Ents
  <2>2. Ents' = {t[m] : m \in 1..Len(t)}
    BY <1>2 DEF Ents
  <2> QED
    BY <1>4, <2>1, <2>2
<1>7. fts' \in Traversal
  BY <1>1, <1>2, <1>3 DEF Traversal
<1> QED
  BY <1>2, <1>3, <1>5, <1>6, <1>7

\* The steps that do not touch the queue, but for the time.
QuietNext ==
  \/ DispatchStart \/ Loop \/ OnTick \/ ModFini \/ Environment \/ UNCHANGED vars
  \/ \E i \in Ids : ReqStart(i) \/ ReqQueueStart(i) \/ ReqStop(i)
LEMMA QuietCases ==
  ASSUME QuietNext
  PROVE  \/ UNCHANGED queueVars
         \/ clock' = clock + 1 /\ clock < MaxClock /\ UNCHANGED <<diskVars, seq, fts, retry>>
<1> USE DEF queueVars, diskVars
<1>1. CASE DispatchStart \/ Loop \/ OnTick \/ UNCHANGED vars
  BY <1>1 DEF DispatchStart, Loop, Top, ReapChild, NoMoreZombies, ClearChld, EnterSelect, OnTick, vars
<1>2. CASE ModFini \/ Environment
  BY <1>2 DEF ModFini, Environment, Exit, Expire, Crash, Second
<1>3. CASE \E i \in Ids : ReqStart(i) \/ ReqQueueStart(i) \/ ReqStop(i)
  BY <1>3 DEF ReqStart, ReqQueueStart, ReqStop
<1> QED
  BY <1>1, <1>2, <1>3 DEF QuietNext

\* Steps that leave the files alone.
LEMMA QueueSame ==
  ASSUME QueueTypes, UNCHANGED <<files, dirtime>>
  PROVE  FilesOK' /\ (DirsInv => DirsInv')
BY DEF QueueTypes, FilesOK, DirsInv

\* The queue stays well formed, and every file in an existing directory.
LEMMA QueueStep ==
  ASSUME IInv, [Next]_vars
  PROVE  QueueTypes' /\ DirsInv'
<1> USE DEF At, Goto, queueVars, diskVars
<1>0. /\ QueueTypes /\ DirsInv /\ FilesOK /\ DOMAIN files \subseteq Names
      /\ links \in [Ids -> Names \cup {NoKey}] /\ id \in Ids
      /\ fts \in Traversal /\ NoFts \in Traversal
      /\ pc \in Putting => key \in DOMAIN files
  BY SMTT(30) DEF IInv, QueueTypes, FilesOK, DaemonTypes, HandInv, NoFts, Traversal
<1>s. ASSUME UNCHANGED <<files, dirtime, clock, links>>, seq' \in Nat, fts' \in Traversal,
             retry' \in {"fresh", "retry", "reopened"}
      PROVE  QueueTypes' /\ DirsInv'
  BY <1>0, <1>s, QueueSame DEF QueueTypes
<1>u. ASSUME NEW k, Unlink(k), UNCHANGED <<clock, links, seq, fts, retry>>
      PROVE  QueueTypes' /\ DirsInv'
  <2>1. /\ FilesOK'
        /\ DOMAIN files' = DOMAIN files \ {k}
        /\ \A d \in Dirs : dirtime[d] # Absent => dirtime'[d] # Absent
    BY <1>0, <1>u, Removal
  <2> QED
    BY <1>0, <1>u, <2>1, NameFacts DEF QueueTypes, DirsInv
<1>1. CASE UNCHANGED queueVars
  BY <1>0, <1>1, <1>s DEF QueueTypes
<1>2. CASE ModInit
  BY <1>0, <1>2, <1>s DEF ModInit, QueueReset
<1>3. CASE DispatchNext
  <2>1. fts' \in Traversal
    BY <1>0, <1>3, Opening, Unreadable DEF DispatchNext, OpenQueue
  <2>2. seq \in Nat /\ retry' \in {"fresh", "retry", "reopened"}
    BY <1>0, <1>3 DEF DispatchNext, QueueTypes
  <2> QED
    BY <1>3, <1>s, <2>1, <2>2 DEF DispatchNext
<1>4. CASE WalkDirs
  <2>1. CASE FtsDescend
    BY <1>0, <1>4, <1>s, <2>1, Descent DEF WalkDirs, FtsDescend, QueueTypes
  <2>2. CASE FtsLeave
    <3>1. /\ fts' = [fts EXCEPT !.dir = NoDir] /\ UNCHANGED <<clock, files, links, seq, retry>>
          /\ dirtime' = IF In(fts.dir) = {} THEN [dirtime EXCEPT ![fts.dir] = Absent] ELSE dirtime
      BY <1>4, <2>2 DEF WalkDirs, FtsLeave
    <3>2. fts' \in Traversal
      BY <1>0, <3>1 DEF Traversal
    <3>3. dirtime' \in [Dirs -> Nat \cup {Absent}]
      BY <1>0, <3>1 DEF FilesOK
    <3>4. ASSUME NEW k \in DOMAIN files PROVE dirtime'[Dir(k)] = dirtime[Dir(k)]
      <4>1. Dir(k) \in Dirs
        BY <1>0, NameFacts
      <4>2. In(fts.dir) = {} => Dir(k) # fts.dir
        BY DEF In
      <4> QED
        BY <1>0, <3>1, <4>1, <4>2 DEF FilesOK
    <3> QED
      BY <1>0, <3>1, <3>2, <3>3, <3>4 DEF QueueTypes, FilesOK, DirsInv
  <2>3. CASE FtsSkip
    BY <1>0, <1>4, <1>s, <2>3, Unreadable DEF WalkDirs, FtsSkip, QueueTypes
  <2> QED
    BY <1>4, <2>1, <2>2, <2>3 DEF WalkDirs
<1>5. CASE WalkFile
  BY <1>0, <1>5, <1>s, Taking DEF WalkFile, QueueTypes
<1>6. CASE WalkEnd
  <2>1. fts' \in Traversal /\ retry' \in {"fresh", "retry", "reopened"}
    BY <1>0, <1>6, EndCases, Opening, Unreadable DEF OpenQueue
  <2> QED
    BY <1>0, <1>6, <1>s, <2>1 DEF WalkEnd, QueueTypes
<1>7. CASE ReadFile
  <2>1. CASE links' = [links EXCEPT ![id'] = NoKey] /\ UNCHANGED <<files, dirtime>>
    <3>1. links' \in [Ids -> Names \cup {NoKey}]
      BY <1>0, <2>1
    <3>2. UNCHANGED <<files, dirtime, clock, seq, fts, retry>>
      BY <1>7, <2>1 DEF ReadFile
    <3> QED
      BY <1>0, <3>1, <3>2, QueueSame DEF QueueTypes
  <2>2. CASE Unlink(key) /\ UNCHANGED links
    BY <1>7, <1>u, <2>2 DEF ReadFile
  <2> QED
    BY <1>7, <2>1, <2>2 DEF ReadFile
<1>8. CASE UnlinkFile
  BY <1>8, <1>u DEF UnlinkFile
<1>9. ASSUME NEW i \in Ids, ReqQueuePut(i) PROVE QueueTypes' /\ DirsInv'
  <2>1. CASE CreateFile(key')
    <3>1. UNCHANGED <<clock, links, fts, retry>>
      BY <1>9 DEF ReqQueuePut
    <3>2. /\ FilesOK' /\ key' \in Names /\ seq' = seq + 1
          /\ DOMAIN files' = DOMAIN files \cup {key'}
          /\ \A d \in Dirs : dirtime[d] # Absent => dirtime'[d] # Absent
          /\ key' \notin DOMAIN files => dirtime'[Dir(key')] # Absent
      BY <1>0, <2>1, Creation
    <3>3. DirsInv'
      BY <1>0, <3>2, NameFacts DEF DirsInv
    <3> QED
      BY <1>0, <3>1, <3>2, <3>3, SMTT(30) DEF QueueTypes
  <2>2. CASE UNCHANGED <<files, dirtime, seq>>
    BY <1>0, <1>9, <1>s, <2>2 DEF ReqQueuePut, QueueTypes
  <2>3. CASE UNCHANGED files /\ seq' = seq + 1 /\ MakeDir(<<clock, seq>>)
    <3>1. /\ dirtime' \in [Dirs -> Nat \cup {Absent}]
          /\ \A d \in Dirs : dirtime[d] # Absent => dirtime'[d] # Absent
      BY <1>0, <2>3, NewName DEF MakeDir, FilesOK
    <3>2. seq' \in Nat /\ UNCHANGED <<clock, links, fts, retry>>
      BY <1>0, <1>9, <2>3, SMTT(30) DEF ReqQueuePut, QueueTypes
    <3>3. DirsInv'
      BY <1>0, <2>3, <3>1, NameFacts DEF DirsInv
    <3> QED
      BY <1>0, <2>3, <3>1, <3>2, <3>3 DEF QueueTypes, FilesOK
  <2> QED
    BY <1>9, <2>1, <2>2, <2>3 DEF ReqQueuePut
<1>10. CASE PutWrite
  <2>1. ASSUME NEW i \in Ids \cup {Garbage}, WriteFile(key, i), UNCHANGED dirtime
        PROVE  QueueTypes' /\ DirsInv'
    <3>1. key \in DOMAIN files
      BY <1>0, <1>10 DEF PutWrite, Putting
    <3>2. FilesOK' /\ DOMAIN files' = DOMAIN files
      BY <1>0, <2>1, <3>1, Writing
    <3> QED
      BY <1>0, <1>10, <2>1, <3>2 DEF PutWrite, QueueTypes, DirsInv
  <2>2. CASE Unlink(key)
    BY <1>10, <1>u, <2>2 DEF PutWrite
  <2> QED
    BY <1>0, <1>10, <2>1, <2>2 DEF PutWrite
<1>11. CASE PutLink
  <2>1. CASE LinkId(id, key) /\ UNCHANGED <<files, dirtime>>
    <3>1. key \in Names
      BY <1>0, <1>11 DEF PutLink, Putting
    <3>2. links' \in [Ids -> Names \cup {NoKey}]
      BY <1>0, <2>1, <3>1 DEF LinkId
    <3> QED
      BY <1>0, <1>11, <2>1, <3>2, QueueSame DEF PutLink, QueueTypes
  <2>2. CASE Unlink(key) /\ UNCHANGED links
    BY <1>11, <1>u, <2>2 DEF PutLink
  <2> QED
    BY <1>11, <2>1, <2>2 DEF PutLink
<1>12. CASE clock' = clock + 1 /\ clock < MaxClock /\ UNCHANGED <<diskVars, seq, fts, retry>>
  <2>1. clock' \in 0..MaxClock
    BY <1>0, <1>12, KngQueueAssumption, SMTT(30) DEF QueueTypes
  <2> QED
    BY <1>0, <1>12, <2>1, QueueSame DEF QueueTypes
<1>13. CASE QuietNext
  BY <1>1, <1>12, <1>13, QuietCases
<1> QED
  BY <1>2, <1>3, <1>4, <1>5, <1>6, <1>7, <1>8, <1>9, <1>10, <1>11, <1>13, SMTT(30)
     DEF Next, Dispatch, Requests, QuietNext, Loop, Environment

\* Steps that do not touch the queue do not touch the file in hand, and do not
\* come to a step that would.
LEMMA QuietHand ==
  ASSUME DaemonTypes, QuietNext
  PROVE  /\ UNCHANGED <<files, id, key>>
         /\ pc' = pc \/ pc' \in Pcs \ {"write", "link", "walk", "read", "unlink", "start"}
<1> USE DEF queueVars, diskVars, At, Goto, handVars, Pcs
<1>0. UNCHANGED files
  BY QuietCases
<1>1. CASE DispatchStart \/ Loop \/ OnTick \/ UNCHANGED vars
  BY <1>0, <1>1 DEF DispatchStart, Loop, Top, ReapChild, NoMoreZombies, ClearChld, EnterSelect,
                    OnTick, vars
<1>2. CASE ModFini \/ Environment
  BY <1>0, <1>2 DEF ModFini, Environment, Exit, Expire, Crash, Second, Gone
<1>3. CASE \E i \in Ids : ReqStart(i) \/ ReqQueueStart(i) \/ ReqStop(i)
  BY <1>0, <1>3 DEF ReqStart, ReqQueueStart, ReqStop
<1> QED
  BY <1>1, <1>2, <1>3 DEF QuietNext

\* Steps that do not touch the queue lose nothing, and end no dispatch.
LEMMA QuietLosses ==
  ASSUME QuietNext
  PROVE  /\ UNCHANGED <<unread, overwritten, faults>>
         /\ UNCHANGED cut \/ (cut' = FALSE /\ pc = "reap" /\ pc' = "next")
         /\ cut' => cut
<1> SUFFICES /\ UNCHANGED <<unread, overwritten, faults>>
             /\ UNCHANGED cut \/ (cut' = FALSE /\ pc = "reap" /\ pc' = "next")
  BY SMTT(30)
<1> USE DEF At, Goto, histVars, countVars, lossVars
<1>1. CASE DispatchStart \/ Loop \/ OnTick \/ UNCHANGED vars
  BY <1>1 DEF DispatchStart, Loop, Top, ReapChild, NoMoreZombies, ClearChld, EnterSelect, OnTick, vars
<1>2. CASE ModFini \/ Environment
  BY <1>2 DEF ModFini, Environment, Exit, Expire, Crash, Second
<1>3. CASE \E i \in Ids : ReqStart(i) \/ ReqQueueStart(i) \/ ReqStop(i)
  BY <1>3 DEF ReqStart, ReqQueueStart, ReqStop
<1> QED
  BY <1>1, <1>2, <1>3 DEF QuietNext

\* The file in hand is as the step before left it.
LEMMA HandStep ==
  ASSUME IInv, [Next]_vars
  PROVE  HandInv'
<1> USE DEF At, Goto, Putting, handVars, diskVars
<1>0. HandInv /\ QueueTypes /\ DaemonTypes /\ id \in Ids
  BY DEF IInv, DaemonTypes
<1>1. CASE QuietNext
  BY <1>0, <1>1, QuietHand DEF HandInv, Queued
<1>2. CASE ModInit \/ DispatchNext \/ WalkDirs \/ WalkFile \/ UnlinkFile
  BY <1>0, <1>2 DEF ModInit, DispatchNext, WalkDirs, WalkFile, UnlinkFile, HandInv, DaemonTypes
<1>3. CASE WalkEnd
  BY <1>0, <1>3, EndCases DEF WalkEnd, HandInv, DaemonTypes
<1>4. CASE ReadFile
  BY <1>0, <1>4 DEF ReadFile, Intact, HandInv, DaemonTypes, Queued
<1>5. ASSUME NEW i \in Ids, ReqQueuePut(i) PROVE HandInv'
  <2>1. CASE CreateFile(key') /\ pc' = "write"
    BY <1>0, <2>1, Creation DEF HandInv
  <2> QED
    BY <1>5, <2>1 DEF ReqQueuePut, HandInv
<1>6. CASE PutWrite
  <2>1. CASE WriteFile(key, id) /\ pc' = "link" /\ UNCHANGED dirtime
    <3>1. key \in DOMAIN files /\ UNCHANGED <<key, id>>
      BY <1>0, <1>6 DEF PutWrite, HandInv
    <3> QED
      BY <1>0, <2>1, <3>1, Writing DEF HandInv, Queued
  <2>2. CASE WriteFile(key, Garbage) /\ UNCHANGED <<pc, dirtime>>
    <3>1. key \in DOMAIN files /\ UNCHANGED <<key, id>> /\ pc = "write"
      BY <1>0, <1>6 DEF PutWrite, HandInv
    <3> QED
      BY <1>0, <2>2, <3>1, Writing DEF HandInv
  <2> QED
    BY <1>6, <2>1, <2>2 DEF PutWrite, HandInv
<1>7. CASE PutLink
  BY <1>7 DEF PutLink, HandInv
<1> QED
  BY <1>1, <1>2, <1>3, <1>4, <1>5, <1>6, <1>7, SMTT(30)
     DEF Next, Dispatch, Requests, QuietNext, Loop, Environment

----------------------------------------------------------------------------
(* Requests are counted once.                                              *)

\* A file more or less.
LEMMA Sizes ==
  ASSUME NEW S, IsFiniteSet(S), NEW k
  PROVE  /\ Cardinality(S) \in Nat
         /\ IsFiniteSet(S \ {k}) /\ Cardinality(S \ {k}) \in Nat
         /\ Cardinality(S \ {k}) <= Cardinality(S)
         /\ k \in S => Cardinality(S \ {k}) = Cardinality(S) - 1
         /\ k \notin S => S \ {k} = S
         /\ Cardinality(S \cup {k}) \in Nat /\ Cardinality(S \cup {k}) <= Cardinality(S) + 1
         /\ k \notin S => Cardinality(S \cup {k}) = Cardinality(S) + 1
BY FS_CardinalityType, FS_AddElement, FS_RemoveElement, FS_Subset, SMTT(30)

\* What the operations on files do to the files of an id.
LEMMA QueuedFiles ==
  ASSUME QueueTypes, NEW k
  PROVE  /\ \A i : IsFiniteSet(Queued(i)) /\ Cardinality(Queued(i)) \in Nat
         /\ Unlink(k) => \A i : Queued(i)' = Queued(i) \ {k}
         /\ CreateFile(k) => \A i \in Ids : Queued(i)' = Queued(i)
         /\ \A j \in Ids \cup {Garbage} : WriteFile(k, j) /\ k \in DOMAIN files /\ UNCHANGED dirtime =>
              \A i \in Ids : Queued(i)' = IF i = j THEN Queued(i) \cup {k} ELSE Queued(i) \ {k}
<1>1. ASSUME NEW i PROVE IsFiniteSet(Queued(i)) /\ Cardinality(Queued(i)) \in Nat
  <2>1. IsFiniteSet(Queued(i))
    BY FS_Subset DEF Queued, QueueTypes, FilesOK
  <2> QED
    BY <2>1, FS_CardinalityType
<1>2. ASSUME Unlink(k), NEW i PROVE Queued(i)' = Queued(i) \ {k}
  BY <1>2, Removal DEF Queued
<1>3. ASSUME CreateFile(k), NEW i \in Ids PROVE Queued(i)' = Queued(i)
  <2>1. /\ DOMAIN files' = DOMAIN files \cup {k}
        /\ k \notin DOMAIN files => files'[k].content = Garbage
        /\ \A f \in DOMAIN files : files'[f] = files[f]
    BY <1>3, Creation
  <2>2. Garbage # i
    BY <1>3, KngQueueAssumption
  <2> QED
    BY <2>1, <2>2 DEF Queued
<1>4. ASSUME NEW j \in Ids \cup {Garbage}, WriteFile(k, j), k \in DOMAIN files, UNCHANGED dirtime,
             NEW i \in Ids
      PROVE  Queued(i)' = IF i = j THEN Queued(i) \cup {k} ELSE Queued(i) \ {k}
  BY <1>4, Writing DEF Queued
<1> QED
  BY <1>1, <1>2, <1>3, <1>4

\* No step makes a request count twice: the file goes away before the job is
\* started, also when the process dies in between.
LEMMA CountStep ==
  ASSUME IInv, [Next]_vars
  PROVE  CountInv'
<1> USE DEF At, Goto
<1>0. /\ QueueTypes /\ DaemonTypes /\ HandInv /\ id \in Ids
      /\ tried \in [Ids -> Nat] /\ reqs \in [Ids -> Nat]
  BY DEF IInv, DaemonTypes
<1> SUFFICES ASSUME NEW i \in Ids
             PROVE  (Handled(i) + ToWrite(i))' <= reqs'[i]
  BY DEF CountInv
<1> DEFINE c == Cardinality(Queued(i))
           m == IF id = i THEN 1 ELSE 0
<1>1. /\ IsFiniteSet(Queued(i)) /\ c \in Nat /\ tried[i] \in Nat /\ reqs[i] \in Nat
      /\ tried[i] + InHand(i) + c + ToWrite(i) <= reqs[i]
  BY <1>0, QueuedFiles DEF IInv, CountInv, Handled
<1>2. ASSUME Cardinality(Queued(i)') <= c, Cardinality(Queued(i)') \in Nat,
             pc' \notin {"start", "write"} \/ (pc' = pc /\ id' = id),
             UNCHANGED tried, UNCHANGED reqs
      PROVE  (Handled(i) + ToWrite(i))' <= reqs'[i]
  BY <1>1, <1>2, SMTT(30) DEF Handled, InHand, ToWrite
<1>3. ASSUME UNCHANGED files
      PROVE  Cardinality(Queued(i)') = c
  BY <1>3 DEF Queued
<1>4. ASSUME NEW k, Unlink(k)
      PROVE  Cardinality(Queued(i)') <= c /\ Cardinality(Queued(i)') \in Nat
  BY <1>0, <1>1, <1>4, QueuedFiles, Sizes, SMTT(30)
<1>5. CASE QuietNext /\ UNCHANGED tried /\ UNCHANGED reqs
  BY <1>0, <1>1, <1>2, <1>3, <1>5, QuietHand, SMTT(30)
<1>6. CASE DispatchStart
  <2>1. UNCHANGED <<files, reqs, id>> /\ pc = "start" /\ pc' = "next"
        /\ tried'[i] = tried[i] + m
    BY <1>0, <1>6, Counted, SMTT(30) DEF DispatchStart, queueVars
  <2> QED
    BY <1>1, <1>3, <2>1, SMTT(30) DEF Handled, InHand, ToWrite
<1>7. ASSUME NEW j \in Ids, ReqQueueStart(j) PROVE (Handled(i) + ToWrite(i))' <= reqs'[i]
  <2>1. /\ UNCHANGED files /\ pc' = "top"
        /\ \A x \in Ids : reqs'[x] = IF x = j THEN reqs[x] + 1 ELSE reqs[x]
        /\ UNCHANGED tried \/ \A x \in Ids : tried'[x] = IF x = j THEN tried[x] + 1 ELSE tried[x]
    BY <1>0, <1>7, Counted, SMTT(30) DEF ReqQueueStart, ReqQueue, queueVars
  <2> QED
    BY <1>1, <1>3, <2>1, SMTT(30) DEF Handled, InHand, ToWrite
<1>8. ASSUME NEW j \in Ids, ReqQueuePut(j) PROVE (Handled(i) + ToWrite(i))' <= reqs'[i]
  <2>1. /\ pc = "select" /\ pc' \in {"write", "top"} /\ id' = j /\ UNCHANGED tried
        /\ \A x \in Ids : reqs'[x] = IF x = j THEN reqs[x] + 1 ELSE reqs[x]
    BY <1>0, <1>8, Counted, SMTT(30) DEF ReqQueuePut, ReqQueue
  <2>2. Cardinality(Queued(i)') <= c /\ Cardinality(Queued(i)') \in Nat
    <3>1. CASE CreateFile(key')
      <4>1. Queued(i)' = Queued(i)
        BY <1>0, <3>1, QueuedFiles
      <4> QED
        BY <1>1, <4>1, SMTT(30)
    <3>2. CASE UNCHANGED files
      BY <1>1, <1>3, <3>2, SMTT(30)
    <3> QED
      BY <1>8, <3>1, <3>2 DEF ReqQueuePut
  <2> QED
    BY <1>1, <2>1, <2>2, SMTT(30) DEF Handled, InHand, ToWrite
<1>9. CASE PutWrite
  <2>1. UNCHANGED <<tried, reqs, id>> /\ pc = "write" /\ pc' \in {"link", "top", "write"}
    BY <1>9 DEF PutWrite, handVars, countVars
  <2>2. CASE Unlink(key) /\ pc' = "top"
    BY <1>2, <1>4, <2>1, <2>2
  <2>3. CASE WriteFile(key, id) /\ UNCHANGED dirtime /\ pc' = "link"
    <3>1. key \in DOMAIN files
      BY <1>0, <2>1 DEF HandInv, Putting
    <3>2. Cardinality(Queued(i)') <= c + m /\ Cardinality(Queued(i)') \in Nat
      BY <1>0, <1>1, <2>3, <3>1, QueuedFiles, Sizes, SMTT(30)
    <3> QED
      BY <1>1, <2>1, <2>3, <3>2, SMTT(30) DEF Handled, InHand, ToWrite
  <2>4. CASE WriteFile(key, Garbage) /\ UNCHANGED <<pc, dirtime>>
    <3>1. key \in DOMAIN files /\ i # Garbage
      BY <1>0, <2>1, KngQueueAssumption DEF HandInv, Putting
    <3>2. Queued(i)' = Queued(i) \ {key}
      BY <1>0, <2>4, <3>1, QueuedFiles
    <3>3. Cardinality(Queued(i)') <= c /\ Cardinality(Queued(i)') \in Nat
      BY <1>1, <3>2, Sizes
    <3> QED
      BY <1>2, <2>1, <2>4, <3>3
  <2> QED
    BY <1>9, <2>2, <2>3, <2>4 DEF PutWrite
<1>10. CASE PutLink
  BY <1>1, <1>2, <1>3, <1>4, <1>10, SMTT(30) DEF PutLink
<1>11. CASE ReadFile
  <2>1. UNCHANGED <<tried, reqs>> /\ pc' \in {"unlink", back} /\ back \in {"top", "reap"}
    BY <1>0, <1>11 DEF ReadFile, countVars, DaemonTypes
  <2> QED
    BY <1>1, <1>2, <1>3, <1>4, <1>11, <2>1, SMTT(30) DEF ReadFile
<1>12. CASE UnlinkFile
  <2>1. UNCHANGED <<tried, reqs, id>> /\ pc = "unlink" /\ pc' = "start" /\ key \in Queued(id)
    BY <1>0, <1>12 DEF UnlinkFile, handVars, histVars, countVars, HandInv
  <2>2. Queued(i)' = Queued(i) \ {key}
    BY <1>0, <1>12, QueuedFiles DEF UnlinkFile
  <2>3. Cardinality(Queued(i)') + m <= c /\ Cardinality(Queued(i)') \in Nat
    <3>1. id = i => key \in Queued(i)
      BY <2>1
    <3>2. /\ Cardinality(Queued(i) \ {key}) \in Nat /\ Cardinality(Queued(i) \ {key}) <= c
          /\ key \in Queued(i) => Cardinality(Queued(i) \ {key}) = c - 1
      BY <1>1, Sizes
    <3> QED
      BY <1>1, <2>2, <3>1, <3>2, SMTT(30)
  <2> QED
    BY <1>1, <2>1, <2>3, SMTT(30) DEF Handled, InHand, ToWrite
<1>13. CASE ModInit \/ DispatchNext \/ WalkDirs \/ WalkFile \/ WalkEnd
  <2>1. UNCHANGED <<files, tried, reqs>>
    BY <1>13 DEF ModInit, DispatchNext, WalkDirs, WalkFile, WalkEnd, diskVars, histVars, countVars
  <2>2. pc' \notin {"start", "write"}
    <3>1. CASE WalkEnd
      BY <1>0, <3>1, EndCases DEF WalkEnd, DaemonTypes
    <3> QED
      BY <1>0, <1>13, <3>1 DEF ModInit, DispatchNext, WalkDirs, WalkFile, DaemonTypes
  <2> QED
    BY <1>1, <1>2, <1>3, <2>1, <2>2, SMTT(30)
<1>14. CASE QuietNext
  <2>1. CASE Loop \/ OnTick \/ ModFini \/ Environment \/ UNCHANGED vars
             \/ \E j \in Ids : ReqStart(j) \/ ReqStop(j)
    <3>1. UNCHANGED <<tried, reqs>>
      BY <2>1 DEF Loop, Top, ReapChild, NoMoreZombies, ClearChld, EnterSelect, OnTick, ModFini,
                  Environment, Exit, Expire, Crash, Second, ReqStart, ReqStop, vars, histVars,
                  countVars
    <3> QED
      BY <1>5, <1>14, <3>1
  <2> QED
    BY <1>6, <1>7, <1>14, <2>1 DEF QuietNext
<1> QED
  BY <1>8, <1>9, <1>10, <1>11, <1>12, <1>13, <1>14
     DEF Next, Dispatch, Requests, QuietNext, Loop, Environment
=============================================================================
