----------------------------- MODULE KngProofs -----------------------------
(***************************************************************************)
(* Proofs about knegd, for any number of slots, ids, processes, requests,  *)
(* crashes, shutdowns and failures to read: the list of jobs is the        *)
(* children and respects the slots, a request is started at most once, no  *)
(* slot idles unless a failure cut the dispatch short, an accepted request *)
(* is lost only to such a failure, to a death or to a name that comes up   *)
(* twice, and, as long as none does, links match files and files are taken *)
(* oldest first.                                                           *)
(***************************************************************************)
EXTENDS KngJobProofs

\* A leaf that names no prover is for Zenon.
USE ZenonT(40)

(* The steps of a daemon whose names do not recur, by what they do to the  *)
(* files.                                                                  *)

Fragile == {"write", "link", "walk", "read", "unlink"}
StepIdle ==
  /\ UNCHANGED <<files, links, seq, fts, retry, key, id, unread, overwritten, faults>>
  /\ clock' = clock \/ clock' = clock + 1
  /\ cut' => cut
  /\ pc' = pc \/ (pc \notin Fragile /\ pc' \notin Fragile)
  /\ pc' = pc \/ (pc # "down" /\ pc' # "down") \/ ModFini
StepWalk == ModInit \/ DispatchNext \/ WalkDirs \/ WalkFile \/ WalkEnd
StepCreate ==
  /\ pc = "select" /\ pc' = "write" /\ UNCHANGED <<links, clock, fts, retry, lossVars>>
  /\ key' = <<clock, seq>> /\ key' \in Names /\ key' \notin DOMAIN files \cup Linked
  /\ seq' = seq + 1
  /\ DOMAIN files' = DOMAIN files \cup {key'}
  /\ \A k \in DOMAIN files : files'[k] = files[k]
  /\ files'[key'].content = Garbage /\ files'[key'].mtime = clock
StepRefuse ==
  /\ pc = "select" /\ pc' = "top" /\ UNCHANGED <<files, links, clock, fts, retry, lossVars>>
  /\ seq' = seq \/ seq' = seq + 1
StepWrite ==
  /\ pc = "write" /\ pc' = "link"
  /\ UNCHANGED <<links, clock, seq, fts, retry, key, id, lossVars>>
  /\ key \in DOMAIN files /\ DOMAIN files' = DOMAIN files
  /\ \A k \in DOMAIN files \ {key} : files'[k] = files[k]
  /\ files'[key].content = id /\ files'[key].mtime = clock
StepRemove ==
  /\ pc \in {"write", "link", "unlink"} /\ pc' = IF pc = "unlink" THEN "start" ELSE "top"
  /\ UNCHANGED <<links, clock, seq, fts, retry, key, id, lossVars>>
  /\ key \in DOMAIN files /\ DOMAIN files' = DOMAIN files \ {key}
  /\ \A k \in DOMAIN files' : files'[k] = files[k]
StepLink ==
  /\ pc = "link" /\ pc' = "top"
  /\ UNCHANGED <<files, clock, seq, fts, retry, key, id, lossVars>>
  /\ links[id] = NoKey /\ links' = [links EXCEPT ![id] = key]
StepRead ==
  /\ pc = "read" /\ pc' = "unlink" /\ UNCHANGED <<files, clock, seq, fts, retry, key, lossVars>>
  /\ key \in DOMAIN files /\ id' = files[key].content /\ id' \in Ids
  /\ links' = [links EXCEPT ![id'] = NoKey]
StepLose ==
  /\ pc = "read" /\ pc' \in {"top", "reap"}
  /\ UNCHANGED <<links, clock, seq, fts, retry, key, id, overwritten>>
  /\ key \in DOMAIN files /\ DOMAIN files' = DOMAIN files \ {key}
  /\ \A k \in DOMAIN files' : files'[k] = files[k]
  /\ files[key].content \in Ids /\ unread' = Count(unread, files[key].content)
  /\ faults' = faults + 1

\* A name that has not recurred had not before.
LEMMA Unrecurred ==
  ASSUME IInv, [Next]_vars, ~NamesRecur'
  PROVE  /\ ~NamesRecur /\ SafeInv /\ crashes' = 0 /\ crashes = 0
         /\ stops' = 0 \/ faults' = 0
<1>1. ~NamesRecur /\ LossTypes' /\ crashes \in Nat /\ crashes' \in Nat
  BY LossStep, DaemonStep DEF IInv, DaemonTypes
<1>2. SafeInv
  BY <1>1 DEF IInv
<1>3. crashes' = 0 /\ crashes = 0 /\ (stops' = 0 \/ faults' = 0)
  BY <1>1, SMTT(30) DEF LossTypes, NamesRecur
<1> QED
  BY <1>1, <1>2, <1>3

\* A step that does not touch the queue leaves a fragile state alone, unless
\* the process dies.
LEMMA QuietIdle ==
  ASSUME IInv, [Next]_vars, QuietNext, ~NamesRecur'
  PROVE  /\ StepIdle
         /\ pc = "start" => pc' = pc \/ DispatchStart
<1> USE DEF At, Goto
<1>0. DaemonTypes /\ crashes \in Nat /\ pc \in Pcs
  BY DEF IInv, DaemonTypes
<1>1. ~Crash
  <2>1. crashes' = 0 /\ crashes = 0
    BY Unrecurred
  <2> QED
    BY <2>1, SMTT(30) DEF Crash
<1>2. UNCHANGED <<files, links, seq, fts, retry, key, id>> /\ (clock' = clock \/ clock' = clock + 1)
  BY <1>0, QuietCases, QuietHand DEF queueVars, diskVars
<1>3. \/ pc' = pc
      \/ DispatchStart /\ pc = "start" /\ pc' = "next"
      \/ /\ pc \in {"top", "reap", "reaped", "enter", "select"}
         /\ pc' # "down" \/ ModFini
  <2>1. CASE DispatchStart \/ Loop \/ OnTick \/ ModFini
    BY <2>1 DEF DispatchStart, Loop, Top, ReapChild, NoMoreZombies, ClearChld, EnterSelect, OnTick,
                ModFini
  <2>2. CASE Environment \/ UNCHANGED vars
    BY <1>1, <2>2 DEF Environment, Exit, Expire, Second, vars
  <2>3. CASE \E i \in Ids : ReqStart(i) \/ ReqQueueStart(i) \/ ReqStop(i)
    BY <2>3 DEF ReqStart, ReqQueueStart, ReqQueue, ReqStop
  <2> QED
    BY <2>1, <2>2, <2>3 DEF QuietNext
<1>4. pc' = pc \/ pc' \notin Fragile
  BY <1>0, QuietHand DEF Fragile
<1>5. UNCHANGED <<unread, overwritten, faults>> /\ (cut' => cut)
  BY QuietLosses
<1> QED
  BY <1>2, <1>3, <1>4, <1>5 DEF StepIdle, Fragile

\* What the steps do as long as no name recurs: a new file has a new name, and
\* a file that was listed is there and complete.
LEMMA SafeActions ==
  ASSUME IInv, [Next]_vars, ~NamesRecur'
  PROVE  /\ \A i \in Ids : ReqQueuePut(i) => StepCreate \/ StepRefuse
         /\ PutWrite => StepWrite \/ StepRemove
         /\ PutLink => StepLink \/ StepRemove
         /\ UnlinkFile => StepRemove
         /\ ReadFile => StepRead \/ StepLose
<1> USE DEF At, Goto, histVars
<1>0. QueueTypes /\ DaemonTypes /\ HandInv /\ id \in Ids /\ seq \in Nat /\ clock \in Nat
  BY KngQueueAssumption, SMTT(30) DEF IInv, DaemonTypes, QueueTypes
<1>2. SafeInv
  BY Unrecurred
<1>3. ASSUME NEW i \in Ids, ReqQueuePut(i) PROVE StepCreate \/ StepRefuse
  <2>1. CASE CreateFile(key') /\ key' = <<clock, seq>> /\ pc' = "write"
    <3>1. key' \notin DOMAIN files \cup Linked
      <4>1. pc # "down"
        BY <1>3 DEF ReqQueuePut, ReqQueue
      <4>2. ASSUME key' \in DOMAIN files \cup Linked PROVE FALSE
        <5>1. Before(key')
          BY <1>2, <4>1, <4>2 DEF SafeInv, NamesInv
        <5> QED
          BY <1>0, <2>1, <5>1, SMTT(30) DEF Before
      <4> QED
        BY <4>2
    <3>2. /\ key' \in Names /\ seq' = seq + 1
          /\ DOMAIN files' = DOMAIN files \cup {key'}
          /\ files'[key'].content = Garbage /\ files'[key'].mtime = clock
          /\ \A f \in DOMAIN files : files'[f] = files[f]
      BY <1>0, <2>1, <3>1, Creation
    <3>3. pc = "select" /\ UNCHANGED <<links, clock, fts, retry, lossVars>>
      BY <1>3 DEF ReqQueuePut, ReqQueue
    <3> QED
      BY <2>1, <3>1, <3>2, <3>3 DEF StepCreate
  <2> QED
    BY <1>3, <2>1 DEF ReqQueuePut, ReqQueue, StepRefuse
<1>4. ASSUME Unlink(key), pc \in {"write", "link", "unlink"},
             pc' = IF pc = "unlink" THEN "start" ELSE "top",
             UNCHANGED <<links, clock, seq, fts, retry, key, id, lossVars>>
      PROVE  StepRemove
  <2>1. key \in DOMAIN files
    BY <1>0, <1>4 DEF HandInv, Putting, Queued
  <2>2. /\ DOMAIN files' = DOMAIN files \ {key}
        /\ \A f \in DOMAIN files' : files'[f] = files[f]
    BY <1>0, <1>4, Removal
  <2> QED
    BY <1>4, <2>1, <2>2 DEF StepRemove
<1>5. ASSUME PutWrite PROVE StepWrite \/ StepRemove
  <2>1. pc = "write" /\ UNCHANGED <<links, clock, seq, fts, retry, key, id>> /\ key \in DOMAIN files
    BY <1>0, <1>5 DEF PutWrite, handVars, HandInv, Putting
  <2>2. files[key].content = Garbage
    BY <1>2, <2>1 DEF SafeInv, ContentInv
  <2>3. UNCHANGED lossVars
    BY <1>5, <2>2 DEF PutWrite, lossVars
  <2>4. CASE WriteFile(key, id) /\ UNCHANGED dirtime /\ pc' = "link"
    <3>1. /\ DOMAIN files' = DOMAIN files
          /\ files'[key].content = id /\ files'[key].mtime = clock
          /\ \A f \in DOMAIN files \ {key} : files'[f] = files[f]
      BY <1>0, <2>1, <2>4, Writing
    <3> QED
      BY <2>1, <2>3, <2>4, <3>1 DEF StepWrite
  <2> QED
    BY <1>4, <1>5, <2>1, <2>2, <2>3, <2>4 DEF PutWrite
<1>6. ASSUME PutLink PROVE StepLink \/ StepRemove
  BY <1>4, <1>6 DEF PutLink, handVars, LinkId, StepLink
<1>7. ASSUME UnlinkFile PROVE StepRemove
  BY <1>4, <1>7 DEF UnlinkFile, handVars
<1>8. ASSUME ReadFile PROVE StepRead \/ StepLose
  <2>1. key \in DOMAIN files /\ files[key].content # Garbage /\ pc = "read"
    BY <1>2, <1>8 DEF ReadFile, SafeInv, FtsInv, ContentInv
  <2>2. files[key].content \in Ids /\ Intact
    BY <1>0, <2>1 DEF QueueTypes, FilesOK, FileData, Intact
  <2>3. CASE pc' = "unlink"
    <3>1. UNCHANGED lossVars
      BY <1>0, <1>8, <2>3 DEF ReadFile, lossVars, DaemonTypes
    <3> QED
      BY <1>0, <1>8, <2>1, <2>2, <2>3, <3>1 DEF ReadFile, StepRead, DaemonTypes
  <2>4. CASE pc' # "unlink"
    <3>1. /\ Fault /\ unread' = Count(unread, files[key].content) /\ Unlink(key) /\ pc' = back
          /\ UNCHANGED <<links, clock, seq, fts, retry, key, id, overwritten>>
      BY <1>8, <2>2, <2>4 DEF ReadFile
    <3>2. /\ DOMAIN files' = DOMAIN files \ {key}
          /\ \A f \in DOMAIN files' : files'[f] = files[f]
      BY <1>0, <3>1, Removal
    <3>3. pc' \in {"top", "reap"} /\ faults' = faults + 1
      BY <1>0, <3>1 DEF DaemonTypes, Fault
    <3> QED
      BY <2>1, <2>2, <3>1, <3>2, <3>3 DEF StepLose
  <2> QED
    BY <2>3, <2>4
<1> QED
  BY <1>3, <1>5, <1>6, <1>7, <1>8, SMTT(30)

\* These are all the steps of a daemon whose names do not recur.
LEMMA SafeCases ==
  ASSUME IInv, [Next]_vars, ~NamesRecur'
  PROVE  /\ SafeInv
         /\ \/ StepIdle \/ StepWalk \/ StepCreate \/ StepRefuse \/ StepWrite
            \/ StepRemove \/ StepLink \/ StepRead \/ StepLose
<1>1. CASE QuietNext
  BY <1>1, QuietIdle, Unrecurred
<1> QED
  BY <1>1, SafeActions, Unrecurred
     DEF Next, Dispatch, Requests, QuietNext, Loop, Environment, StepWalk

\* As long as no name recurs, every name in the queue is older than the one to
\* come: a daemon shuts down with an empty queue, or takes a second over it.
LEMMA NamesStep ==
  ASSUME IInv, [Next]_vars, ~NamesRecur'
  PROVE  NamesInv'
<1> DEFINE N == DOMAIN files \cup Linked
<1>0. /\ clock \in Nat /\ clock' \in Nat /\ seq \in Nat /\ N \subseteq Names
      /\ NamesInv /\ IdleInv /\ LinkInv /\ LossInv
      /\ \A k \in DOMAIN files : files[k].mtime \in Nat
  <2>1. NamesInv /\ IdleInv /\ LinkInv /\ LossInv
    BY SafeCases DEF SafeInv, IInv
  <2>2. clock \in Nat /\ seq \in Nat /\ DOMAIN files \subseteq Names
        /\ \A k \in DOMAIN files : files[k] \in FileData
    BY KngQueueAssumption, SMTT(30) DEF IInv, QueueTypes, FilesOK
  <2>3. clock' \in Nat
    BY QueueStep, KngQueueAssumption, SMTT(30) DEF QueueTypes
  <2>4. Linked \subseteq Names
    BY DEF IInv, QueueTypes, Linked
  <2> QED
    BY <2>1, <2>2, <2>3, <2>4 DEF FileData
<1>1. \A k \in N : k[1] \in Nat /\ k[2] \in Nat
  <2>1. \A k \in N : k[1] \in 0..MaxClock /\ k[2] \in Nat
    BY <1>0, NameFacts
  <2> QED
    BY <2>1, KngQueueAssumption, SMTT(30)
<1>2. ASSUME UNCHANGED files, N' \subseteq N, seq' = seq \/ seq' = seq + 1,
             clock' = clock \/ clock' = clock + 1,
             pc' = pc \/ (pc # "down" /\ pc' # "down")
      PROVE  NamesInv'
  <2>1. ASSUME NEW k \in N, Before(k) PROVE Before(k)'
    BY <1>0, <1>1, <1>2, <2>1, SMTT(30) DEF Before
  <2>2. ASSUME NEW k \in N, k[1] < clock PROVE k[1] < clock'
    BY <1>0, <1>1, <1>2, <2>2, SMTT(30)
  <2>3. \A k \in DOMAIN files : files[k].mtime <= clock'
    BY <1>0, <1>2, SMTT(30) DEF NamesInv
  <2> QED
    BY <1>0, <1>2, <2>1, <2>2, <2>3 DEF NamesInv
<1>3. CASE StepIdle /\ ModFini
  <2>1. pc = "top" /\ pc' = "down" /\ UNCHANGED <<files, links, faults>> /\ stops' = stops + 1
    BY <1>3 DEF ModFini, Gone, At, Goto, StepIdle
  <2>2. faults = 0 /\ ~cut
    <3>1. stops' # 0
      BY <2>1, SMTT(30) DEF IInv, LossTypes
    <3>2. faults = 0
      BY <2>1, <3>1, Unrecurred
    <3> QED
      BY <1>0, <3>2, SMTT(30) DEF LossInv
  <2>3. N' = DOMAIN files
    <3>1. \A i \in Ids : links[i] # NoKey => links[i] \in DOMAIN files
      <4>1. \A i \in Ids : ~(unread[i] > 0)
        BY <2>2, SMTT(30) DEF IInv, FaultInv
      <4> QED
        BY <1>0, <4>1 DEF LinkInv, Queued
    <3> QED
      BY <2>1, <3>1 DEF Linked
  <2>4. CASE jobs = <<>>
    <3>1. nrunning = 0 /\ NSlots > 0 /\ NSlots \in Nat
      BY <2>4, KngAssumption, SMTT(30) DEF IInv, ListInv, JobInv
    <3>2. DOMAIN files = {}
      BY <1>0, <2>1, <2>2, <3>1, SMTT(30) DEF IdleInv, Dispatching
    <3> QED
      BY <2>1, <2>3, <3>2 DEF NamesInv
  <2>5. CASE jobs # <<>>
    <3>1. clock' = clock + 1
      BY <1>3, <2>5 DEF ModFini
    <3>2. ASSUME NEW k \in DOMAIN files PROVE k[1] < clock' /\ files[k].mtime <= clock'
      BY <1>0, <1>1, <2>1, <3>1, SMTT(30) DEF NamesInv, Before
    <3> QED
      BY <2>1, <2>3, <3>2 DEF NamesInv
  <2> QED
    BY <2>4, <2>5
<1>4. CASE StepIdle /\ ~ModFini
  BY <1>2, <1>4 DEF StepIdle, Linked
<1>5. CASE StepWalk
  <2> USE DEF At, Goto
  <2>1. UNCHANGED <<files, clock, links>> /\ N' = N
    BY <1>5 DEF StepWalk, ModInit, DispatchNext, WalkDirs, WalkFile, WalkEnd, diskVars, Linked
  <2>2. CASE ModInit
    BY <1>0, <1>1, <2>1, <2>2 DEF ModInit, NamesInv, Before
  <2>3. CASE WalkEnd
    <3>1. pc = "walk" /\ pc' # "down" /\ UNCHANGED seq
      BY <2>3, EndCases DEF WalkEnd, IInv, DaemonTypes
    <3> QED
      BY <1>2, <2>1, <3>1
  <2>4. CASE DispatchNext \/ WalkDirs \/ WalkFile
    BY <1>2, <2>1, <2>4 DEF DispatchNext, WalkDirs, WalkFile, IInv, DaemonTypes
  <2> QED
    BY <1>5, <2>2, <2>3, <2>4 DEF StepWalk
<1>6. CASE StepCreate
  <2>1. \A k \in N : Before(k)'
    BY <1>0, <1>1, <1>6, SMTT(30) DEF StepCreate, NamesInv, Before
  <2>2. Before(key)' /\ files'[key'].mtime = clock'
    BY <1>0, <1>6, SMTT(30) DEF StepCreate, Before
  <2>3. \A k \in DOMAIN files : files'[k].mtime <= clock'
    BY <1>0, <1>6 DEF StepCreate, NamesInv
  <2>4. DOMAIN files' = DOMAIN files \cup {key'} /\ N' = N \cup {key'} /\ pc' # "down"
    BY <1>6 DEF StepCreate, Linked
  <2>5. files'[key'].mtime <= clock'
    BY <1>0, <2>2, SMTT(30)
  <2>6. \A k \in N' : Before(k)'
    BY <2>1, <2>2, <2>4
  <2> QED
    BY <2>3, <2>4, <2>5, <2>6 DEF NamesInv
<1>7. CASE StepRefuse \/ StepLink \/ StepRead
  <2>1. N' \subseteq N
    BY <1>7 DEF StepRefuse, StepLink, StepRead, Linked, IInv, HandInv, Putting, QueueTypes
  <2> QED
    BY <1>2, <1>7, <2>1 DEF StepRefuse, StepLink, StepRead
<1>8. CASE StepWrite
  <2>1. N' = N
    BY <1>8 DEF StepWrite, Linked
  <2>2. \A k \in DOMAIN files : files'[k].mtime <= clock
    BY <1>0, <1>8, SMTT(30) DEF StepWrite, NamesInv
  <2> QED
    BY <1>0, <1>8, <2>1, <2>2 DEF StepWrite, NamesInv, Before
<1>9. CASE StepRemove \/ StepLose
  <2>1. /\ N' \subseteq N /\ UNCHANGED <<clock, seq>> /\ pc # "down" /\ pc' # "down"
        /\ DOMAIN files' \subseteq DOMAIN files /\ \A k \in DOMAIN files' : files'[k] = files[k]
    BY <1>9 DEF StepRemove, StepLose, Linked
  <2> QED
    BY <1>0, <2>1 DEF NamesInv, Before
<1> QED
  BY <1>3, <1>4, <1>5, <1>6, <1>7, <1>8, <1>9, SafeCases, SMTT(30)

\* What the traversal does between two files.
Relisted == Ents' = {} /\ fts'.ents = <<>>
LEMMA WalkCases ==
  ASSUME IInv, StepWalk
  PROVE  /\ UNCHANGED <<files, links, clock, unread, overwritten>>
         /\ UNCHANGED <<faults, cut>> \/ Fault \/ (UNCHANGED faults /\ cut' = FALSE /\ pc' = "next")
         /\ pc \notin {"write", "link", "read", "unlink", "start"}
         /\ pc' \notin {"write", "link", "unlink", "start"}
         /\ \/ Relisted /\ pc' \notin {"walk", "read"}
            \/ Relisted /\ (cut' \/ ToVisit' = Existing) /\ pc' = "walk"
            \/ UNCHANGED fts /\ pc' \notin {"walk", "read"}
            \/ UNCHANGED fts /\ pc' = "walk" /\ retry' = "retry"
            \/ FtsDescend /\ pc = "walk" /\ pc' = "walk" /\ UNCHANGED <<retry, cut>>
            \/ FtsLeave /\ pc = "walk" /\ pc' = "walk" /\ UNCHANGED <<retry, cut>>
            \/ WalkFile
<1> USE DEF At, Goto
<1>0. QueueTypes /\ back \in {"top", "reap"}
  BY DEF IInv, DaemonTypes
<1>a. UNCHANGED <<files, links, clock, unread, overwritten>>
  BY DEF StepWalk, ModInit, DispatchNext, WalkDirs, WalkFile, WalkEnd, diskVars, histVars, lossVars
<1>b. UNCHANGED <<faults, cut>> \/ Fault \/ (UNCHANGED faults /\ cut' = FALSE /\ pc' = "next")
  <2>1. CASE WalkEnd
    BY <2>1, EndCases DEF OpenQueue
  <2> QED
    BY <2>1 DEF StepWalk, ModInit, DispatchNext, WalkDirs, WalkFile, OpenQueue, histVars, lossVars
<1>1. /\ UNCHANGED <<files, links, clock, unread, overwritten>>
      /\ UNCHANGED <<faults, cut>> \/ Fault \/ (UNCHANGED faults /\ cut' = FALSE /\ pc' = "next")
  BY <1>a, <1>b
<1>2. fts' = NoFts => Relisted
  BY SMTT(30) DEF Relisted, Ents, NoFts
<1>3. /\ OpenQueue => Relisted /\ (cut' \/ ToVisit' = Existing)
      /\ FtsSkip /\ Fault => Relisted /\ cut'
  BY <1>0, Opening, Unreadable DEF Relisted, OpenQueue, Fault
<1>4. CASE ModInit
  BY <1>1, <1>2, <1>4 DEF ModInit, QueueReset
<1>5. CASE DispatchNext
  BY <1>0, <1>1, <1>3, <1>5 DEF DispatchNext
<1>6. CASE WalkDirs
  BY <1>1, <1>3, <1>6 DEF WalkDirs
<1>7. CASE WalkFile
  BY <1>1, <1>7 DEF WalkFile
<1>8. CASE WalkEnd
  <2>1. pc = "walk" /\ (pc' = back => pc' \in {"top", "reap"})
    BY <1>0, <1>8 DEF WalkEnd
  <2>2. \/ OpenQueue /\ UNCHANGED pc
        \/ pc' = back /\ UNCHANGED fts
        \/ pc' = back /\ fts' = NoFts
    BY <1>8, EndCases
  <2> QED
    BY <1>1, <1>2, <1>3, <2>1, <2>2
<1> QED
  BY <1>4, <1>5, <1>6, <1>7, <1>8 DEF StepWalk

\* As long as no name recurs, a file that is being written is the only
\* incomplete one.
LEMMA ContentStep ==
  ASSUME IInv, [Next]_vars, ~NamesRecur'
  PROVE  ContentInv'
<1>0. ContentInv /\ DaemonTypes /\ id \in Ids
  BY SafeCases DEF SafeInv, IInv, DaemonTypes
<1>1. CASE StepIdle
  BY <1>0, <1>1 DEF StepIdle, Fragile, ContentInv
<1>2. CASE StepWalk
  <2>1. UNCHANGED files /\ pc # "write" /\ pc' # "write"
    BY <1>2, WalkCases
  <2> QED
    BY <1>0, <2>1 DEF ContentInv
<1>3. CASE StepCreate \/ StepRefuse \/ StepLink \/ StepRead
  BY <1>0, <1>3 DEF StepCreate, StepRefuse, StepLink, StepRead, ContentInv
<1>4. CASE StepWrite
  BY <1>0, <1>4, KngQueueAssumption DEF StepWrite, ContentInv
<1>5. CASE StepRemove \/ StepLose
  BY <1>0, <1>5 DEF StepRemove, StepLose, ContentInv
<1> QED
  BY <1>1, <1>2, <1>3, <1>4, <1>5, SafeCases

\* The traversal returns all files if it was opened by the call that uses it
\* and could read every directory.
LEMMA WalkStep ==
  ASSUME IInv, [Next]_vars
  PROVE  WalkInv'
<1> USE DEF At, Goto
<1>0. WalkInv /\ QueueTypes /\ DaemonTypes /\ DirsInv /\ DOMAIN files \subseteq Names
  BY DEF IInv, QueueTypes, FilesOK
<1>1. UNCHANGED fts => Ents' = Ents /\ ToVisit' = ToVisit
  BY DEF Ents, ToVisit
<1>2. CASE QuietNext
  <2>1. CASE pc' = "walk"
    <3>1. pc = "walk" /\ UNCHANGED <<files, fts, retry, cut>>
      BY <1>0, <1>2, <2>1, QuietHand, QuietCases, QuietLosses DEF queueVars, diskVars
    <3> QED
      BY <1>0, <1>1, <3>1 DEF WalkInv
  <2> QED
    BY <2>1 DEF WalkInv
<1>3. CASE StepWalk
  <2> USE <1>3, WalkCases
  <2>1. CASE Relisted /\ (cut' \/ ToVisit' = Existing) /\ pc' = "walk"
    <3>1. \A k \in DOMAIN files : Dir(k) \in Existing
      BY <1>0, NameFacts DEF DirsInv, Existing
    <3> QED
      BY <2>1, <3>1 DEF WalkInv
  <2>2. CASE FtsDescend /\ pc = "walk" /\ pc' = "walk" /\ UNCHANGED <<retry, cut>>
    <3>1. /\ Ents = {} /\ Ents' = In(fts'.dir)
          /\ ToVisit \subseteq ToVisit' \cup {fts'.dir}
      BY <1>0, <2>2, Descent
    <3> QED
      BY <1>0, <2>2, <3>1 DEF WalkInv, In
  <2>3. CASE FtsLeave /\ pc = "walk" /\ pc' = "walk" /\ UNCHANGED <<retry, cut>>
    <3>1. fts.ents = fts'.ents /\ fts.dirs = fts'.dirs
      BY <1>0, <2>3 DEF FtsLeave, QueueTypes, Traversal
    <3>2. Ents' = Ents /\ ToVisit' = ToVisit
      BY <3>1 DEF Ents, ToVisit
    <3> QED
      BY <1>0, <2>3, <3>2 DEF WalkInv
  <2>4. CASE WalkFile \/ pc' # "walk" \/ retry' = "retry"
    BY <2>4 DEF WalkFile, WalkInv
  <2> QED
    BY <2>1, <2>2, <2>3, <2>4
<1>4. CASE ReadFile \/ UnlinkFile \/ PutWrite \/ PutLink \/ \E i \in Ids : ReqQueuePut(i)
  <2>1. pc' # "walk"
    BY <1>0, <1>4 DEF ReadFile, UnlinkFile, PutWrite, PutLink, ReqQueuePut, DaemonTypes
  <2> QED
    BY <2>1 DEF WalkInv
<1> QED
  BY <1>2, <1>3, <1>4
     DEF Next, Dispatch, Requests, QuietNext, Loop, Environment, StepWalk

\* As long as no name recurs, the traversal returns files that are there, each
\* of them once.
LEMMA FtsStep ==
  ASSUME IInv, [Next]_vars, ~NamesRecur'
  PROVE  FtsInv'
<1> USE DEF Putting
<1>0. FtsInv /\ QueueTypes /\ DOMAIN files \subseteq Names
  BY SafeCases DEF SafeInv, IInv, QueueTypes, FilesOK
<1>1. UNCHANGED fts => Ents' = Ents /\ ToVisit' = ToVisit
  BY DEF Ents, ToVisit
<1>2. CASE StepIdle
  BY <1>0, <1>1, <1>2 DEF StepIdle, Fragile, FtsInv
<1>3. CASE StepCreate \/ StepRefuse \/ StepLink \/ StepRead
  BY <1>0, <1>1, <1>3 DEF StepCreate, StepRefuse, StepLink, StepRead, FtsInv
<1>4. CASE StepWrite \/ StepRemove \/ StepLose
  BY <1>0, <1>1, <1>4 DEF StepWrite, StepRemove, StepLose, FtsInv
<1>5. CASE StepWalk
  <2> USE <1>5, WalkCases
  <2>1. CASE Relisted /\ pc' # "read"
    BY <2>1, SMTT(30) DEF Relisted, FtsInv
  <2>3. CASE UNCHANGED fts /\ pc' # "read"
    BY <1>0, <1>1, <2>3 DEF FtsInv
  <2>4. CASE FtsDescend /\ pc = "walk" /\ pc' = "walk"
    <3>1. /\ Ents' = In(fts'.dir)
          /\ \A l, m \in 1..Len(fts'.ents) : fts'.ents[l] = fts'.ents[m] => l = m
      BY <1>0, <2>4, Descent
    <3> QED
      BY <2>4, <3>1 DEF FtsInv, In
  <2>5. CASE FtsLeave /\ pc = "walk" /\ pc' = "walk"
    <3>1. fts.ents = fts'.ents
      BY <1>0, <2>5 DEF FtsLeave, QueueTypes, Traversal
    <3>2. Ents' = Ents
      BY <3>1 DEF Ents
    <3> QED
      BY <1>0, <2>5, <3>1, <3>2 DEF FtsInv
  <2>6. CASE WalkFile
    <3>1. /\ Len(fts.ents) \in Nat \ {0} /\ Len(fts'.ents) = Len(fts.ents) - 1
          /\ key' = fts.ents[1]
          /\ \A m \in 1..Len(fts'.ents) : fts'.ents[m] = fts.ents[m + 1]
          /\ Ents = Ents' \cup {key'}
      BY <1>0, <2>6, Taking DEF WalkFile
    <3>2. pc' = "read" /\ key' \in DOMAIN files
      BY <1>0, <2>6, <3>1 DEF WalkFile, Goto, FtsInv
    <3>3. ASSUME NEW l \in 1..Len(fts'.ents), NEW m \in 1..Len(fts'.ents),
                 fts'.ents[l] = fts'.ents[m]
          PROVE  l = m
      <4>1. Len(fts.ents) \in Nat /\ Len(fts'.ents) = Len(fts.ents) - 1
        BY <3>1
      <4>2. /\ l + 1 \in 1..Len(fts.ents) /\ m + 1 \in 1..Len(fts.ents)
            /\ l + 1 = m + 1 => l = m
        BY ONLY <3>3, <4>1, SMTT(30)
      <4>3. fts.ents[l + 1] = fts.ents[m + 1]
        BY <3>1, <3>3
      <4> QED
        BY <1>0, <4>2, <4>3 DEF FtsInv
    <3>4. key' \notin Ents'
      <4>1. \A m \in 1..Len(fts'.ents) : fts'.ents[m] # key'
        BY <1>0, <3>1, SMTT(30) DEF FtsInv
      <4> QED
        BY <4>1 DEF Ents
    <3>5. UNCHANGED files /\ Ents' \subseteq DOMAIN files
      BY <1>0, <2>6, <3>1 DEF WalkFile, diskVars, FtsInv
    <3> QED
      BY ONLY <3>2, <3>3, <3>4, <3>5 DEF FtsInv
  <2> QED
    BY <2>1, <2>3, <2>4, <2>5, <2>6, SMTT(30)
<1> QED
  BY <1>2, <1>3, <1>4, <1>5, SafeCases, SMTT(30)


\* As long as no name recurs, what is left of a listing is in order of age, and
\* older than what was put in the directory since.
LEMMA OrderStep ==
  ASSUME IInv, [Next]_vars, ~NamesRecur'
  PROVE  OrderInv'
<1>0. /\ OrderInv /\ FtsInv /\ NamesInv /\ QueueTypes /\ clock \in Nat
      /\ Ents \subseteq DOMAIN files
      /\ \A k \in DOMAIN files : files[k].mtime \in Nat /\ files[k].mtime <= clock
  <2>1. OrderInv /\ FtsInv /\ NamesInv /\ QueueTypes /\ clock \in Nat
    BY SafeCases, KngQueueAssumption, SMTT(30) DEF SafeInv, IInv, QueueTypes
  <2>2. \A k \in DOMAIN files : files[k].mtime \in Nat
    BY <2>1 DEF QueueTypes, FilesOK, FileData
  <2> QED
    BY <2>1, <2>2 DEF FtsInv, NamesInv
<1>1. \A m \in 1..Len(fts.ents) : fts.ents[m] \in Ents
  BY DEF Ents
\* Files come and go, and the listing stays.
<1>2. ASSUME UNCHANGED fts,
             \A k \in Ents : k \in DOMAIN files' /\ files'[k] = files[k],
             \A k \in DOMAIN files' \ Ents :
               \/ files'[k].mtime = clock
               \/ /\ k \in DOMAIN files /\ files'[k] = files[k]
                  /\ k \in InHandFile => k \in InHandFile'
      PROVE  OrderInv'
  <2>1. Ents' = Ents /\ fts'.dir = fts.dir /\ fts'.ents = fts.ents
    BY <1>2 DEF Ents
  <2>2. \A m \in 1..Len(fts.ents) : Dir(fts.ents[m]) = fts.dir
    BY <1>0 DEF OrderInv
  <2>3. \A l, m \in 1..Len(fts.ents) :
          l < m => files'[fts.ents[l]].mtime <= files'[fts.ents[m]].mtime
    BY <1>0, <1>1, <1>2 DEF OrderInv
  <2>4. ASSUME NEW k \in In(fts.dir)' \ (Ents \cup InHandFile'), NEW m \in 1..Len(fts.ents)
        PROVE  files'[fts.ents[m]].mtime <= files'[k].mtime
    <3>1. k \in DOMAIN files' \ Ents /\ Dir(k) = fts.dir
      BY <2>1 DEF In
    <3>2. files'[fts.ents[m]] = files[fts.ents[m]] /\ fts.ents[m] \in DOMAIN files
      BY <1>0, <1>1, <1>2
    <3>3. CASE files'[k].mtime = clock
      BY <1>0, <3>2, <3>3
    <3>4. CASE k \in DOMAIN files /\ files'[k] = files[k] /\ k \notin InHandFile
      <4>1. k \in In(fts.dir) \ (Ents \cup InHandFile)
        BY <3>1, <3>4 DEF In
      <4> QED
        BY <1>0, <3>2, <3>4, <4>1, SMTT(30) DEF OrderInv
    <3> QED
      BY <1>2, <3>1, <3>3, <3>4
  <2> QED
    BY <2>1, <2>2, <2>3, <2>4 DEF OrderInv
<1>3. CASE StepIdle
  <2>1. InHandFile' = InHandFile
    BY <1>3 DEF StepIdle, Fragile, InHandFile
  <2> QED
    BY <1>0, <1>2, <1>3, <2>1, SMTT(30) DEF StepIdle
<1>4. CASE StepCreate \/ StepRefuse
  <2>1. InHandFile = {}
    BY <1>4 DEF StepCreate, StepRefuse, InHandFile
  <2> QED
    BY <1>0, <1>2, <1>4, <2>1 DEF StepCreate, StepRefuse
<1>5. CASE StepWrite
  <2>1. InHandFile = {} /\ key \notin Ents
    BY <1>0, <1>5 DEF StepWrite, InHandFile, FtsInv, Putting
  <2> QED
    BY <1>0, <1>2, <1>5, <2>1 DEF StepWrite
<1>6. CASE StepRemove \/ StepLose
  <2>1. InHandFile \subseteq {key} /\ key \notin Ents
    BY <1>0, <1>6 DEF StepRemove, StepLose, InHandFile, FtsInv, Putting
  <2>2. /\ UNCHANGED fts /\ DOMAIN files' = DOMAIN files \ {key}
        /\ \A k \in DOMAIN files' : files'[k] = files[k]
    BY <1>6 DEF StepRemove, StepLose
  <2> QED
    BY <1>0, <1>2, <2>1, <2>2
<1>7. CASE StepLink \/ StepRead
  <2>1. InHandFile \subseteq InHandFile'
    BY <1>7 DEF StepLink, StepRead, InHandFile
  <2> QED
    BY <1>0, <1>2, <1>7, <2>1 DEF StepLink, StepRead
<1>8. CASE StepWalk
  <2>1. UNCHANGED files /\ InHandFile = {}
    BY <1>8, WalkCases DEF InHandFile
  <2>2. CASE fts'.ents = <<>>
    BY <2>2, SMTT(30) DEF OrderInv
  <2>3. CASE UNCHANGED fts
    BY <1>0, <1>2, <2>1, <2>3, SMTT(30)
  <2>4. CASE FtsDescend
    <3>1. /\ Ents' = In(fts'.dir)
          /\ \A l, m \in 1..Len(fts'.ents) :
               l < m => files[fts'.ents[l]].mtime <= files[fts'.ents[m]].mtime
      BY <1>0, <2>4, Descent
    <3>2. \A m \in 1..Len(fts'.ents) : fts'.ents[m] \in Ents'
      BY DEF Ents
    <3> QED
      BY <2>1, <3>1, <3>2 DEF OrderInv, In
  <2>5. CASE FtsLeave
    BY <1>0, <2>2, <2>5 DEF FtsLeave, QueueTypes, Traversal
  <2>6. CASE WalkFile
    <3>1. /\ Len(fts.ents) \in Nat \ {0} /\ Len(fts'.ents) = Len(fts.ents) - 1
          /\ key' = fts.ents[1] /\ fts'.dir = fts.dir
          /\ \A m \in 1..Len(fts'.ents) : fts'.ents[m] = fts.ents[m + 1]
          /\ Ents = Ents' \cup {key'}
      BY <1>0, <2>6, Taking DEF WalkFile
    <3>2. \A m \in 1..Len(fts'.ents) : m \in Nat /\ m + 1 \in 1..Len(fts.ents)
      BY ONLY <3>1
    <3>3. InHandFile' = {key'}
      BY <2>6 DEF WalkFile, Goto, InHandFile
    <3>4. \A m \in 1..Len(fts'.ents) : Dir(fts'.ents[m]) = fts'.dir
      BY <1>0, <3>1, <3>2 DEF OrderInv
    <3>5. ASSUME NEW l \in 1..Len(fts'.ents), NEW m \in 1..Len(fts'.ents), l < m
          PROVE  files[fts'.ents[l]].mtime <= files[fts'.ents[m]].mtime
      <4>1. l + 1 \in 1..Len(fts.ents) /\ m + 1 \in 1..Len(fts.ents) /\ l + 1 < m + 1
        BY <3>2, <3>5, SMTT(30)
      <4>2. files[fts.ents[l + 1]].mtime <= files[fts.ents[m + 1]].mtime
        BY <1>0, <4>1 DEF OrderInv
      <4> QED
        BY <3>1, <3>5, <4>2
    <3>6. In(fts.dir)' \ (Ents' \cup InHandFile') = In(fts.dir) \ (Ents \cup InHandFile)
      BY <2>1, <3>1, <3>3 DEF In
    <3>7. \A k \in In(fts.dir)' \ (Ents' \cup InHandFile') : \A m \in 1..Len(fts'.ents) :
            files[fts'.ents[m]].mtime <= files[k].mtime
      BY <1>0, <3>1, <3>2, <3>6, SMTT(30) DEF OrderInv
    <3> QED
      BY <2>1, <3>4, <3>5, <3>7 DEF OrderInv
  <2> QED
    BY <1>8, <2>2, <2>3, <2>4, <2>5, <2>6, WalkCases, SMTT(30) DEF Relisted
<1> QED
  BY <1>3, <1>4, <1>5, <1>6, <1>7, <1>8, SafeCases, SMTT(30)


\* As long as no name recurs, links and files match but for the file in hand
\* and the files that could not be read.
LEMMA LinkStep ==
  ASSUME IInv, [Next]_vars, ~NamesRecur'
  PROVE  LinkInv'
<1>0. /\ LinkInv /\ HandInv /\ ContentInv /\ id \in Ids /\ DOMAIN files \subseteq Names
      /\ links \in [Ids -> Names \cup {NoKey}] /\ Garbage \notin Ids
  BY SafeCases, KngQueueAssumption DEF SafeInv, IInv, QueueTypes, FilesOK, DaemonTypes
<1>1. \A k \in DOMAIN files : k # NoKey
  BY <1>0, NameFacts
<1>l. \A i \in Ids : links[i] \in DOMAIN files => links[i] \in Queued(i)
  BY <1>0, <1>1 DEF LinkInv
<1>2. ASSUME \A i \in Ids : Queued(i)' = Queued(i), UNCHANGED <<links, unread>>,
             \A i \in Ids : links[i] \in DOMAIN files' => links[i] \in DOMAIN files,
             pc \notin {"link", "unlink"}, pc' \notin {"link", "unlink"}
      PROVE  LinkInv'
  BY <1>0, <1>2, SMTT(30) DEF LinkInv
<1>3. CASE StepIdle
  <2>1. /\ \A i \in Ids : Queued(i)' = Queued(i)
        /\ UNCHANGED <<files, links, key, unread>>
    BY <1>3 DEF StepIdle, Queued
  <2>2. CASE pc' = pc
    BY <1>0, <2>1, <2>2 DEF LinkInv
  <2> QED
    BY <1>2, <1>3, <2>1, <2>2 DEF StepIdle, Fragile
<1>4. CASE StepWalk
  BY <1>2, <1>4, WalkCases DEF Queued
<1>5. CASE StepCreate \/ StepRefuse
  <2>1. \A i \in Ids : Queued(i)' = Queued(i)
    BY <1>0, <1>5 DEF StepCreate, StepRefuse, Queued
  <2>2. \A i \in Ids : links[i] \in DOMAIN files' => links[i] \in DOMAIN files
    <3>1. CASE StepCreate
      <4>1. key' \notin Linked /\ key' # NoKey /\ DOMAIN files' = DOMAIN files \cup {key'}
        BY <3>1, NameFacts DEF StepCreate
      <4> QED
        BY <4>1 DEF Linked
    <3> QED
      BY <1>5, <3>1 DEF StepRefuse
  <2> QED
    BY <1>2, <1>5, <2>1, <2>2 DEF StepCreate, StepRefuse, lossVars
<1>6. CASE StepWrite
  <2>1. /\ pc' = "link" /\ UNCHANGED <<links, key, id, unread>> /\ key \in DOMAIN files
        /\ DOMAIN files' = DOMAIN files /\ key \notin UNION {Queued(i) : i \in Ids}
    BY <1>0, <1>6 DEF StepWrite, ContentInv, Queued, lossVars
  <2>2. \A i \in Ids : Queued(i)' = IF i = id THEN Queued(i) \cup {key} ELSE Queued(i)
    BY <1>0, <1>6, <2>1, SMTT(30) DEF StepWrite, Queued
  <2>3. \A i \in Ids : links[i] # key
    BY <1>l, <2>1
  <2>4. \A i \in Ids : \A k \in Queued(i) : links[i] = k
    BY <1>0, <1>6 DEF LinkInv, StepWrite
  <2>5. \A i \in Ids : links[i] # NoKey =>
          links[i] \in Queued(i) \/ (unread[i] > 0 /\ links[i] \notin DOMAIN files)
    BY <1>0 DEF LinkInv
  <2> QED
    BY <2>1, <2>2, <2>3, <2>4, <2>5 DEF LinkInv
<1>7. CASE StepRemove
  <2>1. /\ pc' \notin {"link", "unlink"} /\ UNCHANGED <<links, unread>>
        /\ DOMAIN files' \subseteq DOMAIN files
        /\ \A i \in Ids : Queued(i)' = Queued(i) \ {key}
    BY <1>7 DEF StepRemove, Queued, lossVars
  <2>2. ASSUME NEW i \in Ids PROVE links[i] # key
    <3>1. CASE pc = "write"
      <4>1. key \notin Queued(i) /\ key \in DOMAIN files
        BY <1>0, <1>7, <3>1 DEF StepRemove, ContentInv, Queued
      <4> QED
        BY <1>l, <4>1
    <3> QED
      BY <1>0, <1>7, <3>1 DEF StepRemove, LinkInv
  <2> QED
    BY <1>0, <2>1, <2>2 DEF LinkInv
<1>8. CASE StepLink
  <2>1. /\ pc' = "top" /\ links[id] = NoKey /\ links'[id] = key
        /\ \A i \in Ids \ {id} : links'[i] = links[i]
        /\ \A i \in Ids : Queued(i)' = Queued(i)
        /\ UNCHANGED <<files, unread>>
    BY <1>0, <1>8 DEF StepLink, Queued, lossVars
  <2>2. key \in Queued(id) /\ \A i \in Ids : key \in Queued(i) => i = id
    BY <1>0, <1>8 DEF StepLink, HandInv, Queued
  <2>3. \A k \in Queued(id) : k = key
    BY <1>0, <1>1, <2>1, SMTT(30) DEF LinkInv, Queued
  <2>4. \A i \in Ids \ {id} : \A k \in Queued(i) : links[i] = k
    BY <1>0, <2>2 DEF LinkInv
  <2>5. \A i \in Ids : links'[i] # NoKey =>
          links'[i] \in Queued(i) \/ (unread[i] > 0 /\ links'[i] \notin DOMAIN files)
    BY <1>0, <2>1, <2>2 DEF LinkInv
  <2> QED
    BY <2>1, <2>3, <2>4, <2>5 DEF LinkInv
<1>9. CASE StepRead
  <2>1. /\ pc = "read" /\ pc' = "unlink" /\ UNCHANGED <<files, key, unread>>
        /\ id' \in Ids /\ links'[id'] = NoKey
        /\ \A i \in Ids \ {id'} : links'[i] = links[i]
        /\ \A i \in Ids : Queued(i)' = Queued(i)
    BY <1>0, <1>9 DEF StepRead, Queued, lossVars
  <2>2. /\ key \in Queued(id') /\ key # NoKey /\ key \in DOMAIN files
        /\ \A i \in Ids : key \in Queued(i) => i = id'
    BY <1>1, <1>9 DEF StepRead, Queued
  <2>3. \A i \in Ids : \A k \in Queued(i) : links[i] = k
    BY <1>0, <2>1 DEF LinkInv
  <2>4. \A k \in Queued(id') : k = key
    BY <2>1, <2>2, <2>3
  <2>5. \A i \in Ids : links'[i] # key
    BY <1>l, <2>1, <2>2
  <2>6. \A i \in Ids : links'[i] # NoKey =>
          links'[i] \in Queued(i) \/ (unread[i] > 0 /\ links'[i] \notin DOMAIN files)
    BY <1>0, <2>1 DEF LinkInv
  <2>7. \A i \in Ids : \A k \in Queued(i) : links'[i] = k \/ k = key
    BY <2>1, <2>3, <2>4
  <2> QED
    BY <2>1, <2>5, <2>6, <2>7 DEF LinkInv
<1>10. CASE StepLose
  <2> DEFINE j == files[key].content
  <2>1. /\ pc = "read" /\ pc' \notin {"link", "unlink"} /\ UNCHANGED links /\ j \in Ids
        /\ key \in DOMAIN files /\ DOMAIN files' = DOMAIN files \ {key}
        /\ \A i \in Ids : Queued(i)' = Queued(i) \ {key}
        /\ unread' = Count(unread, j)
    BY <1>10 DEF StepLose, Queued
  <2>2. \A i \in Ids : key \in Queued(i) => i = j
    BY DEF Queued
  <2>3. unread \in [Ids -> Nat]
    BY DEF IInv, LossTypes
  <2> HIDE DEF j
  <2>4. unread'[j] > 0 /\ \A i \in Ids : unread[i] > 0 => unread'[i] > 0
    BY <2>1, <2>3, Counted, SMTT(30)
  <2>5. ASSUME NEW i \in Ids, links[i] # NoKey
        PROVE  links[i] \in Queued(i)' \/ (unread'[i] > 0 /\ links[i] \notin DOMAIN files')
    <3>1. CASE links[i] = key
      <4>1. i = j
        BY <1>l, <2>1, <2>2, <3>1
      <4> QED
        BY <2>1, <2>4, <3>1, <4>1
    <3>2. CASE links[i] # key
      BY <1>0, <2>1, <2>4, <2>5, <3>2 DEF LinkInv
    <3> QED
      BY <3>1, <3>2
  <2>6. \A i \in Ids : \A k \in Queued(i)' : links[i] = k
    BY <1>0, <2>1 DEF LinkInv
  <2> QED
    BY <2>1, <2>5, <2>6 DEF LinkInv
<1> QED
  BY <1>3, <1>4, <1>5, <1>6, <1>7, <1>8, <1>9, <1>10, SafeCases, SMTT(30)

\* As long as no name recurs, nothing is written over, and only a failure to
\* read cuts a dispatch short.
LEMMA LossInvStep ==
  ASSUME IInv, [Next]_vars, ~NamesRecur'
  PROVE  LossInv'
<1>0. LossInv /\ faults \in Nat
  BY SafeCases DEF SafeInv, IInv, LossTypes
<1>1. ASSUME UNCHANGED overwritten, ((cut' => cut) /\ UNCHANGED faults) \/ faults' = faults + 1
      PROVE  LossInv'
  BY <1>0, <1>1, SMTT(30) DEF LossInv
<1>2. CASE StepWalk
  BY <1>1, <1>2, WalkCases DEF Fault
<1>3. CASE StepIdle \/ StepLose
  BY <1>1, <1>3 DEF StepIdle, StepLose
<1>4. CASE StepCreate \/ StepRefuse \/ StepWrite \/ StepRemove \/ StepLink \/ StepRead
  <2>1. UNCHANGED <<overwritten, cut, faults>>
    BY <1>4 DEF StepCreate, StepRefuse, StepWrite, StepRemove, StepLink, StepRead, lossVars
  <2> QED
    BY <1>1, <2>1
<1> QED
  BY <1>2, <1>3, <1>4, SafeCases

\* dispatch_n_jobs returns when no slot is left, when nothing is in the queue,
\* or when a failure to read cut it short.
LEMMA IdleStep ==
  ASSUME IInv, [Next]_vars
  PROVE  IdleInv'
<1> USE DEF At, Goto, Dispatching
<1>0. /\ IdleInv /\ WalkInv /\ BudgetInv /\ QueueTypes /\ DaemonTypes /\ nrunning \in Nat
      /\ NSlots \in Nat \ {0}
  BY KngAssumption DEF IInv, ListInv, JobTypes
<1>1. Available(nrunning) = 0 => nrunning >= NSlots
  BY <1>0, SMTT(30) DEF Available
<1>2. CASE ReadFile
  BY <1>2 DEF ReadFile, Fault, IdleInv
<1>3. CASE ModInit \/ DispatchNext \/ WalkDirs \/ WalkFile
  BY <1>0, <1>1, <1>3, SMTT(30) DEF ModInit, DispatchNext, WalkDirs, WalkFile, listVars, BudgetInv, IdleInv
<1>4. CASE WalkEnd
  <2>1. pc = "walk" /\ UNCHANGED files /\ Ents = {} /\ ToVisit = {}
    BY <1>4, SMTT(30) DEF WalkEnd, FtsAtEnd, diskVars, Ents, ToVisit
  <2>2. retry # "retry" => DOMAIN files = {} \/ cut
    BY <1>0, <2>1 DEF WalkInv
  <2>3. pc' = "walk" \/ (retry # "retry" /\ UNCHANGED cut)
    BY <1>4, <2>1, EndCases
  <2> QED
    BY <2>1, <2>2, <2>3 DEF IdleInv
<1>5. ASSUME NEW i \in Ids, ReqQueuePut(i) PROVE IdleInv'
  BY <1>1, <1>5 DEF ReqQueuePut, listVars, IdleInv
<1>6. CASE PutWrite \/ PutLink
  BY <1>0, <1>1, <1>6 DEF PutWrite, PutLink, listVars, BudgetInv, Putting, IdleInv
<1>7. CASE UnlinkFile \/ DispatchStart
  BY <1>7 DEF UnlinkFile, DispatchStart, IdleInv
<1>8. CASE ~DispatchStart /\ QuietNext
  <2>1. UNCHANGED files /\ (UNCHANGED cut \/ pc' = "next")
    BY <1>0, <1>8, QuietHand, QuietLosses
  <2>2. CASE Loop \/ OnTick \/ ModFini \/ UNCHANGED vars
    BY <1>0, <2>1, <2>2 DEF Loop, Top, ReapChild, NoMoreZombies, ClearChld, EnterSelect, OnTick,
                            ModFini, Gone, vars, listVars, IdleInv
  <2>3. CASE Environment
    BY <1>0, <2>1, <2>3 DEF Environment, Exit, Expire, Crash, Second, Gone, listVars, IdleInv
  <2>4. CASE \E i \in Ids : ReqStart(i) \/ ReqQueueStart(i) \/ ReqStop(i)
    <3>1. pc = "select" /\ pc' = "top" /\ (nrunning' = nrunning \/ nrunning' = nrunning + 1)
      BY <2>4 DEF ReqStart, ReqQueueStart, ReqQueue, ReqStop, StartJob, StartFails
    <3>2. nrunning >= NSlots => nrunning' >= NSlots
      BY <1>0, <3>1, SMTT(30)
    <3> QED
      BY <1>0, <2>1, <3>1, <3>2 DEF IdleInv
  <2> QED
    BY <1>8, <2>2, <2>3, <2>4, SMTT(30) DEF QuietNext
<1> QED
  BY <1>2, <1>3, <1>4, <1>5, <1>6, <1>7, <1>8, SMTT(30)
     DEF Next, Dispatch, Requests, QuietNext, Loop, Environment

\* An accepted request leaves the queue only to be started, unread, written over
\* or with the process.
LEMMA AckedStep ==
  ASSUME IInv, [Next]_vars
  PROVE  AckedInv'
<1> USE DEF At, Goto
<1>0. /\ QueueTypes /\ DaemonTypes /\ LossTypes /\ HandInv /\ id \in Ids /\ AckedInv
      /\ tried \in [Ids -> Nat] /\ acked \in [Ids -> Nat] /\ Garbage \notin Ids
      /\ unread \in [Ids -> Nat] /\ overwritten \in [Ids -> Nat] /\ crashes \in Nat
  BY KngQueueAssumption DEF IInv, DaemonTypes, LossTypes
<1> SUFFICES ASSUME NEW i \in Ids
             PROVE  (acked[i] + ToLink(i) <= Handled(i) + unread[i] + overwritten[i] + crashes)'
  BY DEF AckedInv
<1> DEFINE c == Cardinality(Queued(i))
           m == IF id = i THEN 1 ELSE 0
           lost == unread[i] + overwritten[i] + crashes
           LostNat == unread[i] \in Nat /\ overwritten[i] \in Nat /\ crashes \in Nat
           Goal == (acked[i] + ToLink(i) <= Handled(i) + unread[i] + overwritten[i] + crashes)'
<1>1. /\ IsFiniteSet(Queued(i)) /\ c \in Nat /\ tried[i] \in Nat /\ acked[i] \in Nat
      /\ unread[i] \in Nat /\ overwritten[i] \in Nat /\ crashes \in Nat
      /\ acked[i] + ToLink(i) <= tried[i] + InHand(i) + c + unread[i] + overwritten[i] + crashes
  BY <1>0, QueuedFiles DEF AckedInv, Handled
<1>2. ASSUME Cardinality(Queued(i)') \in Nat, Cardinality(Queued(i)') + lost' >= c + lost,
             LostNat', UNCHANGED <<tried, acked>>,
             (pc' = pc /\ id' = id) \/ (pc # "start" /\ pc' # "link")
      PROVE  Goal
  BY <1>1, <1>2, SMTT(30) DEF Handled, InHand, ToLink
<1>3. ASSUME UNCHANGED files
      PROVE  Cardinality(Queued(i)') = c
  BY <1>3 DEF Queued
<1>4. ASSUME Cardinality(Queued(i)') = c, UNCHANGED <<unread, overwritten, crashes, tried, acked>>,
             (pc' = pc /\ id' = id) \/ (pc # "start" /\ pc' # "link")
      PROVE  Goal
  <2>1. c \in Nat /\ c + lost' >= c + lost /\ LostNat'
    BY <1>1, <1>4, SMTT(30)
  <2> QED
    BY <1>2, <1>4, <2>1
<1>5. CASE DispatchStart
  <2>1. /\ UNCHANGED <<files, acked, id, unread, overwritten, crashes>>
        /\ pc = "start" /\ pc' = "next" /\ tried'[i] = tried[i] + m
    BY <1>0, <1>5, Counted, SMTT(30) DEF DispatchStart, queueVars, lossVars
  <2> QED
    BY <1>1, <1>3, <2>1, SMTT(30) DEF Handled, InHand, ToLink
<1>6. ASSUME NEW j \in Ids, ReqQueueStart(j) PROVE Goal
  <2>1. /\ UNCHANGED <<files, unread, overwritten, crashes>> /\ pc = "select" /\ pc' = "top"
        /\ \/ UNCHANGED <<acked, tried>>
           \/ /\ \A x \in Ids : acked'[x] = IF x = j THEN acked[x] + 1 ELSE acked[x]
              /\ \A x \in Ids : tried'[x] = IF x = j THEN tried[x] + 1 ELSE tried[x]
    BY <1>0, <1>6, Counted, SMTT(30) DEF ReqQueueStart, ReqQueue, queueVars, lossVars
  <2> QED
    BY <1>1, <1>3, <2>1, SMTT(30) DEF Handled, InHand, ToLink
<1>7. ASSUME NEW j \in Ids, ReqQueuePut(j) PROVE Goal
  <2>1. /\ pc = "select" /\ pc' \in {"write", "top"}
        /\ UNCHANGED <<tried, acked, unread, overwritten, crashes>>
    BY <1>7 DEF ReqQueuePut, ReqQueue, lossVars
  <2>2. Queued(i)' = Queued(i)
    BY <1>0, <1>7, QueuedFiles DEF ReqQueuePut, Queued
  <2> QED
    BY <1>4, <2>1, <2>2
<1>8. CASE PutWrite
  <2> DEFINE j == files[key].content
             w == IF j = i THEN 1 ELSE 0
  <2>1. /\ UNCHANGED <<tried, acked, unread, crashes, id>> /\ pc = "write"
        /\ key \in DOMAIN files
    BY <1>0, <1>8 DEF PutWrite, countVars, handVars, HandInv, Putting
  <2>2. j \in Ids \cup {Garbage} /\ (key \in Queued(i) <=> j = i)
    BY <1>0, <2>1, SMTT(30) DEF QueueTypes, FilesOK, FileData, Queued
  <2>3. overwritten' = IF j = Garbage THEN overwritten ELSE Count(overwritten, j)
    BY <1>8 DEF PutWrite
  <2> HIDE DEF j
  <2>4. overwritten'[i] = overwritten[i] + w
    BY <1>0, <2>2, <2>3, Counted, SMTT(30)
  <2>5. Cardinality(Queued(i) \ {key}) = c - w /\ Cardinality(Queued(i) \ {key}) \in Nat
    BY <1>1, <2>2, Sizes, SMTT(30)
  <2>6. CASE Queued(i)' = Queued(i) \ {key} /\ pc' \in {"write", "top"}
    <3>1. /\ Cardinality(Queued(i)') \in Nat /\ Cardinality(Queued(i)') + lost' >= c + lost
          /\ LostNat'
      BY <1>1, <2>1, <2>4, <2>5, <2>6, SMTT(30)
    <3> QED
      BY <1>2, <2>1, <2>6, <3>1
  <2>7. CASE WriteFile(key, id) /\ pc' = "link" /\ UNCHANGED dirtime
    <3>1. Queued(i)' = IF i = id THEN Queued(i) \cup {key} ELSE Queued(i) \ {key}
      BY <1>0, <2>1, <2>7, QueuedFiles
    <3>2. CASE i = id
      <4>1. Cardinality(Queued(i) \cup {key}) = c + 1 - w
        <5>1. key \in Queued(i) => Queued(i) \cup {key} = Queued(i)
          OBVIOUS
        <5> QED
          BY <1>1, <2>2, <5>1, Sizes, SMTT(30)
      <4> QED
        BY <1>1, <2>1, <2>4, <2>7, <3>1, <3>2, <4>1, SMTT(30) DEF Handled, InHand, ToLink
    <3>3. CASE i # id
      BY <1>1, <2>1, <2>4, <2>5, <2>7, <3>1, <3>3, SMTT(30) DEF Handled, InHand, ToLink
    <3> QED
      BY <3>2, <3>3
  <2>8. CASE WriteFile(key, Garbage) /\ UNCHANGED <<pc, dirtime>>
    <3>1. Queued(i)' = Queued(i) \ {key}
      BY <1>0, <2>1, <2>8, QueuedFiles
    <3> QED
      BY <2>1, <2>6, <2>8, <3>1
  <2>9. CASE Unlink(key) /\ pc' = "top"
    BY <1>0, <2>6, <2>9, QueuedFiles
  <2> QED
    BY <1>8, <2>7, <2>8, <2>9 DEF PutWrite
<1>9. CASE PutLink \/ UnlinkFile
  <2>1. /\ UNCHANGED <<tried, id, unread, overwritten, crashes>>
        /\ pc \in {"link", "unlink"} /\ pc' = IF pc = "unlink" THEN "start" ELSE "top"
    BY <1>9 DEF PutLink, UnlinkFile, handVars, histVars, countVars, lossVars
  <2>2. key \in Queued(id) /\ (key \in Queued(i) <=> id = i)
    BY <1>0, <2>1 DEF HandInv, Queued
  <2>3. CASE PutLink /\ acked' = Count(acked, id) /\ UNCHANGED files
    <3>1. acked'[i] = acked[i] + m /\ pc = "link"
      BY <1>0, <2>3, Counted, SMTT(30) DEF PutLink
    <3> QED
      BY <1>1, <1>3, <2>1, <2>3, <3>1, SMTT(30) DEF Handled, InHand, ToLink
  <2>4. CASE Unlink(key) /\ UNCHANGED acked
    <3>1. Queued(i)' = Queued(i) \ {key}
      BY <1>0, <2>4, QueuedFiles
    <3>2. Cardinality(Queued(i)') = c - m
      BY <1>1, <2>2, <3>1, Sizes, SMTT(30)
    <3> QED
      BY <1>1, <2>1, <2>4, <3>2, SMTT(30) DEF Handled, InHand, ToLink
  <2> QED
    BY <1>9, <2>3, <2>4 DEF PutLink, UnlinkFile, histVars, countVars
<1>10. CASE ReadFile
  <2>1. /\ UNCHANGED <<tried, acked, overwritten, crashes>> /\ pc = "read"
        /\ pc' \notin {"link", "start"}
    BY <1>0, <1>10 DEF ReadFile, countVars, DaemonTypes
  <2>2. CASE UNCHANGED <<files, unread>>
    BY <1>3, <1>4, <2>1, <2>2
  <2>3. CASE Intact /\ unread' = Count(unread, files[key].content) /\ Unlink(key)
    <3> DEFINE j == files[key].content
               w == IF j = i THEN 1 ELSE 0
    <3>0. key \in DOMAIN files /\ j # Garbage /\ (key \in Queued(i) <=> j = i)
      BY <2>3 DEF Intact, Queued
    <3>1. j \in Ids
      BY <1>0, <3>0, SMTT(30) DEF QueueTypes, FilesOK, FileData
    <3>2. unread' = Count(unread, j)
      BY <2>3
    <3> HIDE DEF j
    <3>3. unread'[i] = unread[i] + w
      BY <1>0, <3>1, <3>2, Counted, SMTT(30)
    <3>4. Cardinality(Queued(i) \ {key}) = c - w /\ Cardinality(Queued(i) \ {key}) \in Nat
      <4>1. /\ key \in Queued(i) => Cardinality(Queued(i) \ {key}) = c - 1
            /\ key \notin Queued(i) => Cardinality(Queued(i) \ {key}) = c
            /\ Cardinality(Queued(i) \ {key}) \in Nat
        BY <1>1, Sizes
      <4> QED
        BY <1>1, <3>0, <4>1, SMTT(30)
    <3>5. Cardinality(Queued(i)') = c - w /\ Cardinality(Queued(i)') \in Nat
      <4>1. Queued(i)' = Queued(i) \ {key}
        BY <1>0, <2>3, QueuedFiles
      <4> QED
        BY <3>4, <4>1
    <3>6. Cardinality(Queued(i)') + lost' >= c + lost /\ LostNat'
      BY <1>1, <2>1, <3>3, <3>5, SMTT(30)
    <3> QED
      BY <1>2, <2>1, <3>5, <3>6
  <2>4. CASE ~Intact /\ UNCHANGED unread /\ Unlink(key)
    <3>1. key \notin Queued(i)
      BY <1>0, <2>4 DEF Intact, Queued
    <3>2. Queued(i)' = Queued(i) \ {key} /\ Queued(i) \ {key} = Queued(i)
      BY <1>0, <2>4, <3>1, QueuedFiles
    <3> QED
      BY <1>4, <2>1, <2>4, <3>2
  <2> QED
    BY <1>10, <2>2, <2>3, <2>4 DEF ReadFile
<1>11. CASE StepWalk
  <2>1. UNCHANGED <<tried, acked, crashes>>
    BY <1>11 DEF StepWalk, ModInit, DispatchNext, WalkDirs, WalkFile, WalkEnd, histVars, countVars
  <2> QED
    BY <1>3, <1>4, <1>11, <2>1, WalkCases
<1>12. CASE Crash
  <2>1. /\ UNCHANGED <<files, tried, acked, id, unread, overwritten>>
        /\ pc' = "down" /\ crashes' = crashes + 1
    BY <1>12 DEF Crash, Gone, queueVars, diskVars, handVars, lossVars
  <2> QED
    BY <1>1, <1>3, <2>1, SMTT(30) DEF Handled, InHand, ToLink
<1>13. CASE QuietNext /\ ~DispatchStart /\ ~Crash /\ ~\E j \in Ids : ReqQueueStart(j)
  <2>1. UNCHANGED <<tried, acked, crashes>>
    BY <1>13 DEF QuietNext, Loop, Top, ReapChild, NoMoreZombies, ClearChld, EnterSelect, OnTick,
                 ModFini, Environment, Exit, Expire, Second, ReqStart, ReqStop, vars, histVars,
                 countVars
  <2>2. pc = "start" => pc' = pc
    BY <1>13 DEF QuietNext, Loop, Top, ReapChild, NoMoreZombies, ClearChld, EnterSelect, OnTick,
                 ModFini, Environment, Exit, Expire, Second, ReqStart, ReqStop, vars
  <2>3. UNCHANGED <<files, id, unread, overwritten>> /\ (pc' = pc \/ pc' # "link")
    BY <1>0, <1>13, QuietHand, QuietLosses
  <2> QED
    BY <1>3, <1>4, <2>1, <2>2, <2>3
<1> QED
  BY <1>5, <1>6, <1>7, <1>8, <1>9, <1>10, <1>11, <1>12, <1>13, SMTT(30)
     DEF Next, Dispatch, Requests, QuietNext, Loop, Environment, StepWalk

----------------------------------------------------------------------------
(* The invariant and the properties.                                       *)

\* Nothing runs and nothing is queued at first.
LEMMA InitIInv == Init => IInv
<1> SUFFICES ASSUME Init PROVE IInv
  OBVIOUS
<1> USE DEF Init, QueueInit
<1>1. DOMAIN files = {} /\ files = [k \in DOMAIN files |-> files[k]] /\ IsFiniteSet({})
  BY FS_EmptySet, SMTT(30)
<1>2. QueueTypes
  <2>1. fts \in Traversal
    BY SMTT(30) DEF NoFts, Traversal
  <2> QED
    BY <1>1, <2>1, KngQueueAssumption, SMTT(30) DEF QueueTypes, FilesOK
<1>3. DaemonTypes /\ BudgetInv /\ HandInv /\ DirsInv /\ LossTypes /\ FaultInv /\ WalkInv /\ IdleInv
  BY <1>1 DEF DaemonTypes, BudgetInv, HandInv, DirsInv, LossTypes, FaultInv, WalkInv, IdleInv,
              Pcs, Dispatching, Putting
<1>4. ListInv
  BY SMTT(30) DEF ListInv, JobTypes, JobInv, JobPids, Children, Child
<1>5. QueueKeepsSlots
  <2>1. {j \in 1..Len(jobs) : jobs[j].via = "queue"} = {}
    BY SMTT(30)
  <2> QED
    BY <2>1, FS_EmptySet, KngAssumption, SMTT(30) DEF QueueKeepsSlots
<1>6. \A i \in Ids : Cardinality(Queued(i)) = 0
  BY <1>1, FS_EmptySet DEF Queued
<1>7. CountInv /\ AckedInv
  BY <1>6, SMTT(30) DEF CountInv, AckedInv, Handled, InHand, ToWrite, ToLink
<1>8. Ents = {} /\ Len(fts.ents) = 0
  BY SMTT(30) DEF Ents, NoFts
<1>9. Linked = {}
  BY DEF Linked
<1>10. NamesInv /\ ContentInv /\ FtsInv /\ OrderInv /\ LinkInv /\ LossInv
  BY <1>1, <1>8, <1>9, SMTT(30)
     DEF NamesInv, ContentInv, FtsInv, OrderInv, LinkInv, LossInv, Putting, Queued
<1> QED
  BY <1>2, <1>3, <1>4, <1>5, <1>7, <1>10 DEF IInv, SafeInv

\* Every step keeps the invariant.
LEMMA NextIInv == IInv /\ [Next]_vars => IInv'
<1> SUFFICES ASSUME IInv, [Next]_vars PROVE IInv'
  OBVIOUS
<1>1. QueueTypes' /\ DirsInv'
  BY QueueStep
<1>2. ListInv' /\ QueueKeepsSlots'
  BY ListStep
<1>3. DaemonTypes' /\ BudgetInv' /\ HandInv' /\ CountInv'
  BY DaemonStep, BudgetStep, HandStep, CountStep
<1>4. LossTypes' /\ FaultInv' /\ AckedInv' /\ WalkInv' /\ IdleInv'
  BY LossStep, AckedStep, WalkStep, IdleStep
<1>5. ASSUME ~NamesRecur' PROVE SafeInv'
  BY <1>5, NamesStep, ContentStep, FtsStep, OrderStep, LinkStep, LossInvStep DEF SafeInv
<1> QED
  BY <1>1, <1>2, <1>3, <1>4, <1>5 DEF IInv

\* The states of knegd, whatever deaths, requests, shutdowns, restarts and
\* failures to read the queue come.
THEOREM DaemonInvariant == Spec => []IInv
<1> QED
  BY InitIInv, NextIInv, PTL DEF Spec

\* The list of jobs is the set of unreaped children and is counted right, jobs
\* of the queue fit the slots, and no slot is idle while a request waits, also
\* after the process died, unless a file or a directory could not be read by
\* the last dispatch_n_jobs (kngq_navailable, kngq_next_file,
\* kng_on_svc_reaped_child).
THEOREM SlotsUsedHolds == Spec => []SlotsUsed
<1>1. ASSUME IInv PROVE SlotsUsed
  <2>1. JobsAreChildren
    <3>1. /\ jobs \in Seq(Job) /\ JobPids = Children /\ nrunning = Len(jobs)
          /\ \A j, k \in 1..Len(jobs) : jobs[j].pid = jobs[k].pid => j = k
      BY <1>1 DEF IInv, ListInv, JobTypes, JobInv
    <3> DEFINE len == Len(jobs)
               f == [j \in 1..len |-> jobs[j].pid]
    <3>2. len \in Nat /\ IsFiniteSet(1..len) /\ Cardinality(1..len) = len
      <4>1. len \in Nat
        BY <3>1, SMTT(30)
      <4> HIDE DEF len
      <4> QED
        BY <4>1, FS_Interval, SMTT(30)
    <3>3. f \in Bijection(1..len, JobPids)
      BY <3>1 DEF Bijection, Injection, Surjection, IsInjective, JobPids
    <3>4. Cardinality(JobPids) = len
      <4> HIDE DEF len, f
      <4>1. ExistsBijection(1..len, JobPids)
        BY <3>3 DEF ExistsBijection
      <4> QED
        BY <3>2, <4>1, FS_Bijection
    <3> QED
      BY <3>1, <3>4 DEF JobsAreChildren
  <2>2. NoSlotIdle
    <3>1. DOMAIN files = {} => files = <<>>
      BY <1>1, SMTT(30) DEF IInv, QueueTypes, FilesOK
    <3> QED
      BY <1>1, <3>1 DEF IInv, IdleInv, NoSlotIdle, At, Dispatching
  <2> QED
    BY <1>1, <2>1, <2>2 DEF IInv, SlotsUsed
<1> QED
  BY <1>1, DaemonInvariant, PTL

\* A "queue" request starts at most one process, also when the daemon dies at
\* any step and is started again on the files it left: dispatch_n_jobs removes
\* the file before it starts the job.
THEOREM StartedAtMostOnceHolds == Spec => []StartedAtMostOnce
<1>1. ASSUME IInv, NEW i \in Ids PROVE Handled(i) <= reqs[i]
  <2>1. tried[i] \in Nat /\ reqs[i] \in Nat /\ Cardinality(Queued(i)) \in Nat
    BY <1>1, QueuedFiles DEF IInv, DaemonTypes
  <2>2. Handled(i) + ToWrite(i) <= reqs[i]
    BY <1>1 DEF IInv, CountInv
  <2> QED
    BY <2>1, <2>2, SMTT(30) DEF Handled, InHand, ToWrite
<1>2. IInv => StartedAtMostOnce
  BY <1>1 DEF StartedAtMostOnce
<1> QED
  BY <1>2, DaemonInvariant, PTL

\* What was answered with OK was started, failed to start or is in the queue,
\* but for the files that could not be read and one request for each death of
\* the process.  As long as no name recurs, no file is written over, and the
\* links of the ids match the files whenever the daemon waits for events, but
\* for the links of the files that could not be read (kngq_put, kngq_link_id,
\* kngq_next, dispatch_n_jobs).
THEOREM QueueFaithfulHolds == Spec => []QueueFaithful
<1>1. ASSUME IInv, NEW i \in Ids
      PROVE  acked[i] <= Handled(i) + unread[i] + overwritten[i] + crashes
  <2>1. /\ tried[i] \in Nat /\ acked[i] \in Nat /\ Cardinality(Queued(i)) \in Nat
        /\ unread[i] \in Nat /\ overwritten[i] \in Nat /\ crashes \in Nat
    BY <1>1, QueuedFiles DEF IInv, DaemonTypes, LossTypes
  <2>2. acked[i] + ToLink(i) <= Handled(i) + unread[i] + overwritten[i] + crashes
    BY <1>1 DEF IInv, AckedInv
  <2> QED
    BY <2>1, <2>2, SMTT(30) DEF Handled, InHand, ToLink
<1>2. ASSUME IInv PROVE QueueIndexed
  <2>1. ASSUME ~NamesRecur, pc = "select", NEW i \in Ids
        PROVE  /\ Queued(i) # {} => IsQueued(i)
               /\ links[i] # NoKey => links[i] \in Queued(i) \/ unread[i] > 0
    <3>1. /\ \A k \in Queued(i) : links[i] = k
          /\ links[i] # NoKey => links[i] \in Queued(i) \/ unread[i] > 0
      BY <1>2, <2>1 DEF IInv, SafeInv, LinkInv
    <3> QED
      BY <3>1 DEF IsQueued, Queued
  <2> QED
    BY <2>1 DEF QueueIndexed, At
<1>3. ASSUME IInv, NEW i \in Ids, ~NamesRecur PROVE ~(overwritten[i] > 0)
  <2>1. overwritten[i] = 0
    BY <1>3 DEF IInv, SafeInv, LossInv
  <2> QED
    BY <2>1, SMTT(30)
<1>4. IInv => QueueFaithful
  BY <1>1, <1>2, <1>3 DEF QueueFaithful, AcceptedNotLost
<1> QED
  BY <1>4, DaemonInvariant, PTL

\* As long as no name recurs, the file that kngq_next takes is the
\* oldest one of its directory, although files came and went since the
\* directory was listed (fts_oldest_first, the traversal kept in kngq->fts).
THEOREM OldestOfDirectoryHolds == Spec => OldestOfDirectory
<1>1. ASSUME IInv, Next, TakesFile, key' \in DOMAIN files, ~NamesRecur,
             NEW k \in In(Dir(key'))
      PROVE  files[key'].mtime <= files[k].mtime
  <2> USE DEF At, Goto
  <2>1. WalkFile
    <3>1. pc = "walk" /\ pc' = "read"
      BY <1>1 DEF TakesFile
    <3>2. ~QuietNext
      BY <1>1, <3>1, QuietHand DEF IInv
    <3>3. ~WalkEnd
      BY <1>1, <3>1, EndCases DEF IInv, DaemonTypes
    <3>4. ~(ModInit \/ DispatchNext \/ WalkDirs \/ ReadFile \/ UnlinkFile \/ PutWrite \/ PutLink)
      BY <3>1 DEF ModInit, DispatchNext, WalkDirs, ReadFile, UnlinkFile, PutWrite, PutLink
    <3>5. \A i \in Ids : ~ReqQueuePut(i)
      BY <3>1 DEF ReqQueuePut, ReqQueue
    <3> QED
      BY <1>1, <3>2, <3>3, <3>4, <3>5 DEF Next, Dispatch, Requests, QuietNext
  <2>2. QueueTypes /\ OrderInv /\ FtsInv /\ InHandFile = {}
    BY <1>1, <2>1 DEF IInv, SafeInv, InHandFile, WalkFile
  <2>3. Len(fts.ents) \in Nat \ {0} /\ key' = fts.ents[1]
    BY <2>1, <2>2, Taking DEF WalkFile
  <2>4. 1 \in 1..Len(fts.ents) /\ Dir(key') = fts.dir
    BY <2>2, <2>3, SMTT(30) DEF OrderInv
  <2>5. CASE k \in Ents
    <3>1. PICK m \in 1..Len(fts.ents) : k = fts.ents[m]
      BY <2>5 DEF Ents
    <3>2. files[key'].mtime \in Nat
      BY <1>1, <2>2 DEF QueueTypes, FilesOK, FileData
    <3>3. m = 1 \/ 1 < m
      BY <2>3, SMTT(30)
    <3> QED
      BY <2>2, <2>3, <2>4, <3>1, <3>2, <3>3, SMTT(30) DEF OrderInv
  <2>6. CASE k \notin Ents
    BY <2>2, <2>3, <2>4, <2>6, <1>1 DEF OrderInv
  <2> QED
    BY <2>5, <2>6
<1>2. IInv /\ [Next]_vars =>
        [TakesFile /\ key' \in DOMAIN files /\ ~NamesRecur =>
           \A k \in In(Dir(key')) : files[key'].mtime <= files[k].mtime]_vars
  BY <1>1
<1> QED
  BY <1>2, DaemonInvariant, PTL DEF Spec, OldestOfDirectory

============================================================================
