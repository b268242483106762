------------------------------- MODULE Tables -------------------------------
(***************************************************************************)
(* The three open-addressing tables of lib/util: idtbl.c (integer keys),   *)
(* objtbl.c (objects compared by a function) and deduptbl.c (a set of IDs  *)
(* in a mapped file, used by `deduptbl lines`).  All use linear probing    *)
(* where an entry keeps its distance from its home slot and an insertion   *)
(* takes the slot of an entry that is nearer to its home ("Robin Hood").   *)
(* Hash values are given by a function from a small set, so that every way *)
(* of colliding and wrapping around can be chosen.                         *)
(***************************************************************************)
EXTENDS Integers, FiniteSets, FiniteSetsExt, SequencesExt

CONSTANTS MaxKey,    \* UINT32_MAX: the largest integer key
          Hashes,    \* hash functions: internal keys -> hash values
          NSlots,    \* slots asked for at initialization
          MaxCap,    \* tables do not grow beyond this capacity
          Values,    \* what an entry of idtbl may hold
          MinCap,    \* the smallest capacity of a deduptbl, 32 in the code
          MaxEntries,\* max_entries of a deduptbl
          MaxCrashes

ASSUME TablesAssumption ==
  /\ {MaxKey, NSlots, MaxCap, MinCap, MaxEntries, MaxCrashes} \subseteq Nat
  /\ \A h \in Hashes : h \in [1 .. MaxKey -> Nat]

VARIABLES kind,      \* which table is in use: id, obj, sorted, dedup
          tbl,       \* the table
          hash,      \* its hash function (a new seed is a new function)
          ref,       \* what it should hold: a map (id, obj) or a set (dedup)
          ins,       \* an unfinished deduptbl_update
          crashes    \* times the process that updates the file was killed

tvars == <<kind, tbl, hash, ref, ins, crashes>>

(***************************************************************************)
(* Layout.  Key 0 denotes an empty slot; keys are stored plus one.         *)
(***************************************************************************)
Empty == [key |-> 0, dist |-> 0, val |-> 0]

round_up_pow2(v) == Min({p \in {2^i : i \in 0 .. 30} : p >= v})

RehashLimit(cap) == cap - cap \div 6

init_table(nslots) ==
  LET cap == round_up_pow2(nslots)
  IN [cap |-> cap, size |-> 0, ent |-> [i \in 0 .. cap - 1 |-> Empty]]

\* the same in deduptbl.c, where the file also holds the limit
deduptbl_create ==
  init_table(IF MaxEntries + MaxEntries \div 6 > MinCap
             THEN MaxEntries + MaxEntries \div 6 ELSE MinCap)

Next1(t, pos) == (pos + 1) % t.cap

(***************************************************************************)
(* Lookup: the position of a key, or -1.  idtbl and deduptbl compare the   *)
(* key before they look at the distance, objtbl after.                     *)
(***************************************************************************)
RECURSIVE IdProbe(_, _, _, _)
IdProbe(t, key, pos, dist) ==
  CASE dist = t.cap -> -1
    [] t.ent[pos].key = key -> pos
    [] t.ent[pos].key = 0 \/ t.ent[pos].dist < dist -> -1
    [] OTHER -> IdProbe(t, key, Next1(t, pos), dist + 1)

RECURSIVE ObjProbe(_, _, _, _)
ObjProbe(t, key, pos, dist) ==
  CASE dist = t.cap -> -1
    [] t.ent[pos].key = 0 \/ t.ent[pos].dist < dist -> -1
    [] t.ent[pos].key = key -> pos
    [] OTHER -> ObjProbe(t, key, Next1(t, pos), dist + 1)

IdFind(t, h, key) == IdProbe(t, key, h[key] % t.cap, 0)
ObjFind(t, h, key) == ObjProbe(t, key, h[key] % t.cap, 0)
deduptbl_contains(t, h, key) == IdProbe(t, key, h[key] % t.cap, 0) # -1

(***************************************************************************)
(* Removal moves the following entries one slot back, up to an empty slot  *)
(* or an entry that is at home.                                            *)
(***************************************************************************)
\* Mutant of Shifts: an entry one slot from home is left where it is.
ShiftsFar(t, curr) == t.ent[Next1(t, curr)].key # 0 /\ t.ent[Next1(t, curr)].dist > 1

Shifts(t, curr) == t.ent[Next1(t, curr)].key # 0 /\ t.ent[Next1(t, curr)].dist > 0

Moved(e) == [e EXCEPT !.dist = @ - 1]

RECURSIVE ShiftBack(_, _)
ShiftBack(t, curr) ==
  IF Shifts(t, curr)
  THEN ShiftBack([t EXCEPT !.ent[curr] = Moved(t.ent[Next1(t, curr)])], Next1(t, curr))
  ELSE [t EXCEPT !.ent[curr] = Empty, !.size = @ - 1]

IdRemove(t, h, key) ==
  LET pos == IdFind(t, h, key) IN IF pos = -1 THEN t ELSE ShiftBack(t, pos)

ObjRemove(t, h, key) ==
  LET pos == ObjFind(t, h, key) IN IF pos = -1 THEN t ELSE ShiftBack(t, pos)

(***************************************************************************)
(* Insertion: `elem` travels from its home slot; an empty slot or the same *)
(* key takes it, an entry nearer to its home changes places with it.       *)
(***************************************************************************)
RECURSIVE Place(_, _, _, _, _)
Place(t, key, elem, pos, n) ==
  LET curr == t.ent[pos]
      swap == curr.dist < elem.dist
  IN CASE n = t.cap -> t                                    \* ENOSLOT
       [] curr.key = 0 -> [t EXCEPT !.ent[pos] = elem, !.size = @ + 1]
       [] curr.key = key -> [t EXCEPT !.ent[pos] = elem]
       [] OTHER -> Place(IF swap THEN [t EXCEPT !.ent[pos] = elem] ELSE t, key,
                         [(IF swap THEN curr ELSE elem) EXCEPT !.dist = @ + 1],
                         Next1(t, pos), n + 1)

PlaceNew(t, h, key, val) ==
  IF t.size >= t.cap THEN t                                 \* EFULL
  ELSE Place(t, key, [key |-> key, dist |-> 0, val |-> val], h[key] % t.cap, 0)

\* set_table_value of idtbl refuses UINT32_MAX, whose internal form is 0
IdSet(t, h, key, val) == IF key = 0 THEN t ELSE PlaceNew(t, h, key, val)
ObjSet(t, h, key, val) == PlaceNew(t, h, key, val)

RECURSIVE Rehash(_, _, _, _)
Rehash(old, h, i, new) ==
  CASE i = old.cap -> new
    [] old.ent[i].key = 0 -> Rehash(old, h, i + 1, new)
    [] OTHER -> Rehash(old, h, i + 1, PlaceNew(new, h, old.ent[i].key, old.ent[i].val))

IdGrow(t, h) == Rehash(t, h, 0, init_table(2 * t.cap))
ObjGrow(t, h) == Rehash(t, h, 0, init_table(2 * t.cap))
MustGrow(t) == t.size >= RehashLimit(t.cap)

(***************************************************************************)
(* objtbl_foreach visits as many entries as the table has, in slot order;  *)
(* objtbl_sort orders the slots (the entries' distances become useless),   *)
(* the empty ones last.  Objects are compared by their keys here.          *)
(***************************************************************************)
Foreach(t) ==
  LET slots == [i \in 1 .. t.cap |-> t.ent[i - 1]]
      full == SelectSeq(slots, LAMBDA e : e.key # 0)
  IN SubSeq(full, 1, IF Len(full) < t.size THEN Len(full) ELSE t.size)

Keycmp(a, b) == a.key # 0 /\ (b.key = 0 \/ a.key > b.key)

Sort(t) ==
  LET s == SortSeq([i \in 1 .. t.cap |-> t.ent[i - 1]], Keycmp)
  IN [t EXCEPT !.ent = [i \in 0 .. t.cap - 1 |-> s[i + 1]]]

-----------------------------------------------------------------------------
NotInserting == [busy |-> FALSE, id |-> 0, elem |-> Empty, pos |-> 0, n |-> 0, counted |-> FALSE]

TablesInit ==
  /\ hash \in Hashes
  /\ ins = NotInserting
  /\ crashes = 0
  /\ \/ kind \in {"id", "obj"} /\ tbl = init_table(NSlots + NSlots \div 6) /\ ref = << >>
     \/ kind = "dedup" /\ tbl = deduptbl_create /\ ref = {}

With(f, k, v) == [x \in DOMAIN f \cup {k} |-> IF x = k THEN v ELSE f[x]]
Without(f, k) == [x \in DOMAIN f \ {k} |-> f[x]]

\* idtbl_insert: a table at its limit is rehashed with another seed
IdInsert(k, v) ==
  LET key == (k + 1) % (MaxKey + 1)
  IN /\ kind = "id"
     /\ MustGrow(tbl) => tbl.cap < MaxCap
     /\ IF MustGrow(tbl) THEN hash' \in Hashes ELSE hash' = hash
     /\ tbl' = IdSet(IF MustGrow(tbl) THEN IdGrow(tbl, hash') ELSE tbl, hash', key, v)
     /\ ref' = IF key = 0 THEN ref ELSE With(ref, key, v)
     /\ UNCHANGED <<kind, ins, crashes>>

IdDelete(k) ==
  /\ kind = "id"
  /\ tbl' = IdRemove(tbl, hash, k + 1)
  /\ ref' = Without(ref, k + 1)
  /\ UNCHANGED <<kind, hash, ins, crashes>>

ObjInsert(k, v) ==
  /\ kind = "obj"
  /\ MustGrow(tbl) => tbl.cap < MaxCap
  /\ tbl' = ObjSet(IF MustGrow(tbl) THEN ObjGrow(tbl, hash) ELSE tbl, hash, k + 1, v)
  /\ ref' = With(ref, k + 1, v)
  /\ UNCHANGED <<kind, hash, ins, crashes>>

ObjDelete(k) ==
  /\ kind = "obj"
  /\ tbl' = ObjRemove(tbl, hash, k + 1)
  /\ ref' = Without(ref, k + 1)
  /\ UNCHANGED <<kind, hash, ins, crashes>>

\* after this the code only calls objtbl_foreach and objtbl_val
ObjSort ==
  /\ kind = "obj"
  /\ kind' = "sorted"
  /\ tbl' = Sort(tbl)
  /\ UNCHANGED <<hash, ref, ins, crashes>>

(***************************************************************************)
(* deduptbl_update, one step per store to the mapped file.  A process that *)
(* is killed between two of them leaves the file as it is; the next one    *)
(* loads it.  The copy of one entry is taken to be one store.              *)
(***************************************************************************)
DedupStart(id) ==
  /\ kind = "dedup" /\ ~ins.busy
  /\ tbl.size < MaxEntries
  /\ ins' = [NotInserting EXCEPT !.busy = TRUE, !.id = id, !.pos = hash[id] % tbl.cap,
                                 !.elem = [key |-> id, dist |-> 0, val |-> 0]]
  /\ UNCHANGED <<kind, tbl, hash, ref, crashes>>

DedupTravel(elem) ==
  ins' = [ins EXCEPT !.elem = [elem EXCEPT !.dist = @ + 1],
                     !.pos = Next1(tbl, ins.pos), !.n = @ + 1]

DedupStep ==
  LET curr == tbl.ent[ins.pos] IN
  /\ kind = "dedup" /\ ins.busy /\ ins.n < tbl.cap
  /\ \/ /\ curr.key = 0 /\ ~ins.counted                 \* nused++
        /\ tbl' = [tbl EXCEPT !.size = @ + 1]
        /\ ins' = [ins EXCEPT !.counted = TRUE]
        /\ ref' = ref
     \/ /\ curr.key = 0 /\ ins.counted                  \* *curr = elem
        /\ tbl' = [tbl EXCEPT !.ent[ins.pos] = ins.elem]
        /\ ins' = NotInserting
        /\ ref' = ref \cup {ins.id}
     \/ /\ curr.key # 0 /\ curr.key = ins.id            \* EEXIST
        /\ ins' = NotInserting
        /\ UNCHANGED <<tbl, ref>>
     \/ /\ curr.key \notin {0, ins.id}
        /\ IF curr.dist < ins.elem.dist
           THEN tbl' = [tbl EXCEPT !.ent[ins.pos] = ins.elem] /\ DedupTravel(curr)
           ELSE tbl' = tbl /\ DedupTravel(ins.elem)
        /\ ref' = ref
  /\ UNCHANGED <<kind, hash, crashes>>

DedupCrash ==
  /\ kind = "dedup" /\ ins.busy /\ crashes < MaxCrashes
  /\ crashes' = crashes + 1
  /\ ins' = NotInserting
  /\ UNCHANGED <<kind, tbl, hash, ref>>

TablesNext ==
  \/ \E k \in 0 .. MaxKey, v \in Values : IdInsert(k, v)
  \/ \E k \in 0 .. MaxKey - 1, v \in Values : ObjInsert(k, v)
  \/ \E k \in 0 .. MaxKey - 1 : IdDelete(k) \/ ObjDelete(k)
  \/ ObjSort
  \/ \E id \in 1 .. MaxKey : DedupStart(id)
  \/ DedupStep
  \/ DedupCrash

-----------------------------------------------------------------------------
Stored == {tbl.ent[i].key : i \in 0 .. tbl.cap - 1} \ {0}

(***************************************************************************)
(* idtbl and objtbl are maps: after any sequence of insertions, overwrites,*)
(* removals and rehashings a key is found exactly if it is in the map, with*)
(* the value stored last, and the size is the number of keys.  Distances   *)
(* cut a lookup short, so one entry left too far from, or at a wrong       *)
(* distance from its home makes a key disappear that is in the table.      *)
(* After objtbl_sort, objtbl_foreach gives every object once, in order.    *)
(***************************************************************************)
TablesAreMaps ==
  /\ kind \in {"id", "obj"} =>
       \A key \in 1 .. MaxKey :
         LET pos == IF kind = "id" THEN IdFind(tbl, hash, key) ELSE ObjFind(tbl, hash, key)
         IN IF key \in DOMAIN ref THEN pos # -1 /\ tbl.ent[pos].val = ref[key]
                                  ELSE pos = -1
  /\ kind # "dedup" => tbl.size = Cardinality(DOMAIN ref)
  /\ kind = "sorted" =>
       LET s == Foreach(tbl)
       IN /\ {s[i].key : i \in DOMAIN s} = DOMAIN ref
          /\ \A i, j \in DOMAIN s : i < j => s[i].key > s[j].key

(***************************************************************************)
(* The ID file of deduptbl: between updates every ID in the file is found, *)
(* the file never holds more entries than it counts, so an update always   *)
(* meets an empty slot, and each killed process has cost at most one ID    *)
(* that had been recorded (its line would be output again).  A kill        *)
(* between the two stores of an exchange leaves the displaced entry only   *)
(* in the dead process.                                                    *)
(***************************************************************************)
DedupForgetsLittle ==
  kind = "dedup" =>
    /\ ~ins.busy => \A id \in 1 .. MaxKey :
                      deduptbl_contains(tbl, hash, id) <=> id \in Stored
    /\ Cardinality(Stored) <= tbl.size /\ tbl.size <= MaxEntries
    /\ ins.n < tbl.cap
    /\ ~ins.busy => Cardinality(ref \ Stored) <= crashes

(***************************************************************************)
(* The three hash tables hold what was put into them: idtbl and objtbl     *)
(* exactly, deduptbl all but one ID for each process killed.               *)
(***************************************************************************)
TablesExact == TablesAreMaps /\ DedupForgetsLittle
=============================================================================
