----------------------------- MODULE Generators -----------------------------
(***************************************************************************)
(* The generators of scan targets: lib/net/ip.c (address blocks), ports.c  *)
(* (port ranges), lib/util/reorder.c (a range in a fixed shuffled order),  *)
(* the shuffled iterators built on it, and lib/net/dsts.c (destinations:   *)
(* every address with every port).  Each is an iterator that gives one     *)
(* value per call, says when it is finished, and starts over.              *)
(* Integers are AddrBits wide where the code has 32 (or 128) bits; a text  *)
(* is a sequence of tokens.                                                *)
(***************************************************************************)
EXTENDS Integers, FiniteSets, FiniteSetsExt, SequencesExt

CONSTANTS AddrBits,   \* width of an address and of reorder32
          PortMax,    \* 65535
          GenInputs,  \* what to generate from: [kind, addrs, ports] records
          MaxRounds   \* iterations over the same input

ASSUME GeneratorsAssumption ==
  AddrBits \in Nat \ {0} /\ PortMax \in 0 .. 2^AddrBits - 2 /\ MaxRounds \in Nat

VARIABLES gen,      \* the iterator in use
          input,    \* the input it was made from
          seen,     \* values given in this round
          twice,    \* a value was given twice in a round
          rounds,   \* finished rounds
          full      \* {the values of the last finished round}

gvars == <<gen, input, seen, twice, rounds, full>>

Word == 2^AddrBits
MaxAddr == Word - 1
END == << >>            \* what an iterator gives at the end, and <<value>> before

(***************************************************************************)
(* reorder.c.  The generator x := 5x + 1 modulo a power of two visits each *)
(* residue; values above nitems are rejected.                              *)
(***************************************************************************)
calc_r4block_mask(nitems) == Min({m \in {2^i - 1 : i \in 0 .. AddrBits} : m >= nitems})

reorder32_init(a, b) ==
  LET first == IF b < a THEN b ELSE a
      last == IF b < a THEN a ELSE b
  IN [first |-> first, last |-> last, nitems |-> last - first, ival |-> 0,
      mask |-> calc_r4block_mask(last - first), curr |-> first]

RECURSIVE LcgStep(_, _)
LcgStep(b, x) == LET y == (x * 5 + 1) % (b.mask + 1)
                 IN IF y > b.nitems THEN LcgStep(b, y) ELSE y

\* the number of values is compared before the next one is made; the flag
\* for a wrapped ival is cleared where it is meant to be set
ReorderDone(b) == b.ival > b.nitems

reorder32_next(b) ==
  IF ReorderDone(b) THEN [g |-> reorder32_init(b.first, b.last), out |-> END]
  ELSE LET x == LcgStep(b, b.curr)
       IN [g |-> [b EXCEPT !.curr = x, !.ival = (@ + 1) % Word],
           out |-> <<(b.first + x) % Word>>]

RECURSIVE ReorderTake(_, _)
ReorderTake(b, n) ==
  IF n = 0 THEN << >>
  ELSE LET r == reorder32_next(b) IN r.out \o ReorderTake(r.g, n - 1)

(***************************************************************************)
(* ip.c.  A token is a single address, a range or a prefix, or "bad": then *)
(* the whole text fails.  A block is the addresses first..last of one      *)
(* family and zone.  IPv4 sorts before IPv6, zones do not take part in the *)
(* order.                                                                  *)
(***************************************************************************)
ip_addr_add(a, n) == (a + n) % Word

ip_block_mask(t) ==
  LET size == 2^(AddrBits - t.plen)
      first == t.a - (t.a % size)
  IN [af |-> t.af, zone |-> t.zone, first |-> first, last |-> first + size - 1]

ip_block_from_addrs(t) ==
  [af |-> t.af, zone |-> t.zone,
   first |-> IF t.a < t.b THEN t.a ELSE t.b, last |-> IF t.a < t.b THEN t.b ELSE t.a]

ip_block_from_str(t) ==
  CASE t.form = "cidr"   -> ip_block_mask(t)
    [] t.form = "range"  -> ip_block_from_addrs(t)
    [] t.form = "single" -> [af |-> t.af, zone |-> t.zone, first |-> t.a, last |-> t.a]

Before(x, y) ==
  \/ x.af = 4 /\ y.af = 6
  \/ x.af = y.af /\ x.first < y.first
  \/ x.af = y.af /\ x.first = y.first /\ x.last < y.last

\* the address after the last one wraps around at the largest address
Touches(x, y) == ip_addr_add(x.last, 1) >= y.first

SameKind(x, y) == x.af = y.af /\ (x.af = 6 => x.zone = y.zone)

compress_blocks(blks) ==
  FoldLeft(LAMBDA acc, b :
             LET curr == Last(acc)
             IN IF acc # << >> /\ SameKind(curr, b) /\ Touches(curr, b)
                THEN Front(acc) \o <<[curr EXCEPT !.last = IF b.last > @ THEN b.last ELSE @]>>
                ELSE Append(acc, b),
           << >>, blks)

IpBlocksReset(blks) == [blk |-> blks, cur |-> 1, addr |-> END]

BadBlock(t) == t.form = "bad"

ip_blocks_init(toks) ==
  IpBlocksReset(compress_blocks(SortSeq([i \in DOMAIN toks |-> ip_block_from_str(toks[i])], Before)))

Addr(b, a) == [af |-> b.af, zone |-> b.zone, a |-> a]

ip_blocks_next(bs) ==
  IF bs.cur > Len(bs.blk) THEN [g |-> IpBlocksReset(bs.blk), out |-> END]
  ELSE LET b == bs.blk[bs.cur]
           a == IF bs.addr = END THEN Addr(b, b.first) ELSE bs.addr
           n == bs.cur + 1
       IN [out |-> <<a>>,
           g |-> IF a.a < b.last THEN [bs EXCEPT !.addr = Addr(b, ip_addr_add(a.a, 1))]
                 ELSE [bs EXCEPT !.cur = n,
                                 !.addr = IF n <= Len(bs.blk)
                                          THEN Addr(bs.blk[n], bs.blk[n].first) ELSE a]]

(***************************************************************************)
(* ports.c.  A token is a port or a pair; a missing side or a number above *)
(* 65535 makes the whole text fail.  `r` is the allocated array, of which  *)
(* the first `n` entries count; it is sorted and compressed when needed.   *)
(***************************************************************************)
BadPort(t) == t.l \notin 0 .. PortMax \/ t.r \notin 0 .. PortMax

PortRange(t) == [start |-> IF t.r < t.l THEN t.r ELSE t.l, end |-> IF t.r < t.l THEN t.l ELSE t.r]

NoPorts == [r |-> << >>, n |-> 0, cur |-> 1, port |-> 0, dirty |-> FALSE]

port_ranges_from_str(toks) ==
  [NoPorts EXCEPT !.r = [i \in DOMAIN toks |-> PortRange(toks[i])],
                  !.n = Len(toks), !.dirty = toks # << >>]

rangecmp(x, y) == x.start < y.start \/ (x.start = y.start /\ x.end < y.end)

\* memmove of the entries from `next` on to `curr`: the ones at the end stay
MoveDown(r, n, curr, next) ==
  [i \in DOMAIN r |-> IF i \in curr .. curr + n - next THEN r[i + next - curr] ELSE r[i]]

RECURSIVE CompressFrom(_, _, _, _)
CompressFrom(r, n, curr, next) ==
  IF next > n THEN [r |-> r, n |-> curr]
  ELSE IF r[curr].end + 1 >= r[next].start
       THEN CompressFrom([r EXCEPT ![curr].end = IF r[next].end > @ THEN r[next].end ELSE @],
                         n, curr, next + 1)
       ELSE IF next > curr + 1
            THEN CompressFrom(MoveDown(r, n, curr + 1, next), n, curr + 1, curr + 2)
            ELSE CompressFrom(r, n, curr + 1, next + 1)

undirtify(rs) ==
  IF ~rs.dirty THEN rs
  ELSE LET sorted == SortSeq(SubSeq(rs.r, 1, rs.n), rangecmp)
           c == CompressFrom(sorted \o SubSeq(rs.r, rs.n + 1, Len(rs.r)), rs.n, 1, 2)
       IN [rs EXCEPT !.r = c.r, !.n = c.n, !.dirty = FALSE]

\* after the last port the code reads one entry past the counted ones, and
\* forgets it when the next call starts over
port_ranges_next(dirtyrs) ==
  LET rs == undirtify(dirtyrs) IN
  IF rs.cur > rs.n THEN [g |-> [rs EXCEPT !.cur = 1, !.port = 0], out |-> END]
  ELSE LET r == rs.r[rs.cur]
           p == IF rs.cur = 1 /\ rs.port = 0 THEN r.start ELSE rs.port
       IN [out |-> <<p>>,
           g |-> IF r.end > p THEN [rs EXCEPT !.port = p + 1]
                 ELSE [rs EXCEPT !.cur = @ + 1,
                                 !.port = IF rs.cur < rs.n THEN rs.r[rs.cur + 1].start ELSE 0]]

port_ranges_add_range(rs, range) ==
  [rs EXCEPT !.r = SubSeq(rs.r, 1, rs.n) \o <<range>> \o SubSeq(rs.r, rs.n + 2, Len(rs.r)),
             !.n = @ + 1, !.dirty = TRUE]

(***************************************************************************)
(* The shuffled iterators: one generator per block (or port range), taken  *)
(* in turn through a shuffled map; a finished one is marked depleted.  The *)
(* map starts after `mapindex`, which a reset leaves where it is.  IPv6    *)
(* blocks are too large for reorder32 and are walked in order.             *)
(***************************************************************************)
DEPLETED == -1

R4Gen(b) == IF b.af = 6 THEN b.first ELSE reorder32_init(b.first, b.last)

R4Map(n) == [i \in 0 .. n - 1 |-> ReorderTake(reorder32_init(0, n - 1), n)[i + 1]]

ip_r4blocks_reset(blks, mapindex) ==
  [blk |-> blks, mapindex |-> mapindex, map |-> R4Map(Len(blks)),
   gens |-> [i \in 0 .. Len(blks) - 1 |-> R4Gen(blks[i + 1])]]

ip_r4blocks_init(blks) ==
  IF blks = << >> THEN [blk |-> << >>] ELSE ip_r4blocks_reset(blks, 0)

\* port ranges are blocks of reorder32 generators
port_r4ranges_init(dirtyrs) ==
  LET rs == undirtify(dirtyrs)
  IN ip_r4blocks_init([i \in 1 .. rs.n |-> [af |-> 4, zone |-> 0, first |-> rs.r[i].start,
                                            last |-> rs.r[i].end]])

RECURSIVE NextIndex(_, _, _)
NextIndex(map, from, i) ==
  LET n == Cardinality(DOMAIN map)
      j == (i + 1) % n
  IN IF j # from /\ map[j] = DEPLETED THEN NextIndex(map, from, j) ELSE j

RECURSIVE ip_r4blocks_next(_)
ip_r4blocks_next(r4) ==
  IF r4.blk = << >> THEN [g |-> r4, out |-> END]
  ELSE
  LET i == NextIndex(r4.map, r4.mapindex, r4.mapindex)
      m == r4.map[i]
      b == r4.blk[m + 1]
      r == reorder32_next(r4.gens[m])
      a == r4.gens[m]
  IN CASE m = DEPLETED ->                       \* i = mapindex
            [g |-> ip_r4blocks_reset(r4.blk, r4.mapindex), out |-> END]
       [] m # DEPLETED /\ b.af = 4 ->
            IF r.out = END
            THEN ip_r4blocks_next([r4 EXCEPT !.mapindex = i, !.gens[m] = r.g, !.map[i] = DEPLETED])
            ELSE [g |-> [r4 EXCEPT !.mapindex = i, !.gens[m] = r.g], out |-> <<Addr(b, r.out[1])>>]
       [] m # DEPLETED /\ b.af = 6 ->
            [out |-> <<Addr(b, a)>>,
             g |-> IF a < b.last THEN [r4 EXCEPT !.mapindex = i, !.gens[m] = ip_addr_add(a, 1)]
                   ELSE [r4 EXCEPT !.mapindex = i, !.map[i] = DEPLETED]]

port_r4ranges_next(r4) ==
  LET r == ip_r4blocks_next(r4)
  IN [g |-> r.g, out |-> IF r.out = END THEN END ELSE <<r.out[1].a>>]

(***************************************************************************)
(* dsts.c.  `buf` holds the destinations added; `cur` is a copy of one of  *)
(* them, but the array of its port ranges is shared with the original: it  *)
(* is sorted in place while the count and the flag change in the copy.     *)
(***************************************************************************)
\* a destination is refused when its addresses or its ports do not parse
Refused(addrs, ports) ==
  (\E i \in DOMAIN addrs : BadBlock(addrs[i])) \/ (\E i \in DOMAIN ports : BadPort(ports[i]))

dsts_add(buf, addrs, ports, data) ==
  IF Refused(addrs, ports) THEN buf
  ELSE Append(buf, [addrs |-> ip_blocks_init(addrs), ports |-> port_ranges_from_str(ports),
                    data |-> data])

dsts_init == [buf |-> << >>, next |-> 1, started |-> FALSE,
              cur |-> [addrs |-> IpBlocksReset(<< >>), ports |-> NoPorts, data |-> 0],
              addr |-> END]

RECURSIVE dsts_next_dst(_)
dsts_next_dst(d) ==
  IF d.next > Len(d.buf) THEN [d EXCEPT !.addr = END]
  ELSE LET r == ip_blocks_next(d.buf[d.next].addrs)
           l == [d EXCEPT !.next = @ + 1, !.cur = [d.buf[d.next] EXCEPT !.addrs = r.g]]
       IN IF r.out = END THEN dsts_next_dst(l) ELSE [l EXCEPT !.addr = r.out[1]]

\* Mutant of NextAddr: the next destination instead of the next address.
NextAddrSkips(d) == dsts_next_dst(d)

\* the ports start over for the next address
NextAddr(d) ==
  LET r == ip_blocks_next(d.cur.addrs)
      l == [d EXCEPT !.cur.addrs = r.g]
  IN IF r.out = END THEN dsts_next_dst(l) ELSE [l EXCEPT !.addr = r.out[1]]

RECURSIVE NextPort(_)
NextPort(d) ==
  LET r == port_ranges_next(d.cur.ports)
      l == [d EXCEPT !.cur.ports = r.g, !.buf[d.next - 1].ports.r = r.g.r]
      n == NextAddr(l)
  IN CASE r.out # END -> [g |-> l, out |-> <<[data |-> d.cur.data, addr |-> d.addr, port |-> r.out[1]]>>]
       [] r.out = END /\ n.addr # END -> NextPort(n)
       [] r.out = END /\ n.addr = END -> [g |-> [n EXCEPT !.started = FALSE], out |-> END]

dsts_next(d) ==
  IF d.buf = << >> THEN [g |-> d, out |-> END]
  ELSE LET s == IF d.started THEN d ELSE dsts_next_dst([d EXCEPT !.next = 1])
       IN IF s.addr = END THEN [g |-> s, out |-> END]
          ELSE NextPort([s EXCEPT !.started = TRUE])

-----------------------------------------------------------------------------
Make(in) ==
  CASE in.kind = "ip"      -> ip_blocks_init(in.addrs)
    [] in.kind = "ipr4"    -> ip_r4blocks_init(ip_blocks_init(in.addrs).blk)
    [] in.kind = "ports"   -> port_ranges_from_str(in.ports)
    [] in.kind = "portsr4" -> port_r4ranges_init(port_ranges_from_str(in.ports))
    [] in.kind = "dsts"    ->
         [dsts_init EXCEPT !.buf = FoldLeft(LAMBDA buf, i : dsts_add(buf, in.dsts[i].addrs,
                                                                     in.dsts[i].ports, i),
                                            << >>, [i \in DOMAIN in.dsts |-> i])]

Call(in, g) ==
  CASE in.kind = "ip"      -> ip_blocks_next(g)
    [] in.kind = "ipr4"    -> ip_r4blocks_next(g)
    [] in.kind = "ports"   -> port_ranges_next(g)
    [] in.kind = "portsr4" -> port_r4ranges_next(g)
    [] in.kind = "dsts"    -> dsts_next(g)

GeneratorsInit ==
  /\ input \in GenInputs
  /\ gen = Make(input)
  /\ seen = {} /\ full = {}
  /\ twice = FALSE
  /\ rounds = 0

\* one call of the iterator
Generate ==
  LET r == Call(input, gen) IN
  /\ rounds < MaxRounds
  /\ gen' = r.g
  /\ IF r.out = END
     THEN rounds' = rounds + 1 /\ full' = {seen} /\ seen' = {} /\ twice' = twice
     ELSE /\ seen' = seen \cup {r.out[1]}
          /\ twice' = (twice \/ r.out[1] \in seen)
          /\ UNCHANGED <<rounds, full>>
  /\ UNCHANGED input

\* between rounds: more ports
AddPorts(t) ==
  /\ input.kind = "ports" /\ rounds = 1 /\ seen = {} /\ Len(input.ports) < 3
  /\ gen' = port_ranges_add_range(gen, PortRange(t))
  /\ input' = [input EXCEPT !.ports = Append(@, t)]
  /\ full' = {}
  /\ UNCHANGED <<seen, twice, rounds>>

GeneratorsNext ==
  \/ Generate
  \/ \E l, r \in 0 .. PortMax : AddPorts([l |-> l, r |-> r])

-----------------------------------------------------------------------------
(***************************************************************************)
(* What a text means.                                                      *)
(***************************************************************************)
TokenAddrs(t) ==
  LET size == 2^(AddrBits - t.plen)
      in(a) == CASE t.form = "cidr"   -> a \div size = t.a \div size
                 [] t.form = "range"  -> a \in t.a .. t.b \cup t.b .. t.a
                 [] t.form = "single" -> a = t.a
  IN {[af |-> t.af, zone |-> t.zone, a |-> a] : a \in {x \in 0 .. MaxAddr : in(x)}}

AddrsOf(toks) == UNION {TokenAddrs(toks[i]) : i \in DOMAIN toks}
PortsOf(toks) == UNION {toks[i].l .. toks[i].r \cup toks[i].r .. toks[i].l : i \in DOMAIN toks}

Meaning(in) ==
  CASE in.kind \in {"ip", "ipr4"}       -> AddrsOf(in.addrs)
    [] in.kind \in {"ports", "portsr4"} -> PortsOf(in.ports)
    [] in.kind = "dsts" ->
         UNION {{[data |-> i, addr |-> a, port |-> p] :
                   a \in AddrsOf(in.dsts[i].addrs), p \in PortsOf(in.dsts[i].ports)} :
                i \in {j \in DOMAIN in.dsts : ~Refused(in.dsts[j].addrs, in.dsts[j].ports)}}

(***************************************************************************)
(* The inputs of which the code may give a value twice: a block that ends  *)
(* at the largest address and one that sorts after it are not merged (the  *)
(* address after the largest is 0); blocks of one zone are not merged when *)
(* a block of another zone sorts between them; and a shuffled range of all *)
(* addresses never ends, since the wrap-around of `ival` is not recorded.  *)
(***************************************************************************)
Blocks(toks) == [i \in DOMAIN toks |-> ip_block_from_str(toks[i])]

WrapsAround(toks) ==
  \E i, j \in DOMAIN toks :
    LET x == Blocks(toks)[i]
        y == Blocks(toks)[j]
    IN i # j /\ SameKind(x, y) /\ x.last = MaxAddr /\ x.first <= y.first

MixesZones(toks) == \E i, j \in DOMAIN toks : toks[i].af = 6 /\ toks[j].af = 6
                                              /\ toks[i].zone # toks[j].zone

EndlessReorder(in) ==
  in.kind = "ipr4" /\ \E b \in Range(compress_blocks(SortSeq(Blocks(in.addrs), Before))) :
                        b.af = 4 /\ b.first = 0 /\ b.last = MaxAddr

Repeats(toks) == ~(\E i \in DOMAIN toks : BadBlock(toks[i])) /\ (WrapsAround(toks) \/ MixesZones(toks))

MayGiveTwice(in) ==
  \/ EndlessReorder(in)
  \/ in.kind \in {"ip", "ipr4"} /\ Repeats(in.addrs)
  \/ in.kind = "dsts" /\ \E i \in DOMAIN in.dsts : Repeats(in.dsts[i].addrs)

(***************************************************************************)
(* An iteration gives every value of its text and nothing else before it   *)
(* ends, in the first round and in the next, and none twice but for the    *)
(* inputs above: overlapping and adjacent blocks and ranges are merged,    *)
(* the last value of a block does not wrap, the shuffled order leaves      *)
(* nothing out, and the port array that all copies of a destination share  *)
(* may be sorted between two rounds.                                       *)
(***************************************************************************)
GeneratesEachOnce ==
  /\ seen \subseteq Meaning(input)
  /\ \A values \in full : values = Meaning(input)
  /\ ~MayGiveTwice(input) => ~twice
=============================================================================
