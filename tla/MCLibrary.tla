----------------------------- MODULE MCLibrary -----------------------------
(***************************************************************************)
(* The single-threaded algorithms, checked against what they should give:  *)
(* the hash tables, the address and port generators, the collate programs, *)
(* the vulnerability compiler, webfetch's transfers, the input readers.    *)
(* They share no state; a behaviour exercises one `part`, and the others   *)
(* stay as they start.                                                     *)
(***************************************************************************)
EXTENDS Tables, Generators, Collate, Vulnspec, Webfetch, Readers

VARIABLE part

\* ---- tables: all keys collide; distinct homes; two clusters side by side
MCHashes == {[k \in 1 .. 5 |-> 7], [k \in 1 .. 5 |-> (3 * k) \div 2],
             [k \in 1 .. 5 |-> IF k < 3 THEN 2 ELSE 3]}

\* ---- generators
A(f, af, z, a, b, p) == [form |-> f, af |-> af, zone |-> z, a |-> a, b |-> b, plen |-> p]
V4 == {A("single", 4, 0, a, 0, 0) : a \in {0, 3, 7}}
      \cup {A("range", 4, 0, 2, 5, 0), A("range", 4, 0, 6, 4, 0),
            A("cidr", 4, 0, 5, 0, 1), A("cidr", 4, 0, 1, 0, 0)}
V6 == {A("single", 6, 0, 3, 0, 0), A("range", 6, 0, 2, 4, 0), A("cidr", 6, 0, 6, 0, 2),
       A("single", 6, 1, 3, 0, 0)}
Seqs(S, n) == UNION {[1 .. k -> S] : k \in 0 .. n}
P(l, r) == [l |-> l, r |-> r]
MCPorts == {P(0, 0), P(1, 3), P(5, 2), P(3, 3), P(5, 5), P(0, 1)}
MCDsts ==
  {[addrs |-> a, ports |-> p] :
     a \in {<< >>, <<A("range", 4, 0, 2, 4, 0), A("single", 4, 0, 4, 0, 0)>>,
            <<A("single", 6, 0, 7, 0, 0)>>, <<A("single", 4, 0, 1, 0, 0), A("bad", 4, 0, 0, 0, 0)>>},
     p \in {<< >>, <<P(5, 4), P(0, 0), P(4, 4)>>, <<P(3, 3)>>, <<P(3, 9)>>}}
MCInputs ==
  {[kind |-> k, addrs |-> s] : k \in {"ip", "ipr4"}, s \in Seqs(V4 \cup V6, 2) \cup [1 .. 3 -> V4]}
  \cup {[kind |-> k, ports |-> s] : k \in {"ports", "portsr4"}, s \in Seqs(MCPorts, 3)}
  \cup {[kind |-> "dsts", dsts |-> d] : d \in Seqs(MCDsts, 2)}

\* ---- collate
B(name, addr, f, m, chain, comps) ==
  [name |-> name, addr |-> addr, fpid |-> f, mpid |-> m, chain |-> chain, comps |-> comps]
MCBanners ==
  {B("h", "a", 1, 0, "x", << <<"ssh", NULL>> >>),
   B("h", "a", 2, 0, "y", << >>),
   B("h", "a", 1, 2, "x", << <<"web", "1">>, <<"ssh", NULL>> >>),
   B("h", "a", 1, 2, "y", << >>),
   B("h", "a", 1, 3, "bad", << <<"web", "1">> >>),
   B("h", "a", 1, 4, NoChain, << <<"web", "2">> >>),
   B(NULL, "a", 1, 2, "y", << <<"web", "1">> >>),
   B("h", "b", 2, 0, "x", << <<"ssh", NULL>>, <<"ssh", "">> >>),
   B("h", BadAddr, 1, 1, "x", << <<"web", "1">> >>), Unparsed}
MCFiles == Seqs(MCBanners, 3)
MCCves == {<<"web", "1", "c1">>, <<"web", "1", "c2">>, <<"ssh", "", "c3">>}

\* ---- vulnspec: names NA and NB, versions that the two comparisons order differently
Cmp(k, n, v) == [k |-> k, vendprod |-> n, version |-> v]
Op(k, args) == [k |-> k, args |-> args]
Cv(id, desc, e) == [id |-> id, desc |-> desc, expr |-> e]
NA == <<20>>
NB == <<21>>
V1 == <<1>>
V1a == <<1, 10>>
V10 == <<1, Dot, 0>>
V12 == <<1, Dot, 2>>
E1 == {Cmp("<", NA, V12), Cmp("=", NB, V1), Cmp(">", NA, V1)}
E2 == {Op("nalpha", <<e>>) : e \in E1}
E3 == {Op(k, <<a, b>>) : k \in {"^", "v"}, a \in E1 \cup E2, b \in E1 \cup E2}
E4 == {Op("nalpha", <<Op("^", <<Cmp(">", NA, V1),
                                Op("v", <<Cmp("<", NA, <<1, 11>>), Cmp("=", NB, V10)>>)>>)>>),
       Op("v", <<Op("^", <<Cmp(">=", NA, V1), Cmp("<", NA, <<2>>), Cmp("=", NA, V12)>>),
                 Op("nalpha", <<Cmp("=", NB, V1a)>>), Cmp("<=", NB, V1)>>)}
MCSpecs ==
  {<< >>} \cup {<<Cv(<<30>>, <<31>>, e)>> : e \in E2 \cup E3 \cup E4}
  \cup {<<Cv(<<30>>, V1, d), Cv(<<31>>, <<30>>, e)>> : d \in E1 \cup E4, e \in E1 \cup E4}
MCVendProds == {<< >>, NA, NB}
MCVersions == {<< >>, V1, V1a, V10, V12, <<1, Dot, Dot, 2>>, <<1, 0>>}

\* ---- webfetch: empty lines at every place, at and beyond the limit; bad messages
Rq(r) == [kind |-> "request", response |-> r]
NoRq(kd) == [kind |-> kd, response |-> << >>]
W1 == Rq(<<"a", "c", "l", "c", "l", "b">>)
W2 == Rq(<<"c", "l", "c", "l", "a">>)
W3 == Rq(<<"a", "b", "c", "l", "c", "l", "c", "l", "c", "l">>)
W4 == Rq(<< >>)
W5 == Rq(<<"a", "c", "l", "b">>)
MCRequests ==
  {<< >>, <<W1, W2, W3, W5>>, <<W3, W3, NoRq("nourl"), W1>>, <<NoRq("bad"), W2>>,
   <<W5, NoRq("bad"), W4, NoRq("nourl"), W5>>, <<W4, W5, W4>>}

\* ---- readers: fields of all special characters; lines that fit into a chunk
Fields == Seqs({"a", "q", ",", "cr", "lf"}, 2)
Small == Seqs({"a", "q", "lf"}, 1)
MCCsv == {<<r>> : r \in [1 .. 2 -> Fields] \cup [1 .. 3 -> Small]} \cup [1 .. 2 -> [1 .. 2 -> Small]]
Fits(s) == \A i \in 1 .. Len(s) - 4 : \E j \in i .. i + 4 : s[j] = "lf"
MCLines == {s \in Seqs({"a", "lf"}, 10) : Fits(s)}
Scgi(h, b, l, a) ==
  [size |-> <<100 + Len(h)>>, header |-> h, end |-> Comma, body |-> b, length |-> l, answer |-> a]
Post == <<2, 0, 20, 0, 3, 0, 30, 0>>
Framed(size, end, a) ==
  [size |-> size, header |-> Post, end |-> end, body |-> <<7>>, length |-> 0, answer |-> a]
MCScgi ==
  {Scgi(<<1, 0, 13, 0>> \o Post, <<7, 8, 9>>, 3, "served"),
   Scgi(<<4, 0, 0, 1, 0, 12, 0>> \o Post, <<7, 8, 9>>, 2, "served"),
   Scgi(Post \o <<1, 0, 14, 0>>, <<7, 8>>, 4, "served"),
   Scgi(<<1, 0, 0>> \o Post, << >>, 0, "served"),
   Scgi(Post \o <<0, 0>>, << >>, 0, "served"),
   Scgi(Post \o <<1, 0>>, << >>, 0, "parse_error"),
   Scgi(<<2, 0, 21, 0, 3, 0, 30, 0>>, <<7>>, 0, "notfound"),
   Scgi(<< >>, <<7>>, 0, "notfound"),
   [Scgi(<< >>, <<7>>, 0, "notfound") EXCEPT !.size = <<Space>>],
   Framed(<<Space, Space, 108>>, Comma, "served"),
   Framed(<<108>>, 7, "parse_error"),
   Framed(<<107>>, Comma, "parse_error"),
   Framed(<<99>>, Comma, "parse_error"),
   Framed(<< >>, Comma, "parse_error")}

IdleTables == kind = "id" /\ hash = [k \in 1 .. 5 |-> 7] /\ TablesInit
IdleGenerators == input = [kind |-> "ip", addrs |-> << >>] /\ GeneratorsInit
IdleCollate == file = << >> /\ CollateInit
IdleVulnspec == vspec = << >> /\ vstage = "none" /\ VulnspecInit
IdleWebfetch == wmsgs = << >> /\ WebfetchInit
IdleReaders == rkind = "lines" /\ rin = << >> /\ ReadersInit

Init ==
  \/ /\ part = "tables" /\ IdleGenerators /\ IdleCollate /\ IdleVulnspec /\ IdleWebfetch /\ IdleReaders
     /\ TablesInit
  \/ /\ part = "generators" /\ IdleTables /\ IdleCollate /\ IdleVulnspec /\ IdleWebfetch /\ IdleReaders
     /\ GeneratorsInit
  \/ /\ part = "collate" /\ IdleTables /\ IdleGenerators /\ IdleVulnspec /\ IdleWebfetch /\ IdleReaders
     /\ CollateInit
  \/ /\ part = "vulnspec" /\ IdleTables /\ IdleGenerators /\ IdleCollate /\ IdleWebfetch /\ IdleReaders
     /\ VulnspecInit
  \/ /\ part = "webfetch" /\ IdleTables /\ IdleGenerators /\ IdleCollate /\ IdleVulnspec /\ IdleReaders
     /\ WebfetchInit
  \/ /\ part = "readers" /\ IdleTables /\ IdleGenerators /\ IdleCollate /\ IdleVulnspec /\ IdleWebfetch
     /\ ReadersInit

Next ==
  \/ part = "tables" /\ TablesNext /\ UNCHANGED <<part, gvars, cvars, vvars, wvars, rvars>>
  \/ part = "generators" /\ GeneratorsNext /\ UNCHANGED <<part, tvars, cvars, vvars, wvars, rvars>>
  \/ part = "collate" /\ CollateNext /\ UNCHANGED <<part, tvars, gvars, vvars, wvars, rvars>>
  \/ part = "vulnspec" /\ VulnspecNext /\ UNCHANGED <<part, tvars, gvars, cvars, wvars, rvars>>
  \/ part = "webfetch" /\ WebfetchNext /\ UNCHANGED <<part, tvars, gvars, cvars, vvars, rvars>>
  \/ part = "readers" /\ ReadersNext /\ UNCHANGED <<part, tvars, gvars, cvars, vvars, wvars>>

Spec == Init /\ [][Next]_<<part, tvars, gvars, cvars, vvars, wvars, rvars>>
=============================================================================
