------------------------------ MODULE Vulnspec ------------------------------
(***************************************************************************)
(* Vulnerability specifications (lib/vulnspec, apps/vulngen): a source of  *)
(* s-expressions, one `cve` each, is compiled into nodes that refer to     *)
(* each other by offset; `scan collate` maps the file, validates it and    *)
(* evaluates it for one component after the other.  Versions are compared  *)
(* field by field, as numbers (vaguever) or as numbers with a suffix       *)
(* (nalphaver).                                                            *)
(* A string is a sequence of codes: 0 .. 9 digits, Dot, letters above 9.   *)
(* An allocation takes two cells of the program, the second one standing   *)
(* for the rest of a node or for a string's terminator.                    *)
(***************************************************************************)
EXTENDS Integers, FiniteSets, FiniteSetsExt, SequencesExt

CONSTANTS VulnSpecs,   \* sequences of CVEs: [id, expr]
          VendProds,   \* vendor/product names of components
          Versions     \* versions of components

Dot == -1
Nul == -2
NFields == 4           \* VAGUEVER_NFIELDS
IntMax == 2147483647
HeaderSize == 1        \* VULNSPEC_HEADER_SIZE, in cells
Header == [k |-> "VM0"]
Rest == [k |-> "rest"]
End == [k |-> "nul"]
Comparisons == {"<", "<=", "=", ">=", ">"}
Connectives == {"^", "v"}

VARIABLES vspec,       \* the specification
          vsrc,        \* tokens of the source vulngen reads
          vfile,       \* the compiled file
          vinterp,     \* the interpreter
          vmatches,    \* CVEs reported by the last evaluation
          vstage

vvars == <<vspec, vsrc, vfile, vinterp, vmatches, vstage>>

(***************************************************************************)
(* Versions.                                                               *)
(***************************************************************************)
Sign(n) == IF n < 0 THEN -1 ELSE IF n > 0 THEN 1 ELSE 0

\* ends at the first character that is neither a digit nor a dot, or when full
vaguever_init(s) ==
  LET Char(a, ch) ==
        IF a.done THEN a
        ELSE IF ch \in 0 .. 9 THEN [a EXCEPT !.val = 10 * a.val + ch, !.hasval = TRUE]
        ELSE LET fields == IF a.hasval THEN Append(a.fields, a.val) ELSE a.fields
             IN [fields |-> fields, val |-> 0, hasval |-> FALSE,
                 done |-> ch # Dot \/ Len(fields) >= NFields]
      f == FoldLeft(Char, [fields |-> << >>, val |-> 0, hasval |-> FALSE, done |-> FALSE],
                    Append(s, Nul)).fields
  IN [i \in 1 .. NFields |-> IF i <= Len(f) THEN f[i] ELSE 0]

vaguever_cmp(f, g) ==
  LET differ == {i \in 1 .. NFields : f[i] # g[i]}
  IN IF differ = {} THEN 0 ELSE Sign(f[Min(differ)] - g[Min(differ)])

\* the field at the head of s, and the string behind it and its dots
NalphaNext(s) ==
  LET digits == Max({n \in 0 .. Len(s) : \A i \in 1 .. n : s[i] \in 0 .. 9})
      suffix == Max({n \in digits .. Len(s) : \A i \in digits + 1 .. n : s[i] # Dot})
      next == Max({n \in suffix .. Len(s) : \A i \in suffix + 1 .. n : s[i] = Dot})
      number == FoldLeft(LAMBDA a, d : 10 * a + d, 0, SubSeq(s, 1, digits))
  IN [val |-> Min({number, IntMax}), suffix |-> SubSeq(s, digits + 1, suffix),
      pos |-> SubSeq(s, next + 1, Len(s))]

NalphaCmp(l, r) ==
  LET len == Min({Len(l.suffix), Len(r.suffix)})
      differ == {i \in 1 .. len : l.suffix[i] # r.suffix[i]}
  IN IF l.val # r.val THEN Sign(l.val - r.val)
     ELSE IF differ # {} THEN Sign(l.suffix[Min(differ)] - r.suffix[Min(differ)])
     ELSE Sign(Len(l.suffix) - Len(r.suffix))

RECURSIVE nalphaver_cmp(_, _)
NalphaFields(l, r, c) == IF c # 0 THEN c ELSE nalphaver_cmp(l.pos, r.pos)
NalphaPair(l, r) == NalphaFields(l, r, NalphaCmp(l, r))
nalphaver_cmp(s1, s2) ==
  IF s1 = << >> /\ s2 = << >> THEN 0 ELSE NalphaPair(NalphaNext(s1), NalphaNext(s2))

(***************************************************************************)
(* The parser p: tokens `in`, the next one `i`, the program `mem`, the     *)
(* strings allocated so far, the kind of versions, the offset last made    *)
(* and whether it has bailed out.                                          *)
(***************************************************************************)
Bail(p) == [p EXCEPT !.err = TRUE]
Token(p) == IF p.i <= Len(p.in) THEN p.in[p.i] ELSE [t |-> "eof"]
Advance(p) == [p EXCEPT !.i = @ + 1]
expect(p, t) == IF p.err \/ Token(p).t # t THEN Bail(p) ELSE Advance(p)
String(p) == p.in[p.i - 1].s          \* the string `expect` has read

\* the new cells start where the program ended
progn_alloc(p, cells) == [p EXCEPT !.mem = @ \o cells, !.val = Len(p.mem)]
AllocNode(p) == progn_alloc(p, <<Rest, Rest>>)
Put(p, at, node) == IF p.err THEN p ELSE [p EXCEPT !.mem[at + 1] = node, !.val = at]
Link(p, prev, at) == IF p.err \/ prev = 0 THEN p ELSE [p EXCEPT !.mem[prev + 1].next = at]

\* equal strings share one allocation
Share(p) ==
  IF p.err THEN p
  ELSE IF \E e \in p.strtab : e.s = String(p)
  THEN [p EXCEPT !.val = (CHOOSE e \in p.strtab : e.s = String(p)).offset]
  ELSE progn_alloc([p EXCEPT !.strtab = @ \cup {[s |-> String(p), offset |-> Len(p.mem)]}],
                   <<[k |-> "str", s |-> String(p)], End>>)

loads(p) == Share(expect(p, "string"))

\* a comparison at offset `at`: its name is read, then its version
ComparNode(p, t, at, name) ==
  IF p.err THEN p
  ELSE expect(Put(p, at, [k |-> t, vtype |-> p.vtype, vendprod |-> name,
                          version |-> IF p.vtype = "vague" THEN vaguever_init(String(p))
                                      ELSE <<p.val>>]), "rparen")
ComparVersion(p, t, at) ==
  ComparNode(IF p.vtype = "vague" THEN expect(p, "string") ELSE loads(p), t, at, p.val)
compar(p, t) == ComparVersion(loads(AllocNode(p)), t, Len(p.mem))

RECURSIVE vulnexpr(_), boolean(_, _, _, _)

\* a list of nodes of one type, each linked to the one before once it is complete
BooleanNode(p, t, first, prev, at) ==
  IF p.err THEN p
  ELSE boolean(Link(Put(p, at, [k |-> t, value |-> p.val, next |-> 0]), prev, at),
               t, IF first = 0 THEN at ELSE first, at)
boolean(p, t, first, prev) ==
  CASE Token(p).t = "lparen" ->
         BooleanNode(vulnexpr(AllocNode(Advance(p))), t, first, prev, Len(p.mem))
    [] Token(p).t = "rparen" /\ first # 0 -> [Advance(p) EXCEPT !.val = first]
    [] OTHER -> Bail(p)

NalphaBody(p) == expect(vulnexpr(expect([p EXCEPT !.vtype = "nalpha"], "lparen")), "rparen")

\* Mutant of nalpha: the kind of versions is not restored.
nalpha_sticks(p) == NalphaBody(p)

nalpha(p) == [NalphaBody(p) EXCEPT !.vtype = p.vtype]

ReadSymbol(p) == p.in[p.i - 1].s
BySymbol(p) ==
  IF p.err THEN p
  ELSE IF ReadSymbol(p) \in Comparisons THEN compar(p, ReadSymbol(p))
  ELSE IF ReadSymbol(p) \in Connectives THEN boolean(p, ReadSymbol(p), 0, 0)
  ELSE IF ReadSymbol(p) = "nalpha" THEN nalpha(p)
  ELSE Bail(p)
vulnexpr(p) == BySymbol(expect(p, "symbol"))

\* a CVE at offset `at`: its ID, two scores, a description, its expression
CveNode(p, at, id, desc) ==
  Put(p, at, [k |-> "cve", id |-> id, desc |-> desc, expr |-> p.val, next |-> 0])
CveExpr(p, at, id) == CveNode(vulnexpr(expect(p, "lparen")), at, id, p.val)
CveText(p, at) == CveExpr(loads(expect(expect(p, "double"), "double")), at, p.val)
cve(p) == CveText(loads(AllocNode(p)), Len(p.mem))

RECURSIVE ParseCves(_, _)
ParseCve(p, prev) ==
  IF p.err \/ ReadSymbol(p) # "cve" THEN Bail(p)
  ELSE ParseCves(Link(expect(cve(p), "rparen"), prev, Len(p.mem)), Len(p.mem))
ParseCves(p, prev) ==
  IF p.err \/ Token(p).t = "eof" THEN p
  ELSE ParseCve(expect(expect(p, "lparen"), "symbol"), prev)

vulnspec_parse(in) ==
  ParseCves([in |-> in, i |-> 1, mem |-> <<Header>>, strtab |-> {}, vtype |-> "vague",
             val |-> 0, err |-> FALSE], 0)

(***************************************************************************)
(* The validator, over the file f.                                         *)
(***************************************************************************)
Ref(f, offset) == f[offset + 1]

check(f, offset, len) == offset >= HeaderSize /\ offset + len <= Len(f)

vstr(f, offset) == check(f, offset, 2) /\ Ref(f, offset + 1) = End

vcompar(f, offset) ==
  /\ check(f, offset, 2)
  /\ vstr(f, Ref(f, offset).vendprod)
  /\ Ref(f, offset).vtype # "vague" => vstr(f, Ref(f, offset).version[1])

RECURSIVE vvulnexpr(_, _), vboolean(_, _), vcve(_, _)
vboolean(f, offset) ==
  \/ offset = 0
  \/ /\ check(f, offset, 2)
     /\ Ref(f, offset).k \in Connectives
     /\ vvulnexpr(f, Ref(f, offset).value)
     /\ vboolean(f, Ref(f, offset).next)

vvulnexpr(f, offset) ==
  /\ check(f, offset, 1)
  /\ \/ Ref(f, offset).k \in Comparisons /\ vcompar(f, offset)
     \/ Ref(f, offset).k \in Connectives /\ vboolean(f, offset)

vcve(f, offset) ==
  \/ offset = 0
  \/ /\ check(f, offset, 2)
     /\ Ref(f, offset).k = "cve"
     /\ vstr(f, Ref(f, offset).id) /\ vstr(f, Ref(f, offset).desc)
     /\ vvulnexpr(f, Ref(f, offset).expr)
     /\ vcve(f, Ref(f, offset).next)

vnode(f, offset) ==
  check(f, offset, 1) /\ Ref(f, offset).k = "cve" /\ vcve(f, offset)

validate(f) == Len(f) >= HeaderSize /\ vnode(f, HeaderSize)

(***************************************************************************)
(* The interpreter: `it` holds the file and a component's parameters.      *)
(***************************************************************************)
Related(k, c) ==
  CASE k = "<"  -> c < 0
    [] k = "<=" -> c <= 0
    [] k = "="  -> c = 0
    [] k = ">=" -> c >= 0
    [] k = ">"  -> c > 0

ecompar(it, offset) ==
  LET node == Ref(it.data, offset)
  IN /\ Ref(it.data, node.vendprod).s = it.vendprod
     /\ Related(node.k,
                IF node.vtype = "vague" THEN vaguever_cmp(it.vague, node.version)
                ELSE nalphaver_cmp(it.version, Ref(it.data, node.version[1]).s))

RECURSIVE evulnexpr(_, _), eboolean(_, _), enodes(_, _)
BooleanRest(it, node, ret) ==
  IF (~ret /\ node.k = "^") \/ (ret /\ node.k = "v") \/ node.next = 0 THEN ret
  ELSE eboolean(it, node.next)
eboolean(it, offset) ==
  BooleanRest(it, Ref(it.data, offset), evulnexpr(it, Ref(it.data, offset).value))

evulnexpr(it, offset) ==
  IF Ref(it.data, offset).k \in Comparisons THEN ecompar(it, offset) ELSE eboolean(it, offset)

\* on_match refuses its it.room-th match, which ends the evaluation
OnMatch(it, node, hit) ==
  CASE ~hit -> enodes(it, node.next)
    [] hit /\ it.room = 1 -> <<Ref(it.data, node.id).s>>
    [] OTHER -> <<Ref(it.data, node.id).s>> \o enodes([it EXCEPT !.room = @ - 1], node.next)
enodes(it, offset) ==
  IF offset = 0 \/ it.version = << >> \/ it.vendprod = << >> THEN << >>
  ELSE OnMatch(it, Ref(it.data, offset), evulnexpr(it, Ref(it.data, offset).expr))

\* nothing loaded: do nothing, without error
vulnspec_eval(it) == IF Len(it.data) <= HeaderSize + 1 THEN << >> ELSE enodes(it, HeaderSize)

-----------------------------------------------------------------------------
\* the source of a specification, as the reader's tokens
T(t) == <<[t |-> t]>>
Sym(s) == <<[t |-> "symbol", s |-> s]>>
Str(s) == <<[t |-> "string", s |-> s]>>

RECURSIVE ExprTokens(_)
ExprTokens(e) ==
  T("lparen") \o Sym(e.k)
  \o (IF e.k \in Comparisons THEN Str(e.vendprod) \o Str(e.version)
      ELSE FlattenSeq([i \in DOMAIN e.args |-> ExprTokens(e.args[i])]))
  \o T("rparen")

CveTokens(c) ==
  T("lparen") \o Sym("cve") \o Str(c.id) \o T("double") \o T("double") \o Str(c.desc)
  \o ExprTokens(c.expr) \o T("rparen")

Tokens(cves) == FlattenSeq([i \in DOMAIN cves |-> CveTokens(cves[i])])

VulnspecInit ==
  /\ \/ vstage = "source" /\ vspec \in VulnSpecs
     \/ vstage = "none" /\ vspec = << >>      \* collate runs without a specification
  /\ vsrc \in {SubSeq(Tokens(vspec), 1, n) : n \in 0 .. Len(Tokens(vspec))}
  /\ vfile = << >>
  /\ vinterp = [data |-> << >>, vendprod |-> << >>, version |-> << >>,
                vague |-> vaguever_init(<< >>), room |-> 0]
  /\ vmatches = << >>

\* vulngen: the output is written once all is parsed; a failed write leaves a part of it
Vulngen ==
  /\ vstage = "source"
  /\ LET p == vulnspec_parse(vsrc)
     IN \E n \in 0 .. Len(p.mem) : vfile' = IF p.err THEN << >> ELSE SubSeq(p.mem, 1, n)
  /\ vstage' = "compiled"
  /\ UNCHANGED <<vspec, vsrc, vinterp, vmatches>>

\* collate loads the file, or stops
LoadFile ==
  /\ vstage = "compiled"
  /\ IF validate(vfile)
     THEN vinterp' = [vinterp EXCEPT !.data = vfile] /\ vstage' = "loaded"
     ELSE UNCHANGED vinterp /\ vstage' = "refused"
  /\ UNCHANGED <<vspec, vsrc, vfile, vmatches>>

\* a component: its parameters are set and the program is evaluated
Evaluate(vendprod, version, room) ==
  /\ vstage \in {"loaded", "none"}
  /\ vinterp' = [vinterp EXCEPT !.vendprod = vendprod, !.version = version,
                                !.vague = vaguever_init(version), !.room = room]
  /\ vmatches' = vulnspec_eval(vinterp')
  /\ UNCHANGED <<vspec, vsrc, vfile, vstage>>

VulnspecNext ==
  \/ Vulngen \/ LoadFile
  \/ \E vendprod \in VendProds, version \in Versions, room \in 1 .. 2 :
       Evaluate(vendprod, version, room)

-----------------------------------------------------------------------------
(***************************************************************************)
(* What a specification says of a component, without compiling it.         *)
(***************************************************************************)
RECURSIVE Holds(_, _, _, _)
Holds(e, vendprod, version, byalpha) ==
  IF e.k \in Comparisons
  THEN /\ e.vendprod = vendprod
       /\ Related(e.k, IF byalpha THEN nalphaver_cmp(version, e.version)
                       ELSE vaguever_cmp(vaguever_init(version), vaguever_init(e.version)))
  ELSE IF e.k = "^" THEN \A i \in DOMAIN e.args : Holds(e.args[i], vendprod, version, byalpha)
  ELSE \E i \in DOMAIN e.args : Holds(e.args[i], vendprod, version, byalpha \/ e.k = "nalpha")

Affects(cves, vendprod, version) ==
  LET hit(c) == vendprod # << >> /\ version # << >> /\ Holds(c.expr, vendprod, version, FALSE)
      hits == SelectSeq(cves, hit)
  IN [i \in DOMAIN hits |-> hits[i].id]

\* the CVEs whose source is whole, if the source ends with one
WholeCves == {n \in 0 .. Len(vspec) : Tokens(SubSeq(vspec, 1, n)) = vsrc}

\* both comparisons order the versions; fields a version lacks are zero
Vague(v, w) == vaguever_cmp(vaguever_init(v), vaguever_init(w))
VersionsOrdered(v) ==
  /\ \A w \in Versions, x \in Versions :
       /\ Vague(v, w) <= 0 /\ Vague(w, x) <= 0 => Vague(v, x) <= 0
       /\ nalphaver_cmp(v, w) <= 0 /\ nalphaver_cmp(w, x) <= 0 => nalphaver_cmp(v, x) <= 0
  /\ \A w \in Versions :
       Vague(v, w) = -Vague(w, v) /\ nalphaver_cmp(v, w) = -nalphaver_cmp(w, v)
  /\ Vague(v, v \o <<Dot, 0>>) = 0 /\ nalphaver_cmp(v, v \o <<Dot, 0>>) = 0

(***************************************************************************)
(* A compiled specification means what its source says.  A component is    *)
(* reported with exactly the CVEs whose expression holds for it, in order, *)
(* up to the match the callback refuses, whatever was evaluated before;    *)
(* strings shared in the program, nested lists and versions compared in    *)
(* two ways do not get mixed up.  A source or a program cut short, as by a *)
(* write that failed, is refused and never gives a part of the CVEs.       *)
(* With no specification nothing is reported; versions are well ordered.   *)
(***************************************************************************)
VulnspecExact ==
  /\ vstage = "loaded" =>
       \E n \in WholeCves \ {0} :
         LET all == Affects(SubSeq(vspec, 1, n), vinterp.vendprod, vinterp.version)
         IN vmatches = SubSeq(all, 1, Min({vinterp.room, Len(all)}))
  /\ vstage = "refused" =>
       WholeCves \subseteq {0} \/ Len(vfile) < Len(vulnspec_parse(vsrc).mem)
  /\ vstage = "none" =>
       vmatches = << >> /\ (vinterp.version # << >> => VersionsOrdered(vinterp.version))
=============================================================================
