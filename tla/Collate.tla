------------------------------ MODULE Collate ------------------------------
(***************************************************************************)
(* `scan collate` (apps/scan/collate.c): five programs that turn the       *)
(* banners of a scan into tables, each reading CSV files the one before it *)
(* has written.  banners: services, their certificate chains; httpmsgs:    *)
(* requests for webfetch; matches: components seen in banners, by service; *)
(* components: components with IDs of their own; cves: what vulnspec finds *)
(* for them.  They run one after the other, on the same banners.           *)
(* The tables in memory are maps (module Tables shows that objtbl is one). *)
(***************************************************************************)
EXTENDS Integers, FiniteSets, FiniteSetsExt, SequencesExt

CONSTANTS NULL,        \* a null pointer
          Unparsed,    \* a message ycl_msg_parse_banner does not accept
          BadAddr,     \* an address of an unknown family or a wrong length
          NoChain,     \* a banner without certificates
          BadChains,   \* chains x509 cannot parse
          MaxMpids,    \* MAX_MPIDS, protocols kept for a service
          BannerFiles, \* sequences of banners
          HttpProtos,  \* protocols whose name starts with "http"
          Cves         \* what vulnspec knows: <<name, version, CVE>>

ASSUME CollateAssumption == MaxMpids \in Nat \ {0} /\ 0 \notin HttpProtos

UNKNOWN == 0           \* TCPPROTO_UNKNOWN

VARIABLES stage,       \* the program that runs
          file, pos,   \* the banners, and how far the program is in its input
          svctbl,      \* <<name, addr>> -> service, in memory
          chaintbl,    \* chains in the order of their IDs
          services,    \* rows of the services file
          svccerts,    \* rows of the service-certificate file
          httpmsgs,    \* requests made
          ctbl,        \* components in memory, in the order of their IDs
          compsvc,     \* rows <<name, version, service ID>>
          components,  \* rows <<component ID, name, version>>
          compidsvc,   \* rows <<component ID, service ID>>
          cverows      \* rows <<component ID, CVE>>

cvars == <<stage, file, pos, svctbl, chaintbl, services, svccerts, httpmsgs, ctbl,
           compsvc, components, compidsvc, cverows>>

\* a column that is null or empty is written and read back as an empty string
csv_encode(x) == IF x = NULL THEN "" ELSE x

CollateInit ==
  /\ file \in BannerFiles
  /\ stage = "banners" /\ pos = 1
  /\ svctbl = << >> /\ chaintbl = << >> /\ ctbl = << >>
  /\ services = << >> /\ svccerts = << >> /\ httpmsgs = << >>
  /\ compsvc = << >> /\ components = << >> /\ compidsvc = << >> /\ cverows = << >>

(***************************************************************************)
(* banners                                                                 *)
(***************************************************************************)
NewService(b) == [fpid |-> b.fpid, fpchain |-> NoChain,
                  mpids |-> [i \in 1 .. MaxMpids |-> UNKNOWN],
                  mpchains |-> [i \in 1 .. MaxMpids |-> NoChain]]

\* the chain of a banner, NULL (here NoChain) if there is none or it is bad
upsert_chain(b) == IF b.chain \in BadChains THEN NoChain ELSE b.chain

\* Mutant of MpidSlot: a protocol takes a place each time it is seen.
MpidSlotFree(svc, mpid) ==
  LET ok == {i \in 1 .. MaxMpids : svc.mpids[i] = UNKNOWN}
  IN IF ok = {} THEN 0 ELSE Min(ok)

\* the first place that is free or has the protocol already; 0 if none is
MpidSlot(svc, mpid) ==
  LET ok == {i \in 1 .. MaxMpids : svc.mpids[i] \in {UNKNOWN, mpid}}
  IN IF ok = {} THEN 0 ELSE Min(ok)

UpdateService(svc, b, chain) ==
  LET i == MpidSlot(svc, b.mpid) IN
  CASE b.mpid # UNKNOWN /\ i # 0 ->
         [svc EXCEPT !.mpids[i] = b.mpid,
                     !.mpchains[i] = IF chain # NoChain THEN chain ELSE @]
    [] b.mpid = UNKNOWN /\ chain # NoChain /\ svc.fpchain = NoChain ->
         [svc EXCEPT !.fpchain = chain]
    [] OTHER -> svc

process_banner ==
  LET b == file[pos]
      key == <<b.name, b.addr>>
      chain == upsert_chain(b)
      svc == IF key \in DOMAIN svctbl THEN svctbl[key] ELSE NewService(b)
  IN /\ stage = "banners" /\ pos <= Len(file) /\ b # Unparsed
     /\ pos' = pos + 1
     /\ IF b.addr = BadAddr THEN UNCHANGED <<svctbl, chaintbl>>
        ELSE /\ svctbl' = [k \in DOMAIN svctbl \cup {key} |->
                             IF k = key THEN UpdateService(svc, b, chain) ELSE svctbl[k]]
             /\ chaintbl' = IF chain = NoChain \/ Contains(chaintbl, chain)
                            THEN chaintbl ELSE Append(chaintbl, chain)
     /\ UNCHANGED <<stage, file, services, svccerts, httpmsgs, ctbl, compsvc, components,
                    compidsvc, cverows>>

\* the program ends without a row; the script that runs them goes on with the next
BannersFails ==
  /\ stage = "banners" /\ pos <= Len(file) /\ file[pos] = Unparsed
  /\ stage' = "httpmsgs" /\ pos' = 1
  /\ svctbl' = << >> /\ chaintbl' = << >>
  /\ UNCHANGED <<file, services, svccerts, httpmsgs, ctbl, compsvc, components, compidsvc,
                 cverows>>

\* without a matched protocol the one expected on the port is used
postprocess(svc) ==
  IF svc.mpids[1] # UNKNOWN THEN svc
  ELSE [svc EXCEPT !.mpids[1] = svc.fpid, !.mpchains[1] = svc.fpchain]

\* one row for each protocol of each service, numbered from 1; the first
\* protocol has a row even if it is unknown
ServiceRows ==
  LET keys == SetToSeq(DOMAIN svctbl)
      rows(k) == LET s == postprocess(svctbl[k])
                     used == SelectSeq([i \in 1 .. MaxMpids |-> i],
                                       LAMBDA i : i = 1 \/ s.mpids[i] # UNKNOWN)
                 IN [j \in DOMAIN used |->
                       [key |-> k, proto |-> s.mpids[used[j]], chain |-> s.mpchains[used[j]]]]
  IN FlattenSeq([i \in DOMAIN keys |-> rows(keys[i])])

print_services_csv(rows) ==
  [i \in DOMAIN rows |-> [id |-> i, name |-> csv_encode(rows[i].key[1]),
                          addr |-> rows[i].key[2], proto |-> rows[i].proto]]

print_svccerts_csv(rows) ==
  LET with == SelectSeq([i \in DOMAIN rows |-> i], LAMBDA i : rows[i].chain # NoChain)
  IN [j \in DOMAIN with |-> <<with[j], SelectInSeq(chaintbl, LAMBDA c : c = rows[with[j]].chain)>>]

FinishBanners ==
  /\ stage = "banners" /\ pos > Len(file)
  /\ LET rows == ServiceRows
     IN /\ services' = print_services_csv(rows)
        /\ svccerts' = print_svccerts_csv(rows)
  /\ stage' = "httpmsgs" /\ pos' = 1
  /\ svctbl' = << >>
  /\ UNCHANGED <<file, chaintbl, httpmsgs, ctbl, compsvc, components, compidsvc, cverows>>

(***************************************************************************)
(* httpmsgs: a request for each HTTP service (one stands for the two paths *)
(* that the code asks for).                                                *)
(***************************************************************************)
HttpmsgsRow ==
  /\ stage = "httpmsgs" /\ pos <= Len(services)
  /\ pos' = pos + 1
  /\ LET r == services[pos]
     IN httpmsgs' = IF r.proto \notin HttpProtos THEN httpmsgs
                    ELSE Append(httpmsgs, [id |-> r.id, addr |-> r.addr, hostname |-> r.name])
  /\ UNCHANGED <<stage, file, svctbl, chaintbl, services, svccerts, ctbl, compsvc, components,
                 compidsvc, cverows>>

FinishHttpmsgs ==
  /\ stage = "httpmsgs" /\ pos > Len(services)
  /\ stage' = "matches" /\ pos' = 1
  /\ UNCHANGED <<file, svctbl, chaintbl, services, svccerts, httpmsgs, ctbl, compsvc,
                 components, compidsvc, cverows>>

(***************************************************************************)
(* component.c: a component is a name and a version; it keeps each service *)
(* once.                                                                   *)
(***************************************************************************)
component_register(tbl, name, version, id) ==
  LET at == {i \in DOMAIN tbl : tbl[i].name = name /\ tbl[i].version = version}
      c == CHOOSE i \in at : TRUE
  IN IF at = {} THEN Append(tbl, [name |-> name, version |-> version, services |-> <<id>>])
     ELSE IF Contains(tbl[c].services, id) THEN tbl
     ELSE [tbl EXCEPT ![c].services = Append(@, id)]

(***************************************************************************)
(* matches: the service of a banner is looked up by name, address and      *)
(* protocol among the rows of the services file; -1 if there is none.  A   *)
(* banner without a name has a null name, the row an empty one.            *)
(***************************************************************************)
\* Mutant of get_svc_id: any protocol of the service will do.
get_svc_id_first(b) ==
  LET rows == {r \in Range(services) : r.name = b.name /\ r.addr = b.addr}
  IN IF rows = {} THEN -1 ELSE Min({r.id : r \in rows})

get_svc_id(b) ==
  LET proto == IF b.mpid = UNKNOWN THEN b.fpid ELSE b.mpid
      rows == {r \in Range(services) : r.name = b.name /\ r.addr = b.addr /\ r.proto = proto}
  IN IF rows = {} THEN -1 ELSE Max({r.id : r \in rows})

\* a banner that does not parse ends the file
MatchBanner ==
  /\ stage = "matches" /\ pos <= Len(file)
  /\ LET b == file[pos]
     IN \/ b = Unparsed /\ pos' = Len(file) + 1 /\ UNCHANGED ctbl
        \/ /\ b # Unparsed /\ pos' = pos + 1
           /\ ctbl' = FoldLeft(LAMBDA t, c : component_register(t, c[1], c[2], get_svc_id(b)),
                               ctbl, b.comps)
  /\ UNCHANGED <<stage, file, svctbl, chaintbl, services, svccerts, httpmsgs, compsvc,
                 components, compidsvc, cverows>>

\* component_foreach, in the order of the component IDs
print_compmatch(c) ==
  [i \in DOMAIN c.services |-> <<csv_encode(c.name), csv_encode(c.version), c.services[i]>>]

FinishMatches ==
  /\ stage = "matches" /\ pos > Len(file)
  /\ compsvc' = FlattenSeq([i \in DOMAIN ctbl |-> print_compmatch(ctbl[i])])
  /\ stage' = "components" /\ pos' = 1
  /\ ctbl' = << >>
  /\ UNCHANGED <<file, svctbl, chaintbl, services, svccerts, httpmsgs, components, compidsvc,
                 cverows>>

(***************************************************************************)
(* components: rows without a service are skipped.                         *)
(***************************************************************************)
ComponentsRow ==
  /\ stage = "components" /\ pos <= Len(compsvc)
  /\ pos' = pos + 1
  /\ LET r == compsvc[pos]
     IN ctbl' = IF r[3] <= 0 THEN ctbl ELSE component_register(ctbl, r[1], r[2], r[3])
  /\ UNCHANGED <<stage, file, svctbl, chaintbl, services, svccerts, httpmsgs, compsvc,
                 components, compidsvc, cverows>>

print_component(i) ==
  [j \in DOMAIN ctbl[i].services |-> <<i, ctbl[i].services[j]>>]

FinishComponents ==
  /\ stage = "components" /\ pos > Len(compsvc)
  /\ components' = [i \in DOMAIN ctbl |-> <<i, csv_encode(ctbl[i].name), csv_encode(ctbl[i].version)>>]
  /\ compidsvc' = FlattenSeq([i \in DOMAIN ctbl |-> print_component(i)])
  /\ stage' = "cves" /\ pos' = 1
  /\ ctbl' = << >>
  /\ UNCHANGED <<file, svctbl, chaintbl, services, svccerts, httpmsgs, compsvc, cverows>>

(***************************************************************************)
(* cves: every component is given to vulnspec (module Vulnspec), which has *)
(* no match for one without a name or a version; the test for an empty     *)
(* version in cves compares the pointer and never skips one.               *)
(***************************************************************************)
on_matched_cve(r) ==
  IF r[2] = "" \/ r[3] = "" THEN << >>
  ELSE SetToSeq({<<r[1], v[3]>> : v \in {v \in Cves : v[1] = r[2] /\ v[2] = r[3]}})

CvesRow ==
  /\ stage = "cves" /\ pos <= Len(components)
  /\ pos' = pos + 1
  /\ cverows' = cverows \o on_matched_cve(components[pos])
  /\ UNCHANGED <<stage, file, svctbl, chaintbl, services, svccerts, httpmsgs, ctbl, compsvc,
                 components, compidsvc>>

FinishCves ==
  /\ stage = "cves" /\ pos > Len(components)
  /\ cverows' = SortSeq(cverows, LAMBDA x, y : x[1] < y[1])
  /\ stage' = "done"
  /\ UNCHANGED <<file, pos, svctbl, chaintbl, services, svccerts, httpmsgs, ctbl, compsvc,
                 components, compidsvc>>

CollateNext ==
  \/ process_banner \/ BannersFails \/ FinishBanners
  \/ HttpmsgsRow \/ FinishHttpmsgs
  \/ MatchBanner \/ FinishMatches
  \/ ComponentsRow \/ FinishComponents
  \/ CvesRow \/ FinishCves

-----------------------------------------------------------------------------
Banners == Range(file) \ {Unparsed}
Usable == {b \in Banners : b.addr # BadAddr}
OfService(name, addr) == {b \in Usable : csv_encode(b.name) = name /\ b.addr = addr}
Matched(bs) == {b.mpid : b \in bs} \ {UNKNOWN}

(***************************************************************************)
(* The services file: every service that answered has its rows, one for    *)
(* each protocol seen, none twice; a protocol is missing only if the       *)
(* service has more than MAX_MPIDS, and the protocol expected on the port  *)
(* stands in only if none was recognized.  Each certificate row joins a    *)
(* service row to a chain that a banner of that very service carried.  If  *)
(* a banner does not parse there is no row at all.                         *)
(***************************************************************************)
ServicesExact ==
  stage # "banners" =>
    IF Unparsed \in Range(file) THEN services = << >> /\ svccerts = << >> ELSE
    /\ \A i \in DOMAIN services : services[i].id = i
    /\ \A r, s \in Range(services) :
         r.name = s.name /\ r.addr = s.addr /\ r.proto = s.proto => r = s
    /\ \A b \in Usable :
         LET of == OfService(csv_encode(b.name), b.addr)
             protos == {r.proto : r \in {r \in Range(services) :
                                           r.name = csv_encode(b.name) /\ r.addr = b.addr}}
             first == file[Min({i \in DOMAIN file : file[i] \in of})]
         IN IF Matched(of) = {} THEN protos = {first.fpid}
            ELSE /\ protos \subseteq Matched(of)
                 /\ Cardinality(protos) = Min({MaxMpids, Cardinality(Matched(of))})
    /\ \A r \in Range(services) : OfService(r.name, r.addr) # {}
    /\ \A c \in Range(svccerts) :
         /\ c[1] \in DOMAIN services /\ c[2] \in DOMAIN chaintbl
         /\ LET r == services[c[1]]
                of == OfService(r.name, r.addr)
            IN \E b \in of : /\ b.chain = chaintbl[c[2]]
                             /\ b.mpid = IF Matched(of) = {} THEN UNKNOWN ELSE r.proto

\* the row of the services file that is the banner's own, if it has one
OwnRows(b) == {r \in Range(services) :
                 /\ r.name = csv_encode(b.name) /\ r.addr = b.addr
                 /\ r.proto = IF b.mpid = UNKNOWN THEN b.fpid ELSE b.mpid}

(***************************************************************************)
(* From banner to CVE over four files: a component is linked to a service  *)
(* exactly if a banner of that service, with a name and with that          *)
(* protocol, showed it; it has one ID, and the CVEs reported for the ID are*)
(* those of its name and version, if it has both.  (A banner without a     *)
(* name, and one whose protocol has no row, find no service and their      *)
(* components are dropped.)                                                *)
(***************************************************************************)
ComponentsTraced ==
  stage = "done" =>
    LET shown == {<<csv_encode(c[1]), csv_encode(c[2]), r.id>> :
                    <<c, r>> \in UNION {Range(b.comps) \X OwnRows(b) :
                                          b \in {x \in Usable : x.name # NULL}}}
        linked == {<<components[l[1]][2], components[l[1]][3], l[2]>> : l \in Range(compidsvc)}
    IN /\ linked = shown
       /\ Cardinality(Range(compidsvc)) = Len(compidsvc)
       /\ \A c, d \in Range(components) : c[2] = d[2] /\ c[3] = d[3] => c = d
       /\ Range(cverows) = {<<c[1], v[3]>> : <<c, v>> \in
                              {p \in Range(components) \X Cves :
                                 p[1][3] # "" /\ p[1][2] = p[2][1] /\ p[1][3] = p[2][2]}}
       /\ \A m \in Range(httpmsgs) : services[m.id].proto \in HttpProtos
=============================================================================
