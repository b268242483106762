------------------------------ MODULE Readers -------------------------------
(***************************************************************************)
(* The readers of external input: CSV rows, which the scan programs write  *)
(* for each other (lib/util/csv.c); lines of a file read a chunk at a time *)
(* (lib/util/lines.c); SCGI requests, from which a2 takes header and body  *)
(* (lib/net/scgi.c, apps/a2/yapi.c).  A behaviour uses one of them.        *)
(***************************************************************************)
EXTENDS Integers, FiniteSets, FiniteSetsExt, SequencesExt

CONSTANTS CsvFiles,    \* sequences of rows; a row is a sequence of fields
          LineFiles,   \* contents of files, over characters and "lf"
          ChunkSize,   \* LINES_CHUNKSIZE
          ScgiRequests, \* [header, body], and what they ask for: [length, answer]
          MaxHdr,      \* maxhdrsz
          MaxLen       \* yapi's maxlen

VARIABLES rkind,       \* "csv", "lines", "scgi"
          rin,         \* what is written, the content, the request
          rst,         \* the reader
          rgot         \* what it has returned

rvars == <<rkind, rin, rst, rgot>>

(***************************************************************************)
(* CSV.  "q" is the quote, "," the comma, "cr" and "lf" end a row.         *)
(***************************************************************************)
Special == {"cr", "lf", "q", ","}

csv_encode_escaped(s) ==
  <<"q">> \o FlattenSeq([i \in DOMAIN s |-> IF s[i] = "q" THEN <<"q", "q">> ELSE <<s[i]>>])
  \o <<"q">>

EncodeField(s) == IF Range(s) \cap Special = {} THEN s ELSE csv_encode_escaped(s)

csv_encode_row(cols) ==
  FlattenSeq([i \in DOMAIN cols |-> (IF i = 1 THEN << >> ELSE <<",">>) \o EncodeField(cols[i])])
  \o (IF cols = << >> THEN << >> ELSE <<"cr", "lf">>)

CsvFile == FlattenSeq([i \in DOMAIN rin |-> csv_encode_row(rin[i])])

\* fgetc at position i; behind a CR, an LF is consumed too
Ch(f, i) == IF i <= Len(f) THEN f[i] ELSE "eof"
BehindCr(f, i) == IF Ch(f, i) \in {"lf", "eof"} THEN i + 1 ELSE i
Field(s, i, cont) == [s |-> s, i |-> i, cont |-> cont]

RECURSIVE read_escaped(_, _, _), read_unescaped(_, _, _), ReadColumns(_, _, _, _)
read_escaped(f, i, s) ==
  CASE Ch(f, i) = "eof" -> Field(s, i + 1, FALSE)
    [] Ch(f, i) = "q" ->
         CASE Ch(f, i + 1) = "," -> Field(s, i + 2, TRUE)
           [] Ch(f, i + 1) = "cr" -> Field(s, BehindCr(f, i + 2), FALSE)
           [] Ch(f, i + 1) \in {"lf", "eof"} -> Field(s, i + 2, FALSE)
           [] OTHER -> read_escaped(f, i + 2, Append(s, Ch(f, i + 1)))
    [] OTHER -> read_escaped(f, i + 1, Append(s, Ch(f, i)))

read_unescaped(f, i, s) ==
  CASE Ch(f, i) = "cr" -> Field(s, BehindCr(f, i + 1), FALSE)
    [] Ch(f, i) \in {"lf", "eof"} -> Field(s, i + 1, FALSE)
    [] Ch(f, i) = "," -> Field(s, i + 1, TRUE)
    [] OTHER -> read_unescaped(f, i + 1, Append(s, Ch(f, i)))

EndOfRow(cols, i, lastsep) ==
  [cols |-> IF lastsep THEN Append(cols, << >>) ELSE cols, i |-> i]

AddColumn(f, cols, field) ==
  IF field.cont THEN ReadColumns(f, field.i, Append(cols, field.s), TRUE)
  ELSE [cols |-> Append(cols, field.s), i |-> field.i]

ReadColumns(f, i, cols, lastsep) ==
  CASE Ch(f, i) = "cr" -> EndOfRow(cols, BehindCr(f, i + 1), lastsep)
    [] Ch(f, i) \in {"lf", "eof"} -> EndOfRow(cols, i + 1, lastsep)
    [] Ch(f, i) = "q" -> AddColumn(f, cols, read_escaped(f, i + 1, << >>))
    [] Ch(f, i) = "," -> ReadColumns(f, i + 1, Append(cols, << >>), TRUE)
    [] OTHER -> AddColumn(f, cols, read_unescaped(f, i, << >>))

\* as the scan programs call it: until the end of the file was met
csv_read_row ==
  /\ rkind = "csv" /\ rst.i <= Len(CsvFile) + 1
  /\ LET row == ReadColumns(CsvFile, rst.i, << >>, FALSE)
     IN rgot' = Append(rgot, row.cols) /\ rst' = [i |-> row.i]
  /\ UNCHANGED <<rkind, rin>>

(***************************************************************************)
(* Lines.  Offsets are those of the code, from 0.                          *)
(***************************************************************************)
LinesStart ==
  [data |-> << >>, end |-> 0, lineoff |-> 0, fpos |-> 0, feof |-> FALSE, done |-> FALSE]

\* Mutant of Partial: the line that is not complete is kept with the newline before it.
PartialWithNewline(l) ==
  IF l.end < Len(l.data) THEN SubSeq(l.data, l.end + 1, Len(l.data)) ELSE << >>

\* what follows the last complete line
Partial(l) == IF l.end < Len(l.data) THEN SubSeq(l.data, l.end + 2, Len(l.data)) ELSE << >>

\* the last newline, unless it is the first character
LastLf(data) == Max({0} \cup {i \in 1 .. Len(data) - 1 : data[i + 1] = "lf"})

FillChunk(l, asked, read) ==
  LET data == Partial(l) \o read
  IN IF read = << >> THEN [l EXCEPT !.data = data, !.feof = TRUE, !.done = TRUE]
     ELSE [l EXCEPT !.data = data, !.lineoff = 0,
                    !.end = IF LastLf(data) = 0 THEN Len(data) ELSE LastLf(data),
                    !.fpos = @ + Len(read), !.feof = Len(read) < asked]

lines_next_chunk ==
  /\ rkind = "lines" /\ ~rst.done /\ rst.lineoff >= rst.end
  /\ rst' = IF rst.feof THEN [rst EXCEPT !.done = TRUE]
            ELSE LET asked == ChunkSize - Len(Partial(rst))
                 IN FillChunk(rst, asked,
                              SubSeq(rin, rst.fpos + 1, Min({rst.fpos + asked, Len(rin)})))
  /\ UNCHANGED <<rkind, rin, rgot>>

lines_next ==
  /\ rkind = "lines" /\ ~rst.done /\ rst.lineoff < rst.end
  /\ LET i == Min({rst.end} \cup {k \in rst.lineoff .. rst.end - 1 : rst.data[k + 1] = "lf"})
     IN /\ rgot' = Append(rgot, SubSeq(rst.data, rst.lineoff + 1, i))
        /\ rst' = [rst EXCEPT !.lineoff = i + 1]
  /\ UNCHANGED <<rkind, rin>>

(***************************************************************************)
(* SCGI.  The header is a netstring of keys and values, each with a 0      *)
(* behind it: 1 CONTENT_LENGTH, 2 REQUEST_METHOD, 3 DOCUMENT_URI, 4 any    *)
(* other key; a value is empty or one number, n + 10 for the length n.     *)
(* 100 + n is the length n of the netstring; digits that overflow are, as  *)
(* any character that does not belong there, a number below 100.           *)
(***************************************************************************)
Space == 32
Colon == 58
Comma == 44
Stream(r) == r.size \o <<Colon>> \o r.header \o <<r.end>> \o r.body

Spaces(buf) == Max({0} \cup {k \in DOMAIN buf : \A i \in 1 .. k : buf[i] = Space})
HasLength(buf) == Len(buf) > Spaces(buf) /\ buf[Spaces(buf) + 1] >= 100
NetLength(buf) == IF HasLength(buf) THEN buf[Spaces(buf) + 1] - 100 ELSE 0
\* where the colon has to be: a space in front of it is enough, no digit is asked for
ColonAt(buf) == Spaces(buf) + IF HasLength(buf) THEN 2 ELSE 1

netstring_tryparse(buf) ==
  LET colon == ColonAt(buf)
      comma == colon + NetLength(buf) + 1
  IN CASE Len(buf) < colon -> [ret |-> "incomplete", nextoff |-> 0]
       [] Len(buf) >= colon /\ (colon = 1 \/ buf[colon] # Colon) -> [ret |-> "error", nextoff |-> 0]
       [] OTHER ->
            CASE Len(buf) < comma -> [ret |-> "incomplete", nextoff |-> 0]
              [] Len(buf) >= comma /\ buf[comma] # Comma -> [ret |-> "error", nextoff |-> 0]
              [] OTHER -> [ret |-> "ok", nextoff |-> comma]

HeaderData(buf) == SubSeq(buf, ColonAt(buf) + 1, ColonAt(buf) + NetLength(buf))

AfterParse == [incomplete |-> "header", ok |-> "parse", error |-> "parse_error"]

\* scgi_read_header: reads until the netstring is complete; n = 0 is the end of the stream
scgi_read(n) ==
  /\ rkind = "scgi" /\ rst.at = "header"
  /\ n <= Len(Stream(rin)) - Len(rst.buf)
  /\ LET buf == SubSeq(Stream(rin), 1, Len(rst.buf) + n)
     IN rst' = [rst EXCEPT !.buf = buf,
                           !.at = CASE n = 0 -> "terminated"
                                    [] n > 0 /\ Len(buf) >= MaxHdr -> "toolarge"
                                    [] OTHER -> AfterParse[netstring_tryparse(buf).ret]]
  /\ UNCHANGED <<rkind, rin, rgot>>

\* one key and its value, then the next; an empty key ends the header
RECURSIVE NextHeader(_, _, _)
ValueEnd(h, start) == Min({Len(h) + 1} \cup {i \in start .. Len(h) : h[i] = 0})
NextPair(h, key, start, fields) ==
  IF start > Len(h) THEN [ret |-> "parse_error", fields |-> fields]
  ELSE NextHeader(h, ValueEnd(h, start) + 1,
                  Append(fields, <<key, SubSeq(h, start, ValueEnd(h, start) - 1)>>))
NextHeader(h, start, fields) ==
  IF start > Len(h) \/ h[start] = 0 THEN [ret |-> "ok", fields |-> fields]
  ELSE NextPair(h, h[start], ValueEnd(h, start) + 1, fields)

\* the fields a2 uses; one with an empty value is skipped, a later one counts
SetField(req, f) ==
  CASE f[2] = << >> -> req
    [] f[2] # << >> /\ f[1] = 1 ->
         [req EXCEPT !.content_length = IF f[2][1] > 10 THEN f[2][1] - 10 ELSE @]
    [] f[2] # << >> /\ f[1] = 2 -> [req EXCEPT !.method = f[2][1]]
    [] f[2] # << >> /\ f[1] = 3 -> [req EXCEPT !.uri = f[2][1]]
    [] OTHER -> req
NoRequest == [content_length |-> 0, method |-> 0, uri |-> 0]

parse_request_header(h) ==
  LET r == NextHeader(h, 1, << >>)
  IN [ret |-> r.ret, req |-> FoldLeft(SetField, NoRequest, r.fields)]

Posts == [method |-> 20, uri |-> 30]          \* the route whose handler reads the body
Routed(req) == req.method = Posts.method /\ req.uri = Posts.uri

\* what came with the header, then what is left of the content, of which a content
\* beyond maxlen may lose its end
yapi_read(req, rest, stream) ==
  LET unread == IF Len(rest) > req.content_length THEN 0 ELSE req.content_length - Len(rest)
      left == Min({unread, MaxLen})
  IN rest \o SubSeq(stream, 1, Min({left, Len(stream)}))

yapi_serve ==
  /\ rkind = "scgi" /\ rst.at = "parse"
  /\ LET p == parse_request_header(HeaderData(rst.buf))
         rest == SubSeq(rst.buf, netstring_tryparse(rst.buf).nextoff + 1, Len(rst.buf))
         stream == SubSeq(Stream(rin), Len(rst.buf) + 1, Len(Stream(rin)))
     IN IF p.ret # "ok" THEN rst' = [rst EXCEPT !.at = "parse_error"] /\ UNCHANGED rgot
        ELSE IF ~Routed(p.req) THEN rst' = [rst EXCEPT !.at = "notfound"] /\ UNCHANGED rgot
        ELSE /\ rst' = [rst EXCEPT !.at = "served"]
             /\ rgot' = yapi_read(p.req, rest, stream)
  /\ UNCHANGED <<rkind, rin>>

ReadersInit ==
  /\ rgot = << >>
  /\ \/ rkind = "csv" /\ rin \in CsvFiles /\ rst = [i |-> 1]
     \/ rkind = "lines" /\ rin \in LineFiles /\ rst = LinesStart
     \/ rkind = "scgi" /\ rin \in ScgiRequests /\ rst = [buf |-> << >>, at |-> "header"]

ReadersNext ==
  \/ csv_read_row
  \/ lines_next_chunk \/ lines_next
  \/ rkind = "scgi" /\ \E n \in 0 .. Len(Stream(rin)) : scgi_read(n)
  \/ yapi_serve

-----------------------------------------------------------------------------
\* the lines of a content that end with a newline, and what is behind the last
LfAt(s) == {i \in DOMAIN s : s[i] = "lf"}
RECURSIVE Split(_)
Split(s) ==
  IF LfAt(s) = {} THEN << >>
  ELSE <<SubSeq(s, 1, Min(LfAt(s)) - 1)>> \o Split(SubSeq(s, Min(LfAt(s)) + 1, Len(s)))
Unended(s) == SubSeq(s, Max({0} \cup LfAt(s)) + 1, Len(s))
Text(lines) == SelectSeq(lines, LAMBDA l : l # << >>)
FillsChunk(l) == Len(l) = ChunkSize - 1
AllLines(s) == IF Unended(s) = << >> THEN Split(s) ELSE Append(Split(s), Unended(s))

(***************************************************************************)
(* What is written is read back, wherever the input is cut.  A file of CSV *)
(* rows gives its rows, their fields and the empty ones among them as they *)
(* were, whatever characters they hold, and an empty row at its end.  The  *)
(* lines of a file are returned in order, each once and whole, also those  *)
(* that lie across chunks; only a last line without a newline, and an      *)
(* empty line at the end of a chunk, may be missing, and an empty line too *)
(* many appears only behind a line that fills its chunk up to the newline. *)
(* A request is served with the whole body of the length it announced,     *)
(* however much of it came with the header; it fails only if the header is *)
(* cut off, is wrong, has another frame than a netstring, or reaches the   *)
(* limit.                                                                  *)
(***************************************************************************)
ReadersExact ==
  /\ rkind = "csv" =>
       IF rst.i <= Len(CsvFile) + 1 THEN IsPrefix(rgot, rin) ELSE rgot = Append(rin, << >>)
  /\ rkind = "lines" =>
       /\ IsPrefix(Text(rgot), Text(AllLines(rin)))
       /\ rst.done => Len(Text(rgot)) >= Len(Text(Split(rin)))
       /\ Len(rgot) <= Len(AllLines(rin)) + Len(SelectSeq(Split(rin), FillsChunk))
  /\ rkind = "scgi" =>
       /\ rst.at = "served" =>
            LET n == Min({rin.length, Len(rin.body)})
            IN rin.length <= MaxLen =>
                 /\ IsPrefix(SubSeq(rin.body, 1, n), rgot)
                 /\ Len(rin.body) <= rin.length => rgot = rin.body
       /\ rst.at = "toolarge" => Len(rst.buf) >= MaxHdr
       /\ rst.at \in {"served", "notfound", "parse_error"} => rst.at = rin.answer

(***************************************************************************)
(* lines_next: "OK for last line to not end w/ \n" (lib/util/lines.c:120). *)
(***************************************************************************)
LastLineRead == rkind = "lines" /\ rst.done => Text(rgot) = Text(AllLines(rin))
=============================================================================
