------------------------------ MODULE ZoneFile ------------------------------
(***************************************************************************)
(* Zone files: dns.zonefile.Reader, with the origin, the last name and the *)
(* two kinds of default TTL that it carries from line to line and into an  *)
(* included file and out of it; and Zone.to_file, which writes what it     *)
(* reads.                                                                  *)
(*                                                                         *)
(* A file is a sequence of lines, a line a sequence of words, as the       *)
(* tokenizer gives them (Tokenizer.tla): a word says as what it can be     *)
(* read.  A line with a blank in front begins with the word Blank.  What   *)
(* may be absent is a set of at most one value.                            *)
(***************************************************************************)
EXTENDS Names, Rdatasets, TLC

CONSTANT MaxTTL     \* 2 ** 32 - 1

Word(as, value) == [as |-> as, value |-> value]
Blank == Word("blank", <<>>)
The(optional) == CHOOSE value \in optional : TRUE

(* The reader: the lines left of the file it is in, what it carries along, *)
(* those who included this file, the nodes of the transaction, and what    *)
(* it raised.  force has what the caller forces upon every record.         *)
Reader(lines, zoneOrigin, relativize, defaultTtl, directives, force) ==
    [lines |-> lines, zoneOrigin |-> zoneOrigin, relativize |-> relativize,
     origin |-> zoneOrigin, lastName |-> zoneOrigin, lastTtl |-> {},
     defaultTtl |-> IF force.ttl # {} THEN force.ttl ELSE defaultTtl, directives |-> directives,
     force |-> force, saved |-> <<>>, nodes |-> [name \in {} |-> EmptyNode], err |-> "none"]

Raises(r, err) == [r EXCEPT !.err = err]

(* tok.as_name(): relative to the current origin, which may be relative.   *)
ReadOwner(labels, origin) ==
    ChooseRelativity(IF IsAbsolute(labels) THEN labels ELSE labels \o The(origin), origin, FALSE)

-----------------------------------------------------------------------------
(* The records of a transaction.                                           *)

NodeAt(nodes, name) == IF name \in DOMAIN nodes THEN nodes[name] ELSE EmptyNode

(* dns.zone.Transaction, whose nodes drive out what a CNAME excludes, and  *)
(* RRsetsReaderTransaction, which just keeps the set: after the check of   *)
(* CNAME and other data they come to the same.                             *)
PutIn(nodes, name, type, set) ==
    (name :> Replaced(NodeAt(nodes, name), type, set)) @@ nodes

AddRecord(r, name, ttl, type, rd) ==
    LET effective == IF r.relativize THEN <<>> ELSE The(r.zoneOrigin)
        node == NodeAt(r.nodes, name)
        fresh == [ttl |-> ttl, rdatas |-> {rd}]
        set == IF type \in DOMAIN node THEN UnionOf(type, node[type], fresh) ELSE fresh
    IN  IF type = "SOA" /\ name # effective THEN Raises(r, "ValueError")
        ELSE IF {Classify(node), Kind(type)} = {"cname", "regular"} THEN Raises(r, "CNAMEAndOtherData")
        ELSE [r EXCEPT !.nodes = PutIn(@, name, type, set)]

-----------------------------------------------------------------------------
(* One record.  Each part takes the words it reads and leaves the others.  *)

(* A name in the data of a record: under the current origin, but relative  *)
(* to the origin of the zone.                                              *)
RdataName(r, labels) ==
    ChooseRelativity(IF IsAbsolute(labels) THEN labels ELSE labels \o The(r.origin),
                     IF r.zoneOrigin \in {{}, {<<>>}} THEN r.origin ELSE r.zoneOrigin, r.relativize)

(* dns.rdata.from_text.  The generic form has the name on the wire, which  *)
(* is made relative to the current origin and then compared, absolute,     *)
(* with what was read.                                                     *)
RdataFromText(r, type, words) ==
    LET wrong == [err |-> "SyntaxError", rd |-> <<>>]
        name  == RdataName(r, words[1].value)
        of(rd) == IF name.err = "none" THEN [err |-> "none", rd |-> rd] ELSE wrong
        takes(n, as) == Len(words) = n /\ words[1].as = as
    IN  CASE type = "A" /\ takes(1, "data") -> [err |-> "none", rd |-> words[1].value]
          [] type \in {"NS", "CNAME"} /\ takes(1, "name") -> of(name.labels)
          [] type \in {"NS", "CNAME"} /\ takes(1, "generic") ->
                IF SameName(RelativizeName(words[1].value, The(r.origin)), words[1].value)
                THEN [err |-> "none", rd |-> words[1].value] ELSE wrong
          [] type = "SOA" /\ takes(2, "name") /\ words[2].as = "number" ->
                of([mname |-> name.labels, minimum |-> words[2].value])
          [] OTHER -> wrong

TakeTtl(r, words) ==
    IF r.force.ttl # {} THEN [r |-> [r EXCEPT !.lastTtl = r.force.ttl], words |-> words, ttl |-> r.force.ttl]
    ELSE IF words # <<>> /\ words[1].as = "number" /\ words[1].value <= MaxTTL
    THEN [r |-> [r EXCEPT !.lastTtl = {words[1].value}], words |-> Tail(words), ttl |-> {words[1].value}]
    ELSE [r |-> r, words |-> words, ttl |-> IF r.defaultTtl # {} THEN r.defaultTtl ELSE r.lastTtl]

TakeClass(r, words) ==
    IF r.force.class # {} THEN [words |-> words, class |-> The(r.force.class)]
    ELSE IF words # <<>> /\ words[1].as = "class" THEN [words |-> Tail(words), class |-> words[1].value]
    ELSE [words |-> words, class |-> "IN"]

(* A record with its TTL t.ttl, or the default one, which the first SOA    *)
(* sets when there is none.                                                *)
WithTtl(t, name, type, rdata) ==
    LET read == IF type = "SOA" /\ t.r.defaultTtl = {}
                THEN [t.r EXCEPT !.defaultTtl = {rdata.rd.minimum}] ELSE t.r
        ttl == IF t.ttl = {} THEN read.defaultTtl ELSE t.ttl
    IN  IF rdata.err # "none" THEN Raises(t.r, rdata.err)
        ELSE IF ttl = {} THEN Raises(t.r, "SyntaxError")
        ELSE AddRecord(read, name, The(ttl), type, rdata.rd)

TypeAndData(t, name, c) ==
    LET forced == t.r.force.type
    IN  IF c.class # "IN" \/ (forced = {} /\ (c.words = <<>> \/ c.words[1].as # "type"))
        THEN Raises(t.r, "SyntaxError")
        ELSE LET type == IF forced # {} THEN The(forced) ELSE c.words[1].value
             IN  WithTtl(t, name, type, RdataFromText(t.r, type, IF forced # {} THEN c.words ELSE Tail(c.words)))

(* What follows the owner, which is "name" as the zone keeps it.           *)
RestOfRecord(r, name, line) ==
    LET t == TakeTtl(r, line)
    IN  IF line = <<>> THEN Raises(r, "SyntaxError") ELSE TypeAndData(t, name, TakeClass(r, t.words))

(* _rr_line: a name that is not in the zone is passed over with its line.  *)
RrLine(r, line) ==
    LET blank == line[1].as = "blank"
        owner == IF blank THEN Is(The(r.lastName)) ELSE ReadOwner(line[1].value, r.origin)
        here == [r EXCEPT !.lastName = {owner.labels}]
        outside == ~IsSubdomainOf(owner.labels, The(r.zoneOrigin))
        name == IF r.relativize THEN RelativizeName(owner.labels, The(r.zoneOrigin)) ELSE owner.labels
    IN  IF r.force.name # {} THEN
            RestOfRecord(r, The(r.force.name), IF blank THEN Tail(line) ELSE line)
        ELSE IF r.origin = {} THEN Raises(r, "UnknownOrigin")
        ELSE IF blank /\ Len(line) = 1 THEN r
        ELSE IF ~blank /\ line[1].as # "name" THEN Raises(r, "SyntaxError")
        ELSE IF owner.err # "none" THEN Raises(r, owner.err)
        ELSE IF outside THEN here
        ELSE RestOfRecord(here, name, Tail(line))

-----------------------------------------------------------------------------
(* Directives.                                                             *)

Digits(n, base) ==
    LET d[k \in Nat] == (IF k < base THEN <<>> ELSE d[k \div base]) \o
                        <<IF k % base < 10 THEN 48 + (k % base) ELSE 87 + (k % base)>>
    IN  d[n]

(* format(index, base).zfill(width), or the nibbles of it, turned around.  *)
IndexText(index, base, width) ==
    LET radix  == CASE base = "o" -> 8 [] base = "d" -> 10 [] OTHER -> 16
        digits == Digits(IF index < 0 THEN 0 - index ELSE index, radix)
        sign   == IF index < 0 THEN <<45>> ELSE <<>>
        zeros  == [i \in 1..(width - Len(digits) - Len(sign)) |-> 48]
        whole  == sign \o zeros \o digits
        upper  == [i \in DOMAIN whole |-> IF whole[i] >= 97 THEN whole[i] - 32 ELSE whole[i]]
        text   == IF base \in {"X", "N"} THEN upper ELSE whole
        dotted == FlattenSeq([i \in DOMAIN text |->
                        (IF i = 1 THEN <<>> ELSE <<46>>) \o <<text[Len(text) + 1 - i]>>])
    IN  IF base \in {"n", "N"} THEN SubSeq(dotted, 1, IF Len(dotted) < width THEN Len(dotted) ELSE width)
        ELSE text

(* A side of $GENERATE is text in which 36 stands for "$" and its modifier *)
(* (_parse_modify): the last one, if there are several.                    *)
Generated(side, i) ==
    LET index == i + side.offset
    IN  FlattenSeq([k \in DOMAIN side.text |->
            IF side.text[k] = 36 THEN IndexText(index, side.base, side.width) ELSE <<side.text[k]>>])

(* One of the records: it is read from a text of its own, so the rest of   *)
(* the line is still there afterwards.                                     *)
GeneratedData(r, type, text, target) ==
    IF type # "A" /\ target.err # "none" THEN [err |-> "SyntaxError", rd |-> <<>>]
    ELSE RdataFromText(r, type, IF type = "A" THEN <<Word("data", text)>> ELSE <<Word("name", target.labels)>>)

GenerateRecord(r, type, ttl, owner, rdata) ==
    LET here == [r EXCEPT !.lastName = {owner.labels}]
    IN  IF r.err # "none" THEN r
        ELSE IF owner.err # "none" THEN Raises(r, owner.err)
        ELSE IF ~IsSubdomainOf(owner.labels, The(r.zoneOrigin)) THEN here
        ELSE IF rdata.err # "none" THEN Raises(r, "SyntaxError")
        ELSE AddRecord(here, IF r.relativize THEN RelativizeName(owner.labels, The(r.zoneOrigin)) ELSE owner.labels,
                       The(ttl), type, rdata.rd)

GenerateOne(r, g, ttl, i) ==
    LET text == Generated(g.rhs, i)
    IN  GenerateRecord(r, g.type, ttl, NameFromText(Generated(g.lhs, i), r.origin),
                       GeneratedData(r, g.type, text, NameFromText(text, {})))

(* grange.from_text has checked the range.  The first name outside the     *)
(* zone ends the loop: further ones are outside as well.                   *)
GenerateLine(r, g) ==
    LET ttl  == IF g.ttl # {} THEN g.ttl ELSE IF r.defaultTtl # {} THEN r.defaultTtl ELSE r.lastTtl
        from == IF g.ttl # {} THEN [r EXCEPT !.lastTtl = g.ttl] ELSE r
        rounds == ((g.stop - g.start) \div g.step) + 1
        after[n \in 0..rounds] ==
            IF n = 0 THEN from ELSE GenerateOne(after[n - 1], g, ttl, g.start + (n - 1) * g.step)
    IN  IF r.origin = {} THEN Raises(r, "UnknownOrigin")
        ELSE IF g.step < 1 \/ g.start > g.stop \/ ttl = {} THEN Raises(r, "SyntaxError")
        ELSE after[rounds]

(* The state of a file goes on a stack while one it includes is read; the  *)
(* default TTL goes into the included file, and does not come back.        *)
Carried(r) == [lines |-> r.lines, origin |-> r.origin, lastName |-> r.lastName,
               lastTtl |-> r.lastTtl, defaultTtl |-> r.defaultTtl]

IncludeFile(r, files, words) ==
    LET newOrigin == IF Len(words) < 2 THEN r.origin
                     ELSE IF IsAbsolute(words[2].value) THEN {words[2].value}
                     ELSE {words[2].value \o The(r.origin)}
    IN  IF Len(words) > 2 \/ (Len(words) = 2 /\ words[2].as # "name") THEN Raises(r, "SyntaxError")
        ELSE IF words[1].value \notin DOMAIN files THEN Raises(r, "OSError")
        ELSE [r EXCEPT !.saved = Append(@, Carried(r)), !.lines = files[words[1].value],
                       !.origin = newOrigin]

LosesNameMutant(r) ==
    LET outer == Last(r.saved)
    IN  [r EXCEPT !.saved = Front(@), !.lines = outer.lines, !.origin = outer.origin,
                  !.lastTtl = outer.lastTtl, !.defaultTtl = outer.defaultTtl]

EndOfFile(r) ==
    LET outer == Last(r.saved)
    IN  [r EXCEPT !.saved = Front(@), !.lines = outer.lines, !.origin = outer.origin,
                  !.lastName = outer.lastName, !.lastTtl = outer.lastTtl,
                  !.defaultTtl = outer.defaultTtl]

Directive(r, files, directive, words) ==
    IF directive \notin r.directives THEN Raises(r, "SyntaxError")
    ELSE CASE directive = "$TTL" ->
                IF Len(words) = 1 /\ words[1].as = "number" /\ words[1].value <= MaxTTL
                THEN [r EXCEPT !.defaultTtl = {words[1].value}] ELSE Raises(r, "SyntaxError")
           [] directive = "$ORIGIN" ->
                IF Len(words) = 1 /\ words[1].as = "name"
                THEN [r EXCEPT !.origin = {words[1].value},
                               !.zoneOrigin = IF @ = {} THEN {words[1].value} ELSE @]
                ELSE Raises(r, "SyntaxError")
           [] directive = "$INCLUDE" -> IncludeFile(r, files, words)
           [] directive = "$GENERATE" -> GenerateLine(r, words[1].value)

(* One turn of the loop of read().                                         *)
ReadLine(r, files) ==
    LET line == Head(r.lines)
        next == [r EXCEPT !.lines = Tail(@)]
    IN  IF r.lines = <<>> THEN EndOfFile(r)
        ELSE IF line = <<>> THEN next
        ELSE IF line[1].as = "directive" /\ r.directives # {}
        THEN Directive(next, files, line[1].value, Tail(line))
        ELSE RrLine(next, line)

RECURSIVE ReadLines(_, _)
ReadLines(r, files) ==
    IF r.err # "none" \/ (r.lines = <<>> /\ r.saved = <<>>) THEN r
    ELSE ReadLines(ReadLine(r, files), files)

-----------------------------------------------------------------------------
(* dns.zone.from_text and from_file, dns.zonefile.read_rrsets.             *)

Unforced == [name |-> {}, ttl |-> {}, class |-> {}, type |-> {}]
AllDirectives == {"$GENERATE", "$ORIGIN", "$TTL", "$INCLUDE"}

CheckOrigin(r, checkOrigin) ==
    LET apex == NodeAt(r.nodes, IF r.relativize THEN <<>> ELSE The(r.zoneOrigin))
    IN  CASE r.err # "none" \/ ~checkOrigin -> r
          [] "SOA" \notin DOMAIN apex -> Raises(r, "NoSOA")
          [] "NS" \notin DOMAIN apex -> Raises(r, "NoNS")
          [] OTHER -> r

ZoneFromText(lines, files, origin, relativize, checkOrigin) ==
    CheckOrigin(ReadLines(Reader(lines, origin, relativize, {}, AllDirectives, Unforced), files), checkOrigin)

ZoneFromFile(name, files, origin, relativize) ==
    ZoneFromText(files[name], files, origin, relativize, TRUE)

ReadRRsets(lines, origin, relativize, force, defaultTtl) ==
    ReadLines(Reader(lines, {origin}, relativize, defaultTtl, {}, force), <<>>)

-----------------------------------------------------------------------------
(* Zone.to_file, over Node.to_text and Rdataset.to_text.                   *)

RdataWords(rd, type, origin, relativize) ==
    LET name(labels) == Word("name", ChooseRelativity(labels, origin, relativize).labels)
    IN  CASE type = "A" -> <<Word("data", rd)>>
          [] type \in {"NS", "CNAME"} -> <<name(rd)>>
          [] type = "SOA" -> <<name(rd.mname), Word("number", rd.minimum)>>

RdatasetLines(name, type, set, origin, relativize) ==
    [i \in 1..Cardinality(set.rdatas) |->
        <<Word("name", ChooseRelativity(name, origin, relativize).labels), Word("number", set.ttl),
          Word("class", "IN"), Word("type", type)>>
        \o RdataWords(SetToSeq(set.rdatas)[i], type, origin, relativize)]

NodeLines(name, node, origin, relativize) ==
    LET types == SetToSeq(DOMAIN node)
    IN  FlattenSeq([i \in DOMAIN types |-> RdatasetLines(name, types[i], node[types[i]], origin, relativize)])

ZoneLines(nodes, origin, relativize, wantOrigin) ==
    LET names == SetToSortSeq(DOMAIN nodes, LAMBDA a, b : FullCompare(a, b).order < 0)
    IN  (IF wantOrigin THEN <<<<Word("directive", "$ORIGIN"), Word("name", origin)>>>> ELSE <<>>)
        \o FlattenSeq([i \in DOMAIN names |-> NodeLines(names[i], nodes[names[i]], {origin}, relativize)])

(* Other ways to write a file.                                             *)

Renamed(nodes, f(_)) ==
    [name \in {f(old) : old \in DOMAIN nodes} |->
        nodes[CHOOSE old \in DOMAIN nodes : f(old) = name]]

(* Nodes given absolute, as a zone keeps them that is relative or not.     *)
AsKept(nodes, origin, relativize) ==
    LET kept(name) == ChooseRelativity(name, {origin}, relativize).labels
        rd(type, data) == CASE type \in {"NS", "CNAME"} -> kept(data)
                            [] type = "SOA" -> [data EXCEPT !.mname = kept(@)]
                            [] OTHER -> data
        node(old) == [type \in DOMAIN old |->
                        [old[type] EXCEPT !.rdatas = {rd(type, data) : data \in @}]]
    IN  [name \in DOMAIN Renamed(nodes, kept) |-> node(Renamed(nodes, kept)[name])]

(* An owner left out where it is that of the line before.                  *)
BlankOwners(lines) ==
    [i \in DOMAIN lines |->
        IF i > 1 /\ lines[i][1] = lines[i - 1][1] THEN <<Blank>> \o Tail(lines[i]) ELSE lines[i]]

(* A TTL left out where it is the default.                                 *)
WithDefaultTtl(lines, ttl) ==
    <<<<Word("directive", "$TTL"), Word("number", ttl)>>>> \o
    [i \in DOMAIN lines |->
        IF lines[i][2] = Word("number", ttl) THEN <<lines[i][1]>> \o SubSeq(lines[i], 3, Len(lines[i]))
        ELSE lines[i]]

(* The owners under a child relative to it.                                *)
UnderChild(lines, child) ==
    [i \in DOMAIN lines |-> <<Word("name", RelativizeName(lines[i][1].value, child))>> \o Tail(lines[i])]

(* The lines under a child at the end after an $ORIGIN, or in a file of    *)
(* their own with another default TTL, included after line k.              *)
Splits(lines, child, ttl) ==
    LET below(line) == IsSubdomainOf(line[1].value, child)
        lower == WithDefaultTtl(UnderChild(SelectSeq(lines, below), child), ttl + 1)
        upper == SelectSeq(lines, LAMBDA line : ~below(line))
        brief == WithDefaultTtl(BlankOwners(upper), ttl)
        include(k) == SubSeq(brief, 1, k)
                      \o <<<<Word("directive", "$INCLUDE"), Word("file", "lower"), Word("name", child)>>>>
                      \o SubSeq(brief, k + 1, Len(brief))
    IN  { brief \o <<<<Word("directive", "$ORIGIN"), Word("name", child)>>>> \o lower }
        \cup { include(k) : k \in 2..Len(brief) }

LowerFile(lines, child, ttl) ==
    "lower" :> WithDefaultTtl(UnderChild(SelectSeq(lines, LAMBDA line : IsSubdomainOf(line[1].value, child)),
                                         child), ttl + 1)

(* What each of some files, of which one may be included, is read as: a    *)
(* pair of its lines and the origin that is given with them.               *)
ReadAs(files, lower, relativize) ==
    [file \in files |-> ZoneFromText(file[1], lower, file[2], relativize, TRUE)]

Means(read, nodes) == read.err = "none" /\ read.nodes = nodes

(* kept: the nodes as the zone keeps them; full: its lines, absolute.      *)
FilesOf(kept, full, origin, child, ttl) ==
    { <<ZoneLines(kept, origin, inText, wantOrigin), IF wantOrigin THEN {} ELSE {origin}>> :
        inText, wantOrigin \in BOOLEAN }
    \cup {<<lines, {origin}>> : lines \in Splits(full, child, ttl)}

EachMeans(read, files, nodes, short, long) ==
    /\ \A file \in files : Means(read[file], nodes)
    /\ Means(read[short], read[long].nodes)

FilesMean(files, kept, full, origin, lower, relativize, short, long) ==
    /\ EachMeans(ReadAs(files \cup {short, long}, lower, relativize), files, kept, short, long)
    /\ Means(ReadRRsets(full, origin, relativize, Unforced, {}), kept)

(* Whatever a zone is written as, the same zone is read: relative or not,  *)
(* with its origin or without, as RRsets; and abbreviated, with owners     *)
(* and TTLs left out, with a part of it under another origin or in a file  *)
(* of its own, wherever that is included, and with a $GENERATE (short) for *)
(* the records it stands for (long).                                       *)
FilesAgree(nodes, origin, child, ttl, short, long) ==
    \A relativize \in BOOLEAN :
        \E kept \in {AsKept(nodes, origin, relativize)}, full \in {ZoneLines(nodes, origin, FALSE, FALSE)} :
            FilesMean(FilesOf(kept, full, origin, child, ttl), kept, full, origin,
                      LowerFile(full, child, ttl), relativize,
                      <<full \o <<<<Word("directive", "$GENERATE"), Word("range", short)>>>>, {origin}>>,
                      <<full \o long, {origin}>>)

=============================================================================
