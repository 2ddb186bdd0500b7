-------------------------------- MODULE Wire --------------------------------
(***************************************************************************)
(* Messages in wire format: rendered with name compression, a size limit   *)
(* and rollback (dns/renderer.py, Name.to_wire, Rdataset.to_wire, the last *)
(* part of Message.to_wire), and read again (dns/wire.py, from_wire_parser *)
(* of dns/name.py, _WireReader of dns/message.py).                         *)
(*                                                                         *)
(* The output is a sequence of cells instead of octets: a label, the root, *)
(* a pointer, the fixed part of a question or record, a datum.  Offsets    *)
(* start at 0.  A name is a sequence of labels; an absolute one ends with  *)
(* the label "".                                                           *)
(***************************************************************************)
EXTENDS Integers, Sequences, SequencesExt, Functions

CONSTANTS
    Fold(_),        \* the lower case of a label
    ZoneOrigin,           \* the origin: an absolute name
    Questions,      \* names that may be asked for
    RRsets,         \* what may be added: [section, name, type, rdatas], the
                    \* last a sequence; the data of type "NS" are names
    Profiles,       \* [edns, options, pad, key] of the messages made
    MaxPointer,     \* the greatest offset of a pointer: 0x3FFF octets
    MaxSize,        \* max_size
    MaxAdds         \* bound on what is added to a message

NamesGiven ==
    {ZoneOrigin} \cup Questions \cup {rrset.name : rrset \in RRsets} \cup {p.key : p \in Profiles}
    \cup UNION {Range(rrset.rdatas) : rrset \in {r \in RRsets : r.type = "NS"}}

Labels == {""} \cup UNION {Range(name) : name \in NamesGiven}

(* Names are made by Name(), which refuses an empty label that is not the  *)
(* last.  An OPT or a TSIG is never added as an RRset of a section.        *)
ASSUME WireAssumption ==
    /\ MaxPointer \in Nat /\ MaxSize \in Nat /\ MaxAdds \in Nat
    /\ \A name \in NamesGiven : name \in Seq(Labels) /\ \A i \in 1 .. Len(name) - 1 : name[i] # ""
    /\ \A label \in Labels : Fold(label) = Fold("") => label = ""
    /\ ZoneOrigin # <<>> /\ Last(ZoneOrigin) = ""
    /\ \A rrset \in RRsets :
         /\ rrset.section \in 1 .. 3 /\ rrset.type \notin {"OPT", "TSIG"}
         /\ rrset.rdatas \in Seq(Range(rrset.rdatas))
    /\ \A p \in Profiles : p.edns \in BOOLEAN /\ p.options \in Nat /\ p.pad \in Nat

VARIABLES
    renderer,       \* its output, compress, section, counts, max_size
    added,          \* the records that were added
    profile, adds, status

wireVars == <<renderer, added, profile, adds, status>>

Sections == 0 .. 3      \* QUESTION, ANSWER, AUTHORITY, ADDITIONAL

Absolute(name) == name # <<>> /\ Last(name) = ""
Folded(name) == [i \in DOMAIN name |-> Fold(name[i])]
SuffixFrom(name, i) == SubSeq(name, i, Len(name))

(* relativize(): the origin is cut off, whatever its case.                 *)
Relativized(name) ==
    LET n == Len(name) - Len(ZoneOrigin)
    IN  IF n >= 0 /\ Folded(SuffixFrom(name, n + 1)) = Folded(ZoneOrigin) THEN SubSeq(name, 1, n) ELSE name

-----------------------------------------------------------------------------
(* Rendering.                                                              *)

StaleOffsetsMutant(r, where) == [r EXCEPT !.output = SubSeq(@, 1, where)]

(* _rollback: what was written from offset where on is undone.             *)
Rollback(r, where) ==
    [r EXCEPT !.output = SubSeq(@, 1, where),
              !.compress = Restrict(@, {name \in DOMAIN @ : @[name] < where})]

Derelativized(name) == IF Absolute(name) THEN name ELSE name \o ZoneOrigin

(* How many labels come before the first suffix that was written before.   *)
Unshared(r, labels) ==
    LET known == {i \in DOMAIN labels : Folded(SuffixFrom(labels, i)) \in DOMAIN r.compress}
    IN  IF known = {} THEN Len(labels) ELSE (CHOOSE i \in known : \A j \in known : i <= j) - 1

LabelCell(label) == IF label = "" THEN [kind |-> "root"] ELSE [kind |-> "label", text |-> label]

(* Name.to_wire: those labels, and a pointer to that suffix.               *)
WriteName(r, name) ==
    LET labels == Derelativized(name)
        start == Len(r.output)
        plain == Unshared(r, labels)
        pointer == IF plain = Len(labels) THEN <<>>
                   ELSE <<[kind |-> "pointer", to |-> r.compress[Folded(SuffixFrom(labels, plain + 1))]]>>
        noted == {Folded(SuffixFrom(labels, i)) :
                     i \in {k \in 1 .. plain : k < Len(labels) /\ start + k - 1 <= MaxPointer}}
    IN  [r EXCEPT
           !.output = @ \o [i \in 1 .. plain |-> LabelCell(labels[i])] \o pointer,
           !.compress = [suffix \in DOMAIN r.compress \cup noted |->
                            IF suffix \in DOMAIN r.compress THEN r.compress[suffix]
                            ELSE start + Len(labels) - Len(suffix)]]

Write(r, cell) == [r EXCEPT !.output = Append(@, cell)]

(* Rdataset.to_wire, one record: rdlen is filled in when it is known.      *)
WriteRecord(r, name, type, rd) ==
    LET owner == WriteName(r, name)
        fixed == Len(owner.output) + 1
        open == Write(owner, [kind |-> "record", type |-> type, rdlen |-> 0])
        whole == CASE type = "NS" -> WriteName(open, rd)
                   [] type = "OPT" -> [open EXCEPT !.output = @ \o [i \in 1 .. rd |-> [kind |-> "option"]]]
                   [] OTHER -> Write(open, [kind |-> "datum", value |-> rd])
    IN  [whole EXCEPT !.output[fixed].rdlen = Len(whole.output) - fixed]

(* add_question and add_rrset, in the order of sections.  fits is FALSE    *)
(* when they raise TooBig: _track_size has undone what they wrote.         *)
Tracked(r, after, section, count) ==
    IF Len(after.output) > r.max THEN [Rollback(after, Len(r.output)) EXCEPT !.fits = FALSE]
    ELSE [after EXCEPT !.fits = TRUE, !.counts[section] = @ + count]

AddQuestion(r, name) ==
    Tracked(r, Write(WriteName(r, name), [kind |-> "question"]), 0, 1)

AddRRset(r, section, name, type, rds) ==
    LET so[n \in 0 .. Len(rds)] ==
            IF n = 0 THEN [r EXCEPT !.section = section] ELSE WriteRecord(so[n - 1], name, type, rds[n])
    IN  Tracked(r, so[Len(rds)], section, Len(rds))

WriteHeader(r) == [r EXCEPT !.output[1] = [kind |-> "header", counts |-> r.counts]]

(* _compute_opt_reserve: owner, fixed part, options, the padding's head.   *)
OptReserve(p) == IF p.edns THEN 2 + p.options + (IF p.pad > 0 THEN 1 ELSE 0) ELSE 0
TsigReserve(p) == IF p.key = <<>> THEN 0 ELSE Len(p.key) + 2

NewRenderer(p) ==
    [output |-> <<[kind |-> "header", counts |-> [s \in Sections |-> 0]]>>,
     compress |-> [name \in {} |-> 0], section |-> 0, counts |-> [s \in Sections |-> 0],
     max |-> MaxSize - OptReserve(p) - TsigReserve(p), fits |-> TRUE]

(* add_opt: an option that fills up to a multiple of pad.                  *)
AddOpt(r, p) ==
    LET size == Len(r.output) + OptReserve(p) + TsigReserve(p)
        padding == IF p.pad = 0 THEN 0 ELSE 1 + (IF size % p.pad = 0 THEN 0 ELSE p.pad - (size % p.pad))
    IN  IF ~p.edns THEN r ELSE AddRRset(r, 3, <<"">>, "OPT", <<p.options + padding>>)

AddTsig(r, p) ==
    IF p.key = <<>> THEN r ELSE WriteHeader(AddRRset(r, 3, p.key, "TSIG", <<0>>))

-----------------------------------------------------------------------------
(* Reading.                                                                *)

(* restore_furthest: reading goes on after the first pointer or the root.  *)
Ends(wire, start) == {p \in start + 1 .. Len(wire) : wire[p].kind # "label"}
AfterName(wire, start) == CHOOSE p \in Ends(wire, start) : \A q \in Ends(wire, start) : p <= q

(* from_wire_parser: labels, and what a pointer leads to.  It must lead to *)
(* before where the name began, or before the last pointer led to.         *)
NamesIn(wire) ==
    LET bad == [ok |-> FALSE, labels |-> <<>>]
        from[start \in 0 .. Len(wire)] ==
            LET end == AfterName(wire, start)
                labels == [i \in 1 .. end - start - 1 |-> wire[start + i].text]
            IN  IF Ends(wire, start) = {} THEN bad
                ELSE IF wire[end].kind = "root" THEN [ok |-> TRUE, labels |-> labels \o <<"">>]
                ELSE IF wire[end].kind = "pointer" /\ wire[end].to < start
                THEN [from[wire[end].to] EXCEPT !.labels = labels \o @]
                ELSE bad
    IN  from
NameAt(wire, start) == NamesIn(wire)[start]

Malformed(m) == [m EXCEPT !.ok = FALSE]

(* find_rrset with create: the index knows the RRset of a name and type.   *)
Found(m, section, name, type) ==
    LET key == <<section, Folded(name), type>>
    IN  IF key \in DOMAIN m.index THEN m
        ELSE [m EXCEPT !.sections[section] = Append(@, [name |-> name, type |-> type, rds |-> {}]),
                       !.index = [k \in DOMAIN m.index \cup {key} |->
                                    IF k = key THEN Len(m.sections[section]) + 1 ELSE m.index[k]]]

ReadQuestion(wire, m) ==
    LET name == NameAt(wire, m.at)
        end == AfterName(wire, m.at)
    IN  IF ~m.ok \/ ~name.ok \/ wire[end + 1].kind # "question" THEN Malformed(m)
        ELSE [m EXCEPT !.at = end + 1,
                       !.sections[0] = Append(@, [name |-> Relativized(name.labels), type |-> "ANY", rds |-> {}])]

(* _get_section, one record.  It must end where its rdlen says.            *)
ReadRecord(wire, m, section) ==
    LET name == NameAt(wire, m.at)
        end == AfterName(wire, m.at)
        fixed == wire[end + 1]
        start == end + 1
        target == NameAt(wire, start)
        isName == fixed.type = "NS"
        rd == IF isName THEN Relativized(target.labels) ELSE wire[start + 1].value
        found == Found(m, section, Relativized(name.labels), fixed.type)
        index == found.index[<<section, Folded(Relativized(name.labels)), fixed.type>>]
    IN  IF ~m.ok \/ ~name.ok \/ fixed.kind # "record" \/ start + fixed.rdlen > Len(wire) THEN Malformed(m)
        ELSE IF fixed.type = "OPT"
             THEN [m EXCEPT !.at = start + fixed.rdlen, !.opt = fixed.rdlen,
                            !.ok = section = 3 /\ m.opt = -1 /\ name.labels = <<"">>]
        ELSE IF fixed.type = "TSIG"
             THEN [m EXCEPT !.at = start + fixed.rdlen, !.ok = section = 3 /\ start + fixed.rdlen = Len(wire)]
        ELSE IF isName /\ (~target.ok \/ AfterName(wire, start) # start + fixed.rdlen) THEN Malformed(m)
        ELSE [found EXCEPT !.at = start + fixed.rdlen,
                           !.sections[section][index].rds = @ \cup {IF isName THEN Folded(rd) ELSE rd}]

(* _WireReader.read: the sections in order, and nothing after them.        *)
ReadSection(wire, m, section, count) ==
    LET so[n \in 0 .. count] ==
            IF n = 0 THEN m
            ELSE IF section = 0 THEN ReadQuestion(wire, so[n - 1]) ELSE ReadRecord(wire, so[n - 1], section)
    IN  so[count]

Unread == [ok |-> TRUE, at |-> 1, sections |-> [s \in Sections |-> <<>>], index |-> [key \in {} |-> 0], opt |-> -1]

Ended(wire, m) == [m EXCEPT !.ok = @ /\ m.at = Len(wire)]

ReadMessage(wire) ==
    LET counts == wire[1].counts
        questions == ReadSection(wire, Unread, 0, counts[0])
        answers == ReadSection(wire, questions, 1, counts[1])
        authorities == ReadSection(wire, answers, 2, counts[2])
    IN  Ended(wire, ReadSection(wire, authorities, 3, counts[3]))

-----------------------------------------------------------------------------

WireInit ==
    /\ profile \in Profiles
    /\ renderer = NewRenderer(profile)
    /\ added = {} /\ adds = 0 /\ status = "open"

Adds(r, records) ==
    /\ renderer' = r
    /\ added' = IF r.fits THEN added \cup records ELSE added
    /\ adds' = adds + 1
    /\ UNCHANGED <<profile, status>>

(* An application adds what it has, and leaves out what is too big.        *)
AddsQuestion ==
    /\ status = "open" /\ adds < MaxAdds /\ renderer.section = 0
    /\ \E name \in Questions :
         Adds(AddQuestion(renderer, name), {<<0, Folded(Relativized(name)), "ANY", <<>>>>})

AddsRRset ==
    /\ status = "open" /\ adds < MaxAdds
    /\ \E rrset \in RRsets :
         /\ rrset.section >= renderer.section
         /\ Adds(AddRRset(renderer, rrset.section, rrset.name, rrset.type, rrset.rdatas),
                 {<<rrset.section, Folded(Relativized(rrset.name)), rrset.type,
                    IF rrset.type = "NS" THEN Folded(Relativized(rd)) ELSE rd>> : rd \in Range(rrset.rdatas)})

(* The last part of to_wire: the space reserved is released, and used.     *)
Finishes ==
    /\ status = "open"
    /\ LET released == [renderer EXCEPT !.max = MaxSize, !.fits = TRUE]
           opt == AddOpt(released, profile)
           tsig == AddTsig(WriteHeader(opt), profile)
       IN  /\ renderer' = IF opt.fits THEN tsig ELSE opt
           /\ status' = IF opt.fits /\ tsig.fits THEN "done" ELSE "too big"
    /\ UNCHANGED <<added, profile, adds>>

WireNext == AddsQuestion \/ AddsRRset \/ Finishes

WireSpec == WireInit /\ [][WireNext]_wireVars

-----------------------------------------------------------------------------

(* A message has all the records and no others, and one RRset each.        *)
Held(s, rrset) ==
    {<<s, Folded(rrset.name), rrset.type, rd>> : rd \in IF s = 0 THEN {<<>>} ELSE rrset.rds}
RecordsIn(s, rrsets) == UNION {Held(s, rrset) : rrset \in Range(rrsets)}
OneEach(rrsets) ==
    \A i, j \in DOMAIN rrsets :
        i # j => rrsets[i].type # rrsets[j].type \/ Folded(rrsets[i].name) # Folded(rrsets[j].name)
Restored(message, records) ==
    /\ message.ok
    /\ UNION {RecordsIn(s, message.sections[s]) : s \in Sections} = records
    /\ \A s \in Sections \ {0} : OneEach(message.sections[s])

(* At every moment the output reads back as the records that were added,   *)
(* one RRset for each name and type, though it was rolled back, and shares *)
(* the ends of names and forgets their case.                               *)
RoundTrip == status # "too big" => Restored(ReadMessage(WriteHeader(renderer).output), added)

=============================================================================
