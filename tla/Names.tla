-------------------------------- MODULE Names --------------------------------
(***************************************************************************)
(* Names as dns.name keeps them: a sequence of labels, a label a sequence  *)
(* of bytes, an absolute name one that ends in the empty label.  What is   *)
(* modelled is what the rest of the package relies on: the text form and   *)
(* the way back, the order, and making names relative to an origin.        *)
(*                                                                         *)
(* An optional name is a set of at most one name.  A failed operation      *)
(* gives the exception in err, and no labels.                              *)
(***************************************************************************)
EXTENDS Integers, Sequences, SequencesExt

CONSTANTS
    MaxLabel,   \* the longest label: 63 in the code, fewer here so that it is met
    MaxName,    \* the longest name on the wire: 255 in the code
    OtherNames  \* the names that a name is compared with

VARIABLE given  \* [kind, value]: what is written, read or compared; a name, if kind is "name"

Is(labels) == [err |-> "none", labels |-> labels]
Raised(err) == [err |-> err, labels |-> <<>>]

(* Lower, upper and digit bytes, and the dots of other scripts.            *)
LowerLabel(label) == [i \in DOMAIN label |-> IF label[i] \in 65..90 THEN label[i] + 32 ELSE label[i]]
IsDigit(c) == c \in 48..57
Dots == {46, 12290, 65294, 65377}

Octets(labels) ==
    LET sum[n \in 0 .. Len(labels)] == IF n = 0 THEN 0 ELSE sum[n - 1] + Len(labels[n]) + 1
    IN  sum[Len(labels)]

(* Every name is made by way of _validate_labels.                          *)
MakeName(labels) ==
    IF \E i \in DOMAIN labels : Len(labels[i]) > MaxLabel THEN Raised("LabelTooLong")
    ELSE IF Octets(labels) > MaxName THEN Raised("NameTooLong")
    ELSE IF \E i \in DOMAIN labels : labels[i] = <<>> /\ i # Len(labels) THEN Raised("EmptyLabel")
    ELSE Is(labels)

IsName(labels) == labels \in Seq(Seq(0..255)) /\ MakeName(labels).err = "none"

ASSUME NamesAssumption == \A b \in OtherNames : IsName(b)

IsAbsolute(labels) == labels # <<>> /\ Last(labels) = <<>>
RootName == << <<>> >>

-----------------------------------------------------------------------------
(* Text.                                                                   *)

Special == {34, 36, 40, 41, 46, 59, 64, 92}

PlainAtMutant(c) ==
    IF c \in Special \ {64} THEN <<92, c>>
    ELSE IF c \in 33..126 THEN <<c>>
    ELSE <<92, 48 + (c \div 100), 48 + ((c \div 10) % 10), 48 + (c % 10)>>

EscapedByte(c) ==
    IF c \in Special THEN <<92, c>>
    ELSE IF c \in 33..126 THEN <<c>>
    ELSE <<92, 48 + (c \div 100), 48 + ((c \div 10) % 10), 48 + (c % 10)>>

Escapify(label) == FlattenSeq([i \in DOMAIN label |-> EscapedByte(label[i])])

(* A str is escaped less: only what is special, and blanks.                *)
EscapifyStr(label) ==
    FlattenSeq([i \in DOMAIN label |-> IF label[i] > 126 THEN <<label[i]>> ELSE EscapedByte(label[i])])

(* Puny stands for the punycode of a label: any coding that can be undone. *)
Ace == <<120, 110, 45, 45>>
Puny(label) ==
    FlattenSeq([i \in DOMAIN label |->
        <<97 + (label[i] \div 4096), 97 + ((label[i] \div 256) % 16),
          97 + ((label[i] \div 16) % 16), 97 + (label[i] % 16)>>])
Unpuny(coded) ==
    [i \in 1..(Len(coded) \div 4) |->
        LET nibble(k) == coded[4 * i - k] - 97
        IN  nibble(3) * 4096 + nibble(2) * 256 + nibble(1) * 16 + nibble(0)]

IsIdna(label) == Len(label) >= 4 /\ LowerLabel(SubSeq(label, 1, 4)) = Ace

IdnaEncode(label) ==
    LET coded == IF \A i \in DOMAIN label : label[i] < 128 THEN label ELSE Ace \o Puny(label)
    IN  IF Len(coded) > MaxLabel THEN Raised("LabelTooLong") ELSE Is(<<coded>>)

IdnaDecode(label) ==
    IF IsIdna(label) THEN EscapifyStr(Unpuny(SubSeq(label, 5, Len(label)))) ELSE Escapify(label)

(* form is "bytes" or "unicode".                                           *)
Joined(labels, form) ==
    FlattenSeq([i \in DOMAIN labels |->
        (IF i = 1 THEN <<>> ELSE <<46>>)
        \o IF form = "unicode" THEN IdnaDecode(labels[i]) ELSE Escapify(labels[i])])

Written(labels, omitFinalDot, form) ==
    IF labels = <<>> THEN <<64>>
    ELSE IF labels = RootName THEN <<46>>
    ELSE Joined(IF omitFinalDot /\ IsAbsolute(labels) THEN Front(labels) ELSE labels, form)

NameText(labels, omitFinalDot) == Written(labels, omitFinalDot, "bytes")
UnicodeText(labels, omitFinalDot) == Written(labels, omitFinalDot, "unicode")

(* One more character of a name: labels are those that are complete, label *)
(* the one being read, digits and total what an escape has given so far.   *)
DotsOf(form) == IF form = "unicode" THEN Dots ELSE {46}
EncodeLabel(label, form) == IF form = "unicode" THEN IdnaEncode(label) ELSE Is(<<label>>)

ReadChar(st, c, form) ==
    LET fail(err) == [st EXCEPT !.err = err]
        total     == st.total * 10 + c - 48
    IN  IF st.err # "none" THEN st
        ELSE IF st.escaping /\ st.digits = 0 /\ ~IsDigit(c) THEN
            [st EXCEPT !.label = Append(@, c), !.escaping = FALSE]
        ELSE IF st.escaping /\ ~IsDigit(c) THEN fail("BadEscape")
        ELSE IF st.escaping /\ st.digits < 2 THEN [st EXCEPT !.digits = @ + 1, !.total = total]
        ELSE IF st.escaping THEN
            IF total > 255 /\ form = "bytes" THEN fail("struct.error")
            ELSE [st EXCEPT !.label = Append(@, total), !.escaping = FALSE]
        ELSE IF c \in DotsOf(form) THEN
            IF st.label = <<>> THEN fail("EmptyLabel")
            ELSE LET coded == EncodeLabel(st.label, form)
                 IN  [st EXCEPT !.label = <<>>, !.err = coded.err, !.labels = @ \o coded.labels]
        ELSE IF c = 92 THEN [st EXCEPT !.escaping = TRUE, !.digits = 0, !.total = 0]
        ELSE [st EXCEPT !.label = Append(@, c)]

ReadName(text, origin, form) ==
    LET start == [labels |-> <<>>, label |-> <<>>, escaping |-> FALSE,
                  digits |-> 0, total |-> 0, err |-> "none"]
        reads[n \in 0 .. Len(text)] == IF n = 0 THEN start ELSE ReadChar(reads[n - 1], text[n], form)
        read  == reads[Len(text)]
        coded == IF read.label = <<>> THEN Is(RootName) ELSE EncodeLabel(read.label, form)
        under(labels) ==
            IF (labels = <<>> \/ Last(labels) # <<>>) /\ origin # {}
            THEN labels \o CHOOSE o \in origin : TRUE
            ELSE labels
    IN  IF text = <<64>> \/ text = <<>> THEN MakeName(under(<<>>))
        ELSE IF Len(text) = 1 /\ text[1] \in DotsOf(form) THEN Is(RootName)
        ELSE IF read.err # "none" THEN Raised(read.err)
        ELSE IF read.escaping THEN Raised("BadEscape")
        ELSE IF coded.err # "none" THEN coded
        ELSE MakeName(under(read.labels \o coded.labels))

FromUnicode(text, origin) == ReadName(text, origin, "unicode")

NameFromText(text, origin) ==
    IF \E i \in DOMAIN text : text[i] > 127
    THEN FromUnicode(text, origin)
    ELSE ReadName(text, origin, "bytes")

-----------------------------------------------------------------------------
(* Order.                                                                  *)

LabelLess(a, b) ==
    \E n \in 0..Len(a) :
        /\ n < Len(b) /\ SubSeq(a, 1, n) = SubSeq(b, 1, n)
        /\ n = Len(a) \/ a[n + 1] < b[n + 1]

(* How many labels two names have in common, counted from the last.        *)
InCommon(a, b) ==
    LET shorter == IF Len(a) < Len(b) THEN Len(a) ELSE Len(b)
        same(k) == LowerLabel(a[Len(a) - k]) = LowerLabel(b[Len(b) - k])
    IN  CHOOSE n \in 0..shorter :
            (\A k \in 0..n - 1 : same(k)) /\ (n = shorter \/ ~same(n))

CasedMutant(a, b) ==
    LET n == InCommon(a, b)
    IN  IF IsAbsolute(a) # IsAbsolute(b) THEN [relation |-> "none", order |-> IF IsAbsolute(a) THEN 1 ELSE -1, common |-> 0]
        ELSE IF n = Len(a) \/ n = Len(b) THEN
            [relation |-> "equal", order |-> Len(a) - Len(b), common |-> n]
        ELSE [relation |-> "none", common |-> n,
              order |-> IF LabelLess(a[Len(a) - n], b[Len(b) - n]) THEN -1 ELSE 1]

FullCompare(a, b) ==
    LET n == InCommon(a, b)
    IN  IF IsAbsolute(a) # IsAbsolute(b) THEN
            [relation |-> "none", order |-> IF IsAbsolute(a) THEN 1 ELSE -1, common |-> 0]
        ELSE IF n = Len(a) \/ n = Len(b) THEN
            [relation |-> IF Len(a) < Len(b) THEN "superdomain"
                          ELSE IF Len(a) > Len(b) THEN "subdomain" ELSE "equal",
             order |-> Len(a) - Len(b), common |-> n]
        ELSE [relation |-> IF n > 0 THEN "common ancestor" ELSE "none", common |-> n,
              order |-> IF LabelLess(LowerLabel(a[Len(a) - n]), LowerLabel(b[Len(b) - n]))
                        THEN -1 ELSE 1]

SameName(a, b) == FullCompare(a, b).order = 0
IsSubdomainOf(a, b) == FullCompare(a, b).relation \in {"subdomain", "equal"}
IsSuperdomainOf(a, b) == FullCompare(a, b).relation \in {"superdomain", "equal"}

CanonicalName(labels) == [i \in DOMAIN labels |-> LowerLabel(labels[i])]

(* to_digestable: the wire form of the canonical name, made absolute.      *)
Digestable(labels, origin) ==
    IF IsAbsolute(labels) THEN CanonicalName(labels)
    ELSE CanonicalName(labels \o CHOOSE o \in origin : TRUE)

-----------------------------------------------------------------------------
(* Relativity.                                                             *)

ConcatenateNames(a, b) ==
    IF IsAbsolute(a) /\ b # <<>> THEN Raised("AbsoluteConcatenation") ELSE MakeName(a \o b)

SplitName(labels, depth) ==
    <<SubSeq(labels, 1, Len(labels) - depth), SubSeq(labels, Len(labels) - depth + 1, Len(labels))>>

(* self[: -len(origin)] is empty for an origin without labels.             *)
RelativizeName(labels, origin) ==
    IF ~IsSubdomainOf(labels, origin) THEN labels
    ELSE IF origin = <<>> THEN <<>>
    ELSE SubSeq(labels, 1, Len(labels) - Len(origin))

DerelativizeName(labels, origin) ==
    IF IsAbsolute(labels) THEN Is(labels) ELSE ConcatenateNames(labels, origin)

(* An origin without labels is as good as none: it is false.               *)
ChooseRelativity(labels, origin, relativize) ==
    IF origin \in {{}, {<<>>}} THEN Is(labels)
    ELSE LET o == CHOOSE o \in origin : TRUE
         IN  IF relativize THEN Is(RelativizeName(labels, o)) ELSE DerelativizeName(labels, o)

ParentOf(labels) == IF labels \in {<<>>, RootName} THEN Raised("NoParent") ELSE Is(Tail(labels))

-----------------------------------------------------------------------------
(* A label that means something else in Unicode than in bytes.             *)
Mixed(labels) ==
    /\ \E i \in DOMAIN labels : IsIdna(labels[i])
    /\ \E i \in DOMAIN labels : ~IsIdna(labels[i]) /\ \E k \in DOMAIN labels[i] : labels[i][k] > 127

(* The text of a name, read again with no origin, is that name; and so is  *)
(* its Unicode text, but for case, unless the name mixes labels in         *)
(* punycode with labels of bytes above 127: reading the text as Unicode    *)
(* would turn the escapes of those into punycode as well.                  *)
NameSurvives(labels) ==
    /\ NameFromText(NameText(labels, FALSE), {}) = Is(labels)
    /\ IsAbsolute(labels) => NameFromText(NameText(labels, TRUE), {RootName}) = Is(labels)
    /\ ~Mixed(labels) =>
        LET back == NameFromText(UnicodeText(labels, FALSE), {})
        IN  back.err = "none" /\ SameName(back.labels, labels)

(* The order of names is total and is the one names are digested in: names *)
(* compare equal when, and only when, they have one digestable form; every *)
(* name is a subdomain of its parent; and to make a name relative          *)
(* to an origin above it, and absolute again, gives the name back.         *)
NamesOrdered(a, names) ==
    /\ \A b \in names :
        LET ab == FullCompare(a, b)   ba == FullCompare(b, a)
        IN  /\ (ab.order < 0) = (ba.order > 0)
            /\ IsAbsolute(a) = IsAbsolute(b) =>
                 (ab.order = 0) = (Digestable(a, {RootName}) = Digestable(b, {RootName}))
            /\ \A c \in names : ab.order < 0 /\ FullCompare(b, c).order <= 0 => FullCompare(a, c).order < 0
            /\ IsSubdomainOf(a, b) = IsSuperdomainOf(b, a)
            /\ IsSubdomainOf(a, b) /\ b # <<>> =>
                 /\ SameName(RelativizeName(a, b) \o b, a)
                 /\ IsAbsolute(b) => LET back == DerelativizeName(RelativizeName(a, b), b)
                                   IN  back.err = "none" /\ SameName(back.labels, a)
    /\ \A depth \in 0..Len(a) : SplitName(a, depth)[1] \o SplitName(a, depth)[2] = a
    /\ ParentOf(a).err = "none" => FullCompare(a, ParentOf(a).labels).relation = "subdomain"

(* A name survives being written and read, however it is written.          *)
NamesSurvive == given.kind = "name" => NameSurvives(given.value)

(* The order of names, and making them relative, agree with the form they  *)
(* are digested in.                                                        *)
OrderAgrees == given.kind = "name" => NamesOrdered(given.value, OtherNames)

=============================================================================
