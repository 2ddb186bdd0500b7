------------------------------ MODULE Tokenizer ------------------------------
(***************************************************************************)
(* dns.tokenizer: the text of a master file as tokens, with parentheses    *)
(* that join lines, quoted strings, escapes and comments.  A text is a     *)
(* sequence of characters, a tokenizer what it has not read of the text,   *)
(* and its state.                                                          *)
(***************************************************************************)
EXTENDS Names

Space == 32
Tab == 9
Newline == 10
Quote == 34
Opening == 40
Closing == 41
Semicolon == 59
Backslash == 92
EndOfText == 0 - 1    \* what read(1) gives at the end

GluedCommentMutant == {Space, Tab, Newline, Opening, Closing, Quote}

Delimiters == {Space, Tab, Newline, Semicolon, Opening, Closing, Quote}

Token(type, value, escaped) == [type |-> type, value |-> value, escaped |-> escaped]
Problem(what) == Token("error", <<what>>, FALSE)
IsEnd(token) == token.type \in {"EOL", "EOF"}

Tokenize(text) == [rest |-> text, multiline |-> 0, quoting |-> FALSE, ungotten |-> {}]

Peek(tk) == IF tk.rest = <<>> THEN EndOfText ELSE Head(tk.rest)
Consume(tk) == [tk EXCEPT !.rest = IF @ = <<>> THEN @ ELSE Tail(@)]

(* skip_whitespace, and in parentheses the ends of lines.                  *)
RECURSIVE SkipWhitespace(_)
SkipWhitespace(tk) ==
    IF Peek(tk) \in {Space, Tab} \/ (Peek(tk) = Newline /\ tk.multiline > 0)
    THEN SkipWhitespace(Consume(tk)) ELSE tk

RECURSIVE SkipComment(_)
SkipComment(tk) == IF Peek(tk) \in {Newline, EndOfText} THEN tk ELSE SkipComment(Consume(tk))

(* The loop of get(): so far is the token read up to here.  It gives the   *)
(* token and the tokenizer after it.                                       *)
RECURSIVE Scan(_, _, _)
Scan(tk, sofar, wantComment) ==
    LET c      == Peek(tk)
        next   == Consume(tk)
        empty  == sofar.value = <<>> /\ sofar.type # "quoted"
        gives(token, after) == [token |-> token, tk |-> after]
        skips(after) == Scan(SkipWhitespace(after), sofar, wantComment)
        ends   == gives(IF ~empty THEN sofar
                        ELSE IF tk.multiline > 0 THEN Problem("unbalanced parentheses")
                        ELSE Token("EOF", <<>>, FALSE), tk)
    IN  CASE c = EndOfText /\ tk.quoting -> gives(Problem("UnexpectedEnd"), tk)
          [] c = EndOfText /\ ~tk.quoting -> ends
          [] c = Quote /\ empty /\ ~tk.quoting ->
                Scan([next EXCEPT !.quoting = TRUE], [sofar EXCEPT !.type = "quoted"], wantComment)
          [] c = Quote /\ empty /\ tk.quoting -> skips([next EXCEPT !.quoting = FALSE])
          [] c = Quote /\ ~empty -> gives(sofar, tk)
          [] c \in Delimiters /\ ~tk.quoting /\ ~empty -> gives(sofar, tk)
          [] c = Opening /\ ~tk.quoting /\ empty -> skips([next EXCEPT !.multiline = @ + 1])
          [] c = Closing /\ ~tk.quoting /\ empty ->
                IF tk.multiline = 0 THEN gives(Problem("SyntaxError"), next)
                ELSE skips([next EXCEPT !.multiline = @ - 1])
          [] c = Newline /\ ~tk.quoting /\ empty -> gives(Token("EOL", <<c>>, FALSE), next)
          [] c = Semicolon /\ ~tk.quoting /\ empty ->
                LET after == SkipComment(next)
                IN  IF wantComment THEN gives(Token("comment", <<>>, FALSE), after)
                    ELSE IF Peek(after) = EndOfText THEN
                        gives(IF tk.multiline > 0 THEN Problem("unbalanced parentheses")
                              ELSE Token("EOF", <<>>, FALSE), after)
                    ELSE IF tk.multiline > 0 THEN skips(Consume(after))
                    ELSE gives(Token("EOL", <<Newline>>, FALSE), Consume(after))
          [] c = Newline /\ tk.quoting -> gives(Problem("newline in quoted string"), next)
          [] c = Backslash ->
                IF Peek(next) = EndOfText \/ (Peek(next) = Newline /\ ~tk.quoting)
                THEN gives(Problem("UnexpectedEnd"), next)
                ELSE Scan(Consume(next), [sofar EXCEPT !.value = @ \o <<c, Peek(next)>>, !.escaped = TRUE],
                          wantComment)
          [] OTHER -> Scan(next, [sofar EXCEPT !.value = Append(@, c)], wantComment)

(* get(): a token that was ungotten first, unless it is one nobody wants.  *)
Get(tk, wantLeading, wantComment) ==
    LET ungotten == CHOOSE token \in tk.ungotten : TRUE
        fresh    == [tk EXCEPT !.ungotten = {}]
        after    == SkipWhitespace(fresh)
    IN  IF /\ tk.ungotten # {}
           /\ ungotten.type = "whitespace" => wantLeading
           /\ ungotten.type = "comment" => wantComment
        THEN [token |-> ungotten, tk |-> fresh]
        ELSE IF wantLeading /\ after # fresh THEN [token |-> Token("whitespace", <<Space>>, FALSE), tk |-> after]
        ELSE Scan(after, Token("identifier", <<>>, FALSE), wantComment)

Unget(tk, token) == [tk EXCEPT !.ungotten = {token}]

-----------------------------------------------------------------------------
(* Token.unescape and unescape_to_bytes, which differ only in what they    *)
(* make of a character above 127.                                          *)
RECURSIVE Unescaped(_)
Unescaped(value) ==
    LET digits == SubSeq(value, 2, 4)
        code   == (digits[1] - 48) * 100 + (digits[2] - 48) * 10 + digits[3] - 48
        and(c, n) == LET rest == Unescaped(SubSeq(value, n + 1, Len(value)))
                     IN  [rest EXCEPT !.value = <<c>> \o @]
        fails(err) == [err |-> err, value |-> <<>>]
    IN  IF value = <<>> THEN [err |-> "none", value |-> <<>>]
        ELSE IF value[1] # Backslash THEN and(value[1], 1)
        ELSE IF Len(value) = 1 THEN fails("UnexpectedEnd")
        ELSE IF ~IsDigit(value[2]) THEN and(value[2], 2)
        ELSE IF Len(digits) < 3 THEN fails("UnexpectedEnd")
        ELSE IF (\E i \in 2..3 : ~IsDigit(digits[i])) \/ code > 255 THEN fails("SyntaxError")
        ELSE and(code, 4)

Unescape(token) ==
    LET done == Unescaped(token.value)
    IN  IF ~token.escaped \/ token.type = "error" THEN token
        ELSE IF done.err # "none" THEN Problem(done.err)
        ELSE Token(token.type, done.value, FALSE)

-----------------------------------------------------------------------------
(* The getters of rdata classes: what is wrong is a SyntaxError.           *)

Number(digits) == FoldLeft(LAMBDA n, c : n * 10 + c - 48, 0, digits)
AllDigits(value) == value # <<>> /\ \A i \in DOMAIN value : IsDigit(value[i])

Only(got, ok, value) ==
    [err |-> IF ok THEN "none" ELSE "SyntaxError", value |-> IF ok THEN value ELSE <<>>, tk |-> got.tk]

(* get_int and get_uint8, 16, 32 and 48.                                   *)
GetUint(tk, most) ==
    LET got == Get(tk, FALSE, FALSE)
        token == Unescape(got.token)
    IN  Only(got, token.type = "identifier" /\ AllDigits(token.value) /\ Number(token.value) <= most,
             token.value)

GetString(tk, maxLength) ==
    LET got == Get(tk, FALSE, FALSE)
        token == Unescape(got.token)
    IN  Only(got, token.type \in {"identifier", "quoted"} /\ (maxLength = 0 \/ Len(token.value) <= maxLength),
             token.value)

GetIdentifier(tk) ==
    LET got == Get(tk, FALSE, FALSE)
        token == Unescape(got.token)
    IN  Only(got, token.type = "identifier", token.value)

(* get_remaining: the tokens up to the end of the line, which is left.     *)
RECURSIVE GetRemaining(_, _, _)
GetRemaining(tk, tokens, maxTokens) ==
    LET got == Get(tk, FALSE, FALSE)
    IN  IF IsEnd(got.token) THEN [tokens |-> tokens, tk |-> Unget(got.tk, got.token)]
        ELSE IF got.token.type = "error" \/ Len(tokens) + 1 = maxTokens
        THEN [tokens |-> Append(tokens, got.token), tk |-> got.tk]
        ELSE GetRemaining(got.tk, Append(tokens, got.token), maxTokens)

(* concatenate_remaining_identifiers                                       *)
RECURSIVE ConcatenateRemaining(_, _, _)
ConcatenateRemaining(tk, sofar, allowEmpty) ==
    LET got == Get(tk, FALSE, FALSE)
        token == Unescape(got.token)
    IN  IF IsEnd(token) THEN Only([got EXCEPT !.tk = Unget(got.tk, token)], allowEmpty \/ sofar # <<>>, sofar)
        ELSE IF token.type # "identifier" THEN Only(got, FALSE, <<>>)
        ELSE ConcatenateRemaining(got.tk, sofar \o token.value, allowEmpty)

(* as_name: relativize_to is the zone's origin, or the current one.        *)
AsName(token, origin, relativize, relativizeTo) ==
    LET name == NameFromText(token.value, origin)
    IN  IF token.type # "identifier" THEN Raised("SyntaxError")
        ELSE IF name.err # "none" THEN name
        ELSE ChooseRelativity(name.labels,
                 IF relativizeTo \in {{}, {<<>>}} THEN origin ELSE relativizeTo, relativize)

(* get_eol_as_token *)
GetEol(tk) ==
    LET got == Get(tk, FALSE, FALSE)
    IN  [err |-> IF IsEnd(got.token) THEN "none" ELSE "SyntaxError", tk |-> got.tk]

(* dns.ttl.from_text: a number, or numbers with units.                     *)
Unit(c) ==
    CASE c \in {87, 119} -> 604800 [] c \in {68, 100} -> 86400 [] c \in {72, 104} -> 3600
      [] c \in {77, 109} -> 60 [] c \in {83, 115} -> 1 [] OTHER -> 0

TtlFromText(value, most) ==
    LET read == FoldLeft(LAMBDA t, c :
                    IF IsDigit(c) THEN [t EXCEPT !.current = @ * 10 + c - 48, !.needDigit = FALSE]
                    ELSE [t EXCEPT !.bad = @ \/ t.needDigit \/ Unit(c) = 0, !.needDigit = TRUE,
                                   !.total = @ + t.current * Unit(c), !.current = 0],
                    [total |-> 0, current |-> 0, needDigit |-> TRUE, bad |-> FALSE], value)
        total == IF AllDigits(value) THEN Number(value) ELSE read.total
        bad == value = <<>> \/ (~AllDigits(value) /\ (read.bad \/ read.current # 0)) \/ total > most
    IN  IF bad THEN {} ELSE {total}

-----------------------------------------------------------------------------
(* One text, laid out in three ways: on a line; in parentheses over lines, *)
(* with comments; and, for a string, in quotes.                            *)
QuotedText(value) ==
    <<Quote>> \o FlattenSeq([i \in DOMAIN value |->
        IF value[i] \in {Quote, Backslash} THEN <<Backslash, value[i]>>
        ELSE IF value[i] \in 32..126 THEN <<value[i]>> ELSE EscapedByte(value[i])]) \o <<Quote>>

Layouts(values) ==
    LET text(between) == FlattenSeq([i \in DOMAIN values |-> Escapify(values[i]) \o between])
        quoted == FlattenSeq([i \in DOMAIN values |-> QuotedText(values[i]) \o <<Tab>>])
    IN  { text(<<Space>>), quoted, quoted \o <<Newline>> \o quoted,
          <<Opening, Newline>> \o text(<<Semicolon, Quote, Opening, Newline, Space>>) \o <<Closing, Semicolon>>,
          text(<<Space, Opening, Newline, Closing>>) \o <<Newline>> \o quoted }

ValuesIn(text) ==
    LET read == GetRemaining(Tokenize(text), <<>>, 0)
    IN  [i \in DOMAIN read.tokens |-> Unescape(read.tokens[i]).value]

(* The same, one by one with get_string, up to the end of the line.        *)
RECURSIVE StringsIn(_, _)
StringsIn(tk, n) ==
    LET got == GetString(tk, 0)
    IN  IF n = 0 THEN IF GetEol(tk).err = "none" THEN <<>> ELSE <<"no end of line">>
        ELSE IF got.err # "none" THEN <<got.err>>
        ELSE <<got.value>> \o StringsIn(got.tk, n - 1)

(* However they are laid out, the strings that were escaped or quoted are  *)
(* the ones that are read, each in a token of its own, and no characters   *)
(* in them end a token, a line or a comment.                               *)
LayoutIsFree(values) ==
    \A text \in Layouts(values) :
        /\ ValuesIn(text) = values
        /\ StringsIn(Tokenize(text), Len(values)) = values
        /\ Head(text) # Quote => ConcatenateRemaining(Tokenize(text), <<>>, FALSE).value = FlattenSeq(values)

(* A name keeps its meaning as a token of its own: its text is one token   *)
(* and no comment, line or string begins in it.                            *)
NameIsToken(labels) ==
    LET got == Get(Tokenize(NameText(labels, FALSE) \o <<Semicolon>>), TRUE, FALSE)
    IN  /\ AsName(got.token, {}, FALSE, {}) = Is(labels)
        /\ GetEol(got.tk).err = "none"

(* A time to live is what its digits, or its digits and units, say: one    *)
(* that is given in any order of its units is their sum.                   *)
TtlIsSum(numbers, units, most) ==
    LET text == FlattenSeq([i \in DOMAIN units |-> <<48 + numbers[i], units[i]>>])
        sum  == FoldLeft(LAMBDA total, i : total + numbers[i] * Unit(units[i]), 0,
                         [i \in DOMAIN units |-> i])
    IN  /\ TtlFromText(text, most) = IF units # <<>> /\ sum <= most THEN {sum} ELSE {}
        /\ TtlFromText(Append(text, 49), most) = IF units = <<>> THEN {1} ELSE {}
        /\ LET digits == [i \in DOMAIN numbers |-> 48 + numbers[i]]
           IN  (GetUint(Tokenize(digits), most).err = "none") = (digits # <<>> /\ Number(digits) <= most)
        /\ GetIdentifier(Tokenize(text)).err = IF units = <<>> THEN "SyntaxError" ELSE "none"
=============================================================================
