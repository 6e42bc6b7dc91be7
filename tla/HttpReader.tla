----------------------------- MODULE HttpReader -----------------------------
(***************************************************************************)
(* The incremental HTTP readers and the writer (http/http_reader.hh,       *)
(* http_writer.cc): messages are written into a ring as room allows and    *)
(* read from it in pieces cut anywhere.                                    *)
(*                                                                         *)
(* A text is a sequence of tokens: a token is a character the grammar      *)
(* knows (space, tab, colon, CR, LF) or a run of others, which readers     *)
(* only append.  A string is a text too.  Names of headers are compared as *)
(* tokens, so without the code's regard for their case.                    *)
(***************************************************************************)
EXTENDS Integers, Sequences, SequencesExt

CRLF == <<"CR", "LF">>
Blank == {"SP", "TAB"}
Number == [digit \in {"0", "1", "2"} |-> CASE digit = "0" -> 0 [] digit = "1" -> 1 [] digit = "2" -> 2]

From(s, i) == SubSeq(s, i, Len(s))
Upto(s, i) == SubSeq(s, 1, i)
Smaller(m, n) == IF m < n THEN m ELSE n

(* find, find_first_not_of and find_last_not_of of a string_view: 0 for    *)
(* npos.                                                                   *)
Find(s, token) == SelectInSeq(s, LAMBDA c : c = token)
FindFirstNot(s, tokens) == SelectInSeq(s, LAMBDA c : c \notin tokens)
FindLastNot(s, tokens) == SelectLastInSeq(s, LAMBDA c : c \notin tokens)

------------------------------------------------------------------------------
(* PairReader::read_all of three strings with spaces between them: the     *)
(* strings so far, the last one unfinished.                                *)
Spaced(at) ==
    LET last == Len(at.strings)
        space == Find(at.rest, "SP") IN
    IF last = 3 \/ space = 0
    THEN [strings |-> [at.strings EXCEPT ![last] = @ \o at.rest], rest |-> <<>>]
    ELSE [strings |-> Append([at.strings EXCEPT ![last] = @ \o Upto(at.rest, space - 1)], <<>>),
          rest |-> From(at.rest, space + 1)]

StartLine(strings, input) ==
    Spaced(Spaced(Spaced([strings |-> strings, rest |-> input]))).strings

(* IgnoreInitialWhitespaceReader::read_all: started once value has a token.*)
Started(value, input) ==
    LET at == FindFirstNot(input, Blank) IN
    IF value # <<>> THEN value \o input
    ELSE IF at = 0 THEN <<>> ELSE From(input, at)

(* IgnoreTrailingWhitespaceReader::release.                                *)
Trimmed(value) == Upto(value, FindLastNot(value, Blank))

(* PairReader::read_all of a name, a colon and a value.                    *)
HeaderLine(line, input) ==
    LET at == Find(input, ":") IN
    IF Len(line) = 2 THEN <<line[1], Started(line[2], input)>>
    ELSE IF at = 0 THEN <<line[1] \o input>>
    ELSE <<line[1] \o Upto(input, at - 1), Started(<<>>, From(input, at + 1))>>

(* LineReader::read, the TerminusReader of CRLF, `matched` tokens of which *)
(* have been seen.  The reader inside it is given the rest of the line,    *)
(* piece by piece: it is a PairReader of strings that a space separates,   *)
(* or of a name and a value.                                               *)
ReadAll(separator, line, piece) ==
    IF separator = "SP" THEN StartLine(line, piece) ELSE HeaderLine(line, piece)

(* A turn of its loop.                                                     *)
ScanTurn(separator, at) ==
    LET first == Find(at.rest, CRLF[1]) IN
    IF at.matched = Len(CRLF) \/ at.rest = <<>> THEN at
    ELSE IF at.matched = 0 /\ first = 0
    THEN [matched |-> 0, line |-> ReadAll(separator, at.line, at.rest), rest |-> <<>>]
    ELSE IF at.matched = 0
    THEN [matched |-> 1, line |-> ReadAll(separator, at.line, Upto(at.rest, first - 1)),
          rest |-> From(at.rest, first + 1)]
    ELSE IF at.rest[1] = CRLF[2]
    THEN [matched |-> 2, line |-> at.line, rest |-> From(at.rest, 2)]
    ELSE [matched |-> 0, line |-> ReadAll(separator, at.line, Upto(CRLF, 1)), rest |-> at.rest]

(* Two turns get over a token, so these are enough for all of the input.   *)
Scan(separator, start) ==
    LET turns == 2 * Len(start.rest) + 1
        after[i \in 0 .. turns] ==
            IF i = 0 THEN start ELSE ScanTurn(separator, after[i - 1]) IN
    after[turns]

(* The headers that are kept, beside Content-Length, in the order in which *)
(* write_to prints them.                                                   *)
Kept == <<"Host", "Connection", "Upgrade", "Origin", "Sec-WebSocket-Key",
          "Sec-WebSocket-Accept">>

NoHeaders == [length |-> {}, kept |-> [i \in DOMAIN Kept |-> <<>>]]
HeaderReader == [matched |-> 0, line |-> <<<<>>>>, headers |-> NoHeaders,
                 finished |-> FALSE, failed |-> FALSE]

(* HTTPHeaderReader::read: what a line says, a line so far, what has been  *)
(* scanned of one, and all of the input.                                   *)
LineTaken(h, name, value) ==
    IF name = <<>> THEN [h EXCEPT !.finished = TRUE]
    ELSE IF name = <<"Content-Length">>
    THEN IF value = <<>> \/ value[1] \notin DOMAIN Number
            \/ h.headers.length \notin {{}, {Number[value[1]]}}
         THEN [h EXCEPT !.failed = TRUE]
         ELSE [h EXCEPT !.headers.length = {Number[value[1]]}]
    ELSE [h EXCEPT !.headers.kept =
              [i \in DOMAIN Kept |-> IF name = <<Kept[i]>> THEN value ELSE @[i]]]

LineRead(h, matched, line) ==
    IF matched < 2 THEN [h EXCEPT !.matched = matched, !.line = line]
    ELSE LineTaken([h EXCEPT !.matched = 0, !.line = <<<<>>>>], line[1],
                   IF Len(line) = 2 THEN Trimmed(line[2]) ELSE <<>>)

(* A turn of its loop, which gets over a token at least.                   *)
HeaderTurn(at) ==
    LET h == at.reader
        s == Scan(":", [matched |-> h.matched, line |-> h.line, rest |-> at.rest]) IN
    IF h.finished \/ h.failed \/ at.rest = <<>> THEN at
    ELSE [reader |-> LineRead(h, s.matched, s.line), rest |-> s.rest]

ReadHeaders(start) ==
    LET turns == Len(start.rest)
        after[i \in 0 .. turns] == IF i = 0 THEN start ELSE HeaderTurn(after[i - 1]) IN
    after[turns]

------------------------------------------------------------------------------
(* HTTPRequestReader and HTTPResponseReader: wasHead says that a response  *)
(* is to a HEAD request.                                                   *)
Reader(kind, wasHead) ==
    [kind |-> kind, wasHead |-> wasHead, matched |-> 0, start |-> <<<<>>>>,
     header |-> HeaderReader, body |-> <<>>, finished |-> FALSE]

(* The length of the body: none when it is unknown.                        *)
BodyLength(r) ==
    IF IF r.kind = "request" THEN r.start[1] \in {<<"GET">>, <<"HEAD">>}
       ELSE r.wasHead \/ (Len(r.start) >= 2 /\ r.start[2] \in {<<"101">>, <<"204">>})
    THEN {0} ELSE r.header.headers.length

BadStatus(r) ==
    /\ r.kind = "response" /\ ~r.wasHead
    /\ Len(r.start) < 2 \/ r.start[2] \notin {<<"101">>, <<"200">>, <<"204">>}

X_ReadBody(r, input, wanted) ==
    LET n == Smaller(Len(input), wanted - Len(r.body)) IN
    [reader |-> [r EXCEPT !.body = Upto(input, n),
                          !.finished = Len(r.body) + n = wanted],
     rest |-> From(input, n + 1)]

ReadBody(r, input, wanted) ==
    LET n == Smaller(Len(input), wanted - Len(r.body)) IN
    [reader |-> [r EXCEPT !.body = @ \o Upto(input, n),
                          !.finished = Len(r.body) + n = wanted],
     rest |-> From(input, n + 1)]

Failed(r) == [r EXCEPT !.header.failed = TRUE]

(* read: one pass of its loop, which is over when the input or the message *)
(* is.  It goes on from the start line to the headers, and to the body.    *)
AfterHeaders(r, input) ==
    IF ~r.header.finished THEN [reader |-> r, rest |-> input]
    ELSE IF BodyLength(r) = {} \/ BadStatus(r) THEN [reader |-> Failed(r), rest |-> input]
    ELSE ReadBody(r, input, CHOOSE n \in BodyLength(r) : TRUE)

HeadersRead(r, at) == AfterHeaders([r EXCEPT !.header = at.reader], at.rest)

AfterStart(r, input) ==
    IF r.matched < 2 THEN [reader |-> r, rest |-> input]
    ELSE HeadersRead(r, ReadHeaders([reader |-> r.header, rest |-> input]))

StartScanned(r, s) == AfterStart([r EXCEPT !.matched = s.matched, !.start = s.line], s.rest)

Read(r, input) ==
    IF r.finished \/ input = <<>> THEN [reader |-> r, rest |-> input]
    ELSE StartScanned(r, Scan("SP", [matched |-> r.matched, line |-> r.start, rest |-> input]))

Message(r) == [start |-> r.start, headers |-> r.header.headers, body |-> r.body]

------------------------------------------------------------------------------
(* HTTPWriter: the text of a message, of which write_to pushes what the    *)
(* ring has room for, from where the last attempt stopped.                 *)
Digit(n) == <<CHOOSE d \in DOMAIN Number : Number[d] = n>>

Printed(name, value) ==
    IF value = <<>> THEN <<>> ELSE <<name, ":", "SP">> \o value \o CRLF

ContentLength(m) ==
    IF m.headers.length = {} THEN <<>> ELSE Digit(CHOOSE n \in m.headers.length : TRUE)

Text(m) ==
    m.start[1] \o <<"SP">> \o m.start[2] \o <<"SP">> \o m.start[3] \o CRLF
    \o Printed("Content-Length", ContentLength(m))
    \o Printed(Kept[1], m.headers.kept[1]) \o Printed(Kept[2], m.headers.kept[2])
    \o Printed(Kept[3], m.headers.kept[3]) \o Printed(Kept[4], m.headers.kept[4])
    \o Printed(Kept[5], m.headers.kept[5]) \o Printed(Kept[6], m.headers.kept[6])
    \o CRLF \o m.body

WriteTo(w, ring, capacity) ==
    LET n == Smaller(Len(w.text) - w.written, capacity - Len(ring)) IN
    [writer |-> IF w.written + n = Len(w.text) THEN {}
                ELSE {[w EXCEPT !.written = @ + n]},
     ring |-> ring \o SubSeq(w.text, w.written + 1, w.written + n)]
=============================================================================
