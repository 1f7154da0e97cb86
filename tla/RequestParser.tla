---------------------------- MODULE RequestParser ----------------------------
(***************************************************************************)
(* How the engine decides that a request may be read: CheckRequest of      *)
(* pkg/engine/parser/parser.go, and the look at netpoll's input in         *)
(* serveHTTP of pkg/engine/engine.go that calls it, while the request      *)
(* arrives in pieces.                                                      *)
(*                                                                         *)
(* The input is a sequence of symbols.  "\r", "\n", ";", " ", signs and    *)
(* digits are bytes; longer texts that the code only compares are one      *)
(* symbol each: "request" the request line, "Content-Length:",             *)
(* "Transfer-Encoding:", "chunked", "x" any other text.  A slice s[i:j] of *)
(* the code is SubSeq(s, i + 1, j), and positions count from 0 as there.   *)
(***************************************************************************)
EXTENDS Integers, Sequences, FiniteSetsExt, SequencesExt

CONSTANTS
    MaxInt,         \* the largest int
    MaxHeaderSize,  \* parser.MaxHeaderSize
    PeekLen,        \* what serveHTTP looks at first (256)
    Requests,       \* requests a client may send (see Request below)
    Tails,          \* what may follow: the first symbols of the next request
    MaxStream       \* bound: symbols of a stream

ASSUME ParserAssumption ==
    MaxInt \in Nat /\ MaxHeaderSize \in Nat /\ PeekLen \in Nat /\ MaxStream \in Nat

VARIABLES
    stream, meant,      \* the symbols the client sends, and what it means by
                        \* them: see Meaning below
    seen, decision      \* how many had arrived when serveHTTP last looked, and
                        \* what it decided

vars == <<stream, meant, seen, decision>>

CRLF == <<"\r", "\n">>
headerEnd == CRLF \o CRLF
HexDigits == <<"0", "1", "2", "3", "4", "5", "6", "7", "8", "9",
               "a", "b", "c", "d", "e", "f">>
Digit(ch) == (CHOOSE i \in 1..16 : HexDigits[i] = ch) - 1

-----------------------------------------------------------------------------
(* Slices of bytes *)

Upto(s, i) == SubSeq(s, 1, Min({i, Len(s)}))
After(s, i) == SubSeq(s, i + 1, Len(s))

(* bytes.Index: where pat first occurs in s, -1 if nowhere *)
Index(s, pat) ==
    LET at == {i \in 0..Len(s) - Len(pat) : SubSeq(s, i + 1, i + Len(pat)) = pat}
    IN  IF at = {} THEN -1 ELSE Min(at)

TrimSpace(s) ==
    LET text == {i \in DOMAIN s : s[i] # " "}
    IN  IF text = {} THEN << >> ELSE SubSeq(s, Min(text), Max(text))

(* Where the lines after the request line begin, and the line that begins   *)
(* at n, without its CRLF                                                   *)
LineStarts(header) == {n \in 2..Len(header) - 1 : SubSeq(header, n - 1, n) = CRLF}
Line(header, n) ==
    LET cur == After(header, n)
        idx == Index(cur, CRLF)
    IN  IF idx = -1 THEN cur ELSE Upto(cur, idx)

-----------------------------------------------------------------------------
(* Numbers.  -1 stands for ErrSyntax and ErrRange: every caller treats them *)
(* and a negative length alike.                                             *)

(* Mutant: the largest int is out of range *)
InRangeStrict(n, base, digit) == n < (MaxInt - digit) \div base

InRange(n, base, digit) == n <= (MaxInt - digit) \div base

(* int arithmetic wraps around *)
Wrap(n) == ((n + MaxInt + 1) % (2 * (MaxInt + 1))) - (MaxInt + 1)

parseDigits(b, base) ==
    LET upto[i \in 0..Len(b)] ==
            IF i = 0 THEN 0
            ELSE LET n == upto[i - 1]
                 IN  IF /\ n # -1
                        /\ b[i] \in Range(Upto(HexDigits, base))
                        /\ InRange(n, base, Digit(b[i]))
                     THEN Wrap(n * base + Digit(b[i])) ELSE -1
    IN  IF b = << >> THEN -1 ELSE upto[Len(b)]

parseInt(b) ==
    IF b # << >> /\ b[1] \in {"-", "+"}
    THEN LET n == parseDigits(Tail(b), 10)
         IN  IF n > 0 /\ b[1] = "-" THEN -n ELSE n
    ELSE parseDigits(b, 10)

parseHexInt(b) == parseDigits(b, 16)

(* EqualFold and containsCaseInsensitive: "CHUNKED" is the other spelling *)
containsChunked(val) == \E i \in DOMAIN val : val[i] \in {"chunked", "CHUNKED"}

-----------------------------------------------------------------------------
(* CheckRequest *)

Incomplete == [Complete |-> FALSE, BytesConsumed |-> 0, Error |-> FALSE]
Malformed  == [Incomplete EXCEPT !.Error = TRUE]
Complete(n) == [Complete |-> TRUE, BytesConsumed |-> n, Error |-> FALSE]

(* Mutant: a body without trailers is not thought of *)
AfterLastChunkTrailersOnly(rest, consumed) ==
    IF Index(rest, headerEnd) # -1
    THEN Complete(consumed + Index(rest, headerEnd) + Len(headerEnd))
    ELSE Incomplete

(* The last chunk was read: CRLF, or trailers up to an empty line *)
AfterLastChunk(rest, consumed) ==
    IF Upto(rest, 2) = CRLF THEN Complete(consumed + 2)
    ELSE IF Index(rest, headerEnd) # -1
    THEN Complete(consumed + Index(rest, headerEnd) + Len(headerEnd))
    ELSE Incomplete

(* The text before the first semicolon of a chunk's size line *)
ChunkSize(line) ==
    LET semi == Index(line, <<";">>)
    IN  parseHexInt(TrimSpace(IF semi = -1 THEN line ELSE Upto(line, semi)))

CheckChunks(body, headerBodySep) ==
    LET from[offset \in 0..MaxStream] ==
            LET rest == After(body, offset)
                idx == Index(rest, CRLF)
                size == ChunkSize(Upto(rest, idx))
                data == After(rest, idx + 2)
            IN  IF idx = -1 THEN Incomplete
                ELSE IF size = -1 THEN Malformed
                ELSE IF size = 0 THEN AfterLastChunk(data, headerBodySep + offset + idx + 2)
                ELSE IF size > MaxInt - 2 THEN Malformed
                ELSE IF Len(data) < size + 2 THEN Incomplete
                ELSE from[offset + idx + 2 + size + 2]
    IN  from[0]

CheckLength(len, headerBodySep, contentLength) ==
    IF len >= Wrap(headerBodySep + contentLength)
    THEN Complete(Wrap(headerBodySep + contentLength))
    ELSE Incomplete

(* Where the lines begin that carry the field name and a value *)
Fields(header, name) ==
    {n \in LineStarts(header) : Len(Line(header, n)) > 1 /\ Line(header, n)[1] = name}

(* Mutant: the end of the header is counted as part of it *)
NoHeaderEndYetTight(len) ==
    IF len + Len(headerEnd) > MaxHeaderSize THEN Malformed ELSE Incomplete

NoHeaderEndYet(len) == IF len > MaxHeaderSize THEN Malformed ELSE Incomplete

CheckRequest(data) ==
    LET headerEndIdx == Index(data, headerEnd)
        headerBodySep == headerEndIdx + 4
        headers == Upto(data, headerEndIdx)
        lengths == Fields(headers, "Content-Length:")
        contentLength(n) == parseInt(TrimSpace(Tail(Line(headers, n))))
        codings == Fields(headers, "Transfer-Encoding:")
    IN  IF headerEndIdx = -1 THEN NoHeaderEndYet(Len(data))
        ELSE IF headerEndIdx > MaxHeaderSize THEN Malformed
        ELSE IF Index(headers, CRLF) = -1 THEN Incomplete
        ELSE IF \E n \in lengths : contentLength(n) < 0 THEN Malformed
        ELSE IF \E n \in codings : containsChunked(Tail(Line(headers, n)))
        THEN CheckChunks(After(data, headerBodySep), headerBodySep)
        ELSE IF lengths # {}
        THEN CheckLength(Len(data), headerBodySep, contentLength(Max(lengths)))
        ELSE Complete(headerBodySep)

-----------------------------------------------------------------------------
(* serveHTTP *)

(* Mutant: only the length of a body is looked for *)
BodyFieldsLengthOnly == {"Content-Length:"}

BodyFields == {"Content-Length:", "Transfer-Encoding:"}

(* A request whose header has arrived and announces no body *)
shouldBypassFullRequestCheck(peekBuf) ==
    LET headerEndIdx == Index(peekBuf, headerEnd)
        headers == Upto(peekBuf, headerEndIdx)
    IN  /\ headerEndIdx \in 0..MaxHeaderSize
        /\ Index(headers, CRLF) # -1
        /\ \A n \in LineStarts(headers) : Line(headers, n)[1] \notin BodyFields

(* The first PeekLen bytes, and if they are not enough, all *)
Look(data) ==
    LET first == CheckRequest(Upto(data, PeekLen))
    IN  IF ~first.Complete /\ ~first.Error /\ PeekLen < Len(data)
        THEN CheckRequest(data) ELSE first

Decide(data) ==
    LET check == Look(data)
    IN  IF shouldBypassFullRequestCheck(Upto(data, PeekLen)) THEN "serve"
        ELSE IF check.Error THEN "close"
        ELSE IF check.Complete THEN "serve" ELSE "wait"

(* serveHTTP with an empty bufio.Reader; more has arrived since the last    *)
(* time                                                                     *)
ServeHTTPLooks(available) ==
    /\ decision \in {"none", "wait"}
    /\ available > seen
    /\ seen' = available
    /\ decision' = Decide(Upto(stream, available))
    /\ UNCHANGED <<stream, meant>>

-----------------------------------------------------------------------------
(* What a client means by a request.  It has headers, records of a name and *)
(* a value; for a chunked body its chunks, records of a size and an         *)
(* extension; and trailers.                                                 *)

Values(r, name) ==
    LET of == SelectSeq(r.headers, LAMBDA h : h.name = name /\ h.val # << >>)
    IN  [i \in DOMAIN of |-> TrimSpace(of[i].val)]

(* The number that a text denotes; -1 if none or too large for an int *)
Number(b, base) ==
    LET value == MapThenSumSet(LAMBDA i : Digit(b[i]) * base ^ (Len(b) - i), DOMAIN b)
    IN  IF b # << >> /\ Range(b) \subseteq Range(Upto(HexDigits, base)) /\ value <= MaxInt
        THEN value ELSE -1
Signed(b) ==
    IF b # << >> /\ b[1] \in {"-", "+"}
    THEN IF b[1] = "-" /\ Number(Tail(b), 10) # 0 THEN -1 ELSE Number(Tail(b), 10)
    ELSE Number(b, 10)

Lengths(r) == Values(r, "Content-Length:")
Chunked(r) ==
    \E v \in Range(Values(r, "Transfer-Encoding:")) : Range(v) \cap {"chunked", "CHUNKED"} # {}
Sizes(r) == [i \in DOMAIN r.chunks |-> Number(r.chunks[i].size, 16)]
WellFormed(r) ==
    /\ \A v \in Range(Lengths(r)) : Signed(v) # -1
    /\ Chunked(r) => \A n \in Range(Sizes(r)) : n \in 1..MaxInt - 2

Text(n) == [i \in 1..n |-> "x"]
Header(r) ==
    FlattenSeq(<< <<"request">> \o CRLF >> \o
               [i \in DOMAIN r.headers |-> <<r.headers[i].name>> \o r.headers[i].val \o CRLF])
Chunk(c) ==
    c.size \o c.ext \o CRLF
        \o (IF Number(c.size, 16) = -1 THEN << >> ELSE Text(Min({Number(c.size, 16), MaxStream})) \o CRLF)
Body(r) ==
    IF Chunked(r)
    THEN FlattenSeq([i \in DOMAIN r.chunks |-> Chunk(r.chunks[i])])
             \o <<"0">> \o CRLF \o r.trailer \o CRLF
    ELSE IF Lengths(r) = << >> THEN << >> ELSE Text(Min({Max({0, Signed(Last(Lengths(r)))}), MaxStream}))

(* Whether it is well formed, its header's length without the empty line,   *)
(* the length of it all                                                     *)
Meaning(r) ==
    LET size == Len(Header(r)) - 2
    IN  [wellFormed |-> WellFormed(r), headerSize |-> size,
         length |-> size + 4 + (IF Chunked(r) \/ Lengths(r) = << >> THEN Len(Body(r))
                                ELSE Signed(Last(Lengths(r))))]

(* What it sends for it: an empty line ends the header, and is the first    *)
Request(r) == Header(r) \o CRLF \o Body(r)

ASSUME RequestAssumption ==
    \A r \in Requests, tail \in Tails :
        /\ Request(r) \o tail \in Seq(STRING)
        /\ Index(Request(r) \o tail, headerEnd) = Len(Header(r)) - 2

Init ==
    /\ \E r \in Requests, tail \in Tails :
          /\ stream = Upto(Request(r) \o tail, MaxStream)
          /\ meant = Meaning(r)
    /\ seen = 0
    /\ decision = "none"

Next == \E available \in 1..Len(stream) : ServeHTTPLooks(available)

Spec == Init /\ [][Next]_vars

-----------------------------------------------------------------------------
(* Properties *)

(* Where 8192 bytes of header are allowed, one of up to two bytes less is   *)
(* refused too if serveHTTP looks while its last bytes are under way.       *)
WithinLimit == meant.headerSize <= MaxHeaderSize - 3
Ambiguous == ~WithinLimit /\ meant.headerSize <= MaxHeaderSize
FitsInt == meant.length <= MaxInt

(* A handler gets a request only when it is well formed and all of it has   *)
(* arrived: the handler's reads of the body never wait for the client.      *)
(* (The sum of header and body length is computed in an int.)               *)
NeverEarly ==
    decision = "serve" => meant.wellFormed /\ (FitsInt => seen >= meant.length)

(* A connection is closed only for a malformed or too large request *)
CloseJustified == decision = "close" => ~meant.wellFormed \/ ~WithinLimit

(* A whole request is never left waiting for input that does not come *)
WholeRequestDecided == meant.wellFormed /\ seen >= meant.length => decision # "wait"

(* However the client's bytes are cut into reads, the verdict is the one on *)
(* all of them at once, and the first look at 256 bytes makes no difference.*)
CutIndependent ==
    decision \in {"serve", "close"} /\ ~Ambiguous =>
        decision = IF CheckRequest(stream).Error THEN "close" ELSE "serve"
=============================================================================
