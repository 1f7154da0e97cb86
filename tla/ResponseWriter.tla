--------------------------- MODULE ResponseWriter ---------------------------
(***************************************************************************)
(* The ResponseWriter of pkg/adaptor/adaptor.go as handlers use it on one  *)
(* connection: handleRequest of pkg/engine/engine.go takes it from its     *)
(* pool, runs the handler, ends the response and puts it back.  Its bytes  *)
(* go through the connection's bufio.Writer, whose underlying writes may   *)
(* fail, to a client that splits them into responses as RFC 9112 says.     *)
(*                                                                         *)
(* Bytes are tokens: "head" is a status line with its header, "size" the   *)
(* size line of a chunk, "byte" a byte of a body, "crlf" and "trailer"     *)
(* what they say, "raw" what a hijacker writes.                            *)
(***************************************************************************)
EXTENDS Integers, Sequences

CONSTANTS
    None,
    MaxRequests,    \* bound: requests on the connection
    MaxOps,         \* bound: calls a handler makes
    MaxBytes,       \* bound: bytes of one Write, and declared lengths
    Careless        \* what handlers do that net/http allows them, see below

(***************************************************************************)
(* "bodiless"   write, copy, flush or add trailers in the answer to HEAD,  *)
(*              or in a 204 or 304 response, which have no body            *)
(* "length"     return before all bytes of a declared Content-Length are   *)
(*              written, or write more                                     *)
(* "trailer"    set a trailer before the header is sent, which then says   *)
(*              "Transfer-Encoding: chunked, trailers"                     *)
(***************************************************************************)
ASSUME ResponseAssumption ==
    /\ None \notin Nat
    /\ MaxRequests \in Nat /\ MaxOps \in Nat /\ MaxBytes \in Nat
    /\ Careless \subseteq {"bodiless", "length", "trailer"}

VARIABLES
    phase, r,       \* of the connection; the request it is at
    w,              \* the ResponseWriter
    buf, err,       \* of the bufio.Writer: what it holds, its sticky error
    client,         \* what the client makes of the bytes it has received
    ops, declared,  \* calls the handler has made, the length it has declared
    wrote, cut,     \* history: bytes each handler wrote before an error; a
                    \* panic ended a chunked response that had begun
    notify          \* the goroutine of a CloseNotify

bufVars == <<buf, err, client>>
handlerVars == <<ops, declared, wrote>>
vars == <<phase, r, w, bufVars, handlerVars, cut, notify>>

(* length and trailer stand for w.header and w.trailer; bodiless: HEAD was  *)
(* requested, or statusCode is 204 or 304.                                  *)
Zero == [headerSent |-> FALSE, chunked |-> FALSE, hijacked |-> FALSE,
         bodiless |-> FALSE, length |-> None, trailer |-> FALSE]

Init ==
    /\ phase = "idle" /\ r = 0
    /\ w = Zero
    /\ buf = << >> /\ err = FALSE
    /\ client = [at |-> "head", left |-> 0, got |-> 0, answers |-> << >>]
    /\ ops = 0 /\ declared = None
    /\ wrote = [i \in 1..MaxRequests |-> 0]
    /\ cut = FALSE
    /\ notify = "none"

-----------------------------------------------------------------------------
(* The client (external).  answers: the body lengths of the responses it    *)
(* has got in full; at, left, got: its place in the next one.  Where the    *)
(* last transfer coding is not "chunked" the body ends with the connection  *)
(* (RFC 9112, 6.3), and whatever comes is a part of it.                     *)
Receive(c, t) ==
    LET Answered(body) ==
            [at |-> "head", left |-> 0, got |-> 0, answers |-> Append(c.answers, body)]
        Now(at) == [c EXCEPT !.at = at]
        GotByte == [c EXCEPT !.left = @ - 1, !.got = @ + 1]
    IN  CASE c.at = "untilClose" -> c
          [] c.at # "untilClose" /\ t.k = "raw" -> Now("raw")
          [] c.at = "head" /\ t.k = "head" /\ t.r = Len(c.answers) + 1 ->
                IF t.bodiless \/ (~t.chunked /\ t.n = 0) THEN Answered(0)
                ELSE IF t.trailers THEN Now("untilClose")
                ELSE IF t.chunked THEN Now("size")
                ELSE [c EXCEPT !.at = "body", !.left = t.n]
          [] c.at = "body" /\ t.k = "byte" -> IF c.left = 1 THEN Answered(c.got + 1) ELSE GotByte
          [] c.at = "size" /\ t.k = "size" ->
                IF t.n = 0 THEN Now("end") ELSE [c EXCEPT !.at = "chunk", !.left = t.n]
          [] c.at = "chunk" /\ t.k = "byte" /\ c.left > 0 -> GotByte
          [] c.at = "chunk" /\ t.k = "crlf" /\ c.left = 0 -> Now("size")
          [] c.at = "end" /\ t.k = "trailer" -> c
          [] c.at = "end" /\ t.k = "crlf" -> Answered(c.got)
          [] OTHER -> Now("broken")

(* What it makes of the first i tokens, for each i *)
Received(c, tokens) ==
    LET after[i \in 0..Len(tokens)] ==
            IF i = 0 THEN c ELSE Receive(after[i - 1], tokens[i])
    IN  after

(* bufio.Writer: tokens are accepted, and the least first ones or all that  *)
(* it then holds are written to the connection; or an underlying write      *)
(* fails on the way, and every later call does.                             *)
Transmit(tokens, least) ==
    LET out == buf \o tokens
        Reach(n) == client' = Received(client, out)[n]
    IN  \/ err /\ UNCHANGED bufVars
        \/ /\ ~err
           /\ \E n \in {least, Len(out)} : Reach(n) /\ buf' = SubSeq(out, n + 1, Len(out))
           /\ err' = FALSE
        \/ /\ ~err
           /\ \E n \in 0..Len(out) : Reach(n)
           /\ buf' = << >>
           /\ err' = TRUE

-----------------------------------------------------------------------------
(* What the methods write *)

(* ensureHeaderSent: w afterwards, and the tokens.  trailers: the header    *)
(* says "chunked, trailers" instead of "chunked".                           *)
Chunks(x) == x.length = None \/ x.trailer
Sent(x) ==
    IF x.headerSent THEN x ELSE [x EXCEPT !.headerSent = TRUE, !.chunked = Chunks(x)]
HeaderOf(x) ==
    IF x.headerSent THEN << >>
    ELSE <<[k |-> "head", n |-> IF x.length = None THEN 0 ELSE x.length, r |-> r,
            chunked |-> Chunks(x), trailers |-> x.trailer, bodiless |-> x.bodiless]>>

(* writeChunkHeader, the bytes, writeChunkTrailer; or just the bytes *)
Size(n) == <<[k |-> "size", n |-> n]>>
Crlf == <<[k |-> "crlf"]>>
Bytes(n) == [i \in 1..n |-> [k |-> "byte"]]
Body(x, n) == IF x.chunked THEN Size(n) \o Bytes(n) \o Crlf ELSE Bytes(n)

(* n bytes, each written as it comes *)
Copied(x, n) ==
    LET upTo[i \in 0..n] == IF i = 0 THEN << >> ELSE upTo[i - 1] \o Body(x, 1)
    IN  upTo[n]

(* chunkEnd, or lastChunk, the trailers and CRLF *)
Terminator(x) ==
    IF ~x.chunked THEN << >>
    ELSE Size(0) \o (IF x.trailer THEN <<[k |-> "trailer"]>> ELSE << >>) \o Crlf

(* A write that fails may leave the header sent or not, chunked being       *)
(* settled before; after a failure ensureHeaderSent changes nothing.        *)
HeaderSentNow ==
    w' \in IF err THEN {w}
           ELSE IF err' THEN {w, [Sent(w) EXCEPT !.headerSent = w.headerSent], Sent(w)}
           ELSE {Sent(w)}

-----------------------------------------------------------------------------
(* The handler's calls.  What a careful handler does is a guard. *)

Call == phase = "handler" /\ ops < MaxOps /\ ops' = ops + 1

MayWrite(n) ==
    /\ w.bodiless => "bodiless" \in Careless
    /\ declared # None /\ wrote[r] + n > declared => "length" \in Careless

(* Mutant: an empty write is not a special case *)
IgnoresHijackedOnly(n) == w.hijacked

(* A hijacked connection is not written to; an empty chunk would end the body *)
Ignores(n) == w.hijacked \/ n = 0

Write(n) ==
    /\ Call /\ MayWrite(n)
    /\ IF Ignores(n) THEN UNCHANGED <<w, bufVars, wrote>>
       ELSE /\ Transmit(HeaderOf(w) \o Body(Sent(w), n), 0)
            /\ HeaderSentNow
            /\ wrote' = [wrote EXCEPT ![r] = IF err THEN @ ELSE @ + n]
    /\ UNCHANGED <<phase, r, declared, cut, notify>>

(* The same steps again, for a string *)
WriteString(n) == Write(n)

(* ReadFrom a source that yields n bytes, one by one; a body that is not    *)
(* chunked is preceded by a Flush.  (netpoll's connection is no             *)
(* io.ReaderFrom.)                                                          *)
ReadFrom(n) ==
    /\ Call /\ MayWrite(n)
    /\ IF w.hijacked THEN UNCHANGED <<w, bufVars, wrote>>
       ELSE /\ Transmit(HeaderOf(w) \o Copied(Sent(w), n),
                        IF Sent(w).chunked THEN 0 ELSE Len(buf) + Len(HeaderOf(w)))
            /\ HeaderSentNow
            /\ wrote' = [wrote EXCEPT ![r] = IF err THEN @ ELSE @ + n]
    /\ UNCHANGED <<phase, r, declared, cut, notify>>

(* WriteHeader(204) *)
WriteHeader ==
    /\ Call
    /\ w.trailer => "bodiless" \in Careless
    /\ w' = [w EXCEPT !.bodiless = IF w.hijacked \/ w.headerSent THEN @ ELSE TRUE]
    /\ UNCHANGED <<phase, r, bufVars, declared, wrote, cut, notify>>

(* Header().Set("Content-Length", n); of no effect once the header is sent *)
DeclareLength(n) ==
    /\ Call
    /\ ~w.headerSent
    /\ w' = [w EXCEPT !.length = n]
    /\ declared' = n
    /\ UNCHANGED <<phase, r, bufVars, wrote, cut, notify>>

(* Trailer().Set; too late for the header once that is sent or cannot be *)
AddTrailer ==
    /\ Call
    /\ w.bodiless => "bodiless" \in Careless
    /\ w.headerSent \/ w.hijacked \/ err \/ "trailer" \in Careless
    /\ w' = [w EXCEPT !.trailer = TRUE]
    /\ UNCHANGED <<phase, r, bufVars, declared, wrote, cut, notify>>

Flush ==
    /\ Call /\ MayWrite(0)
    /\ IF w.hijacked THEN UNCHANGED <<w, bufVars>>
       ELSE Transmit(HeaderOf(w), Len(buf) + Len(HeaderOf(w))) /\ HeaderSentNow
    /\ UNCHANGED <<phase, r, declared, wrote, cut, notify>>

(* The connection is the handler's from here, bufio.Writer included *)
Hijack ==
    /\ Call
    /\ ~w.hijacked
    /\ Transmit(<< >>, Len(buf))
    /\ w' = [w EXCEPT !.hijacked = TRUE]
    /\ UNCHANGED <<phase, r, declared, wrote, cut, notify>>

(* Through the bufio.ReadWriter it was given, or the net.Conn itself *)
HijackerWrites ==
    /\ phase = "hijacked" \/ (phase = "handler" /\ w.hijacked)
    /\ ops < MaxOps /\ ops' = ops + 1
    /\ \/ Transmit(<<[k |-> "raw"]>>, 0)
       \/ client' = Receive(client, [k |-> "raw"]) /\ UNCHANGED <<buf, err>>
    /\ UNCHANGED <<phase, r, w, declared, wrote, cut, notify>>

(* A goroutine that will read w.ctx is created *)
CloseNotify ==
    /\ Call
    /\ notify = "none"
    /\ notify' = "created"
    /\ UNCHANGED <<phase, r, w, bufVars, declared, wrote, cut>>

(* It reads w.ctx.  Once w is back in its pool that is nil, which crashes   *)
(* the process, or the context of whatever request w serves now.            *)
NotifyReadsContext ==
    /\ notify \in {"created", "stale"}
    /\ notify' \in IF notify = "created" THEN {"waits"} ELSE {"waits", "crashed", "waitsForOther"}
    /\ phase' = IF notify' = "crashed" THEN "crashed" ELSE phase
    /\ UNCHANGED <<r, w, bufVars, handlerVars, cut>>

-----------------------------------------------------------------------------
(* handleRequest *)

(* NewResponseWriter leaves the maps as Release left them *)
NewResponseWriter(head) ==
    [w EXCEPT !.hijacked = FALSE, !.headerSent = FALSE, !.chunked = FALSE, !.bodiless = head]

(* Mutant: the header map is not cleared *)
ReleasedWithLength == [Zero EXCEPT !.length = w.length]

Released == Zero

NextRequest(head) ==
    /\ phase = "idle" /\ r < MaxRequests
    /\ phase' = "handler" /\ r' = r + 1
    /\ w' = NewResponseWriter(head)
    /\ ops' = 0 /\ declared' = None
    /\ UNCHANGED <<bufVars, wrote, cut, notify>>

Release ==
    /\ w' = Released
    /\ notify' = IF notify = "created" THEN "stale" ELSE notify

(* EndResponse of a connection that is not hijacked *)
EndResponse ==
    LET x == IF w.headerSent THEN w ELSE [w EXCEPT !.length = 0]
        end == HeaderOf(x) \o Terminator(Sent(x))
    IN  Transmit(end, Len(buf) + Len(end))

(* Mutant: a failed EndResponse goes unnoticed *)
AfterResponseAny(failed) == {"idle", "closed"}

(* The error closes the connection; so does a request that asked for it *)
AfterResponse(failed) == IF failed THEN {"closed"} ELSE {"idle", "closed"}

HandlerReturns ==
    /\ phase = "handler"
    /\ declared # None /\ w.headerSent /\ ~w.hijacked /\ wrote[r] # declared
           => "length" \in Careless
    /\ IF w.hijacked THEN UNCHANGED bufVars /\ phase' = "hijacked"
       ELSE EndResponse /\ phase' \in AfterResponse(err')
    /\ Release
    /\ UNCHANGED <<r, handlerVars, cut>>

(* Mutant: a response that has begun is ended too *)
AnswersPanicAlways == ~w.hijacked

(* A panic is answered with 500 while that is possible *)
AnswersPanic == ~w.hijacked /\ ~w.headerSent

HandlerPanics ==
    /\ phase = "handler"
    /\ IF AnswersPanic THEN EndResponse ELSE UNCHANGED bufVars
    /\ cut' = (w.headerSent /\ w.chunked)
    /\ phase' = "closed"
    /\ Release
    /\ UNCHANGED <<r, handlerVars>>

Handler ==
    \/ \E n \in 0..MaxBytes : Write(n) \/ WriteString(n) \/ ReadFrom(n) \/ DeclareLength(n)
    \/ WriteHeader \/ AddTrailer \/ Flush \/ Hijack \/ CloseNotify
    \/ HandlerReturns \/ HandlerPanics

Next ==
    \/ \E head \in BOOLEAN : NextRequest(head)
    \/ Handler \/ HijackerWrites \/ NotifyReadsContext

Spec == Init /\ [][Next]_vars

-----------------------------------------------------------------------------
(* Properties *)

(* The bytes of the responses, and of a hijacker after them, arrive in an   *)
(* order that makes sense to the client: no body without a header, nothing  *)
(* between chunks, nothing of the ResponseWriter after a hijack; and every  *)
(* response has an end that the client can tell while the connection is     *)
(* open.                                                                    *)
Understood == client.at \notin {"broken", "untilClose"}

(* A response that the client takes for complete is: it has every byte that *)
(* its handler wrote, however headers, chunks and trailers were chosen.     *)
AnswersWhole ==
    \A i \in DOMAIN client.answers : client.answers[i] = wrote[i]

(* A connection that waits for the next request has delivered everything    *)
(* and its writer still works: no response stays in the buffer, and none is *)
(* begun after bytes were lost.                                             *)
IdleMeansDelivered ==
    phase = "idle" => buf = << >> /\ ~err /\ Len(client.answers) = r

(* A chunked response that a panic has cut short never looks complete, not  *)
(* even when the connection is closed after it.                             *)
CutShows == cut => Len(client.answers) < r /\ client.at # "untilClose"

(* CloseNotify's comment: the channel receives a value when the client's    *)
(* connection has gone away; so its goroutine waits for that connection.    *)
NotifyWaitsForOwn == notify \notin {"crashed", "waitsForOther"}
=============================================================================
