# A TLA+ model of hon

hon is a Go HTTP/1.1 and WebSocket engine on top of the event loop library
netpoll. This directory holds TLA+ specifications of its core, TLC
configurations that model-check them, and TLAPS proofs of most of what they
check, for instances of any size.

Contents: [inventory](#1-inventory), [plan](#2-plan),
[the modules and the code](#3-the-modules-and-the-code),
[runs](#4-runs), [fairness](#5-fairness), [proofs](#6-proofs),
[findings](#7-findings), [what is not modelled](#8-what-is-not-modelled).
`PROJECT.json` maps every definition to the source lines it models.

To run: `tlc -config MCEngine_refcount.cfg MCEngine` (any cfg with the module
that its name begins with), `tlapm EngineProofs.tla` (any module whose name
ends with `Proofs`).

| modules | about |
|---|---|
| `Engine`, `EngineProofs` | connection state, engine loop, limiter; proofs |
| `StatePool`, `HttpPipeline`, `EngineRefinement`, `EngineRefinementProofs` | what they promise, that `Engine` implements it, and the proofs |
| `RequestParser`, `RequestParserProofs` | when a request may be read; proofs |
| `ResponseWriter`, `ResponseWriterProofs` | what a handler's calls put on the wire; proofs |
| `ServerLifecycle`, `ServerLifecycleProofs` | Serve and Shutdown |
| `WsClient`, `WsClientProofs` | Dial and closing |
| `PayloadPool`, `WsSession`, `WsWriter`, `WsTraffic`, `WsSessionProofs`, `WsTrafficProofs` | buffers, reading, writing, both together; proofs |

## 1. Inventory

| Part (source) | State | Operations | Correct means |
|---|---|---|---|
| Connection state (`pkg/engine/engine.go` 22-110, 169-187) | `refCount`, `Processing`, `done` channel, Reader/Writer, `ReadHandler`, cached remote address; objects are reused through `connectionStatePool` | `NewConnectionState`, `AcquireConnectionState`, `ReleaseConnectionState`, `Reset`, `Cancel` | never recycled while somebody uses it, never used after, nothing of one connection is visible to the next |
| Engine loop (`pkg/engine/engine.go` 189-455) | the callback's place in the loop, bytes in the `bufio.Reader` | `ServeConn`, `serveHTTP`, `handleRequest` | one callback at a time processes a connection, requests arrive in order and once, none is lost at a yield, a hijack is final |
| Limiter, disconnect (`pkg/server/server.go` 133-185) | `connsCount` | `OnPrepare`, `OnDisconnect` | the count is the number of connections, the limit is never passed |
| Server life cycle (`pkg/server/server.go`) | `started`, `ready`, `shutdownRequested`, `serving`, `eventLoop` | `Serve`, `Shutdown` | one loop at a time, Shutdown waits for no signal that never comes and ends a Serve that runs |
| WebSocket client (`pkg/websocket/client.go`) | `Client.wg`, `clientCloseTracker.once`, `handshakeDone`, `isHandshake` | `Dial`, its OnRequest and close callbacks, `Wait` | `wg.Done` once per Dial, events in order, Dial returns |
| WebSocket session (`pkg/websocket/websocket.go`, `assembler.go`, `pool.go`) | the Assembler's fragments, payload buffers shared by all connections | `Upgrade`, `ServeConn`, `processFrame`, `ProcessFrame` | messages are delivered whole and once, buffers are never shared, `MaxFrameSize` bounds whole messages |
| Compression (`pkg/websocket/compression.go`) | pools of flate readers and writers | `DecompressData`, `CompressData` | size limit, no buffer lost or shared |
| WebSocket writer (`pkg/websocket/writer.go`, `pool.go` 59-94) | the buffer of one call, the payload it was given | `WriteMessage`, `WriteClientMessage`, `PooledWriter.Write` | a frame is what the caller passed, the caller's payload stays as it is, every buffer goes back |
| Parser (`pkg/engine/parser`, `engine.go` 245-333) | none | `CheckRequest`, `shouldBypassFullRequestCheck` | whole requests are served, others waited for, malformed ones refused, however the bytes are cut into reads |
| Response writer (`pkg/adaptor`) | header and body state of one response, `hijacked`; pooled | `Write`, `WriteString`, `ReadFrom`, `WriteHeader`, `Flush`, `Hijack`, `CloseNotify`, `EndResponse`, `Release` | the client can split what arrives into responses, none looks complete that is not, nothing is left of the request before |
| Request context (`pkg/appcontext`) | pooled bundle, one goroutine | `NewRequestContext`, `Release` | — |
| Examples | — | — | — |

How they interact. netpoll accepts a connection and calls `OnPrepare`, which
counts it and returns a context with a new `ConnectionState`. While input is
unread netpoll runs `OnRequest` (= `Engine.ServeConn`) in a goroutine of its
pool; when the connection ends it runs `OnDisconnect`, which uncounts it,
cancels and releases the state. `ServeConn` acquires the state, tries to win
`Processing`, and either calls the installed `ReadHandler` or loops over HTTP
requests. A handler may hijack its connection; `websocket.Upgrade` does, and
installs the session's `ServeConn` as `ReadHandler`. The client is separate: it
uses netpoll directly, with the same session code in client mode.

What is hard here: netpoll's callbacks run concurrently with one another and
with the peer; an object can be reused between two steps of a goroutine that
still has a pointer to it; the "yield, look again, take it back" sequence at
the end of a request races with new input; OnDisconnect, Shutdown and
timeouts can come between any two steps; payload buffers travel between
sessions, the assembler and five pools. The list of hazards in
`PROJECT.json` gives each with its line.

## 2. Plan

Done, in this order:

1. `Engine`: connection state, engine loop, limiter (the core); `EngineProofs`.
2. `ServerLifecycle`: Serve against Shutdown.
3. `WsClient`: Dial, callbacks, closing.
4. `WsSession`: upgrade, frames, assembler, payload pools.
5. `StatePool` and `HttpPipeline`, abstract specifications of the pool and of a
   keep-alive connection; `EngineRefinement` checks that `Engine` implements both.
6. `RequestParser`: `CheckRequest` against the meaning of a request, with
   requests arriving in pieces.
7. `ResponseWriter`: handlers, the header and body state machine, a failing
   connection, and the client that parses the result.
8. The client's zero-copy mode in `WsSession`; `WsWriter`; `WsTraffic`, the
   composition of both over one `PayloadPool`.
9. Proofs (section 6): the safety properties of `Engine` and both its
   refinements, then `ServerLifecycle`, `WsClient`, `WsSession` and `WsTraffic`,
   the order and wholeness of messages, `ResponseWriter`, and that
   `RequestParser`'s verdicts are final.

Left: the proof that `RequestParser` agrees with what a client means by a
request (`NeverEarly`, `CloseJustified`, `WholeRequestDecided`); section 6 says
what is in its way.

## 3. The modules and the code

### Engine

One action per step between two points where another goroutine can
interleave: each atomic operation on `refCount`, `Processing` and
`connsCount`, the closing of `done`, and each read that may block. `pc[w]` is
the place of a goroutine in `ServeConn`, `dpc[c]` the place of a connection's
`OnDisconnect`. `rw[o]` is the connection that the state's Reader and Writer
are bound to, so that a state that was reused too early would show another
connection's bytes; `buffered[o]` is `Reader.Buffered()`.

Bytes are counted in chunks, two per request: chunk 2k-1 stands for the header
of request k, chunk 2k for its body. A read moves any number of the unread
chunks into the buffer, so requests are cut into reads at every boundary and
in the middle. What `CheckRequest` says of unread bytes is exact at a request
boundary and arbitrary in the middle of a body. The action `LoopStops` covers
the three early exits of the loop, `DrainReads`, `DrainFails` and
`DrainCloses` the three ends of the body drain. `handled` and `taken` are
history variables.

netpoll is external. It is not part of the repository, so what it guarantees
is a parameter, and every guarantee that a property needs is named:

| in `Faults` | the environment then may |
|---|---|
| `timeoutFails` | fail `SetReadTimeout` in `OnPrepare` |
| `drainTimesOut` | let the 500 ms deadline of the drain expire |
| `closeSilent` | run no `OnDisconnect` after a `Close` by the server itself |
| `parallel` | start a second `OnRequest` on a connection whose first still runs |
| `lateRequest` | run `OnDisconnect` before a started `OnRequest` has acquired the state, and start `OnRequest` after the peer left |

`parallel` is more than an event loop normally does; the code guards against
it with `Processing`, so it is in the instances that check that guard.

### StatePool, HttpPipeline, EngineRefinement

`StatePool` is the promise of `NewConnectionState`, `AcquireConnectionState` and
`ReleaseConnectionState` without counts: an object lives for one connection,
holders come and go, and the life ends, erased, after the last one left.
`HttpPipeline` is a sequential server per connection: requests are served in
order, one at a time, and a take-over is final. The mapping for the pool reads
the holders off the places of callbacks and OnDisconnect, not off `refCount`,
so that a wrong count shows as a life that ends too early; what an object
carries is what its Reader is bound to and its cached address. The mapping for
the pipeline takes request numbers from the history variable `handled`.

### RequestParser

The input is a sequence of symbols: single bytes where the code looks at bytes
(CR, LF, digits, signs, `;`, space), one symbol for a text that it only
compares. `CheckRequest` and the functions it calls are operators with the
code's slices and offsets; integers wrap at `MaxInt`, and the range checks are
the code's. The loop over the header's lines is the set of places where a line
begins, each after a CRLF (`LineStarts`), which leaves out the request line as
the code does; of several lengths the last line's counts, so the code's
overwriting is a `Max`. `ServeHTTPLooks` is one look of `serveHTTP` at the bytes that have
arrived, with the shortcut for requests without a body and the first look at
`PeekLen` bytes.

The reference is the client's side: a request is built from headers, chunks
and trailers (`Header`, `Body`), and `Meaning` says whether it is well formed
and how long it is, computed from those parts and never by searching the bytes.
`RequestAssumption` is all that is asked of a client's bytes: that the first
empty line is the one after the header.

What the instance shows about the edges: an empty `Content-Length:` line is
ignored; two different lengths are not refused, the last one counts; the CRLF
after a chunk's data is counted and not looked at; headers within three bytes
of the limit are accepted or refused depending on where the reads were cut
(`Ambiguous`); a length whose sum with the header passes the largest int makes
the request complete at once (`FitsInt`).

### ResponseWriter

One connection, one request after the other, one ResponseWriter that goes to
its pool and comes back. A handler makes any calls in any order; whether it
keeps to what the writer leaves to it is the constant `Careless`, with three
members: "bodiless", a body where none belongs; "length", a Content-Length that
is not kept; "trailer", a trailer set before the header is sent. For the last one
`ensureHeaderSent` writes `Transfer-Encoding: chunked, trailers`
(`adaptor.go` 312, 364-367). The head token says so (`trailers`), and
the client does with it what RFC 9112 6.3 demands where chunked is not the last
coding: it takes everything until the end of the connection for the body
(`untilClose`).
The `bufio.Writer` accepts tokens, passes on some of them, and may fail at any
token, after which it fails for good; a failing write may leave `headerSent`
set or not. The client is a parser in the sense of RFC 9112, driven token by
token (`Received` is its course through a sequence of tokens), so `Understood`
and `AnswersWhole` are about what it makes of the bytes. `Copied` is the loop of
`ReadFrom`, one piece per turn.
`Release` and `NewResponseWriter` are separate because the second relies on what
the first left in the maps. `NextRequest`, `HandlerReturns` and `HandlerPanics`
are `handleRequest` and the reaction of `serveHTTP`.

### ServerLifecycle

One action per step of `Serve` and `Shutdown`, each in as many calls as the
instance has. The channels `started` and `ready` are Booleans (closed or
not); `sync.Once` around closing them makes that exact. An event loop is named
after the Serve call that created it. netpoll is external (`StopLoop`): a
Shutdown of a loop that serves ends its Serve at once and then waits for the
connections or for ctx (`ShutdownDrains`); a Shutdown of a loop that does not
serve, not yet or not any more, returns nil at once, and netpoll forgets it.

### WsClient

Per Dial: the Dial goroutine, the OnRequest callback with its handshake and
its message loop, the close callback. `clientCloseTracker.once` is modelled
with the two steps that `sync.Once` really has (running, done): a second
caller waits for the first. A handshake response is partial, good or bad;
frames are message, close or bad (one that the session answers with an error;
which these are is the matter of `WsSession`).

### PayloadPool and WsSession

A frame is its opcode, Fin, Rsv1 and length; a payload is named by its
session and frame number, and `mem[b]` says whose payloads a backing array
contains. Slices carry an array, a length and a capacity, because
`putPayloadBuffer` decides by capacity, `append`-like growth in the assembler
by length, and the limit by their sum. `PayloadPool` is the buffer part of
`pool.go`; the fragment actions are `Assembler.ProcessFrame`; `SingleCompressed`
and `LastCompressed` include the growth loop of `DecompressData`.

`MessageIntact` says which frames a call of OnMessage stands for without
replaying the assembler: the n-th call has the n-th final data frame j, the
frames `Spans` back to the one with the opcode, and `Lists` that the delivered
parts are those frames' payloads in order, control frames left out.

A session with `direct` set is a client's: `rw` is nil, `ServeConn` peeks at
netpoll's buffer, waits until a frame is there as a whole and processes it in
place (`PeekWaits`, `PeekTakes`, `PeekTooLarge`); its array, `Input`, belongs to no
pool. Nobody closes a client's connection after an error, so its session may
go on after OnClose; `MessageIntact`, `MessageDelivered` and `OnCloseOnce` say
nothing of it then (`Abandoned`, `~direct`).

The number of arrays bounds the memory: where none is left an action waits,
which the real program never does, so the instances have as many arrays per
pool as one session can hold at a time, and as many directly allocated ones,
which never come back, as it has frames. In `websocket_traffic` session and
writers do compete, which only removes behaviours in which they have nothing
to share.

### WsWriter and WsTraffic

`writeMessageInternal` in steps: take the payload or compress it piece by piece
into a growing `PooledWriter`, write the header, mask (in a copy, or in place if
it was compressed), write the payload, put the buffer back. `job` remembers the
bytes that the call was made with, `wire` what went out. `WsTraffic` joins it to
`WsSession` over one pool: a session's OnMessage echoes its payload, as the
example server does, and does not go on before the write has returned;
other goroutines broadcast one payload to several connections.

## 4. Runs

Passing runs; sizes are chosen so that the named cases happen.

| run | instance | what holds |
|---|---|---|
| `engine_refcount` | 2 connections, 2 objects, 2 goroutines, 1 request; parallel, drainTimesOut, timeoutFails | `RefCountExact`, `NoUseAfterRelease`, `MutualExclusion`, `Isolation`, `CancelOnce`, and the refinement of `StatePool`, `PoolKeepsLives`. Two goroutines can meet on one state, two connections can follow one another on one object: the smallest instance with both. |
| `engine_order` | 2 connections, limit 1, 1 object, 2 goroutines, 2 requests, no faults | the refinement of `HttpPipeline`, `ServesInSequence`, with a second request that is partly, wholly or not yet in the Reader when the first one ends; `CountExact` and `ConnLimit`, with admission, rejection and disconnect racing at the limit. |
| `engine_live` | 2 connections, no limit, 1 object, 2 goroutines, 2 requests on one connection and at most half a one on the other; parallel, closeSilent | `RequestServed`, `StateReclaimed`. The second request arrives before, between or after the yield and the double check of the first, which then finds it or not and takes `Processing` back or loses it to the other callback; the second connection gets the state of the first, and takes a goroutine. |
| `lifecycle` | 3 Serve, 2 Shutdown | `OneLoop`, `ShutdownFirst`, `ReadyComes`, `RunningServeEnds`; three calls allow a failed, an ended and a running one, so the loop that Shutdown reads may be an old one's. |
| `client_close` | 2 Dials, 1 frame, all faults but "send" | `DoneOnce`, `WaitMeansSettled`; two Dials share one WaitGroup. |
| `client_live` | 1 Dial, 2 frames, all faults but "badFrame" | `EventsInOrder`, `DialReturns`, `OnCloseMeansClosed`, `ClosedIsReleased`. |
| `request_check` | limits scaled down: largest int 31, header limit 14, first look 9, streams of 30 symbols; 24 header lines alone and in pairs, 16 kinds of chunks in up to two, trailers, a next request behind; every cut | `NeverEarly`, `CloseJustified`, `WholeRequestDecided`, `CutIndependent`. The numbers lie on both sides of each limit, the header ends before, at and behind the first look. |
| `response` | 2 requests, 4 calls per handler, writes of up to 2 bytes, failures at every token | `Understood`, `AnswersWhole`, `IdleMeansDelivered`, `CutShows`. Two requests show what a pooled writer or buffer keeps; four calls allow a length, a trailer, a write and a flush. |
| `session_messages` | 1 session of a server or a client, 3 frames of 13 kinds, limit 66000 | `NoAliasing`, `MessageIntact`, `SizeBound`, `OnCloseOnce`. Three frames are a first, a middle and a last fragment; the lengths reach the limit, pass it by one, and grow a buffer through every pool and past the largest. |
| `session_live` | 1 session of a server or a client, 2 frames | `MessageDelivered`. |
| `websocket_traffic` | 1 session with 2 frames, 2 broadcasting clients, 5 pooled arrays, 2 writes of 400 or 4000 bytes, compressed ones in 2 pieces, writes may fail | `NoSharedBuffer`, `BuffersComeBack`, `MessageStable`, `FramesIntact`. Two writes meet on one payload, or one meets an echo; two pieces make the compressor's buffer grow. |

One run ends with a counterexample (section 7): `response_close_notify`.

What the conditions mean. Without any one of them TLC finds a counterexample,
and that is a real behaviour of the code (section 7):

- `CountExact` needs `SetReadTimeout` to work in OnPrepare, and an OnDisconnect
  for every admitted connection;
- `RunningServeEnds` needs the Serve call to be in its event loop when Shutdown
  begins;
- `NoUseAfterRelease`, and with it `RefCountExact`, `MutualExclusion`,
  `Isolation`, `CancelOnce` and the two refinements, needs a netpoll that runs no
  OnDisconnect before a started callback has acquired the state;
- `ServesInSequence` needs one callback of a connection at a time, and the drain
  of a body to be in time;
- `DoneOnce` and `WaitMeansSettled` need the handshake request to be sent;
- `Understood` needs handlers that write no body where none belongs, and as much
  as they declared; `Understood`, `IdleMeansDelivered` and `CutShows` need
  handlers that set trailers only after the header is sent;
- `WholeRequestDecided` needs a header line after the request line;
- `FramesIntact` needs one writer per connection at a time;
- `MessageDelivered` needs a server that sends a client no oversized control frame;
- `OnCloseMeansClosed` and `EventsInOrder` need a server that sends no frame
  the session refuses;
- `EventsInOrder` leaves out Dials that failed: after a timeout a late
  handshake response can still give OnOpen after OnClose.

The remaining properties hold under all faults of their instance.

`CHECK_DEADLOCK FALSE` is set throughout: connections, calls and frames are
finite in an instance, and the system is at rest after the last one.

Symmetry is used in safety runs only, over sets of interchangeable
connections, objects, goroutines, calls and arrays of the same pool.

## 5. Fairness

- `Engine`: weak fairness of OnPrepare, OnDisconnect, of a callback's own
  steps and of the application's handler; goroutines are scheduled, handlers
  are assumed to return, reads time out. Strong fairness of starting a
  callback on a connection with unread input, because netpoll has as many
  goroutines as it needs and the model only a few: one that is free again and
  again must be enough. Nothing is assumed of the peer or of an application
  that hijacked a connection: `StateReclaimed` holds for a hijacker who only
  waits for the context. `LiveSpec` of `MCEngine` is `FairSpec` with a client
  that sends little (`Brief`): since nothing is assumed of clients, that only
  leaves behaviours out.
- `ServerLifecycle`: a call that began goes on. The ctx of Shutdown is not
  assumed to end, nor the connections that `eventLoop.Shutdown` waits for to
  become idle: a hijacked handler may hold one for ever (`engine.go` 366).
- `WsClient`: every goroutine goes on, the dial timer included; the server
  may stop at any time.
- `WsSession`: netpoll starts a callback while there is input; callbacks go
  on; OnOpen and OnMessage return. The peer may stop anywhere in a frame.

## 6. Proofs

TLC checks the instances of section 4; the theorems hold for every value of
the constants that their modules' ASSUMEs allow: any finite sets of
connections, objects, goroutines, calls, sessions, writers and arrays, any
limits, any frames, any requests and bodies. TLC evaluates those ASSUMEs in the runs. A hypothesis of a
theorem is one of the conditions of section 4, and is needed: where it is
dropped, TLC finds a counterexample to the property (section 7).

| module | theorem | states | hypothesis |
|---|---|---|---|
| `EngineProofs` | `TypeCorrect` | `TypeOK` | none |
| | `RefCountCorrect`, `ReleaseCorrect`, `ProcessingExclusive` | `RefCountExact`, `NoUseAfterRelease`, `MutualExclusion` | no `lateRequest` |
| | `LimitCorrect` | `ConnLimit` | none |
| | `CountCorrect` | `CountExact` | no `timeoutFails`, no `closeSilent` |
| `EngineRefinementProofs` | `IsolationCorrect`, `CancelCorrect` | `Isolation`, `CancelOnce` | no `lateRequest` |
| | `PoolRefined` | `PoolKeepsLives`: `Engine` implements `StatePool` | no `lateRequest` |
| | `PipelineRefined` | `ServesInSequence`: `Engine` implements `HttpPipeline` | no `lateRequest`, `parallel`, `drainTimesOut` |
| `ServerLifecycleProofs` | `TypeCorrect`, `OneLoopCorrect`, `ShutdownFirstCorrect` | `TypeOK`, `OneLoop`, `ShutdownFirst` | none |
| `WsClientProofs` | `TypeCorrect`, `DoneOnceCorrect`, `WaitCorrect` | `TypeOK`, `DoneOnce`, `WaitMeansSettled` | no `send` |
| | `EventsCorrect` | `EventsInOrder` | no `badFrame` |
| `WsSessionProofs` | `TypeCorrect` | `TypeOK` | none |
| | `OnCloseCorrect`, `SizeCorrect`, `AliasingCorrect` | `OnCloseOnce`, `SizeBound`, `NoAliasing` | none |
| | `MessageCorrect` | `MessageIntact` | none |
| `WsTrafficProofs` | `SharingCorrect`, `StableCorrect`, `BuffersCorrect` | `NoSharedBuffer`, `MessageStable`, `BuffersComeBack` | none |
| | `FramesCorrect` | `FramesIntact` | `Alone`: one writer per connection |
| `ResponseWriterProofs` | `TokensUnderstood`, `AnswersCorrect`, `DeliveryCorrect`, `CutsShow` | `Understood`, `AnswersWhole`, `IdleMeansDelivered`, `CutShows` | `Careless = {}` |
| `RequestParserProofs` | `CutCorrect` | `CutIndependent` | none |
| | `VerdictFinal`, `ServedIsThere` | what `CheckRequest` says of a part of the input; what is there when a request is served | none |

### The reference count

`RefCountExact` is not inductive alone. When a release brings the count to
zero one must know that the object is not yet in the pool and that no callback
is about to acquire it; when an object leaves the pool one must know that
nobody still points to it. `RefInv` adds to `TypeOK`, `RefCountExact` and
`NoUseAfterRelease` three facts:

- `Fresh`: a connection that OnPrepare has not finished, or has refused, has
  no state and no OnDisconnect;
- `Linked`: an active connection has no OnDisconnect under way, so a callback
  that starts on it finds the connection's own reference still held;
- `Entering`: a callback that has not acquired yet has the state of its
  connection, and that connection's OnDisconnect has not begun, which is
  exactly what the absence of `lateRequest` gives.

Counting is done with the library's theorems on finite sets: adding or
removing one holder changes a cardinality by one; a count of one with a known
holder makes that holder the only one. The many actions that touch neither
counts nor holders are discharged together (`QuietStep` and its lemmas).
`MutualExclusion` rests on `OwnerSet` (whoever is in the processing section
has `Processing` set) together with `RefInv`: `Reset` clears `Processing`, and
only `NoUseAfterRelease` says that nobody is inside at that moment.

### The limiter

The limiter looks at `connsCount`, not at the connections. `LimitInv`: under
every fault the count is at least the number of counted connections, since a
fault only ever leaves it too high; so whoever passes the check finds room.
Where no connection ends without an OnDisconnect each step moves both alike
(`CountInv`).

### The refinements of Engine

`LifeInv` adds to `RefInv` what an object carries: every connection's state is
its own (`Homed`, `OneLife`), a pooled object is erased, and what a Reader is
bound to, the cached address and the ReadHandler are those of the connection
it lives for (`Erased`, `Owned`, `Bound`, `Hijacks`); the `done` channel is
open until the connection's own OnDisconnect cancels it (`DoneOpen`).
`PoolRefined` maps each action to the step of `StatePool` that it takes:
NewConnectionState begins a life, acquire and release change its holders,
binding the Reader and caching the address fill it, recycling ends it, and
everything else stutters.

`PipeInv` adds the byte stream. `Stream` and `Blank`: what was read from a
connection, less what its Reader still buffers, is what was consumed, and the
Reader of a fresh state is empty. `PhaseInv`: at each place of the loop the consumed
bytes end at a request's boundary, or one chunk before it while a body is
unread, and a hijacked connection is never in the loop again. `InOrder`: the
i-th request that a handler got starts at chunk 2i-1. It needs callbacks that
are alone on their connection, which is the missing `parallel`.

### ServerLifecycle and WsClient

`OneLoop` is inductive with the types. `ShutdownFirst` needs `FirstInv`: that
`ready` means a Serve has begun, and that after an early Shutdown every Serve
is at a place from which it can only return.

`DoneInv`: `wg` is the number of Dials that have begun and not called Done
(`WgExact`), and Done was called once if the tracker's `once` is done, or Dial
returned without a connection (`DonesExact`); every other way to it leads
through a connection (`Linkless`). The type of `wg`, a natural number, is then
a consequence. `EventInv`: whenever OnClose has been called, the close
callback runs or has run, or a close frame is being processed, or the
connection is closed and no callback can reach OnMessage (`Over`).

### Payload buffers

The ledger. For an array b of a pool, `Count(s, b)` is how often session s
holds it (as payload, in the Assembler, as message) and `Hold(g, b)` whether
writer g does. Each step of a session keeps `pool[b] + Count(s, b)` or makes
it smaller (`Conserved`), each step of a writer `pool[b] + Hold(g, b)`
(`Balanced`); nobody changes the holdings of another. So the exclusion
`Exclusive /\ Disjoint` (an array has one holder or lies in its pool once) is
inductive. To show that a step keeps the ledger one must know what is held
where: `Placed` (a payload from its header to the end of processFrame, a
message during OnMessage, each in a pooled array or, for a client's payload,
in netpoll's) and `Ready` (which array a writer has at each place of its
call). The lemmas are about one step of one session, and serve
`WsSessionProofs` and `WsTrafficProofs` alike.

Contents. A step writes only to arrays that it holds, takes from a pool, or,
for a client's session, to its `Input` (`Written`, `Reach`). With the
exclusion, nobody else reads those; so a message stays as delivered (`Stable`),
and what a writer will send stays the encoding of what it was called with
(`Sourced`, `Faithful`). This uses two facts about the environment that the
modules assume: the sessions' `Input` arrays differ (netpoll has one buffer
per connection), and what an application broadcasts is neither pooled nor
netpoll's.

`BuffersComeBack`: the ledger balances exactly for arrays of a pool except in
four steps. A panic in OnMessage or of getPayloadBuffer closes its connection,
and closed connections stay closed; a header that cannot be written sets
`lost`; directly allocated arrays are not meant to come back. So, while
everything is open and nothing lost, `Accounted` holds: each pooled array is in
its pool or with somebody.

`FramesIntact`: between a header with a length and its payload the writer is
at "mask" or "payload" and that header is the last on its connection, with the
caller's bytes and the Rsv1 bit of the call (`Opened`); at other places the
last thing sent asks for no payload, or the connection is broken and takes
nothing more (`Closed`). The bytes come from `Faithful`.

`SizeBound` needs that a payload in hand was checked (`Placed`) and that joining
and inflating check again; `OnCloseOnce` that a server's session that called
OnClose is returning the error, or is idle on a closed connection (`Leaving`).

### Messages

`Joining` relates the Assembler to the stream. `Done(s)` is how many of the
frames taken have been dealt with. If the Assembler holds something, its
buffer lists exactly the data frames from an opening frame i to `Done`, none
of them final (`Gathers`); a payload that is about to be processed is that of
the frame taken; and the number of calls of OnMessage is the number of final
data frames so far (`Ended`). A step appends the payload of frame `Done + 1` to what is
gathered, skips a control frame, or makes it the next message. That the array
still has the payload when it is appended is the ledger's exclusion once more
(`Separate`, `JoinApart`). The invariant says this of sessions that go on; one
that called OnClose or whose connection is closed delivers nothing more,
except a client's, which `MessageIntact` leaves out (`Abandoned`).

`TypeOK` contains that no slice is longer than its array. For a message that
was inflated this is the growth loop of `DecompressData`, a recursion: it ends,
because the size grows until it is enough or one more than the limit
(`GrowsExists`), and what it finds is enough or too large (`GrowsEnough`).

### ResponseWriter

A *way* is a sequence of tokens that takes the client from one state to
another, understanding each of them and never completing an answer that is not
whole (`Way`). Ways are joined (`WayJoin`) and can be left at any token
(`WayThere`), which is what the buffer's passing on and a failing connection
do. `Where(x, k, a)` is the client's state after k bytes of a response by a
writer in state x; each group of tokens that the code sends, header, chunk,
bytes, terminator, is a way from one such place to another. The invariant
`RInv` says that what is still in the `bufio.Writer` is a way from where the
client is to `Where` the writer's state says (`Answering`), and that between
requests the client has every answer, the buffer is empty and the writer is as
new (`Waiting`). Also after a failure the client has understood all it got, and
its answers are whole (`Behind`); a chunked response that was not ended, or was
cut, is not among them (`Unended`, `CutOpen`).
`Received` and `Copied` are recursive functions; that they exist, and how far
they come, is proved by induction on the number of tokens and bytes
(`ReceivedCourse`, `CopiedSteps`).

`Careless = {}` is a promise of the handlers: no body where none belongs, the
declared length, and no trailer before the header is sent. The last one is part
of the invariant (`Serving`): a writer that has not sent its header has no
trailers, so the head it sends ends in chunked or has a length. Section 7 shows
what happens without the promise.

### RequestParser

`VerdictFinal` is about `CheckRequest` alone: what it says of the first n bytes
of an input, complete or malformed, it says of all of it, for every input and
every n. What is found in a part is found there in the whole (`IndexOfFirst`),
so a header that has arrived reads the same, and so does a chunk's size line
(`ChunkOfFirst`); lengths only need more input. The walk over the chunks is a
recursion that moves forward and stays inside the body (`Forward`), which needs
`parseDigits` to stay in range without wrapping around (`NextNumber`); two walks,
over the part and over the whole, are compared from the end (`ChunksSettled`).
The one exception is stated: a header that ends within three bytes of the
limit can be refused before its end has arrived.

With `BypassComplete` (the shortcut of serveHTTP finds only requests that
`CheckRequest` calls complete) a decision at any look is the verdict on a part,
so it is the verdict on the whole: `CutCorrect`. `ServedIsThere` adds that
`BytesConsumed` never exceeds what had arrived (`CompleteThere`).

### Induction

The library's induction theorems take an operator as a parameter, which the
installed provers cannot instantiate. The proofs use induction for sets
instead (`NatInduct`, `Induct`: a set with 0 and every successor has all
naturals), from the library's theorem that a nonempty set of naturals has a
least member. For a recursive function the set holds the n for which a
function on 0..n, or on the last n arguments, satisfies the recursion; then
the CHOOSE behind its definition is such a function.

### Only model-checked

- Liveness (`RequestServed`, `StateReclaimed`, `ReadyComes`,
  `RunningServeEnds`, `DialReturns`, `OnCloseMeansClosed`, `ClosedIsReleased`,
  `MessageDelivered`): fairness and ENABLED are beyond the prover.
- `NeverEarly`, `CloseJustified`, `WholeRequestDecided` of `RequestParser`: they
  compare `CheckRequest` with `Meaning`, which joins headers and chunks with
  `FlattenSeq` and sums digits with `MapThenSumSet`. Both are folds that take an
  operator as a parameter, and a theorem on them would have to as well; writing
  them as the parser's own recursion would make the reference a copy of what it
  is to check. By `VerdictFinal` the cutting into reads plays no part in them any
  more: what is left to TLC is the verdict on whole requests.
- `NotifyWaitsForOwn` fails, and is meant to (section 7).

## 7. Findings

One is a run that TLC ends with a counterexample; `PROJECT.json` quotes the
text that the code disagrees with. `response_close_notify`, property
`NotifyWaitsForOwn`: the goroutine that `CloseNotify` starts reads `w.ctx` when
it first runs. If the handler has returned, `Release` has cleared the field,
and the nil dereference, in a goroutine without a recover, ends the process;
or the ResponseWriter serves another request by then, and the channel tells of
that connection's end.

The others are met by changing the constants of a passing run, or adding a
property to it:

| cfg, and the change | violated | in short |
|---|---|---|
| `MCServerLifecycle`, property `ShutdownStopsServer` added | `ShutdownStopsServer` | In two orders Shutdown returns nil and the server runs on, although `server_test.go` 95 says "server should stop even if Shutdown is called during startup". Shutdown comes after `markReady` and before `eventLoop.Serve` (`server.go` 197-199): netpoll has nothing to stop yet and forgets it. Or Shutdown sees "not started", Serve starts and looks for the request, Shutdown then stores it (`server.go` 208). |
| `MCEngine_refcount`, "lateRequest" | `NoUseAfterRelease` | `ServeConn` takes its reference only when it runs (`engine.go` 196); an OnDisconnect before that recycles the state under it. It depends on netpoll (section 3), and shows which of its behaviours the code relies on. |
| `MCEngine_order`, "timeoutFails" | `CountExact` | a failing `SetReadTimeout` closes the connection and leaves it counted (`server.go` 144-147), unlike the limiter's own branch. |
| `MCEngine_order`, "closeSilent" | `CountExact` | if netpoll runs no OnDisconnect after the server's own Close, the connection stays counted. |
| `MCEngine_order`, "drainTimesOut" | `ServesInSequence` | the drain's error is dropped (`engine.go` 374); a late body is read as the next request. |
| `MCEngine_order`, "parallel" | `ServesInSequence` | a callback that gave up `Processing` takes it back at `engine.go` 408 after another one's handler hijacked the connection and installed a ReadHandler, and reads HTTP. |
| `MCWsClient_close`, "send" | `DoneOnce` | after a failed send both the close callback and Dial call `wg.Done` (`client.go` 198), although `client.go` 224 says "exactly once". |
| `MCWsClient_live`, "badFrame" | `OnCloseMeansClosed`, `EventsInOrder` | after a refused frame OnClose was called and `Wait` returns, but the connection stays open and further messages are delivered. |
| `MCRequestParser`, `Requests <- BareRequests` | `WholeRequestDecided` | a request line without header lines is never complete; the comment at `parser.go` 63 says that it "Should not happen". |
| `ResponseWriter`, "bodiless" or "length" in `Careless` | `Understood` | bodies of 204, 304 and HEAD answers are written, and a wrong Content-Length is not noticed; net/http suppresses the first and reports or closes on the second, and the repository's README says "Fully compatible with `http.Handler`". |
| `ResponseWriter`, "trailer" in `Careless` | `Understood`, `IdleMeansDelivered`, `CutShows` | a trailer set before the header makes the header say `Transfer-Encoding: chunked, trailers` (`adaptor.go` 312, 364-367); "trailers" is no coding, and chunked is not the last one, so the client reads chunks, terminator and the next response as one body until the connection ends, and a cut response looks complete; a strict client, as Go's own, refuses the response. |
| `MCWsTraffic`, all writers on one connection in `MCLinkOf` | `FramesIntact` | two writers interleave headers and payloads (`writer.go` 53-78). |
| `MCWsSession_live`, `Frames <- BadFrames` | `MessageDelivered` | a client never gets past a control frame of more than 125 bytes (`websocket.go` 277). |

And three that the models show without a property. A client that leaves while
no callback runs is never reported to `OnClose`, because the server's
OnDisconnect does not know of the WebSocket handler, although `handler.go` says
that OnClose is called when the connection is closed. A client's session that
refused a frame as too large has skipped its header only and would read on in
the middle of its payload. A write that fails after compressing keeps its
buffer (`writer.go` 55).

## 8. What is not modelled

- The request context: pooled, but used by one goroutine between creation and
  release, with no state of its own across requests.
- Texts: header formatting and Date in the response writer, which no framing
  depends on. The two Transfer-Encoding lines, on which it does, are modelled;
  a handler that sets Transfer-Encoding itself is not.
- OnDisconnect's fallbacks for a context that is not a ConnectionState
  (`server.go` 164-177): OnPrepare returns the state itself as the context.
- Deadlines of `http.ResponseController`, and what a hijacker does with the
  connection after it was closed.
- TLS dialling and building the handshake request in the client: input and
  output without control of their own.
- Errors of the compressor: `PooledWriter.Write` never fails, so CompressData's
  two error paths cannot be taken.
- What a client reads after it refused too large a frame, from the middle of
  the stream; the mask bits of frames, so also that the automatic pong of a
  client's session is unmasked.
- Connections that are not netpoll's in the session's `ServeConn` (tests use
  them): the loop then ends after the buffered frames.
- Examples and load generators, except for the echo in `WsTraffic`.
- Go's memory model below atomics, mutexes and channels: the plain fields of
  `ConnectionState` are accessed inside the `Processing` section, which is what
  `MutualExclusion` is about.
