------------------------------- MODULE Engine -------------------------------
(***************************************************************************)
(* The connection core of the server: admission of a connection            *)
(* (OnPrepare) and its end (OnDisconnect) in pkg/server/server.go, the     *)
(* pooled, reference-counted ConnectionState, and the request loop         *)
(* (ServeConn, serveHTTP, handleRequest) in pkg/engine/engine.go.          *)
(*                                                                         *)
(* The client's bytes are counted in chunks.  Request k of a connection is *)
(* the chunks 2k-1 (its header) and 2k (its body).  A chunk is sent by the *)
(* peer, then lies in netpoll's input buffer, then in the bufio.Reader of  *)
(* a ConnectionState, and is then consumed.                                *)
(***************************************************************************)
EXTENDS Integers, Sequences, FiniteSets

CONSTANTS
    Conns,        \* connections a client opens, each once
    Objs,         \* ConnectionState objects: what the pool can hand out
    Workers,      \* goroutines in which netpoll runs the OnRequest callback
    None,         \* no connection, no object
    MaxConns,     \* Server.maxConns; 0 is unlimited
    MaxRequests,  \* bound: requests a client sends on one connection
    Faults        \* what the environment may do in an instance, see below

(***************************************************************************)
(* "timeoutFails"  conn.SetReadTimeout returns an error in OnPrepare       *)
(* "drainTimesOut" the 500 ms deadline of the body drain expires           *)
(* "closeSilent"   a Close by the server itself may run no OnDisconnect    *)
(* "parallel"      OnRequest may be started on a connection while another  *)
(*                 OnRequest callback of that connection is still running  *)
(* "lateRequest"   OnDisconnect may run while an OnRequest callback has    *)
(*                 been started and has not yet reached its Acquire, and   *)
(*                 unread data still starts OnRequest after the peer left  *)
(***************************************************************************)
AllFaults == {"timeoutFails", "drainTimesOut", "closeSilent", "parallel",
              "lateRequest"}

ASSUME SetsAssumption ==
    /\ IsFiniteSet(Conns) /\ IsFiniteSet(Objs) /\ IsFiniteSet(Workers)
    /\ None \notin Conns \cup Objs \cup Workers
    /\ Conns \cap Workers = {}

ASSUME ParameterAssumption ==
    /\ MaxConns \in Nat
    /\ MaxRequests \in Nat
    /\ Faults \subseteq AllFaults

VARIABLES
    conn,         \* what netpoll and the limiter know of each connection
    connsCount,   \* Server.connsCount
    state,        \* the ConnectionState that OnPrepare returned for it
    dpc,          \* where its OnDisconnect callback is
    sent, read,   \* chunks sent by the peer / moved into a bufio.Reader
    refCount, processing, done, rw, buffered, readHandler, addr,
                  \* fields of a ConnectionState; rw is the connection that
                  \* Reader and Writer are bound to, buffered its Buffered()
    pool,         \* how often an object lies in connectionStatePool
    pc, arg, ctx, \* a worker's place, its connection and its context
    hijacked,     \* ResponseWriter.hijacked of the worker's request
    handled,      \* history: requests given to the handler, per connection
    taken         \* history: connections some handler has hijacked

netVars    == <<conn, dpc>>
streamVars == <<sent, read>>
admitVars  == <<connsCount, state>>
ctlVars    == <<refCount, done, pool>>
bufVars    == <<rw, buffered>>
fieldVars  == <<readHandler, addr>>
histVars   == <<handled, taken>>
vars == <<netVars, streamVars, admitVars, ctlVars, processing, bufVars,
          fieldVars, pc, arg, ctx, hijacked, histVars>>

ConnStates == {"idle", "overLimit", "preparing", "rejected", "active",
               "peerClosed", "selfClosed"}
DisconnectPcs == {"none", "due", "cancel", "release", "recycle", "done"}
WorkerPcs == {"idle", "enter", "cas", "bind", "loop", "request", "handler",
              "drain", "after", "recheck", "recas", "await", "readHandler",
              "yield", "release", "recycle"}
Chunks == 0..(2 * MaxRequests)

Init ==
    /\ conn = [c \in Conns |-> "idle"]
    /\ connsCount = 0
    /\ state = [c \in Conns |-> None]
    /\ dpc = [c \in Conns |-> "none"]
    /\ sent = [c \in Conns |-> 0]
    /\ read = [c \in Conns |-> 0]
    /\ refCount = [o \in Objs |-> 0]
    /\ processing = [o \in Objs |-> FALSE]
    /\ done = [o \in Objs |-> "nil"]
    /\ rw = [o \in Objs |-> None]
    /\ buffered = [o \in Objs |-> 0]
    /\ readHandler = [o \in Objs |-> FALSE]
    /\ addr = [o \in Objs |-> None]
    /\ pool = [o \in Objs |-> 1]        \* sync.Pool.New makes zero objects
    /\ pc = [w \in Workers |-> "idle"]
    /\ arg = [w \in Workers |-> None]
    /\ ctx = [w \in Workers |-> None]
    /\ hijacked = [w \in Workers |-> FALSE]
    /\ handled = [c \in Conns |-> << >>]
    /\ taken = [c \in Conns |-> FALSE]

-----------------------------------------------------------------------------
(* OnPrepare: the connection limiter and the new ConnectionState *)

(* Mutant: the limit is compared with the count before the increment *)
OnPrepareCountLate(c) ==
    /\ conn[c] = "idle"
    /\ connsCount' = connsCount + 1
    /\ conn' = [conn EXCEPT ![c] =
                    IF MaxConns > 0 /\ connsCount > MaxConns
                    THEN "overLimit" ELSE "preparing"]
    /\ UNCHANGED <<state, dpc, streamVars, ctlVars, processing, bufVars,
                   fieldVars, pc, arg, ctx, hijacked, histVars>>

OnPrepareCount(c) ==
    /\ conn[c] = "idle"
    /\ connsCount' = connsCount + 1
    /\ conn' = [conn EXCEPT ![c] =
                    IF MaxConns > 0 /\ connsCount' > MaxConns
                    THEN "overLimit" ELSE "preparing"]
    /\ UNCHANGED <<state, dpc, streamVars, ctlVars, processing, bufVars,
                   fieldVars, pc, arg, ctx, hijacked, histVars>>

(* Mutant: a rejected connection stays counted *)
OnPrepareRejectKeepsCount(c) ==
    /\ conn[c] = "overLimit"
    /\ conn' = [conn EXCEPT ![c] = "rejected"]
    /\ UNCHANGED <<connsCount, state, dpc, streamVars, ctlVars, processing,
                   bufVars, fieldVars, pc, arg, ctx, hijacked, histVars>>

OnPrepareReject(c) ==
    /\ conn[c] = "overLimit"
    /\ connsCount' = connsCount - 1
    /\ conn' = [conn EXCEPT ![c] = "rejected"]
    /\ UNCHANGED <<state, dpc, streamVars, ctlVars, processing, bufVars,
                   fieldVars, pc, arg, ctx, hijacked, histVars>>

(* Mutant: the error path goes on without a ConnectionState *)
OnPrepareTimeoutIgnored(c) ==
    /\ "timeoutFails" \in Faults
    /\ conn[c] = "preparing"
    /\ conn' = [conn EXCEPT ![c] = "active"]
    /\ UNCHANGED <<admitVars, dpc, streamVars, ctlVars, processing, bufVars,
                   fieldVars, pc, arg, ctx, hijacked, histVars>>

OnPrepareTimeoutFails(c) ==
    /\ "timeoutFails" \in Faults
    /\ conn[c] = "preparing"
    /\ conn' = [conn EXCEPT ![c] = "rejected"]
    /\ UNCHANGED <<admitVars, dpc, streamVars, ctlVars, processing, bufVars,
                   fieldVars, pc, arg, ctx, hijacked, histVars>>

(* Mutant: no new done channel is made *)
NewConnectionStateNoDone(o) ==
    /\ pool[o] > 0
    /\ pool' = [pool EXCEPT ![o] = @ - 1]
    /\ refCount' = [refCount EXCEPT ![o] = 1]
    /\ UNCHANGED done

(* NewConnectionState: every field it does not set keeps what Reset left *)
NewConnectionState(o) ==
    /\ pool[o] > 0
    /\ pool' = [pool EXCEPT ![o] = @ - 1]
    /\ refCount' = [refCount EXCEPT ![o] = 1]
    /\ done' = [done EXCEPT ![o] = "open"]

OnPrepareState(c, o) ==
    /\ conn[c] = "preparing"
    /\ NewConnectionState(o)
    /\ state' = [state EXCEPT ![c] = o]
    /\ conn' = [conn EXCEPT ![c] = "active"]
    /\ UNCHANGED <<connsCount, dpc, streamVars, processing, bufVars,
                   fieldVars, pc, arg, ctx, hijacked, histVars>>

-----------------------------------------------------------------------------
(* The client and netpoll (external) *)

PeerSend(c) ==
    /\ conn[c] = "active"
    /\ sent[c] < 2 * MaxRequests
    /\ sent' = [sent EXCEPT ![c] = @ + 1]
    /\ UNCHANGED <<netVars, read, admitVars, ctlVars, processing, bufVars,
                   fieldVars, pc, arg, ctx, hijacked, histVars>>

PeerClose(c) ==
    /\ conn[c] = "active"
    /\ conn' = [conn EXCEPT ![c] = "peerClosed"]
    /\ dpc' = [dpc EXCEPT ![c] = "due"]
    /\ UNCHANGED <<streamVars, admitVars, ctlVars, processing, bufVars,
                   fieldVars, pc, arg, ctx, hijacked, histVars>>

(* conn.Close() called by the server on connection c *)
CloseConn(c) ==
    LET closes == conn[c] = "active"
    IN  /\ conn' = [conn EXCEPT ![c] = IF closes THEN "selfClosed" ELSE @]
        /\ \/ closes /\ dpc' = [dpc EXCEPT ![c] = "due"]
           \/ (closes => "closeSilent" \in Faults) /\ UNCHANGED dpc

(* netpoll runs OnRequest in some goroutine while input is unread *)
Dispatch(w, c) ==
    /\ pc[w] = "idle"
    /\ \/ conn[c] = "active"
       \/ conn[c] = "peerClosed" /\ "lateRequest" \in Faults
    /\ "parallel" \in Faults \/ \A v \in Workers : arg[v] # c
    /\ sent[c] > read[c]
    /\ pc' = [pc EXCEPT ![w] = "enter"]
    /\ arg' = [arg EXCEPT ![w] = c]
    /\ ctx' = [ctx EXCEPT ![w] = state[c]]
    /\ UNCHANGED <<netVars, streamVars, admitVars, ctlVars, processing,
                   bufVars, fieldVars, hijacked, histVars>>

(* netpoll starts OnDisconnect.  Unless "lateRequest" is allowed it waits   *)
(* for every OnRequest callback it has started to be past its Acquire.      *)
CallbacksEntered(c) ==
    \/ "lateRequest" \in Faults
    \/ \A w \in Workers : pc[w] = "enter" => arg[w] # c

-----------------------------------------------------------------------------
(* OnDisconnect *)

DisconnectCount(c) ==
    /\ dpc[c] = "due"
    /\ CallbacksEntered(c)
    /\ connsCount' = connsCount - 1
    /\ dpc' = [dpc EXCEPT ![c] = "cancel"]
    /\ UNCHANGED <<conn, state, streamVars, ctlVars, processing, bufVars,
                   fieldVars, pc, arg, ctx, hijacked, histVars>>

(* Mutant: OnDisconnect does not cancel *)
DisconnectSkipsCancel(c) ==
    /\ dpc[c] = "cancel"
    /\ dpc' = [dpc EXCEPT ![c] = "release"]
    /\ UNCHANGED <<conn, streamVars, admitVars, ctlVars, processing,
                   bufVars, fieldVars, pc, arg, ctx, hijacked, histVars>>

(* ConnectionState.Cancel *)
DisconnectCancel(c) ==
    /\ dpc[c] = "cancel"
    /\ done' = [done EXCEPT ![state[c]] = "closed"]
    /\ dpc' = [dpc EXCEPT ![c] = "release"]
    /\ UNCHANGED <<conn, streamVars, admitVars, refCount, pool, processing,
                   bufVars, fieldVars, pc, arg, ctx, hijacked, histVars>>

(* The atomic decrement of ReleaseConnectionState *)
Decrement(o) == refCount' = [refCount EXCEPT ![o] = @ - 1]

(* Mutant: Reset forgets the ReadHandler *)
RecycleKeepsReadHandler(o) ==
    /\ rw' = [rw EXCEPT ![o] = None]
    /\ buffered' = [buffered EXCEPT ![o] = 0]
    /\ UNCHANGED readHandler
    /\ processing' = [processing EXCEPT ![o] = FALSE]
    /\ addr' = [addr EXCEPT ![o] = None]
    /\ refCount' = [refCount EXCEPT ![o] = 0]
    /\ done' = [done EXCEPT ![o] = "nil"]
    /\ pool' = [pool EXCEPT ![o] = @ + 1]

(* Mutant: Reset forgets the remote address *)
RecycleKeepsAddr(o) ==
    /\ rw' = [rw EXCEPT ![o] = None]
    /\ buffered' = [buffered EXCEPT ![o] = 0]
    /\ readHandler' = [readHandler EXCEPT ![o] = FALSE]
    /\ processing' = [processing EXCEPT ![o] = FALSE]
    /\ UNCHANGED addr
    /\ refCount' = [refCount EXCEPT ![o] = 0]
    /\ done' = [done EXCEPT ![o] = "nil"]
    /\ pool' = [pool EXCEPT ![o] = @ + 1]

(* What ReleaseConnectionState does at zero: reader and writer go back to   *)
(* their pools, Reset, and the object goes back to connectionStatePool.     *)
Recycle(o) ==
    /\ rw' = [rw EXCEPT ![o] = None]
    /\ buffered' = [buffered EXCEPT ![o] = 0]
    /\ readHandler' = [readHandler EXCEPT ![o] = FALSE]
    /\ processing' = [processing EXCEPT ![o] = FALSE]
    /\ addr' = [addr EXCEPT ![o] = None]
    /\ refCount' = [refCount EXCEPT ![o] = 0]
    /\ done' = [done EXCEPT ![o] = "nil"]
    /\ pool' = [pool EXCEPT ![o] = @ + 1]

(* Mutant: OnDisconnect recycles the state whoever still holds it *)
DisconnectReleaseAlways(c) ==
    /\ dpc[c] = "release"
    /\ Decrement(state[c])
    /\ dpc' = [dpc EXCEPT ![c] = "recycle"]
    /\ UNCHANGED <<conn, streamVars, admitVars, done, pool, processing,
                   bufVars, fieldVars, pc, arg, ctx, hijacked, histVars>>

DisconnectRelease(c) ==
    /\ dpc[c] = "release"
    /\ Decrement(state[c])
    /\ dpc' = [dpc EXCEPT ![c] =
                   IF refCount[state[c]] = 1 THEN "recycle" ELSE "done"]
    /\ UNCHANGED <<conn, streamVars, admitVars, done, pool, processing,
                   bufVars, fieldVars, pc, arg, ctx, hijacked, histVars>>

DisconnectRecycle(c) ==
    /\ dpc[c] = "recycle"
    /\ Recycle(state[c])
    /\ dpc' = [dpc EXCEPT ![c] = "done"]
    /\ UNCHANGED <<conn, streamVars, admitVars, pc, arg, ctx, hijacked,
                   histVars>>

-----------------------------------------------------------------------------
(* ServeConn *)

Goto(w, here, there) == pc[w] = here /\ pc' = [pc EXCEPT ![w] = there]

(* Mutant: ServeConn does not count its reference *)
ServeConnAcquireUncounted(w) ==
    /\ Goto(w, "enter", "cas")
    /\ UNCHANGED <<netVars, streamVars, admitVars, ctlVars, processing,
                   bufVars, fieldVars, arg, ctx, hijacked, histVars>>

(* AcquireConnectionState *)
ServeConnAcquire(w) ==
    /\ Goto(w, "enter", "cas")
    /\ refCount' = [refCount EXCEPT ![ctx[w]] = @ + 1]
    /\ UNCHANGED <<netVars, streamVars, admitVars, done, pool, processing,
                   bufVars, fieldVars, arg, ctx, hijacked, histVars>>

(* Mutant: Processing is stored, not compared and swapped *)
ServeConnStoresProcessing(w) ==
    /\ Goto(w, "cas", "bind")
    /\ processing' = [processing EXCEPT ![ctx[w]] = TRUE]
    /\ UNCHANGED <<netVars, streamVars, admitVars, ctlVars, bufVars,
                   fieldVars, arg, ctx, hijacked, histVars>>

(* Processing.CompareAndSwap(false, true) *)
ServeConnTryProcess(w) ==
    /\ Goto(w, "cas", IF processing[ctx[w]] THEN "release" ELSE "bind")
    /\ processing' = [processing EXCEPT ![ctx[w]] = TRUE]
    /\ UNCHANGED <<netVars, streamVars, admitVars, ctlVars, bufVars,
                   fieldVars, arg, ctx, hijacked, histVars>>

(* A Reader and a Writer are taken from their pools and Reset to the        *)
(* connection when the state has none; then the ReadHandler or serveHTTP.   *)
ServeConnBind(w) ==
    /\ Goto(w, "bind", IF readHandler[ctx[w]] THEN "readHandler" ELSE "loop")
    /\ rw' = [rw EXCEPT ![ctx[w]] = IF @ = None THEN arg[w] ELSE @]
    /\ UNCHANGED <<netVars, streamVars, admitVars, ctlVars, processing,
                   buffered, fieldVars, arg, ctx, hijacked, histVars>>

(* The ReadHandler reads what has arrived and returns; an error or a panic  *)
(* closes the connection.                                                   *)
ServeConnReadHandler(w) ==
    LET o == ctx[w]
        s == rw[o]
    IN  /\ Goto(w, "readHandler", "yield")
        /\ s # None
        /\ read' = [read EXCEPT ![s] = sent[s]]
        /\ buffered' = [buffered EXCEPT ![o] = 0]
        /\ CloseConn(arg[w]) \/ UNCHANGED netVars
        /\ UNCHANGED <<sent, admitVars, ctlVars, processing, rw, fieldVars,
                       arg, ctx, hijacked, histVars>>

(* Processing.Store(false), on every way out of the processing section *)
ServeConnYield(w) ==
    /\ Goto(w, "yield", "release")
    /\ processing' = [processing EXCEPT ![ctx[w]] = FALSE]
    /\ UNCHANGED <<netVars, streamVars, admitVars, ctlVars, bufVars,
                   fieldVars, arg, ctx, hijacked, histVars>>

(* The callback's goroutine is done with the connection *)
Return(w) ==
    /\ arg' = [arg EXCEPT ![w] = None]
    /\ ctx' = [ctx EXCEPT ![w] = None]
    /\ hijacked' = [hijacked EXCEPT ![w] = FALSE]

ServeConnRelease(w) ==
    LET last == refCount[ctx[w]] = 1
    IN  /\ Goto(w, "release", IF last THEN "recycle" ELSE "idle")
        /\ Decrement(ctx[w])
        /\ IF last THEN UNCHANGED <<arg, ctx, hijacked>> ELSE Return(w)
        /\ UNCHANGED <<netVars, streamVars, admitVars, done, pool,
                       processing, bufVars, fieldVars, histVars>>

ServeConnRecycle(w) ==
    /\ Goto(w, "recycle", "idle")
    /\ Recycle(ctx[w])
    /\ Return(w)
    /\ UNCHANGED <<netVars, streamVars, admitVars, histVars>>

-----------------------------------------------------------------------------
(* serveHTTP *)

Unread(s) == sent[s] - read[s]                 \* conn.Reader().Len()
Position(o) == read[rw[o]] - buffered[o]       \* chunks consumed through o
AtBoundary(o) == Position(o) % 2 = 0

(* What CheckRequest can answer on the unread bytes.  At a request boundary *)
(* the request is complete when both its chunks are there; in the middle of *)
(* a body the bytes may look like anything.                                 *)
MayBeComplete(o) ==
    IF AtBoundary(o) THEN Unread(rw[o]) >= 2 ELSE Unread(rw[o]) > 0
MayBeIncomplete(o) == ~AtBoundary(o) \/ Unread(rw[o]) < 2

(* Not active, no data, or an incomplete request: yield *)
LoopStops(w) ==
    /\ Goto(w, "loop", "yield")
    /\ \/ conn[arg[w]] # "active"
       \/ /\ rw[ctx[w]] # None
          /\ buffered[ctx[w]] = 0
          /\ MayBeIncomplete(ctx[w])
    /\ UNCHANGED <<netVars, streamVars, admitVars, ctlVars, processing,
                   bufVars, fieldVars, arg, ctx, hijacked, histVars>>

(* CheckRequest reports a malformed request: close and yield *)
LoopRejects(w) ==
    /\ Goto(w, "loop", "yield")
    /\ conn[arg[w]] = "active"
    /\ rw[ctx[w]] # None
    /\ buffered[ctx[w]] = 0
    /\ Unread(rw[ctx[w]]) > 0
    /\ CloseConn(arg[w])
    /\ UNCHANGED <<streamVars, admitVars, ctlVars, processing, bufVars,
                   fieldVars, arg, ctx, hijacked, histVars>>

(* A request is there, or part of one is in the bufio.Reader.  RemoteAddr   *)
(* is filled in once per ConnectionState.                                   *)
LoopProceeds(w) ==
    LET o == ctx[w]
    IN  /\ Goto(w, "loop", "request")
        /\ conn[arg[w]] = "active"
        /\ rw[o] # None
        /\ buffered[o] > 0 \/ MayBeComplete(o)
        /\ addr' = [addr EXCEPT ![o] = IF @ = None THEN arg[w] ELSE @]
        /\ UNCHANGED <<netVars, streamVars, admitVars, ctlVars, processing,
                       bufVars, readHandler, arg, ctx, hijacked, histVars>>

(* One chunk is consumed through o's Reader, which first moves any part of  *)
(* the unread input into its buffer when the buffer is empty.               *)
ConsumeChunk(o) ==
    LET s == rw[o]
    IN  /\ s # None
        /\ \E k \in Chunks :
              /\ k <= Unread(s)
              /\ IF buffered[o] > 0 THEN k = 0 ELSE k > 0
              /\ read' = [read EXCEPT ![s] = @ + k]
              /\ buffered' = [buffered EXCEPT ![o] = @ + k - 1]

(* handleRequest up to the call of the handler: GetRequest parses a header  *)
(* (waiting for it), the new ResponseWriter is not hijacked.                *)
HandleRequest(w) ==
    LET o == ctx[w]
        s == rw[o]
    IN  /\ Goto(w, "request", "handler")
        /\ ConsumeChunk(o)
        /\ handled' = [handled EXCEPT ![arg[w]] =
                           Append(@, <<s, Position(o) + 1>>)]
        /\ hijacked' = [hijacked EXCEPT ![w] = FALSE]
        /\ UNCHANGED <<sent, netVars, admitVars, ctlVars, processing, rw,
                       fieldVars, arg, ctx, taken>>

(* GetRequest fails (bad header, read timeout): close.  io.EOF: the peer    *)
(* has closed, and Close would change nothing.                              *)
HandleRequestFails(w) ==
    /\ Goto(w, "request", "yield")
    /\ CloseConn(arg[w])
    /\ UNCHANGED <<streamVars, admitVars, ctlVars, processing, bufVars,
                   fieldVars, arg, ctx, hijacked, histVars>>

(* The application's handler calls Hijack *)
HandlerHijacks(w) ==
    /\ pc[w] = "handler"
    /\ ~hijacked[w]
    /\ hijacked' = [hijacked EXCEPT ![w] = TRUE]
    /\ taken' = [taken EXCEPT ![arg[w]] = TRUE]
    /\ UNCHANGED <<netVars, streamVars, admitVars, ctlVars, processing,
                   bufVars, fieldVars, pc, arg, ctx, handled>>

(* The handler calls SetReadHandler; websocket.Upgrade, its only caller,    *)
(* does so after Hijack.                                                    *)
HandlerSetsReadHandler(w) ==
    /\ pc[w] = "handler"
    /\ hijacked[w]
    /\ ~readHandler[ctx[w]]
    /\ readHandler' = [readHandler EXCEPT ![ctx[w]] = TRUE]
    /\ UNCHANGED <<netVars, streamVars, admitVars, ctlVars, processing,
                   bufVars, addr, pc, arg, ctx, hijacked, histVars>>

(* The handler panics, or EndResponse fails: close and yield *)
HandlerFails(w) ==
    /\ Goto(w, "handler", "yield")
    /\ CloseConn(arg[w])
    /\ UNCHANGED <<streamVars, admitVars, ctlVars, processing, bufVars,
                   fieldVars, arg, ctx, hijacked, histVars>>

(* The handler returns.  Hijacked with a ReadHandler: leave the connection  *)
(* to it; hijacked without: wait for ctx.Done(); else drain the body.       *)
HandlerReturns(w) ==
    /\ Goto(w, "handler",
            IF ~hijacked[w] THEN "drain"
            ELSE IF readHandler[ctx[w]] THEN "yield" ELSE "await")
    /\ UNCHANGED <<netVars, streamVars, admitVars, ctlVars, processing,
                   bufVars, fieldVars, arg, ctx, hijacked, histVars>>

(* <-ctx.Done() *)
AwaitDone(w) ==
    /\ Goto(w, "await", "yield")
    /\ done[ctx[w]] = "closed"
    /\ UNCHANGED <<netVars, streamVars, admitVars, ctlVars, processing,
                   bufVars, fieldVars, arg, ctx, hijacked, histVars>>

(* The application reads from, or closes, the connection it has hijacked *)
HijackerReads(w) ==
    /\ pc[w] = "await"
    /\ ConsumeChunk(ctx[w])
    /\ UNCHANGED <<sent, netVars, admitVars, ctlVars, processing, rw,
                   fieldVars, pc, arg, ctx, hijacked, histVars>>

HijackerCloses(w) ==
    /\ pc[w] \in {"handler", "await"}
    /\ hijacked[w]
    /\ conn[arg[w]] = "active"
    /\ CloseConn(arg[w])
    /\ UNCHANGED <<streamVars, admitVars, ctlVars, processing, bufVars,
                   fieldVars, pc, arg, ctx, hijacked, histVars>>

(* Mutant: the body is not drained *)
DrainSkipped(w) ==
    /\ Goto(w, "drain", "after")
    /\ UNCHANGED <<netVars, streamVars, admitVars, ctlVars, processing,
                   bufVars, fieldVars, arg, ctx, hijacked, histVars>>

(* The rest of the body is read by the handler or by the drain *)
DrainReads(w) ==
    /\ Goto(w, "drain", "after")
    /\ ConsumeChunk(ctx[w])
    /\ UNCHANGED <<sent, netVars, admitVars, ctlVars, processing, rw,
                   fieldVars, arg, ctx, hijacked, histVars>>

(* The read of the body fails and the error is dropped *)
DrainFails(w) ==
    /\ Goto(w, "drain", "after")
    /\ \/ conn[arg[w]] # "active"
       \/ "drainTimesOut" \in Faults
    /\ rw[ctx[w]] # None
    /\ buffered[ctx[w]] = 0
    /\ Unread(rw[ctx[w]]) = 0
    /\ UNCHANGED <<netVars, streamVars, admitVars, ctlVars, processing,
                   bufVars, fieldVars, arg, ctx, hijacked, histVars>>

(* The body is longer than maxDrainSize, or the request asked for close *)
DrainCloses(w) ==
    /\ Goto(w, "drain", "yield")
    /\ CloseConn(arg[w])
    /\ UNCHANGED <<streamVars, admitVars, ctlVars, processing, bufVars,
                   fieldVars, arg, ctx, hijacked, histVars>>

(* Keep-alive: go on with what is buffered, or give up Processing ...       *)
AfterRequest(w) ==
    LET o == ctx[w]
    IN  /\ Goto(w, "after", IF buffered[o] > 0 THEN "loop" ELSE "recheck")
        /\ processing' = [processing EXCEPT ![o] =
                              IF buffered[o] > 0 THEN @ ELSE FALSE]
        /\ UNCHANGED <<netVars, streamVars, admitVars, ctlVars, bufVars,
                       fieldVars, arg, ctx, hijacked, histVars>>

(* ... look once more for data that came in meanwhile ...                   *)
DoubleCheck(w) ==
    LET o == ctx[w]
    IN  /\ Goto(w, "recheck",
                IF buffered[o] > 0 \/ sent[arg[w]] > read[arg[w]]
                THEN "recas" ELSE "release")
        /\ UNCHANGED <<netVars, streamVars, admitVars, ctlVars, processing,
                       bufVars, fieldVars, arg, ctx, hijacked, histVars>>

(* Mutant: the callback leaves with Processing taken back *)
TryAgainLeaves(w) ==
    /\ Goto(w, "recas", "release")
    /\ processing' = [processing EXCEPT ![ctx[w]] = TRUE]
    /\ UNCHANGED <<netVars, streamVars, admitVars, ctlVars, bufVars,
                   fieldVars, arg, ctx, hijacked, histVars>>

(* ... and take Processing back unless another callback has it.             *)
TryAgain(w) ==
    /\ Goto(w, "recas", IF processing[ctx[w]] THEN "release" ELSE "loop")
    /\ processing' = [processing EXCEPT ![ctx[w]] = TRUE]
    /\ UNCHANGED <<netVars, streamVars, admitVars, ctlVars, bufVars,
                   fieldVars, arg, ctx, hijacked, histVars>>

-----------------------------------------------------------------------------
Prepare(c) ==
    \/ OnPrepareCount(c)
    \/ OnPrepareReject(c)
    \/ OnPrepareTimeoutFails(c)
    \/ \E o \in Objs : OnPrepareState(c, o)

Disconnect(c) ==
    \/ DisconnectCount(c)
    \/ DisconnectCancel(c)
    \/ DisconnectRelease(c)
    \/ DisconnectRecycle(c)

ServeConn(w) ==
    \/ ServeConnAcquire(w)
    \/ ServeConnTryProcess(w)
    \/ ServeConnBind(w)
    \/ ServeConnReadHandler(w)
    \/ ServeConnYield(w)
    \/ ServeConnRelease(w)
    \/ ServeConnRecycle(w)

Handler(w) ==
    \/ HandlerHijacks(w)
    \/ HandlerSetsReadHandler(w)
    \/ HandlerFails(w)
    \/ HandlerReturns(w)

serveHTTP(w) ==
    \/ LoopStops(w)
    \/ LoopRejects(w)
    \/ LoopProceeds(w)
    \/ HandleRequest(w)
    \/ HandleRequestFails(w)
    \/ AwaitDone(w)
    \/ DrainReads(w)
    \/ DrainFails(w)
    \/ DrainCloses(w)
    \/ AfterRequest(w)
    \/ DoubleCheck(w)
    \/ TryAgain(w)

Hijacker(w) == HijackerReads(w) \/ HijackerCloses(w)

Next ==
    \/ \E c \in Conns : \/ Prepare(c)
                        \/ PeerSend(c)
                        \/ PeerClose(c)
                        \/ Disconnect(c)
                        \/ \E w \in Workers : Dispatch(w, c)
    \/ \E w \in Workers : ServeConn(w) \/ serveHTTP(w) \/ Handler(w) \/ Hijacker(w)

Spec == Init /\ [][Next]_vars

(***************************************************************************)
(* Fairness.  Goroutines that can run do run, handlers return, and reads   *)
(* that get no data time out: weak fairness of each callback's steps.      *)
(* netpoll starts the callback of a connection with unread input whenever  *)
(* it can; its goroutine pool is unbounded, the model's is not, so a       *)
(* worker that is only repeatedly free is enough: strong fairness.         *)
(* Nothing is assumed of the client or of a hijacking application.         *)
(***************************************************************************)
Fairness ==
    /\ \A c \in Conns : WF_vars(Prepare(c)) /\ WF_vars(Disconnect(c))
    /\ \A c \in Conns : SF_vars(\E w \in Workers : Dispatch(w, c))
    /\ \A w \in Workers : WF_vars(ServeConn(w) \/ serveHTTP(w)) /\ WF_vars(Handler(w))

FairSpec == Spec /\ Fairness

-----------------------------------------------------------------------------
(* Properties *)

(* Every variable has its type; a worker outside "idle" has a connection    *)
(* and a ConnectionState, as has a connection with an OnDisconnect to run.  *)
TypeOK ==
    /\ conn \in [Conns -> ConnStates]
    /\ connsCount \in Int
    /\ state \in [Conns -> Objs \cup {None}]
    /\ dpc \in [Conns -> DisconnectPcs]
    /\ sent \in [Conns -> Nat]
    /\ read \in [Conns -> Int]
    /\ refCount \in [Objs -> Int]
    /\ processing \in [Objs -> BOOLEAN]
    /\ done \in [Objs -> {"nil", "open", "closed"}]
    /\ rw \in [Objs -> Conns \cup {None}]
    /\ buffered \in [Objs -> Int]
    /\ readHandler \in [Objs -> BOOLEAN]
    /\ addr \in [Objs -> Conns \cup {None}]
    /\ pool \in [Objs -> Int]
    /\ pc \in [Workers -> WorkerPcs]
    /\ arg \in [Workers -> Conns \cup {None}]
    /\ ctx \in [Workers -> Objs \cup {None}]
    /\ hijacked \in [Workers -> BOOLEAN]
    /\ handled \in [Conns -> Seq(Conns \X Int)]
    /\ taken \in [Conns -> BOOLEAN]
    /\ \A w \in Workers : pc[w] # "idle" => arg[w] \in Conns /\ ctx[w] \in Objs
    /\ \A c \in Conns :
          conn[c] \in {"active", "peerClosed", "selfClosed"} \/ dpc[c] # "none"
              => state[c] \in Objs

(* Who holds a reference: a callback between Acquire and Release, and the   *)
(* connection itself from NewConnectionState to its OnDisconnect's Release. *)
HoldingPcs == WorkerPcs \ {"idle", "enter", "recycle"}
WorkersHolding(o) == {w \in Workers : ctx[w] = o /\ pc[w] \in HoldingPcs}
ConnsHolding(o) ==
    {c \in Conns : state[c] = o /\ dpc[c] \in {"none", "due", "cancel", "release"}}

(* ReleaseConnectionState frees an object exactly when nobody uses it:      *)
(* refCount is the number of holders at every moment, through every         *)
(* interleaving of callbacks with OnDisconnect and of reuse from the pool.  *)
RefCountExact ==
    \A o \in Objs :
        refCount[o] = Cardinality(WorkersHolding(o)) + Cardinality(ConnsHolding(o))

(* Reset's comment: when it runs, and as long as the object lies in the     *)
(* pool, no goroutine uses the state; and an object is never in the pool    *)
(* twice, nor recycled by two goroutines.                                   *)
Recyclers(o) ==
    {w \in Workers : ctx[w] = o /\ pc[w] = "recycle"}
        \cup {c \in Conns : state[c] = o /\ dpc[c] = "recycle"}
NoUseAfterRelease ==
    \A o \in Objs :
        /\ pool[o] \in {0, 1}
        /\ pool[o] = 1 => Recyclers(o) = {}
        /\ \A x, y \in Recyclers(o) : x = y
        /\ pool[o] = 1 \/ Recyclers(o) # {}
              => WorkersHolding(o) = {} /\ ConnsHolding(o) = {}

(* Processing serialises the use of Reader, Writer and ReadHandler: at most *)
(* one callback of a connection is between winning and giving it back.      *)
OwnerPcs == {"bind", "loop", "request", "handler", "drain", "after", "await",
             "readHandler", "yield"}
MutualExclusion ==
    \A v, w \in Workers :
        pc[v] \in OwnerPcs /\ pc[w] \in OwnerPcs /\ ctx[v] = ctx[w] => v = w

(* However often a ConnectionState has been reused, a handler only sees     *)
(* bytes and the RemoteAddr of its own connection, and a connection has a   *)
(* ReadHandler only after a request of its own asked for one.               *)
Isolation ==
    /\ \A w \in Workers :
          pc[w] \in {"handler", "drain", "await"}
              => rw[ctx[w]] = arg[w] /\ addr[ctx[w]] = arg[w]
    /\ \A c \in Conns : \A o \in Objs :
          c \in ConnsHolding(o) /\ readHandler[o] => taken[c]

(* Cancel closes an open channel: it never runs on a state that has been    *)
(* reset (nil channel) or cancelled before.                                 *)
CancelOnce ==
    \A c \in Conns : dpc[c] = "cancel" => done[state[c]] = "open"

(* connsCount counts the connections there are: those being admitted and    *)
(* those whose OnDisconnect is still to come.                               *)
CountExact ==
    connsCount =
        Cardinality({c \in Conns : \/ conn[c] \in {"overLimit", "preparing", "active"}
                                   \/ dpc[c] = "due"})

(* The limiter: never more than MaxConns connections past OnPrepare *)
ConnLimit ==
    MaxConns > 0 =>
        Cardinality({c \in Conns : conn[c] \in {"preparing", "active"}
                                       \/ dpc[c] = "due"}) <= MaxConns

(* A complete request on a connection that stays open and is not hijacked   *)
(* is given to the handler: no interleaving of the callbacks' yields and    *)
(* double checks loses it.                                                  *)
RequestServed ==
    \A c \in Conns : \A k \in 1..MaxRequests :
        (conn[c] = "active" /\ sent[c] >= 2 * k)
            ~> (conn[c] # "active" \/ taken[c] \/ Len(handled[c]) >= k)

(* A connection whose OnDisconnect netpoll runs gives everything back:      *)
(* OnDisconnect ends, the callbacks (a hijacked one waiting for ctx.Done()  *)
(* too) return, and the state is in the pool or in use by another one.      *)
StateReclaimed ==
    \A c \in Conns :
        dpc[c] # "none"
            ~> /\ dpc[c] = "done"
               /\ \A w \in Workers : arg[w] # c
               /\ \/ pool[state[c]] = 1
                  \/ \E d \in Conns \ {c} : state[d] = state[c]
=============================================================================
