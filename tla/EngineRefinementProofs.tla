----------------------- MODULE EngineRefinementProofs -----------------------
(* Machine-checked proofs that module Engine keeps the connections apart    *)
(* that reuse a ConnectionState, that it implements StatePool, and that it  *)
(* serves the requests of each connection like a sequential server: the     *)
(* refinement of HttpPipeline.                                              *)
EXTENDS EngineRefinement, EngineProofs, SequenceTheorems

(***************************************************************************)
(* A callback that is not idle works on the ConnectionState of its own     *)
(* connection, and has hijacked only what the history says is taken.       *)
(***************************************************************************)
Homed ==
    \A w \in Workers :
        /\ pc[w] = "idle" => arg[w] = None /\ ctx[w] = None
        /\ pc[w] # "idle" => state[arg[w]] = ctx[w]
Hijacks ==
    \A w \in Workers : hijacked[w] => pc[w] # "idle" /\ taken[arg[w]]

(* Between Acquire and Release a callback keeps its connection and context, *)
(* and what is in the pool stays there.                                     *)
LEMMA QuietWorkerMoves ==
    ASSUME TypeOK, NEW w \in Workers, QuietWorker(w)
    PROVE  /\ pc[w] \in HoldingPcs
           /\ \E x \in HoldingPcs : pc' = [pc EXCEPT ![w] = x]
           /\ UNCHANGED <<arg, ctx, state, pool>>
<1>0. pc \in [Workers -> WorkerPcs]
    BY DEF TypeOK
<1> USE <1>0 DEF HoldingPcs, WorkerPcs, Goto, admitVars, ctlVars
<1>1. CASE \/ ServeConnTryProcess(w) \/ ServeConnBind(w)
           \/ ServeConnReadHandler(w) \/ ServeConnYield(w)
    BY <1>1
       DEF ServeConnTryProcess, ServeConnBind, ServeConnReadHandler, ServeConnYield
<1>2. CASE LoopStops(w) \/ LoopRejects(w) \/ LoopProceeds(w)
    BY <1>2 DEF LoopStops, LoopRejects, LoopProceeds
<1>3. CASE HandleRequest(w) \/ HandleRequestFails(w) \/ AwaitDone(w)
    BY <1>3 DEF HandleRequest, HandleRequestFails, AwaitDone
<1>4. CASE DrainReads(w) \/ DrainFails(w) \/ DrainCloses(w)
    BY <1>4 DEF DrainReads, DrainFails, DrainCloses
<1>5. CASE AfterRequest(w) \/ DoubleCheck(w) \/ TryAgain(w)
    BY <1>5 DEF AfterRequest, DoubleCheck, TryAgain
<1>6. CASE \/ HandlerHijacks(w) \/ HandlerSetsReadHandler(w)
           \/ HijackerReads(w) \/ HijackerCloses(w)
    <2>1. pc[w] \in HoldingPcs /\ pc' = pc /\ UNCHANGED <<arg, ctx, state, pool>>
        BY <1>6
           DEF HandlerHijacks, HandlerSetsReadHandler, HijackerReads, HijackerCloses
    <2>2. pc' = [pc EXCEPT ![w] = pc[w]]
        BY <2>1
    <2> QED
        BY <2>1, <2>2
<1>7. CASE HandlerFails(w) \/ HandlerReturns(w)
    BY <1>7 DEF HandlerFails, HandlerReturns
<1> QED
    BY <1>1, <1>2, <1>3, <1>4, <1>5, <1>6, <1>7 DEF QuietWorker

(* Nothing is ever untaken; a handler takes a connection with its hijack, a *)
(* new request starts without one, and a callback that ends drops it.       *)
LEMMA HijackStep ==
    ASSUME TypeOK, Hijacks, [Next]_vars
    PROVE  Hijacks' /\ \A c \in Conns : taken[c] => taken'[c]
<1>0. /\ taken \in [Conns -> BOOLEAN] /\ hijacked \in [Workers -> BOOLEAN]
      /\ pc \in [Workers -> WorkerPcs]
      /\ arg \in [Workers -> Conns \cup {None}] /\ ctx \in [Workers -> Objs \cup {None}]
      /\ \A w \in Workers : pc[w] # "idle" => arg[w] \in Conns
    BY DEF TypeOK
<1> DEFINE Goal == Hijacks' /\ \A c \in Conns : taken[c] => taken'[c]
<1>1. ASSUME NEW c \in Conns, Prepare(c) \/ PeerSend(c) \/ PeerClose(c) \/ Disconnect(c)
      PROVE  Goal
    <2>1. UNCHANGED <<taken, hijacked, arg, pc>>
        BY <1>1
           DEF Prepare, OnPrepareCount, OnPrepareReject, OnPrepareTimeoutFails,
               OnPrepareState, PeerSend, PeerClose, Disconnect, DisconnectCount,
               DisconnectCancel, DisconnectRelease, DisconnectRecycle, histVars
    <2> QED
        BY <2>1 DEF Hijacks
<1>2. ASSUME NEW c \in Conns, NEW w \in Workers, Dispatch(w, c) PROVE Goal
    BY <1>0, <1>2 DEF Dispatch, histVars, Hijacks
<1>3. ASSUME NEW w \in Workers, QuietWorker(w) PROVE Goal
    <2>1. /\ arg' = arg /\ pc'[w] # "idle" /\ pc[w] # "idle"
          /\ \A v \in Workers \ {w} : pc'[v] = pc[v]
        BY <1>0, <1>3, QuietWorkerMoves DEF HoldingPcs
    <2>2. \/ UNCHANGED <<taken, hijacked>>
          \/ taken' = taken /\ hijacked' = [hijacked EXCEPT ![w] = FALSE]
          \/ /\ taken' = [taken EXCEPT ![arg[w]] = TRUE]
             /\ hijacked' = [hijacked EXCEPT ![w] = TRUE]
        BY <1>3
           DEF QuietWorker, ServeConnTryProcess, ServeConnBind, ServeConnReadHandler,
               ServeConnYield, LoopStops, LoopRejects, LoopProceeds, HandleRequest,
               HandleRequestFails, AwaitDone, DrainReads, DrainFails, DrainCloses,
               AfterRequest, DoubleCheck, TryAgain, HandlerHijacks,
               HandlerSetsReadHandler, HandlerFails, HandlerReturns, HijackerReads,
               HijackerCloses, histVars
    <2> QED
        BY <1>0, <2>1, <2>2 DEF Hijacks
<1>4. ASSUME NEW w \in Workers,
             ServeConnAcquire(w) \/ ServeConnRelease(w) \/ ServeConnRecycle(w)
      PROVE  Goal
    BY <1>0, <1>4
       DEF ServeConnAcquire, ServeConnRelease, ServeConnRecycle, Return, Goto,
           histVars, Hijacks
<1>5. CASE UNCHANGED vars
    BY <1>5 DEF vars, histVars, Hijacks
<1> QED
    BY <1>1, <1>2, <1>3, <1>4, <1>5
       DEF Next, ServeConn, serveHTTP, Handler, Hijacker, QuietWorker

(* Homed is kept: netpoll gives a callback the context of its connection,   *)
(* whose ConnectionState never changes once OnPrepare has set it.           *)
LEMMA HomedStep ==
    ASSUME TypeOK, Fresh, Homed, [Next]_vars
    PROVE  Homed'
<1>0. /\ pc \in [Workers -> WorkerPcs] /\ state \in [Conns -> Objs \cup {None}]
      /\ arg \in [Workers -> Conns \cup {None}] /\ ctx \in [Workers -> Objs \cup {None}]
      /\ \A w \in Workers : pc[w] # "idle" => arg[w] \in Conns /\ ctx[w] \in Objs
    BY DEF TypeOK
<1> USE <1>0, SetsAssumption DEF Homed, Goto, admitVars
<1>1. ASSUME NEW w \in Workers, QuietWorker(w) PROVE Homed'
    BY <1>1, QuietWorkerMoves DEF HoldingPcs
<1>2. ASSUME NEW c \in Conns, NEW w \in Workers, Dispatch(w, c) PROVE Homed'
    BY <1>2 DEF Dispatch
<1>3. ASSUME NEW c \in Conns, NEW o \in Objs, OnPrepareState(c, o) PROVE Homed'
    BY <1>3 DEF OnPrepareState, Fresh
<1>4. ASSUME NEW c \in Conns,
             \/ OnPrepareCount(c) \/ OnPrepareReject(c) \/ OnPrepareTimeoutFails(c)
             \/ PeerSend(c) \/ PeerClose(c) \/ Disconnect(c)
      PROVE  Homed'
    <2>1. UNCHANGED <<arg, ctx, pc, state>>
        BY <1>4
           DEF OnPrepareCount, OnPrepareReject, OnPrepareTimeoutFails, PeerSend, PeerClose,
               Disconnect, DisconnectCount, DisconnectCancel, DisconnectRelease,
               DisconnectRecycle
    <2> QED
        BY <2>1
<1>5. ASSUME NEW w \in Workers,
             ServeConnAcquire(w) \/ ServeConnRelease(w) \/ ServeConnRecycle(w)
      PROVE  Homed'
    BY <1>5 DEF ServeConnAcquire, ServeConnRelease, ServeConnRecycle, Return
<1>6. CASE UNCHANGED vars
    BY <1>6 DEF vars
<1> QED
    BY <1>1, <1>2, <1>3, <1>4, <1>5, <1>6
       DEF Next, Prepare, ServeConn, serveHTTP, Handler, Hijacker, QuietWorker

-----------------------------------------------------------------------------
(***************************************************************************)
(* Lives.  OneLife is what reuse from the pool must not break: everybody   *)
(* who still holds or recycles an object does so for the same connection.  *)
(***************************************************************************)
OneLife == \A o \in Objs : \A c, d \in LivesFor(o) : c = d

(* LivesFor in terms of the holders and recyclers of the object.            *)
LEMMA LivesBy ==
    ASSUME NEW o \in Objs
    PROVE  /\ LivesFor(o) = {c \in Conns :
                  \/ c \in ConnsHolding(o) \cup Recyclers(o)
                  \/ \E w \in Workers : w \in WorkersHolding(o) \cup Recyclers(o) /\ arg[w] = c}
           /\ LivesFor(o)' = {c \in Conns :
                  \/ c \in ConnsHolding(o)' \cup Recyclers(o)'
                  \/ \E w \in Workers : w \in WorkersHolding(o)' \cup Recyclers(o)' /\ arg'[w] = c}
    BY SetsAssumption DEF LivesFor, ConnsHolding, WorkersHolding, Recyclers

(* Whoever holds or recycles an object does so for its own connection. *)
LEMMA HolderLives ==
    ASSUME TypeOK, NEW w \in Workers, pc[w] \in HoldingPcs \cup {"recycle"}
    PROVE  ctx[w] \in Objs /\ arg[w] \in Conns /\ arg[w] \in LivesFor(ctx[w])
    BY DEF TypeOK, LivesFor, HoldingPcs

(* What a step does to the life of an object: nothing, except when it comes *)
(* out of the pool or goes back.  An Acquire joins the life of its own      *)
(* connection, and a Release that is not the last leaves somebody behind.   *)
LEMMA LivesStep ==
    ASSUME "lateRequest" \notin Faults, RefInv, Homed, OneLife, [Next]_vars, NEW o \in Objs
    PROVE  \/ LivesFor(o)' = LivesFor(o)
           \/ \E c \in Conns : /\ OnPrepareState(c, o)
                               /\ pool[o] = 1 /\ LivesFor(o) = {} /\ LivesFor(o)' = {c}
           \/ Recycle(o) /\ Recyclers(o) # {} /\ LivesFor(o)' = {}
<1>0. /\ TypeOK /\ RefCountExact /\ NoUseAfterRelease /\ Fresh /\ Linked /\ Entering
      /\ pc \in [Workers -> WorkerPcs] /\ state \in [Conns -> Objs \cup {None}]
      /\ arg \in [Workers -> Conns \cup {None}] /\ ctx \in [Workers -> Objs \cup {None}]
      /\ dpc \in [Conns -> DisconnectPcs]
      /\ \A w \in Workers : pc[w] # "idle" => arg[w] \in Conns /\ ctx[w] \in Objs
      /\ \A c \in Conns : dpc[c] # "none" => state[c] \in Objs
    BY DEF RefInv, LinkInv, TypeOK
<1> DEFINE Goal ==
        \/ LivesFor(o)' = LivesFor(o)
        \/ \E c \in Conns : /\ OnPrepareState(c, o)
                            /\ pool[o] = 1 /\ LivesFor(o) = {} /\ LivesFor(o)' = {c}
        \/ Recycle(o) /\ Recyclers(o) # {} /\ LivesFor(o)' = {}
<1>1. ASSUME /\ WorkersHolding(o)' = WorkersHolding(o)
             /\ ConnsHolding(o)' = ConnsHolding(o)
             /\ Recyclers(o)' = Recyclers(o),
             \A w \in WorkersHolding(o) \cup Recyclers(o) : w \in Workers => arg'[w] = arg[w]
      PROVE  LivesFor(o)' = LivesFor(o)
    <2>1. \A c \in Conns :
              (\E w \in Workers : w \in WorkersHolding(o)' \cup Recyclers(o)' /\ arg'[w] = c)
                  <=> (\E w \in Workers : w \in WorkersHolding(o) \cup Recyclers(o) /\ arg[w] = c)
        BY <1>1
    <2> QED
        <3>1. LivesFor(o) = {c \in Conns :
                  \/ c \in ConnsHolding(o) \cup Recyclers(o)
                  \/ \E w \in Workers : w \in WorkersHolding(o) \cup Recyclers(o) /\ arg[w] = c}
            BY LivesBy
        <3>2. LivesFor(o)' = {c \in Conns :
                  \/ c \in ConnsHolding(o)' \cup Recyclers(o)'
                  \/ \E w \in Workers : w \in WorkersHolding(o)' \cup Recyclers(o)' /\ arg'[w] = c}
            BY LivesBy
        <3>3. \A c \in Conns : c \in ConnsHolding(o)' \cup Recyclers(o)' <=> c \in ConnsHolding(o) \cup Recyclers(o)
            BY <1>1
        <3> QED
            BY <2>1, <3>1, <3>2, <3>3
<1>2. ASSUME NEW w \in Workers, QuietWorker(w) PROVE Goal
    <2>1. Quiet /\ arg' = arg
        BY <1>0, <1>2, QuietWorkers, QuietWorkerMoves
    <2> QED
        BY <1>1, <2>1 DEF Quiet
<1>3. ASSUME NEW c \in Conns, QuietConn(c) PROVE Goal
    <2>1. Quiet
        BY <1>0, <1>3, QuietConns
    <2>2. \A w \in Workers : pc[w] # "idle" => arg'[w] = arg[w]
        BY <1>0, <1>3
           DEF QuietConn, OnPrepareCount, OnPrepareReject, OnPrepareTimeoutFails, PeerSend,
               PeerClose, DisconnectCount, DisconnectCancel, Dispatch
    <2>3. \A w \in WorkersHolding(o) \cup Recyclers(o) : w \in Workers => pc[w] # "idle"
        BY SetsAssumption DEF WorkersHolding, Recyclers, HoldingPcs
    <2> QED
        BY <1>1, <2>1, <2>2, <2>3 DEF Quiet
<1>4. ASSUME NEW c \in Conns, NEW p \in Objs, OnPrepareState(c, p) PROVE Goal
    <2>1. /\ state[c] = None /\ dpc[c] = "none"
          /\ state' = [state EXCEPT ![c] = p] /\ UNCHANGED <<dpc, pc, arg, ctx>>
        BY <1>4, <1>0 DEF OnPrepareState, Fresh
    <2>2. CASE p # o
        <3>1. /\ WorkersHolding(o)' = WorkersHolding(o)
              /\ ConnsHolding(o)' = ConnsHolding(o)
              /\ Recyclers(o)' = Recyclers(o)
            BY <1>0, <2>1, <2>2, SetsAssumption DEF WorkersHolding, ConnsHolding, Recyclers
        <3> QED
            BY <1>1, <2>1, <3>1
    <2>3. CASE p = o
        <3>1. /\ pool[o] = 1 /\ Recyclers(o) = {}
              /\ WorkersHolding(o) = {} /\ ConnsHolding(o) = {}
            BY <1>0, <1>4, <2>3 DEF OnPrepareState, NewConnectionState, NoUseAfterRelease
        <3>2. /\ WorkersHolding(o)' = {} /\ ConnsHolding(o)' = {c} /\ Recyclers(o)' = {}
            BY <1>0, <2>1, <2>3, <3>1 DEF WorkersHolding, ConnsHolding, Recyclers
        <3>3. LivesFor(o) = {} /\ LivesFor(o)' = {c}
            BY <3>1, <3>2, LivesBy
        <3> QED
            BY <1>4, <2>3, <3>1, <3>3
    <2> QED
        BY <2>2, <2>3
<1>5. ASSUME NEW w \in Workers, ServeConnAcquire(w) PROVE Goal
    <2>1. /\ pc[w] = "enter" /\ pc' = [pc EXCEPT ![w] = "cas"]
          /\ UNCHANGED <<arg, ctx, state, dpc>>
        BY <1>5 DEF ServeConnAcquire, Goto, netVars, admitVars
    <2>2. state[arg[w]] = ctx[w] /\ dpc[arg[w]] \in {"none", "due"} /\ arg[w] \in Conns
        BY <1>0, <2>1 DEF Entering
    <2>3. LivesFor(o)' = LivesFor(o)
        BY <1>0, <2>1, <2>2 DEF LivesFor, ConnsHolding, HoldingPcs, WorkerPcs
    <2> QED
        BY <2>3
<1>6. ASSUME NEW x, refCount[o] # 1,
             x \in WorkersHolding(o) \cup ConnsHolding(o)
      PROVE  \E y \in WorkersHolding(o) \cup ConnsHolding(o) : y # x
    <2>1. SUFFICES ASSUME \A y \in WorkersHolding(o) \cup ConnsHolding(o) : y = x
                   PROVE  FALSE
        OBVIOUS
    <2>2. refCount[o] = Cardinality(WorkersHolding(o)) + Cardinality(ConnsHolding(o))
        BY <1>0 DEF RefCountExact
    <2>3. /\ WorkersHolding(o) = {} \/ WorkersHolding(o) = {x}
          /\ ConnsHolding(o) = {} \/ ConnsHolding(o) = {x}
          /\ WorkersHolding(o) # {} \/ ConnsHolding(o) # {}
          /\ WorkersHolding(o) = {} \/ ConnsHolding(o) = {}
        BY <1>6, <2>1, SetsAssumption DEF WorkersHolding, ConnsHolding
    <2>4. Cardinality({}) = 0 /\ Cardinality({x}) = 1
        BY FS_EmptySet, FS_Singleton
    <2> QED
        BY <1>6, <2>2, <2>3, <2>4
<1>7. ASSUME NEW w \in Workers, ServeConnRelease(w) PROVE Goal
    <2>1. /\ pc[w] = "release" /\ UNCHANGED <<state, dpc>>
          /\ pc' = [pc EXCEPT ![w] = IF refCount[ctx[w]] = 1 THEN "recycle" ELSE "idle"]
          /\ refCount[ctx[w]] = 1 => UNCHANGED <<arg, ctx>>
          /\ refCount[ctx[w]] # 1 => /\ arg' = [arg EXCEPT ![w] = None]
                                     /\ ctx' = [ctx EXCEPT ![w] = None]
        BY <1>7 DEF ServeConnRelease, Goto, Return, netVars, admitVars
    <2>2. CASE refCount[ctx[w]] = 1
        BY <1>0, <2>1, <2>2 DEF LivesFor, ConnsHolding, HoldingPcs, WorkerPcs
    <2>3. CASE refCount[ctx[w]] # 1 /\ ctx[w] # o
        <3>1. /\ WorkersHolding(o)' = WorkersHolding(o)
              /\ ConnsHolding(o)' = ConnsHolding(o)
              /\ Recyclers(o)' = Recyclers(o)
            BY <1>0, <2>1, <2>3, SetsAssumption
               DEF WorkersHolding, ConnsHolding, Recyclers, HoldingPcs, WorkerPcs
        <3>2. \A v \in WorkersHolding(o) \cup Recyclers(o) : v \in Workers => arg'[v] = arg[v]
            BY <1>0, <2>1, <2>3, SetsAssumption DEF WorkersHolding, Recyclers
        <3> QED
            BY <1>1, <3>1, <3>2
    <2>4. CASE refCount[ctx[w]] # 1 /\ ctx[w] = o
        <3>1. w \in WorkersHolding(o)
            BY <2>1, <2>4 DEF WorkersHolding, HoldingPcs, WorkerPcs
        <3>2. PICK y \in WorkersHolding(o) \cup ConnsHolding(o) : y # w
            BY <1>6, <2>4, <3>1
        <3>3. LivesFor(o)' # {}
            <4>1. CASE y \in ConnsHolding(o)
                BY <2>1, <4>1 DEF LivesFor, ConnsHolding
            <4>2. CASE y \in WorkersHolding(o)
                <5>1. /\ y \in Workers /\ arg'[y] = arg[y] /\ ctx'[y] = o
                      /\ pc'[y] = pc[y] /\ pc[y] \in HoldingPcs /\ arg[y] \in Conns
                    BY <1>0, <2>1, <2>4, <3>2, <4>2 DEF WorkersHolding, HoldingPcs
                <5> QED
                    BY <5>1 DEF LivesFor
            <4> QED
                BY <4>1, <4>2
        <3>4. LivesFor(o)' \subseteq LivesFor(o)
            BY <1>0, <2>1, <2>4, SetsAssumption DEF LivesFor, ConnsHolding, HoldingPcs
        <3> QED
            BY <3>3, <3>4 DEF OneLife
    <2> QED
        BY <2>2, <2>3, <2>4
<1>8. ASSUME NEW c \in Conns, DisconnectRelease(c) PROVE Goal
    <2>1. /\ dpc[c] = "release" /\ UNCHANGED <<state, pc, arg, ctx>>
          /\ dpc' = [dpc EXCEPT ![c] = IF refCount[state[c]] = 1 THEN "recycle" ELSE "done"]
        BY <1>8 DEF DisconnectRelease, admitVars
    <2>2. CASE refCount[state[c]] = 1
        BY <1>0, <2>1, <2>2 DEF LivesFor, ConnsHolding, DisconnectPcs
    <2>3. CASE refCount[state[c]] # 1 /\ state[c] # o
        BY <1>0, <2>1, <2>3 DEF LivesFor, ConnsHolding, DisconnectPcs
    <2>4. CASE refCount[state[c]] # 1 /\ state[c] = o
        <3>1. c \in ConnsHolding(o)
            BY <2>1, <2>4 DEF ConnsHolding
        <3>2. PICK y \in WorkersHolding(o) \cup ConnsHolding(o) : y # c
            BY <1>6, <2>4, <3>1
        <3>3. LivesFor(o)' # {}
            <4>1. CASE y \in ConnsHolding(o)
                BY <1>0, <2>1, <3>2, <4>1 DEF LivesFor, ConnsHolding
            <4>2. CASE y \in WorkersHolding(o)
                BY <1>0, <2>1, <4>2 DEF LivesFor, WorkersHolding, HoldingPcs
            <4> QED
                BY <4>1, <4>2
        <3>4. LivesFor(o)' \subseteq LivesFor(o)
            BY <1>0, <2>1, <2>4 DEF LivesFor, ConnsHolding, DisconnectPcs
        <3> QED
            BY <3>3, <3>4 DEF OneLife
    <2> QED
        BY <2>2, <2>3, <2>4
<1>9. ASSUME NEW w \in Workers, ServeConnRecycle(w) PROVE Goal
    <2>1. /\ pc[w] = "recycle" /\ pc' = [pc EXCEPT ![w] = "idle"] /\ UNCHANGED <<state, dpc>>
          /\ arg' = [arg EXCEPT ![w] = None] /\ ctx' = [ctx EXCEPT ![w] = None]
          /\ Recycle(ctx[w])
        BY <1>9 DEF ServeConnRecycle, Goto, Return, netVars, admitVars
    <2>2. CASE ctx[w] # o
        BY <1>0, <2>1, <2>2, SetsAssumption DEF LivesFor, ConnsHolding, HoldingPcs
    <2>3. CASE ctx[w] = o
        <3>1. w \in Recyclers(o)
            BY <2>1, <2>3 DEF Recyclers
        <3>2. /\ WorkersHolding(o) = {} /\ ConnsHolding(o) = {}
              /\ \A x \in Recyclers(o) : x = w
            BY <1>0, <3>1 DEF NoUseAfterRelease
        <3>3. LivesFor(o)' = {}
            BY <1>0, <2>1, <2>3, <3>2, SetsAssumption
               DEF LivesFor, ConnsHolding, WorkersHolding, Recyclers, HoldingPcs
        <3> QED
            BY <2>1, <2>3, <3>1, <3>3
    <2> QED
        BY <2>2, <2>3
<1>10. ASSUME NEW c \in Conns, DisconnectRecycle(c) PROVE Goal
    <2>1. /\ dpc[c] = "recycle" /\ dpc' = [dpc EXCEPT ![c] = "done"]
          /\ UNCHANGED <<state, pc, arg, ctx>> /\ Recycle(state[c])
        BY <1>10 DEF DisconnectRecycle, admitVars
    <2>2. CASE state[c] # o
        BY <1>0, <2>1, <2>2 DEF LivesFor, ConnsHolding
    <2>3. CASE state[c] = o
        <3>1. c \in Recyclers(o)
            BY <2>1, <2>3 DEF Recyclers
        <3>2. /\ WorkersHolding(o) = {} /\ ConnsHolding(o) = {}
              /\ \A x \in Recyclers(o) : x = c
            BY <1>0, <3>1 DEF NoUseAfterRelease
        <3>3. LivesFor(o)' = {}
            BY <1>0, <2>1, <2>3, <3>2, SetsAssumption
               DEF LivesFor, ConnsHolding, WorkersHolding, Recyclers, HoldingPcs
        <3> QED
            BY <2>1, <2>3, <3>1, <3>3
    <2> QED
        BY <2>2, <2>3
<1>11. CASE UNCHANGED vars
    <2>1. LivesFor(o)' = LivesFor(o)
        BY <1>11 DEF vars, netVars, admitVars, LivesFor, ConnsHolding
    <2> QED
        BY <2>1
<1>12. Goal
    BY <1>2, <1>3, <1>4, <1>5, <1>7, <1>8, <1>9, <1>10, <1>11
       DEF Next, Prepare, Disconnect, ServeConn, serveHTTP, Handler, Hijacker,
           QuietConn, QuietWorker
<1> QED
    BY <1>12

-----------------------------------------------------------------------------
(***************************************************************************)
(* What an object carries.  Erased: Reset left nothing in an object of the *)
(* pool.  Owned: whatever it carries belongs to the connection it lives    *)
(* for.  Bound: once ServeConn has bound reader and writer, and serveHTTP  *)
(* the address, a callback finds its own connection there.  DoneOpen: the  *)
(* done channel is open until the OnDisconnect of the connection cancels.  *)
(***************************************************************************)
Erased ==
    \A o \in Objs : pool[o] = 1 => rw[o] = None /\ addr[o] = None /\ ~readHandler[o]
Owned ==
    \A o \in Objs : \A c \in LivesFor(o) :
        rw[o] \in {c, None} /\ addr[o] \in {c, None} /\ (readHandler[o] => taken[c])
BoundPcs == {"loop", "request", "handler", "drain", "after", "recheck", "recas", "await",
             "readHandler"}
Bound ==
    \A w \in Workers :
        /\ pc[w] \in BoundPcs => rw[ctx[w]] = arg[w]
        /\ pc[w] \in {"request", "handler", "drain", "await"} => addr[ctx[w]] = arg[w]
DoneOpen ==
    \A c \in Conns : \A o \in Objs :
        state[c] = o /\ dpc[c] \in {"none", "due", "cancel"} => done[o] = "open"
LifeInv ==
    /\ RefInv /\ Homed /\ Hijacks /\ OneLife
    /\ Erased /\ Owned /\ Bound /\ DoneOpen

(* The three steps that put something into an object, and Reset, are the    *)
(* only ones that change what it carries.                                   *)
Fills(w) == ServeConnBind(w) \/ LoopProceeds(w) \/ HandlerSetsReadHandler(w)
LEMMA FieldStep ==
    ASSUME TypeOK, [Next]_vars, NEW o \in Objs
    PROVE  \/ rw'[o] = rw[o] /\ addr'[o] = addr[o] /\ readHandler'[o] = readHandler[o]
           \/ Recycle(o) /\ Recyclers(o) # {}
           \/ \E w \in Workers : ctx[w] = o /\ Fills(w)
<1>0. /\ rw \in [Objs -> Conns \cup {None}] /\ addr \in [Objs -> Conns \cup {None}]
      /\ readHandler \in [Objs -> BOOLEAN]
    BY DEF TypeOK
<1> DEFINE Same == rw'[o] = rw[o] /\ addr'[o] = addr[o] /\ readHandler'[o] = readHandler[o]
<1> USE DEF bufVars, fieldVars
<1>1. ASSUME NEW c \in Conns, Prepare(c) \/ PeerSend(c) \/ PeerClose(c) PROVE Same
    BY <1>1
       DEF Prepare, OnPrepareCount, OnPrepareReject, OnPrepareTimeoutFails, OnPrepareState,
           PeerSend, PeerClose
<1>2. ASSUME NEW c \in Conns, Disconnect(c) PROVE Same \/ (Recycle(o) /\ Recyclers(o) # {})
    <2>1. CASE DisconnectCount(c) \/ DisconnectCancel(c) \/ DisconnectRelease(c)
        BY <2>1 DEF DisconnectCount, DisconnectCancel, DisconnectRelease
    <2>2. CASE DisconnectRecycle(c)
        <3>1. dpc[c] = "recycle" /\ Recycle(state[c])
            BY <2>2 DEF DisconnectRecycle
        <3>2. CASE state[c] = o
            BY <3>1, <3>2 DEF Recyclers
        <3>3. CASE state[c] # o
            BY <1>0, <3>1, <3>3 DEF Recycle
        <3> QED
            BY <3>2, <3>3
    <2> QED
        BY <1>2, <2>1, <2>2 DEF Disconnect
<1>3. ASSUME NEW c \in Conns, NEW w \in Workers, Dispatch(w, c) PROVE Same
    BY <1>3 DEF Dispatch
<1>4. ASSUME NEW w \in Workers, Fills(w) PROVE Same \/ ctx[w] = o
    BY <1>0, <1>4 DEF Fills, ServeConnBind, LoopProceeds, HandlerSetsReadHandler
<1>5. ASSUME NEW w \in Workers, ServeConnRecycle(w)
      PROVE  Same \/ (Recycle(o) /\ Recyclers(o) # {})
    <2>1. pc[w] = "recycle" /\ Recycle(ctx[w])
        BY <1>5 DEF ServeConnRecycle, Goto
    <2>2. CASE ctx[w] = o
        BY <2>1, <2>2 DEF Recyclers
    <2>3. CASE ctx[w] # o
        BY <1>0, <2>1, <2>3 DEF Recycle
    <2> QED
        BY <2>2, <2>3
<1>6. ASSUME NEW w \in Workers, ServeConn(w), ~Fills(w), ~ServeConnRecycle(w) PROVE Same
    BY <1>6
       DEF ServeConn, Fills, ServeConnAcquire, ServeConnTryProcess, ServeConnReadHandler,
           ServeConnYield, ServeConnRelease
<1>7. ASSUME NEW w \in Workers, serveHTTP(w), ~Fills(w) PROVE Same
    BY <1>7
       DEF serveHTTP, Fills, LoopStops, LoopRejects, HandleRequest, HandleRequestFails,
           AwaitDone, DrainReads, DrainFails, DrainCloses, AfterRequest, DoubleCheck, TryAgain
<1>8. ASSUME NEW w \in Workers, Handler(w) \/ Hijacker(w), ~Fills(w) PROVE Same
    BY <1>8
       DEF Handler, Hijacker, Fills, HandlerHijacks, HandlerFails, HandlerReturns,
           HijackerReads, HijackerCloses
<1>9. CASE UNCHANGED vars
    BY <1>9 DEF vars
<1> QED
    BY <1>1, <1>2, <1>3, <1>4, <1>5, <1>6, <1>7, <1>8, <1>9 DEF Next

(* A step that fills an object is taken by a holder, for its connection.    *)
LEMMA FillsOwn ==
    ASSUME TypeOK, NoUseAfterRelease, NEW w \in Workers, Fills(w)
    PROVE  /\ pc[w] \in {"bind", "loop", "handler"}
           /\ ctx[w] \in Objs /\ arg[w] \in LivesFor(ctx[w]) /\ arg[w] \in Conns
           /\ pool[ctx[w]] # 1 /\ pool' = pool
<1>1. pc[w] \in {"bind", "loop", "handler"} /\ pool' = pool
    BY DEF Fills, ServeConnBind, LoopProceeds, HandlerSetsReadHandler, Goto, ctlVars
<1>2. pc[w] \in HoldingPcs
    BY <1>1 DEF HoldingPcs, WorkerPcs
<1>3. ctx[w] \in Objs /\ arg[w] \in Conns /\ arg[w] \in LivesFor(ctx[w])
    BY <1>2, HolderLives
<1>4. pool[ctx[w]] # 1
    BY <1>2, <1>3 DEF NoUseAfterRelease, WorkersHolding
<1> QED
    BY <1>1, <1>3, <1>4

(* The pool's contents change only by NewConnectionState and by Reset's     *)
(* caller.                                                                  *)
LEMMA PoolStep ==
    ASSUME TypeOK, [Next]_vars, NEW o \in Objs
    PROVE  \/ pool'[o] = pool[o]
           \/ \E c \in Conns : OnPrepareState(c, o)
           \/ Recycle(o)
<1>0. pool \in [Objs -> Int]
    BY DEF TypeOK
<1>1. ASSUME NEW c \in Conns, QuietConn(c) \/ DisconnectRelease(c) PROVE pool' = pool
    BY <1>1
       DEF QuietConn, OnPrepareCount, OnPrepareReject, OnPrepareTimeoutFails, PeerSend,
           PeerClose, DisconnectCount, DisconnectCancel, Dispatch, DisconnectRelease, ctlVars
<1>2. ASSUME NEW c \in Conns, NEW p \in Objs, OnPrepareState(c, p)
      PROVE  pool' = [pool EXCEPT ![p] = @ - 1]
    BY <1>2 DEF OnPrepareState, NewConnectionState
<1>3. ASSUME NEW c \in Conns, DisconnectRecycle(c) PROVE pool'[o] = pool[o] \/ Recycle(o)
    <2>1. Recycle(state[c])
        BY <1>3 DEF DisconnectRecycle
    <2>2. CASE state[c] # o
        BY <1>0, <2>1, <2>2 DEF Recycle
    <2> QED
        BY <2>1, <2>2
<1>4. ASSUME NEW w \in Workers, QuietWorker(w) PROVE pool' = pool
    BY <1>4, QuietWorkerMoves
<1>5. ASSUME NEW w \in Workers, ServeConnAcquire(w) \/ ServeConnRelease(w) PROVE pool' = pool
    BY <1>5 DEF ServeConnAcquire, ServeConnRelease, ctlVars
<1>6. ASSUME NEW w \in Workers, ServeConnRecycle(w) PROVE pool'[o] = pool[o] \/ Recycle(o)
    <2>1. Recycle(ctx[w])
        BY <1>6 DEF ServeConnRecycle
    <2>2. CASE ctx[w] # o
        BY <1>0, <2>1, <2>2 DEF Recycle
    <2> QED
        BY <2>1, <2>2
<1>7. CASE UNCHANGED vars
    BY <1>7 DEF vars, ctlVars
<1> QED
    BY <1>0, <1>1, <1>2, <1>3, <1>4, <1>5, <1>6, <1>7
       DEF Next, Prepare, Disconnect, ServeConn, serveHTTP, Handler, Hijacker,
           QuietConn, QuietWorker

(* An object in the pool stays erased, and one that is used carries only    *)
(* what belongs to the connection of its users.                             *)
LEMMA OwnedStep ==
    ASSUME "lateRequest" \notin Faults, LifeInv, [Next]_vars
    PROVE  Erased' /\ Owned'
<1>0. /\ TypeOK /\ NoUseAfterRelease /\ RefInv /\ Homed /\ Hijacks /\ OneLife /\ Erased /\ Owned
      /\ rw \in [Objs -> Conns \cup {None}] /\ addr \in [Objs -> Conns \cup {None}]
      /\ readHandler \in [Objs -> BOOLEAN] /\ taken \in [Conns -> BOOLEAN]
    BY DEF LifeInv, RefInv, TypeOK
<1>1. \A c \in Conns : taken[c] => taken'[c]
    BY <1>0, HijackStep
<1>2. ASSUME NEW o \in Objs, Recycle(o)
      PROVE  rw'[o] = None /\ addr'[o] = None /\ ~readHandler'[o]
    BY <1>0, <1>2 DEF Recycle
<1>3. ASSUME NEW w \in Workers, Fills(w), NEW o \in Objs, o = ctx[w]
      PROVE  /\ rw'[o] \in {rw[o], arg[w]} /\ addr'[o] \in {addr[o], arg[w]}
             /\ readHandler'[o] => readHandler[o] \/ taken[arg[w]]
    BY <1>0, <1>3
       DEF Fills, ServeConnBind, LoopProceeds, HandlerSetsReadHandler, Hijacks, bufVars, fieldVars
<1>4. ASSUME NEW o \in Objs, pool'[o] = 1
      PROVE  rw'[o] = None /\ addr'[o] = None /\ ~readHandler'[o]
    <2>1. CASE Recycle(o)
        BY <1>2, <2>1
    <2>2. CASE ~Recycle(o) /\ pool'[o] = pool[o]
        <3>1. ~ \E w \in Workers : ctx[w] = o /\ Fills(w)
            BY <1>0, <1>4, <2>2, FillsOwn
        <3> QED
            BY <1>0, <1>4, <2>2, <3>1, FieldStep DEF Erased
    <2>3. ASSUME NEW c \in Conns, OnPrepareState(c, o) PROVE FALSE
        <3>1. pool' = [pool EXCEPT ![o] = @ - 1] /\ pool[o] > 0
            BY <2>3 DEF OnPrepareState, NewConnectionState
        <3>2. pool \in [Objs -> Int] /\ pool[o] \in {0, 1}
            BY <1>0 DEF NoUseAfterRelease, TypeOK
        <3> QED
            BY <1>4, <3>1, <3>2
    <2> QED
        BY <1>0, <2>1, <2>2, <2>3, PoolStep
<1>5. ASSUME NEW o \in Objs, NEW c \in Conns, c \in LivesFor(o)'
      PROVE  rw'[o] \in {c, None} /\ addr'[o] \in {c, None} /\ (readHandler'[o] => taken'[c])
    <2>1. CASE Recycle(o)
        BY <1>2, <2>1
    <2>2. CASE ~Recycle(o) /\ LivesFor(o)' = LivesFor(o)
        <3>1. rw[o] \in {c, None} /\ addr[o] \in {c, None} /\ (readHandler[o] => taken[c])
            BY <1>0, <1>5, <2>2 DEF Owned
        <3>2. ASSUME NEW w \in Workers, ctx[w] = o, Fills(w) PROVE arg[w] = c
            BY <1>0, <1>5, <2>2, <3>2, FillsOwn DEF OneLife
        <3> QED
            BY <1>0, <1>1, <1>3, <2>2, <3>1, <3>2, FieldStep
    <2>3. ASSUME NEW d \in Conns, OnPrepareState(d, o), pool[o] = 1
          PROVE  rw'[o] = None /\ addr'[o] = None /\ ~readHandler'[o]
        BY <1>0, <2>3 DEF OnPrepareState, Erased, bufVars, fieldVars
    <2> QED
        BY <1>0, <2>1, <2>2, <2>3, LivesStep
<1>6. \A o \in Objs : LivesFor(o)' \subseteq Conns
    BY DEF LivesFor, ConnsHolding
<1> QED
    BY <1>4, <1>5, <1>6 DEF Erased, Owned

(* The callbacks find their own connection bound: no other holder rebinds   *)
(* the object, and nobody resets it under a holder.                         *)
LEMMA BoundStep ==
    ASSUME "lateRequest" \notin Faults, LifeInv, [Next]_vars
    PROVE  Bound'
<1>0. /\ TypeOK /\ NoUseAfterRelease /\ RefInv /\ OneLife /\ Owned /\ Bound
      /\ rw \in [Objs -> Conns \cup {None}] /\ addr \in [Objs -> Conns \cup {None}]
      /\ pc \in [Workers -> WorkerPcs]
      /\ arg \in [Workers -> Conns \cup {None}] /\ ctx \in [Workers -> Objs \cup {None}]
      /\ \A w \in Workers : pc[w] # "idle" => arg[w] \in Conns /\ ctx[w] \in Objs
    BY DEF LifeInv, RefInv, TypeOK
<1>1. \A w \in Workers : pc[w] \in BoundPcs \cup {"bind"} => pc[w] \in HoldingPcs
    BY DEF BoundPcs, HoldingPcs, WorkerPcs
<1>2. ASSUME NEW w \in Workers, pc[w] \in BoundPcs
      PROVE  /\ rw'[ctx[w]] = arg[w]
             /\ addr[ctx[w]] = arg[w] => addr'[ctx[w]] = arg[w]
    <2> DEFINE o == ctx[w]
    <2>1. o \in Objs /\ Recyclers(o) = {} /\ rw[o] = arg[w] /\ arg[w] \in Conns
        BY <1>0, <1>1, <1>2 DEF NoUseAfterRelease, WorkersHolding, Bound, BoundPcs
    <2>2. ASSUME NEW v \in Workers, ctx[v] = o, Fills(v)
          PROVE  rw'[o] = rw[o] /\ (addr[o] # None => addr'[o] = addr[o])
        BY <1>0, <2>1, <2>2, SetsAssumption
           DEF Fills, ServeConnBind, LoopProceeds, HandlerSetsReadHandler, bufVars, fieldVars
    <2> HIDE DEF o
    <2>3. /\ rw'[o] = rw[o] /\ (addr[o] # None => addr'[o] = addr[o])
        BY <1>0, <2>1, <2>2, FieldStep
    <2> QED
        BY <2>1, <2>3, SetsAssumption DEF o
<1> DEFINE AddrPcs == {"request", "handler", "drain", "await"}
<1> DEFINE Kept(w) == /\ pc'[w] \in BoundPcs => pc[w] \in BoundPcs
                      /\ pc'[w] \in AddrPcs => pc[w] \in AddrPcs
                      /\ pc'[w] \in BoundPcs => arg'[w] = arg[w] /\ ctx'[w] = ctx[w]
<1> DEFINE BoundAt(w) == /\ pc'[w] \in BoundPcs => rw'[ctx'[w]] = arg'[w]
                         /\ pc'[w] \in AddrPcs => addr'[ctx'[w]] = arg'[w]
<1>3. ASSUME NEW w \in Workers, Kept(w) PROVE BoundAt(w)
    BY <1>0, <1>2, <1>3 DEF Bound, BoundPcs
<1>4. ASSUME NEW v \in Workers, NEW w \in Workers, ServeConnBind(v) PROVE BoundAt(w)
    <2>1. /\ pc[v] = "bind" /\ pc' = [pc EXCEPT ![v] = IF readHandler[ctx[v]] THEN "readHandler" ELSE "loop"]
          /\ rw' = [rw EXCEPT ![ctx[v]] = IF @ = None THEN arg[v] ELSE @]
          /\ UNCHANGED <<arg, ctx>>
        BY <1>4 DEF ServeConnBind, Goto
    <2>2. CASE w # v
        BY <1>0, <1>3, <2>1, <2>2
    <2>3. CASE w = v
        <3>1. ctx[v] \in Objs /\ arg[v] \in LivesFor(ctx[v])
            BY <1>0, <1>1, <2>1, HolderLives
        <3>2. rw[ctx[v]] \in {arg[v], None}
            BY <1>0, <3>1 DEF Owned
        <3> QED
            BY <1>0, <2>1, <2>3, <3>1, <3>2
    <2> QED
        BY <2>2, <2>3
<1>5. ASSUME NEW v \in Workers, NEW w \in Workers, LoopProceeds(v) PROVE BoundAt(w)
    <2>1. /\ pc[v] = "loop" /\ pc' = [pc EXCEPT ![v] = "request"]
          /\ addr' = [addr EXCEPT ![ctx[v]] = IF @ = None THEN arg[v] ELSE @]
          /\ UNCHANGED <<arg, ctx>>
        BY <1>5 DEF LoopProceeds, Goto
    <2>2. CASE w # v
        BY <1>0, <1>3, <2>1, <2>2
    <2>3. CASE w = v
        <3>1. ctx[v] \in Objs /\ arg[v] \in LivesFor(ctx[v])
            BY <1>0, <1>1, <2>1, HolderLives DEF BoundPcs
        <3>2. addr[ctx[v]] \in {arg[v], None}
            BY <1>0, <3>1 DEF Owned
        <3>3. rw'[ctx[v]] = arg[v]
            BY <1>2, <2>1 DEF BoundPcs
        <3> QED
            BY <1>0, <2>1, <2>3, <3>1, <3>2, <3>3
    <2> QED
        BY <2>2, <2>3
<1>6. ASSUME NEW v \in Workers, NEW w \in Workers, QuietWorker(v),
             ~ServeConnBind(v), ~LoopProceeds(v)
      PROVE  Kept(w)
    <2>1. /\ UNCHANGED <<arg, ctx>>
          /\ \E x \in HoldingPcs : pc' = [pc EXCEPT ![v] = x]
        BY <1>0, <1>6, QuietWorkerMoves
    <2>2. CASE w # v
        BY <1>0, <2>1, <2>2
    <2>3. CASE w = v
        <3> USE <1>0 DEF BoundPcs, Goto
        <3>1. /\ pc'[v] \in BoundPcs => pc[v] \in BoundPcs
              /\ pc'[v] \in AddrPcs => pc[v] \in AddrPcs
            <4>1. CASE ServeConnTryProcess(v) \/ ServeConnReadHandler(v) \/ ServeConnYield(v)
                BY <4>1 DEF ServeConnTryProcess, ServeConnReadHandler, ServeConnYield
            <4>2. CASE \/ LoopStops(v) \/ LoopRejects(v) \/ HandleRequest(v)
                       \/ HandleRequestFails(v) \/ AwaitDone(v)
                BY <4>2
                   DEF LoopStops, LoopRejects, HandleRequest, HandleRequestFails, AwaitDone
            <4>3. CASE \/ DrainReads(v) \/ DrainFails(v) \/ DrainCloses(v)
                       \/ AfterRequest(v) \/ DoubleCheck(v) \/ TryAgain(v)
                BY <4>3
                   DEF DrainReads, DrainFails, DrainCloses, AfterRequest, DoubleCheck, TryAgain
            <4>4. CASE \/ HandlerHijacks(v) \/ HandlerSetsReadHandler(v) \/ HandlerFails(v)
                       \/ HandlerReturns(v) \/ HijackerReads(v) \/ HijackerCloses(v)
                BY <4>4
                   DEF HandlerHijacks, HandlerSetsReadHandler, HandlerFails, HandlerReturns,
                       HijackerReads, HijackerCloses
            <4> QED
                BY <1>6, <4>1, <4>2, <4>3, <4>4 DEF QuietWorker
        <3> QED
            BY <2>1, <2>3, <3>1
    <2> QED
        BY <2>2, <2>3
<1>7. ASSUME NEW c \in Conns, NEW w \in Workers,
             Prepare(c) \/ PeerSend(c) \/ PeerClose(c) \/ Disconnect(c)
      PROVE  Kept(w)
    BY <1>7
       DEF Prepare, OnPrepareCount, OnPrepareReject, OnPrepareTimeoutFails, OnPrepareState,
           PeerSend, PeerClose, Disconnect, DisconnectCount, DisconnectCancel,
           DisconnectRelease, DisconnectRecycle
<1>8. ASSUME NEW c \in Conns, NEW v \in Workers, NEW w \in Workers, Dispatch(v, c)
      PROVE  Kept(w)
    BY <1>0, <1>8 DEF Dispatch, BoundPcs
<1>9. ASSUME NEW v \in Workers, NEW w \in Workers,
             ServeConnAcquire(v) \/ ServeConnRelease(v) \/ ServeConnRecycle(v)
      PROVE  Kept(w)
    BY <1>0, <1>9
       DEF ServeConnAcquire, ServeConnRelease, ServeConnRecycle, Return, Goto, BoundPcs
<1>10. ASSUME NEW w \in Workers, UNCHANGED vars PROVE Kept(w)
    BY <1>10 DEF vars
<1>11. \A w \in Workers : BoundAt(w)
    <2> HIDE DEF Kept, BoundAt
    <2> QED
        BY <1>3, <1>4, <1>5, <1>6, <1>7, <1>8, <1>9, <1>10
           DEF Next, ServeConn, serveHTTP, Handler, Hijacker, QuietWorker
<1> QED
    BY <1>11 DEF Bound

(* Only the OnDisconnect of the connection an object lives for closes its   *)
(* done channel, and Reset comes after.                                     *)
LEMMA DoneStep ==
    ASSUME "lateRequest" \notin Faults, LifeInv, [Next]_vars
    PROVE  DoneOpen'
<1>0. /\ TypeOK /\ NoUseAfterRelease /\ RefInv /\ Fresh /\ Linked /\ OneLife /\ DoneOpen
      /\ done \in [Objs -> {"nil", "open", "closed"}]
      /\ state \in [Conns -> Objs \cup {None}] /\ dpc \in [Conns -> DisconnectPcs]
      /\ \A c \in Conns : dpc[c] # "none" => state[c] \in Objs
      /\ \A w \in Workers : pc[w] # "idle" => ctx[w] \in Objs
    BY DEF LifeInv, RefInv, LinkInv, TypeOK
<1>1. \A o \in Objs : Recyclers(o) # {} =>
          \A c \in Conns : state[c] = o => dpc[c] \notin {"none", "due", "cancel"}
    BY <1>0 DEF NoUseAfterRelease, ConnsHolding
<1>2. \A c, d \in Conns : \A o \in Objs :
          (/\ state[c] = o /\ dpc[c] \in {"none", "due", "cancel"}
           /\ state[d] = o /\ dpc[d] \in {"none", "due", "cancel"})
              => c = d
    BY <1>0 DEF OneLife, LivesFor, ConnsHolding
<1> USE <1>0 DEF DoneOpen
<1>3. ASSUME NEW c \in Conns, NEW o \in Objs, OnPrepareState(c, o) PROVE DoneOpen'
    BY <1>3, SetsAssumption DEF OnPrepareState, NewConnectionState, Fresh
<1>4. ASSUME NEW c \in Conns, DisconnectCancel(c) PROVE DoneOpen'
    BY <1>2, <1>4 DEF DisconnectCancel, admitVars
<1>5. ASSUME NEW c \in Conns, DisconnectRecycle(c) PROVE DoneOpen'
    <2>1. state[c] \in Objs /\ Recyclers(state[c]) # {}
        BY <1>5 DEF DisconnectRecycle, Recyclers
    <2> QED
        BY <1>1, <1>5, <2>1 DEF DisconnectRecycle, Recycle, admitVars
<1>6. ASSUME NEW w \in Workers, ServeConnRecycle(w) PROVE DoneOpen'
    <2>1. ctx[w] \in Objs /\ Recyclers(ctx[w]) # {}
        BY <1>6 DEF ServeConnRecycle, Recyclers, Goto
    <2> QED
        BY <1>1, <1>6, <2>1 DEF ServeConnRecycle, Recycle, netVars, admitVars
<1>7. ASSUME NEW c \in Conns,
             \/ OnPrepareCount(c) \/ OnPrepareReject(c) \/ OnPrepareTimeoutFails(c)
             \/ PeerSend(c) \/ PeerClose(c) \/ DisconnectCount(c) \/ DisconnectRelease(c)
      PROVE  DoneOpen'
    BY <1>7
       DEF OnPrepareCount, OnPrepareReject, OnPrepareTimeoutFails, PeerSend, PeerClose,
           DisconnectCount, DisconnectRelease, Linked, ctlVars, netVars, admitVars
<1>8. ASSUME NEW c \in Conns, NEW w \in Workers, Dispatch(w, c) PROVE DoneOpen'
    BY <1>8 DEF Dispatch, ctlVars, netVars, admitVars
<1>9. ASSUME NEW w \in Workers, QuietWorker(w) \/ ServeConnAcquire(w) \/ ServeConnRelease(w)
      PROVE  DoneOpen'
    <2>1. done' = done
        BY <1>9
           DEF QuietWorker, ServeConnTryProcess, ServeConnBind, ServeConnReadHandler,
               ServeConnYield, LoopStops, LoopRejects, LoopProceeds, HandleRequest,
               HandleRequestFails, AwaitDone, DrainReads, DrainFails, DrainCloses,
               AfterRequest, DoubleCheck, TryAgain, HandlerHijacks,
               HandlerSetsReadHandler, HandlerFails, HandlerReturns, HijackerReads,
               HijackerCloses, ServeConnAcquire, ServeConnRelease, ctlVars
    <2>2. Untouched \/ (arg[w] \in Conns /\ Closes(arg[w]))
        BY <1>9, WorkerEffect DEF QuietWorker, ServeConn, serveHTTP, Handler, Hijacker
    <2>3. CASE Untouched
        BY <2>1, <2>3 DEF Untouched
    <2>4. CASE arg[w] \in Conns /\ Closes(arg[w])
        BY <2>1, <2>4 DEF Closes, CloseConn, Linked
    <2> QED
        BY <2>2, <2>3, <2>4
<1>10. CASE UNCHANGED vars
    BY <1>10 DEF vars, ctlVars, netVars, admitVars
<1> QED
    BY <1>3, <1>4, <1>5, <1>6, <1>7, <1>8, <1>9, <1>10
       DEF Next, Prepare, Disconnect, ServeConn, serveHTTP, Handler, Hijacker, QuietWorker

(* LifeInv is inductive. *)
LEMMA LifeStep ==
    ASSUME "lateRequest" \notin Faults, LifeInv, [Next]_vars
    PROVE  LifeInv'
<1>1. /\ RefInv /\ TypeOK /\ Fresh /\ Homed /\ Hijacks /\ OneLife
    BY DEF LifeInv, RefInv, LinkInv
<1>2. RefInv' /\ Homed' /\ Hijacks'
    BY <1>1, RefStep, HomedStep, HijackStep
<1>3. OneLife'
    <2>1. ASSUME NEW o \in Objs PROVE \A c, d \in LivesFor(o)' : c = d
        BY <1>1, LivesStep DEF OneLife
    <2> QED
        BY <2>1 DEF OneLife
<1> QED
    BY <1>2, <1>3, OwnedStep, BoundStep, DoneStep DEF LifeInv

(* At the start the objects are zero objects of the pool. *)
LEMMA LifeInit == Init => LifeInv
<1> SUFFICES ASSUME Init PROVE LifeInv
    OBVIOUS
<1>1. RefInv
    BY RefInit
<1>2. \A o \in Objs : LivesFor(o) = {}
    BY SetsAssumption DEF Init, LivesFor, ConnsHolding, HoldingPcs
<1>3. OneLife /\ Owned
    BY <1>2 DEF OneLife, Owned
<1>4. Homed /\ Hijacks /\ Erased /\ Bound /\ DoneOpen
    BY SetsAssumption DEF Init, Homed, Hijacks, Erased, Bound, BoundPcs, DoneOpen
<1> QED
    BY <1>1, <1>3, <1>4 DEF LifeInv

(* A reused ConnectionState never shows a handler the bytes or the address  *)
(* of another connection, and never hands it another's ReadHandler, for any *)
(* number of connections, objects and callbacks, parallel callbacks on one  *)
(* connection included.                                                     *)
THEOREM IsolationCorrect ==
    ASSUME "lateRequest" \notin Faults
    PROVE  Spec => []Isolation
<1>1. LifeInv /\ [Next]_vars => LifeInv'
    BY LifeStep
<1>2. LifeInv => Isolation
    BY DEF LifeInv, Isolation, Bound, BoundPcs, Owned, LivesFor
<1> QED
    BY <1>1, <1>2, LifeInit, PTL DEF Spec

(* Cancel always closes an open channel: OnDisconnect meets no state that   *)
(* was reset or cancelled before.                                           *)
THEOREM CancelCorrect ==
    ASSUME "lateRequest" \notin Faults
    PROVE  Spec => []CancelOnce
<1>1. LifeInv /\ [Next]_vars => LifeInv'
    BY LifeStep
<1>2. LifeInv => CancelOnce
    BY DEF LifeInv, RefInv, TypeOK, CancelOnce, DoneOpen
<1> QED
    BY <1>1, <1>2, LifeInit, PTL DEF Spec

-----------------------------------------------------------------------------
(***************************************************************************)
(* Refinement of StatePool.  Seen through the refinement mapping a step    *)
(* changes one object at most: Same says that it leaves an object alone,   *)
(* and each of the other operators is what one action of StatePool does to *)
(* the object it is about.                                                 *)
(***************************************************************************)
Life(o) == IF pool[o] = 1 THEN {} ELSE LivesFor(o)
Holders(o) == WorkersHolding(o) \cup ConnsHolding(o)

Same(o) == Life(o)' = Life(o) /\ Holders(o)' = Holders(o) /\ Carries(o)' = Carries(o)
Taken(o, c) ==
    /\ Life(o) = {} /\ Holders(o) = {} /\ Carries(o) = {}
    /\ Life(o)' = {c} /\ Holders(o)' = {c} /\ Carries(o)' = {}
Joined(o, w) ==
    /\ Holders(o) # {} /\ w \notin Holders(o)
    /\ Life(o)' = Life(o) /\ Holders(o)' = Holders(o) \cup {w} /\ Carries(o)' = Carries(o)
Left(o, x) ==
    /\ x \in Holders(o)
    /\ Life(o)' = Life(o) /\ Holders(o)' = Holders(o) \ {x} /\ Carries(o)' = Carries(o)
Used(o) ==
    /\ Holders(o) # {}
    /\ Life(o)' = Life(o) /\ Holders(o)' = Holders(o) /\ Carries(o)' = Life(o)
Ended(o) ==
    /\ Life(o) # {} /\ Holders(o) = {}
    /\ Life(o)' = {} /\ Holders(o)' = Holders(o) /\ Carries(o)' = {}
Moved(o) ==
    \/ \E c \in Conns : Taken(o, c)
    \/ \E w \in Workers : Joined(o, w)
    \/ \E x \in Conns \cup Workers : Left(o, x)
    \/ Used(o)
    \/ Ended(o)

(* Objects in the pool have no life, so Life is LivesFor in both states.    *)
LEMMA LifeIsLives ==
    ASSUME NoUseAfterRelease, NoUseAfterRelease', NEW o \in Objs
    PROVE  Life(o) = LivesFor(o) /\ Life(o)' = LivesFor(o)'
<1>1. pool[o] = 1 => LivesFor(o) = {}
    <2>1. pool[o] = 1 => Recyclers(o) = {} /\ WorkersHolding(o) = {} /\ ConnsHolding(o) = {}
        BY DEF NoUseAfterRelease
    <2> QED
        BY <2>1, LivesBy
<1>2. pool'[o] = 1 => LivesFor(o)' = {}
    <2>1. pool'[o] = 1 => Recyclers(o)' = {} /\ WorkersHolding(o)' = {} /\ ConnsHolding(o)' = {}
        BY DEF NoUseAfterRelease
    <2> QED
        BY <2>1, LivesBy
<1> QED
    BY <1>1, <1>2 DEF Life

(* Every step of Engine leaves all objects alone but one, and does to that  *)
(* one what StatePool allows.                                               *)
LEMMA PoolEffect ==
    ASSUME "lateRequest" \notin Faults, LifeInv, LifeInv', [Next]_vars
    PROVE  \/ \A o \in Objs : Same(o)
           \/ \E o \in Objs : Moved(o) /\ \A p \in Objs \ {o} : Same(p)
<1>0. /\ TypeOK /\ NoUseAfterRelease /\ RefCountExact /\ RefInv /\ Fresh /\ Linked /\ Entering
      /\ Homed /\ OneLife /\ Erased /\ Owned /\ NoUseAfterRelease' /\ Bound' /\ Owned'
      /\ pc \in [Workers -> WorkerPcs] /\ state \in [Conns -> Objs \cup {None}]
      /\ arg \in [Workers -> Conns \cup {None}] /\ ctx \in [Workers -> Objs \cup {None}]
      /\ dpc \in [Conns -> DisconnectPcs]
      /\ rw \in [Objs -> Conns \cup {None}] /\ addr \in [Objs -> Conns \cup {None}]
      /\ \A w \in Workers : pc[w] # "idle" => arg[w] \in Conns /\ ctx[w] \in Objs
      /\ \A c \in Conns : dpc[c] # "none" => state[c] \in Objs
    BY DEF LifeInv, RefInv, LinkInv, TypeOK
<1>A. \A o \in Objs : Life(o) = LivesFor(o) /\ Life(o)' = LivesFor(o)'
    BY <1>0, LifeIsLives
<1>B. ASSUME NEW o \in Objs, ~Recycle(o), ~ \E c \in Conns : OnPrepareState(c, o)
      PROVE  LivesFor(o)' = LivesFor(o)
    BY <1>0, <1>B, LivesStep
<1> DEFINE Goal == \/ \A o \in Objs : Same(o)
                   \/ \E o \in Objs : Moved(o) /\ \A p \in Objs \ {o} : Same(p)
<1>C. ASSUME Quiet PROVE \A o \in Objs : LivesFor(o)' = LivesFor(o) /\ Holders(o)' = Holders(o)
    <2>1. ASSUME NEW o \in Objs PROVE LivesFor(o)' = LivesFor(o)
        <3>1. pool'[o] = pool[o]
            BY <1>C DEF Quiet
        <3>2. pool \in [Objs -> Int] /\ pool[o] \in Int
            BY <1>0 DEF TypeOK
        <3>3. ~Recycle(o)
            BY <3>1, <3>2 DEF Recycle
        <3>4. ASSUME NEW c \in Conns, OnPrepareState(c, o) PROVE FALSE
            BY <3>1, <3>2, <3>4 DEF OnPrepareState, NewConnectionState
        <3> QED
            BY <1>B, <3>3, <3>4
    <2>2. ASSUME NEW o \in Objs PROVE Holders(o)' = Holders(o)
        BY <1>C DEF Quiet, Holders
    <2> QED
        BY <2>1, <2>2
<1>1. ASSUME NEW c \in Conns, QuietConn(c) PROVE Goal
    <2>1. UNCHANGED <<rw, addr>>
        BY <1>1
           DEF QuietConn, OnPrepareCount, OnPrepareReject, OnPrepareTimeoutFails, PeerSend,
               PeerClose, DisconnectCount, DisconnectCancel, Dispatch, bufVars, fieldVars
    <2>2. Quiet
        BY <1>0, <1>1, QuietConns
    <2> QED
        BY <1>A, <1>C, <2>1, <2>2 DEF Same, Carries
<1>2. ASSUME NEW w \in Workers, QuietWorker(w), ~ServeConnBind(w), ~LoopProceeds(w) PROVE Goal
    <2>1. UNCHANGED <<rw, addr>>
        BY <1>2
           DEF QuietWorker, ServeConnTryProcess, ServeConnReadHandler,
               ServeConnYield, LoopStops, LoopRejects, HandleRequest,
               HandleRequestFails, AwaitDone, DrainReads, DrainFails, DrainCloses,
               AfterRequest, DoubleCheck, TryAgain, HandlerHijacks,
               HandlerSetsReadHandler, HandlerFails, HandlerReturns, HijackerReads,
               HijackerCloses, bufVars, fieldVars
    <2>2. Quiet
        BY <1>0, <1>2, QuietWorkers
    <2> QED
        BY <1>A, <1>C, <2>1, <2>2 DEF Same, Carries
<1>3. ASSUME NEW w \in Workers, ServeConnBind(w) \/ LoopProceeds(w) PROVE Goal
    <2>1. Quiet
        BY <1>0, <1>3, QuietWorkers DEF QuietWorker
    <2>o. PICK o \in Objs : ctx[w] = o
        BY <1>0, <1>3 DEF ServeConnBind, LoopProceeds, Goto
    <2>2. /\ pc[w] \in HoldingPcs /\ pc'[w] \in BoundPcs /\ UNCHANGED <<arg, ctx>>
          /\ \A p \in Objs : p # o => rw'[p] = rw[p] /\ addr'[p] = addr[p]
        BY <1>0, <1>3, <2>o
           DEF ServeConnBind, LoopProceeds, Goto, BoundPcs, HoldingPcs, WorkerPcs, bufVars, fieldVars
    <2>3. /\ o \in Objs /\ arg[w] \in Conns /\ arg[w] \in LivesFor(o)
        BY <1>0, <2>o, <2>2, HolderLives
    <2>4. LivesFor(o) = {arg[w]} /\ LivesFor(o)' = {arg[w]}
        BY <1>0, <1>C, <2>o, <2>1, <2>3 DEF OneLife
    <2>5. Carries(o)' = {arg[w]}
        <3>1. rw'[o] = arg[w]
            BY <1>0, <2>o, <2>2 DEF Bound
        <3>2. addr'[o] \in {arg[w], None}
            BY <1>0, <2>o, <2>3, <2>4 DEF Owned
        <3> QED
            BY <2>o, <2>2, <2>3, <3>1, <3>2, SetsAssumption DEF Carries
    <2>6. Used(o)
        BY <1>A, <1>C, <2>o, <2>1, <2>2, <2>3, <2>4, <2>5 DEF Used, Holders, WorkersHolding
    <2>7. \A p \in Objs \ {o} : Same(p)
        BY <1>A, <1>C, <2>o, <2>1, <2>2 DEF Same, Carries
    <2> QED
        BY <2>o, <2>3, <2>6, <2>7 DEF Moved
<1>4. ASSUME NEW c \in Conns, NEW o \in Objs, OnPrepareState(c, o) PROVE Goal
    <2>1. /\ state[c] = None /\ dpc[c] = "none" /\ UNCHANGED <<rw, addr, dpc, pc, arg, ctx>>
          /\ state' = [state EXCEPT ![c] = o] /\ pool[o] > 0
        BY <1>0, <1>4 DEF OnPrepareState, NewConnectionState, Fresh, bufVars, fieldVars
    <2>2. /\ pool[o] = 1 /\ Recyclers(o) = {} /\ WorkersHolding(o) = {} /\ ConnsHolding(o) = {}
        BY <1>0, <2>1 DEF NoUseAfterRelease
    <2>3. /\ WorkersHolding(o)' = {} /\ ConnsHolding(o)' = {c} /\ Recyclers(o)' = {}
        BY <1>0, <2>1, <2>2 DEF WorkersHolding, ConnsHolding, Recyclers
    <2>4. LivesFor(o) = {} /\ LivesFor(o)' = {c}
        BY <2>2, <2>3, LivesBy
    <2>5. Taken(o, c)
        BY <1>0, <1>A, <2>1, <2>2, <2>3, <2>4 DEF Taken, Holders, Carries, Erased
    <2>6. ASSUME NEW p \in Objs \ {o} PROVE Same(p)
        <3>1. WorkersHolding(p)' = WorkersHolding(p) /\ ConnsHolding(p)' = ConnsHolding(p)
            BY <1>0, <2>1, <2>6, SetsAssumption DEF WorkersHolding, ConnsHolding
        <3>2. LivesFor(p)' = LivesFor(p)
            BY <1>0, <2>1, <2>6, SetsAssumption DEF LivesFor, ConnsHolding
        <3> QED
            BY <1>A, <2>1, <3>1, <3>2 DEF Same, Holders, Carries
    <2> QED
        BY <2>5, <2>6 DEF Moved
<1>5. ASSUME NEW w \in Workers, ServeConnAcquire(w) PROVE Goal
    <2>1. /\ pc[w] = "enter" /\ pc' = [pc EXCEPT ![w] = "cas"]
          /\ UNCHANGED <<rw, addr, arg, ctx, state, dpc, pool>>
        BY <1>5 DEF ServeConnAcquire, Goto, netVars, admitVars, ctlVars, bufVars, fieldVars
    <2>o. PICK o \in Objs : ctx[w] = o
        BY <1>0, <2>1
    <2>2. o \in Objs /\ arg[w] \in ConnsHolding(o)
        BY <1>0, <2>o, <2>1 DEF Entering, ConnsHolding
    <2>3. \A p \in Objs : LivesFor(p)' = LivesFor(p)
        BY <1>0, <2>o, <2>1, <2>2 DEF LivesFor, ConnsHolding, HoldingPcs, WorkerPcs
    <2>4. /\ w \notin WorkersHolding(o) /\ w \notin ConnsHolding(o)
          /\ WorkersHolding(o)' = WorkersHolding(o) \cup {w}
          /\ ConnsHolding(o)' = ConnsHolding(o)
        BY <1>0, <2>o, <2>1, SetsAssumption DEF WorkersHolding, ConnsHolding, HoldingPcs, WorkerPcs
    <2>5. ASSUME NEW p \in Objs \ {o}
          PROVE  WorkersHolding(p)' = WorkersHolding(p) /\ ConnsHolding(p)' = ConnsHolding(p)
        BY <1>0, <2>o, <2>1, <2>5 DEF WorkersHolding, ConnsHolding
    <2>6. Joined(o, w)
        BY <1>A, <2>o, <2>1, <2>2, <2>3, <2>4 DEF Joined, Holders, Carries
    <2>7. \A p \in Objs \ {o} : Same(p)
        BY <1>A, <2>o, <2>1, <2>3, <2>5 DEF Same, Holders, Carries
    <2> QED
        BY <2>o, <2>2, <2>6, <2>7 DEF Moved
<1>6. ASSUME NEW w \in Workers, ServeConnRelease(w) PROVE Goal
    <2>1. /\ pc[w] = "release" /\ UNCHANGED <<rw, addr, state, dpc, pool>>
          /\ pc' = [pc EXCEPT ![w] = IF refCount[ctx[w]] = 1 THEN "recycle" ELSE "idle"]
          /\ refCount[ctx[w]] = 1 => UNCHANGED <<arg, ctx>>
          /\ refCount[ctx[w]] # 1 => /\ arg' = [arg EXCEPT ![w] = None]
                                     /\ ctx' = [ctx EXCEPT ![w] = None]
        BY <1>6 DEF ServeConnRelease, Goto, Return, netVars, admitVars, bufVars, fieldVars
    <2>o. PICK o \in Objs : ctx[w] = o
        BY <1>0, <2>1
    <2>2. o \in Objs
        BY <1>0, <2>o, <2>1
    <2>3. ASSUME NEW q \in Objs PROVE LivesFor(q)' = LivesFor(q)
        <3>1. pool \in [Objs -> Int] /\ pool[q] \in Int /\ pool'[q] = pool[q]
            BY <1>0, <2>1 DEF TypeOK
        <3>2. ~Recycle(q)
            BY <3>1 DEF Recycle
        <3>3. ASSUME NEW c \in Conns, OnPrepareState(c, q) PROVE FALSE
            BY <3>1, <3>3 DEF OnPrepareState, NewConnectionState
        <3> QED
            BY <1>B, <3>2, <3>3
    <2>4. /\ w \in WorkersHolding(o) /\ w \notin ConnsHolding(o)
          /\ WorkersHolding(o)' = WorkersHolding(o) \ {w}
          /\ ConnsHolding(o)' = ConnsHolding(o)
        BY <1>0, <2>o, <2>1, SetsAssumption DEF WorkersHolding, ConnsHolding, HoldingPcs, WorkerPcs
    <2>5. ASSUME NEW p \in Objs \ {o}
          PROVE  WorkersHolding(p)' = WorkersHolding(p) /\ ConnsHolding(p)' = ConnsHolding(p)
        BY <1>0, <2>o, <2>1, <2>5, SetsAssumption
           DEF WorkersHolding, ConnsHolding, HoldingPcs, WorkerPcs
    <2>6. Left(o, w)
        BY <1>A, <2>o, <2>1, <2>2, <2>3, <2>4 DEF Left, Holders, Carries
    <2>7. \A p \in Objs \ {o} : Same(p)
        BY <1>A, <2>o, <2>1, <2>3, <2>5 DEF Same, Holders, Carries
    <2> QED
        BY <2>o, <2>2, <2>6, <2>7 DEF Moved
<1>7. ASSUME NEW c \in Conns, DisconnectRelease(c) PROVE Goal
    <2>1. /\ dpc[c] = "release" /\ UNCHANGED <<rw, addr, state, pc, arg, ctx, pool>>
          /\ dpc' = [dpc EXCEPT ![c] = IF refCount[state[c]] = 1 THEN "recycle" ELSE "done"]
        BY <1>7 DEF DisconnectRelease, admitVars, bufVars, fieldVars
    <2>o. PICK o \in Objs : state[c] = o
        BY <1>0, <2>1
    <2>2. o \in Objs
        BY <1>0, <2>o, <2>1
    <2>3. ASSUME NEW q \in Objs PROVE LivesFor(q)' = LivesFor(q)
        <3>1. pool \in [Objs -> Int] /\ pool[q] \in Int /\ pool'[q] = pool[q]
            BY <1>0, <2>1 DEF TypeOK
        <3>2. ~Recycle(q)
            BY <3>1 DEF Recycle
        <3>3. ASSUME NEW d \in Conns, OnPrepareState(d, q) PROVE FALSE
            BY <3>1, <3>3 DEF OnPrepareState, NewConnectionState
        <3> QED
            BY <1>B, <3>2, <3>3
    <2>4. /\ c \in ConnsHolding(o) /\ c \notin WorkersHolding(o)
          /\ ConnsHolding(o)' = ConnsHolding(o) \ {c}
          /\ WorkersHolding(o)' = WorkersHolding(o)
        BY <1>0, <2>o, <2>1, SetsAssumption DEF WorkersHolding, ConnsHolding, DisconnectPcs
    <2>5. ASSUME NEW p \in Objs \ {o}
          PROVE  WorkersHolding(p)' = WorkersHolding(p) /\ ConnsHolding(p)' = ConnsHolding(p)
        BY <1>0, <2>o, <2>1, <2>5 DEF WorkersHolding, ConnsHolding, DisconnectPcs
    <2>6. Left(o, c)
        BY <1>A, <2>o, <2>1, <2>2, <2>3, <2>4 DEF Left, Holders, Carries
    <2>7. \A p \in Objs \ {o} : Same(p)
        BY <1>A, <2>o, <2>1, <2>3, <2>5 DEF Same, Holders, Carries
    <2> QED
        BY <2>o, <2>2, <2>6, <2>7 DEF Moved
<1>8. ASSUME NEW o \in Objs, NEW x \in Recyclers(o), Recycle(o), LivesFor(o)' = {},
             \A p \in Objs : /\ WorkersHolding(p)' = WorkersHolding(p)
                             /\ ConnsHolding(p)' = ConnsHolding(p)
                             /\ p # o => LivesFor(p)' = LivesFor(p)
      PROVE  Goal
    <2>1. /\ \A p \in Objs \ {o} : rw'[p] = rw[p] /\ addr'[p] = addr[p]
          /\ rw'[o] = None /\ addr'[o] = None
        BY <1>0, <1>8 DEF Recycle
    <2>2. Holders(o) = {}
        BY <1>0, <1>8 DEF NoUseAfterRelease, Holders
    <2>3. LivesFor(o) # {}
        <3>1. CASE x \in Conns
            BY <1>8, <3>1, LivesBy
        <3>2. CASE x \in Workers
            <4>1. arg[x] \in Conns
                BY <1>0, <1>8, <3>2, SetsAssumption DEF Recyclers
            <4> QED
                BY <1>8, <3>2, <4>1, LivesBy
        <3> QED
            BY <1>8, <3>1, <3>2 DEF Recyclers
    <2>4. Ended(o)
        BY <1>A, <1>8, <2>1, <2>2, <2>3 DEF Ended, Holders, Carries
    <2>5. \A p \in Objs \ {o} : Same(p)
        BY <1>A, <1>8, <2>1 DEF Same, Holders, Carries
    <2> QED
        BY <2>4, <2>5 DEF Moved
<1>9. ASSUME NEW w \in Workers, ServeConnRecycle(w) PROVE Goal
    <2>1. /\ pc[w] = "recycle" /\ pc' = [pc EXCEPT ![w] = "idle"] /\ UNCHANGED <<state, dpc>>
          /\ arg' = [arg EXCEPT ![w] = None] /\ ctx' = [ctx EXCEPT ![w] = None]
          /\ Recycle(ctx[w])
        BY <1>9 DEF ServeConnRecycle, Goto, Return, netVars, admitVars
    <2>o. PICK o \in Objs : ctx[w] = o
        BY <1>0, <2>1
    <2>2. o \in Objs /\ w \in Recyclers(o)
        BY <1>0, <2>o, <2>1 DEF Recyclers
    <2>3. /\ WorkersHolding(o) = {} /\ ConnsHolding(o) = {}
          /\ \A x \in Recyclers(o) : x = w
        BY <1>0, <2>o, <2>2 DEF NoUseAfterRelease
    <2>4. LivesFor(o)' = {}
        BY <1>0, <2>o, <2>1, <2>3, SetsAssumption
           DEF LivesFor, ConnsHolding, WorkersHolding, Recyclers, HoldingPcs
    <2>5. ASSUME NEW p \in Objs
          PROVE  /\ WorkersHolding(p)' = WorkersHolding(p)
                 /\ ConnsHolding(p)' = ConnsHolding(p)
        BY <1>0, <2>o, <2>1, SetsAssumption DEF WorkersHolding, ConnsHolding, HoldingPcs
    <2>6. ASSUME NEW p \in Objs, p # o PROVE LivesFor(p)' = LivesFor(p)
        BY <1>0, <2>o, <2>1, <2>6, SetsAssumption DEF LivesFor, ConnsHolding, HoldingPcs
    <2> QED
        BY <1>8, <2>o, <2>1, <2>2, <2>4, <2>5, <2>6
<1>10. ASSUME NEW c \in Conns, DisconnectRecycle(c) PROVE Goal
    <2>1. /\ dpc[c] = "recycle" /\ dpc' = [dpc EXCEPT ![c] = "done"]
          /\ UNCHANGED <<state, pc, arg, ctx>> /\ Recycle(state[c])
        BY <1>10 DEF DisconnectRecycle, admitVars
    <2>o. PICK o \in Objs : state[c] = o
        BY <1>0, <2>1
    <2>2. o \in Objs /\ c \in Recyclers(o)
        BY <1>0, <2>o, <2>1 DEF Recyclers
    <2>3. /\ WorkersHolding(o) = {} /\ ConnsHolding(o) = {}
          /\ \A x \in Recyclers(o) : x = c
        BY <1>0, <2>o, <2>2 DEF NoUseAfterRelease
    <2>4. LivesFor(o)' = {}
        BY <1>0, <2>o, <2>1, <2>3, SetsAssumption
           DEF LivesFor, ConnsHolding, WorkersHolding, Recyclers, HoldingPcs
    <2>5. ASSUME NEW p \in Objs
          PROVE  /\ WorkersHolding(p)' = WorkersHolding(p)
                 /\ ConnsHolding(p)' = ConnsHolding(p)
        BY <1>0, <2>o, <2>1 DEF WorkersHolding, ConnsHolding
    <2>6. ASSUME NEW p \in Objs, p # o PROVE LivesFor(p)' = LivesFor(p)
        BY <1>0, <2>o, <2>1, <2>6 DEF LivesFor, ConnsHolding
    <2> QED
        BY <1>8, <2>o, <2>1, <2>2, <2>4, <2>5, <2>6
<1>11. CASE UNCHANGED vars
    <2>1. UNCHANGED <<rw, addr, pool, state, dpc, pc, arg, ctx>>
        BY <1>11 DEF vars, netVars, admitVars, ctlVars, bufVars, fieldVars
    <2>2. ASSUME NEW o \in Objs PROVE Same(o)
        BY <2>1 DEF Same, Life, Holders, Carries, LivesFor, WorkersHolding, ConnsHolding
    <2> QED
        BY <2>2
<1>12. Goal
    BY <1>1, <1>2, <1>3, <1>4, <1>5, <1>6, <1>7, <1>9, <1>10, <1>11
       DEF Next, Prepare, Disconnect, ServeConn, serveHTTP, Handler, Hijacker,
           QuietConn, QuietWorker
<1> QED
    BY <1>12

(* ConnectionState objects have one life after the other: through every     *)
(* interleaving of callbacks and OnDisconnect, each for one connection,     *)
(* begun clean, ended when the last holder has left, with nothing carried   *)
(* over.  This is the refinement of StatePool, for every instance.          *)
THEOREM PoolRefined ==
    ASSUME "lateRequest" \notin Faults
    PROVE  Spec => PoolKeepsLives
<1>1. LifeInv /\ [Next]_vars => LifeInv'
    BY LifeStep
<1>2. Init => Pool!Init
    <2> SUFFICES ASSUME Init PROVE Pool!Init
        OBVIOUS
    <2>1. ASSUME NEW o \in Objs
          PROVE  WorkersHolding(o) = {} /\ ConnsHolding(o) = {} /\ LivesFor(o) = {} /\ Carries(o) = {}
        BY SetsAssumption
           DEF Init, LivesFor, WorkersHolding, ConnsHolding, HoldingPcs, Carries
    <2> QED
        BY <2>1 DEF Pool!Init
<1>3. ASSUME LifeInv, LifeInv', [Next]_vars PROVE [Pool!Next]_(Pool!vars)
    <2>1. CASE \A o \in Objs : Same(o)
        BY <2>1 DEF Same, Life, Holders, Pool!vars
    <2>2. ASSUME NEW o \in Objs, Moved(o), \A p \in Objs \ {o} : Same(p) PROVE Pool!Next
        <3> USE DEF Same, Life, Holders
        <3>1. ASSUME NEW c \in Conns, Taken(o, c) PROVE Pool!Take(o, c)
            BY <2>2, <3>1 DEF Taken, Pool!Take
        <3>2. ASSUME NEW w \in Workers, Joined(o, w) PROVE Pool!Join(o, w)
            BY <2>2, <3>2 DEF Joined, Pool!Join
        <3>3. ASSUME NEW x \in Conns \cup Workers, Left(o, x) PROVE Pool!Leave(o, x)
            BY <2>2, <3>3 DEF Left, Pool!Leave
        <3>4. ASSUME Used(o) PROVE Pool!Use(o)
            BY <2>2, <3>4 DEF Used, Pool!Use
        <3>5. ASSUME Ended(o) PROVE Pool!End(o)
            BY <2>2, <3>5 DEF Ended, Pool!End
        <3> QED
            BY <2>2, <3>1, <3>2, <3>3, <3>4, <3>5 DEF Moved, Pool!Next
    <2> QED
        BY <1>3, <2>1, <2>2, PoolEffect
<1> QED
    BY <1>1, <1>2, <1>3, LifeInit, PTL DEF Spec, PoolKeepsLives, Pool!Spec

-----------------------------------------------------------------------------
(***************************************************************************)
(* netpoll runs at most one OnRequest callback per connection at a time.   *)
(***************************************************************************)
Alone ==
    \A v, w \in Workers : pc[v] # "idle" /\ arg[v] = arg[w] => v = w

(* Unless callbacks run in parallel, a connection has one callback. *)
LEMMA AloneStep ==
    ASSUME "parallel" \notin Faults, TypeOK, Homed, Alone, [Next]_vars
    PROVE  Alone'
<1>0. /\ pc \in [Workers -> WorkerPcs] /\ arg \in [Workers -> Conns \cup {None}]
      /\ \A w \in Workers : pc[w] # "idle" => arg[w] \in Conns
      /\ \A w \in Workers : pc[w] = "idle" => arg[w] = None
    BY DEF TypeOK, Homed
<1> USE <1>0, SetsAssumption DEF Alone, Goto
<1>1. ASSUME NEW w \in Workers, QuietWorker(w) PROVE Alone'
    BY <1>1, QuietWorkerMoves DEF HoldingPcs
<1>2. ASSUME NEW c \in Conns, NEW w \in Workers, Dispatch(w, c) PROVE Alone'
    BY <1>2 DEF Dispatch
<1>3. ASSUME NEW c \in Conns, Prepare(c) \/ PeerSend(c) \/ PeerClose(c) \/ Disconnect(c)
      PROVE  Alone'
    <2>1. UNCHANGED <<arg, pc>>
        BY <1>3
           DEF Prepare, OnPrepareCount, OnPrepareReject, OnPrepareTimeoutFails,
               OnPrepareState, PeerSend, PeerClose, Disconnect, DisconnectCount,
               DisconnectCancel, DisconnectRelease, DisconnectRecycle
    <2> QED
        BY <2>1
<1>4. ASSUME NEW w \in Workers,
             ServeConnAcquire(w) \/ ServeConnRelease(w) \/ ServeConnRecycle(w)
      PROVE  Alone'
    BY <1>4 DEF ServeConnAcquire, ServeConnRelease, ServeConnRecycle, Return
<1>5. CASE UNCHANGED vars
    BY <1>5 DEF vars
<1> QED
    BY <1>1, <1>2, <1>3, <1>4, <1>5
       DEF Next, ServeConn, serveHTTP, Handler, Hijacker, QuietWorker

-----------------------------------------------------------------------------
(***************************************************************************)
(* The byte stream.  Stream: no chunk is read before it was sent, and only *)
(* a bound reader has buffered chunks.  Blank: nothing has happened to a   *)
(* connection that OnPrepare has not accepted.                             *)
(***************************************************************************)
Stream ==
    /\ \A c \in Conns : 0 <= read[c] /\ read[c] <= sent[c]
    /\ \A o \in Objs : buffered[o] >= 0 /\ (rw[o] = None => buffered[o] = 0)
Blank ==
    \A c \in Conns :
        conn[c] \in {"idle", "overLimit", "preparing", "rejected"}
            => sent[c] = 0 /\ read[c] = 0 /\ handled[c] = << >> /\ ~taken[c]

(* The steps that consume a chunk through the object's reader. *)
Consumes(w) == HandleRequest(w) \/ DrainReads(w) \/ HijackerReads(w)

(* A callback consumes chunks of its own connection. *)
LEMMA ConsumesOwn ==
    ASSUME LifeInv, NEW w \in Workers, Consumes(w)
    PROVE  /\ pc[w] \in BoundPcs /\ arg[w] \in Conns /\ ctx[w] \in Objs
           /\ rw[ctx[w]] = arg[w] /\ state[arg[w]] = ctx[w]
           /\ UNCHANGED <<sent, conn, dpc, state, rw, readHandler, arg, ctx>>
           /\ \E k \in Nat :
                 /\ k <= sent[arg[w]] - read[arg[w]]
                 /\ IF buffered[ctx[w]] > 0 THEN k = 0 ELSE k > 0
                 /\ read' = [read EXCEPT ![arg[w]] = @ + k]
                 /\ buffered' = [buffered EXCEPT ![ctx[w]] = @ + k - 1]
<1>1. /\ pc[w] \in {"request", "drain", "await"} /\ ConsumeChunk(ctx[w])
      /\ UNCHANGED <<sent, conn, dpc, state, rw, readHandler, arg, ctx>>
    BY DEF Consumes, HandleRequest, DrainReads, HijackerReads, Goto, netVars, admitVars,
           fieldVars
<1>2. /\ pc[w] \in BoundPcs /\ arg[w] \in Conns /\ ctx[w] \in Objs
      /\ rw[ctx[w]] = arg[w] /\ state[arg[w]] = ctx[w]
    BY <1>1 DEF LifeInv, RefInv, TypeOK, Homed, Bound, BoundPcs
<1>3. Chunks \subseteq Nat
    BY ParameterAssumption DEF Chunks
<1> QED
    BY <1>1, <1>2, <1>3 DEF ConsumeChunk, Unread

(* Stream and Blank are kept by every action. *)
LEMMA StreamStep ==
    ASSUME LifeInv, Stream, Blank, [Next]_vars
    PROVE  Stream' /\ Blank'
<1>0. /\ TypeOK /\ Fresh /\ Homed
      /\ conn \in [Conns -> ConnStates] /\ sent \in [Conns -> Nat] /\ read \in [Conns -> Int]
      /\ buffered \in [Objs -> Int] /\ rw \in [Objs -> Conns \cup {None}]
      /\ taken \in [Conns -> BOOLEAN] /\ state \in [Conns -> Objs \cup {None}]
      /\ handled \in [Conns -> Seq(Conns \X Int)]
      /\ \A w \in Workers : pc[w] # "idle" => arg[w] \in Conns /\ ctx[w] \in Objs
    BY DEF LifeInv, RefInv, LinkInv, TypeOK
<1>1. \A w \in Workers : pc[w] # "idle" =>
          conn[arg[w]] \notin {"idle", "overLimit", "preparing", "rejected"}
    <2> SUFFICES ASSUME NEW w \in Workers, pc[w] # "idle"
                 PROVE  conn[arg[w]] \notin {"idle", "overLimit", "preparing", "rejected"}
        OBVIOUS
    <2>1. arg[w] \in Conns /\ state[arg[w]] \in Objs /\ None \notin Objs
        BY <1>0, SetsAssumption DEF Homed
    <2> QED
        BY <1>0, <2>1 DEF Fresh
<1> USE <1>0, SetsAssumption
    DEF Stream, Blank, netVars, streamVars, bufVars, histVars
<1>2. ASSUME NEW c \in Conns, PeerSend(c) PROVE Stream' /\ Blank'
    <2>1. /\ sent' = [sent EXCEPT ![c] = @ + 1] /\ conn[c] = "active"
          /\ UNCHANGED <<conn, read, buffered, rw, handled, taken>>
        BY <1>2 DEF PeerSend
    <2>2. Stream'
        BY <2>1
    <2>3. Blank'
        BY <2>1
    <2> QED
        BY <2>2, <2>3
<1>3. ASSUME NEW c \in Conns, Prepare(c) \/ PeerClose(c) PROVE Stream' /\ Blank'
    BY <1>3
       DEF Prepare, OnPrepareCount, OnPrepareReject, OnPrepareTimeoutFails,
           OnPrepareState, PeerClose
<1>4. ASSUME NEW c \in Conns, Disconnect(c) PROVE Stream' /\ Blank'
    BY <1>4
       DEF Disconnect, DisconnectCount, DisconnectCancel, DisconnectRelease,
           DisconnectRecycle, Recycle
<1>5. ASSUME NEW c \in Conns, NEW w \in Workers, Dispatch(w, c) PROVE Stream' /\ Blank'
    BY <1>5 DEF Dispatch
<1>6. ASSUME NEW w \in Workers, Consumes(w) PROVE Stream' /\ Blank'
    <2>1. PICK k \in Nat :
              /\ k <= sent[arg[w]] - read[arg[w]]
              /\ IF buffered[ctx[w]] > 0 THEN k = 0 ELSE k > 0
              /\ read' = [read EXCEPT ![arg[w]] = @ + k]
              /\ buffered' = [buffered EXCEPT ![ctx[w]] = @ + k - 1]
        BY <1>6, ConsumesOwn
    <2>2. /\ arg[w] \in Conns /\ ctx[w] \in Objs /\ rw[ctx[w]] = arg[w]
          /\ UNCHANGED <<sent, conn, rw>> /\ pc[w] # "idle"
        BY <1>6, ConsumesOwn DEF BoundPcs
    <2>3. /\ taken' = taken
          /\ handled' = handled \/ \E m : handled' = [handled EXCEPT ![arg[w]] = m]
        BY <1>6 DEF Consumes, HandleRequest, DrainReads, HijackerReads
    <2>4. Stream'
        BY <2>1, <2>2
    <2>5. Blank'
        BY <1>1, <2>1, <2>2, <2>3
    <2> QED
        BY <2>4, <2>5
<1>7. ASSUME NEW w \in Workers, ServeConnReadHandler(w) PROVE Stream' /\ Blank'
    <2>1. /\ pc[w] = "readHandler" /\ rw[ctx[w]] = arg[w] /\ UNCHANGED <<sent, rw, handled, taken>>
          /\ arg[w] \in Conns /\ ctx[w] \in Objs
          /\ read' = [read EXCEPT ![arg[w]] = sent[arg[w]]]
          /\ buffered' = [buffered EXCEPT ![ctx[w]] = 0]
        BY <1>7 DEF ServeConnReadHandler, Goto, LifeInv, Bound, BoundPcs
    <2>2. Stream'
        BY <2>1
    <2>3. CloseConn(arg[w]) \/ UNCHANGED netVars
        BY <1>7 DEF ServeConnReadHandler
    <2>4. Blank'
        BY <1>1, <2>1, <2>3 DEF CloseConn
    <2> QED
        BY <2>2, <2>4
<1>8. ASSUME NEW w \in Workers, HandlerHijacks(w) PROVE Stream' /\ Blank'
    BY <1>1, <1>8 DEF HandlerHijacks
<1>9. ASSUME NEW w \in Workers, ServeConn(w), ~ServeConnReadHandler(w) PROVE Stream' /\ Blank'
    <2>1. CASE ServeConnBind(w)
        <3>1. /\ UNCHANGED <<conn, sent, read, buffered, handled, taken>> /\ arg[w] \in Conns
              /\ rw' = [rw EXCEPT ![ctx[w]] = IF @ = None THEN arg[w] ELSE @]
            BY <2>1 DEF ServeConnBind, Goto
        <3> QED
            BY <3>1
    <2>2. CASE ServeConnRecycle(w)
        BY <2>2 DEF ServeConnRecycle, Recycle, Goto
    <2>3. CASE \/ ServeConnAcquire(w) \/ ServeConnTryProcess(w)
               \/ ServeConnYield(w) \/ ServeConnRelease(w)
        BY <2>3 DEF ServeConnAcquire, ServeConnTryProcess, ServeConnYield, ServeConnRelease
    <2> QED
        BY <1>9, <2>1, <2>2, <2>3 DEF ServeConn
<1>10. ASSUME NEW w \in Workers,
              serveHTTP(w) \/ Handler(w) \/ Hijacker(w), ~Consumes(w), ~HandlerHijacks(w)
       PROVE  Stream' /\ Blank'
    <2>1. UNCHANGED <<sent, read, buffered, rw, handled, taken>>
        BY <1>10
           DEF Consumes, serveHTTP, LoopStops, LoopRejects, LoopProceeds, HandleRequestFails,
               AwaitDone, DrainFails, DrainCloses, AfterRequest, DoubleCheck, TryAgain,
               Handler, HandlerSetsReadHandler, HandlerFails, HandlerReturns,
               Hijacker, HijackerCloses
    <2>2. Untouched \/ (arg[w] \in Conns /\ Closes(arg[w]))
        BY <1>10, WorkerEffect
    <2>3. \A c \in Conns : conn'[c] = conn[c] \/ conn'[c] = "selfClosed"
        BY <2>2 DEF Untouched, Closes, CloseConn
    <2> QED
        BY <2>1, <2>3
<1>11. CASE UNCHANGED vars
    BY <1>11 DEF vars
<1> QED
    BY <1>2, <1>3, <1>4, <1>5, <1>6, <1>7, <1>8, <1>9, <1>10, <1>11 DEF Next

-----------------------------------------------------------------------------
(***************************************************************************)
(* Where a connection's stream stands.  Consumed is the number of chunks   *)
(* that were read through its ConnectionState; between two requests it is  *)
(* twice the number of requests handled, in a handler one less.  A taken   *)
(* connection is nobody's HTTP stream any more: its ReadHandler is set, or *)
(* the callback that took it is still in its handler or waits for the end. *)
(* PhaseOK says so for each place of a callback, Resting for a connection  *)
(* without one.                                                            *)
(***************************************************************************)
Consumed(c) == read[c] - (IF rw[state[c]] = c THEN buffered[state[c]] ELSE 0)
Resting(c) ==
    conn[c] = "active" => IF taken[c] THEN readHandler[state[c]]
                                      ELSE Consumed(c) = 2 * Len(handled[c])
Ready(c) ==
    conn[c] = "active" => ~taken[c] /\ Consumed(c) = 2 * Len(handled[c])
PhaseOK(p, h, c) ==
    /\ p \in {"enter", "cas", "bind", "yield", "release", "recycle"} => Resting(c)
    /\ p \in {"loop", "after", "recheck", "recas"} => Ready(c)
    /\ p = "request" => ~taken[c] /\ Consumed(c) = 2 * Len(handled[c])
    /\ p = "handler" => (taken[c] <=> h) /\ (~h => Consumed(c) = 2 * Len(handled[c]) - 1)
    /\ p = "drain" => ~taken[c] /\ Consumed(c) = 2 * Len(handled[c]) - 1
    /\ p = "await" => taken[c]
    /\ p = "readHandler" => taken[c] /\ readHandler[state[c]]
PhaseInv ==
    /\ \A w \in Workers : pc[w] # "idle" => PhaseOK(pc[w], hijacked[w], arg[w])
    /\ \A c \in Conns : (\A w \in Workers : arg[w] # c) => Resting(c)

(* A step that leaves a connection's stream alone; it may close it. *)
Kept(d) ==
    /\ conn'[d] = "active" => conn[d] = "active"
    /\ state[d] \in Objs => /\ state'[d] = state[d] /\ taken'[d] = taken[d]
                            /\ handled'[d] = handled[d] /\ Consumed(d)' = Consumed(d)
                            /\ readHandler[state[d]] => readHandler'[state[d]]

(* A step that touches neither readers nor histories keeps every stream. *)
LEMMA AllKept ==
    ASSUME UNCHANGED <<read, rw, buffered, state, handled, taken>>,
           \A o \in Objs : readHandler[o] => readHandler'[o],
           \A d \in Conns : conn'[d] = "active" => conn[d] = "active"
    PROVE  \A d \in Conns : Kept(d)
    BY DEF Kept, Consumed

(* Whatever a callback's phase says of its connection, and what rest says   *)
(* of one without a callback, survives a step that keeps the stream.        *)
LEMMA PhaseKept ==
    ASSUME NEW p, NEW h, NEW c \in Conns, state[c] \in Objs, Kept(c)
    PROVE  /\ PhaseOK(p, h, c) => PhaseOK(p, h, c)'
           /\ Resting(c) => Resting(c)'
<1>1. /\ conn'[c] = "active" => conn[c] = "active"
      /\ state'[c] = state[c] /\ taken'[c] = taken[c] /\ handled'[c] = handled[c]
      /\ Consumed(c)' = Consumed(c) /\ (readHandler[state[c]] => readHandler'[state[c]])
    BY DEF Kept
<1>2. Resting(c) => Resting(c)'
    BY <1>1 DEF Resting
<1>3. Ready(c) => Ready(c)'
    BY <1>1 DEF Ready
<1> QED
    BY <1>1, <1>2, <1>3 DEF PhaseOK

(* A step of one callback keeps the phases of the others, which work on     *)
(* other connections, so only its own connection has to be looked at.       *)
LEMMA WorkerPhase ==
    ASSUME LifeInv, Alone, PhaseInv,
           NEW w \in Workers, NEW c \in Conns, NEW p, NEW h,
           pc[w] # "idle", arg[w] = c, pc'[w] = p, hijacked'[w] = h,
           \A v \in Workers \ {w} : /\ pc'[v] = pc[v] /\ arg'[v] = arg[v]
                                    /\ hijacked'[v] = hijacked[v],
           \A d \in Conns \ {c} : Kept(d),
           \/ p = "idle" /\ arg'[w] = None /\ Resting(c)'
           \/ p # "idle" /\ arg'[w] = c /\ PhaseOK(p, h, c)'
    PROVE  PhaseInv'
<1>0. /\ \A v \in Workers : pc[v] # "idle" => arg[v] \in Conns /\ state[arg[v]] \in Objs
      /\ \A v \in Workers : pc[v] = "idle" => arg[v] = None
      /\ \A d \in Conns : conn[d] = "active" => state[d] \in Objs
    BY DEF LifeInv, RefInv, TypeOK, Homed
<1>1. ASSUME NEW v \in Workers \ {w}, NEW q, NEW g, NEW d \in Conns,
             pc'[v] # "idle", pc'[v] = q, hijacked'[v] = g, arg'[v] = d
      PROVE  PhaseOK(q, g, d)'
    <2>1. PhaseOK(q, g, d) /\ d # c /\ state[d] \in Objs
        BY <1>0, <1>1 DEF PhaseInv, Alone
    <2> QED
        BY <2>1, PhaseKept
<1>2. ASSUME NEW v \in Workers, pc'[v] # "idle"
      PROVE  PhaseOK(pc[v], hijacked[v], arg[v])'
    <2>1. CASE v = w
        BY <1>2, <2>1 DEF PhaseOK, Resting, Ready, Consumed
    <2>2. CASE v # w
        <3>1. PICK q, g, d : q = pc'[v] /\ g = hijacked'[v] /\ d = arg'[v]
            OBVIOUS
        <3>2. d \in Conns
            BY <1>0, <1>2, <2>2, <3>1
        <3>3. PhaseOK(q, g, d)'
            BY <1>1, <1>2, <2>2, <3>1, <3>2
        <3> QED
            BY <3>1, <3>3 DEF PhaseOK, Resting, Ready, Consumed
    <2> QED
        BY <2>1, <2>2
<1>3. ASSUME NEW d \in Conns, \A v \in Workers : arg'[v] # d PROVE Resting(d)'
    <2>1. CASE d = c
        BY <1>3, <2>1
    <2>2. CASE d # c
        <3>1. Kept(d) /\ \A v \in Workers : arg[v] # d
            BY <1>3, <2>2
        <3>2. Resting(d)
            BY <3>1 DEF PhaseInv
        <3>3. CASE state[d] \in Objs
            BY <3>1, <3>2, <3>3, PhaseKept
        <3>4. CASE state[d] \notin Objs
            BY <1>0, <3>1, <3>4 DEF Kept, Resting
        <3> QED
            BY <3>3, <3>4
    <2> QED
        BY <2>1, <2>2
<1> QED
    BY <1>2, <1>3 DEF PhaseInv

(* The steps of a callback that touch no reader and no history, whether     *)
(* they close the connection or not.                                        *)
Passes(w) ==
    \/ ServeConnAcquire(w) \/ ServeConnTryProcess(w) \/ ServeConnYield(w)
    \/ ServeConnRelease(w) \/ LoopStops(w) \/ LoopRejects(w) \/ LoopProceeds(w)
    \/ HandleRequestFails(w) \/ AwaitDone(w) \/ DrainFails(w) \/ DrainCloses(w)
    \/ AfterRequest(w) \/ DoubleCheck(w) \/ TryAgain(w) \/ HandlerSetsReadHandler(w)
    \/ HandlerFails(w) \/ HandlerReturns(w) \/ HijackerCloses(w)

(* They keep every stream, and leave their own phase for one that holds:    *)
(* what they branch on is what the next phase needs.                        *)
LEMMA PassesPhase ==
    ASSUME "lateRequest" \notin Faults, "drainTimesOut" \notin Faults,
           LifeInv, Alone, PhaseInv, NEW w \in Workers, Passes(w)
    PROVE  PhaseInv'
<1>0. /\ TypeOK /\ Linked /\ Homed /\ DoneOpen
      /\ pc \in [Workers -> WorkerPcs] /\ arg \in [Workers -> Conns \cup {None}]
      /\ ctx \in [Workers -> Objs \cup {None}] /\ conn \in [Conns -> ConnStates]
      /\ dpc \in [Conns -> DisconnectPcs]
      /\ hijacked \in [Workers -> BOOLEAN] /\ readHandler \in [Objs -> BOOLEAN]
    BY DEF LifeInv, RefInv, LinkInv, TypeOK
<1>1. pc[w] # "idle"
    BY DEF Passes, ServeConnAcquire, ServeConnTryProcess, ServeConnYield, ServeConnRelease,
           LoopStops, LoopRejects, LoopProceeds, HandleRequestFails, AwaitDone, DrainFails,
           DrainCloses, AfterRequest, DoubleCheck, TryAgain, HandlerSetsReadHandler,
           HandlerFails, HandlerReturns, HijackerCloses, Goto
<1>2. PICK c \in Conns, o \in Objs : arg[w] = c /\ ctx[w] = o /\ state[c] = o
    BY <1>0, <1>1 DEF TypeOK, Homed
<1>3. PICK p, h : pc'[w] = p /\ hijacked'[w] = h
    OBVIOUS
<1>4. /\ UNCHANGED <<read, rw, buffered, state, handled, taken>>
      /\ \A v \in Workers \ {w} : /\ pc'[v] = pc[v] /\ arg'[v] = arg[v]
                                  /\ hijacked'[v] = hijacked[v]
      /\ readHandler' = readHandler \/ readHandler' = [readHandler EXCEPT ![o] = TRUE]
    <2> USE <1>0, <1>2 DEF Goto, streamVars, admitVars, bufVars, fieldVars, histVars
    <2>1. CASE \/ ServeConnAcquire(w) \/ ServeConnTryProcess(w) \/ ServeConnYield(w)
               \/ ServeConnRelease(w)
        BY <2>1
           DEF ServeConnAcquire, ServeConnTryProcess, ServeConnYield, ServeConnRelease, Return
    <2>2. CASE \/ LoopStops(w) \/ LoopRejects(w) \/ LoopProceeds(w)
               \/ HandleRequestFails(w) \/ AwaitDone(w)
        BY <2>2 DEF LoopStops, LoopRejects, LoopProceeds, HandleRequestFails, AwaitDone
    <2>3. CASE \/ DrainFails(w) \/ DrainCloses(w)
               \/ AfterRequest(w) \/ DoubleCheck(w) \/ TryAgain(w)
        BY <2>3 DEF DrainFails, DrainCloses, AfterRequest, DoubleCheck, TryAgain
    <2>4. CASE \/ HandlerSetsReadHandler(w) \/ HandlerFails(w) \/ HandlerReturns(w)
               \/ HijackerCloses(w)
        BY <2>4 DEF HandlerSetsReadHandler, HandlerFails, HandlerReturns, HijackerCloses
    <2> QED
        BY <2>1, <2>2, <2>3, <2>4 DEF Passes
<1>5. Untouched \/ Closes(c)
    BY <1>0, <1>2, WorkerEffect DEF Passes, ServeConn, serveHTTP, Handler, Hijacker
<1>6. \A d \in Conns : Kept(d)
    <2>1. \A d \in Conns : conn'[d] = "active" => conn[d] = "active"
        BY <1>0, <1>5 DEF Untouched, Closes, CloseConn
    <2>2. \A q \in Objs : readHandler[q] => readHandler'[q]
        BY <1>0, <1>4
    <2> QED
        BY <1>4, <2>1, <2>2, AllKept
<1>7. PhaseOK(pc[w], hijacked[w], c)
    BY <1>1, <1>2 DEF PhaseInv
<1>8. /\ conn'[c] = "active" => conn[c] = "active"
      /\ state'[c] = o /\ taken'[c] = taken[c] /\ handled'[c] = handled[c]
      /\ Consumed(c)' = Consumed(c) /\ (readHandler[o] => readHandler'[o])
    BY <1>2, <1>6 DEF Kept
<1> DEFINE Goal == \/ p = "idle" /\ arg'[w] = None /\ Resting(c)'
                   \/ p # "idle" /\ arg'[w] = c /\ PhaseOK(p, h, c)'
<1>9. ASSUME Resting(c), arg'[w] = arg[w],
             p \in {"cas", "bind", "yield", "release", "recycle"}
      PROVE  Goal
    BY <1>2, <1>8, <1>9 DEF PhaseOK, Resting
<1>10. ASSUME Ready(c), arg'[w] = arg[w], p \in {"loop", "recheck", "recas", "release", "yield"}
       PROVE  Goal
    BY <1>2, <1>8, <1>10 DEF PhaseOK, Resting, Ready
<1>11. ASSUME conn'[c] # "active", arg'[w] = arg[w], p = "yield" PROVE Goal
    BY <1>2, <1>11 DEF PhaseOK, Resting
<1>12. ASSUME CloseConn(c) PROVE conn'[c] # "active"
    BY <1>0, <1>12 DEF CloseConn
<1>13. Goal
    <2> USE <1>0, <1>1, <1>2, <1>3, <1>7 DEF Goto
    <2>1. CASE ServeConnAcquire(w) \/ ServeConnTryProcess(w) \/ ServeConnYield(w)
        <3>1. /\ pc[w] \in {"enter", "cas", "yield"} /\ arg' = arg
              /\ p \in {"cas", "bind", "release"}
            BY <2>1 DEF ServeConnAcquire, ServeConnTryProcess, ServeConnYield
        <3> QED
            BY <1>9, <3>1 DEF PhaseOK
    <2>2. CASE ServeConnRelease(w)
        <3>1. /\ pc[w] = "release"
              /\ \/ p = "recycle" /\ arg' = arg
                 \/ p = "idle" /\ arg'[w] = None
            BY <2>2 DEF ServeConnRelease, Return
        <3>2. Resting(c) /\ Resting(c)'
            BY <1>6, <3>1, PhaseKept DEF PhaseOK
        <3> QED
            BY <1>9, <3>1, <3>2
    <2>3. CASE LoopStops(w) \/ AfterRequest(w) \/ DoubleCheck(w) \/ TryAgain(w)
        <3>1. /\ pc[w] \in {"loop", "after", "recheck", "recas"} /\ arg' = arg
              /\ p \in {"yield", "loop", "recheck", "recas", "release"}
            BY <2>3 DEF LoopStops, AfterRequest, DoubleCheck, TryAgain
        <3> QED
            BY <1>10, <3>1 DEF PhaseOK
    <2>4. CASE LoopRejects(w) \/ HandleRequestFails(w) \/ DrainCloses(w) \/ HandlerFails(w)
        <3>1. p = "yield" /\ arg' = arg /\ CloseConn(c)
            BY <2>4 DEF LoopRejects, HandleRequestFails, DrainCloses, HandlerFails
        <3> QED
            BY <1>11, <1>12, <3>1
    <2>5. CASE LoopProceeds(w)
        <3>1. pc[w] = "loop" /\ p = "request" /\ arg' = arg /\ conn[c] = "active"
            BY <2>5 DEF LoopProceeds
        <3> QED
            BY <1>8, <3>1 DEF PhaseOK, Ready
    <2>6. CASE AwaitDone(w)
        <3>1. p = "yield" /\ arg' = arg /\ done[o] = "closed" /\ UNCHANGED conn
            BY <2>6 DEF AwaitDone, netVars
        <3>2. conn[c] # "active"
            BY <3>1 DEF DoneOpen, Linked
        <3> QED
            BY <1>11, <3>1, <3>2
    <2>7. CASE DrainFails(w)
        <3>1. p = "after" /\ arg' = arg /\ conn[c] # "active"
            BY <2>7 DEF DrainFails
        <3> QED
            BY <1>8, <3>1 DEF PhaseOK, Ready
    <2>8. CASE HandlerSetsReadHandler(w) \/ HijackerCloses(w)
        <3>1. p = pc[w] /\ h = hijacked[w] /\ arg' = arg
            BY <2>8 DEF HandlerSetsReadHandler, HijackerCloses
        <3> QED
            BY <1>6, <3>1, PhaseKept
    <2>9. CASE HandlerReturns(w)
        <3>1. /\ pc[w] = "handler" /\ arg' = arg
              /\ p = IF ~hijacked[w] THEN "drain" ELSE IF readHandler[o] THEN "yield" ELSE "await"
            BY <2>9 DEF HandlerReturns
        <3>2. CASE ~hijacked[w]
            BY <1>8, <3>1, <3>2 DEF PhaseOK
        <3>3. CASE hijacked[w] /\ readHandler[o]
            BY <1>8, <3>1, <3>3 DEF PhaseOK, Resting
        <3>4. CASE hijacked[w] /\ ~readHandler[o]
            BY <1>8, <3>1, <3>4 DEF PhaseOK
        <3> QED
            BY <3>2, <3>3, <3>4
    <2> QED
        BY <2>1, <2>2, <2>3, <2>4, <2>5, <2>6, <2>7, <2>8, <2>9 DEF Passes
<1> QED
    BY <1>1, <1>2, <1>3, <1>4, <1>6, <1>13, WorkerPhase

(* The other steps of a callback: binding, reading, and the hijack. *)
Reads(w) == ServeConnBind(w) \/ ServeConnReadHandler(w) \/ HandlerHijacks(w) \/ Consumes(w)

(* What they do to the streams: nobody else's moves, and each chunk that is *)
(* consumed advances the callback's own by one.                             *)
LEMMA ReadsEffect ==
    ASSUME LifeInv, Stream, NEW w \in Workers, Reads(w), NEW c \in Conns, arg[w] = c
    PROVE  /\ pc[w] # "idle" /\ state[c] = ctx[w] /\ ctx[w] \in Objs
           /\ UNCHANGED <<arg, ctx, state, readHandler>>
           /\ \A v \in Workers \ {w} : pc'[v] = pc[v] /\ hijacked'[v] = hijacked[v]
           /\ \A d \in Conns : conn'[d] = "active" => conn[d] = "active"
           /\ \A d \in Conns \ {c} : Kept(d)
           /\ ServeConnBind(w) \/ HandlerHijacks(w) => Consumed(c)' = Consumed(c)
           /\ Consumes(w) => Consumed(c)' = Consumed(c) + 1
<1>0. /\ TypeOK /\ Homed /\ Bound /\ conn \in [Conns -> ConnStates]
      /\ pc \in [Workers -> WorkerPcs] /\ hijacked \in [Workers -> BOOLEAN]
      /\ read \in [Conns -> Int] /\ buffered \in [Objs -> Int] /\ sent \in [Conns -> Nat]
      /\ rw \in [Objs -> Conns \cup {None}] /\ state \in [Conns -> Objs \cup {None}]
      /\ handled \in [Conns -> Seq(Conns \X Int)] /\ taken \in [Conns -> BOOLEAN]
    BY DEF LifeInv, RefInv, TypeOK
<1>1. /\ pc[w] # "idle" /\ UNCHANGED <<arg, ctx, state, readHandler>>
      /\ \A v \in Workers \ {w} : pc'[v] = pc[v] /\ hijacked'[v] = hijacked[v]
    <2> USE <1>0 DEF Goto, admitVars, fieldVars
    <2>1. CASE ServeConnBind(w) \/ ServeConnReadHandler(w) \/ HandlerHijacks(w)
        BY <2>1 DEF ServeConnBind, ServeConnReadHandler, HandlerHijacks
    <2>2. CASE Consumes(w)
        BY <2>2 DEF Consumes, HandleRequest, DrainReads, HijackerReads
    <2> QED
        BY <2>1, <2>2 DEF Reads
<1>2. PICK o \in Objs : ctx[w] = o /\ state[c] = o
    BY <1>0, <1>1 DEF TypeOK, Homed
<1>3. \A d \in Conns : conn'[d] = "active" => conn[d] = "active"
    <2>1. Untouched \/ Closes(c)
        BY <1>0, WorkerEffect
           DEF Reads, Consumes, ServeConn, serveHTTP, Handler, Hijacker
    <2> QED
        BY <1>0, <2>1 DEF Untouched, Closes, CloseConn
<1>4. \A d \in Conns \ {c} : taken'[d] = taken[d] /\ handled'[d] = handled[d]
    <2> USE <1>0 DEF histVars
    <2>1. CASE ServeConnBind(w) \/ ServeConnReadHandler(w) \/ HandlerHijacks(w)
        BY <2>1 DEF ServeConnBind, ServeConnReadHandler, HandlerHijacks
    <2>2. CASE Consumes(w)
        BY <2>2 DEF Consumes, HandleRequest, DrainReads, HijackerReads
    <2> QED
        BY <2>1, <2>2 DEF Reads
<1>5. CASE ServeConnBind(w)
    <2>1. /\ UNCHANGED <<read, buffered>>
          /\ rw' = [rw EXCEPT ![o] = IF @ = None THEN c ELSE @]
          /\ rw[o] = None => buffered[o] = 0
        BY <1>2, <1>5 DEF ServeConnBind, streamVars, Stream
    <2>2. ASSUME NEW d \in Conns, state[d] \in Objs PROVE Consumed(d)' = Consumed(d)
        BY <1>0, <1>1, <1>2, <2>1, <2>2, SetsAssumption DEF Consumed
    <2>3. ~Consumes(w)
        BY <1>5 DEF Consumes, ServeConnBind, HandleRequest, DrainReads, HijackerReads, Goto
    <2> QED
        BY <1>1, <1>2, <1>3, <1>4, <2>2, <2>3 DEF Kept
<1>6. CASE HandlerHijacks(w)
    <2>1. UNCHANGED <<read, buffered, rw>>
        BY <1>6 DEF HandlerHijacks, streamVars, bufVars
    <2>2. ASSUME NEW d \in Conns PROVE Consumed(d)' = Consumed(d)
        BY <1>1, <2>1 DEF Consumed
    <2>3. ~Consumes(w)
        BY <1>6 DEF Consumes, HandlerHijacks, HandleRequest, DrainReads, HijackerReads, Goto
    <2> QED
        BY <1>1, <1>2, <1>3, <1>4, <2>2, <2>3 DEF Kept
<1>7. CASE ServeConnReadHandler(w)
    <2>1. /\ rw[o] = c /\ rw' = rw /\ read' = [read EXCEPT ![c] = sent[c]]
          /\ buffered' = [buffered EXCEPT ![o] = 0] /\ pc[w] = "readHandler"
        BY <1>0, <1>2, <1>7 DEF ServeConnReadHandler, Goto, Bound, BoundPcs
    <2>2. ASSUME NEW d \in Conns \ {c}, state[d] \in Objs PROVE Consumed(d)' = Consumed(d)
        BY <1>0, <1>1, <1>2, <2>1, <2>2 DEF Consumed
    <2>3. ~Consumes(w) /\ ~ServeConnBind(w) /\ ~HandlerHijacks(w)
        BY <2>1
           DEF Consumes, HandlerHijacks, HandleRequest, DrainReads, HijackerReads, ServeConnBind,
               Goto
    <2> QED
        BY <1>1, <1>2, <1>3, <1>4, <2>2, <2>3 DEF Kept
<1>8. CASE Consumes(w)
    <2>1. /\ rw[o] = c /\ rw' = rw
          /\ \E k \in Nat : /\ read' = [read EXCEPT ![c] = @ + k]
                            /\ buffered' = [buffered EXCEPT ![o] = @ + k - 1]
        BY <1>2, <1>8, ConsumesOwn
    <2>2. ASSUME NEW d \in Conns \ {c}, state[d] \in Objs PROVE Consumed(d)' = Consumed(d)
        BY <1>0, <1>1, <1>2, <2>1, <2>2 DEF Consumed
    <2>3. Consumed(c)' = Consumed(c) + 1
        BY <1>0, <1>1, <1>2, <2>1 DEF Consumed
    <2>4. ~ServeConnBind(w) /\ ~HandlerHijacks(w)
        BY <1>8
           DEF Consumes, HandlerHijacks, HandleRequest, DrainReads, HijackerReads, ServeConnBind,
               Goto
    <2> QED
        BY <1>1, <1>2, <1>3, <1>4, <2>2, <2>3, <2>4 DEF Kept
<1> QED
    BY <1>5, <1>6, <1>7, <1>8 DEF Reads

(* Binding, reading and hijacking lead from phase to phase: the handler     *)
(* gets a header, the drain takes the body, and after a hijack only the     *)
(* hijacker and the ReadHandler read.                                       *)
LEMMA ReadsPhase ==
    ASSUME LifeInv, Stream, Alone, PhaseInv, NEW w \in Workers, Reads(w)
    PROVE  PhaseInv'
<1>0. /\ TypeOK /\ Homed /\ Owned
      /\ pc \in [Workers -> WorkerPcs] /\ hijacked \in [Workers -> BOOLEAN]
      /\ handled \in [Conns -> Seq(Conns \X Int)] /\ taken \in [Conns -> BOOLEAN]
      /\ readHandler \in [Objs -> BOOLEAN]
    BY DEF LifeInv, RefInv, TypeOK
<1>1. PICK c \in Conns : arg[w] = c
    <2>1. pc[w] # "idle"
        BY DEF Reads, Consumes, ServeConnBind, ServeConnReadHandler, HandlerHijacks,
               HandleRequest, DrainReads, HijackerReads, Goto
    <2> QED
        BY <1>0, <2>1 DEF TypeOK
<1>2. /\ pc[w] # "idle" /\ state[c] = ctx[w] /\ ctx[w] \in Objs
      /\ UNCHANGED <<arg, ctx, state, readHandler>>
      /\ \A v \in Workers \ {w} : pc'[v] = pc[v] /\ hijacked'[v] = hijacked[v]
      /\ conn'[c] = "active" => conn[c] = "active"
      /\ \A d \in Conns \ {c} : Kept(d)
      /\ ServeConnBind(w) \/ HandlerHijacks(w) => Consumed(c)' = Consumed(c)
      /\ Consumes(w) => Consumed(c)' = Consumed(c) + 1
    BY <1>1, ReadsEffect
<1>3. PICK p, h, o : pc'[w] = p /\ hijacked'[w] = h /\ ctx[w] = o
    OBVIOUS
<1>4. PhaseOK(pc[w], hijacked[w], c)
    BY <1>1, <1>2 DEF PhaseInv
<1>5. p # "idle" /\ PhaseOK(p, h, c)'
    <2> USE <1>0, <1>1, <1>2, <1>3, <1>4 DEF Goto, histVars
    <2>1. CASE ServeConnBind(w)
        <3>1. /\ pc[w] = "bind" /\ UNCHANGED <<taken, handled>>
              /\ p = IF readHandler[o] THEN "readHandler" ELSE "loop"
            BY <2>1 DEF ServeConnBind
        <3>2. Resting(c)
            BY <3>1 DEF PhaseOK
        <3>3. readHandler[o] => taken[c]
            <4>1. c \in LivesFor(o)
                BY <3>1, HolderLives DEF HoldingPcs, WorkerPcs
            <4> QED
                BY <4>1 DEF Owned
        <3> QED
            BY <2>1, <3>1, <3>2, <3>3 DEF PhaseOK, Resting, Ready
    <2>2. CASE ServeConnReadHandler(w)
        <3>1. pc[w] = "readHandler" /\ p = "yield" /\ UNCHANGED taken
            BY <2>2 DEF ServeConnReadHandler
        <3> QED
            BY <3>1 DEF PhaseOK, Resting
    <2>3. CASE HandlerHijacks(w)
        <3>1. pc[w] = "handler" /\ p = "handler" /\ h /\ taken'[c]
            BY <2>3 DEF HandlerHijacks
        <3> QED
            BY <3>1 DEF PhaseOK
    <2>4. CASE HandleRequest(w)
        <3>1. /\ pc[w] = "request" /\ p = "handler" /\ ~h /\ taken' = taken
              /\ \E m : handled' = [handled EXCEPT ![c] = Append(@, m)]
            BY <2>4 DEF HandleRequest
        <3>2. Len(handled'[c]) = Len(handled[c]) + 1 /\ Len(handled[c]) \in Nat
            BY <3>1, LenProperties, AppendProperties
        <3> QED
            BY <2>4, <3>1, <3>2 DEF PhaseOK, Consumes
    <2>5. CASE DrainReads(w)
        <3>1. pc[w] = "drain" /\ p = "after" /\ UNCHANGED <<taken, handled>>
            BY <2>5 DEF DrainReads
        <3>2. Len(handled[c]) \in Nat
            BY LenProperties
        <3> QED
            BY <2>5, <3>1, <3>2 DEF PhaseOK, Consumes, Ready
    <2>6. CASE HijackerReads(w)
        <3>1. pc[w] = "await" /\ p = "await" /\ UNCHANGED <<taken, handled>>
            BY <2>6 DEF HijackerReads
        <3> QED
            BY <3>1 DEF PhaseOK
    <2> QED
        BY <2>1, <2>2, <2>3, <2>4, <2>5, <2>6 DEF Reads, Consumes
<1> QED
    BY <1>1, <1>2, <1>3, <1>5, WorkerPhase

(* When an object is recycled, no connection it served is active, and none  *)
(* of their callbacks is anywhere but in the recycling itself.              *)
LEMMA RecycledGone ==
    ASSUME LifeInv, NEW o \in Objs, Recyclers(o) # {}, NEW c \in Conns, state[c] = o
    PROVE  /\ conn[c] # "active"
           /\ \A w \in Workers : arg[w] = c => pc[w] = "recycle" /\ w \in Recyclers(o)
<1>0. /\ TypeOK /\ NoUseAfterRelease /\ Linked /\ Entering /\ Homed
      /\ pc \in [Workers -> WorkerPcs]
    BY DEF LifeInv, RefInv, LinkInv, TypeOK
<1>1. WorkersHolding(o) = {} /\ ConnsHolding(o) = {}
    BY <1>0 DEF NoUseAfterRelease
<1>2. dpc[c] \notin {"none", "due", "cancel", "release"}
    BY <1>1 DEF ConnsHolding
<1>3. conn[c] # "active"
    BY <1>0, <1>2 DEF Linked
<1>4. ASSUME NEW w \in Workers, arg[w] = c PROVE pc[w] = "recycle" /\ w \in Recyclers(o)
    <2>1. pc[w] # "idle" /\ ctx[w] = o
        BY <1>0, <1>4, SetsAssumption DEF Homed
    <2>2. pc[w] # "enter"
        BY <1>0, <1>2, <1>4, <2>1 DEF Entering
    <2>3. pc[w] \notin HoldingPcs
        BY <1>1, <2>1 DEF WorkersHolding
    <2> QED
        BY <1>0, <2>1, <2>2, <2>3 DEF HoldingPcs, Recyclers
<1> QED
    BY <1>3, <1>4

(* Recycling disturbs no stream that somebody still reads. *)
LEMMA RecyclePhase ==
    ASSUME LifeInv, PhaseInv, NEW o \in Objs, NEW x \in Recyclers(o), Recycle(o),
           \A v \in Workers \ {x} : /\ pc'[v] = pc[v] /\ arg'[v] = arg[v]
                                    /\ hijacked'[v] = hijacked[v],
           x \in Workers => pc'[x] = "idle",
           UNCHANGED <<conn, state, read, handled, taken>>
    PROVE  PhaseInv'
<1>0. /\ TypeOK /\ NoUseAfterRelease /\ Homed
      /\ rw \in [Objs -> Conns \cup {None}] /\ buffered \in [Objs -> Int]
      /\ readHandler \in [Objs -> BOOLEAN]
      /\ \A w \in Workers : pc[w] # "idle" => arg[w] \in Conns /\ state[arg[w]] \in Objs
      /\ \A w \in Workers : pc[w] = "idle" => arg[w] = None
      /\ \A c \in Conns : conn[c] = "active" => state[c] \in Objs
    BY DEF LifeInv, RefInv, TypeOK, Homed
<1>1. \A y \in Recyclers(o) : y = x
    BY <1>0 DEF NoUseAfterRelease
<1>2. ASSUME NEW d \in Conns, state[d] # o PROVE Kept(d)
    BY <1>0, <1>2 DEF Kept, Consumed, Recycle
<1>3. ASSUME NEW v \in Workers, pc'[v] # "idle"
      PROVE  PhaseOK(pc[v], hijacked[v], arg[v])'
    <2>1. PICK q, g, d : q = pc[v] /\ g = hijacked[v] /\ d = arg[v]
        OBVIOUS
    <2>2. v # x /\ q = pc'[v] /\ g = hijacked'[v] /\ d = arg'[v] /\ q # "idle"
        BY <1>3, <2>1
    <2>3. d \in Conns /\ state[d] \in Objs /\ PhaseOK(q, g, d)
        BY <1>0, <2>1, <2>2 DEF PhaseInv
    <2>4. state[d] # o
        BY <1>1, <2>1, <2>2, <2>3, RecycledGone
    <2>5. PhaseOK(q, g, d)'
        BY <1>2, <2>3, <2>4, PhaseKept
    <2> QED
        BY <2>2, <2>5 DEF PhaseOK, Resting, Ready, Consumed
<1>4. ASSUME NEW d \in Conns, \A v \in Workers : arg'[v] # d PROVE Resting(d)'
    <2>1. CASE conn[d] # "active"
        BY <2>1 DEF Resting
    <2>2. CASE conn[d] = "active"
        <3>1. state[d] \in Objs /\ state[d] # o
            BY <1>0, <2>2, RecycledGone
        <3>2. \A v \in Workers : arg[v] # d
            <4> SUFFICES ASSUME NEW v \in Workers, arg[v] = d PROVE FALSE
                OBVIOUS
            <4>1. v = x
                BY <1>4
            <4>2. ctx[v] = o /\ pc[v] = "recycle"
                BY <4>1, SetsAssumption DEF Recyclers
            <4> QED
                BY <1>0, <3>1, <4>2 DEF Homed
        <3>3. Resting(d)
            BY <3>2 DEF PhaseInv
        <3> QED
            BY <1>2, <3>1, <3>3, PhaseKept
    <2> QED
        BY <2>1, <2>2
<1> QED
    BY <1>3, <1>4 DEF PhaseInv

(* The steps of a connection, of the peer and of netpoll. *)
LEMMA ConnPhase ==
    ASSUME "lateRequest" \notin Faults, "parallel" \notin Faults,
           LifeInv, Stream, Blank, Alone, PhaseInv, NEW c \in Conns,
           \/ Prepare(c) \/ PeerSend(c) \/ PeerClose(c) \/ Disconnect(c)
           \/ \E w \in Workers : Dispatch(w, c)
    PROVE  PhaseInv'
<1>0. /\ TypeOK /\ Fresh /\ Homed /\ Erased /\ NoUseAfterRelease
      /\ pc \in [Workers -> WorkerPcs] /\ arg \in [Workers -> Conns \cup {None}]
      /\ conn \in [Conns -> ConnStates] /\ state \in [Conns -> Objs \cup {None}]
      /\ readHandler \in [Objs -> BOOLEAN] /\ hijacked \in [Workers -> BOOLEAN]
      /\ \A w \in Workers : pc[w] # "idle" => arg[w] \in Conns /\ state[arg[w]] \in Objs
      /\ \A w \in Workers : pc[w] = "idle" => arg[w] = None
      /\ \A d \in Conns : conn[d] = "active" => state[d] \in Objs
      /\ \A d \in Conns : dpc[d] # "none" => state[d] \in Objs
    BY DEF LifeInv, RefInv, LinkInv, TypeOK, Homed
<1>1. ASSUME NEW v \in Workers, NEW q, NEW g, NEW d \in Conns,
             pc[v] # "idle", pc[v] = q, hijacked[v] = g, arg[v] = d, Kept(d),
             pc'[v] = q, hijacked'[v] = g, arg'[v] = d
      PROVE  PhaseOK(pc[v], hijacked[v], arg[v])'
    <2>1. PhaseOK(q, g, d) /\ state[d] \in Objs
        BY <1>0, <1>1 DEF PhaseInv
    <2>2. PhaseOK(q, g, d)'
        BY <1>1, <2>1, PhaseKept
    <2> QED
        BY <1>1, <2>2 DEF PhaseOK, Resting, Ready, Consumed
<1>2. ASSUME NEW d \in Conns, Kept(d), Resting(d) PROVE Resting(d)'
    <2>1. CASE state[d] \in Objs
        BY <1>2, <2>1, PhaseKept
    <2>2. CASE state[d] \notin Objs
        BY <1>0, <1>2, <2>2 DEF Kept, Resting
    <2> QED
        BY <2>1, <2>2
<1>3. ASSUME UNCHANGED <<pc, hijacked, arg>>,
             UNCHANGED <<read, rw, buffered, state, handled, taken, readHandler>>,
             \A d \in Conns : conn'[d] = "active" => conn[d] = "active"
      PROVE  PhaseInv'
    <2>1. \A d \in Conns : Kept(d)
        BY <1>3, AllKept
    <2>2. ASSUME NEW v \in Workers, pc'[v] # "idle"
          PROVE  PhaseOK(pc[v], hijacked[v], arg[v])'
        BY <1>0, <1>1, <1>3, <2>1, <2>2
    <2>3. ASSUME NEW d \in Conns, \A v \in Workers : arg'[v] # d PROVE Resting(d)'
        BY <1>2, <1>3, <2>1, <2>3 DEF PhaseInv
    <2> QED
        BY <2>2, <2>3 DEF PhaseInv
<1>4. CASE \/ OnPrepareCount(c) \/ OnPrepareReject(c) \/ OnPrepareTimeoutFails(c)
           \/ PeerSend(c) \/ PeerClose(c)
    BY <1>0, <1>3, <1>4
       DEF OnPrepareCount, OnPrepareReject, OnPrepareTimeoutFails, PeerSend, PeerClose,
           netVars, admitVars, streamVars, bufVars, fieldVars, histVars
<1>5. CASE DisconnectCount(c) \/ DisconnectCancel(c) \/ DisconnectRelease(c)
    BY <1>0, <1>3, <1>5
       DEF DisconnectCount, DisconnectCancel, DisconnectRelease,
           netVars, admitVars, streamVars, bufVars, fieldVars, histVars
<1>6. CASE DisconnectRecycle(c)
    <2>1. PICK o \in Objs : state[c] = o
        BY <1>0, <1>6 DEF DisconnectRecycle
    <2>2. /\ c \in Recyclers(o) /\ Recycle(o) /\ c \notin Workers
          /\ UNCHANGED <<pc, arg, hijacked, conn, state, read, handled, taken>>
        BY <1>6, <2>1, SetsAssumption
           DEF DisconnectRecycle, Recyclers, streamVars, admitVars, histVars
    <2> QED
        BY <2>2, RecyclePhase
<1>7. ASSUME NEW o \in Objs, OnPrepareState(c, o) PROVE PhaseInv'
    <2>1. /\ UNCHANGED <<pc, hijacked, arg, read, rw, buffered, handled, taken, readHandler>>
          /\ state' = [state EXCEPT ![c] = o] /\ conn' = [conn EXCEPT ![c] = "active"]
          /\ conn[c] = "preparing" /\ pool[o] > 0
        BY <1>7
           DEF OnPrepareState, NewConnectionState, streamVars, bufVars, fieldVars, histVars
    <2>2. state[c] = None /\ \A v \in Workers : arg[v] # c
        BY <1>0, <2>1, SetsAssumption DEF Fresh
    <2>3. \A d \in Conns \ {c} : Kept(d)
        BY <1>0, <2>1 DEF Kept, Consumed
    <2>4. rw[o] = None
        BY <1>0, <2>1 DEF NoUseAfterRelease, Erased
    <2>5. Resting(c)'
        <3>1. read[c] = 0 /\ handled[c] = << >> /\ ~taken[c]
            BY <2>1 DEF Blank
        <3> QED
            BY <1>0, <2>1, <2>4, <3>1, SetsAssumption DEF Resting, Consumed
    <2>6. ASSUME NEW v \in Workers, pc'[v] # "idle"
          PROVE  PhaseOK(pc[v], hijacked[v], arg[v])'
        BY <1>0, <1>1, <2>1, <2>2, <2>3, <2>6
    <2>7. ASSUME NEW d \in Conns, \A v \in Workers : arg'[v] # d PROVE Resting(d)'
        BY <1>2, <2>1, <2>3, <2>5, <2>7 DEF PhaseInv
    <2> QED
        BY <2>6, <2>7 DEF PhaseInv
<1>8. ASSUME NEW w \in Workers, Dispatch(w, c) PROVE PhaseInv'
    <2>1. /\ UNCHANGED <<read, rw, buffered, state, handled, taken, readHandler, conn, hijacked>>
          /\ pc[w] = "idle" /\ pc' = [pc EXCEPT ![w] = "enter"] /\ arg' = [arg EXCEPT ![w] = c]
          /\ conn[c] = "active" /\ \A v \in Workers : arg[v] # c
        BY <1>8
           DEF Dispatch, netVars, admitVars, streamVars, bufVars, fieldVars, histVars
    <2>2. \A d \in Conns : Kept(d)
        BY <2>1, AllKept
    <2>3. Resting(c)'
        BY <1>2, <2>1, <2>2 DEF PhaseInv
    <2>4. ASSUME NEW v \in Workers, pc'[v] # "idle"
          PROVE  PhaseOK(pc[v], hijacked[v], arg[v])'
        <3>1. CASE v = w
            <4>1. pc'[v] = "enter" /\ arg'[v] = c
                BY <1>0, <2>1, <3>1
            <4> QED
                BY <2>3, <4>1 DEF PhaseOK, Resting, Consumed
        <3>2. CASE v # w
            BY <1>0, <1>1, <2>1, <2>2, <2>4, <3>2
        <3> QED
            BY <3>1, <3>2
    <2>5. ASSUME NEW d \in Conns, \A v \in Workers : arg'[v] # d PROVE Resting(d)'
        <3>1. \A v \in Workers : arg[v] # d
            BY <1>0, <2>1, <2>5, SetsAssumption
        <3> QED
            BY <1>2, <2>2, <3>1 DEF PhaseInv
    <2> QED
        BY <2>4, <2>5 DEF PhaseInv
<1> QED
    BY <1>4, <1>5, <1>6, <1>7, <1>8 DEF Prepare, Disconnect

(* PhaseInv is kept by every step. *)
LEMMA PhaseStep ==
    ASSUME "lateRequest" \notin Faults, "parallel" \notin Faults, "drainTimesOut" \notin Faults,
           LifeInv, Stream, Blank, Alone, PhaseInv, [Next]_vars
    PROVE  PhaseInv'
<1>1. ASSUME NEW w \in Workers, ServeConnRecycle(w) PROVE PhaseInv'
    <2>1. PICK o \in Objs : ctx[w] = o
        BY <1>1 DEF ServeConnRecycle, Goto, LifeInv, RefInv, TypeOK
    <2>2. /\ pc \in [Workers -> WorkerPcs] /\ arg \in [Workers -> Conns \cup {None}]
          /\ hijacked \in [Workers -> BOOLEAN]
        BY DEF LifeInv, RefInv, TypeOK
    <2>3. /\ w \in Recyclers(o) /\ Recycle(o) /\ pc'[w] = "idle"
          /\ UNCHANGED <<conn, state, read, handled, taken>>
          /\ \A v \in Workers \ {w} : /\ pc'[v] = pc[v] /\ arg'[v] = arg[v]
                                      /\ hijacked'[v] = hijacked[v]
        BY <1>1, <2>1, <2>2
           DEF ServeConnRecycle, Goto, Return, Recyclers, netVars, streamVars, admitVars, histVars
    <2> QED
        BY <2>3, RecyclePhase
<1>2. ASSUME UNCHANGED vars PROVE PhaseInv'
    <2>1. UNCHANGED <<pc, hijacked, arg, conn, read, rw, buffered, state, handled, taken, readHandler>>
        BY <1>2 DEF vars, netVars, streamVars, admitVars, bufVars, fieldVars, histVars
    <2> QED
        BY <2>1 DEF PhaseInv, PhaseOK, Resting, Ready, Consumed
<1> QED
    BY <1>1, <1>2, ConnPhase, PassesPhase, ReadsPhase
       DEF Next, ServeConn, serveHTTP, Handler, Hijacker, Passes, Reads, Consumes

-----------------------------------------------------------------------------
(***************************************************************************)
(* The refinement.  InOrder: the i-th request given to the handler starts  *)
(* at the connection's own chunk 2i-1, so the abstract server has served   *)
(* 1, 2, 3, ...  PipeInv is the inductive invariant of the theorem.        *)
(***************************************************************************)
InOrder ==
    \A c \in Conns : \A i \in 1..Len(handled[c]) : handled[c][i] = <<c, 2 * i - 1>>
PipeInv == LifeInv /\ Alone /\ Stream /\ Blank /\ PhaseInv /\ InOrder

(* HandleRequest hands out the next request of its own connection, which    *)
(* nobody has hijacked and whose header has arrived.                        *)
LEMMA HandlesNext ==
    ASSUME PipeInv, NEW w \in Workers, HandleRequest(w), NEW c \in Conns, arg[w] = c
    PROVE  /\ ~taken[c] /\ 2 * Len(handled[c]) + 1 <= sent[c]
           /\ handled' = [handled EXCEPT ![c] = Append(@, <<c, 2 * Len(handled[c]) + 1>>)]
<1>0. /\ read \in [Conns -> Int] /\ buffered \in [Objs -> Int] /\ sent \in [Conns -> Nat]
      /\ handled \in [Conns -> Seq(Conns \X Int)]
    BY DEF PipeInv, LifeInv, RefInv, TypeOK
<1>1. Consumes(w) /\ pc[w] = "request"
    BY DEF Consumes, HandleRequest, Goto
<1>2. PICK o \in Objs : ctx[w] = o /\ rw[o] = c /\ state[c] = o
    BY <1>1, ConsumesOwn DEF PipeInv
<1>3. PICK k \in Nat : /\ k <= sent[c] - read[c]
                       /\ IF buffered[o] > 0 THEN k = 0 ELSE k > 0
    BY <1>1, <1>2, ConsumesOwn DEF PipeInv
<1>4. ~taken[c] /\ Consumed(c) = 2 * Len(handled[c])
    BY <1>1 DEF PipeInv, PhaseInv, PhaseOK
<1>5. Consumed(c) = read[c] - buffered[o]
    BY <1>2 DEF Consumed
<1>6. handled' = [handled EXCEPT ![c] = Append(@, <<c, read[c] - buffered[o] + 1>>)]
    BY <1>2 DEF HandleRequest, Position
<1>7. read[c] - buffered[o] + 1 <= sent[c]
    BY <1>0, <1>2, <1>3 DEF PipeInv, Stream
<1> QED
    BY <1>0, <1>4, <1>5, <1>6, <1>7

(* Every other step leaves what has arrived and what was served alone, and  *)
(* unless it is the handler's own, who is in a handler too.                 *)
Serving(w) == pc[w] = "handler"
Unserved ==
    /\ UNCHANGED <<sent, handled, taken>>
    /\ \A v \in Workers : /\ Serving(v)' <=> Serving(v)
                          /\ Serving(v) => arg'[v] = arg[v]
LEMMA ServesOrNot ==
    ASSUME TypeOK, [Next]_vars
    PROVE  \/ Unserved
           \/ \E c \in Conns : PeerSend(c)
           \/ \E w \in Workers : \/ HandleRequest(w) \/ HandlerHijacks(w)
                                 \/ HandlerFails(w) \/ HandlerReturns(w)
<1>0. pc \in [Workers -> WorkerPcs] /\ arg \in [Workers -> Conns \cup {None}]
    BY DEF TypeOK
<1> USE <1>0 DEF Unserved, Serving, Goto, histVars, streamVars
<1>1. ASSUME NEW c \in Conns, Prepare(c) \/ PeerClose(c) \/ Disconnect(c) PROVE Unserved
    BY <1>1
       DEF Prepare, OnPrepareCount, OnPrepareReject, OnPrepareTimeoutFails, OnPrepareState,
           PeerClose, Disconnect, DisconnectCount, DisconnectCancel, DisconnectRelease,
           DisconnectRecycle
<1>2. ASSUME NEW c \in Conns, NEW w \in Workers, Dispatch(w, c) PROVE Unserved
    BY <1>2 DEF Dispatch
<1>3. ASSUME NEW w \in Workers, ServeConn(w) PROVE Unserved
    BY <1>3
       DEF ServeConn, ServeConnAcquire, ServeConnTryProcess, ServeConnBind,
           ServeConnReadHandler, ServeConnYield, ServeConnRelease, ServeConnRecycle, Return
<1>4. ASSUME NEW w \in Workers, serveHTTP(w), ~HandleRequest(w) PROVE Unserved
    BY <1>4
       DEF serveHTTP, LoopStops, LoopRejects, LoopProceeds, HandleRequestFails, AwaitDone,
           DrainReads, DrainFails, DrainCloses, AfterRequest, DoubleCheck, TryAgain
<1>5. ASSUME NEW w \in Workers, HandlerSetsReadHandler(w) \/ Hijacker(w) PROVE Unserved
    BY <1>5 DEF HandlerSetsReadHandler, Hijacker, HijackerReads, HijackerCloses
<1>6. CASE UNCHANGED vars
    BY <1>6 DEF vars
<1> QED
    BY <1>1, <1>2, <1>3, <1>4, <1>5, <1>6 DEF Next, Handler

(* InOrder is kept: only HandleRequest adds a request, and it adds the next.*)
LEMMA OrderStep ==
    ASSUME PipeInv, [Next]_vars
    PROVE  InOrder'
<1>0. /\ handled \in [Conns -> Seq(Conns \X Int)] /\ TypeOK
      /\ \A w \in Workers : pc[w] # "idle" => arg[w] \in Conns
    BY DEF PipeInv, LifeInv, RefInv, TypeOK
<1>1. ASSUME UNCHANGED handled PROVE InOrder'
    BY <1>1 DEF PipeInv, InOrder
<1>2. ASSUME NEW w \in Workers, HandleRequest(w) PROVE InOrder'
    <2>1. PICK c \in Conns : arg[w] = c
        BY <1>0, <1>2 DEF HandleRequest, Goto
    <2>2. handled' = [handled EXCEPT ![c] = Append(@, <<c, 2 * Len(handled[c]) + 1>>)]
        BY <1>2, <2>1, HandlesNext
    <2>3. \A d \in Conns \ {c} : handled'[d] = handled[d]
        BY <2>2
    <2>4. ASSUME NEW i \in 1..Len(handled'[c]) PROVE handled'[c][i] = <<c, 2 * i - 1>>
        <3>1. /\ handled'[c] = Append(handled[c], <<c, 2 * Len(handled[c]) + 1>>)
              /\ handled[c] \in Seq(Conns \X Int) /\ Len(handled[c]) \in Nat
            BY <1>0, <2>2
        <3>2. CASE i = Len(handled[c]) + 1
            BY <3>1, <3>2
        <3>3. CASE i \in 1..Len(handled[c])
            BY <3>1, <3>3 DEF PipeInv, InOrder
        <3> QED
            BY <2>4, <3>1, <3>2, <3>3
    <2> QED
        BY <2>3, <2>4 DEF PipeInv, InOrder
<1>3. ASSUME NEW c \in Conns, PeerSend(c) PROVE InOrder'
    BY <1>1, <1>3 DEF PeerSend, histVars
<1>4. ASSUME NEW w \in Workers, HandlerHijacks(w) \/ HandlerFails(w) \/ HandlerReturns(w)
      PROVE  InOrder'
    BY <1>1, <1>4 DEF HandlerHijacks, HandlerFails, HandlerReturns, histVars
<1> QED
    BY <1>0, <1>1, <1>2, <1>3, <1>4, ServesOrNot DEF Unserved

LEMMA PipeInit == Init => PipeInv
<1> SUFFICES ASSUME Init PROVE PipeInv
    OBVIOUS
<1>1. LifeInv
    BY LifeInit
<1>2. Alone /\ Stream /\ Blank
    BY SetsAssumption DEF Init, Alone, Stream, Blank
<1>3. PhaseInv
    BY DEF Init, PhaseInv, Resting
<1>4. InOrder
    BY DEF Init, InOrder
<1> QED
    BY <1>1, <1>2, <1>3, <1>4 DEF PipeInv

LEMMA PipeStep ==
    ASSUME "lateRequest" \notin Faults, "parallel" \notin Faults, "drainTimesOut" \notin Faults,
           PipeInv, [Next]_vars
    PROVE  PipeInv'
<1>1. LifeInv'
    BY LifeStep DEF PipeInv
<1>2. Alone'
    BY AloneStep DEF PipeInv, LifeInv, RefInv
<1>3. Stream' /\ Blank'
    BY StreamStep DEF PipeInv
<1>4. PhaseInv'
    BY PhaseStep DEF PipeInv
<1> QED
    BY <1>1, <1>2, <1>3, <1>4, OrderStep DEF PipeInv

(* By InOrder the abstract server has served 1 .. n. *)
LEMMA ServedCounts ==
    ASSUME PipeInv, NEW c \in Conns, NEW n \in Nat, n = Len(handled[c])
    PROVE  Served(c) = [i \in 1..n |-> i]
<1>1. handled[c] \in Seq(Conns \X Int)
    BY DEF PipeInv, LifeInv, RefInv, TypeOK
<1>2. DOMAIN handled[c] = 1..n
    BY <1>1
<1>3. ASSUME NEW i \in 1..n
      PROVE  handled[c][i][1] = c /\ handled[c][i][2] % 2 = 1 /\ (handled[c][i][2] + 1) \div 2 = i
    <2>1. handled[c][i] = <<c, 2 * i - 1>> /\ i \in Int
        BY DEF PipeInv, InOrder
    <2>2. (2 * i - 1) % 2 = 1 /\ (2 * i - 1 + 1) \div 2 = i
        BY <2>1
    <2> QED
        BY <2>1, <2>2
<1> QED
    BY <1>2, <1>3 DEF Served

LEMMA CountUp ==
    ASSUME NEW n \in Nat
    PROVE  /\ Len([i \in 1..n |-> i]) = n
           /\ [i \in 1..(n + 1) |-> i] = Append([i \in 1..n |-> i], n + 1)
<1>1. [i \in 1..n |-> i] \in Seq(Nat) /\ Len([i \in 1..n |-> i]) = n
    OBVIOUS
<1> QED
    BY <1>1

(* A step that leaves the abstract server of one connection alone. *)
Idles(c) ==
    /\ Arrived(c)' = Arrived(c) /\ Served(c)' = Served(c)
    /\ Busy(c)' = Busy(c) /\ taken'[c] = taken[c]

(* What a step does to the abstract servers: nothing, or one operation of   *)
(* one of them.                                                             *)
Arrives(c) ==
    /\ Arrived(c)' = Arrived(c) + 1
    /\ Served(c)' = Served(c) /\ Busy(c)' = Busy(c) /\ taken'[c] = taken[c]
Starts(c) ==
    /\ ~Busy(c) /\ ~taken[c] /\ Len(Served(c)) + 1 <= Arrived(c)
    /\ Served(c)' = Append(Served(c), Len(Served(c)) + 1) /\ Busy(c)' = TRUE
    /\ Arrived(c)' = Arrived(c) /\ taken'[c] = taken[c]
TakesOver(c) ==
    /\ Busy(c) /\ ~taken[c] /\ taken'[c] = TRUE
    /\ Arrived(c)' = Arrived(c) /\ Served(c)' = Served(c) /\ Busy(c)' = Busy(c)
Finishes(c) ==
    /\ Busy(c) /\ Busy(c)' = FALSE
    /\ Arrived(c)' = Arrived(c) /\ Served(c)' = Served(c) /\ taken'[c] = taken[c]
Serves(c) == Arrives(c) \/ Starts(c) \/ TakesOver(c) \/ Finishes(c)

LEMMA ServesEffect ==
    ASSUME PipeInv, PipeInv', [Next]_vars
    PROVE  \/ \A c \in Conns : Idles(c)
           \/ \E c \in Conns : Serves(c) /\ \A d \in Conns \ {c} : Idles(d)
<1>0. /\ TypeOK /\ Alone /\ PhaseInv
      /\ sent \in [Conns -> Nat] /\ taken \in [Conns -> BOOLEAN]
      /\ handled \in [Conns -> Seq(Conns \X Int)] /\ handled' \in [Conns -> Seq(Conns \X Int)]
      /\ pc \in [Workers -> WorkerPcs] /\ arg \in [Workers -> Conns \cup {None}]
      /\ hijacked \in [Workers -> BOOLEAN]
      /\ \A w \in Workers : pc[w] # "idle" => arg[w] \in Conns
    BY DEF PipeInv, LifeInv, RefInv, TypeOK
<1>1. CASE Unserved
    <2>1. ASSUME NEW c \in Conns PROVE Idles(c)
        <3>1. Busy(c)' = Busy(c)
            BY <1>0, <1>1 DEF Unserved, Serving, Busy
        <3> QED
            BY <1>1, <3>1 DEF Idles, Unserved, Arrived, Served
    <2> QED
        BY <2>1
<1>2. ASSUME NEW c \in Conns, PeerSend(c)
      PROVE  (Serves(c) \/ Idles(c)) /\ \A d \in Conns \ {c} : Idles(d)
    <2>1. sent' = [sent EXCEPT ![c] = @ + 1] /\ UNCHANGED <<handled, taken, pc, arg>>
        BY <1>2 DEF PeerSend, histVars
    <2>2. \A d \in Conns : Served(d)' = Served(d) /\ Busy(d)' = Busy(d)
        BY <2>1 DEF Served, Busy
    <2>3. \A d \in Conns \ {c} : Arrived(d)' = Arrived(d)
        BY <1>0, <2>1 DEF Arrived
    <2>4. Arrived(c)' = Arrived(c) \/ Arrived(c)' = Arrived(c) + 1
        <3>1. sent'[c] = sent[c] + 1 /\ sent[c] \in Nat
            BY <1>0, <2>1
        <3> QED
            BY <3>1 DEF Arrived
    <2> QED
        BY <2>1, <2>2, <2>3, <2>4 DEF Idles, Serves, Arrives
<1>3. ASSUME NEW w \in Workers,
             HandleRequest(w) \/ HandlerHijacks(w) \/ HandlerFails(w) \/ HandlerReturns(w)
      PROVE  \E c \in Conns : Serves(c) /\ \A d \in Conns \ {c} : Idles(d)
    <2>1. /\ pc[w] \in {"request", "handler"} /\ UNCHANGED <<arg, sent>>
          /\ \A v \in Workers \ {w} : pc'[v] = pc[v]
        BY <1>0, <1>3
           DEF HandleRequest, HandlerHijacks, HandlerFails, HandlerReturns, Goto, streamVars
    <2>2. PICK c \in Conns : arg[w] = c
        BY <1>0, <2>1
    <2>3. \A v \in Workers : arg[v] = c => v = w
        BY <1>0, <2>1, <2>2 DEF Alone
    <2>4. (Busy(c) <=> pc[w] = "handler") /\ (Busy(c)' <=> pc'[w] = "handler")
        BY <2>1, <2>2, <2>3 DEF Busy
    <2>11. pc' = pc => Busy(c)' = Busy(c)
        BY <2>1 DEF Busy
    <2>5. \A d \in Conns : Arrived(d)' = Arrived(d)
        BY <2>1 DEF Arrived
    <2>6. \A d \in Conns \ {c} : Busy(d)' = Busy(d)
        BY <2>1, <2>2 DEF Busy
    <2>7. PhaseOK(pc[w], hijacked[w], c)
        BY <1>0, <2>1, <2>2 DEF PhaseInv
    <2>8. CASE HandleRequest(w)
        <3>1. PICK n \in Nat : n = Len(handled[c])
            BY <1>0
        <3>2. /\ ~taken[c] /\ 2 * n + 1 <= sent[c] /\ taken' = taken
              /\ handled' = [handled EXCEPT ![c] = Append(@, <<c, 2 * n + 1>>)]
            BY <2>2, <2>8, <3>1, HandlesNext DEF HandleRequest
        <3>3. handled'[c] = Append(handled[c], <<c, 2 * n + 1>>)
              /\ \A d \in Conns \ {c} : handled'[d] = handled[d]
            BY <1>0, <3>2
        <3>4. Len(handled'[c]) = n + 1
            BY <1>0, <3>1, <3>3
        <3>5. Served(c) = [i \in 1..n |-> i]
            BY <3>1, ServedCounts
        <3>6. Served(c)' = [i \in 1..(n + 1) |-> i]
            <4>1. \A i \in 1..(n + 1) : handled'[c][i] = <<c, 2 * i - 1>>
                BY <3>4 DEF PipeInv, InOrder
            <4>2. DOMAIN handled'[c] = 1..(n + 1)
                BY <1>0, <3>4
            <4>3. ASSUME NEW i \in 1..(n + 1)
                  PROVE  /\ handled'[c][i][1] = c /\ handled'[c][i][2] % 2 = 1
                         /\ (handled'[c][i][2] + 1) \div 2 = i
                <5>1. handled'[c][i] = <<c, 2 * i - 1>> /\ i \in Int
                    BY <4>1
                <5>2. (2 * i - 1) % 2 = 1 /\ (2 * i - 1 + 1) \div 2 = i
                    BY <5>1
                <5> QED
                    BY <5>1, <5>2
            <4> QED
                BY <4>2, <4>3 DEF Served
        <3>7. Len(Served(c)) = n /\ Served(c)' = Append(Served(c), n + 1)
            BY <3>5, <3>6, CountUp
        <3>8. n + 1 <= Arrived(c)
            <4>1. sent[c] \in Nat
                BY <1>0
            <4> QED
                BY <3>2, <4>1 DEF Arrived
        <3>9. pc[w] = "request" /\ pc'[w] = "handler"
            BY <1>0, <2>8 DEF HandleRequest, Goto
        <3>10. Serves(c)
            BY <2>4, <2>5, <3>2, <3>7, <3>8, <3>9 DEF Serves, Starts
        <3>11. ASSUME NEW d \in Conns \ {c} PROVE Idles(d)
            <4>1. Served(d)' = Served(d)
                BY <3>3 DEF Served
            <4> QED
                BY <2>5, <2>6, <3>2, <4>1 DEF Idles
        <3> QED
            BY <3>10, <3>11
    <2>9. CASE HandlerHijacks(w)
        <3>1. /\ pc[w] = "handler" /\ ~hijacked[w] /\ UNCHANGED <<handled, pc>>
              /\ taken' = [taken EXCEPT ![c] = TRUE]
            BY <2>2, <2>9 DEF HandlerHijacks
        <3>2. ~taken[c]
            BY <2>7, <3>1 DEF PhaseOK
        <3>3. \A d \in Conns : Served(d)' = Served(d)
            BY <3>1 DEF Served
        <3>4. Serves(c)
            BY <1>0, <2>4, <2>5, <2>11, <3>1, <3>2, <3>3 DEF Serves, TakesOver
        <3>5. \A d \in Conns \ {c} : Idles(d)
            BY <1>0, <2>5, <2>6, <3>1, <3>3 DEF Idles
        <3> QED
            BY <3>4, <3>5
    <2>10. CASE HandlerFails(w) \/ HandlerReturns(w)
        <3>1. pc[w] = "handler" /\ pc'[w] # "handler" /\ UNCHANGED <<handled, taken>>
            BY <1>0, <2>10 DEF HandlerFails, HandlerReturns, Goto, histVars
        <3>2. \A d \in Conns : Served(d)' = Served(d)
            BY <3>1 DEF Served
        <3>3. Serves(c)
            BY <2>4, <2>5, <3>1, <3>2 DEF Serves, Finishes
        <3>4. \A d \in Conns \ {c} : Idles(d)
            BY <2>5, <2>6, <3>1, <3>2 DEF Idles
        <3> QED
            BY <3>3, <3>4
    <2> QED
        BY <1>3, <2>8, <2>9, <2>10
<1> QED
    BY <1>0, <1>1, <1>2, <1>3, ServesOrNot

(* The callbacks of a connection serve its requests like one sequential     *)
(* server: each once, in order and from its first byte, however they were   *)
(* cut into reads, and none after a handler has hijacked the connection.    *)
(* This is the refinement of HttpPipeline, for every instance in which      *)
(* netpoll runs one callback per connection at a time, none after           *)
(* OnDisconnect, and the body of a request is drained before the deadline.  *)
THEOREM PipelineRefined ==
    ASSUME "lateRequest" \notin Faults, "parallel" \notin Faults, "drainTimesOut" \notin Faults
    PROVE  Spec => ServesInSequence
<1>1. PipeInv /\ [Next]_vars => PipeInv'
    BY PipeStep
<1>2. Init => Pipeline!Init
    <2> SUFFICES ASSUME Init PROVE Pipeline!Init
        OBVIOUS
    <2>1. ASSUME NEW c \in Conns
          PROVE  /\ Arrived(c) = 0 /\ Served(c) = << >> /\ Busy(c) = FALSE
                 /\ taken[c] = FALSE
        <3>1. Served(c) = << >>
            BY DEF Init, Served
        <3> QED
            BY <3>1 DEF Init, Arrived, Busy
    <2>2. taken = [c \in Conns |-> FALSE]
        BY DEF Init
    <2> QED
        BY <2>1, <2>2 DEF Pipeline!Init
<1>3. ASSUME PipeInv, PipeInv', [Next]_vars PROVE [Pipeline!Next]_(Pipeline!vars)
    <2>0. taken \in [Conns -> BOOLEAN] /\ taken' \in [Conns -> BOOLEAN]
        BY <1>3 DEF PipeInv, LifeInv, RefInv, TypeOK
    <2>1. CASE \A c \in Conns : Idles(c)
        BY <2>0, <2>1 DEF Idles, Pipeline!vars
    <2>2. ASSUME NEW c \in Conns, Serves(c), \A d \in Conns \ {c} : Idles(d)
          PROVE  Pipeline!Next
        <3> DEFINE arrived == [d \in Conns |-> Arrived(d)]
                   served == [d \in Conns |-> Served(d)]
                   busy == [d \in Conns |-> Busy(d)]
        <3>1. /\ arrived' = [arrived EXCEPT ![c] = Arrived(c)']
              /\ arrived[c] = Arrived(c) /\ (Arrived(c)' = Arrived(c) => arrived' = arrived)
            BY <2>2 DEF Idles
        <3>2. /\ served' = [served EXCEPT ![c] = Served(c)']
              /\ served[c] = Served(c) /\ (Served(c)' = Served(c) => served' = served)
            BY <2>2 DEF Idles
        <3>3. /\ busy' = [busy EXCEPT ![c] = Busy(c)']
              /\ busy[c] = Busy(c) /\ (Busy(c)' = Busy(c) => busy' = busy)
            BY <2>2, Zenon DEF Idles
        <3>4. /\ taken' = [taken EXCEPT ![c] = taken'[c]]
              /\ (taken'[c] = taken[c] => taken' = taken)
            BY <2>0, <2>2 DEF Idles
        <3>5. ASSUME Arrives(c) PROVE Pipeline!Arrive(c)
            BY <3>1, <3>2, <3>3, <3>4, <3>5 DEF Arrives, Pipeline!Arrive
        <3>6. ASSUME Starts(c) PROVE Pipeline!Serve(c)
            BY <3>1, <3>2, <3>3, <3>4, <3>6 DEF Starts, Pipeline!Serve
        <3>7. ASSUME TakesOver(c) PROVE Pipeline!TakeOver(c)
            BY <3>1, <3>2, <3>3, <3>4, <3>7 DEF TakesOver, Pipeline!TakeOver
        <3>8. ASSUME Finishes(c) PROVE Pipeline!Finish(c)
            BY <3>1, <3>2, <3>3, <3>4, <3>8 DEF Finishes, Pipeline!Finish
        <3> QED
            BY <2>2, <3>5, <3>6, <3>7, <3>8 DEF Serves, Pipeline!Next
    <2> QED
        BY <1>3, <2>1, <2>2, ServesEffect
<1> QED
    BY <1>1, <1>2, <1>3, PipeInit, PTL DEF Spec, ServesInSequence, Pipeline!Spec
=============================================================================
