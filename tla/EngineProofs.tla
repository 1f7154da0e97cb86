---------------------------- MODULE EngineProofs ----------------------------
(* Machine-checked theorems about the specification of module Engine. *)
EXTENDS Engine, FiniteSetTheorems, TLAPS

(* Reading a chunk keeps the stream counters integers. *)
LEMMA ConsumeTypes ==
    ASSUME TypeOK, NEW o \in Objs, ConsumeChunk(o)
    PROVE  /\ rw[o] \in Conns
           /\ read' \in [Conns -> Int]
           /\ buffered' \in [Objs -> Int]
<1>1. PICK k \in Chunks :
          /\ read' = [read EXCEPT ![rw[o]] = @ + k]
          /\ buffered' = [buffered EXCEPT ![o] = @ + k - 1]
    BY DEF ConsumeChunk
<1>2. k \in Int /\ rw[o] \in Conns
    BY ParameterAssumption DEF Chunks, ConsumeChunk, TypeOK
<1> QED
    BY <1>1, <1>2 DEF TypeOK

(* Every action keeps every variable in its type, and a worker that is not  *)
(* idle keeps a connection and a ConnectionState.                           *)
LEMMA TypeStep ==
    TypeOK /\ [Next]_vars => TypeOK'
<1> SUFFICES ASSUME TypeOK, [Next]_vars PROVE TypeOK'
    OBVIOUS
<1> USE SetsAssumption, ParameterAssumption
<1> USE DEF TypeOK, ConnStates, DisconnectPcs, WorkerPcs, Goto, netVars, streamVars,
            admitVars, ctlVars, bufVars, fieldVars, histVars
<1>1. ASSUME NEW c \in Conns, OnPrepareCount(c) PROVE TypeOK'
    BY <1>1 DEF OnPrepareCount
<1>2. ASSUME NEW c \in Conns, OnPrepareReject(c) PROVE TypeOK'
    BY <1>2 DEF OnPrepareReject
<1>3. ASSUME NEW c \in Conns, OnPrepareTimeoutFails(c) PROVE TypeOK'
    BY <1>3 DEF OnPrepareTimeoutFails
<1>4. ASSUME NEW c \in Conns, PeerSend(c) PROVE TypeOK'
    <2>1. sent' \in [Conns -> Nat]
        BY <1>4 DEF PeerSend
    <2> QED
        BY <1>4, <2>1 DEF PeerSend
<1>5. ASSUME NEW c \in Conns, PeerClose(c) PROVE TypeOK'
    BY <1>5 DEF PeerClose
<1>6. ASSUME NEW c \in Conns, DisconnectCount(c) PROVE TypeOK'
    BY <1>6 DEF DisconnectCount
<1>7. ASSUME NEW c \in Conns, DisconnectCancel(c) PROVE TypeOK'
    BY <1>7 DEF DisconnectCancel
<1>8. ASSUME NEW c \in Conns, DisconnectRelease(c) PROVE TypeOK'
    BY <1>8 DEF DisconnectRelease, Decrement
<1>9. ASSUME NEW c \in Conns, DisconnectRecycle(c) PROVE TypeOK'
    BY <1>9 DEF DisconnectRecycle, Recycle
<1>10. ASSUME NEW c \in Conns, NEW o \in Objs, OnPrepareState(c, o) PROVE TypeOK'
    BY <1>10 DEF OnPrepareState, NewConnectionState
<1>11. ASSUME NEW c \in Conns, NEW w \in Workers, Dispatch(w, c) PROVE TypeOK'
    BY <1>11 DEF Dispatch
<1>12. ASSUME NEW w \in Workers, ServeConnAcquire(w) PROVE TypeOK'
    <2>1. refCount' \in [Objs -> Int]
        BY <1>12 DEF ServeConnAcquire
    <2> QED
        BY <1>12, <2>1 DEF ServeConnAcquire
<1>13. ASSUME NEW w \in Workers, ServeConnTryProcess(w) PROVE TypeOK'
    BY <1>13 DEF ServeConnTryProcess
<1>14. ASSUME NEW w \in Workers, ServeConnBind(w) PROVE TypeOK'
    BY <1>14 DEF ServeConnBind
<1>15. ASSUME NEW w \in Workers, ServeConnReadHandler(w) PROVE TypeOK'
    <2>1. /\ read' \in [Conns -> Int]
          /\ buffered' \in [Objs -> Int]
        BY <1>15 DEF ServeConnReadHandler
    <2>2. CASE UNCHANGED netVars
        BY <1>15, <2>1, <2>2 DEF ServeConnReadHandler
    <2>3. CASE CloseConn(arg[w])
        BY <1>15, <2>1, <2>3 DEF ServeConnReadHandler, CloseConn
    <2> QED
        BY <1>15, <2>2, <2>3 DEF ServeConnReadHandler
<1>16. ASSUME NEW w \in Workers, ServeConnYield(w) PROVE TypeOK'
    BY <1>16 DEF ServeConnYield
<1>17. ASSUME NEW w \in Workers, ServeConnRelease(w) PROVE TypeOK'
    <2>1. refCount' \in [Objs -> Int]
        BY <1>17 DEF ServeConnRelease, Decrement
    <2>2. CASE refCount[ctx[w]] = 1
        BY <1>17, <2>1, <2>2 DEF ServeConnRelease
    <2>3. CASE refCount[ctx[w]] # 1
        BY <1>17, <2>1, <2>3 DEF ServeConnRelease, Return
    <2> QED
        BY <2>2, <2>3
<1>18. ASSUME NEW w \in Workers, ServeConnRecycle(w) PROVE TypeOK'
    BY <1>18 DEF ServeConnRecycle, Recycle, Return
<1>19. ASSUME NEW w \in Workers, LoopStops(w) PROVE TypeOK'
    BY <1>19 DEF LoopStops
<1>20. ASSUME NEW w \in Workers, LoopRejects(w) PROVE TypeOK'
    BY <1>20 DEF LoopRejects, CloseConn
<1>21. ASSUME NEW w \in Workers, LoopProceeds(w) PROVE TypeOK'
    BY <1>21 DEF LoopProceeds
<1>22. ASSUME NEW w \in Workers, HandleRequest(w) PROVE TypeOK'
    <2>1. /\ read' \in [Conns -> Int]
          /\ buffered' \in [Objs -> Int]
          /\ rw[ctx[w]] \in Conns
        BY <1>22, ConsumeTypes DEF HandleRequest
    <2>2. <<rw[ctx[w]], Position(ctx[w]) + 1>> \in Conns \X Int
        BY <1>22, <2>1 DEF HandleRequest, Position
    <2>3. handled' \in [Conns -> Seq(Conns \X Int)]
        BY <1>22, <2>2 DEF HandleRequest
    <2> QED
        BY <1>22, <2>1, <2>3 DEF HandleRequest
<1>23. ASSUME NEW w \in Workers, HandleRequestFails(w) PROVE TypeOK'
    BY <1>23 DEF HandleRequestFails, CloseConn
<1>24. ASSUME NEW w \in Workers, AwaitDone(w) PROVE TypeOK'
    BY <1>24 DEF AwaitDone
<1>25. ASSUME NEW w \in Workers, DrainReads(w) PROVE TypeOK'
    <2>1. /\ read' \in [Conns -> Int]
          /\ buffered' \in [Objs -> Int]
        BY <1>25, ConsumeTypes DEF DrainReads
    <2> QED
        BY <1>25, <2>1 DEF DrainReads
<1>26. ASSUME NEW w \in Workers, DrainFails(w) PROVE TypeOK'
    BY <1>26 DEF DrainFails
<1>27. ASSUME NEW w \in Workers, DrainCloses(w) PROVE TypeOK'
    BY <1>27 DEF DrainCloses, CloseConn
<1>28. ASSUME NEW w \in Workers, AfterRequest(w) PROVE TypeOK'
    BY <1>28 DEF AfterRequest
<1>29. ASSUME NEW w \in Workers, DoubleCheck(w) PROVE TypeOK'
    BY <1>29 DEF DoubleCheck
<1>30. ASSUME NEW w \in Workers, TryAgain(w) PROVE TypeOK'
    BY <1>30 DEF TryAgain
<1>31. ASSUME NEW w \in Workers, HandlerHijacks(w) PROVE TypeOK'
    BY <1>31 DEF HandlerHijacks
<1>32. ASSUME NEW w \in Workers, HandlerSetsReadHandler(w) PROVE TypeOK'
    BY <1>32 DEF HandlerSetsReadHandler
<1>33. ASSUME NEW w \in Workers, HandlerFails(w) PROVE TypeOK'
    BY <1>33 DEF HandlerFails, CloseConn
<1>34. ASSUME NEW w \in Workers, HandlerReturns(w) PROVE TypeOK'
    BY <1>34 DEF HandlerReturns
<1>35. ASSUME NEW w \in Workers, HijackerReads(w) PROVE TypeOK'
    <2>1. /\ read' \in [Conns -> Int]
          /\ buffered' \in [Objs -> Int]
        BY <1>35, ConsumeTypes DEF HijackerReads
    <2> QED
        BY <1>35, <2>1 DEF HijackerReads
<1>36. ASSUME NEW w \in Workers, HijackerCloses(w) PROVE TypeOK'
    BY <1>36 DEF HijackerCloses, CloseConn
<1>37. CASE UNCHANGED vars
    BY <1>37 DEF vars
<1> QED
    BY <1>1, <1>2, <1>3, <1>4, <1>5, <1>6, <1>7, <1>8, <1>9, <1>10, <1>11, <1>12, <1>13, <1>14, <1>15, <1>16, <1>17, <1>18, <1>19, <1>20, <1>21, <1>22, <1>23, <1>24, <1>25, <1>26, <1>27, <1>28, <1>29, <1>30, <1>31, <1>32, <1>33, <1>34, <1>35, <1>36, <1>37
       DEF Next, Prepare, Disconnect, ServeConn, serveHTTP, Handler, Hijacker

(* Type correctness for any number of connections, objects and goroutines,  *)
(* under every combination of faults.                                       *)
THEOREM TypeCorrect == Spec => []TypeOK
<1>1. Init => TypeOK
    BY SetsAssumption, ParameterAssumption
       DEF Init, TypeOK, ConnStates, DisconnectPcs, WorkerPcs
<1> QED
    BY <1>1, TypeStep, PTL DEF Spec

-----------------------------------------------------------------------------
(***************************************************************************)
(* Reference counting.  RefCountExact and NoUseAfterRelease support each   *)
(* other (an object is recycled only at count zero, and is taken from the  *)
(* pool only when nobody holds it), but they are not inductive: a callback *)
(* that netpoll has started and that has not yet called Acquire holds no   *)
(* reference.  What protects it is the reference of its connection, which  *)
(* is what Entering adds; Fresh and Linked tie a connection's progress to  *)
(* its state and to its OnDisconnect.                                      *)
(***************************************************************************)
Fresh ==
    \A c \in Conns :
        conn[c] \in {"idle", "overLimit", "preparing", "rejected"}
            => state[c] = None /\ dpc[c] = "none"
Linked ==
    \A c \in Conns : conn[c] = "active" => dpc[c] = "none"
Entering ==
    \A w \in Workers :
        pc[w] = "enter"
            => state[arg[w]] = ctx[w] /\ dpc[arg[w]] \in {"none", "due"}
LinkInv == Fresh /\ Linked /\ Entering
RefInv == TypeOK /\ LinkInv /\ RefCountExact /\ NoUseAfterRelease

(* Unless a callback can still be on its way when OnDisconnect runs, the    *)
(* link between callbacks, connections and states is kept by every action.  *)
LEMMA LinkStep ==
    ASSUME "lateRequest" \notin Faults, TypeOK, LinkInv, [Next]_vars
    PROVE  LinkInv'
<1>0. /\ conn \in [Conns -> ConnStates] /\ dpc \in [Conns -> DisconnectPcs]
      /\ state \in [Conns -> Objs \cup {None}]
      /\ pc \in [Workers -> WorkerPcs]
      /\ arg \in [Workers -> Conns \cup {None}]
      /\ ctx \in [Workers -> Objs \cup {None}]
      /\ \A w \in Workers : pc[w] # "idle" => arg[w] \in Conns /\ ctx[w] \in Objs
    BY DEF TypeOK
<1> USE <1>0, SetsAssumption
<1> USE DEF LinkInv, Fresh, Linked, Entering, Goto, netVars, admitVars
<1>1. ASSUME NEW c \in Conns, OnPrepareCount(c) PROVE LinkInv'
    BY <1>1 DEF OnPrepareCount
<1>2. ASSUME NEW c \in Conns, OnPrepareReject(c) PROVE LinkInv'
    BY <1>2 DEF OnPrepareReject
<1>3. ASSUME NEW c \in Conns, OnPrepareTimeoutFails(c) PROVE LinkInv'
    BY <1>3 DEF OnPrepareTimeoutFails
<1>4. ASSUME NEW c \in Conns, PeerSend(c) PROVE LinkInv'
    BY <1>4 DEF PeerSend
<1>5. ASSUME NEW c \in Conns, PeerClose(c) PROVE LinkInv'
    BY <1>5 DEF PeerClose
<1>6. ASSUME NEW c \in Conns, DisconnectCount(c) PROVE LinkInv'
    BY <1>6 DEF DisconnectCount, CallbacksEntered
<1>7. ASSUME NEW c \in Conns, DisconnectCancel(c) PROVE LinkInv'
    BY <1>7 DEF DisconnectCancel
<1>8. ASSUME NEW c \in Conns, DisconnectRelease(c) PROVE LinkInv'
    BY <1>8 DEF DisconnectRelease
<1>9. ASSUME NEW c \in Conns, DisconnectRecycle(c) PROVE LinkInv'
    BY <1>9 DEF DisconnectRecycle
<1>10. ASSUME NEW c \in Conns, NEW o \in Objs, OnPrepareState(c, o) PROVE LinkInv'
    BY <1>10 DEF OnPrepareState
<1>11. ASSUME NEW c \in Conns, NEW w \in Workers, Dispatch(w, c) PROVE LinkInv'
    BY <1>11 DEF Dispatch
<1>12. ASSUME NEW w \in Workers, ServeConnTryProcess(w) PROVE LinkInv'
    BY <1>12 DEF ServeConnTryProcess
<1>13. ASSUME NEW w \in Workers, ServeConnBind(w) PROVE LinkInv'
    BY <1>13 DEF ServeConnBind
<1>14. ASSUME NEW w \in Workers, ServeConnReadHandler(w) PROVE LinkInv'
    BY <1>14 DEF ServeConnReadHandler, CloseConn
<1>15. ASSUME NEW w \in Workers, ServeConnYield(w) PROVE LinkInv'
    BY <1>15 DEF ServeConnYield
<1>16. ASSUME NEW w \in Workers, LoopStops(w) PROVE LinkInv'
    BY <1>16 DEF LoopStops
<1>17. ASSUME NEW w \in Workers, LoopRejects(w) PROVE LinkInv'
    BY <1>17 DEF LoopRejects, CloseConn
<1>18. ASSUME NEW w \in Workers, LoopProceeds(w) PROVE LinkInv'
    BY <1>18 DEF LoopProceeds
<1>19. ASSUME NEW w \in Workers, HandleRequest(w) PROVE LinkInv'
    BY <1>19 DEF HandleRequest
<1>20. ASSUME NEW w \in Workers, HandleRequestFails(w) PROVE LinkInv'
    BY <1>20 DEF HandleRequestFails, CloseConn
<1>21. ASSUME NEW w \in Workers, AwaitDone(w) PROVE LinkInv'
    BY <1>21 DEF AwaitDone
<1>22. ASSUME NEW w \in Workers, DrainReads(w) PROVE LinkInv'
    BY <1>22 DEF DrainReads
<1>23. ASSUME NEW w \in Workers, DrainFails(w) PROVE LinkInv'
    BY <1>23 DEF DrainFails
<1>24. ASSUME NEW w \in Workers, DrainCloses(w) PROVE LinkInv'
    BY <1>24 DEF DrainCloses, CloseConn
<1>25. ASSUME NEW w \in Workers, AfterRequest(w) PROVE LinkInv'
    BY <1>25 DEF AfterRequest
<1>26. ASSUME NEW w \in Workers, DoubleCheck(w) PROVE LinkInv'
    BY <1>26 DEF DoubleCheck
<1>27. ASSUME NEW w \in Workers, TryAgain(w) PROVE LinkInv'
    BY <1>27 DEF TryAgain
<1>28. ASSUME NEW w \in Workers, HandlerHijacks(w) PROVE LinkInv'
    BY <1>28 DEF HandlerHijacks
<1>29. ASSUME NEW w \in Workers, HandlerSetsReadHandler(w) PROVE LinkInv'
    BY <1>29 DEF HandlerSetsReadHandler
<1>30. ASSUME NEW w \in Workers, HandlerFails(w) PROVE LinkInv'
    BY <1>30 DEF HandlerFails, CloseConn
<1>31. ASSUME NEW w \in Workers, HandlerReturns(w) PROVE LinkInv'
    BY <1>31 DEF HandlerReturns
<1>32. ASSUME NEW w \in Workers, HijackerReads(w) PROVE LinkInv'
    BY <1>32 DEF HijackerReads
<1>33. ASSUME NEW w \in Workers, HijackerCloses(w) PROVE LinkInv'
    BY <1>33 DEF HijackerCloses, CloseConn
<1>34. ASSUME NEW w \in Workers, ServeConnAcquire(w) PROVE LinkInv'
    BY <1>34 DEF ServeConnAcquire
<1>35. ASSUME NEW w \in Workers, ServeConnRelease(w) PROVE LinkInv'
    BY <1>35 DEF ServeConnRelease, Return
<1>36. ASSUME NEW w \in Workers, ServeConnRecycle(w) PROVE LinkInv'
    BY <1>36 DEF ServeConnRecycle, Return
<1>37. CASE UNCHANGED vars
    BY <1>37 DEF vars
<1> QED
    BY <1>1, <1>2, <1>3, <1>4, <1>5, <1>6, <1>7, <1>8, <1>9, <1>10, <1>11, <1>12, <1>13, <1>14, <1>15, <1>16, <1>17, <1>18, <1>19, <1>20, <1>21, <1>22, <1>23, <1>24, <1>25, <1>26, <1>27, <1>28, <1>29, <1>30, <1>31, <1>32, <1>33, <1>34, <1>35, <1>36, <1>37
       DEF Next, Prepare, Disconnect, ServeConn, serveHTTP, Handler, Hijacker

(* A step that changes no holder, no recycler, no count and no pool *)
Quiet ==
    /\ refCount' = refCount /\ pool' = pool
    /\ \A o \in Objs : /\ WorkersHolding(o)' = WorkersHolding(o)
                       /\ ConnsHolding(o)' = ConnsHolding(o)
                       /\ Recyclers(o)' = Recyclers(o)

(* A step that moves no reference keeps the reference counting invariant.   *)
LEMMA QuietStep ==
    ASSUME RefCountExact, NoUseAfterRelease, Quiet
    PROVE  RefCountExact' /\ NoUseAfterRelease'
<1>1. RefCountExact'
    BY Zenon DEF RefCountExact, Quiet
<1>2. NoUseAfterRelease'
    BY Zenon DEF NoUseAfterRelease, Quiet
<1> QED
    BY <1>1, <1>2

(* All actions but these six are quiet: OnPrepareState, ServeConnAcquire,   *)
(* and the Release and Recycle steps of a callback and of OnDisconnect.     *)
QuietConn(c) ==
    \/ OnPrepareCount(c)
    \/ OnPrepareReject(c)
    \/ OnPrepareTimeoutFails(c)
    \/ PeerSend(c)
    \/ PeerClose(c)
    \/ DisconnectCount(c)
    \/ DisconnectCancel(c)
    \/ \E w \in Workers : Dispatch(w, c)

(* The steps of netpoll, OnPrepare's limiter and OnDisconnect's count and   *)
(* cancel move no reference.                                                *)
LEMMA QuietConns ==
    ASSUME TypeOK, Linked, NEW c \in Conns, QuietConn(c)
    PROVE  Quiet
<1>0. /\ conn \in [Conns -> ConnStates] /\ dpc \in [Conns -> DisconnectPcs]
      /\ state \in [Conns -> Objs \cup {None}]
      /\ pc \in [Workers -> WorkerPcs]
      /\ ctx \in [Workers -> Objs \cup {None}]
    BY DEF TypeOK
<1> USE <1>0
<1> USE DEF Linked, Quiet, WorkersHolding, ConnsHolding, Recyclers, HoldingPcs,
            DisconnectPcs, WorkerPcs, Goto, netVars, admitVars, ctlVars
<1>1. CASE OnPrepareCount(c)
    BY <1>1 DEF OnPrepareCount
<1>2. CASE OnPrepareReject(c)
    BY <1>2 DEF OnPrepareReject
<1>3. CASE OnPrepareTimeoutFails(c)
    BY <1>3 DEF OnPrepareTimeoutFails
<1>4. CASE PeerSend(c)
    BY <1>4 DEF PeerSend
<1>5. CASE PeerClose(c)
    BY <1>5 DEF PeerClose
<1>6. CASE DisconnectCount(c)
    BY <1>6 DEF DisconnectCount
<1>7. CASE DisconnectCancel(c)
    BY <1>7 DEF DisconnectCancel
<1>8. ASSUME NEW w \in Workers, Dispatch(w, c) PROVE Quiet
    BY <1>8 DEF Dispatch
<1> QED
    BY <1>1, <1>2, <1>3, <1>4, <1>5, <1>6, <1>7, <1>8 DEF QuietConn

QuietWorker(w) ==
    \/ ServeConnTryProcess(w)
    \/ ServeConnBind(w)
    \/ ServeConnReadHandler(w)
    \/ ServeConnYield(w)
    \/ LoopStops(w)
    \/ LoopRejects(w)
    \/ LoopProceeds(w)
    \/ HandleRequest(w)
    \/ HandleRequestFails(w)
    \/ AwaitDone(w)
    \/ DrainReads(w)
    \/ DrainFails(w)
    \/ DrainCloses(w)
    \/ AfterRequest(w)
    \/ DoubleCheck(w)
    \/ TryAgain(w)
    \/ HandlerHijacks(w)
    \/ HandlerSetsReadHandler(w)
    \/ HandlerFails(w)
    \/ HandlerReturns(w)
    \/ HijackerReads(w)
    \/ HijackerCloses(w)

(* Between Acquire and Release, ServeConn, serveHTTP and the handler move   *)
(* no reference.                                                            *)
LEMMA QuietWorkers ==
    ASSUME TypeOK, Linked, NEW w \in Workers, QuietWorker(w)
    PROVE  Quiet
<1>0. /\ conn \in [Conns -> ConnStates] /\ dpc \in [Conns -> DisconnectPcs]
      /\ state \in [Conns -> Objs \cup {None}]
      /\ pc \in [Workers -> WorkerPcs]
      /\ ctx \in [Workers -> Objs \cup {None}]
    BY DEF TypeOK
<1> USE <1>0
<1> USE DEF Linked, Quiet, WorkersHolding, ConnsHolding, Recyclers, HoldingPcs,
            DisconnectPcs, WorkerPcs, Goto, netVars, admitVars, ctlVars
<1>1. CASE ServeConnTryProcess(w)
    BY <1>1 DEF ServeConnTryProcess
<1>2. CASE ServeConnBind(w)
    BY <1>2 DEF ServeConnBind
<1>3. CASE ServeConnReadHandler(w)
    BY <1>3 DEF ServeConnReadHandler, CloseConn
<1>4. CASE ServeConnYield(w)
    BY <1>4 DEF ServeConnYield
<1>5. CASE LoopStops(w)
    BY <1>5 DEF LoopStops
<1>6. CASE LoopRejects(w)
    BY <1>6 DEF LoopRejects, CloseConn
<1>7. CASE LoopProceeds(w)
    BY <1>7 DEF LoopProceeds
<1>8. CASE HandleRequest(w)
    BY <1>8 DEF HandleRequest
<1>9. CASE HandleRequestFails(w)
    BY <1>9 DEF HandleRequestFails, CloseConn
<1>10. CASE AwaitDone(w)
    BY <1>10 DEF AwaitDone
<1>11. CASE DrainReads(w)
    BY <1>11 DEF DrainReads
<1>12. CASE DrainFails(w)
    BY <1>12 DEF DrainFails
<1>13. CASE DrainCloses(w)
    BY <1>13 DEF DrainCloses, CloseConn
<1>14. CASE AfterRequest(w)
    BY <1>14 DEF AfterRequest
<1>15. CASE DoubleCheck(w)
    BY <1>15 DEF DoubleCheck
<1>16. CASE TryAgain(w)
    BY <1>16 DEF TryAgain
<1>17. CASE HandlerHijacks(w)
    BY <1>17 DEF HandlerHijacks
<1>18. CASE HandlerSetsReadHandler(w)
    BY <1>18 DEF HandlerSetsReadHandler
<1>19. CASE HandlerFails(w)
    BY <1>19 DEF HandlerFails, CloseConn
<1>20. CASE HandlerReturns(w)
    BY <1>20 DEF HandlerReturns
<1>21. CASE HijackerReads(w)
    BY <1>21 DEF HijackerReads
<1>22. CASE HijackerCloses(w)
    BY <1>22 DEF HijackerCloses, CloseConn
<1> QED
    BY <1>1, <1>2, <1>3, <1>4, <1>5, <1>6, <1>7, <1>8, <1>9, <1>10, <1>11, <1>12, <1>13, <1>14, <1>15, <1>16, <1>17, <1>18, <1>19, <1>20, <1>21, <1>22 DEF QuietWorker

(* The holders of an object are finitely many. *)
LEMMA HoldersFinite ==
    ASSUME NEW o \in Objs
    PROVE  /\ IsFiniteSet(WorkersHolding(o)) /\ Cardinality(WorkersHolding(o)) \in Nat
           /\ IsFiniteSet(ConnsHolding(o)) /\ Cardinality(ConnsHolding(o)) \in Nat
<1>1. IsFiniteSet(WorkersHolding(o)) /\ IsFiniteSet(ConnsHolding(o))
    <2>1. WorkersHolding(o) \in SUBSET Workers /\ ConnsHolding(o) \in SUBSET Conns
        BY DEF WorkersHolding, ConnsHolding
    <2> QED
        BY <2>1, FS_Subset, SetsAssumption
<1> QED
    BY <1>1, FS_CardinalityType

(* Removing the last of two sets of holders leaves both empty. *)
LEMMA LastHolder ==
    ASSUME NEW S, NEW T, IsFiniteSet(S), IsFiniteSet(T), NEW x \in S,
           Cardinality(S) + Cardinality(T) = 1
    PROVE  S \ {x} = {} /\ T = {}
<1>1. /\ Cardinality(S) \in Nat /\ Cardinality(T) \in Nat
      /\ IsFiniteSet(S \ {x}) /\ Cardinality(S \ {x}) = Cardinality(S) - 1
    BY FS_CardinalityType, FS_RemoveElement
<1>2. Cardinality(S \ {x}) \in Nat
    BY <1>1, FS_CardinalityType
<1>3. Cardinality(S \ {x}) = 0 /\ Cardinality(T) = 0
    BY <1>1, <1>2
<1> QED
    BY <1>1, <1>3, FS_EmptySet

(* NewConnectionState: the object comes out of the pool with no holder and  *)
(* gets one, the connection.                                                *)
LEMMA PrepareStep ==
    ASSUME TypeOK, Fresh, RefCountExact, NoUseAfterRelease,
           NEW c \in Conns, NEW o \in Objs, OnPrepareState(c, o)
    PROVE  RefCountExact' /\ NoUseAfterRelease'
<1>0. /\ conn \in [Conns -> ConnStates] /\ dpc \in [Conns -> DisconnectPcs]
      /\ state \in [Conns -> Objs \cup {None}]
      /\ refCount \in [Objs -> Int] /\ pool \in [Objs -> Int]
    BY DEF TypeOK
<1>1. state[c] = None /\ dpc[c] = "none"
    BY DEF OnPrepareState, Fresh
<1>2. pool[o] = 1 /\ Recyclers(o) = {} /\ WorkersHolding(o) = {} /\ ConnsHolding(o) = {}
    BY DEF OnPrepareState, NewConnectionState, NoUseAfterRelease
<1>3. /\ WorkersHolding(o)' = {} /\ ConnsHolding(o)' = {c} /\ Recyclers(o)' = {}
    BY <1>0, <1>1, <1>2
       DEF OnPrepareState, WorkersHolding, ConnsHolding, Recyclers
<1>4. ASSUME NEW p \in Objs, p # o
      PROVE  /\ WorkersHolding(p)' = WorkersHolding(p)
             /\ ConnsHolding(p)' = ConnsHolding(p)
             /\ Recyclers(p)' = Recyclers(p)
    BY <1>0, <1>1, <1>4, SetsAssumption
       DEF OnPrepareState, WorkersHolding, ConnsHolding, Recyclers
<1>5. /\ refCount' = [refCount EXCEPT ![o] = 1]
      /\ pool' = [pool EXCEPT ![o] = @ - 1]
    BY DEF OnPrepareState, NewConnectionState
<1>6. RefCountExact'
    <2>1. refCount'[o] = Cardinality(WorkersHolding(o)') + Cardinality(ConnsHolding(o)')
        BY <1>0, <1>3, <1>5, FS_Singleton, FS_EmptySet
    <2>2. ASSUME NEW p \in Objs, p # o
          PROVE  refCount'[p] = Cardinality(WorkersHolding(p)') + Cardinality(ConnsHolding(p)')
        BY <1>0, <1>4, <1>5, <2>2 DEF RefCountExact
    <2> QED
        BY <2>1, <2>2 DEF RefCountExact
<1>7. NoUseAfterRelease'
    BY <1>0, <1>2, <1>3, <1>4, <1>5 DEF NoUseAfterRelease
<1> QED
    BY <1>6, <1>7

(* What an Acquire does: one more holder of an object that has one. *)
LEMMA AcquireStep ==
    ASSUME TypeOK, LinkInv, RefCountExact, NoUseAfterRelease,
           NEW w \in Workers, NEW o \in Objs, ctx[w] = o, ServeConnAcquire(w)
    PROVE  RefCountExact' /\ NoUseAfterRelease'
<1>0. /\ pc \in [Workers -> WorkerPcs] /\ dpc \in [Conns -> DisconnectPcs]
      /\ refCount \in [Objs -> Int]
      /\ arg[w] \in Conns
    BY DEF TypeOK, ServeConnAcquire, Goto
<1>1. arg[w] \in ConnsHolding(o)
    BY <1>0 DEF LinkInv, Entering, ConnsHolding, ServeConnAcquire, Goto
<1>2. pool[o] = 0 /\ Recyclers(o) = {}
    BY <1>0, <1>1 DEF NoUseAfterRelease
<1>3. /\ w \notin WorkersHolding(o)
      /\ WorkersHolding(o)' = WorkersHolding(o) \cup {w}
    BY <1>0 DEF ServeConnAcquire, Goto, WorkersHolding, HoldingPcs, WorkerPcs
<1>4. ASSUME NEW p \in Objs
      PROVE  /\ p # o => WorkersHolding(p)' = WorkersHolding(p)
             /\ ConnsHolding(p)' = ConnsHolding(p)
             /\ Recyclers(p)' = Recyclers(p)
    BY <1>0
       DEF ServeConnAcquire, Goto, WorkersHolding, ConnsHolding, Recyclers, HoldingPcs,
           WorkerPcs, netVars, admitVars
<1>5. refCount' = [refCount EXCEPT ![o] = @ + 1] /\ pool' = pool
    BY DEF ServeConnAcquire
<1>6. RefCountExact'
    <2>1. refCount'[o] = Cardinality(WorkersHolding(o)') + Cardinality(ConnsHolding(o)')
        <3>1. /\ Cardinality(WorkersHolding(o)) \in Nat /\ Cardinality(ConnsHolding(o)) \in Nat
              /\ IsFiniteSet(WorkersHolding(o))
              /\ refCount[o] = Cardinality(WorkersHolding(o)) + Cardinality(ConnsHolding(o))
            BY HoldersFinite DEF RefCountExact
        <3>2. Cardinality(WorkersHolding(o)') = Cardinality(WorkersHolding(o)) + 1
            BY <1>3, <3>1, FS_AddElement
        <3> QED
            BY <1>0, <1>4, <1>5, <3>1, <3>2
    <2>2. ASSUME NEW p \in Objs, p # o
          PROVE  refCount'[p] = Cardinality(WorkersHolding(p)') + Cardinality(ConnsHolding(p)')
        BY <1>0, <1>4, <1>5, <2>2 DEF RefCountExact
    <2> QED
        BY <2>1, <2>2 DEF RefCountExact
<1>7. NoUseAfterRelease'
    <2>1. ASSUME NEW p \in Objs, p # o
          PROVE  /\ pool'[p] \in {0, 1}
                 /\ pool'[p] = 1 => Recyclers(p)' = {}
                 /\ \A x, y \in Recyclers(p)' : x = y
                 /\ pool'[p] = 1 \/ Recyclers(p)' # {}
                       => WorkersHolding(p)' = {} /\ ConnsHolding(p)' = {}
        BY <1>4, <1>5, <2>1 DEF NoUseAfterRelease
    <2>2. pool'[o] = 0 /\ Recyclers(o)' = {}
        BY <1>0, <1>2, <1>4, <1>5
    <2> QED
        BY <2>1, <2>2 DEF NoUseAfterRelease
<1> QED
    BY <1>6, <1>7

(* What a Release does, by a callback or by OnDisconnect: the holder x      *)
(* leaves, and becomes the object's only recycler if it was the last.       *)
LEMMA ReleaseStep ==
    ASSUME TypeOK, RefCountExact, NoUseAfterRelease, NEW o \in Objs, NEW x,
           refCount' = [refCount EXCEPT ![o] = @ - 1], pool' = pool,
           \/ /\ x \in WorkersHolding(o) /\ WorkersHolding(o)' = WorkersHolding(o) \ {x}
              /\ ConnsHolding(o)' = ConnsHolding(o)
           \/ /\ x \in ConnsHolding(o) /\ ConnsHolding(o)' = ConnsHolding(o) \ {x}
              /\ WorkersHolding(o)' = WorkersHolding(o),
           Recyclers(o)' = IF refCount[o] = 1 THEN Recyclers(o) \cup {x} ELSE Recyclers(o),
           \A p \in Objs \ {o} : /\ WorkersHolding(p)' = WorkersHolding(p)
                                 /\ ConnsHolding(p)' = ConnsHolding(p)
                                 /\ Recyclers(p)' = Recyclers(p)
    PROVE  RefCountExact' /\ NoUseAfterRelease'
<1>0. refCount \in [Objs -> Int]
    BY DEF TypeOK
<1>1. /\ IsFiniteSet(WorkersHolding(o)) /\ Cardinality(WorkersHolding(o)) \in Nat
      /\ IsFiniteSet(ConnsHolding(o)) /\ Cardinality(ConnsHolding(o)) \in Nat
      /\ refCount[o] = Cardinality(WorkersHolding(o)) + Cardinality(ConnsHolding(o))
    BY HoldersFinite DEF RefCountExact
<1>2. RefCountExact'
    <2>1. refCount'[o] = Cardinality(WorkersHolding(o)') + Cardinality(ConnsHolding(o)')
        <3>1. CASE /\ x \in WorkersHolding(o)
                   /\ WorkersHolding(o)' = WorkersHolding(o) \ {x}
                   /\ ConnsHolding(o)' = ConnsHolding(o)
            <4>1. Cardinality(WorkersHolding(o) \ {x}) = Cardinality(WorkersHolding(o)) - 1
                BY <1>1, <3>1, FS_RemoveElement
            <4> QED
                BY <1>0, <1>1, <3>1, <4>1
        <3>2. CASE /\ x \in ConnsHolding(o)
                   /\ ConnsHolding(o)' = ConnsHolding(o) \ {x}
                   /\ WorkersHolding(o)' = WorkersHolding(o)
            <4>1. Cardinality(ConnsHolding(o) \ {x}) = Cardinality(ConnsHolding(o)) - 1
                BY <1>1, <3>2, FS_RemoveElement
            <4> QED
                BY <1>0, <1>1, <3>2, <4>1
        <3> QED
            BY <3>1, <3>2
    <2>2. ASSUME NEW p \in Objs, p # o
          PROVE  refCount'[p] = Cardinality(WorkersHolding(p)') + Cardinality(ConnsHolding(p)')
        BY <1>0, <2>2 DEF RefCountExact
    <2> QED
        BY <2>1, <2>2 DEF RefCountExact
<1>3. pool[o] = 0 /\ Recyclers(o) = {}
    BY DEF NoUseAfterRelease
<1>4. refCount[o] = 1 => WorkersHolding(o)' = {} /\ ConnsHolding(o)' = {}
    BY <1>1, LastHolder
<1>5. /\ pool'[o] = 0
      /\ \A y, z \in Recyclers(o)' : y = z
      /\ Recyclers(o)' # {} => WorkersHolding(o)' = {} /\ ConnsHolding(o)' = {}
    BY <1>3, <1>4
<1>6. ASSUME NEW p \in Objs, p # o
      PROVE  /\ pool'[p] \in {0, 1}
             /\ pool'[p] = 1 => Recyclers(p)' = {}
             /\ \A y, z \in Recyclers(p)' : y = z
             /\ pool'[p] = 1 \/ Recyclers(p)' # {}
                   => WorkersHolding(p)' = {} /\ ConnsHolding(p)' = {}
    BY <1>6 DEF NoUseAfterRelease
<1>7. NoUseAfterRelease'
    BY <1>5, <1>6 DEF NoUseAfterRelease
<1> QED
    BY <1>2, <1>7

(* ReleaseConnectionState in OnDisconnect keeps the invariant.              *)
LEMMA DisconnectReleaseStep ==
    ASSUME TypeOK, RefCountExact, NoUseAfterRelease,
           NEW c \in Conns, NEW o \in Objs, state[c] = o, DisconnectRelease(c)
    PROVE  RefCountExact' /\ NoUseAfterRelease'
<1>0. dpc \in [Conns -> DisconnectPcs] /\ state \in [Conns -> Objs \cup {None}]
    BY DEF TypeOK
<1>1. refCount' = [refCount EXCEPT ![o] = @ - 1] /\ pool' = pool
    BY DEF DisconnectRelease, Decrement
<1>2. /\ c \in ConnsHolding(o) /\ ConnsHolding(o)' = ConnsHolding(o) \ {c}
      /\ WorkersHolding(o)' = WorkersHolding(o)
    BY <1>0 DEF DisconnectRelease, ConnsHolding, WorkersHolding, DisconnectPcs, admitVars
<1>3. Recyclers(o)' = IF refCount[o] = 1 THEN Recyclers(o) \cup {c} ELSE Recyclers(o)
    BY <1>0 DEF DisconnectRelease, Recyclers, DisconnectPcs, admitVars
<1>4. \A p \in Objs \ {o} : /\ WorkersHolding(p)' = WorkersHolding(p)
                            /\ ConnsHolding(p)' = ConnsHolding(p)
                            /\ Recyclers(p)' = Recyclers(p)
    BY <1>0
       DEF DisconnectRelease, ConnsHolding, WorkersHolding, Recyclers, DisconnectPcs, admitVars
<1> QED
    BY <1>1, <1>2, <1>3, <1>4, ReleaseStep

(* The deferred ReleaseConnectionState of ServeConn keeps the invariant.    *)
LEMMA ServeConnReleaseStep ==
    ASSUME TypeOK, RefCountExact, NoUseAfterRelease,
           NEW w \in Workers, NEW o \in Objs, ctx[w] = o, ServeConnRelease(w)
    PROVE  RefCountExact' /\ NoUseAfterRelease'
<1>0. pc \in [Workers -> WorkerPcs] /\ ctx \in [Workers -> Objs \cup {None}]
    BY DEF TypeOK
<1>1. refCount' = [refCount EXCEPT ![o] = @ - 1] /\ pool' = pool
    BY DEF ServeConnRelease, Decrement
<1>2. /\ pc[w] = "release"
      /\ pc' = [pc EXCEPT ![w] = IF refCount[o] = 1 THEN "recycle" ELSE "idle"]
      /\ ctx' = IF refCount[o] = 1 THEN ctx ELSE [ctx EXCEPT ![w] = None]
      /\ state' = state /\ dpc' = dpc
    BY DEF ServeConnRelease, Goto, Return, netVars, admitVars
<1>3. /\ w \in WorkersHolding(o) /\ WorkersHolding(o)' = WorkersHolding(o) \ {w}
      /\ ConnsHolding(o)' = ConnsHolding(o)
    BY <1>0, <1>2 DEF ConnsHolding, WorkersHolding, HoldingPcs, WorkerPcs
<1>4. Recyclers(o)' = IF refCount[o] = 1 THEN Recyclers(o) \cup {w} ELSE Recyclers(o)
    BY <1>0, <1>2, SetsAssumption DEF Recyclers
<1>5. \A p \in Objs \ {o} : /\ WorkersHolding(p)' = WorkersHolding(p)
                            /\ ConnsHolding(p)' = ConnsHolding(p)
                            /\ Recyclers(p)' = Recyclers(p)
    BY <1>0, <1>2, SetsAssumption
       DEF ConnsHolding, WorkersHolding, Recyclers, HoldingPcs, WorkerPcs
<1> QED
    BY <1>1, <1>3, <1>4, <1>5, ReleaseStep

(* What a Recycle does: the only recycler of an object without holders puts *)
(* it into the pool.                                                        *)
LEMMA RecycleStep ==
    ASSUME TypeOK, RefCountExact, NoUseAfterRelease, NEW o \in Objs, NEW x \in Recyclers(o),
           Recycle(o), Recyclers(o)' = Recyclers(o) \ {x},
           \A p \in Objs : /\ WorkersHolding(p)' = WorkersHolding(p)
                           /\ ConnsHolding(p)' = ConnsHolding(p)
                           /\ p # o => Recyclers(p)' = Recyclers(p)
    PROVE  RefCountExact' /\ NoUseAfterRelease'
<1>0. refCount \in [Objs -> Int] /\ pool \in [Objs -> Int]
    BY DEF TypeOK
<1>1. /\ pool[o] = 0 /\ WorkersHolding(o) = {} /\ ConnsHolding(o) = {}
      /\ Recyclers(o)' = {}
    BY DEF NoUseAfterRelease
<1>2. /\ refCount' = [refCount EXCEPT ![o] = 0]
      /\ pool' = [pool EXCEPT ![o] = @ + 1]
    BY DEF Recycle
<1>3. RefCountExact'
    <2>1. refCount'[o] = Cardinality(WorkersHolding(o)') + Cardinality(ConnsHolding(o)')
        BY <1>0, <1>1, <1>2, FS_EmptySet
    <2>2. ASSUME NEW p \in Objs, p # o
          PROVE  refCount'[p] = Cardinality(WorkersHolding(p)') + Cardinality(ConnsHolding(p)')
        BY <1>0, <1>2, <2>2 DEF RefCountExact
    <2> QED
        BY <2>1, <2>2 DEF RefCountExact
<1>4. NoUseAfterRelease'
    <2>1. /\ pool'[o] = 1 /\ Recyclers(o)' = {}
          /\ WorkersHolding(o)' = {} /\ ConnsHolding(o)' = {}
        BY <1>0, <1>1, <1>2
    <2>2. ASSUME NEW p \in Objs, p # o
          PROVE  /\ pool'[p] \in {0, 1}
                 /\ pool'[p] = 1 => Recyclers(p)' = {}
                 /\ \A y, z \in Recyclers(p)' : y = z
                 /\ pool'[p] = 1 \/ Recyclers(p)' # {}
                       => WorkersHolding(p)' = {} /\ ConnsHolding(p)' = {}
        BY <1>0, <1>2, <2>2 DEF NoUseAfterRelease
    <2> QED
        BY <2>1, <2>2 DEF NoUseAfterRelease
<1> QED
    BY <1>3, <1>4

(* Reset and the Put that follow in OnDisconnect keep the invariant.        *)
LEMMA DisconnectRecycleStep ==
    ASSUME TypeOK, RefCountExact, NoUseAfterRelease,
           NEW c \in Conns, NEW o \in Objs, state[c] = o, DisconnectRecycle(c)
    PROVE  RefCountExact' /\ NoUseAfterRelease'
<1>0. dpc \in [Conns -> DisconnectPcs] /\ state \in [Conns -> Objs \cup {None}]
    BY DEF TypeOK
<1>1. c \in Recyclers(o) /\ Recyclers(o)' = Recyclers(o) \ {c} /\ Recycle(o)
    BY <1>0, SetsAssumption DEF DisconnectRecycle, Recyclers, DisconnectPcs, admitVars
<1>2. \A p \in Objs : /\ WorkersHolding(p)' = WorkersHolding(p)
                      /\ ConnsHolding(p)' = ConnsHolding(p)
                      /\ p # o => Recyclers(p)' = Recyclers(p)
    BY <1>0
       DEF DisconnectRecycle, ConnsHolding, WorkersHolding, Recyclers, DisconnectPcs, admitVars
<1> QED
    BY <1>1, <1>2, RecycleStep

(* Reset and the Put that follow in ServeConn keep the invariant.           *)
LEMMA ServeConnRecycleStep ==
    ASSUME TypeOK, RefCountExact, NoUseAfterRelease,
           NEW w \in Workers, NEW o \in Objs, ctx[w] = o, ServeConnRecycle(w)
    PROVE  RefCountExact' /\ NoUseAfterRelease'
<1>0. pc \in [Workers -> WorkerPcs] /\ ctx \in [Workers -> Objs \cup {None}]
    BY DEF TypeOK
<1>1. /\ pc[w] = "recycle" /\ pc' = [pc EXCEPT ![w] = "idle"]
      /\ ctx' = [ctx EXCEPT ![w] = None] /\ state' = state /\ dpc' = dpc /\ Recycle(o)
    BY DEF ServeConnRecycle, Goto, Return, netVars, admitVars
<1>2. w \in Recyclers(o) /\ Recyclers(o)' = Recyclers(o) \ {w}
    BY <1>0, <1>1, SetsAssumption DEF Recyclers
<1>3. \A p \in Objs : /\ WorkersHolding(p)' = WorkersHolding(p)
                      /\ ConnsHolding(p)' = ConnsHolding(p)
                      /\ p # o => Recyclers(p)' = Recyclers(p)
    BY <1>0, <1>1, SetsAssumption
       DEF ConnsHolding, WorkersHolding, Recyclers, HoldingPcs, WorkerPcs
<1> QED
    BY <1>1, <1>2, <1>3, RecycleStep

(* RefInv is inductive: Entering gives every Acquire the connection's own   *)
(* reference, so an object with a callback on its way is never recycled.    *)
LEMMA RefStep ==
    ASSUME "lateRequest" \notin Faults, RefInv, [Next]_vars
    PROVE  RefInv'
<1>1. TypeOK' /\ LinkInv'
    BY TypeStep, LinkStep DEF RefInv
<1>2. TypeOK /\ LinkInv /\ Fresh /\ Linked /\ RefCountExact /\ NoUseAfterRelease
    BY DEF RefInv, LinkInv
<1>3. /\ \A w \in Workers : pc[w] # "idle" => ctx[w] \in Objs
      /\ \A c \in Conns : dpc[c] # "none" => state[c] \in Objs
    BY <1>2 DEF TypeOK
<1>4. ASSUME NEW c \in Conns, QuietConn(c) PROVE RefCountExact' /\ NoUseAfterRelease'
    BY <1>2, <1>4, QuietConns, QuietStep
<1>5. ASSUME NEW w \in Workers, QuietWorker(w) PROVE RefCountExact' /\ NoUseAfterRelease'
    BY <1>2, <1>5, QuietWorkers, QuietStep
<1>6. ASSUME NEW c \in Conns, NEW o \in Objs, OnPrepareState(c, o)
      PROVE  RefCountExact' /\ NoUseAfterRelease'
    BY <1>2, <1>6, PrepareStep
<1>7. ASSUME NEW w \in Workers, ServeConnAcquire(w)
      PROVE  RefCountExact' /\ NoUseAfterRelease'
    BY <1>2, <1>3, <1>7, AcquireStep DEF ServeConnAcquire, Goto
<1>8. ASSUME NEW w \in Workers, ServeConnRelease(w)
      PROVE  RefCountExact' /\ NoUseAfterRelease'
    BY <1>2, <1>3, <1>8, ServeConnReleaseStep DEF ServeConnRelease, Goto
<1>9. ASSUME NEW w \in Workers, ServeConnRecycle(w)
      PROVE  RefCountExact' /\ NoUseAfterRelease'
    BY <1>2, <1>3, <1>9, ServeConnRecycleStep DEF ServeConnRecycle, Goto
<1>10. ASSUME NEW c \in Conns, DisconnectRelease(c)
       PROVE  RefCountExact' /\ NoUseAfterRelease'
    BY <1>2, <1>3, <1>10, DisconnectReleaseStep DEF DisconnectRelease
<1>11. ASSUME NEW c \in Conns, DisconnectRecycle(c)
       PROVE  RefCountExact' /\ NoUseAfterRelease'
    BY <1>2, <1>3, <1>11, DisconnectRecycleStep DEF DisconnectRecycle
<1>12. ASSUME UNCHANGED vars PROVE RefCountExact' /\ NoUseAfterRelease'
    <2>1. Quiet
        BY <1>12
           DEF vars, netVars, admitVars, ctlVars, Quiet, WorkersHolding, ConnsHolding, Recyclers
    <2> QED
        BY <1>2, <2>1, QuietStep
<1>13. RefCountExact' /\ NoUseAfterRelease'
    BY <1>4, <1>5, <1>6, <1>7, <1>8, <1>9, <1>10, <1>11, <1>12
       DEF Next, Prepare, Disconnect, ServeConn, serveHTTP, Handler, Hijacker,
           QuietConn, QuietWorker
<1> QED
    BY <1>1, <1>13 DEF RefInv

(* At the start every object is in the pool once and nobody holds one.      *)
LEMMA RefInit == Init => RefInv
<1> SUFFICES ASSUME Init PROVE RefInv
    OBVIOUS
<1>1. TypeOK
    BY SetsAssumption, ParameterAssumption
       DEF Init, TypeOK, ConnStates, DisconnectPcs, WorkerPcs
<1>2. LinkInv
    BY DEF Init, LinkInv, Fresh, Linked, Entering
<1>3. ASSUME NEW o \in Objs
      PROVE  WorkersHolding(o) = {} /\ ConnsHolding(o) = {} /\ Recyclers(o) = {}
    BY SetsAssumption DEF Init, WorkersHolding, ConnsHolding, Recyclers
<1>4. RefCountExact
    <2>1. ASSUME NEW o \in Objs
          PROVE  Cardinality(WorkersHolding(o)) = 0 /\ Cardinality(ConnsHolding(o)) = 0
        BY <1>3, FS_EmptySet
    <2> QED
        BY <2>1 DEF Init, RefCountExact
<1>5. NoUseAfterRelease
    BY <1>3 DEF Init, NoUseAfterRelease
<1> QED
    BY <1>1, <1>2, <1>4, <1>5 DEF RefInv

(* refCount is the number of goroutines and connections that hold the state *)
(* at every moment, for any number of connections, objects and callbacks,   *)
(* provided netpoll orders OnDisconnect after the callbacks it has started. *)
THEOREM RefCountCorrect ==
    ASSUME "lateRequest" \notin Faults
    PROVE  Spec => []RefCountExact
<1>1. RefInv /\ [Next]_vars => RefInv'
    BY RefStep
<1>2. RefInv => RefCountExact
    BY DEF RefInv
<1> QED
    BY <1>1, <1>2, RefInit, PTL DEF Spec

(* Under the same condition no state is used after it was released: Reset   *)
(* and the pool meet no user of the object, and it is never pooled twice.   *)
THEOREM ReleaseCorrect ==
    ASSUME "lateRequest" \notin Faults
    PROVE  Spec => []NoUseAfterRelease
<1>1. RefInv /\ [Next]_vars => RefInv'
    BY RefStep
<1>2. RefInv => NoUseAfterRelease
    BY DEF RefInv
<1> QED
    BY <1>1, <1>2, RefInit, PTL DEF Spec

-----------------------------------------------------------------------------
(***************************************************************************)
(* Processing as a lock.  Its owner has set it, and only Reset could clear *)
(* it behind the owner's back: NoUseAfterRelease excludes that.            *)
(***************************************************************************)
OwnerSet ==
    \A w \in Workers : pc[w] \in OwnerPcs => processing[ctx[w]]
LockInv == OwnerSet /\ MutualExclusion

(* LockInv is inductive: whoever is in the processing section has set       *)
(* Processing, and the compare-and-swap lets nobody in while it is set.     *)
LEMMA LockStep ==
    ASSUME TypeOK, NoUseAfterRelease, LockInv, [Next]_vars
    PROVE  LockInv'
<1>0. /\ pc \in [Workers -> WorkerPcs]
      /\ ctx \in [Workers -> Objs \cup {None}]
      /\ processing \in [Objs -> BOOLEAN]
      /\ \A w \in Workers : pc[w] # "idle" => ctx[w] \in Objs
      /\ \A c \in Conns : dpc[c] # "none" => state[c] \in Objs
    BY DEF TypeOK
<1>A. \A o \in Objs : Recyclers(o) # {} => \A w \in Workers : ctx[w] = o => pc[w] \notin OwnerPcs
    BY <1>0 DEF NoUseAfterRelease, WorkersHolding, HoldingPcs, WorkerPcs, OwnerPcs
<1> USE <1>0
<1> USE DEF LockInv, OwnerSet, MutualExclusion, OwnerPcs, Goto
<1>1. ASSUME NEW c \in Conns, OnPrepareCount(c) PROVE LockInv'
    BY <1>1 DEF OnPrepareCount
<1>2. ASSUME NEW c \in Conns, OnPrepareReject(c) PROVE LockInv'
    BY <1>2 DEF OnPrepareReject
<1>3. ASSUME NEW c \in Conns, OnPrepareTimeoutFails(c) PROVE LockInv'
    BY <1>3 DEF OnPrepareTimeoutFails
<1>4. ASSUME NEW c \in Conns, PeerSend(c) PROVE LockInv'
    BY <1>4 DEF PeerSend
<1>5. ASSUME NEW c \in Conns, PeerClose(c) PROVE LockInv'
    BY <1>5 DEF PeerClose
<1>6. ASSUME NEW c \in Conns, DisconnectCount(c) PROVE LockInv'
    BY <1>6 DEF DisconnectCount
<1>7. ASSUME NEW c \in Conns, DisconnectCancel(c) PROVE LockInv'
    BY <1>7 DEF DisconnectCancel
<1>8. ASSUME NEW c \in Conns, DisconnectRelease(c) PROVE LockInv'
    BY <1>8 DEF DisconnectRelease
<1>9. ASSUME NEW c \in Conns, NEW o \in Objs, OnPrepareState(c, o) PROVE LockInv'
    BY <1>9 DEF OnPrepareState
<1>10. ASSUME NEW c \in Conns, NEW w \in Workers, Dispatch(w, c) PROVE LockInv'
    BY <1>10 DEF Dispatch
<1>11. ASSUME NEW c \in Conns, DisconnectRecycle(c) PROVE LockInv'
    <2>1. Recyclers(state[c]) # {} /\ state[c] \in Objs
        BY <1>11 DEF DisconnectRecycle, Recyclers
    <2> QED
        BY <1>11, <1>A, <2>1 DEF DisconnectRecycle, Recycle
<1>12. ASSUME NEW w \in Workers, ServeConnRecycle(w) PROVE LockInv'
    <2>1. Recyclers(ctx[w]) # {} /\ ctx[w] \in Objs
        BY <1>12 DEF ServeConnRecycle, Recyclers
    <2> QED
        BY <1>12, <1>A, <2>1 DEF ServeConnRecycle, Recycle, Return
<1>13. ASSUME NEW w \in Workers, ServeConnTryProcess(w) PROVE LockInv'
    BY <1>13 DEF ServeConnTryProcess
<1>14. ASSUME NEW w \in Workers, ServeConnBind(w) PROVE LockInv'
    BY <1>14 DEF ServeConnBind
<1>15. ASSUME NEW w \in Workers, ServeConnReadHandler(w) PROVE LockInv'
    BY <1>15 DEF ServeConnReadHandler
<1>16. ASSUME NEW w \in Workers, ServeConnYield(w) PROVE LockInv'
    BY <1>16 DEF ServeConnYield
<1>17. ASSUME NEW w \in Workers, LoopStops(w) PROVE LockInv'
    BY <1>17 DEF LoopStops
<1>18. ASSUME NEW w \in Workers, LoopRejects(w) PROVE LockInv'
    BY <1>18 DEF LoopRejects
<1>19. ASSUME NEW w \in Workers, LoopProceeds(w) PROVE LockInv'
    BY <1>19 DEF LoopProceeds
<1>20. ASSUME NEW w \in Workers, HandleRequest(w) PROVE LockInv'
    BY <1>20 DEF HandleRequest
<1>21. ASSUME NEW w \in Workers, HandleRequestFails(w) PROVE LockInv'
    BY <1>21 DEF HandleRequestFails
<1>22. ASSUME NEW w \in Workers, AwaitDone(w) PROVE LockInv'
    BY <1>22 DEF AwaitDone
<1>23. ASSUME NEW w \in Workers, DrainReads(w) PROVE LockInv'
    BY <1>23 DEF DrainReads
<1>24. ASSUME NEW w \in Workers, DrainFails(w) PROVE LockInv'
    BY <1>24 DEF DrainFails
<1>25. ASSUME NEW w \in Workers, DrainCloses(w) PROVE LockInv'
    BY <1>25 DEF DrainCloses
<1>26. ASSUME NEW w \in Workers, AfterRequest(w) PROVE LockInv'
    BY <1>26 DEF AfterRequest
<1>27. ASSUME NEW w \in Workers, DoubleCheck(w) PROVE LockInv'
    BY <1>27 DEF DoubleCheck
<1>28. ASSUME NEW w \in Workers, TryAgain(w) PROVE LockInv'
    BY <1>28 DEF TryAgain
<1>29. ASSUME NEW w \in Workers, HandlerHijacks(w) PROVE LockInv'
    BY <1>29 DEF HandlerHijacks
<1>30. ASSUME NEW w \in Workers, HandlerSetsReadHandler(w) PROVE LockInv'
    BY <1>30 DEF HandlerSetsReadHandler
<1>31. ASSUME NEW w \in Workers, HandlerFails(w) PROVE LockInv'
    BY <1>31 DEF HandlerFails
<1>32. ASSUME NEW w \in Workers, HandlerReturns(w) PROVE LockInv'
    BY <1>32 DEF HandlerReturns
<1>33. ASSUME NEW w \in Workers, HijackerReads(w) PROVE LockInv'
    BY <1>33 DEF HijackerReads
<1>34. ASSUME NEW w \in Workers, HijackerCloses(w) PROVE LockInv'
    BY <1>34 DEF HijackerCloses
<1>35. ASSUME NEW w \in Workers, ServeConnAcquire(w) PROVE LockInv'
    BY <1>35 DEF ServeConnAcquire
<1>36. ASSUME NEW w \in Workers, ServeConnRelease(w) PROVE LockInv'
    BY <1>36 DEF ServeConnRelease, Return
<1>37. CASE UNCHANGED vars
    BY <1>37 DEF vars
<1> QED
    BY <1>1, <1>2, <1>3, <1>4, <1>5, <1>6, <1>7, <1>8, <1>9, <1>10, <1>11, <1>12, <1>13, <1>14, <1>15, <1>16, <1>17, <1>18, <1>19, <1>20, <1>21, <1>22, <1>23, <1>24, <1>25, <1>26, <1>27, <1>28, <1>29, <1>30, <1>31, <1>32, <1>33, <1>34, <1>35, <1>36, <1>37
       DEF Next, Prepare, Disconnect, ServeConn, serveHTTP, Handler, Hijacker

(* At most one callback per ConnectionState is in its processing section,   *)
(* for any number of callbacks, even when netpoll starts several on one     *)
(* connection at a time, and across reuse of the object.                    *)
THEOREM ProcessingExclusive ==
    ASSUME "lateRequest" \notin Faults
    PROVE  Spec => []MutualExclusion
<1>1. Init => LockInv
    BY DEF Init, LockInv, OwnerSet, MutualExclusion, OwnerPcs
<1>2. RefInv /\ LockInv /\ [Next]_vars => RefInv' /\ LockInv'
    BY RefStep, LockStep DEF RefInv
<1>3. LockInv => MutualExclusion
    BY DEF LockInv
<1> QED
    BY <1>1, <1>2, <1>3, RefInit, PTL DEF Spec

(****************************************************************************)
(* The connection limiter: connsCount and what OnPrepare and OnDisconnect   *)
(* make of it.                                                              *)
(****************************************************************************)

(* What the callbacks and the application do to a connection: nothing, or   *)
(* they close it.  Everything else is OnPrepare, OnDisconnect or the peer.  *)
Untouched == UNCHANGED <<conn, dpc, state, connsCount>>
Closes(c) == CloseConn(c) /\ UNCHANGED <<state, connsCount>>

(* A callback, a handler or a hijacker at most closes its connection.       *)
LEMMA WorkerEffect ==
    ASSUME TypeOK, NEW w \in Workers,
           ServeConn(w) \/ serveHTTP(w) \/ Handler(w) \/ Hijacker(w)
    PROVE  Untouched \/ (arg[w] \in Conns /\ Closes(arg[w]))
<1>0. pc[w] # "idle" => arg[w] \in Conns
    BY DEF TypeOK
<1> USE DEF Untouched, Closes, Goto, netVars, admitVars
<1>1. CASE ServeConn(w)
    BY <1>0, <1>1
       DEF ServeConn, ServeConnAcquire, ServeConnTryProcess, ServeConnBind,
           ServeConnReadHandler, ServeConnYield, ServeConnRelease, ServeConnRecycle
<1>2. CASE serveHTTP(w)
    BY <1>0, <1>2
       DEF serveHTTP, LoopStops, LoopRejects, LoopProceeds, HandleRequest,
           HandleRequestFails, AwaitDone, DrainReads, DrainFails, DrainCloses,
           AfterRequest, DoubleCheck, TryAgain
<1>3. CASE Handler(w)
    BY <1>0, <1>3
       DEF Handler, HandlerHijacks, HandlerSetsReadHandler, HandlerFails, HandlerReturns
<1>4. CASE Hijacker(w)
    BY <1>0, <1>4 DEF Hijacker, HijackerReads, HijackerCloses
<1> QED
    BY <1>1, <1>2, <1>3, <1>4

(* The steps of one connection that the limiter can notice. *)
ConnStep(c) ==
    \/ Prepare(c)
    \/ PeerClose(c)
    \/ Disconnect(c)
    \/ Closes(c)

(* Every step is one of these, or leaves every connection as it is.         *)
LEMMA StepEffect ==
    ASSUME TypeOK, [Next]_vars
    PROVE  Untouched \/ \E c \in Conns : ConnStep(c)
<1>1. ASSUME NEW c \in Conns, PeerSend(c) PROVE Untouched
    BY <1>1 DEF PeerSend, Untouched, netVars, admitVars
<1>2. ASSUME NEW c \in Conns, NEW w \in Workers, Dispatch(w, c) PROVE Untouched
    BY <1>2 DEF Dispatch, Untouched, netVars, admitVars
<1>3. ASSUME UNCHANGED vars PROVE Untouched
    BY <1>3 DEF vars, Untouched, netVars, admitVars
<1> QED
    BY <1>1, <1>2, <1>3, WorkerEffect DEF Next, ConnStep

(* Fresh and Linked need no assumption on netpoll's order of callbacks.     *)
LEMMA NetStep ==
    ASSUME TypeOK, Fresh, Linked, [Next]_vars
    PROVE  Fresh' /\ Linked'
<1>0. /\ conn \in [Conns -> ConnStates] /\ dpc \in [Conns -> DisconnectPcs]
      /\ state \in [Conns -> Objs \cup {None}]
    BY DEF TypeOK
<1>1. CASE Untouched
    BY <1>1 DEF Untouched, Fresh, Linked
<1>2. ASSUME NEW c \in Conns, ConnStep(c) PROVE Fresh' /\ Linked'
    <2> USE <1>0 DEF Fresh, Linked, netVars, admitVars
    <2>1. CASE Prepare(c)
        BY <2>1
           DEF Prepare, OnPrepareCount, OnPrepareReject, OnPrepareTimeoutFails, OnPrepareState
    <2>2. CASE PeerClose(c)
        BY <2>2 DEF PeerClose
    <2>3. CASE Disconnect(c)
        BY <2>3
           DEF Disconnect, DisconnectCount, DisconnectCancel, DisconnectRelease,
               DisconnectRecycle
    <2>4. CASE Closes(c)
        BY <2>4 DEF Closes, CloseConn
    <2> QED
        BY <1>2, <2>1, <2>2, <2>3, <2>4 DEF ConnStep
<1> QED
    BY <1>1, <1>2, StepEffect

-----------------------------------------------------------------------------
(***************************************************************************)
(* Counted is the set that CountExact says connsCount counts, Admitted the *)
(* set that ConnLimit bounds.  A connection is added by the increment that *)
(* OnPrepare starts with, and only if the incremented count passes the     *)
(* limit is it also admitted.                                              *)
(***************************************************************************)
Counted == {c \in Conns : \/ conn[c] \in {"overLimit", "preparing", "active"}
                          \/ dpc[c] = "due"}
Admitted == {c \in Conns : conn[c] \in {"preparing", "active"} \/ dpc[c] = "due"}

(* What a step does to the limiter: the increment of OnPrepare, the         *)
(* decrement of a rejection or of OnDisconnect, a connection forgotten with *)
(* its count kept (a failed SetReadTimeout, a Close without OnDisconnect),  *)
(* or nothing.                                                              *)
Counts(c) ==
    /\ c \notin Counted /\ Counted' = Counted \cup {c}
    /\ connsCount' = connsCount + 1
    /\ \/ Admitted' = Admitted
       \/ Admitted' = Admitted \cup {c} /\ ~(MaxConns > 0 /\ connsCount' > MaxConns)
Uncounts(c) ==
    /\ c \in Counted /\ Counted' = Counted \ {c}
    /\ connsCount' = connsCount - 1
    /\ Admitted' = Admitted \ {c}
Forgets(c) ==
    /\ "timeoutFails" \in Faults \/ "closeSilent" \in Faults
    /\ c \in Counted /\ Counted' = Counted \ {c}
    /\ connsCount' = connsCount
    /\ Admitted' = Admitted \ {c}
KeepsCount == Counted' = Counted /\ connsCount' = connsCount /\ Admitted' = Admitted

(* OnPrepare, OnDisconnect and Close move one connection in or out of the   *)
(* two sets; no other step of the server changes them.                      *)
LEMMA CountedStep ==
    ASSUME TypeOK, Fresh, Linked, [Next]_vars
    PROVE  KeepsCount \/ \E c \in Conns : Counts(c) \/ Uncounts(c) \/ Forgets(c)
<1>0. /\ conn \in [Conns -> ConnStates] /\ dpc \in [Conns -> DisconnectPcs]
      /\ connsCount \in Int
    BY DEF TypeOK
<1>1. CASE Untouched
    BY <1>1 DEF Untouched, KeepsCount, Counted, Admitted
<1>2. ASSUME NEW c \in Conns, ConnStep(c)
      PROVE  KeepsCount \/ Counts(c) \/ Uncounts(c) \/ Forgets(c)
    <2> USE <1>0 DEF Fresh, Linked, Counted, Admitted, ConnStates, DisconnectPcs, netVars, admitVars
    <2>1. CASE OnPrepareCount(c)
        BY <2>1 DEF OnPrepareCount, Counts
    <2>2. CASE OnPrepareReject(c)
        BY <2>2 DEF OnPrepareReject, Uncounts
    <2>3. CASE OnPrepareTimeoutFails(c)
        BY <2>3 DEF OnPrepareTimeoutFails, Forgets
    <2>4. ASSUME NEW o \in Objs, OnPrepareState(c, o) PROVE KeepsCount
        BY <2>4 DEF OnPrepareState, KeepsCount
    <2>5. CASE PeerClose(c)
        BY <2>5 DEF PeerClose, KeepsCount
    <2>6. CASE DisconnectCount(c)
        BY <2>6 DEF DisconnectCount, Uncounts
    <2>7. CASE DisconnectCancel(c)
        BY <2>7 DEF DisconnectCancel, KeepsCount
    <2>8. CASE DisconnectRelease(c)
        BY <2>8 DEF DisconnectRelease, KeepsCount
    <2>9. CASE DisconnectRecycle(c)
        BY <2>9 DEF DisconnectRecycle, KeepsCount
    <2>10. CASE Closes(c)
        BY <2>10 DEF Closes, CloseConn, KeepsCount, Forgets
    <2> QED
        BY <1>2, <2>1, <2>2, <2>3, <2>4, <2>5, <2>6, <2>7, <2>8, <2>9, <2>10
           DEF ConnStep, Prepare, Disconnect
<1> QED
    BY <1>1, <1>2, StepEffect

(* Both sets are finite, and their sizes are numbers. *)
LEMMA CountedFinite ==
    /\ IsFiniteSet(Counted) /\ Cardinality(Counted) \in Nat
    /\ IsFiniteSet(Admitted) /\ Cardinality(Admitted) \in Nat
    /\ Cardinality(Admitted) <= Cardinality(Counted)
<1>1. Counted \in SUBSET Conns /\ Admitted \in SUBSET Counted
    BY DEF Counted, Admitted
<1>2. IsFiniteSet(Counted)
    BY <1>1, FS_Subset, SetsAssumption
<1>3. IsFiniteSet(Admitted) /\ Cardinality(Admitted) <= Cardinality(Counted)
    BY <1>1, <1>2, FS_Subset
<1> QED
    BY <1>2, <1>3, FS_CardinalityType

(***************************************************************************)
(* ConnLimit alone is not inductive: the limiter looks at connsCount, not  *)
(* at the connections.  Under every fault connsCount is at least the       *)
(* number of counted connections (a fault can only leave it too high), so  *)
(* a connection that passes the check finds room.                          *)
(***************************************************************************)
LimitInv ==
    /\ TypeOK /\ Fresh /\ Linked
    /\ Cardinality(Counted) <= connsCount
    /\ MaxConns > 0 => Cardinality(Admitted) <= MaxConns

(* LimitInv is inductive: what is admitted was first counted.               *)
LEMMA LimitStep ==
    ASSUME LimitInv, [Next]_vars
    PROVE  LimitInv'
<1>1. TypeOK' /\ Fresh' /\ Linked'
    BY TypeStep, NetStep DEF LimitInv
<1>2. /\ connsCount \in Int /\ MaxConns \in Nat
      /\ Cardinality(Counted) <= connsCount
      /\ MaxConns > 0 => Cardinality(Admitted) <= MaxConns
    BY ParameterAssumption DEF LimitInv, TypeOK
<1>3. /\ IsFiniteSet(Counted) /\ Cardinality(Counted) \in Nat
      /\ IsFiniteSet(Admitted) /\ Cardinality(Admitted) \in Nat
    BY CountedFinite
<1>A. /\ Cardinality(Counted)' <= connsCount'
      /\ MaxConns > 0 => Cardinality(Admitted)' <= MaxConns
    <2>1. CASE KeepsCount
        BY <2>1, <1>2 DEF KeepsCount
    <2>2. ASSUME NEW c \in Conns, Counts(c)
          PROVE  /\ Cardinality(Counted)' <= connsCount'
                 /\ MaxConns > 0 => Cardinality(Admitted)' <= MaxConns
        <3>1. Cardinality(Counted') = Cardinality(Counted) + 1
            BY <1>3, <2>2, FS_AddElement DEF Counts
        <3>2. Cardinality(Counted') <= connsCount'
            BY <1>2, <1>3, <2>2, <3>1 DEF Counts
        <3>3. CASE Admitted' = Admitted
            BY <1>2, <3>2, <3>3
        <3>4. CASE ~(MaxConns > 0 /\ connsCount' > MaxConns)
            <4>1. Cardinality(Admitted') <= Cardinality(Counted')
                <5>1. /\ Admitted' \in SUBSET Counted'
                      /\ IsFiniteSet(Counted')
                    <6>1. Admitted' \in SUBSET Counted'
                        BY DEF Admitted, Counted
                    <6>2. IsFiniteSet(Counted')
                        BY <1>3, <2>2, FS_AddElement DEF Counts
                    <6> QED
                        BY <6>1, <6>2
                <5> QED
                    BY <5>1, FS_Subset
            <4>2. Cardinality(Admitted') \in Nat
                <5>1. IsFiniteSet(Admitted')
                    BY <1>3, <2>2, FS_AddElement DEF Counts
                <5> QED
                    BY <5>1, FS_CardinalityType
            <4>3. connsCount' \in Int /\ Cardinality(Counted') \in Int
                BY <1>2, <1>3, <2>2, <3>1 DEF Counts
            <4> QED
                BY <1>2, <3>2, <3>4, <4>1, <4>2, <4>3
        <3> QED
            BY <2>2, <3>3, <3>4 DEF Counts
    <2>3. ASSUME NEW c \in Conns, Uncounts(c) \/ Forgets(c)
          PROVE  /\ Cardinality(Counted)' <= connsCount'
                 /\ MaxConns > 0 => Cardinality(Admitted)' <= MaxConns
        <3>1. Cardinality(Counted') = Cardinality(Counted) - 1
            BY <1>3, <2>3, FS_RemoveElement DEF Uncounts, Forgets
        <3>2. /\ Cardinality(Admitted') <= Cardinality(Admitted)
              /\ Cardinality(Admitted') \in Nat
            <4>1. Admitted' \in SUBSET Admitted
                BY <2>3 DEF Uncounts, Forgets
            <4> QED
                BY <1>3, <4>1, FS_Subset, FS_CardinalityType
        <3> QED
            BY <1>2, <1>3, <2>3, <3>1, <3>2 DEF Uncounts, Forgets
    <2> QED
        BY <2>1, <2>2, <2>3, CountedStep DEF LimitInv
<1> QED
    BY <1>1, <1>A DEF LimitInv

(* Before the first connection nothing is counted. *)
LEMMA CountInit == Init => TypeOK /\ Fresh /\ Linked /\ connsCount = Cardinality(Counted)
<1> SUFFICES ASSUME Init PROVE TypeOK /\ Fresh /\ Linked /\ connsCount = Cardinality(Counted)
    OBVIOUS
<1>1. TypeOK /\ Fresh /\ Linked
    BY RefInit DEF RefInv, LinkInv
<1>2. Counted = {}
    BY DEF Init, Counted
<1> QED
    BY <1>1, <1>2, FS_EmptySet DEF Init

(* The limiter keeps its promise whatever the faults: never are more than   *)
(* MaxConns connections past OnPrepare's check, for any number of clients.  *)
THEOREM LimitCorrect == Spec => []ConnLimit
<1>1. Init => LimitInv
    <2> SUFFICES ASSUME Init PROVE LimitInv
        OBVIOUS
    <2>1. /\ TypeOK /\ Fresh /\ Linked /\ connsCount = Cardinality(Counted)
          /\ connsCount = 0
        BY CountInit DEF Init
    <2> QED
        BY <2>1, CountedFinite, ParameterAssumption DEF LimitInv
<1>2. LimitInv => ConnLimit
    BY DEF LimitInv, ConnLimit, Admitted
<1> QED
    BY <1>1, <1>2, LimitStep, PTL DEF Spec

(***************************************************************************)
(* CountExact fails under the two faults in which a connection ends without *)
(* an OnDisconnect.  Without them a step moves connsCount exactly as it     *)
(* moves a connection in or out of Counted.                                 *)
(***************************************************************************)
CountInv == TypeOK /\ Fresh /\ Linked /\ connsCount = Cardinality(Counted)

(* CountInv is inductive where no connection ends silently.                 *)
LEMMA CountStep ==
    ASSUME "timeoutFails" \notin Faults, "closeSilent" \notin Faults,
           CountInv, [Next]_vars
    PROVE  CountInv'
<1>1. TypeOK' /\ Fresh' /\ Linked'
    BY TypeStep, NetStep DEF CountInv
<1>2. IsFiniteSet(Counted) /\ Cardinality(Counted) \in Nat
    BY CountedFinite
<1>3. ASSUME NEW c \in Conns, Counts(c) PROVE connsCount' = Cardinality(Counted')
    BY <1>2, <1>3, FS_AddElement DEF Counts, CountInv
<1>4. ASSUME NEW c \in Conns, Uncounts(c) PROVE connsCount' = Cardinality(Counted')
    BY <1>2, <1>4, FS_RemoveElement DEF Uncounts, CountInv
<1>5. CASE KeepsCount
    BY <1>1, <1>5 DEF KeepsCount, CountInv
<1> QED
    BY <1>1, <1>3, <1>4, <1>5, CountedStep DEF CountInv, Forgets

(* connsCount is the number of connections being admitted, served, or about *)
(* to run OnDisconnect, if SetReadTimeout does not fail in OnPrepare and    *)
(* every Close is followed by an OnDisconnect; netpoll may start callbacks  *)
(* late or in parallel.                                                     *)
THEOREM CountCorrect ==
    ASSUME "timeoutFails" \notin Faults, "closeSilent" \notin Faults
    PROVE  Spec => []CountExact
<1>1. Init => CountInv
    BY CountInit DEF CountInv
<1>2. CountInv /\ [Next]_vars => CountInv'
    BY CountStep
<1>3. CountInv => CountExact
    BY DEF CountInv, CountExact, Counted
<1> QED
    BY <1>1, <1>2, <1>3, PTL DEF Spec
=============================================================================
