--------------------------- MODULE WsClientProofs ---------------------------
(* Machine-checked theorems about the specification of module WsClient, for *)
(* any number of calls of Dial and of frames.                               *)
EXTENDS WsClient, FiniteSetTheorems, SequenceTheorems, TLAPS

(* The OnRequest callback takes from the input only what netpoll or         *)
(* ServeConn has seen there.                                                *)
Filled == \A d \in Dials : req[d] \in {"enter", "frame"} => input[d] # << >>

(* Every step keeps what is kept of each call in its type.                  *)
LEMMA TypeStep ==
    ASSUME DialsOK, Filled, [Next]_vars
    PROVE  DialsOK'
<1>0. /\ Items = {"partial", "good", "bad", "message", "close", "badFrame"}
      /\ \A s \in Seq(Items) : s # << >> => Tail(s) \in Seq(Items)
      /\ \A s \in Seq(Items), i \in Items : Append(s, i) \in Seq(Items) /\ Append(s, i) # << >>
      /\ \A i \in Items : <<i>> \in Seq(Items) /\ <<i>> # << >>
    BY DEF Items
<1> USE ClientAssumption
<1> USE DEF DialsOK, DialPcs, RequestPcs, Actors, Goto, ReqGoto, callVars, onceVars,
            netVars, hsVars, inVars, CloseLink, WgDone, Report
<1>1. ASSUME NEW d \in Dials, DialBegins(d) PROVE DialsOK'
    BY <1>1 DEF DialBegins
<1>2. ASSUME NEW d \in Dials, DialConnects(d) PROVE DialsOK'
    BY <1>2 DEF DialConnects
<1>3. ASSUME NEW d \in Dials, DialConnectFails(d) PROVE DialsOK'
    BY <1>3 DEF DialConnectFails
<1>4. ASSUME NEW d \in Dials, DialSetsOnRequest(d) PROVE DialsOK'
    BY <1>4 DEF DialSetsOnRequest
<1>5. ASSUME NEW d \in Dials, DialSends(d) PROVE DialsOK'
    BY <1>5 DEF DialSends
<1>6. ASSUME NEW d \in Dials, DialSendFails(d) PROVE DialsOK'
    BY <1>6 DEF DialSendFails
<1>7. ASSUME NEW d \in Dials, DialUnwinds(d) PROVE DialsOK'
    BY <1>7 DEF DialUnwinds
<1>8. ASSUME NEW d \in Dials, DialSucceeds(d) PROVE DialsOK'
    BY <1>8 DEF DialSucceeds
<1>9. ASSUME NEW d \in Dials, DialFails(d) PROVE DialsOK'
    BY <1>9 DEF DialFails
<1>10. ASSUME NEW d \in Dials, DialTimesOut(d) PROVE DialsOK'
    BY <1>10 DEF DialTimesOut
<1>11. ASSUME NEW d \in Dials, DialReturnsErr(d) PROVE DialsOK'
    BY <1>11 DEF DialReturnsErr
<1>12. ASSUME NEW d \in Dials, HandshakeStops(d) PROVE DialsOK'
    BY <1>12 DEF HandshakeStops
<1>13. ASSUME NEW d \in Dials, HandshakeAccepts(d) PROVE DialsOK'
    BY <1>0, <1>13 DEF Filled, HandshakeAccepts
<1>14. ASSUME NEW d \in Dials, CallOnOpen(d) PROVE DialsOK'
    BY <1>14 DEF CallOnOpen
<1>15. ASSUME NEW d \in Dials, ReportOpen(d) PROVE DialsOK'
    BY <1>15 DEF ReportOpen
<1>16. ASSUME NEW d \in Dials, EnterServe(d) PROVE DialsOK'
    BY <1>16 DEF EnterServe
<1>17. ASSUME NEW d \in Dials, ServeChecks(d) PROVE DialsOK'
    BY <1>17 DEF ServeChecks
<1>18. ASSUME NEW d \in Dials, ServeMessage(d) PROVE DialsOK'
    BY <1>0, <1>18 DEF Filled, ServeMessage
<1>19. ASSUME NEW d \in Dials, ServeStops(d) PROVE DialsOK'
    BY <1>0, <1>19 DEF Filled, ServeStops
<1>20. ASSUME NEW d \in Dials, RequestReturns(d) PROVE DialsOK'
    BY <1>20 DEF RequestReturns
<1>21. ASSUME NEW d \in Dials, RequestCloses(d) PROVE DialsOK'
    BY <1>21 DEF RequestCloses
<1>22. ASSUME NEW d \in Dials, StartRequest(d) PROVE DialsOK'
    BY <1>22 DEF StartRequest
<1>23. ASSUME NEW d \in Dials, CloseCallbackBegins(d) PROVE DialsOK'
    BY <1>23 DEF CloseCallbackBegins
<1>24. ASSUME NEW d \in Dials, CloseCallbackEnds(d) PROVE DialsOK'
    BY <1>24 DEF CloseCallbackEnds
<1>25. ASSUME NEW d \in Dials, PeerCloses(d) PROVE DialsOK'
    BY <1>25 DEF PeerCloses
<1>26. ASSUME NEW d \in Dials, NEW a \in Actors, TrackerBegins(d, a) PROVE DialsOK'
    BY <1>26 DEF TrackerBegins
<1>27. ASSUME NEW d \in Dials, NEW a \in Actors, TrackerEnds(d, a) PROVE DialsOK'
    BY <1>27 DEF TrackerEnds
<1>28. ASSUME NEW d \in Dials, NEW i \in Items, PeerResponds(d, i) PROVE DialsOK'
    BY <1>0, <1>28 DEF PeerResponds
<1>29. ASSUME NEW d \in Dials, NEW i \in Items, PeerSendsFrame(d, i) PROVE DialsOK'
    BY <1>0, <1>29 DEF PeerSendsFrame
<1>30. CASE UNCHANGED vars
    BY <1>30 DEF vars
<1> QED
    BY <1>1, <1>2, <1>3, <1>4, <1>5, <1>6, <1>7, <1>8, <1>9, <1>10, <1>11, <1>12, <1>13,
       <1>14, <1>15, <1>16, <1>17, <1>18, <1>19, <1>20, <1>21, <1>22, <1>23, <1>24, <1>25,
       <1>26, <1>27, <1>28, <1>29, <1>30
       DEF Next, Dial, OnRequest, Tracker, CloseCallback, Peer

(* Input is only taken by the callback that has looked at it. *)
LEMMA FilledStep ==
    ASSUME DialsOK, Filled, [Next]_vars
    PROVE  Filled'
<1>0. req \in [Dials -> RequestPcs] /\ input \in [Dials -> Seq(Items)]
    BY DEF DialsOK
<1> USE <1>0 DEF Filled, ReqGoto, inVars
<1>1. ASSUME NEW d \in Dials, Dial(d) \/ CloseCallback(d) \/ PeerCloses(d)
      PROVE  UNCHANGED <<req, input>>
    BY <1>1
       DEF Dial, DialBegins, DialConnects, DialConnectFails, DialSetsOnRequest, DialSends,
           DialSendFails, DialUnwinds, DialSucceeds, DialFails, DialTimesOut, DialReturnsErr,
           CloseCallback, CloseCallbackBegins, CloseCallbackEnds, PeerCloses
<1>2. ASSUME NEW d \in Dials, Tracker(d) PROVE UNCHANGED <<req, input>>
    BY <1>2 DEF Tracker, TrackerBegins, TrackerEnds
<1>3. ASSUME NEW d \in Dials, OnRequest(d) PROVE Filled'
    BY <1>3
       DEF OnRequest, HandshakeStops, HandshakeAccepts, CallOnOpen, ReportOpen, EnterServe,
           ServeChecks, ServeMessage, ServeStops, RequestReturns, RequestCloses
<1>4. ASSUME NEW d \in Dials, StartRequest(d) PROVE Filled'
    BY <1>4 DEF StartRequest
<1>5. ASSUME NEW d \in Dials, NEW i \in Items, PeerResponds(d, i) \/ PeerSendsFrame(d, i)
      PROVE  Filled'
    <2>1. /\ req' = req
          /\ \E s \in {<<i>>, Append(input[d], i)} : input' = [input EXCEPT ![d] = s]
        BY <1>5 DEF PeerResponds, PeerSendsFrame
    <2>2. <<i>> # << >> /\ Append(input[d], i) # << >>
        BY <1>0, AppendProperties, Len(<<i>>) = 1
    <2> QED
        BY <2>1, <2>2
<1>6. CASE UNCHANGED vars
    BY <1>6 DEF vars
<1> QED
    BY <1>1, <1>2, <1>3, <1>4, <1>5, <1>6 DEF Next, Peer

LEMMA TypeInit == Init => DialsOK /\ Filled
    BY ClientAssumption DEF Init, DialsOK, Filled, DialPcs, RequestPcs, Actors

-----------------------------------------------------------------------------
(***************************************************************************)
(* wg.Done().  Without a connection nothing runs beside Dial (Linkless),   *)
(* so that wg.Done() is called by the tracker for a call that has one and  *)
(* by Dial for one that never got it (DonesExact), and the counter is the  *)
(* number of calls for which it is still to come (WgExact).                *)
(***************************************************************************)
Linkless ==
    \A d \in Dials :
        /\ dial[d] # "unwind"
        /\ link[d] = "none" => /\ once[d] = "fresh" /\ cb[d] = "armed" /\ req[d] = "idle"
                               /\ ~onRequest[d] /\ dial[d] \in {"idle", "connect", "returned"}
        /\ dial[d] \in {"idle", "connect"} => link[d] = "none"
Settled(d) == once[d] = "done" \/ (dial[d] = "returned" /\ link[d] = "none")
DonesExact == \A d \in Dials : dones[d] = IF Settled(d) THEN 1 ELSE 0
Pending == {d \in Dials : dial[d] # "idle" /\ dones[d] = 0}
WgExact == wg = Cardinality(Pending)
DoneInv == DialsOK /\ Filled /\ Linkless /\ DonesExact /\ WgExact

(* The tracker and the callbacks reach a call of Dial only through its      *)
(* connection.                                                              *)
LEMMA LinklessStep ==
    ASSUME "send" \notin ClientFaults, DialsOK, Linkless, [Next]_vars
    PROVE  Linkless'
<1>0. /\ dial \in [Dials -> DialPcs] /\ once \in [Dials -> {"fresh", "running", "done"}]
      /\ link \in [Dials -> {"none", "open", "peerClosed", "selfClosed"}]
      /\ cb \in [Dials -> {"armed", "due", "running", "done"}]
      /\ onRequest \in [Dials -> BOOLEAN] /\ req \in [Dials -> RequestPcs]
    BY DEF DialsOK
<1> USE <1>0 DEF Linkless, Goto, ReqGoto, CloseLink, callVars, onceVars, netVars
<1>1. ASSUME NEW d \in Dials, Dial(d) PROVE Linkless'
    <2>1. CASE DialBegins(d) \/ DialConnects(d) \/ DialConnectFails(d)
        BY <2>1 DEF DialBegins, DialConnects, DialConnectFails
    <2>2. CASE \/ DialSetsOnRequest(d) \/ DialSends(d) \/ DialSendFails(d)
               \/ DialUnwinds(d) \/ DialSucceeds(d)
        BY <2>2 DEF DialSetsOnRequest, DialSends, DialSendFails, DialUnwinds, DialSucceeds
    <2>3. CASE DialFails(d) \/ DialTimesOut(d) \/ DialReturnsErr(d)
        BY <2>3 DEF DialFails, DialTimesOut, DialReturnsErr
    <2> QED
        BY <1>1, <2>1, <2>2, <2>3 DEF Dial
<1>2. ASSUME NEW d \in Dials, OnRequest(d), ~RequestCloses(d) PROVE Linkless'
    <2>1. /\ UNCHANGED <<dial, once, link, cb, onRequest>> /\ req[d] # "idle"
          /\ \E p \in RequestPcs : req' = [req EXCEPT ![d] = p]
        BY <1>2
           DEF OnRequest, HandshakeStops, HandshakeAccepts, CallOnOpen, ReportOpen, EnterServe,
               ServeChecks, ServeMessage, ServeStops, RequestReturns, RequestPcs
    <2> QED
        BY <2>1
<1>3. ASSUME NEW d \in Dials, RequestCloses(d) \/ StartRequest(d) PROVE Linkless'
    BY <1>3 DEF RequestCloses, StartRequest
<1>4. ASSUME NEW d \in Dials, NEW a \in Actors, TrackerBegins(d, a) \/ TrackerEnds(d, a)
      PROVE  Linkless'
    BY <1>4 DEF TrackerBegins, TrackerEnds, InOnClose
<1>5. ASSUME NEW d \in Dials, CloseCallback(d) \/ PeerCloses(d) PROVE Linkless'
    BY <1>5 DEF CloseCallback, CloseCallbackBegins, CloseCallbackEnds, PeerCloses
<1>6. ASSUME NEW d \in Dials, NEW i \in Items, PeerResponds(d, i) \/ PeerSendsFrame(d, i)
      PROVE  Linkless'
    BY <1>6 DEF PeerResponds, PeerSendsFrame
<1>7. CASE UNCHANGED vars
    BY <1>7 DEF vars
<1> QED
    BY <1>1, <1>2, <1>3, <1>4, <1>5, <1>6, <1>7 DEF Next, Tracker, Peer

(* What a step does to the account of wg: nothing, the Add of a call that   *)
(* begins, or the Done of one that is pending.                              *)
Keeps == UNCHANGED wg /\ DonesExact' /\ Pending' = Pending
Adds == wg' = wg + 1 /\ DonesExact' /\ \E d \in Dials \ Pending : Pending' = Pending \cup {d}
Settles == wg' = wg - 1 /\ DonesExact' /\ \E d \in Pending : Pending' = Pending \ {d}
LEMMA DoneEffect ==
    ASSUME "send" \notin ClientFaults, DialsOK, Linkless, DonesExact, [Next]_vars
    PROVE  Keeps \/ Adds \/ Settles
<1>0. /\ dial \in [Dials -> DialPcs] /\ once \in [Dials -> {"fresh", "running", "done"}]
      /\ link \in [Dials -> {"none", "open", "peerClosed", "selfClosed"}]
      /\ dones \in [Dials -> Nat]
    BY DEF DialsOK
<1> USE <1>0 DEF DonesExact, Settled, Pending, Linkless
<1>1. ASSUME NEW d \in Dials, DialBegins(d) PROVE Adds
    <2>1. /\ dial[d] = "idle" /\ dial' = [dial EXCEPT ![d] = "connect"] /\ wg' = wg + 1
          /\ UNCHANGED <<once, link, dones>> /\ link[d] = "none" /\ once[d] = "fresh"
        BY <1>1 DEF DialBegins, Goto, onceVars, netVars
    <2>2. DonesExact'
        BY <2>1
    <2>3. d \notin Pending /\ Pending' = Pending \cup {d}
        BY <2>1
    <2> QED
        BY <2>1, <2>2, <2>3 DEF Adds
<1>2. ASSUME NEW d \in Dials, DialConnectFails(d) PROVE Settles
    <2>1. /\ dial[d] = "connect" /\ dial' = [dial EXCEPT ![d] = "returned"] /\ wg' = wg - 1
          /\ dones' = [dones EXCEPT ![d] = @ + 1]
          /\ UNCHANGED <<once, link>> /\ link[d] = "none" /\ once[d] = "fresh"
        BY <1>2 DEF DialConnectFails, Goto, WgDone, onceVars, netVars
    <2>2. DonesExact'
        BY <2>1
    <2>3. d \in Pending /\ Pending' = Pending \ {d}
        BY <2>1
    <2> QED
        BY <2>1, <2>2, <2>3 DEF Settles
<1>3. ASSUME NEW d \in Dials, NEW a \in Actors, TrackerEnds(d, a) PROVE Settles
    <2>1. /\ once[d] = "running" /\ once' = [once EXCEPT ![d] = "done"] /\ wg' = wg - 1
          /\ dones' = [dones EXCEPT ![d] = @ + 1]
          /\ UNCHANGED <<dial, link>> /\ link[d] # "none" /\ dial[d] # "idle"
        BY <1>3 DEF TrackerEnds, WgDone, callVars, netVars
    <2>2. DonesExact'
        BY <2>1
    <2>3. d \in Pending /\ Pending' = Pending \ {d}
        BY <2>1
    <2> QED
        BY <2>1, <2>2, <2>3 DEF Settles
<1>4. ASSUME UNCHANGED <<wg, dones>>,
             \A d \in Dials : /\ dial'[d] = "idle" <=> dial[d] = "idle"
                              /\ Settled(d)' <=> Settled(d)
      PROVE  Keeps
    BY <1>4 DEF Keeps
<1>5. ASSUME NEW d \in Dials, Dial(d), ~DialBegins(d), ~DialConnectFails(d) PROVE Keeps
    <2> USE DEF Goto, CloseLink, onceVars, netVars
    <2>1. CASE DialConnects(d)
        BY <1>4, <2>1 DEF DialConnects
    <2>2. CASE \/ DialSetsOnRequest(d) \/ DialSends(d) \/ DialSendFails(d)
               \/ DialUnwinds(d) \/ DialSucceeds(d)
        BY <1>4, <2>2 DEF DialSetsOnRequest, DialSends, DialSendFails, DialUnwinds, DialSucceeds
    <2>3. CASE DialFails(d) \/ DialTimesOut(d) \/ DialReturnsErr(d)
        BY <1>4, <2>3 DEF DialFails, DialTimesOut, DialReturnsErr
    <2> QED
        BY <1>5, <2>1, <2>2, <2>3 DEF Dial
<1>6. ASSUME NEW d \in Dials, OnRequest(d), ~RequestCloses(d) PROVE Keeps
    <2>1. UNCHANGED <<dial, once, link, dones, wg>>
        BY <1>6
           DEF OnRequest, HandshakeStops, HandshakeAccepts, CallOnOpen, ReportOpen, EnterServe,
               ServeChecks, ServeMessage, ServeStops, RequestReturns, callVars, onceVars, netVars
    <2> QED
        BY <1>4, <2>1
<1>7. ASSUME NEW d \in Dials, RequestCloses(d) \/ PeerCloses(d) PROVE Keeps
    BY <1>4, <1>7 DEF RequestCloses, PeerCloses, CloseLink, callVars, onceVars
<1>8. ASSUME NEW d \in Dials, StartRequest(d) \/ CloseCallback(d) PROVE Keeps
    BY <1>4, <1>8
       DEF StartRequest, CloseCallback, CloseCallbackBegins, CloseCallbackEnds, callVars,
           onceVars, netVars
<1>9. ASSUME NEW d \in Dials, NEW a \in Actors, TrackerBegins(d, a) PROVE Keeps
    BY <1>4, <1>9 DEF TrackerBegins, callVars, netVars
<1>10. ASSUME NEW d \in Dials, NEW i \in Items, PeerResponds(d, i) \/ PeerSendsFrame(d, i)
       PROVE  Keeps
    BY <1>4, <1>10 DEF PeerResponds, PeerSendsFrame, callVars, onceVars, netVars
<1>11. CASE UNCHANGED vars
    BY <1>4, <1>11 DEF vars, callVars, onceVars, netVars
<1> QED
    BY <1>1, <1>2, <1>3, <1>5, <1>6, <1>7, <1>8, <1>9, <1>10, <1>11 DEF Next, Tracker, Peer

LEMMA DoneStep ==
    ASSUME "send" \notin ClientFaults, DoneInv, [Next]_vars
    PROVE  DoneInv'
<1>1. DialsOK' /\ Filled' /\ Linkless'
    BY TypeStep, FilledStep, LinklessStep DEF DoneInv
<1>2. Keeps \/ Adds \/ Settles
    BY DoneEffect DEF DoneInv
<1>3. IsFiniteSet(Pending)
    BY ClientAssumption, FS_Subset DEF Pending
<1>4. WgExact'
    <2>1. CASE Keeps
        BY <2>1 DEF Keeps, DoneInv, WgExact
    <2>2. CASE Adds
        BY <1>3, <2>2, FS_AddElement DEF Adds, DoneInv, WgExact
    <2>3. CASE Settles
        BY <1>3, <2>3, FS_RemoveElement DEF Settles, DoneInv, WgExact
    <2> QED
        BY <1>2, <2>1, <2>2, <2>3
<1> QED
    BY <1>1, <1>2, <1>4 DEF DoneInv, Keeps, Adds, Settles

LEMMA DoneInit == Init => DoneInv
<1> SUFFICES ASSUME Init PROVE DoneInv
    OBVIOUS
<1>1. Linkless /\ DonesExact
    BY DEF Init, Linkless, DonesExact, Settled
<1>2. Pending = {}
    BY DEF Init, Pending
<1> QED
    BY <1>1, <1>2, TypeInit, FS_EmptySet DEF Init, DoneInv, WgExact

(* Unless the handshake request cannot be sent, Client.wg never goes        *)
(* negative, whatever the callbacks do to a connection.                     *)
THEOREM TypeCorrect ==
    ASSUME "send" \notin ClientFaults
    PROVE  Spec => []TypeOK
<1>1. DoneInv /\ [Next]_vars => DoneInv'
    BY DoneStep
<1>2. DoneInv => TypeOK
    <2> SUFFICES ASSUME DoneInv PROVE Cardinality(Pending) \in Nat
        BY DEF DoneInv, WgExact, TypeOK
    <2>1. IsFiniteSet(Pending)
        BY ClientAssumption, FS_Subset DEF Pending
    <2> QED
        BY <2>1, FS_CardinalityType
<1> QED
    BY <1>1, <1>2, DoneInit, PTL DEF Spec

(* Dial, the OnRequest callback and the close callback call wg.Done() at    *)
(* most once for a connection between them, in any order.                   *)
THEOREM DoneOnceCorrect ==
    ASSUME "send" \notin ClientFaults
    PROVE  Spec => []DoneOnce
<1>1. DoneInv /\ [Next]_vars => DoneInv'
    BY DoneStep
<1>2. DoneInv => DoneOnce
    BY DEF DoneInv, DonesExact, DoneOnce
<1> QED
    BY <1>1, <1>2, DoneInit, PTL DEF Spec

(* When the counter that Wait waits for is zero, every call of Dial that    *)
(* has begun is settled.                                                    *)
THEOREM WaitCorrect ==
    ASSUME "send" \notin ClientFaults
    PROVE  Spec => []WaitMeansSettled
<1>1. DoneInv /\ [Next]_vars => DoneInv'
    BY DoneStep
<1>2. DoneInv => WaitMeansSettled
    <2> SUFFICES ASSUME DoneInv, wg = 0, NEW d \in Dials, dial[d] # "idle"
                 PROVE  once[d] = "done" \/ link[d] = "none"
        BY DEF WaitMeansSettled
    <2>1. IsFiniteSet(Pending) /\ Cardinality(Pending) = 0
        BY ClientAssumption, FS_Subset DEF Pending, DoneInv, WgExact
    <2>2. Pending = {}
        BY <2>1, FS_EmptySet
    <2> QED
        BY <2>2 DEF Pending, DoneInv, DonesExact, Settled
<1> QED
    BY <1>1, <1>2, DoneInit, PTL DEF Spec

-----------------------------------------------------------------------------
(***************************************************************************)
(* The order of events.  Phases: OnOpen is called once, between the        *)
(* handshake's acceptance and its report.  Over: once the application has  *)
(* heard OnClose and its Dial has not failed, no OnRequest callback is, or *)
(* can come, where OnOpen or OnMessage is called: the close callback has   *)
(* begun, or a close frame is being answered, or the connection is closed  *)
(* and every callback that still starts only calls OnClose.                *)
(***************************************************************************)
Phases ==
    \A d \in Dials :
        /\ isHandshake[d] => opens[d] = 0 /\ req[d] \in {"idle", "enter"}
        /\ req[d] = "onOpen" => opens[d] = 0
        /\ ~isHandshake[d] /\ req[d] # "onOpen" => opens[d] = 1
        /\ handshakeDone[d] = "nil" \/ result[d] = "nil" => opens[d] = 1
        /\ cb[d] \in {"running", "done"} => req[d] = "idle"
        /\ cb[d] # "armed" \/ req[d] = "onClose" => link[d] \notin {"open", "none"}
        /\ link[d] = "none" => /\ req[d] = "idle" /\ ~onRequest[d]
                               /\ dial[d] \in {"idle", "connect", "returned"}
        /\ dial[d] \in {"idle", "connect"} => link[d] = "none"
        /\ result[d] # "none" => dial[d] = "returned"
GoodFrames == \A d \in Dials : \A i \in 1..Len(input[d]) : input[d][i] # "badFrame"
Over(d) ==
    \/ cb[d] \in {"running", "done"}
    \/ req[d] = "closeFrame"
    \/ /\ ~isHandshake[d] /\ link[d] \notin {"open", "none"}
       /\ req[d] \in {"idle", "enter", "onClose"}
Ended == \A d \in Dials : closes[d] > 0 => dial[d] = "onClose" \/ result[d] = "err" \/ Over(d)
EventInv == DialsOK /\ Filled /\ GoodFrames /\ Phases /\ Ended

(* The server sends no frame that ServeConn answers with an error. *)
LEMMA FramesStep ==
    ASSUME "badFrame" \notin ClientFaults, DialsOK, Filled, GoodFrames, [Next]_vars
    PROVE  GoodFrames'
<1>0. req \in [Dials -> RequestPcs] /\ input \in [Dials -> Seq(Items)]
    BY DEF DialsOK
<1>1. ASSUME UNCHANGED input PROVE GoodFrames'
    BY <1>1 DEF GoodFrames
<1>2. ASSUME NEW d \in Dials, NEW i \in Items, PeerResponds(d, i) PROVE GoodFrames'
    <2>1. input' = [input EXCEPT ![d] = <<i>>] /\ i # "badFrame"
        BY <1>2 DEF PeerResponds
    <2>2. \A e \in Dials : input'[e] = IF e = d THEN <<i>> ELSE input[e]
        BY <1>0, <2>1
    <2>3. Len(<<i>>) = 1 /\ <<i>>[1] = i
        OBVIOUS
    <2> QED
        BY <2>1, <2>2, <2>3 DEF GoodFrames
<1>3. ASSUME NEW d \in Dials, NEW i \in Items, PeerSendsFrame(d, i) PROVE GoodFrames'
    <2>1. input' = [input EXCEPT ![d] = Append(@, i)] /\ i # "badFrame"
        BY <1>3 DEF PeerSendsFrame
    <2>2. \A e \in Dials : input'[e] = IF e = d THEN Append(input[d], i) ELSE input[e]
        BY <1>0, <2>1
    <2>3. input[d] \in Seq(Items)
        BY <1>0
    <2>4. \A k \in 1..Len(Append(input[d], i)) : Append(input[d], i)[k] # "badFrame"
        BY <2>1, <2>3, AppendProperties DEF GoodFrames
    <2> QED
        BY <2>2, <2>4 DEF GoodFrames
<1>4. ASSUME NEW d \in Dials, HandshakeAccepts(d) \/ ServeMessage(d) \/ ServeStops(d)
      PROVE  GoodFrames'
    <2>1. input' = [input EXCEPT ![d] = Tail(@)] /\ input[d] # << >>
        BY <1>4 DEF HandshakeAccepts, ServeMessage, ServeStops, ReqGoto, Filled
    <2>2. \A e \in Dials : input'[e] = IF e = d THEN Tail(input[d]) ELSE input[e]
        BY <1>0, <2>1
    <2>3. input[d] \in Seq(Items)
        BY <1>0
    <2>4. \A k \in 1..Len(Tail(input[d])) : Tail(input[d])[k] # "badFrame"
        BY <2>1, <2>3, HeadTailProperties DEF GoodFrames
    <2> QED
        BY <2>2, <2>4 DEF GoodFrames
<1>5. ASSUME NEW d \in Dials, Dial(d) \/ StartRequest(d) \/ CloseCallback(d) \/ PeerCloses(d)
      PROVE  UNCHANGED input
    BY <1>5
       DEF Dial, DialBegins, DialConnects, DialConnectFails, DialSetsOnRequest, DialSends,
           DialSendFails, DialUnwinds, DialSucceeds, DialFails, DialTimesOut, DialReturnsErr,
           StartRequest, CloseCallback, CloseCallbackBegins, CloseCallbackEnds, PeerCloses, inVars
<1>6. ASSUME NEW d \in Dials,
             Tracker(d) \/ HandshakeStops(d) \/ CallOnOpen(d) \/ ReportOpen(d) \/ EnterServe(d)
             \/ ServeChecks(d) \/ RequestReturns(d) \/ RequestCloses(d)
      PROVE  UNCHANGED input
    BY <1>6
       DEF Tracker, TrackerBegins, TrackerEnds, HandshakeStops, CallOnOpen, ReportOpen,
           EnterServe, ServeChecks, RequestReturns, RequestCloses, inVars
<1>7. CASE UNCHANGED vars
    BY <1>1, <1>7 DEF vars, inVars
<1> QED
    BY <1>1, <1>2, <1>3, <1>4, <1>5, <1>6, <1>7 DEF Next, OnRequest, Peer

(* The phases of a connection follow one another whatever Dial, netpoll and *)
(* the server do.                                                           *)
LEMMA PhasesStep ==
    ASSUME DialsOK, Filled, GoodFrames, Phases, [Next]_vars
    PROVE  Phases'
<1>0. /\ dial \in [Dials -> DialPcs] /\ result \in [Dials -> {"none", "nil", "err"}]
      /\ link \in [Dials -> {"none", "open", "peerClosed", "selfClosed"}]
      /\ cb \in [Dials -> {"armed", "due", "running", "done"}]
      /\ onRequest \in [Dials -> BOOLEAN] /\ req \in [Dials -> RequestPcs]
      /\ isHandshake \in [Dials -> BOOLEAN] /\ handshakeDone \in [Dials -> {"empty", "nil", "err"}]
      /\ opens \in [Dials -> Nat]
      /\ \A d \in Dials : req[d] = "frame" => input[d][1] # "badFrame"
    <2>1. ASSUME NEW d \in Dials, req[d] = "frame" PROVE input[d][1] # "badFrame"
        <3>1. input[d] \in Seq(Items) /\ input[d] # << >>
            BY <2>1 DEF DialsOK, Filled
        <3> QED
            BY <3>1 DEF GoodFrames
    <2> QED
        BY <2>1 DEF DialsOK
<1> USE <1>0 DEF Phases, Goto, ReqGoto, CloseLink, Report, callVars, onceVars, netVars, hsVars, inVars
<1>1. ASSUME NEW d \in Dials, DialBegins(d) PROVE Phases'
    BY <1>1 DEF DialBegins
<1>2. ASSUME NEW d \in Dials, DialConnects(d) PROVE Phases'
    BY <1>2 DEF DialConnects
<1>3. ASSUME NEW d \in Dials, DialConnectFails(d) PROVE Phases'
    BY <1>3 DEF DialConnectFails
<1>4. ASSUME NEW d \in Dials, DialSetsOnRequest(d) PROVE Phases'
    BY <1>4 DEF DialSetsOnRequest
<1>5. ASSUME NEW d \in Dials, DialSends(d) PROVE Phases'
    BY <1>5 DEF DialSends
<1>6. ASSUME NEW d \in Dials, DialSendFails(d) PROVE Phases'
    BY <1>6 DEF DialSendFails
<1>7. ASSUME NEW d \in Dials, DialUnwinds(d) PROVE Phases'
    BY <1>7 DEF DialUnwinds
<1>8. ASSUME NEW d \in Dials, DialSucceeds(d) PROVE Phases'
    BY <1>8 DEF DialSucceeds
<1>9. ASSUME NEW d \in Dials, DialFails(d) PROVE Phases'
    BY <1>9 DEF DialFails
<1>10. ASSUME NEW d \in Dials, DialTimesOut(d) PROVE Phases'
    BY <1>10 DEF DialTimesOut
<1>11. ASSUME NEW d \in Dials, DialReturnsErr(d) PROVE Phases'
    BY <1>11 DEF DialReturnsErr
<1>12. ASSUME NEW d \in Dials, HandshakeStops(d) PROVE Phases'
    BY <1>12 DEF HandshakeStops
<1>13. ASSUME NEW d \in Dials, HandshakeAccepts(d) PROVE Phases'
    BY <1>13 DEF HandshakeAccepts
<1>14. ASSUME NEW d \in Dials, CallOnOpen(d) PROVE Phases'
    BY <1>14 DEF CallOnOpen
<1>15. ASSUME NEW d \in Dials, ReportOpen(d) PROVE Phases'
    BY <1>15 DEF ReportOpen
<1>16. ASSUME NEW d \in Dials, EnterServe(d) PROVE Phases'
    BY <1>16 DEF EnterServe
<1>17. ASSUME NEW d \in Dials, ServeChecks(d) PROVE Phases'
    BY <1>17 DEF ServeChecks
<1>18. ASSUME NEW d \in Dials, ServeMessage(d) PROVE Phases'
    BY <1>18 DEF ServeMessage
<1>19. ASSUME NEW d \in Dials, ServeStops(d) PROVE Phases'
    BY <1>19 DEF ServeStops
<1>20. ASSUME NEW d \in Dials, RequestReturns(d) PROVE Phases'
    BY <1>20 DEF RequestReturns
<1>21. ASSUME NEW d \in Dials, RequestCloses(d) PROVE Phases'
    BY <1>21 DEF RequestCloses
<1>22. ASSUME NEW d \in Dials, StartRequest(d) PROVE Phases'
    BY <1>22 DEF StartRequest
<1>23. ASSUME NEW d \in Dials, CloseCallbackBegins(d) PROVE Phases'
    BY <1>23 DEF CloseCallbackBegins
<1>24. ASSUME NEW d \in Dials, CloseCallbackEnds(d) PROVE Phases'
    BY <1>24 DEF CloseCallbackEnds
<1>25. ASSUME NEW d \in Dials, PeerCloses(d) PROVE Phases'
    BY <1>25 DEF PeerCloses
<1>26. ASSUME NEW d \in Dials, NEW a \in Actors, TrackerBegins(d, a) PROVE Phases'
    BY <1>26 DEF TrackerBegins, InOnClose
<1>27. ASSUME NEW d \in Dials, NEW a \in Actors, TrackerEnds(d, a) PROVE Phases'
    BY <1>27 DEF TrackerEnds, WgDone
<1>28. ASSUME NEW d \in Dials, NEW i \in Items, PeerResponds(d, i) \/ PeerSendsFrame(d, i)
      PROVE  Phases'
    BY <1>28 DEF PeerResponds, PeerSendsFrame
<1>29. CASE UNCHANGED vars
    BY <1>29 DEF vars
<1> QED
    BY <1>1, <1>2, <1>3, <1>4, <1>5, <1>6, <1>7, <1>8, <1>9, <1>10, <1>11, <1>12, <1>13,
       <1>14, <1>15, <1>16, <1>17, <1>18, <1>19, <1>20, <1>21, <1>22, <1>23, <1>24, <1>25,
       <1>26, <1>27, <1>28, <1>29
       DEF Next, Dial, OnRequest, Tracker, CloseCallback, Peer

(* A connection whose application has heard OnClose stays over. *)
LEMMA EndedStep ==
    ASSUME DialsOK, Phases, Ended, [Next]_vars
    PROVE  Ended'
<1>0. /\ dial \in [Dials -> DialPcs] /\ result \in [Dials -> {"none", "nil", "err"}]
      /\ link \in [Dials -> {"none", "open", "peerClosed", "selfClosed"}]
      /\ cb \in [Dials -> {"armed", "due", "running", "done"}]
      /\ req \in [Dials -> RequestPcs] /\ isHandshake \in [Dials -> BOOLEAN]
      /\ closes \in [Dials -> Nat]
    BY DEF DialsOK
<1> USE <1>0 DEF Phases, Ended, Over, Goto, ReqGoto, CloseLink, callVars, onceVars, netVars, hsVars,
                 inVars
<1>1. ASSUME NEW d \in Dials, DialBegins(d) PROVE Ended'
    BY <1>1 DEF DialBegins
<1>2. ASSUME NEW d \in Dials, DialConnects(d) PROVE Ended'
    BY <1>2 DEF DialConnects
<1>3. ASSUME NEW d \in Dials, DialConnectFails(d) PROVE Ended'
    BY <1>3 DEF DialConnectFails
<1>4. ASSUME NEW d \in Dials, DialSetsOnRequest(d) PROVE Ended'
    BY <1>4 DEF DialSetsOnRequest
<1>5. ASSUME NEW d \in Dials, DialSends(d) PROVE Ended'
    BY <1>5 DEF DialSends
<1>6. ASSUME NEW d \in Dials, DialSendFails(d) PROVE Ended'
    BY <1>6 DEF DialSendFails
<1>7. ASSUME NEW d \in Dials, DialUnwinds(d) PROVE Ended'
    BY <1>7 DEF DialUnwinds
<1>8. ASSUME NEW d \in Dials, DialSucceeds(d) PROVE Ended'
    BY <1>8 DEF DialSucceeds
<1>9. ASSUME NEW d \in Dials, DialFails(d) PROVE Ended'
    BY <1>9 DEF DialFails
<1>10. ASSUME NEW d \in Dials, DialTimesOut(d) PROVE Ended'
    BY <1>10 DEF DialTimesOut
<1>11. ASSUME NEW d \in Dials, DialReturnsErr(d) PROVE Ended'
    BY <1>11 DEF DialReturnsErr
<1>12. ASSUME NEW d \in Dials, HandshakeStops(d) PROVE Ended'
    BY <1>12 DEF HandshakeStops
<1>13. ASSUME NEW d \in Dials, HandshakeAccepts(d) PROVE Ended'
    BY <1>13 DEF HandshakeAccepts
<1>14. ASSUME NEW d \in Dials, CallOnOpen(d) PROVE Ended'
    BY <1>14 DEF CallOnOpen
<1>15. ASSUME NEW d \in Dials, ReportOpen(d) PROVE Ended'
    BY <1>15 DEF ReportOpen
<1>16. ASSUME NEW d \in Dials, EnterServe(d) PROVE Ended'
    BY <1>16 DEF EnterServe
<1>17. ASSUME NEW d \in Dials, ServeChecks(d) PROVE Ended'
    BY <1>17 DEF ServeChecks
<1>18. ASSUME NEW d \in Dials, ServeMessage(d) PROVE Ended'
    BY <1>18 DEF ServeMessage
<1>19. ASSUME NEW d \in Dials, ServeStops(d) PROVE Ended'
    BY <1>19 DEF ServeStops
<1>20. ASSUME NEW d \in Dials, RequestReturns(d) PROVE Ended'
    BY <1>20 DEF RequestReturns
<1>21. ASSUME NEW d \in Dials, RequestCloses(d) PROVE Ended'
    BY <1>21 DEF RequestCloses
<1>22. ASSUME NEW d \in Dials, StartRequest(d) PROVE Ended'
    BY <1>22 DEF StartRequest
<1>23. ASSUME NEW d \in Dials, CloseCallbackBegins(d) PROVE Ended'
    BY <1>23 DEF CloseCallbackBegins
<1>24. ASSUME NEW d \in Dials, CloseCallbackEnds(d) PROVE Ended'
    BY <1>24 DEF CloseCallbackEnds
<1>25. ASSUME NEW d \in Dials, PeerCloses(d) PROVE Ended'
    BY <1>25 DEF PeerCloses
<1>26. ASSUME NEW d \in Dials, NEW a \in Actors, TrackerBegins(d, a) PROVE Ended'
    BY <1>26 DEF TrackerBegins, InOnClose
<1>27. ASSUME NEW d \in Dials, NEW a \in Actors, TrackerEnds(d, a) PROVE Ended'
    BY <1>27 DEF TrackerEnds, WgDone
<1>28. ASSUME NEW d \in Dials, NEW i \in Items, PeerResponds(d, i) \/ PeerSendsFrame(d, i)
      PROVE  Ended'
    BY <1>28 DEF PeerResponds, PeerSendsFrame
<1>29. CASE UNCHANGED vars
    BY <1>29 DEF vars
<1> QED
    BY <1>1, <1>2, <1>3, <1>4, <1>5, <1>6, <1>7, <1>8, <1>9, <1>10, <1>11, <1>12, <1>13,
       <1>14, <1>15, <1>16, <1>17, <1>18, <1>19, <1>20, <1>21, <1>22, <1>23, <1>24, <1>25,
       <1>26, <1>27, <1>28, <1>29
       DEF Next, Dial, OnRequest, Tracker, CloseCallback, Peer

LEMMA EventStep ==
    ASSUME "badFrame" \notin ClientFaults, EventInv, [Next]_vars
    PROVE  EventInv'
    BY TypeStep, FilledStep, FramesStep, PhasesStep, EndedStep DEF EventInv

LEMMA EventInit == Init => EventInv
<1> SUFFICES ASSUME Init PROVE EventInv
    OBVIOUS
<1>1. GoodFrames /\ Phases /\ Ended
    BY DEF Init, GoodFrames, Phases, Ended
<1> QED
    BY <1>1, TypeInit DEF EventInv

(* OnOpen and OnMessage come from the OnRequest callback in two places. *)
LEMMA EventSource ==
    ASSUME DialsOK, [Next]_vars, NEW d \in Dials
    PROVE  /\ opens'[d] = opens[d] \/ req[d] = "onOpen"
           /\ messages'[d] = messages[d] \/ req[d] = "frame"
<1>0. opens \in [Dials -> Nat] /\ messages \in [Dials -> Nat]
    BY DEF DialsOK
<1>1. ASSUME NEW e \in Dials, CallOnOpen(e) \/ ServeMessage(e)
      PROVE  /\ opens'[d] = opens[d] \/ req[d] = "onOpen"
             /\ messages'[d] = messages[d] \/ req[d] = "frame"
    BY <1>0, <1>1 DEF CallOnOpen, ServeMessage, ReqGoto
<1>2. ASSUME NEW e \in Dials, Dial(e) \/ StartRequest(e) \/ CloseCallback(e) \/ Peer(e)
      PROVE  UNCHANGED <<opens, messages>>
    BY <1>2
       DEF Dial, DialBegins, DialConnects, DialConnectFails, DialSetsOnRequest, DialSends,
           DialSendFails, DialUnwinds, DialSucceeds, DialFails, DialTimesOut, DialReturnsErr,
           StartRequest, CloseCallback, CloseCallbackBegins, CloseCallbackEnds, Peer,
           PeerResponds, PeerSendsFrame, PeerCloses
<1>3. ASSUME NEW e \in Dials, Tracker(e) \/ OnRequest(e), ~CallOnOpen(e), ~ServeMessage(e)
      PROVE  UNCHANGED <<opens, messages>>
    BY <1>3
       DEF Tracker, TrackerBegins, TrackerEnds, OnRequest, HandshakeStops, HandshakeAccepts,
           ReportOpen, EnterServe, ServeChecks, ServeStops, RequestReturns, RequestCloses
<1>4. CASE UNCHANGED vars
    BY <1>4 DEF vars
<1> QED
    BY <1>1, <1>2, <1>3, <1>4 DEF Next, OnRequest

(* An application whose Dial has not failed hears OnOpen before Dial        *)
(* returns, and neither OnOpen nor OnMessage after OnClose, however the     *)
(* last input races with the close callback; a frame that ServeConn         *)
(* answers with an error, which leaves the connection open, is excluded.    *)
THEOREM EventsCorrect ==
    ASSUME "badFrame" \notin ClientFaults
    PROVE  Spec => EventsInOrder
<1>1. EventInv /\ [Next]_vars => EventInv'
    BY EventStep
<1>2. ASSUME EventInv, EventInv', [Next]_vars
      PROVE  \A d \in Dials :
                /\ result'[d] = "nil" => opens'[d] = 1
                /\ closes[d] > 0 /\ result[d] # "err" /\ dial[d] # "onClose"
                      => opens'[d] = opens[d] /\ messages'[d] = messages[d]
    <2> SUFFICES ASSUME NEW d \in Dials
                 PROVE  /\ result'[d] = "nil" => opens'[d] = 1
                        /\ closes[d] > 0 /\ result[d] # "err" /\ dial[d] # "onClose"
                              => opens'[d] = opens[d] /\ messages'[d] = messages[d]
        OBVIOUS
    <2>1. result'[d] = "nil" => opens'[d] = 1
        BY <1>2 DEF EventInv, Phases
    <2>2. closes[d] > 0 /\ result[d] # "err" /\ dial[d] # "onClose"
              => req[d] \notin {"onOpen", "frame"}
        BY <1>2 DEF EventInv, Phases, Ended, Over
    <2> QED
        BY <1>2, <2>1, <2>2, EventSource DEF EventInv
<1> QED
    BY <1>1, <1>2, EventInit, PTL DEF Spec, EventsInOrder
=============================================================================
