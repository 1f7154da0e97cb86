------------------------------ MODULE WsClient ------------------------------
(***************************************************************************)
(* Client.Dial of pkg/websocket/client.go with the callbacks it installs:  *)
(* the OnRequest callback (handshake, then ServeConn), the close callback, *)
(* and clientCloseTracker, which counts connections in Client.wg.  Each    *)
(* member of Dials is one call of Dial and the connection it makes.        *)
(*                                                                         *)
(* netpoll (external): a connection has at most one OnRequest callback at  *)
(* a time; the close callback runs once, after Close or after the peer     *)
(* closed, and never beside an OnRequest callback.                         *)
(***************************************************************************)
EXTENDS Integers, Sequences, FiniteSets

CONSTANTS
    Dials,        \* calls of Dial on one Client
    MaxFrames,    \* bound: frames the server sends on a connection
    ClientFaults  \* what may go wrong in an instance, see below

(***************************************************************************)
(* "connect"    DialConnection fails                                       *)
(* "send"       SetOnRequest or the write of the handshake request fails   *)
(* "timeout"    DialTimeout expires before the handshake is reported       *)
(* "response"   the server's answer is no valid 101 response               *)
(* "badFrame"   the server sends a frame that ServeConn answers with an    *)
(*              error (too large, bad continuation, bad compression)       *)
(***************************************************************************)
AllClientFaults == {"connect", "send", "timeout", "response", "badFrame"}

ASSUME ClientAssumption ==
    /\ IsFiniteSet(Dials)
    /\ MaxFrames \in Nat
    /\ ClientFaults \subseteq AllClientFaults

VARIABLES
    dial,          \* where each Dial call is
    result,        \* what it returned
    wg,            \* the counter of Client.wg
    once, owner,   \* clientCloseTracker.once, and who runs its function
    link,          \* the connection
    cb,            \* the close callback
    onRequest,     \* an OnRequest callback is installed
    req,           \* where the OnRequest callback is
    isHandshake, handshakeDone,      \* variables of Dial
    input,         \* netpoll's input buffer: the response, then frames
    frames,        \* frames the server has sent
    opens, closes, dones, messages   \* history: calls of OnOpen, OnClose,
                                     \* wg.Done, OnMessage per connection

callVars == <<dial, result>>
onceVars == <<once, owner>>
netVars  == <<link, cb, onRequest>>
hsVars   == <<isHandshake, handshakeDone>>
inVars   == <<input, frames>>
vars == <<callVars, wg, onceVars, netVars, req, hsVars, inVars,
          opens, closes, dones, messages>>

DialPcs == {"idle", "connect", "setOnRequest", "send", "wait", "unwind",
            "onClose", "returned"}
RequestPcs == {"idle", "enter", "onOpen", "report", "serve", "frame",
               "onClose", "closeFrame"}
Items == {"partial", "good", "bad", "message", "close", "badFrame"}
Actors == {"dial", "request", "closeCallback"}

(* What is kept of each call of Dial has its type ... *)
DialsOK ==
    /\ dial \in [Dials -> DialPcs]
    /\ result \in [Dials -> {"none", "nil", "err"}]
    /\ once \in [Dials -> {"fresh", "running", "done"}]
    /\ owner \in [Dials -> Actors \cup {"nobody"}]
    /\ link \in [Dials -> {"none", "open", "peerClosed", "selfClosed"}]
    /\ cb \in [Dials -> {"armed", "due", "running", "done"}]
    /\ onRequest \in [Dials -> BOOLEAN]
    /\ req \in [Dials -> RequestPcs]
    /\ isHandshake \in [Dials -> BOOLEAN]
    /\ handshakeDone \in [Dials -> {"empty", "nil", "err"}]
    /\ input \in [Dials -> Seq(Items)]
    /\ frames \in [Dials -> 0..MaxFrames]
    /\ opens \in [Dials -> Nat]
    /\ closes \in [Dials -> Nat]
    /\ dones \in [Dials -> Nat]
    /\ messages \in [Dials -> Nat]

(* ... and Client.wg never goes negative.                                   *)
TypeOK == DialsOK /\ wg \in Nat

Init ==
    /\ dial = [d \in Dials |-> "idle"]
    /\ result = [d \in Dials |-> "none"]
    /\ wg = 0
    /\ once = [d \in Dials |-> "fresh"]
    /\ owner = [d \in Dials |-> "nobody"]
    /\ link = [d \in Dials |-> "none"]
    /\ cb = [d \in Dials |-> "armed"]
    /\ onRequest = [d \in Dials |-> FALSE]
    /\ req = [d \in Dials |-> "idle"]
    /\ isHandshake = [d \in Dials |-> TRUE]
    /\ handshakeDone = [d \in Dials |-> "empty"]
    /\ input = [d \in Dials |-> << >>]
    /\ frames = [d \in Dials |-> 0]
    /\ opens = [d \in Dials |-> 0]
    /\ closes = [d \in Dials |-> 0]
    /\ dones = [d \in Dials |-> 0]
    /\ messages = [d \in Dials |-> 0]

-----------------------------------------------------------------------------
(* The pieces the actors share *)

Goto(d, here, there) == dial[d] = here /\ dial' = [dial EXCEPT ![d] = there]
ReqGoto(d, here, there) == req[d] = here /\ req' = [req EXCEPT ![d] = there]

(* conn.Close(): the close callback becomes due unless it is already *)
CloseLink(d) ==
    /\ link' = [link EXCEPT ![d] = IF @ = "open" THEN "selfClosed" ELSE @]
    /\ cb' = [cb EXCEPT ![d] = IF @ = "armed" THEN "due" ELSE @]

WgDone(d) ==
    /\ wg' = wg - 1
    /\ dones' = [dones EXCEPT ![d] = @ + 1]

(* handshakeDone has room for one value; a second one is dropped *)
Report(d, v) ==
    handshakeDone' = [handshakeDone EXCEPT ![d] = IF @ = "empty" THEN v ELSE @]

InOnClose(d, a) ==
    \/ a = "dial" /\ dial[d] = "onClose"
    \/ a = "request" /\ req[d] \in {"onClose", "closeFrame"}
    \/ a = "closeCallback" /\ cb[d] = "running"

(* Mutant: every caller runs the function, one after the other *)
TrackerBeginsAgain(d, a) ==
    /\ InOnClose(d, a)
    /\ once[d] # "running"
    /\ once' = [once EXCEPT ![d] = "running"]
    /\ owner' = [owner EXCEPT ![d] = a]
    /\ closes' = [closes EXCEPT ![d] = @ + 1]
    /\ UNCHANGED <<callVars, wg, netVars, req, hsVars, inVars, opens, dones, messages>>

(* clientCloseTracker.OnClose: the first caller runs Handler.OnClose ...    *)
TrackerBegins(d, a) ==
    /\ InOnClose(d, a)
    /\ once[d] = "fresh"
    /\ once' = [once EXCEPT ![d] = "running"]
    /\ owner' = [owner EXCEPT ![d] = a]
    /\ closes' = [closes EXCEPT ![d] = @ + 1]
    /\ UNCHANGED <<callVars, wg, netVars, req, hsVars, inVars, opens, dones, messages>>

(* Mutant: wg.Done() is forgotten *)
TrackerForgetsDone(d, a) ==
    /\ InOnClose(d, a)
    /\ once[d] = "running" /\ owner[d] = a
    /\ once' = [once EXCEPT ![d] = "done"]
    /\ owner' = [owner EXCEPT ![d] = "nobody"]
    /\ UNCHANGED <<wg, callVars, netVars, req, hsVars, inVars, opens, closes, dones, messages>>

(* ... and then wg.Done(); the other callers of once.Do wait for it.        *)
TrackerEnds(d, a) ==
    /\ InOnClose(d, a)
    /\ once[d] = "running" /\ owner[d] = a
    /\ once' = [once EXCEPT ![d] = "done"]
    /\ owner' = [owner EXCEPT ![d] = "nobody"]
    /\ WgDone(d)
    /\ UNCHANGED <<callVars, netVars, req, hsVars, inVars, opens, closes, messages>>

-----------------------------------------------------------------------------
(* Dial *)

DialBegins(d) ==
    /\ Goto(d, "idle", "connect")
    /\ wg' = wg + 1
    /\ UNCHANGED <<result, onceVars, netVars, req, hsVars, inVars,
                   opens, closes, dones, messages>>

(* DialConnection; AddCloseCallback *)
DialConnects(d) ==
    /\ Goto(d, "connect", "setOnRequest")
    /\ link' = [link EXCEPT ![d] = "open"]
    /\ UNCHANGED <<result, wg, onceVars, cb, onRequest, req, hsVars, inVars,
                   opens, closes, dones, messages>>

DialConnectFails(d) ==
    /\ "connect" \in ClientFaults
    /\ Goto(d, "connect", "returned")
    /\ WgDone(d)
    /\ result' = [result EXCEPT ![d] = "err"]
    /\ UNCHANGED <<onceVars, netVars, req, hsVars, inVars, opens, closes, messages>>

DialSetsOnRequest(d) ==
    /\ Goto(d, "setOnRequest", "send")
    /\ onRequest' = [onRequest EXCEPT ![d] = TRUE]
    /\ UNCHANGED <<result, wg, onceVars, link, cb, req, hsVars, inVars,
                   opens, closes, dones, messages>>

DialSends(d) ==
    /\ Goto(d, "send", "wait")
    /\ UNCHANGED <<result, wg, onceVars, netVars, req, hsVars, inVars,
                   opens, closes, dones, messages>>

(* SetOnRequest or sendHandshake fails: conn.Close() ...                    *)
DialSendFails(d) ==
    /\ "send" \in ClientFaults
    /\ Goto(d, "setOnRequest", "unwind") \/ Goto(d, "send", "unwind")
    /\ CloseLink(d)
    /\ UNCHANGED <<result, wg, onceVars, onRequest, req, hsVars, inVars,
                   opens, closes, dones, messages>>

(* ... c.wg.Done(), and Dial returns the error.                             *)
DialUnwinds(d) ==
    /\ Goto(d, "unwind", "returned")
    /\ WgDone(d)
    /\ result' = [result EXCEPT ![d] = "err"]
    /\ UNCHANGED <<onceVars, netVars, req, hsVars, inVars, opens, closes, messages>>

(* <-handshakeDone yields nil: Dial returns nil *)
DialSucceeds(d) ==
    /\ Goto(d, "wait", "returned")
    /\ handshakeDone[d] = "nil"
    /\ handshakeDone' = [handshakeDone EXCEPT ![d] = "empty"]
    /\ result' = [result EXCEPT ![d] = "nil"]
    /\ UNCHANGED <<wg, onceVars, netVars, req, isHandshake, inVars,
                   opens, closes, dones, messages>>

(* Mutant: the failed handshake calls wg.Done() past the tracker *)
DialFailsUntracked(d) ==
    /\ Goto(d, "wait", "onClose")
    /\ handshakeDone[d] = "err"
    /\ handshakeDone' = [handshakeDone EXCEPT ![d] = "empty"]
    /\ CloseLink(d)
    /\ WgDone(d)
    /\ UNCHANGED <<result, onceVars, onRequest, req, isHandshake, inVars,
                   opens, closes, messages>>

(* <-handshakeDone yields an error: Close, then the tracker's OnClose *)
DialFails(d) ==
    /\ Goto(d, "wait", "onClose")
    /\ handshakeDone[d] = "err"
    /\ handshakeDone' = [handshakeDone EXCEPT ![d] = "empty"]
    /\ CloseLink(d)
    /\ UNCHANGED <<result, wg, onceVars, onRequest, req, isHandshake, inVars,
                   opens, closes, dones, messages>>

(* Mutant: the timer is only started by the first byte of the response *)
DialTimesOutLate(d) ==
    /\ "timeout" \in ClientFaults
    /\ input[d] # << >>
    /\ Goto(d, "wait", "onClose")
    /\ onRequest' = [onRequest EXCEPT ![d] = FALSE]
    /\ CloseLink(d)
    /\ UNCHANGED <<result, wg, onceVars, req, hsVars, inVars,
                   opens, closes, dones, messages>>

(* DialTimeout: SetOnRequest(nil), Close, then the tracker's OnClose *)
DialTimesOut(d) ==
    /\ "timeout" \in ClientFaults
    /\ Goto(d, "wait", "onClose")
    /\ onRequest' = [onRequest EXCEPT ![d] = FALSE]
    /\ CloseLink(d)
    /\ UNCHANGED <<result, wg, onceVars, req, hsVars, inVars,
                   opens, closes, dones, messages>>

DialReturnsErr(d) ==
    /\ once[d] = "done"
    /\ Goto(d, "onClose", "returned")
    /\ result' = [result EXCEPT ![d] = "err"]
    /\ UNCHANGED <<wg, onceVars, netVars, req, hsVars, inVars,
                   opens, closes, dones, messages>>

-----------------------------------------------------------------------------
(* The server at the other end, and netpoll (external) *)

(* Part of a response header, or a whole one *)
PeerResponds(d, item) ==
    /\ link[d] = "open"
    /\ dial[d] = "wait"
    /\ handshakeDone[d] = "empty"
    /\ isHandshake[d]
    /\ input[d] \in {<< >>, <<"partial">>}
    /\ item \in {"partial", "good"} \cup (IF "response" \in ClientFaults THEN {"bad"} ELSE {})
    /\ input' = [input EXCEPT ![d] = <<item>>]
    /\ UNCHANGED <<callVars, wg, onceVars, netVars, req, hsVars, frames,
                   opens, closes, dones, messages>>

(* A frame, once the good response is on its way *)
PeerSendsFrame(d, item) ==
    /\ link[d] = "open"
    /\ ~isHandshake[d] \/ (input[d] # << >> /\ input[d][1] = "good")
    /\ frames[d] < MaxFrames
    /\ item \in {"message", "close"}
          \cup (IF "badFrame" \in ClientFaults THEN {"badFrame"} ELSE {})
    /\ frames' = [frames EXCEPT ![d] = @ + 1]
    /\ input' = [input EXCEPT ![d] = Append(@, item)]
    /\ UNCHANGED <<callVars, wg, onceVars, netVars, req, hsVars,
                   opens, closes, dones, messages>>

PeerCloses(d) ==
    /\ link[d] = "open"
    /\ link' = [link EXCEPT ![d] = "peerClosed"]
    /\ cb' = [cb EXCEPT ![d] = IF onRequest[d] THEN "due" ELSE @]
    /\ UNCHANGED <<callVars, wg, onceVars, onRequest, req, hsVars, inVars,
                   opens, closes, dones, messages>>

(* netpoll starts OnRequest while there is input and the user has not closed *)
StartRequest(d) ==
    /\ onRequest[d]
    /\ input[d] # << >>
    /\ link[d] \in {"open", "peerClosed"}
    /\ cb[d] \in {"armed", "due"}
    /\ ReqGoto(d, "idle", "enter")
    /\ UNCHANGED <<callVars, wg, onceVars, netVars, hsVars, inVars,
                   opens, closes, dones, messages>>

(* The close callback calls the tracker's OnClose *)
CloseCallbackBegins(d) ==
    /\ cb[d] = "due"
    /\ req[d] = "idle"
    /\ cb' = [cb EXCEPT ![d] = "running"]
    /\ UNCHANGED <<callVars, wg, onceVars, link, onRequest, req, hsVars, inVars,
                   opens, closes, dones, messages>>

CloseCallbackEnds(d) ==
    /\ cb[d] = "running"
    /\ once[d] = "done"
    /\ cb' = [cb EXCEPT ![d] = "done"]
    /\ UNCHANGED <<callVars, wg, onceVars, link, onRequest, req, hsVars, inVars,
                   opens, closes, dones, messages>>

-----------------------------------------------------------------------------
(* The OnRequest callback *)

(* An incomplete header: wait for more.  An invalid one: report it; the     *)
(* input is not consumed.                                                   *)
HandshakeStops(d) ==
    /\ ReqGoto(d, "enter", "idle")
    /\ isHandshake[d]
    /\ input[d][1] \in {"partial", "bad"}
    /\ IF input[d][1] = "bad" THEN Report(d, "err") ELSE UNCHANGED handshakeDone
    /\ UNCHANGED <<callVars, wg, onceVars, netVars, isHandshake, inVars,
                   opens, closes, dones, messages>>

(* Mutant: success is reported before OnOpen *)
HandshakeReportsEarly(d) ==
    /\ ReqGoto(d, "enter", "onOpen")
    /\ isHandshake[d]
    /\ input[d][1] = "good"
    /\ input' = [input EXCEPT ![d] = Tail(@)]
    /\ isHandshake' = [isHandshake EXCEPT ![d] = FALSE]
    /\ Report(d, "nil")
    /\ UNCHANGED <<callVars, wg, onceVars, netVars, frames,
                   opens, closes, dones, messages>>

(* A valid response: reader.Skip, isHandshake = false *)
HandshakeAccepts(d) ==
    /\ ReqGoto(d, "enter", "onOpen")
    /\ isHandshake[d]
    /\ input[d][1] = "good"
    /\ input' = [input EXCEPT ![d] = Tail(@)]
    /\ isHandshake' = [isHandshake EXCEPT ![d] = FALSE]
    /\ UNCHANGED <<callVars, wg, onceVars, netVars, handshakeDone, frames,
                   opens, closes, dones, messages>>

CallOnOpen(d) ==
    /\ ReqGoto(d, "onOpen", "report")
    /\ opens' = [opens EXCEPT ![d] = @ + 1]
    /\ UNCHANGED <<callVars, wg, onceVars, netVars, hsVars, inVars,
                   closes, dones, messages>>

(* handshakeDone <- nil, then ServeConn if frames came with the response *)
ReportOpen(d) ==
    /\ ReqGoto(d, "report", IF input[d] # << >> THEN "serve" ELSE "idle")
    /\ Report(d, "nil")
    /\ UNCHANGED <<callVars, wg, onceVars, netVars, isHandshake, inVars,
                   opens, closes, dones, messages>>

(* After the handshake: OnClose when the connection is gone, else ServeConn *)
EnterServe(d) ==
    /\ ReqGoto(d, "enter", IF link[d] = "open" THEN "serve" ELSE "onClose")
    /\ ~isHandshake[d]
    /\ UNCHANGED <<callVars, wg, onceVars, netVars, hsVars, inVars,
                   opens, closes, dones, messages>>

(* ServeConn's loop: OnClose when not active, return when nothing is left *)
ServeChecks(d) ==
    /\ ReqGoto(d, "serve", IF link[d] # "open" THEN "onClose"
                           ELSE IF input[d] = << >> THEN "idle" ELSE "frame")
    /\ UNCHANGED <<callVars, wg, onceVars, netVars, hsVars, inVars,
                   opens, closes, dones, messages>>

(* A complete message reaches OnMessage *)
ServeMessage(d) ==
    /\ ReqGoto(d, "frame", "serve")
    /\ input[d][1] = "message"
    /\ input' = [input EXCEPT ![d] = Tail(@)]
    /\ messages' = [messages EXCEPT ![d] = @ + 1]
    /\ UNCHANGED <<callVars, wg, onceVars, netVars, hsVars, frames,
                   opens, closes, dones>>

(* A close frame, or a frame that is answered with an error: both call      *)
(* OnClose ...                                                              *)
ServeStops(d) ==
    /\ ReqGoto(d, "frame", IF input[d][1] = "close" THEN "closeFrame" ELSE "onClose")
    /\ input[d][1] \in {"close", "badFrame"}
    /\ input' = [input EXCEPT ![d] = Tail(@)]
    /\ UNCHANGED <<callVars, wg, onceVars, netVars, hsVars, frames,
                   opens, closes, dones, messages>>

(* ... but only the close frame also closes the connection.                 *)
RequestReturns(d) ==
    /\ once[d] = "done"
    /\ ReqGoto(d, "onClose", "idle")
    /\ UNCHANGED <<callVars, wg, onceVars, netVars, hsVars, inVars,
                   opens, closes, dones, messages>>

(* Mutant: a close frame does not close the connection *)
RequestLeavesOpen(d) ==
    /\ once[d] = "done"
    /\ ReqGoto(d, "closeFrame", "idle")
    /\ UNCHANGED <<callVars, wg, onceVars, netVars, hsVars, inVars,
                   opens, closes, dones, messages>>

RequestCloses(d) ==
    /\ once[d] = "done"
    /\ ReqGoto(d, "closeFrame", "idle")
    /\ CloseLink(d)
    /\ UNCHANGED <<callVars, wg, onceVars, onRequest, hsVars, inVars,
                   opens, closes, dones, messages>>

-----------------------------------------------------------------------------
Dial(d) ==
    \/ DialBegins(d)
    \/ DialConnects(d)
    \/ DialConnectFails(d)
    \/ DialSetsOnRequest(d)
    \/ DialSends(d)
    \/ DialSendFails(d)
    \/ DialUnwinds(d)
    \/ DialSucceeds(d)
    \/ DialFails(d)
    \/ DialTimesOut(d)
    \/ DialReturnsErr(d)

OnRequest(d) ==
    \/ HandshakeStops(d)
    \/ HandshakeAccepts(d)
    \/ CallOnOpen(d)
    \/ ReportOpen(d)
    \/ EnterServe(d)
    \/ ServeChecks(d)
    \/ ServeMessage(d)
    \/ ServeStops(d)
    \/ RequestReturns(d)
    \/ RequestCloses(d)

Tracker(d) == \E a \in Actors : TrackerBegins(d, a) \/ TrackerEnds(d, a)

CloseCallback(d) == CloseCallbackBegins(d) \/ CloseCallbackEnds(d)

Peer(d) ==
    \/ \E item \in Items : PeerResponds(d, item) \/ PeerSendsFrame(d, item)
    \/ PeerCloses(d)

Next ==
    \E d \in Dials :
        Dial(d) \/ OnRequest(d) \/ StartRequest(d) \/ Tracker(d) \/ CloseCallback(d)
            \/ Peer(d)

Spec == Init /\ [][Next]_vars

(* Every goroutine that can run does, the dial timer too; the server at the *)
(* other end and the application's calls of Dial are free to stop.          *)
Fairness ==
    \A d \in Dials :
        /\ WF_vars(dial[d] # "idle" /\ Dial(d))
        /\ WF_vars(OnRequest(d))
        /\ WF_vars(StartRequest(d))
        /\ WF_vars(Tracker(d))
        /\ WF_vars(CloseCallback(d))

FairSpec == Spec /\ Fairness

-----------------------------------------------------------------------------
(* Properties *)

(* The comment on clientCloseTracker: wg.Done() is called exactly once per  *)
(* connection, whichever of Dial, the OnRequest callback and the close      *)
(* callback come to it, and in any order.                                   *)
DoneOnce ==
    \A d \in Dials : dones[d] <= 1

(* What Wait waits for: when the counter is zero, every Dial that has begun *)
(* is settled, with its OnClose finished if it ever had a connection.       *)
WaitMeansSettled ==
    wg = 0 => \A d \in Dials :
        dial[d] # "idle" => once[d] = "done" \/ link[d] = "none"

(* An application whose Dial has not failed hears OnOpen before Dial        *)
(* returns, and OnOpen and OnMessage only before OnClose, however the last  *)
(* input races with the close callback.  (A Dial that gave up waiting may   *)
(* still see a late OnOpen.)                                                *)
EventsInOrder ==
    [][\A d \in Dials :
          /\ result'[d] = "nil" => opens'[d] = 1
          /\ closes[d] > 0 /\ result[d] # "err" /\ dial[d] # "onClose"
                => opens'[d] = opens[d] /\ messages'[d] = messages[d]]_vars

(* Every Dial returns, whatever the server and the callbacks do *)
DialReturns ==
    \A d \in Dials : dial[d] = "connect" ~> dial[d] = "returned"

(* OnClose's comment, and Wait's: an application that has heard OnClose,    *)
(* and no longer waits for the connection, has one that is closed or being  *)
(* closed.                                                                  *)
OnCloseMeansClosed ==
    \A d \in Dials : closes[d] > 0 ~> link[d] # "open"

(* A connection that has closed is given up by Wait: wg.Done() happens for  *)
(* it, although it is reached on different paths.                           *)
ClosedIsReleased ==
    \A d \in Dials :
        link[d] \in {"peerClosed", "selfClosed"} ~> dones[d] >= 1
=============================================================================
