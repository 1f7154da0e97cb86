------------------------------ MODULE WsSession ------------------------------
(***************************************************************************)
(* Reading a WebSocket connection: Upgrade, ServeConn and processFrame of  *)
(* pkg/websocket/websocket.go, the Assembler that joins fragments and      *)
(* DecompressData.  A server's session is the ReadHandler that Upgrade     *)
(* installs and reads through a bufio.Reader; a client's (rw is nil) is    *)
(* called by the OnRequest callback of Dial and reads netpoll's own buffer *)
(* (what Dial does before that is "new" and "onOpen" here).                *)
(*                                                                         *)
(* A frame is a record of its opcode, Fin bit, Rsv1 bit and length.  The   *)
(* bytes of a payload are named by <<session, number of the frame>>, and   *)
(* mem tells which payloads were copied into a buffer, in which order.     *)
(***************************************************************************)
EXTENDS PayloadPool, SequencesExt

CONSTANTS
    Sessions,       \* upgraded connections
    Input,          \* the array of netpoll's that each one's bytes arrive in
    Frames,         \* frames a client may send
    InflatedSizes,  \* sizes a compressed message may inflate to
    MaxFrames,      \* bound: frames a client sends on one connection
    MaxFrameSize,   \* Config.MaxFrameSize; 0 is unlimited
    Compression,    \* Config.EnableCompression after the negotiation
    ReadsTimeOut    \* netpoll's read timeout may expire in the middle of a frame

DataOps == {"text", "binary"}
ControlOps == {"ping", "pong", "close"}

ASSUME SessionAssumption ==
    /\ \A f \in Frames : /\ f.op \in DataOps \cup {"cont"} \cup ControlOps
                         /\ f.fin \in BOOLEAN /\ f.rsv1 \in BOOLEAN
                         /\ f.len \in Int
    /\ \A s \in Sessions : Input[s] \in Bufs /\ Home[Input[s]] = -1
    /\ \A s, t \in Sessions : Input[s] = Input[t] => s = t
    /\ InflatedSizes \subseteq Nat
    /\ MaxFrames \in Nat /\ MaxFrameSize \in Nat
    /\ Compression \in BOOLEAN /\ ReadsTimeOut \in BOOLEAN

VARIABLES
    direct,         \* a client's session: rw is nil
    up, link,       \* how far Upgrade is; the connection
    pc,             \* where the callback that runs the ReadHandler is
    sent, pending,  \* frames the client has sent, and how much of the newest
                    \* is under way: "start" some header bytes of the next one,
                    \* "header" the payload of the last one is still to come
    moved,          \* frames that have left netpoll for the bufio.Reader
    taken,          \* frames whose header ServeConn has read from there
    payload,        \* the slice the current frame was read into
    buffer, isCompressed, lastOpCode,    \* fields of the Assembler
    full, reassembled,                   \* what ProcessFrame returned
    delivered, closes                    \* history: calls of OnMessage, OnClose

netVars  == <<direct, up, link, sent, pending>>
readVars == <<moved, taken>>
asmVars  == <<buffer, isCompressed, lastOpCode>>
msgVars  == <<full, reassembled, delivered>>
vars == <<netVars, pc, readVars, memVars, payload, asmVars, msgVars, closes>>

Pcs == {"idle", "loop", "read", "payload", "process", "message", "err"}

Init ==
    /\ direct \in [Sessions -> BOOLEAN]
    /\ up = [s \in Sessions |-> "new"]
    /\ link = [s \in Sessions |-> "open"]
    /\ pc = [s \in Sessions |-> "idle"]
    /\ sent = [s \in Sessions |-> << >>]
    /\ pending = [s \in Sessions |-> "none"]
    /\ moved = [s \in Sessions |-> 0]
    /\ taken = [s \in Sessions |-> 0]
    /\ PoolInit
    /\ payload = [s \in Sessions |-> Nil]
    /\ buffer = [s \in Sessions |-> Nil]
    /\ isCompressed = [s \in Sessions |-> FALSE]
    /\ lastOpCode = [s \in Sessions |-> "none"]
    /\ full = [s \in Sessions |-> Nil]
    /\ reassembled = [s \in Sessions |-> FALSE]
    /\ delivered = [s \in Sessions |-> << >>]
    /\ closes = [s \in Sessions |-> 0]

-----------------------------------------------------------------------------
(* Upgrade, the client and netpoll *)

(* Hijack, and the 101 response is flushed; OnOpen runs *)
UpgradeFlushes(s) ==
    /\ up[s] = "new" /\ link[s] = "open"
    /\ up' = [up EXCEPT ![s] = "onOpen"]
    /\ UNCHANGED <<direct, link, sent, pending, pc, readVars, memVars, payload, asmVars,
                   msgVars, closes>>

UpgradeFlushFails(s) ==
    /\ up[s] = "new"
    /\ up' = [up EXCEPT ![s] = "failed"]
    /\ link' = [link EXCEPT ![s] = "selfClosed"]
    /\ UNCHANGED <<direct, sent, pending, pc, readVars, memVars, payload, asmVars,
                   msgVars, closes>>

(* OnOpen has returned; NewAssembler, SetReadHandler *)
UpgradeInstalls(s) ==
    /\ up[s] = "onOpen"
    /\ up' = [up EXCEPT ![s] = "ready"]
    /\ UNCHANGED <<direct, link, sent, pending, pc, readVars, memVars, payload, asmVars,
                   msgVars, closes>>

(* The client sends frames once it has the 101 response, in pieces *)
PeerStartsFrame(s) ==
    /\ up[s] \in {"onOpen", "ready"} /\ link[s] = "open"
    /\ pending[s] = "none"
    /\ Len(sent[s]) < MaxFrames
    /\ pending' = [pending EXCEPT ![s] = "start"]
    /\ UNCHANGED <<direct, up, link, sent, pc, readVars, memVars, payload, asmVars,
                   msgVars, closes>>

PeerSendsHeader(s, f) ==
    /\ link[s] = "open"
    /\ pending[s] = "start"
    /\ sent' = [sent EXCEPT ![s] = Append(@, f)]
    /\ pending' = [pending EXCEPT ![s] = IF f.len > 0 THEN "header" ELSE "none"]
    /\ UNCHANGED <<direct, up, link, pc, readVars, memVars, payload, asmVars, msgVars, closes>>

PeerSendsPayload(s) ==
    /\ link[s] = "open"
    /\ pending[s] = "header"
    /\ pending' = [pending EXCEPT ![s] = "none"]
    /\ UNCHANGED <<direct, up, link, sent, pc, readVars, memVars, payload, asmVars,
                   msgVars, closes>>

PeerCloses(s) ==
    /\ up[s] \in {"onOpen", "ready"} /\ link[s] = "open"
    /\ link' = [link EXCEPT ![s] = "peerClosed"]
    /\ UNCHANGED <<direct, up, sent, pending, pc, readVars, memVars, payload, asmVars,
                   msgVars, closes>>

Goto(s, here, there) == pc[s] = here /\ pc' = [pc EXCEPT ![s] = there]

Unread(s) == Len(sent[s]) - taken[s]

(* netpoll runs OnRequest, and with it the ReadHandler, while its own input  *)
(* buffer is not empty; it knows nothing of the bufio.Reader.               *)
StartCallback(s) ==
    /\ up[s] = "ready" /\ link[s] = "open"
    /\ moved[s] < Len(sent[s]) \/ pending[s] = "start"
    /\ Goto(s, "idle", "loop")
    /\ UNCHANGED <<netVars, readVars, memVars, payload, asmVars, msgVars, closes>>

Close(s) == link' = [link EXCEPT ![s] = IF @ = "open" THEN "selfClosed" ELSE @]

(* An error is returned: a server's engine closes the connection, a         *)
(* client's netpoll goes on.                                                *)
ReadHandlerFails(s) ==
    /\ Goto(s, "err", "idle")
    /\ IF direct[s] THEN UNCHANGED link ELSE Close(s)
    /\ UNCHANGED <<direct, up, sent, pending, readVars, memVars, payload, asmVars,
                   msgVars, closes>>

-----------------------------------------------------------------------------
(* ServeConn *)

OnClose(s) == closes' = [closes EXCEPT ![s] = @ + 1]

(* !IsActive: OnClose, io.EOF *)
ServeFindsClosed(s) ==
    /\ link[s] # "open"
    /\ Goto(s, "loop", "err")
    /\ OnClose(s)
    /\ UNCHANGED <<netVars, readVars, memVars, payload, asmVars, msgVars>>

(* Mutant: what lies in the bufio.Reader is not counted *)
ServeWaitsForNetpoll(s) ==
    /\ link[s] = "open"
    /\ moved[s] = Len(sent[s])
    /\ Goto(s, "loop", "idle")
    /\ UNCHANGED <<netVars, readVars, memVars, payload, asmVars, msgVars, closes>>

(* Fewer than two bytes are available: return and wait for netpoll *)
ServeWaits(s) ==
    /\ link[s] = "open"
    /\ Unread(s) = 0
    /\ Goto(s, "loop", "idle")
    /\ UNCHANGED <<netVars, readVars, memVars, payload, asmVars, msgVars, closes>>

(* Two bytes or more: read the header, waiting for the rest of it *)
ServeReads(s) ==
    /\ link[s] = "open" /\ ~direct[s]
    /\ Unread(s) > 0 \/ pending[s] = "start"
    /\ Goto(s, "loop", "read")
    /\ UNCHANGED <<netVars, readVars, memVars, payload, asmVars, msgVars, closes>>

(* A blocked read ends without data: the connection is gone, or a timeout *)
ReadBreaks(s) == link[s] # "open" \/ ReadsTimeOut

ReadHeaderFails(s) ==
    /\ Goto(s, "read", "err")
    /\ Unread(s) = 0
    /\ ReadBreaks(s)
    /\ OnClose(s)
    /\ UNCHANGED <<netVars, readVars, memVars, payload, asmVars, msgVars>>

Frame(s) == sent[s][taken[s]]
NextFrame(s) == sent[s][taken[s] + 1]

(* Mutant: the limit is off by one *)
TooLargeLate(size) == MaxFrameSize > 0 /\ size > MaxFrameSize + 1

TooLarge(size) == MaxFrameSize > 0 /\ size > MaxFrameSize

(* The header of the next frame is consumed through the bufio.Reader, which *)
(* first takes some of netpoll's input when it is empty.                    *)
TakeHeader(s) ==
    /\ taken' = [taken EXCEPT ![s] = @ + 1]
    /\ \E k \in taken[s] + 1..Len(sent[s]) :
          /\ moved[s] > taken[s] => k = moved[s]
          /\ moved' = [moved EXCEPT ![s] = k]

(* parseHeader's error; nothing is consumed *)
BadHeader(f) == f.op \in ControlOps /\ f.len > 125

ReadHeaderBad(s) ==
    /\ Goto(s, "read", "err")
    /\ Unread(s) > 0 /\ BadHeader(NextFrame(s))
    /\ OnClose(s)
    /\ UNCHANGED <<netVars, readVars, memVars, payload, asmVars, msgVars>>

FrameTooLarge(s) ==
    /\ Goto(s, "read", "err")
    /\ Unread(s) > 0 /\ ~BadHeader(NextFrame(s))
    /\ TooLarge(NextFrame(s).len)
    /\ TakeHeader(s)
    /\ OnClose(s)
    /\ UNCHANGED <<netVars, memVars, payload, asmVars, msgVars>>

ReadHeader(s) ==
    /\ Goto(s, "read", "payload")
    /\ Unread(s) > 0 /\ ~BadHeader(NextFrame(s))
    /\ NextFrame(s).len >= 0 /\ ~TooLarge(NextFrame(s).len)
    /\ TakeHeader(s)
    /\ \E slice \in getPayloadBuffer(pool, NextFrame(s).len) :
          /\ payload' = [payload EXCEPT ![s] = slice]
          /\ pool' = Without(pool, slice)
    /\ UNCHANGED <<netVars, mem, asmVars, msgVars, closes>>

(* A 64-bit length with the top bit set is a negative int64: it passes the  *)
(* size check, and getPayloadBuffer panics on slicing an array of the first *)
(* pool.  The engine recovers and closes; OnClose is not called.            *)
NegativeLength(s) ==
    /\ Goto(s, "read", "idle")
    /\ Unread(s) > 0
    /\ NextFrame(s).len < 0
    /\ TakeHeader(s)
    /\ \E slice \in getPayloadBuffer(pool, 0) : pool' = Without(pool, slice)
    /\ Close(s)
    /\ UNCHANGED <<direct, up, sent, pending, mem, payload, asmVars, msgVars, closes>>

PayloadArrived(s) == taken[s] < Len(sent[s]) \/ pending[s] # "header"

(* io.ReadFull *)
ReadPayload(s) ==
    /\ Goto(s, "payload", "process")
    /\ PayloadArrived(s)
    /\ mem' = [mem EXCEPT ![payload[s].buf] = << <<s, taken[s]>> >>]
    /\ UNCHANGED <<netVars, readVars, pool, payload, asmVars, msgVars, closes>>

ReadPayloadFails(s) ==
    /\ Goto(s, "payload", "err")
    /\ ~PayloadArrived(s)
    /\ ReadBreaks(s)
    /\ pool' = putPayloadBuffer(pool, payload[s])
    /\ payload' = [payload EXCEPT ![s] = Nil]
    /\ OnClose(s)
    /\ UNCHANGED <<netVars, readVars, mem, asmVars, msgVars>>

(* A client peeks at the header and waits until the frame is there as a     *)
(* whole; the error of a bad header is dropped, and it waits too.           *)
WholeFrame(s) ==
    /\ Unread(s) > 0 /\ ~BadHeader(NextFrame(s))
    /\ taken[s] + 1 < Len(sent[s]) \/ pending[s] # "header"

SkipHeader(s) ==
    /\ taken' = [taken EXCEPT ![s] = @ + 1]
    /\ moved' = [moved EXCEPT ![s] = @ + 1]

PeekWaits(s) ==
    /\ link[s] = "open" /\ direct[s]
    /\ Unread(s) > 0 \/ pending[s] = "start"
    /\ ~WholeFrame(s)
    /\ Goto(s, "loop", "idle")
    /\ UNCHANGED <<netVars, readVars, memVars, payload, asmVars, msgVars, closes>>

(* Its payload is the next bytes of netpoll's buffer, none for a negative   *)
(* length.                                                                  *)
PeekTakes(s) ==
    LET n == Max({0, NextFrame(s).len})
    IN  /\ link[s] = "open" /\ direct[s]
        /\ WholeFrame(s) /\ ~TooLarge(n)
        /\ Goto(s, "loop", "process")
        /\ SkipHeader(s)
        /\ payload' = [payload EXCEPT ![s] = [buf |-> Input[s], len |-> n, cap |-> n]]
        /\ mem' = [mem EXCEPT ![Input[s]] = << <<s, taken[s] + 1>> >>]
        /\ UNCHANGED <<netVars, pool, asmVars, msgVars, closes>>

(* The header of too large a frame is skipped, its payload is not: whatever *)
(* comes after OnClose is read from the middle of a frame ("garbled", which *)
(* is as far as the model goes).                                            *)
PeekTooLarge(s) ==
    /\ link[s] = "open" /\ direct[s]
    /\ WholeFrame(s) /\ TooLarge(NextFrame(s).len)
    /\ Goto(s, "loop", "err")
    /\ SkipHeader(s)
    /\ link' = [link EXCEPT ![s] = "garbled"]
    /\ OnClose(s)
    /\ UNCHANGED <<direct, up, sent, pending, memVars, payload, asmVars, msgVars>>

-----------------------------------------------------------------------------
(* processFrame.  Each way through it ends with the payload, if ServeConn   *)
(* took it from a pool, going back there after p was left by what came      *)
(* before.                                                                  *)

FrameDone(s, p) ==
    /\ pool' = IF direct[s] THEN p ELSE putPayloadBuffer(p, payload[s])
    /\ payload' = [payload EXCEPT ![s] = Nil]

(* OnPing and the pong that answers it, or OnPong *)
PingPong(s) ==
    /\ Goto(s, "process", "loop")
    /\ Frame(s).op \in {"ping", "pong"}
    /\ FrameDone(s, pool)
    /\ UNCHANGED <<netVars, readVars, mem, asmVars, msgVars, closes>>

(* Mutant: the close frame does not end the loop *)
CloseFrameGoesOn(s) ==
    /\ Goto(s, "process", "loop")
    /\ Frame(s).op = "close"
    /\ OnClose(s)
    /\ Close(s)
    /\ FrameDone(s, pool)
    /\ UNCHANGED <<direct, up, sent, pending, readVars, mem, asmVars, msgVars>>

CloseFrame(s) ==
    /\ Goto(s, "process", "err")
    /\ Frame(s).op = "close"
    /\ OnClose(s)
    /\ Close(s)
    /\ FrameDone(s, pool)
    /\ UNCHANGED <<direct, up, sent, pending, readVars, mem, asmVars, msgVars>>

(* The Assembler refuses the frame: an open fragment buffer is dropped,     *)
(* OnClose, and the error is returned.                                      *)
Refused(s) ==
    LET f == Frame(s)
    IN  \/ buffer[s] = Nil /\ f.op = "cont"
        \/ buffer[s] # Nil /\ f.op \in DataOps
        \/ buffer[s] # Nil /\ f.op = "cont" /\ TooLarge(buffer[s].len + f.len)

AssemblerRefuses(s) ==
    /\ Goto(s, "process", "err")
    /\ Refused(s)
    /\ FrameDone(s, IF buffer[s] = Nil THEN pool ELSE putPayloadBuffer(pool, buffer[s]))
    /\ buffer' = [buffer EXCEPT ![s] = Nil]
    /\ OnClose(s)
    /\ UNCHANGED <<netVars, readVars, mem, isCompressed, lastOpCode, msgVars>>

(* OnMessage is called with slice.  parts is what slice contains. *)
CallOnMessage(s, op, slice, parts, own) ==
    /\ full' = [full EXCEPT ![s] = slice]
    /\ reassembled' = [reassembled EXCEPT ![s] = own]
    /\ delivered' = [delivered EXCEPT ![s] =
                         Append(@, [op |-> op, parts |-> parts, len |-> slice.len])]

(* The size DecompressData's buffer has when n bytes have gone into it: it  *)
(* starts at twice the compressed size and doubles, up to one more than the *)
(* limit.                                                                   *)
InflateSize(compressed, n) ==
    LET doubled(l) == IF TooLarge(2 * l) THEN MaxFrameSize + 1 ELSE 2 * l
        grow[l \in Nat] == IF n <= l \/ doubled(l) <= l THEN l ELSE grow[doubled(l)]
    IN  grow[IF 2 * compressed < 4096 THEN 4096 ELSE 2 * compressed]

(* The slices DecompressData may return for a compressed one when the pools *)
(* are p; a full buffer may grow once more before Read says io.EOF.         *)
DecompressData(p, slice) ==
    UNION {{[big EXCEPT !.len = n] : big \in getPayloadBuffer(p, InflateSize(slice.len, n + more))} :
              n \in {k \in InflatedSizes : ~TooLarge(k)}, more \in {0, 1}}

(* No message is open and a text or binary frame comes: the compression and *)
(* the opcode of the message are those of this frame.                       *)
BeginsMessage(s) ==
    /\ pc[s] = "process"
    /\ buffer[s] = Nil /\ Frame(s).op \in DataOps
    /\ isCompressed' = [isCompressed EXCEPT ![s] = Frame(s).rsv1 /\ Compression]
    /\ lastOpCode' = [lastOpCode EXCEPT ![s] = Frame(s).op]

(* The payload itself is the message *)
SingleFrame(s) ==
    /\ Goto(s, "process", "message")
    /\ BeginsMessage(s)
    /\ Frame(s).fin /\ ~isCompressed'[s]
    /\ CallOnMessage(s, Frame(s).op, payload[s], mem[payload[s].buf], FALSE)
    /\ UNCHANGED <<netVars, readVars, memVars, payload, buffer, closes>>

SingleCompressed(s) ==
    /\ Goto(s, "process", "message")
    /\ BeginsMessage(s)
    /\ Frame(s).fin /\ isCompressed'[s]
    /\ \E out \in DecompressData(pool, payload[s]) :
          /\ pool' = Without(pool, out)
          /\ mem' = [mem EXCEPT ![out.buf] = mem[payload[s].buf]]
          /\ CallOnMessage(s, Frame(s).op, out, mem[payload[s].buf], TRUE)
    /\ UNCHANGED <<netVars, readVars, payload, buffer, closes>>

(* The deflate stream is corrupt, or inflates beyond MaxFrameSize *)
SingleInflateFails(s) ==
    /\ Goto(s, "process", "err")
    /\ BeginsMessage(s)
    /\ Frame(s).fin /\ isCompressed'[s]
    /\ FrameDone(s, pool)
    /\ OnClose(s)
    /\ UNCHANGED <<netVars, readVars, mem, buffer, msgVars>>

(* The first fragment is copied into a buffer of at least 512 bytes *)
FirstFragment(s) ==
    /\ Goto(s, "process", "loop")
    /\ BeginsMessage(s)
    /\ ~Frame(s).fin
    /\ \E new \in getPayloadBuffer(pool, Max({512, payload[s].len})) :
          /\ buffer' = [buffer EXCEPT ![s] = [new EXCEPT !.len = payload[s].len]]
          /\ mem' = [mem EXCEPT ![new.buf] = mem[payload[s].buf]]
          /\ FrameDone(s, Without(pool, new))
    /\ UNCHANGED <<netVars, readVars, msgVars, closes>>

(* A continuation frame's payload is appended, in the buffer itself when it *)
(* has room, else in a new one of at least twice its capacity.              *)
Required(s) == buffer[s].len + payload[s].len

(* Mutant: the room is checked before the payload is counted *)
FitsAlready(s) == buffer[s].len <= buffer[s].cap

Fits(s) == Required(s) <= buffer[s].cap
Appended(s) ==
    {[slice EXCEPT !.len = Required(s)] : slice \in
        IF Fits(s) THEN {buffer[s]}
        ELSE getPayloadBuffer(pool, Max({2 * buffer[s].cap, Required(s)}))}

(* The pools once the payload is in slice: an outgrown buffer went back *)
AfterAppend(s, slice) ==
    IF Fits(s) THEN pool ELSE putPayloadBuffer(Without(pool, slice), buffer[s])

(* Mutant: the payload is copied to the start of the buffer *)
JoinedAtStart(s) == mem[payload[s].buf]

Joined(s) == mem[buffer[s].buf] \o mem[payload[s].buf]

Continues(s) ==
    /\ pc[s] = "process"
    /\ buffer[s] # Nil /\ Frame(s).op = "cont" /\ ~TooLarge(Required(s))

MiddleFragment(s) ==
    /\ Goto(s, "process", "loop")
    /\ Continues(s)
    /\ ~Frame(s).fin
    /\ \E slice \in Appended(s) :
          /\ buffer' = [buffer EXCEPT ![s] = slice]
          /\ mem' = [mem EXCEPT ![slice.buf] = Joined(s)]
          /\ FrameDone(s, AfterAppend(s, slice))
    /\ UNCHANGED <<netVars, readVars, isCompressed, lastOpCode, msgVars, closes>>

(* Mutant: the message's buffer goes back before OnMessage *)
LastFragmentPutEarly(s) ==
    /\ Goto(s, "process", "message")
    /\ Continues(s)
    /\ Frame(s).fin /\ ~isCompressed[s]
    /\ \E slice \in Appended(s) :
          /\ mem' = [mem EXCEPT ![slice.buf] = Joined(s)]
          /\ pool' = putPayloadBuffer(AfterAppend(s, slice), slice)
          /\ CallOnMessage(s, lastOpCode[s], slice, Joined(s), TRUE)
    /\ buffer' = [buffer EXCEPT ![s] = Nil]
    /\ UNCHANGED <<netVars, readVars, payload, isCompressed, lastOpCode, closes>>

(* The last fragment: the buffer leaves the Assembler and is the message ... *)
LastFragment(s) ==
    /\ Goto(s, "process", "message")
    /\ Continues(s)
    /\ Frame(s).fin /\ ~isCompressed[s]
    /\ \E slice \in Appended(s) :
          /\ mem' = [mem EXCEPT ![slice.buf] = Joined(s)]
          /\ pool' = AfterAppend(s, slice)
          /\ CallOnMessage(s, lastOpCode[s], slice, Joined(s), TRUE)
    /\ buffer' = [buffer EXCEPT ![s] = Nil]
    /\ UNCHANGED <<netVars, readVars, payload, isCompressed, lastOpCode, closes>>

(* ... or is inflated into another one and goes back ...                    *)
LastCompressed(s) ==
    /\ Goto(s, "process", "message")
    /\ Continues(s)
    /\ Frame(s).fin /\ isCompressed[s]
    /\ \E slice \in Appended(s) :
          LET p == AfterAppend(s, slice)
          IN  \E out \in DecompressData(p, slice) :
                 /\ mem' = [mem EXCEPT ![slice.buf] = Joined(s), ![out.buf] = Joined(s)]
                 /\ pool' = putPayloadBuffer(Without(p, out), slice)
                 /\ CallOnMessage(s, lastOpCode[s], out, Joined(s), TRUE)
    /\ buffer' = [buffer EXCEPT ![s] = Nil]
    /\ UNCHANGED <<netVars, readVars, payload, isCompressed, lastOpCode, closes>>

(* ... or cannot be inflated.                                               *)
LastInflateFails(s) ==
    /\ Goto(s, "process", "err")
    /\ Continues(s)
    /\ Frame(s).fin /\ isCompressed[s]
    /\ \E slice \in Appended(s) :
          /\ mem' = [mem EXCEPT ![slice.buf] = Joined(s)]
          /\ FrameDone(s, putPayloadBuffer(AfterAppend(s, slice), slice))
    /\ buffer' = [buffer EXCEPT ![s] = Nil]
    /\ OnClose(s)
    /\ UNCHANGED <<netVars, readVars, isCompressed, lastOpCode, msgVars>>

(* Mutant: the payload of an unfragmented message is put back twice *)
MessageReturnsPutsTwice(s) ==
    /\ Goto(s, "message", "loop")
    /\ FrameDone(s, putPayloadBuffer(pool, full[s]))
    /\ full' = [full EXCEPT ![s] = Nil]
    /\ UNCHANGED <<netVars, readVars, mem, asmVars, reassembled, delivered, closes>>

(* OnMessage returns: a message in a buffer of its own goes back, and then  *)
(* the payload.                                                             *)
MessageReturns(s) ==
    /\ Goto(s, "message", "loop")
    /\ FrameDone(s, IF reassembled[s] THEN putPayloadBuffer(pool, full[s]) ELSE pool)
    /\ full' = [full EXCEPT ![s] = Nil]
    /\ UNCHANGED <<netVars, readVars, mem, asmVars, reassembled, delivered, closes>>

(* OnMessage panics: the engine recovers and closes the connection; neither *)
(* slice goes back to a pool.  (A client's panic ends the process.)         *)
MessagePanics(s) ==
    /\ ~direct[s]
    /\ Goto(s, "message", "idle")
    /\ Close(s)
    /\ payload' = [payload EXCEPT ![s] = Nil]
    /\ full' = [full EXCEPT ![s] = Nil]
    /\ UNCHANGED <<direct, up, sent, pending, readVars, memVars, asmVars, reassembled,
                   delivered, closes>>

-----------------------------------------------------------------------------
Upgrade(s) == UpgradeFlushes(s) \/ UpgradeFlushFails(s) \/ UpgradeInstalls(s)

Peer(s) ==
    \/ PeerStartsFrame(s)
    \/ \E f \in Frames : PeerSendsHeader(s, f)
    \/ PeerSendsPayload(s)
    \/ PeerCloses(s)

ServeConn(s) ==
    \/ ServeFindsClosed(s)
    \/ ServeWaits(s)
    \/ ServeReads(s)
    \/ ReadHeaderFails(s)
    \/ ReadHeaderBad(s)
    \/ FrameTooLarge(s)
    \/ ReadHeader(s)
    \/ NegativeLength(s)
    \/ ReadPayload(s)
    \/ ReadPayloadFails(s)
    \/ PeekWaits(s)
    \/ PeekTakes(s)
    \/ PeekTooLarge(s)

processFrame(s) ==
    \/ PingPong(s)
    \/ CloseFrame(s)
    \/ AssemblerRefuses(s)
    \/ SingleFrame(s)
    \/ SingleCompressed(s)
    \/ SingleInflateFails(s)
    \/ FirstFragment(s)
    \/ MiddleFragment(s)
    \/ LastFragment(s)
    \/ LastCompressed(s)
    \/ LastInflateFails(s)
    \/ MessageReturns(s)
    \/ MessagePanics(s)

ReadHandler(s) == ServeConn(s) \/ processFrame(s) \/ ReadHandlerFails(s)

Next == \E s \in Sessions : Upgrade(s) \/ Peer(s) \/ StartCallback(s) \/ ReadHandler(s)

Spec == Init /\ [][Next]_vars

(* netpoll starts the callback while there is input, and a callback goes on *)
(* whenever it is not waiting for bytes; OnOpen and OnMessage return.       *)
Fairness ==
    \A s \in Sessions :
        WF_vars(UpgradeInstalls(s)) /\ WF_vars(StartCallback(s)) /\ WF_vars(ReadHandler(s))

FairSpec == Spec /\ Fairness

-----------------------------------------------------------------------------
(* Properties *)

(* Every variable has its type, and no slice is longer than its array *)
TypeOK ==
    /\ direct \in [Sessions -> BOOLEAN]
    /\ up \in [Sessions -> {"new", "failed", "onOpen", "ready"}]
    /\ link \in [Sessions -> {"open", "peerClosed", "selfClosed", "garbled"}]
    /\ pc \in [Sessions -> Pcs]
    /\ \A s \in Sessions : /\ sent[s] \in Seq(Frames)
                           /\ moved[s] \in 0..Len(sent[s])
                           /\ taken[s] \in 0..moved[s]
    /\ pending \in [Sessions -> {"none", "start", "header"}]
    /\ pool \in [Bufs -> Nat]
    /\ mem \in [Bufs -> Seq(Sessions \X Nat)]
    /\ \A x \in {payload, buffer, full} : \A s \in Sessions :
          x[s] \in Slices /\ x[s].len <= x[s].cap
    /\ isCompressed \in [Sessions -> BOOLEAN]
    /\ lastOpCode \in [Sessions -> DataOps \cup {"none"}]
    /\ reassembled \in [Sessions -> BOOLEAN]
    /\ closes \in [Sessions -> Nat]

(* An array is in one place at a time: in its pool, once, or in one slice   *)
(* of one connection (the message, when it is the payload itself, is the    *)
(* same slice).  A buffer put twice, put while in use, or kept after it was *)
(* put would be shared by two connections.                                  *)
Holders(b) ==
    {<<s, "payload">> : s \in {t \in Sessions : payload[t].buf = b}}
        \cup {<<s, "buffer">> : s \in {t \in Sessions : buffer[t].buf = b}}
        \cup {<<s, "full">> : s \in {t \in Sessions : full[t].buf = b /\ reassembled[t]}}
NoAliasing ==
    \A b \in Bufs : pool[b] + Cardinality(Holders(b)) <= 1

(* OnMessage's comment: the payload is the full message, reassembled.       *)
(* What OnMessage gets are the messages the client sent: the n-th call has  *)
(* the n-th final frame j and what came before it, back to the text or      *)
(* binary frame i, in order and with that one's opcode, whatever control    *)
(* frames came between them.  (Of what a client goes on to deliver after    *)
(* OnClose nothing is said.)                                                *)
Data(s, i) == sent[s][i].op \notin ControlOps
Ended(s, j) == {k \in 1..j : Data(s, k) /\ sent[s][k].fin}
MessageFrames(s, i, j) == {k \in i..j : Data(s, k)}
Spans(s, i, j) ==
    /\ i <= j /\ \A k \in i..j : sent[s][k].op \in DataOps <=> k = i
    /\ Ended(s, j) \cap i..j = {j}
Lists(s, parts, i, j) ==
    /\ {parts[x] : x \in DOMAIN parts} = {<<s, k>> : k \in MessageFrames(s, i, j)}
    /\ \A x, y \in DOMAIN parts : x < y => parts[x][2] < parts[y][2]
Abandoned(s) == direct[s] /\ closes[s] > 0
MessageIntact ==
    \A s \in Sessions : ~Abandoned(s) => \A n \in DOMAIN delivered[s] :
        \E i, j \in DOMAIN sent[s] :
            /\ Spans(s, i, j) /\ Cardinality(Ended(s, j)) = n
            /\ delivered[s][n].op = sent[s][i].op
            /\ Lists(s, delivered[s][n].parts, i, j)

(* MaxFrameSize bounds whole messages: joined from fragments and inflated *)
SizeBound ==
    MaxFrameSize > 0 =>
        \A s \in Sessions : \A n \in DOMAIN delivered[s] :
            delivered[s][n].len <= MaxFrameSize

(* TestOnCloseOnce: OnClose is called at most once, on whatever path the    *)
(* connection of a server ends, and nothing is delivered after it.          *)
OnCloseOnce ==
    \A s \in Sessions : ~direct[s] =>
        closes[s] <= 1 /\ (closes[s] = 1 => pc[s] \in {"err", "idle"})

(* A message whose last frame has arrived on a connection that stays open   *)
(* is delivered: ServeConn never returns to netpoll with a frame left       *)
(* behind in the bufio.Reader.                                              *)
Arrived(s) == IF pending[s] = "header" THEN Len(sent[s]) - 1 ELSE Len(sent[s])
MessageDelivered ==
    \A s \in Sessions : \A n \in 1..MaxFrames :
        (link[s] = "open" /\ Cardinality(Ended(s, Arrived(s))) >= n)
            ~> (link[s] # "open" \/ Abandoned(s) \/ Len(delivered[s]) >= n)
=============================================================================
