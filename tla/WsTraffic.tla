------------------------------ MODULE WsTraffic ------------------------------
(***************************************************************************)
(* The two directions of WebSocket traffic in one process: sessions that   *)
(* read, and echo what they read from OnMessage as the example server      *)
(* does, next to goroutines of the application that broadcast one payload  *)
(* to several connections.  They share the payload buffers.                *)
(***************************************************************************)
EXTENDS WsSession, WsWriter

CONSTANTS
    Broadcast,   \* the slices that the application broadcasts
    MaxWrites    \* bound: messages the process writes

ASSUME TrafficAssumption ==
    /\ Sessions \subseteq Writers
    /\ \A x \in Broadcast : /\ x \in Slices /\ x.buf \in Bufs /\ Home[x.buf] = -1
                            /\ \A s \in Sessions : x.buf # Input[s]

VARIABLE writes   \* messages written so far

sessionVars == <<netVars, pc, readVars, payload, asmVars, msgVars, closes>>
trafficVars == <<vars, writerVars, writes>>

TrafficInit ==
    /\ Init
    /\ \A s \in Sessions : direct[s] = MasksFor[s]
    /\ WriterInit
    /\ writes = 0

(* A session's callback goes on when the WriteMessage it called has returned *)
SessionStep(s) ==
    /\ wpc[s] = "idle"
    /\ Upgrade(s) \/ Peer(s) \/ StartCallback(s) \/ ReadHandler(s)
    /\ UNCHANGED <<writerVars, writes>>

(* OnMessage calls WriteMessage with its payload *)
Echo(s) ==
    /\ pc[s] = "message"
    /\ writes < MaxWrites /\ writes' = writes + 1
    /\ BeginWrite(s, full[s])
    /\ UNCHANGED sessionVars

Broadcasts(g, x) ==
    /\ g \notin Sessions
    /\ writes < MaxWrites /\ writes' = writes + 1
    /\ BeginWrite(g, x)
    /\ UNCHANGED sessionVars

Writing(g) == WriteSteps(g) /\ UNCHANGED <<sessionVars, writes>>

TrafficNext ==
    \/ \E s \in Sessions : SessionStep(s) \/ Echo(s)
    \/ \E g \in Writers : Writing(g) \/ \E x \in Broadcast : Broadcasts(g, x)

TrafficSpec == TrafficInit /\ [][TrafficNext]_trafficVars

-----------------------------------------------------------------------------
(* An array is in its pool, or with one session, or with one writer: what   *)
(* is put back is never still in use, whichever side took it.               *)
NoSharedBuffer ==
    \A b \in Bufs :
        pool[b] + Cardinality(Holders(b)) + Cardinality(OwnedByWriter(b)) <= 1

(* CompressData's comment: its caller must put the buffer back.  With       *)
(* nothing under way, and no call or callback that failed, every pooled     *)
(* array is in its pool again.                                              *)
AtRest ==
    /\ \A g \in Writers : wpc[g] = "idle"
    /\ \A s \in Sessions : pc[s] = "idle" /\ buffer[s] = Nil /\ link[s] = "open"
BuffersComeBack ==
    AtRest /\ ~lost => \A b \in Bufs : Home[b] > 0 => pool[b] = 1

(* As long as OnMessage runs, and while its payload is written back, nobody *)
(* writes to it.                                                            *)
MessageStable ==
    \A s \in Sessions :
        pc[s] = "message" => mem[full[s].buf] = Last(delivered[s]).parts
=============================================================================
