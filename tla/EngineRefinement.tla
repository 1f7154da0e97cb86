-------------------------- MODULE EngineRefinement --------------------------
(***************************************************************************)
(* Engine implements what its pool and its request loop promise: StatePool *)
(* and HttpPipeline, each under a refinement mapping.                      *)
(***************************************************************************)
EXTENDS Engine

(* An object lives for the connection whose callbacks or OnDisconnect hold  *)
(* it or are about to recycle it.                                           *)
LivesFor(o) ==
    ConnsHolding(o)
        \cup {c \in Conns : \/ state[c] = o /\ dpc[c] = "recycle"
                            \/ \E w \in Workers : /\ ctx[w] = o /\ arg[w] = c
                                                  /\ pc[w] \in HoldingPcs \cup {"recycle"}}

(* The connections whose bytes, address or upgrade an object carries.  The  *)
(* ReadHandler was set by the connection that the reader is bound to.       *)
Carries(o) == {rw[o], addr[o]} \ {None}

Pool == INSTANCE StatePool WITH
    life <- [o \in Objs |-> IF pool[o] = 1 THEN {} ELSE LivesFor(o)],
    holders <- [o \in Objs |-> WorkersHolding(o) \cup ConnsHolding(o)],
    data <- [o \in Objs |-> Carries(o)]

(* A connection's handler is busy from HandleRequest until it has returned; *)
(* chunks 2k-1 and 2k are the header and the body of request k, and one     *)
(* that is read from elsewhere than its first byte is no request (0).       *)
Arrived(c) == (sent[c] + 1) \div 2
Served(c) ==
    [i \in DOMAIN handled[c] |->
        IF handled[c][i][1] = c /\ handled[c][i][2] % 2 = 1
        THEN (handled[c][i][2] + 1) \div 2 ELSE 0]
Busy(c) == \E w \in Workers : arg[w] = c /\ pc[w] = "handler"

Pipeline == INSTANCE HttpPipeline WITH
    arrived <- [c \in Conns |-> Arrived(c)],
    served <- [c \in Conns |-> Served(c)],
    busy <- [c \in Conns |-> Busy(c)],
    over <- taken

(* Every life of a pooled ConnectionState ends only when nobody holds it    *)
(* and begins with a clean object: reference counting, OnDisconnect and the *)
(* callbacks, interleaved in any way, implement the pool's promise.         *)
PoolKeepsLives == Pool!Spec

(* The callbacks, with their yields, double checks and hand-overs of        *)
(* Processing, serve a connection's requests like one sequential server:    *)
(* each once, in order and from its first byte, however they were cut into  *)
(* reads; and once a handler has hijacked the connection, neither its own   *)
(* callback nor one that netpoll starts later reads HTTP from it.           *)
ServesInSequence == Pipeline!Spec
=============================================================================
