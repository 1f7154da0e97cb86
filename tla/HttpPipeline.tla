---------------------------- MODULE HttpPipeline ----------------------------
(***************************************************************************)
(* What a keep-alive HTTP/1.1 connection promises its client, whoever      *)
(* reads it and in whatever pieces: its requests go to the handler one     *)
(* after the other, in the order they were sent, each once; and a request  *)
(* whose handler takes the connection over is the last one.                *)
(***************************************************************************)
EXTENDS Naturals, Sequences

CONSTANT Conns

VARIABLES
    arrived,   \* requests whose header has reached the server
    served,    \* the requests given to the handler, by number
    busy,      \* the handler has a request
    over       \* the connection was taken over

vars == <<arrived, served, busy, over>>

Init ==
    /\ arrived = [c \in Conns |-> 0]
    /\ served = [c \in Conns |-> << >>]
    /\ busy = [c \in Conns |-> FALSE]
    /\ over = [c \in Conns |-> FALSE]

Arrive(c) ==
    /\ arrived' = [arrived EXCEPT ![c] = @ + 1]
    /\ UNCHANGED <<served, busy, over>>

Serve(c) ==
    LET next == Len(served[c]) + 1
    IN  /\ ~busy[c] /\ ~over[c]
        /\ next <= arrived[c]
        /\ served' = [served EXCEPT ![c] = Append(@, next)]
        /\ busy' = [busy EXCEPT ![c] = TRUE]
        /\ UNCHANGED <<arrived, over>>

TakeOver(c) ==
    /\ busy[c] /\ ~over[c]
    /\ over' = [over EXCEPT ![c] = TRUE]
    /\ UNCHANGED <<arrived, served, busy>>

Finish(c) ==
    /\ busy[c]
    /\ busy' = [busy EXCEPT ![c] = FALSE]
    /\ UNCHANGED <<arrived, served, over>>

Next == \E c \in Conns : Arrive(c) \/ Serve(c) \/ TakeOver(c) \/ Finish(c)

Spec == Init /\ [][Next]_vars
=============================================================================
