----------------------------- MODULE StatePool ------------------------------
(***************************************************************************)
(* What NewConnectionState, AcquireConnectionState and                     *)
(* ReleaseConnectionState of pkg/engine/engine.go promise together: an     *)
(* object of the pool has one life after the other.  A life is lived for   *)
(* one connection and carries data of no other, anyone who holds the       *)
(* object may let others hold it too, and it ends, with the data erased,   *)
(* once the last holder has left.                                          *)
(*                                                                         *)
(* Nothing is said of reference counts, callbacks or their interleaving.   *)
(***************************************************************************)
CONSTANTS Conns, Objs, Workers

VARIABLES
    life,      \* the connection an object lives for; {} while it is free
    holders,   \* the connection and the callbacks that hold it
    data       \* connections of which it carries something

vars == <<life, holders, data>>

Init ==
    /\ life = [o \in Objs |-> {}]
    /\ holders = [o \in Objs |-> {}]
    /\ data = [o \in Objs |-> {}]

(* A free object, erased, is taken for a connection *)
Take(o, c) ==
    /\ life[o] = {} /\ holders[o] = {} /\ data[o] = {}
    /\ life' = [life EXCEPT ![o] = {c}]
    /\ holders' = [holders EXCEPT ![o] = {c}]
    /\ UNCHANGED data

(* Only an object that someone holds gets another holder *)
Join(o, w) ==
    /\ holders[o] # {} /\ w \notin holders[o]
    /\ holders' = [holders EXCEPT ![o] = @ \cup {w}]
    /\ UNCHANGED <<life, data>>

Leave(o, x) ==
    /\ x \in holders[o]
    /\ holders' = [holders EXCEPT ![o] = @ \ {x}]
    /\ UNCHANGED <<life, data>>

(* A holder puts data of the object's own connection into it *)
Use(o) ==
    /\ holders[o] # {}
    /\ data' = [data EXCEPT ![o] = life[o]]
    /\ UNCHANGED <<life, holders>>

End(o) ==
    /\ life[o] # {} /\ holders[o] = {}
    /\ life' = [life EXCEPT ![o] = {}]
    /\ data' = [data EXCEPT ![o] = {}]
    /\ UNCHANGED holders

Next ==
    \E o \in Objs :
        \/ \E c \in Conns : Take(o, c)
        \/ \E w \in Workers : Join(o, w)
        \/ \E x \in Conns \cup Workers : Leave(o, x)
        \/ Use(o)
        \/ End(o)

Spec == Init /\ [][Next]_vars
=============================================================================
