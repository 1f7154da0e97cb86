----------------------------- MODULE PayloadPool -----------------------------
(***************************************************************************)
(* The payload buffers of pkg/websocket/pool.go, which all connections of  *)
(* the process share.  A slice is its backing array, length and capacity.  *)
(***************************************************************************)
EXTENDS Integers, Sequences, FiniteSetsExt

CONSTANTS
    Bufs,   \* backing arrays a payload buffer can have
    Home,   \* the size of the pool each belongs to; 0: allocated directly;
            \* -1: an array of the application's
    None    \* no array

Buckets == {512, 4096, 16384, 65536}

ASSUME PoolAssumption ==
    /\ None \notin Bufs
    /\ Home \in [Bufs -> Buckets \cup {0, -1}]

VARIABLES
    pool,   \* how often an array lies in its pool, or can still be allocated
    mem     \* what it contains

memVars == <<pool, mem>>

PoolInit ==
    /\ pool = [b \in Bufs |-> IF Home[b] = -1 THEN 0 ELSE 1]  \* sync.Pool.New, make
    /\ mem = [b \in Bufs |-> << >>]

Slices == [buf : Bufs \cup {None}, len : Nat, cap : Nat]
Nil == [buf |-> None, len |-> 0, cap |-> 0]

(* The pool that getPayloadBuffer takes a size from; 0: make([]byte, size) *)
Bucket(size) ==
    IF size > 65536 THEN 0 ELSE Min({k \in Buckets : size <= k})

(* Any array of the pool; of those never allocated before, one is as good   *)
(* as another.                                                              *)
Arrays(p, bucket) ==
    LET ready == {b \in Bufs : p[b] > 0 /\ Home[b] = bucket}
    IN  IF bucket = 0 /\ ready # {} THEN {CHOOSE b \in ready : TRUE} ELSE ready

(* The slices that getPayloadBuffer may return when the pools are p *)
getPayloadBuffer(p, size) ==
    {[buf |-> b, len |-> size, cap |-> IF size > 65536 THEN size ELSE Bucket(size)] :
        b \in Arrays(p, Bucket(size))}

Without(p, slice) == [p EXCEPT ![slice.buf] = @ - 1]

(* putPayloadBuffer: only a slice with a bucket's capacity is kept *)
putPayloadBuffer(p, slice) ==
    IF slice.cap \in Buckets THEN [p EXCEPT ![slice.buf] = @ + 1] ELSE p
=============================================================================
