----------------------------- MODULE MCWsSession -----------------------------
(* WsSession for TLC: arrays per pool as model values, and the frames *)
EXTENDS WsSession

CONSTANTS B512, B4k, B16k, B64k, Direct, Netpoll

MCBufs == B512 \cup B4k \cup B16k \cup B64k \cup Direct \cup {Netpoll}
MCHome ==
    [b \in MCBufs |-> CASE b \in B512 -> 512
                        [] b \in B4k -> 4096
                        [] b \in B16k -> 16384
                        [] b \in B64k -> 65536
                        [] b \in Direct -> 0
                        [] b = Netpoll -> -1]
MCInput == [s \in Sessions |-> Netpoll]

F(op, fin, rsv1, len) == [op |-> op, fin |-> fin, rsv1 |-> rsv1, len |-> len]

(* One connection: every kind of frame; with the limit 66000 the lengths    *)
(* reach it exactly, exceed it, and grow a buffer through every pool.       *)
SoloFrames ==
    {F("text", TRUE, FALSE, 500), F("text", FALSE, FALSE, 40000),
     F("binary", FALSE, TRUE, 500), F("text", TRUE, TRUE, 3000),
     F("cont", FALSE, FALSE, 500), F("cont", TRUE, FALSE, 26000),
     F("cont", TRUE, FALSE, 26001), F("text", TRUE, FALSE, 66001),
     F("ping", TRUE, FALSE, 0), F("pong", TRUE, FALSE, 125),
     F("close", TRUE, FALSE, 2), F("binary", TRUE, FALSE, -1)}
BadFrames == SoloFrames \cup {F("ping", TRUE, FALSE, 126)}
SoloSizes == {100, 66000, 66001}

SessionSymmetry ==
    Permutations(B512) \cup Permutations(B4k) \cup Permutations(B16k)
        \cup Permutations(B64k)
=============================================================================
