----------------------------- MODULE MCWsTraffic -----------------------------
(* WsTraffic for TLC: one session of a server, and goroutines that write    *)
(* one message of the application's to the server's peers or to servers.    *)
EXTENDS WsTraffic

CONSTANTS B512, B4k, B16k, App, Netpoll, Clients

MCBufs == B512 \cup B4k \cup B16k \cup App \cup {Netpoll}
MCHome ==
    [b \in MCBufs |-> CASE b \in B512 -> 512
                        [] b \in B4k -> 4096
                        [] b \in B16k -> 16384
                        [] b \in App \cup {Netpoll} -> -1]
MCInput == [s \in Sessions |-> Netpoll]

MCWriters == Sessions \cup Clients
MCLinkOf == [g \in MCWriters |-> g]
MCMasksFor == [g \in MCWriters |-> g \in Clients]

(* Of every array of the application's a small slice, whose capacity is     *)
(* that of a pooled one, and one that is compressed.                        *)
MCBroadcast ==
    {[buf |-> b, len |-> n, cap |-> 4096] : b \in App, n \in {400, 4000}}

F(op, fin, rsv1, len) == [op |-> op, fin |-> fin, rsv1 |-> rsv1, len |-> len]
MCFrames ==
    {F("text", FALSE, FALSE, 500), F("binary", TRUE, TRUE, 10),
     F("cont", TRUE, FALSE, 400)}
MCSizes == {1000}

TrafficSymmetry ==
    Permutations(B512) \cup Permutations(B4k) \cup Permutations(Clients)
=============================================================================
