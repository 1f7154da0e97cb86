------------------------------ MODULE MCEngine ------------------------------
(* Instances of Engine for TLC: connections, objects and goroutines are     *)
(* model values; the safety runs use the symmetry of each set.              *)
EXTENDS EngineRefinement, TLC

CONSTANT Brief    \* connections whose clients send half a request at most

EngineSymmetry ==
    Permutations(Conns) \cup Permutations(Objs) \cup Permutations(Workers)

(* Next and FairSpec with the clients of Brief.  A client's steps are not   *)
(* fair: this takes behaviours away and leaves the fairness as it is.       *)
BriefNext ==
    \/ \E c \in Conns : \/ Prepare(c)
                        \/ PeerSend(c) /\ (c \in Brief => sent'[c] <= 1)
                        \/ PeerClose(c)
                        \/ Disconnect(c)
                        \/ \E w \in Workers : Dispatch(w, c)
    \/ \E w \in Workers : ServeConn(w) \/ serveHTTP(w) \/ Handler(w) \/ Hijacker(w)
LiveSpec == Init /\ [][BriefNext]_vars /\ Fairness
=============================================================================
