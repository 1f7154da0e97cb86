--------------------------- MODULE WsSessionProofs ---------------------------
(* Machine-checked theorems about the specification of module WsSession,    *)
(* for any sessions, frames, arrays and limits.  Most lemmas are about one  *)
(* step of one session, so that module WsTrafficProofs can use them too.    *)
EXTENDS WsSession, FiniteSetTheorems, SequenceTheorems, WellFoundedInduction, TLAPS

SessionActs(s) == Upgrade(s) \/ Peer(s) \/ StartCallback(s) \/ ReadHandler(s)

-----------------------------------------------------------------------------
(***************************************************************************)
(* OnClose.  A server's session that has called it is on its way out: the  *)
(* error is being returned, or was, and then the connection is closed and  *)
(* netpoll starts no callback any more.                                    *)
(***************************************************************************)
CloseOK ==
    /\ direct \in [Sessions -> BOOLEAN] /\ pc \in [Sessions -> Pcs]
    /\ link \in [Sessions -> {"open", "peerClosed", "selfClosed", "garbled"}]
    /\ closes \in [Sessions -> Nat]
Leaving ==
    \A s \in Sessions :
        ~direct[s] => \/ closes[s] = 0
                      \/ closes[s] = 1 /\ pc[s] = "err"
                      \/ closes[s] = 1 /\ pc[s] = "idle" /\ link[s] # "open"

(* What a session's step does: it calls OnClose on its way out, it returns  *)
(* the error, it starts or goes on on an open connection, or it leaves the  *)
(* callback alone.                                                          *)
CallsOnClose(s) ==
    /\ pc[s] \notin {"idle", "err"} /\ pc' = [pc EXCEPT ![s] = "err"]
    /\ closes' = [closes EXCEPT ![s] = @ + 1]
    /\ \E l \in {"open", "peerClosed", "selfClosed", "garbled"} : link' = [link EXCEPT ![s] = l]
ReturnsErr(s) ==
    /\ pc[s] = "err" /\ pc' = [pc EXCEPT ![s] = "idle"] /\ UNCHANGED closes
    /\ ~direct[s] => link'[s] # "open"
    /\ \E l \in {"open", "peerClosed", "selfClosed", "garbled"} : link' = [link EXCEPT ![s] = l]
GoesOn(s) ==
    /\ pc[s] # "err" /\ (pc[s] = "idle" => link[s] = "open")
    /\ \E p \in Pcs : pc' = [pc EXCEPT ![s] = p]
    /\ \E l \in {"open", "peerClosed", "selfClosed", "garbled"} : link' = [link EXCEPT ![s] = l]
    /\ UNCHANGED closes
StaysOut(s) ==
    /\ UNCHANGED <<pc, closes>>
    /\ \E l \in {"open", "peerClosed", "selfClosed", "garbled"} :
          link' = [link EXCEPT ![s] = l] /\ (l = "open" => link[s] = "open")

LEMMA CloseEffect ==
    ASSUME CloseOK, NEW s \in Sessions, SessionActs(s)
    PROVE  direct' = direct /\ (CallsOnClose(s) \/ ReturnsErr(s) \/ GoesOn(s) \/ StaysOut(s))
<1>0. /\ link = [link EXCEPT ![s] = link[s]]
      /\ link[s] \in {"open", "peerClosed", "selfClosed", "garbled"}
    BY DEF CloseOK
<1> USE DEF CloseOK, Pcs, Goto, OnClose, Close, netVars
<1>1. CASE Upgrade(s) \/ Peer(s)
    <2>1. /\ UNCHANGED <<direct, pc, closes>>
          /\ link' = link \/ \E l \in {"selfClosed", "peerClosed"} : link' = [link EXCEPT ![s] = l]
        BY <1>1
           DEF Upgrade, UpgradeFlushes, UpgradeFlushFails, UpgradeInstalls, Peer,
               PeerStartsFrame, PeerSendsHeader, PeerSendsPayload, PeerCloses
    <2> QED
        BY <1>0, <2>1 DEF StaysOut
<1>2. CASE StartCallback(s) \/ ServeWaits(s) \/ ServeReads(s) \/ ReadHeader(s)
           \/ NegativeLength(s) \/ ReadPayload(s) \/ PeekWaits(s) \/ PeekTakes(s)
    BY <1>2
       DEF GoesOn, StartCallback, ServeWaits, ServeReads, ReadHeader, NegativeLength,
           ReadPayload, PeekWaits, PeekTakes
<1>3. CASE \/ PingPong(s) \/ SingleFrame(s) \/ SingleCompressed(s) \/ FirstFragment(s)
           \/ MiddleFragment(s) \/ LastFragment(s) \/ LastCompressed(s) \/ MessageReturns(s)
           \/ MessagePanics(s)
    <2>1. /\ UNCHANGED <<direct, closes>> /\ pc[s] \in {"process", "message"}
          /\ \E p \in Pcs : pc' = [pc EXCEPT ![s] = p]
          /\ link' = link \/ Close(s)
        <3>1. CASE PingPong(s) \/ MessageReturns(s) \/ MessagePanics(s)
            BY <3>1 DEF PingPong, MessageReturns, MessagePanics
        <3>2. CASE SingleFrame(s) \/ SingleCompressed(s) \/ FirstFragment(s)
            BY <3>2 DEF SingleFrame, SingleCompressed, FirstFragment
        <3>3. CASE MiddleFragment(s) \/ LastFragment(s) \/ LastCompressed(s)
            BY <3>3 DEF MiddleFragment, LastFragment, LastCompressed
        <3> QED
            BY <1>3, <3>1, <3>2, <3>3
    <2> QED
        BY <1>0, <2>1 DEF GoesOn
<1>4. CASE ServeFindsClosed(s) \/ ReadHeaderFails(s) \/ ReadHeaderBad(s) \/ FrameTooLarge(s)
           \/ ReadPayloadFails(s) \/ PeekTooLarge(s)
    BY <1>4
       DEF CallsOnClose, ServeFindsClosed, ReadHeaderFails, ReadHeaderBad, FrameTooLarge,
           ReadPayloadFails, PeekTooLarge
<1>5. CASE CloseFrame(s) \/ AssemblerRefuses(s) \/ SingleInflateFails(s) \/ LastInflateFails(s)
    BY <1>5
       DEF CallsOnClose, CloseFrame, AssemblerRefuses, SingleInflateFails, LastInflateFails
<1>6. CASE ReadHandlerFails(s)
    BY <1>6 DEF ReturnsErr, ReadHandlerFails
<1> QED
    BY <1>1, <1>2, <1>3, <1>4, <1>5, <1>6
       DEF SessionActs, ReadHandler, ServeConn, processFrame

LEMMA CloseStep ==
    ASSUME CloseOK, Leaving, NEW s \in Sessions, SessionActs(s)
    PROVE  CloseOK' /\ Leaving'
<1>0. direct' = direct /\ (CallsOnClose(s) \/ ReturnsErr(s) \/ GoesOn(s) \/ StaysOut(s))
    BY CloseEffect
<1> USE <1>0 DEF CloseOK, Leaving, Pcs
<1>1. CASE CallsOnClose(s)
    BY <1>1 DEF CallsOnClose
<1>2. CASE ReturnsErr(s)
    BY <1>2 DEF ReturnsErr
<1>3. CASE GoesOn(s)
    BY <1>3 DEF GoesOn
<1>4. CASE StaysOut(s)
    BY <1>4 DEF StaysOut
<1> QED
    BY <1>1, <1>2, <1>3, <1>4

(* OnClose is called at most once for a server's connection, on whatever    *)
(* path it ends, and it is the last the handler hears of it.                *)
THEOREM OnCloseCorrect == Spec => []OnCloseOnce
<1>1. Init => CloseOK /\ Leaving
    BY DEF Init, CloseOK, Leaving, Pcs
<1>2. CloseOK /\ Leaving /\ [Next]_vars => CloseOK' /\ Leaving'
    <2>1. CloseOK /\ Leaving /\ UNCHANGED vars => CloseOK' /\ Leaving'
        BY DEF CloseOK, Leaving, vars, netVars
    <2> QED
        BY <2>1, CloseStep DEF Next, SessionActs
<1>3. CloseOK /\ Leaving => OnCloseOnce
    BY DEF CloseOK, Leaving, OnCloseOnce
<1> QED
    BY <1>1, <1>2, <1>3, PTL DEF Spec

-----------------------------------------------------------------------------
(***************************************************************************)
(* The size of DecompressData's buffer: a recursion that ends because the  *)
(* size grows until it is large enough or one more than the limit.         *)
(***************************************************************************)

(* A set that has 0, and with every natural its successor, has them all.    *)
LEMMA NatInduct ==
    ASSUME NEW S, 0 \in S, \A n \in Nat : n \in S => n + 1 \in S
    PROVE  \A n \in Nat : n \in S
<1> SUFFICES ASSUME Nat \ S # {} PROVE FALSE
    OBVIOUS
<1> DEFINE R == {ss \in Nat \X Nat : ss[1] < ss[2]}
<1>1. IsWellFoundedOn(R, Nat)
    BY NatLessThanWellFounded, Zenon DEF OpToRel
<1>2. PICK x \in Nat \ S : \A y \in Nat \ S : ~(<<y, x>> \in R)
    <2> HIDE DEF R
    <2>1. Nat \ S \subseteq Nat
        OBVIOUS
    <2> QED
        BY <1>1, <2>1, WFMin
<1>3. x # 0 /\ x - 1 \in Nat /\ <<x - 1, x>> \in R
    OBVIOUS
<1>4. x - 1 \in S
    BY <1>2, <1>3
<1> QED
    BY <1>3, <1>4

Doubled(l) == IF TooLarge(2 * l) THEN MaxFrameSize + 1 ELSE 2 * l
Grows(g, n) ==
    g = [l \in Nat |-> IF n <= l \/ Doubled(l) <= l THEN l ELSE g[Doubled(l)]]

LEMMA DoubledOK ==
    ASSUME NEW l \in Nat
    PROVE  /\ Doubled(l) \in Nat
           /\ l # 0 /\ Doubled(l) <= l => MaxFrameSize > 0 /\ l > MaxFrameSize
    BY SessionAssumption DEF Doubled, TooLarge

(* There is a function that satisfies the recursion ...                     *)
LEMMA GrowsExists ==
    ASSUME NEW n \in Nat
    PROVE  \E g : Grows(g, n)
<1> DEFINE From(d) == {l \in Nat : l + d >= n}
           Def(g, d) ==
               g = [l \in From(d) |-> IF n <= l \/ Doubled(l) <= l THEN l ELSE g[Doubled(l)]]
           S == {d \in Nat : \E g : Def(g, d)}
<1>1. 0 \in S
    <2> DEFINE g == [l \in From(0) |-> l]
    <2>1. \A l \in From(0) : n <= l
        OBVIOUS
    <2>2. Def(g, 0)
        BY <2>1
    <2> HIDE DEF Def, g
    <2> QED
        BY <2>2
<1>2. ASSUME NEW d \in Nat, d \in S PROVE d + 1 \in S
    <2>1. PICK f : Def(f, d)
        BY <1>2
    <2> DEFINE g == [l \in From(d + 1) |->
                        IF n <= l \/ Doubled(l) <= l THEN l ELSE f[Doubled(l)]]
    <2>2. \A l \in From(d) : f[l] = IF n <= l \/ Doubled(l) <= l THEN l ELSE f[Doubled(l)]
        BY <2>1
    <2>3. \A l \in From(d) : l \in From(d + 1) /\ g[l] = f[l]
        BY <2>2
    <2>4. ASSUME NEW l \in From(d + 1), ~(n <= l \/ Doubled(l) <= l)
          PROVE  f[Doubled(l)] = g[Doubled(l)]
        <3>1. Doubled(l) \in Nat /\ ~(Doubled(l) <= l)
            BY <2>4, DoubledOK
        <3>2. Doubled(l) \in From(d)
            BY <3>1
        <3> QED
            BY <2>3, <3>2
    <2>5. \A l \in From(d + 1) :
              g[l] = IF n <= l \/ Doubled(l) <= l THEN l ELSE g[Doubled(l)]
        <3> HIDE DEF From
        <3> QED
            BY <2>4
    <2>6. Def(g, d + 1)
        <3>1. g = [l \in From(d + 1) |-> g[l]]
            OBVIOUS
        <3> HIDE DEF g, From
        <3> QED
            BY <2>5, <3>1
    <2> HIDE DEF Def, g
    <2> QED
        BY <2>6
<1>3. n \in S
    <2>1. \A d \in Nat : d \in S
        <3> HIDE DEF S
        <3> QED
            BY <1>1, <1>2, NatInduct
    <2> QED
        BY <2>1
<1>4. PICK g : Def(g, n)
    BY <1>3
<1>5. From(n) = Nat
    OBVIOUS
<1> QED
    BY <1>4, <1>5 DEF Grows

(* ... and such a function finds a size that n fits into, or the limit is   *)
(* exceeded.                                                                *)
LEMMA GrowsEnough ==
    ASSUME NEW n \in Nat, NEW g, Grows(g, n), NEW k \in Nat \ {0}
    PROVE  g[k] \in Nat /\ (g[k] >= n \/ (MaxFrameSize > 0 /\ g[k] > MaxFrameSize))
<1> DEFINE Good(v) == v \in Nat /\ (v >= n \/ (MaxFrameSize > 0 /\ v > MaxFrameSize))
           S == {d \in Nat : \A l \in Nat \ {0} : l + d >= n => Good(g[l])}
<1>1. \A l \in Nat : g[l] = IF n <= l \/ Doubled(l) <= l THEN l ELSE g[Doubled(l)]
    BY DEF Grows
<1>2. ASSUME NEW l \in Nat \ {0}, n <= l \/ Doubled(l) <= l PROVE Good(g[l])
    BY <1>1, <1>2, DoubledOK
<1>3. 0 \in S
    BY <1>2
<1>4. ASSUME NEW d \in Nat, d \in S PROVE d + 1 \in S
    <2> SUFFICES ASSUME NEW l \in Nat \ {0}, l + (d + 1) >= n,
                        ~(n <= l \/ Doubled(l) <= l)
                 PROVE  Good(g[l])
        BY <1>2
    <2>1. PICK m \in Nat \ {0} : m = Doubled(l) /\ m + d >= n
        BY DoubledOK
    <2>2. g[l] = g[m]
        BY <1>1, <2>1
    <2> QED
        BY <1>4, <2>1, <2>2
<1>5. n \in S
    <2>1. \A d \in Nat : d \in S
        <3> HIDE DEF S
        <3> QED
            BY <1>3, <1>4, NatInduct
    <2> QED
        BY <2>1
<1> QED
    BY <1>5

(* DecompressData's buffer has room for what is inflated, unless that is    *)
(* beyond the limit.                                                        *)
LEMMA InflateSizeOK ==
    ASSUME NEW c \in Nat, NEW n \in Nat
    PROVE  /\ InflateSize(c, n) \in Nat
           /\ InflateSize(c, n) >= n \/ (MaxFrameSize > 0 /\ InflateSize(c, n) > MaxFrameSize)
<1>1. PICK k \in Nat \ {0} : k = IF 2 * c < 4096 THEN 4096 ELSE 2 * c
    OBVIOUS
<1>2. PICK g : g = CHOOSE h : Grows(h, n)
    BY Zenon
<1>3. Grows(g, n)
    BY <1>2, GrowsExists
<1>4. InflateSize(c, n) = g[k]
    BY <1>1, <1>2 DEF InflateSize, Grows, Doubled
<1> QED
    BY <1>3, <1>4, GrowsEnough

-----------------------------------------------------------------------------
(***************************************************************************)
(* The operators of PayloadPool.                                           *)
(***************************************************************************)
LEMMA MaxOK ==
    ASSUME NEW a \in Int, NEW b \in Int
    PROVE  Max({a, b}) \in {a, b} /\ Max({a, b}) >= a /\ Max({a, b}) >= b
<1>1. \E x \in {a, b} : \A y \in {a, b} : x >= y
    <2>1. CASE a >= b
        BY <2>1
    <2>2. CASE b >= a
        BY <2>2
    <2> QED
        BY <2>1, <2>2
<1> QED
    BY <1>1 DEF Max

(* A bucket is large enough for the sizes that are taken from it. *)
LEMMA BucketOK ==
    ASSUME NEW n \in Nat
    PROVE  /\ n > 65536 => Bucket(n) = 0
           /\ n <= 65536 => Bucket(n) \in Buckets /\ n <= Bucket(n)
<1>1. ASSUME n <= 65536
      PROVE  \E x \in {k \in Buckets : n <= k} : \A y \in {k \in Buckets : n <= k} : x =< y
    <2> USE DEF Buckets
    <2>1. CASE n <= 512
        BY <2>1
    <2>2. CASE n > 512 /\ n <= 4096
        BY <2>2
    <2>3. CASE n > 4096 /\ n <= 16384
        BY <2>3
    <2>4. CASE n > 16384
        BY <1>1, <2>4
    <2> QED
        BY <2>1, <2>2, <2>3, <2>4
<1>2. n > 65536 => Bucket(n) = 0
    BY DEF Bucket
<1>3. ASSUME n <= 65536 PROVE Bucket(n) \in {k \in Buckets : n <= k}
    <2>1. Bucket(n) = Min({k \in Buckets : n <= k})
        BY <1>3 DEF Bucket
    <2> QED
        BY <1>1, <1>3, <2>1 DEF Min
<1> QED
    BY <1>2, <1>3

(* Arrays of netpoll's or the application's never get into a pool.  A      *)
(* slice of a pool's array has the whole capacity of that array.            *)
Pools == {p \in [Bufs -> Nat] : \A b \in Bufs : Home[b] = -1 => p[b] = 0}
Pooled(x) ==
    x.buf \in Bufs /\ Home[x.buf] # -1 /\ (Home[x.buf] > 0 => x.cap = Home[x.buf])
One(is) == IF is THEN 1 ELSE 0

LEMMA NilOK ==
    Nil \in Slices /\ Nil.buf = None /\ None \notin Bufs /\ Nil.cap = 0
    BY PoolAssumption DEF Nil, Slices

(* What getPayloadBuffer returns was in the pool that its capacity names. *)
LEMMA Got ==
    ASSUME NEW p \in Pools, NEW n, NEW x \in getPayloadBuffer(p, n)
    PROVE  /\ Pooled(x) /\ p[x.buf] > 0
           /\ x = [buf |-> x.buf, len |-> n, cap |-> IF n > 65536 THEN n ELSE Bucket(n)]
           /\ x.len = n
           /\ n \in Nat => x \in Slices
<1>1. PICK b \in Arrays(p, Bucket(n)) :
          x = [buf |-> b, len |-> n, cap |-> IF n > 65536 THEN n ELSE Bucket(n)]
    BY DEF getPayloadBuffer
<1>2. b \in Bufs /\ p[b] > 0 /\ Home[b] = Bucket(n)
    <2> DEFINE ready == {a \in Bufs : p[a] > 0 /\ Home[a] = Bucket(n)}
    <2>1. b \in ready
        <3>1. CASE Bucket(n) = 0 /\ ready # {}
            <4>1. b = CHOOSE a \in ready : TRUE
                BY <3>1 DEF Arrays
            <4> QED
                BY <3>1, <4>1
        <3>2. CASE ~(Bucket(n) = 0 /\ ready # {})
            BY <3>2 DEF Arrays
        <3> QED
            BY <3>1, <3>2
    <2> QED
        BY <2>1
<1>3. Home[b] > 0 => x.cap = Home[b]
    <2>1. CASE n > 65536
        <3>1. Bucket(n) = 0
            BY <2>1 DEF Bucket
        <3> QED
            BY <1>2, <3>1
    <2>2. CASE ~(n > 65536)
        BY <1>1, <1>2, <2>2
    <2> QED
        BY <2>1, <2>2
<1>4. n \in Nat => x \in Slices
    BY <1>1, <1>2, BucketOK DEF Slices, Buckets
<1>5. Home[b] # -1
    BY <1>2 DEF Pools
<1>6. x.buf = b
    BY <1>1
<1> QED
    BY <1>1, <1>2, <1>3, <1>4, <1>5, <1>6 DEF Pooled

(* What DecompressData returns: a buffer of a pool, and a size that is not  *)
(* too large.                                                               *)
LEMMA Inflated ==
    ASSUME NEW p \in Pools, NEW y \in Slices, NEW x \in DecompressData(p, y)
    PROVE  /\ Pooled(x) /\ p[x.buf] > 0 /\ x \in Slices /\ ~TooLarge(x.len)
           /\ x.len <= x.cap
<1>1. PICK n \in {k \in InflatedSizes : ~TooLarge(k)}, more \in {0, 1} :
          \E big \in getPayloadBuffer(p, InflateSize(y.len, n + more)) : x = [big EXCEPT !.len = n]
    BY DEF DecompressData
<1>2. PICK z : z = InflateSize(y.len, n + more)
    OBVIOUS
<1>3. PICK big \in getPayloadBuffer(p, z) : x = [big EXCEPT !.len = n]
    BY <1>1, <1>2
<1>4. /\ Pooled(big) /\ p[big.buf] > 0
      /\ big = [buf |-> big.buf, len |-> z, cap |-> IF z > 65536 THEN z ELSE Bucket(z)]
    BY <1>3, Got
<1>5. x = [buf |-> big.buf, len |-> n, cap |-> IF z > 65536 THEN z ELSE Bucket(z)]
    BY <1>3, <1>4
<1>6. n \in Nat /\ ~TooLarge(n) /\ y.len \in Nat /\ n + more \in Nat
    BY <1>1, SessionAssumption DEF Slices
<1>7. PICK m \in Nat : m = (IF z > 65536 THEN z ELSE Bucket(z)) /\ n <= m
    <2>1. z \in Nat /\ n <= z
        <3>1. z \in Nat /\ (z >= n + more \/ (MaxFrameSize > 0 /\ z > MaxFrameSize))
            BY <1>2, <1>6, InflateSizeOK
        <3> QED
            BY <1>1, <1>6, <3>1, SessionAssumption DEF TooLarge
    <2> QED
        BY <1>6, <2>1, BucketOK DEF Buckets
<1>8. x \in Slices
    BY <1>4, <1>5, <1>6, <1>7 DEF Slices, Pooled
<1>9. x.buf = big.buf /\ x.cap = big.cap /\ x.len = n /\ x.cap = m
    BY <1>4, <1>5, <1>7
<1> QED
    BY <1>4, <1>6, <1>7, <1>8, <1>9 DEF Pooled

(* Taking and putting, array by array. *)
LEMMA TakeOne ==
    ASSUME NEW p \in Pools, NEW x, x.buf \in Bufs, p[x.buf] > 0
    PROVE  /\ Without(p, x) \in Pools
           /\ \A b \in Bufs : Without(p, x)[b] = p[b] - One(b = x.buf)
<1>1. PICK a : a = x.buf
    OBVIOUS
<1>2. Without(p, x) = [p EXCEPT ![a] = p[a] - 1] /\ a \in Bufs /\ p[a] > 0 /\ p[a] \in Nat
    BY <1>1 DEF Without, Pools
<1> QED
    BY <1>1, <1>2 DEF Pools, One

LEMMA PutOne ==
    ASSUME NEW p \in Pools, NEW x, x = Nil \/ Pooled(x)
    PROVE  /\ putPayloadBuffer(p, x) \in Pools
           /\ \A b \in Bufs :
                 /\ putPayloadBuffer(p, x)[b] \in p[b]..p[b] + One(b = x.buf)
                 /\ Home[b] > 0 => putPayloadBuffer(p, x)[b] = p[b] + One(b = x.buf)
<1>1. PICK a, c : a = x.buf /\ c = x.cap
    OBVIOUS
<1>2. putPayloadBuffer(p, x) = IF c \in Buckets THEN [p EXCEPT ![a] = p[a] + 1] ELSE p
    BY <1>1 DEF putPayloadBuffer
<1>3. CASE x = Nil
    BY <1>1, <1>2, <1>3, NilOK DEF Buckets, Pools, One
<1>4. CASE Pooled(x)
    <2>1. a \in Bufs /\ Home[a] # -1 /\ (Home[a] > 0 => c = Home[a])
        BY <1>1, <1>4 DEF Pooled
    <2>2. Home[a] > 0 => Home[a] \in Buckets
        BY <2>1, PoolAssumption
    <2>3. CASE c \in Buckets
        BY <1>1, <1>2, <2>1, <2>3 DEF Pools, One
    <2>4. CASE c \notin Buckets
        BY <1>1, <1>2, <2>1, <2>2, <2>4 DEF Pools, One
    <2> QED
        BY <2>3, <2>4
<1> QED
    BY <1>3, <1>4

-----------------------------------------------------------------------------
(***************************************************************************)
(* What a session holds where: a payload from its header to the end of its *)
(* processing, a message while OnMessage runs, and never a payload or a    *)
(* message that is too large.  A client's payload lies in netpoll's array. *)
(* The names "deflated" and "masked" are those that module WsWriter gives  *)
(* to bytes.                                                               *)
(***************************************************************************)
Tokens == (Sessions \cup {"deflated", "masked"}) \X Nat
Deliveries == [op : DataOps \cup {"none"}, parts : Seq(Tokens), len : Nat]
MemOK ==
    /\ pool \in Pools /\ mem \in [Bufs -> Seq(Tokens)]
    /\ payload \in [Sessions -> Slices] /\ buffer \in [Sessions -> Slices]
    /\ full \in [Sessions -> Slices] /\ reassembled \in [Sessions -> BOOLEAN]
RunOK ==
    /\ direct \in [Sessions -> BOOLEAN] /\ pc \in [Sessions -> Pcs]
    /\ sent \in [Sessions -> Seq(Frames)] /\ taken \in [Sessions -> Nat]
    /\ lastOpCode \in [Sessions -> DataOps \cup {"none"}]
HistOK == delivered \in [Sessions -> Seq(Deliveries)]

Busy == {"payload", "process", "message"}
Counted(s) ==
    /\ taken[s] <= Len(sent[s]) /\ (pc[s] \in Busy => taken[s] >= 1)
    /\ direct[s] => pc[s] \notin {"read", "payload"}

(* The payload x, the Assembler's buffer y and the message z (own: it has a *)
(* buffer of its own) of a session whose callback is at q.                  *)
Fit(s, q, x, y, z, own) ==
    /\ IF q \in Busy
       THEN x.buf \in Bufs /\ ~TooLarge(x.len) /\ (IF direct[s] THEN x.buf = Input[s] ELSE Pooled(x))
       ELSE x = Nil
    /\ y = Nil \/ Pooled(y)
    /\ IF q = "message" THEN (IF own THEN Pooled(z) ELSE z = x) ELSE z = Nil
Placed(s) == Fit(s, pc[s], payload[s], buffer[s], full[s], reassembled[s])

(* How often a session holds an array *)
Share(x, y, z, own, b) == One(x.buf = b) + One(y.buf = b) + One(own /\ z.buf = b)
Count(s, b) == Share(payload[s], buffer[s], full[s], reassembled[s], b)

(* What OnMessage was called with: never too large, and unchanged while it  *)
(* runs.                                                                    *)
SizesOK(s) == \A n \in DOMAIN delivered[s] : ~TooLarge(delivered[s][n].len)
Stable(s) ==
    pc[s] = "message" =>
        delivered[s] # << >> /\ mem[full[s].buf] = delivered[s][Len(delivered[s])].parts

(***************************************************************************)
(* What a step of a session does to the memory that all of them share:     *)
(* nothing another one holds or has done changes; an array it lets go of   *)
(* is in its pool or gone, one it gets comes from there, and only a panic  *)
(* loses any; and it writes only to arrays of its own or of a pool.        *)
(***************************************************************************)
RunsAlone(s) ==
    /\ direct' = direct
    /\ \A t \in Sessions \ {s} : pc'[t] = pc[t] /\ sent'[t] = sent[t] /\ taken'[t] = taken[t]
HoldsAlone(s) ==
    \A t \in Sessions \ {s} :
        /\ payload'[t] = payload[t] /\ buffer'[t] = buffer[t]
        /\ full'[t] = full[t] /\ reassembled'[t] = reassembled[t]
Conserved(s) ==
    \A b \in Bufs :
        /\ Home[b] # -1 => pool'[b] + Count(s, b)' <= pool[b] + Count(s, b)
        /\ Home[b] > 0 /\ ~NegativeLength(s) /\ ~MessagePanics(s) =>
              pool'[b] + Count(s, b)' = pool[b] + Count(s, b)
Mine(s, b) == pool[b] > 0 \/ Count(s, b) > 0 \/ (direct[s] /\ b = Input[s])
Written(s) == \A b \in Bufs : mem'[b] # mem[b] => Mine(s, b)

LEMMA NextOK ==
    ASSUME RunOK, NEW s \in Sessions, Counted(s), Unread(s) > 0
    PROVE  NextFrame(s) \in Frames /\ NextFrame(s).len \in Int /\ taken[s] + 1 <= Len(sent[s])
<1>1. sent[s] \in Seq(Frames) /\ taken[s] \in Nat /\ Len(sent[s]) \in Nat
    BY DEF RunOK
<1>2. taken[s] + 1 \in 1..Len(sent[s])
    BY <1>1 DEF Unread
<1>3. NextFrame(s) \in Frames
    BY <1>1, <1>2 DEF NextFrame
<1> QED
    BY <1>2, <1>3, SessionAssumption

LEMMA FrameOK ==
    ASSUME RunOK, NEW s \in Sessions, Counted(s), pc[s] \in Busy
    PROVE  Frame(s) \in Frames
<1>1. sent[s] \in Seq(Frames) /\ taken[s] \in Nat /\ Len(sent[s]) \in Nat
    BY DEF RunOK
<1>2. taken[s] \in 1..Len(sent[s])
    BY <1>1 DEF Counted
<1> QED
    BY <1>1, <1>2 DEF Frame

(* A step moves the callback, and takes at most one frame that is there. *)
LEMMA RunStep ==
    ASSUME RunOK, NEW s \in Sessions, Counted(s), SessionActs(s)
    PROVE  RunOK' /\ Counted(s)' /\ RunsAlone(s)
<1>1. sent[s] \in Seq(Frames) /\ Len(sent[s]) \in Nat /\ taken[s] \in Nat
    BY DEF RunOK
<1> USE <1>1 DEF RunOK, Counted, RunsAlone, Pcs, Goto, netVars, readVars, asmVars, Busy
<1>2. CASE Upgrade(s) \/ Peer(s)
    <2>1. CASE \E f \in Frames : PeerSendsHeader(s, f)
        <3>1. PICK f \in Frames : PeerSendsHeader(s, f)
            BY <2>1
        <3>2. Append(sent[s], f) \in Seq(Frames) /\ Len(Append(sent[s], f)) = Len(sent[s]) + 1
            OBVIOUS
        <3> QED
            BY <3>1, <3>2 DEF PeerSendsHeader
    <2> QED
        BY <1>2, <2>1
           DEF Upgrade, UpgradeFlushes, UpgradeFlushFails, UpgradeInstalls, Peer,
               PeerStartsFrame, PeerSendsPayload, PeerCloses
<1>3. CASE \/ FrameTooLarge(s) \/ ReadHeader(s) \/ NegativeLength(s)
           \/ PeekTakes(s) \/ PeekTooLarge(s)
    <2>1. Unread(s) > 0 /\ taken' = [taken EXCEPT ![s] = taken[s] + 1]
        BY <1>3
           DEF FrameTooLarge, ReadHeader, NegativeLength, PeekTakes, PeekTooLarge, TakeHeader,
               SkipHeader, WholeFrame
    <2>2. taken[s] + 1 <= Len(sent[s])
        BY <2>1 DEF Unread
    <2>3. /\ UNCHANGED <<direct, sent, lastOpCode>>
          /\ \E q \in {"err", "payload", "idle", "process"} :
                pc' = [pc EXCEPT ![s] = q] /\ (direct[s] => q # "payload")
        BY <1>3 DEF FrameTooLarge, ReadHeader, NegativeLength, PeekTakes, PeekTooLarge
    <2>4. taken'[s] = taken[s] + 1 /\ taken' \in [Sessions -> Nat]
        BY <2>1
    <2> QED
        BY <2>1, <2>2, <2>3, <2>4
<1>4. CASE \/ StartCallback(s) \/ ReadHandlerFails(s) \/ ServeFindsClosed(s) \/ ServeWaits(s)
           \/ ServeReads(s) \/ ReadHeaderFails(s) \/ ReadHeaderBad(s) \/ ReadPayload(s)
           \/ ReadPayloadFails(s) \/ PeekWaits(s)
    BY <1>4
       DEF StartCallback, ReadHandlerFails, ServeFindsClosed, ServeWaits, ServeReads,
           ReadHeaderFails, ReadHeaderBad, ReadPayload, ReadPayloadFails, PeekWaits
<1>5. CASE \/ PingPong(s) \/ CloseFrame(s) \/ AssemblerRefuses(s) \/ MiddleFragment(s)
           \/ LastFragment(s) \/ LastCompressed(s) \/ LastInflateFails(s) \/ MessageReturns(s)
           \/ MessagePanics(s)
    BY <1>5
       DEF PingPong, CloseFrame, AssemblerRefuses, MiddleFragment, LastFragment, LastCompressed,
           LastInflateFails, MessageReturns, MessagePanics
<1>6. CASE \/ SingleFrame(s) \/ SingleCompressed(s) \/ SingleInflateFails(s) \/ FirstFragment(s)
    BY <1>6, ZenonT(30)
       DEF SingleFrame, SingleCompressed, SingleInflateFails, FirstFragment, BeginsMessage
<1> QED
    BY <1>2, <1>3, <1>4, <1>5, <1>6 DEF SessionActs, ReadHandler, ServeConn, processFrame

(* The ledger of a step after which the session holds x, y and z *)
Becomes(s, x, y, z, own) ==
    /\ payload' = [payload EXCEPT ![s] = x] /\ buffer' = [buffer EXCEPT ![s] = y]
    /\ full' = [full EXCEPT ![s] = z] /\ reassembled' = [reassembled EXCEPT ![s] = own]
Ledger(s, x, y, z, own) ==
    \A b \in Bufs :
        /\ Home[b] # -1 => pool'[b] + Share(x, y, z, own, b) <= pool[b] + Count(s, b)
        /\ Home[b] > 0 /\ ~NegativeLength(s) /\ ~MessagePanics(s) =>
              pool'[b] + Share(x, y, z, own, b) = pool[b] + Count(s, b)

Move(s, q, x, y, z, own) ==
    /\ q \in Pcs /\ pc' = [pc EXCEPT ![s] = q] /\ direct' = direct
    /\ x \in Slices /\ y \in Slices /\ z \in Slices /\ own \in BOOLEAN
    /\ Becomes(s, x, y, z, own) /\ Fit(s, q, x, y, z, own)
    /\ pool' \in Pools /\ mem' \in [Bufs -> Seq(Tokens)] /\ Ledger(s, x, y, z, own)

LEMMA Moves ==
    ASSUME MemOK, RunOK, NEW s \in Sessions,
           \E q, x, y, z, own : Move(s, q, x, y, z, own)
    PROVE  MemOK' /\ Placed(s)' /\ HoldsAlone(s) /\ Conserved(s)
<1>0. PICK q, x, y, z, own : Move(s, q, x, y, z, own)
    OBVIOUS
<1> USE <1>0 DEF Move
<1>1. payload'[s] = x /\ buffer'[s] = y /\ full'[s] = z /\ reassembled'[s] = own /\ pc'[s] = q
    BY DEF Becomes, MemOK, RunOK
<1>2. MemOK' /\ HoldsAlone(s)
    BY DEF Becomes, MemOK, HoldsAlone
<1>3. Placed(s)'
    BY <1>1 DEF Placed, Fit
<1>4. Conserved(s)
    BY <1>1 DEF Ledger, Conserved, Count
<1> QED
    BY <1>2, <1>3, <1>4

(* The end of processFrame: the payload goes back, or was netpoll's. *)
LEMMA Returned ==
    ASSUME MemOK, RunOK, NEW s \in Sessions, Placed(s), pc[s] \in Busy,
           NEW p \in Pools, FrameDone(s, p)
    PROVE  /\ pool' \in Pools
           /\ \A b \in Bufs :
                 /\ Home[b] # -1 => pool'[b] <= p[b] + One(payload[s].buf = b)
                 /\ Home[b] > 0 => pool'[b] = p[b] + One(payload[s].buf = b)
<1>1. CASE direct[s]
    <2>1. pool' = p /\ payload[s].buf = Input[s] /\ Home[Input[s]] = -1
        BY <1>1, SessionAssumption DEF FrameDone, Placed, Fit
    <2> QED
        BY <2>1 DEF Pools, One
<1>2. CASE ~direct[s]
    <2>1. pool' = putPayloadBuffer(p, payload[s]) /\ Pooled(payload[s])
        BY <1>2 DEF FrameDone, Placed, Fit
    <2> QED
        BY <2>1, PutOne DEF Pools, One
<1> QED
    BY <1>1, <1>2

(* The Assembler's buffer with a payload appended. *)
LEMMA Grown ==
    ASSUME MemOK, NEW s \in Sessions, Placed(s), Continues(s), NEW x \in Appended(s)
    PROVE  /\ x \in Slices /\ Pooled(x) /\ ~TooLarge(x.len)
           /\ x.buf = buffer[s].buf \/ pool[x.buf] > 0
           /\ AfterAppend(s, x) \in Pools
           /\ \A b \in Bufs :
                 /\ AfterAppend(s, x)[b] + One(x.buf = b) <= pool[b] + One(buffer[s].buf = b)
                 /\ Home[b] > 0 =>
                       AfterAppend(s, x)[b] + One(x.buf = b) = pool[b] + One(buffer[s].buf = b)
<1> DEFINE n == Max({2 * buffer[s].cap, Required(s)})
<1>1. /\ buffer[s] \in Slices /\ payload[s] \in Slices /\ Pooled(buffer[s]) /\ pool \in Pools
      /\ ~TooLarge(Required(s)) /\ Required(s) \in Nat /\ 2 * buffer[s].cap \in Nat
    BY DEF MemOK, Placed, Fit, Continues, Required, Slices
<1>2. CASE Fits(s)
    <2>1. x = [buffer[s] EXCEPT !.len = Required(s)] /\ AfterAppend(s, x) = pool
        BY <1>2 DEF Appended, AfterAppend
    <2>2. x \in Slices /\ x.buf = buffer[s].buf /\ x.cap = buffer[s].cap /\ x.len = Required(s)
        BY <1>1, <2>1 DEF Slices
    <2> QED
        BY <1>1, <2>1, <2>2 DEF Pooled, Pools, One
<1>3. CASE ~Fits(s)
    <2>1. PICK y \in getPayloadBuffer(pool, n) : x = [y EXCEPT !.len = Required(s)]
        BY <1>3 DEF Appended
    <2>2. n \in Nat
        <3>1. PICK k \in Nat, m \in Nat : k = 2 * buffer[s].cap /\ m = Required(s)
            BY <1>1
        <3>2. k \in Int /\ m \in Int
            OBVIOUS
        <3>3. Max({k, m}) \in {k, m}
            BY <3>2, MaxOK, Zenon
        <3> QED
            BY <3>1, <3>3
    <2>3. Pooled(y) /\ pool[y.buf] > 0 /\ y \in Slices
        BY <1>1, <2>1, <2>2, Got
    <2>4. x \in Slices /\ x.buf = y.buf /\ x.cap = y.cap /\ x.len = Required(s)
        BY <1>1, <2>1, <2>3 DEF Slices
    <2>5. Pooled(x) /\ x.buf \in Bufs
        BY <2>3, <2>4 DEF Pooled
    <2>6. PICK p \in Pools : /\ p = Without(pool, x)
                             /\ \A b \in Bufs : p[b] = pool[b] - One(b = x.buf)
        BY <1>1, <2>3, <2>4, <2>5, TakeOne
    <2>7. AfterAppend(s, x) = putPayloadBuffer(p, buffer[s])
        BY <1>3, <2>6 DEF AfterAppend
    <2> QED
        BY <1>1, <2>3, <2>4, <2>5, <2>6, <2>7, PutOne DEF Pools, One
<1> QED
    BY <1>2, <1>3

-----------------------------------------------------------------------------
(* Each action keeps the ledger. *)
MemEffect(s) == MemOK' /\ Placed(s)' /\ HoldsAlone(s) /\ Conserved(s) /\ Written(s)

LEMMA Keeps ==
    ASSUME MemOK, NEW s \in Sessions
    PROVE  /\ payload = [payload EXCEPT ![s] = payload[s]] /\ payload[s] \in Slices
           /\ buffer = [buffer EXCEPT ![s] = buffer[s]] /\ buffer[s] \in Slices
           /\ full = [full EXCEPT ![s] = full[s]] /\ full[s] \in Slices
           /\ reassembled = [reassembled EXCEPT ![s] = reassembled[s]]
           /\ reassembled[s] \in BOOLEAN
    BY DEF MemOK

(* Actions that leave the memory alone *)
LEMMA QuietStep ==
    ASSUME MemOK, RunOK, NEW s \in Sessions, Placed(s),
           \/ Upgrade(s) \/ Peer(s) \/ StartCallback(s) \/ ReadHandlerFails(s)
           \/ ServeFindsClosed(s) \/ ServeWaits(s) \/ ServeReads(s) \/ ReadHeaderFails(s)
           \/ ReadHeaderBad(s) \/ FrameTooLarge(s) \/ PeekWaits(s) \/ PeekTooLarge(s)
    PROVE  MemEffect(s)
<1> USE DEF Goto, netVars, readVars, memVars, asmVars, msgVars
<1>1. /\ UNCHANGED <<direct, pool, mem, payload, buffer, full, reassembled>>
      /\ pc' = pc \/ \E q \in Pcs \ Busy : pc[s] \notin Busy /\ pc' = [pc EXCEPT ![s] = q]
    <2> USE DEF Busy, Pcs
    <2>1. CASE Upgrade(s) \/ Peer(s)
        BY <2>1
           DEF Upgrade, UpgradeFlushes, UpgradeFlushFails, UpgradeInstalls, Peer,
               PeerStartsFrame, PeerSendsHeader, PeerSendsPayload, PeerCloses
    <2>2. CASE StartCallback(s) \/ ReadHandlerFails(s) \/ ServeFindsClosed(s) \/ ServeWaits(s)
        BY <2>2 DEF StartCallback, ReadHandlerFails, ServeFindsClosed, ServeWaits
    <2>3. CASE ServeReads(s) \/ ReadHeaderFails(s) \/ ReadHeaderBad(s) \/ FrameTooLarge(s)
        BY <2>3 DEF ServeReads, ReadHeaderFails, ReadHeaderBad, FrameTooLarge
    <2>4. CASE PeekWaits(s) \/ PeekTooLarge(s)
        BY <2>4 DEF PeekWaits, PeekTooLarge
    <2> QED
        BY <2>1, <2>2, <2>3, <2>4
<1>2. MemOK' /\ HoldsAlone(s) /\ Written(s)
    BY <1>1 DEF MemOK, HoldsAlone, Written
<1>3. Placed(s)'
    <2>1. PICK q \in Pcs : pc'[s] = q /\ (q = pc[s] \/ (q \notin Busy /\ pc[s] \notin Busy))
        BY <1>1 DEF RunOK
    <2>2. Fit(s, q, payload[s], buffer[s], full[s], reassembled[s])
        BY <2>1 DEF Placed, Fit, Busy
    <2> QED
        BY <1>1, <2>1, <2>2 DEF Placed, Fit
<1>4. Conserved(s)
    <2>1. \A b \in Bufs : pool'[b] = pool[b] /\ pool[b] \in Int
        BY <1>1 DEF MemOK, Pools
    <2>2. \A b \in Bufs : Count(s, b)' = Count(s, b) /\ Count(s, b) \in Int
        BY <1>1 DEF Count, Share, One
    <2> QED
        BY <2>1, <2>2 DEF Conserved
<1> QED
    BY <1>2, <1>3, <1>4 DEF MemEffect

(* Reading a header and a payload *)
LEMMA ReadHeaderStep ==
    ASSUME MemOK, RunOK, NEW s \in Sessions, Placed(s), Counted(s), ReadHeader(s)
    PROVE  MemEffect(s)
<1>1. PICK n \in Nat : n = NextFrame(s).len /\ ~TooLarge(n)
    BY NextOK DEF ReadHeader
<1>2. PICK x \in getPayloadBuffer(pool, n) :
          payload' = [payload EXCEPT ![s] = x] /\ pool' = Without(pool, x)
    BY <1>1 DEF ReadHeader
<1>3. Pooled(x) /\ x.buf \in Bufs /\ pool[x.buf] > 0 /\ x \in Slices /\ x.len = n
    BY <1>2, Got DEF MemOK, Pooled
<1>4. pool' \in Pools /\ \A b \in Bufs : pool'[b] = pool[b] - One(b = x.buf)
    BY <1>2, <1>3, TakeOne DEF MemOK
<1>5. /\ pc' = [pc EXCEPT ![s] = "payload"] /\ direct' = direct /\ mem' = mem
      /\ UNCHANGED <<buffer, full, reassembled>> /\ ~direct[s]
      /\ payload[s] = Nil /\ full[s] = Nil
    BY DEF ReadHeader, Goto, netVars, asmVars, msgVars, Placed, Fit, Busy, Counted
<1>6. Becomes(s, x, buffer[s], full[s], reassembled[s])
    BY <1>2, <1>5, Keeps DEF Becomes
<1>7. Fit(s, "payload", x, buffer[s], full[s], reassembled[s])
    BY <1>1, <1>3, <1>5 DEF Placed, Fit, Busy
<1>8. Ledger(s, x, buffer[s], full[s], reassembled[s])
    BY <1>4, <1>5, NilOK DEF Ledger, Count, Share, One, MemOK, Pools
<1>9. "payload" \in Pcs /\ mem' \in [Bufs -> Seq(Tokens)]
    BY <1>5 DEF Pcs, MemOK
<1>10. Written(s)
    BY <1>5 DEF Written
<1>11. buffer[s] \in Slices /\ full[s] \in Slices /\ reassembled[s] \in BOOLEAN
    BY Keeps
<1>12. Move(s, "payload", x, buffer[s], full[s], reassembled[s])
    BY <1>3, <1>4, <1>5, <1>6, <1>7, <1>8, <1>9, <1>11 DEF Move
<1> QED
    BY <1>10, <1>12, Moves DEF MemEffect

LEMMA NegativeLengthStep ==
    ASSUME MemOK, RunOK, NEW s \in Sessions, Placed(s), NegativeLength(s)
    PROVE  MemEffect(s)
<1>1. PICK x \in getPayloadBuffer(pool, 0) : pool' = Without(pool, x)
    BY DEF NegativeLength
<1>2. x.buf \in Bufs /\ pool[x.buf] > 0
    BY <1>1, Got DEF MemOK, Pooled
<1>3. pool' \in Pools /\ \A b \in Bufs : pool'[b] = pool[b] - One(b = x.buf)
    BY <1>1, <1>2, TakeOne DEF MemOK
<1>4. /\ pc' = [pc EXCEPT ![s] = "idle"] /\ direct' = direct /\ mem' = mem
      /\ UNCHANGED <<payload, buffer, full, reassembled>> /\ pc[s] = "read"
    BY DEF NegativeLength, Goto, asmVars, msgVars
<1>5. Becomes(s, payload[s], buffer[s], full[s], reassembled[s])
    BY <1>4, Keeps DEF Becomes
<1>6. Fit(s, "idle", payload[s], buffer[s], full[s], reassembled[s])
    BY <1>4 DEF Placed, Fit, Busy
<1>7. Ledger(s, payload[s], buffer[s], full[s], reassembled[s])
    <2>1. \A b \in Bufs : pool'[b] <= pool[b] /\ pool[b] \in Int /\ pool'[b] \in Int
        <3>1. pool' \in [Bufs -> Nat] /\ pool \in [Bufs -> Nat]
            BY <1>3 DEF MemOK, Pools
        <3>2. \A b \in Bufs : One(b = x.buf) \in {0, 1}
            BY DEF One
        <3> QED
            BY <1>3, <3>1, <3>2
    <2>2. \A b \in Bufs : Count(s, b) \in Int
        BY DEF Count, Share, One
    <2> QED
        BY <2>1, <2>2 DEF Ledger, Count
<1>8. Move(s, "idle", payload[s], buffer[s], full[s], reassembled[s])
    BY <1>3, <1>4, <1>5, <1>6, <1>7, Keeps DEF Move, Pcs, MemOK
<1> QED
    BY <1>4, <1>8, Moves DEF MemEffect, Written

LEMMA ReadPayloadStep ==
    ASSUME MemOK, RunOK, NEW s \in Sessions, Placed(s), ReadPayload(s)
    PROVE  MemEffect(s)
<1>1. << <<s, taken[s]>> >> \in Seq(Tokens)
    BY DEF Tokens, RunOK
<1>2. PICK a : a = payload[s].buf
    OBVIOUS
<1>3. /\ pc' = [pc EXCEPT ![s] = "process"] /\ direct' = direct /\ pool' = pool
      /\ UNCHANGED <<payload, buffer, full, reassembled>> /\ pc[s] = "payload"
      /\ mem' = [mem EXCEPT ![a] = << <<s, taken[s]>> >>]
    BY <1>2 DEF ReadPayload, Goto, netVars, asmVars, msgVars
<1>4. Becomes(s, payload[s], buffer[s], full[s], reassembled[s])
    BY <1>3, Keeps DEF Becomes
<1>5. Fit(s, "process", payload[s], buffer[s], full[s], reassembled[s])
    BY <1>3 DEF Placed, Fit, Busy
<1>6. Ledger(s, payload[s], buffer[s], full[s], reassembled[s])
    BY <1>3 DEF Ledger, Count, Share, One, MemOK, Pools
<1>7. mem' \in [Bufs -> Seq(Tokens)] /\ \A b \in Bufs : mem'[b] # mem[b] => b = a
    BY <1>1, <1>3 DEF MemOK
<1>8. Move(s, "process", payload[s], buffer[s], full[s], reassembled[s])
    BY <1>3, <1>4, <1>5, <1>6, <1>7, Keeps DEF Move, Pcs, MemOK
<1>9. Written(s)
    BY <1>2, <1>7 DEF Written, Mine, Count, Share, One
<1> QED
    BY <1>8, <1>9, Moves DEF MemEffect

LEMMA ReadPayloadFailsStep ==
    ASSUME MemOK, RunOK, NEW s \in Sessions, Placed(s), Counted(s), ReadPayloadFails(s)
    PROVE  MemEffect(s)
<1>1. /\ pc' = [pc EXCEPT ![s] = "err"] /\ direct' = direct /\ mem' = mem
      /\ UNCHANGED <<buffer, full, reassembled>> /\ pc[s] = "payload"
      /\ payload' = [payload EXCEPT ![s] = Nil] /\ pool' = putPayloadBuffer(pool, payload[s])
    BY DEF ReadPayloadFails, Goto, netVars, asmVars, msgVars
<1>2. Pooled(payload[s])
    BY <1>1 DEF Placed, Fit, Counted, Busy
<1>3. /\ pool' \in Pools
      /\ \A b \in Bufs : /\ pool'[b] \in pool[b]..pool[b] + One(b = payload[s].buf)
                         /\ Home[b] > 0 => pool'[b] = pool[b] + One(b = payload[s].buf)
    BY <1>1, <1>2, PutOne DEF MemOK
<1>4. Becomes(s, Nil, buffer[s], full[s], reassembled[s])
    BY <1>1, Keeps DEF Becomes
<1>5. Fit(s, "err", Nil, buffer[s], full[s], reassembled[s])
    BY <1>1 DEF Placed, Fit, Busy
<1>6. Ledger(s, Nil, buffer[s], full[s], reassembled[s])
    BY <1>3, NilOK DEF Ledger, Count, Share, One, MemOK, Pools
<1>7. Move(s, "err", Nil, buffer[s], full[s], reassembled[s])
    BY <1>1, <1>3, <1>4, <1>5, <1>6, Keeps, NilOK DEF Move, Pcs, MemOK
<1> QED
    BY <1>1, <1>7, Moves DEF MemEffect, Written

LEMMA PeekTakesStep ==
    ASSUME MemOK, RunOK, NEW s \in Sessions, Placed(s), Counted(s), PeekTakes(s)
    PROVE  MemEffect(s)
<1>0. Unread(s) > 0
    BY DEF PeekTakes, WholeFrame
<1>1. PICK n \in Nat : n = Max({0, NextFrame(s).len})
    <2>1. PICK l \in Int : l = NextFrame(s).len
        BY <1>0, NextOK
    <2>2. Max({0, l}) \in {0, l} /\ Max({0, l}) >= 0
        BY MaxOK
    <2> QED
        BY <2>1, <2>2
<1> DEFINE x == [buf |-> Input[s], len |-> n, cap |-> n]
<1>2. /\ pc' = [pc EXCEPT ![s] = "process"] /\ direct' = direct /\ pool' = pool
      /\ UNCHANGED <<buffer, full, reassembled>> /\ pc[s] = "loop" /\ direct[s] /\ ~TooLarge(n)
      /\ payload' = [payload EXCEPT ![s] = x]
      /\ mem' = [mem EXCEPT ![Input[s]] = << <<s, taken[s] + 1>> >>]
    BY <1>1 DEF PeekTakes, Goto, netVars, asmVars, msgVars
<1>3. << <<s, taken[s] + 1>> >> \in Seq(Tokens)
    BY DEF Tokens, RunOK
<1>4. Input[s] \in Bufs /\ Home[Input[s]] = -1
    BY SessionAssumption
<1>5. x \in Slices /\ x.buf = Input[s] /\ x.len = n
    BY <1>4 DEF Slices
<1> HIDE DEF x
<1>6. Becomes(s, x, buffer[s], full[s], reassembled[s])
    BY <1>2, Keeps DEF Becomes
<1>7. Fit(s, "process", x, buffer[s], full[s], reassembled[s])
    BY <1>2, <1>4, <1>5 DEF Placed, Fit, Busy
<1>8. Ledger(s, x, buffer[s], full[s], reassembled[s])
    <2>1. payload[s] = Nil
        BY <1>2 DEF Placed, Fit, Busy
    <2> QED
        BY <1>2, <1>4, <1>5, <2>1, NilOK DEF Ledger, Count, Share, One, MemOK, Pools
<1>9. mem' \in [Bufs -> Seq(Tokens)] /\ \A b \in Bufs : mem'[b] # mem[b] => b = Input[s]
    BY <1>2, <1>3 DEF MemOK
<1>10. Move(s, "process", x, buffer[s], full[s], reassembled[s])
    BY <1>2, <1>5, <1>6, <1>7, <1>8, <1>9, Keeps DEF Move, Pcs, MemOK
<1>11. Written(s)
    BY <1>2, <1>9 DEF Written, Mine
<1> QED
    BY <1>10, <1>11, Moves DEF MemEffect

LEMMA MessagePanicsStep ==
    ASSUME MemOK, RunOK, NEW s \in Sessions, Placed(s), MessagePanics(s)
    PROVE  MemEffect(s)
<1>1. /\ pc' = [pc EXCEPT ![s] = "idle"] /\ direct' = direct /\ mem' = mem /\ pool' = pool
      /\ payload' = [payload EXCEPT ![s] = Nil] /\ full' = [full EXCEPT ![s] = Nil]
      /\ UNCHANGED <<buffer, reassembled>>
    BY DEF MessagePanics, Goto, memVars, asmVars
<1>2. Becomes(s, Nil, buffer[s], Nil, reassembled[s])
    BY <1>1, Keeps DEF Becomes
<1>3. Fit(s, "idle", Nil, buffer[s], Nil, reassembled[s])
    BY DEF Placed, Fit, Busy
<1>4. Ledger(s, Nil, buffer[s], Nil, reassembled[s])
    BY <1>1, NilOK DEF Ledger, Count, Share, One, MemOK, Pools
<1>5. Move(s, "idle", Nil, buffer[s], Nil, reassembled[s])
    BY <1>1, <1>2, <1>3, <1>4, Keeps, NilOK DEF Move, Pcs, MemOK
<1> QED
    BY <1>1, <1>5, Moves DEF MemEffect, Written

Balance(s, p, y) ==
    \A b \in Bufs :
        LET held == One(buffer[s].buf = b) + One(reassembled[s] /\ full[s].buf = b)
        IN  /\ Home[b] # -1 => p[b] + One(y.buf = b) <= pool[b] + held
            /\ Home[b] > 0 => p[b] + One(y.buf = b) = pool[b] + held

(* A way through processFrame that leaves the session without payload and   *)
(* message, with y in the Assembler: p is the pools before the payload went *)
(* back.                                                                    *)
Finishes(s, q, p, y) ==
    /\ pc[s] \in {"process", "message"} /\ q \in {"loop", "err"} /\ pc' = [pc EXCEPT ![s] = q]
    /\ direct' = direct /\ p \in Pools /\ FrameDone(s, p)
    /\ y \in Slices /\ (y = Nil \/ Pooled(y)) /\ buffer' = [buffer EXCEPT ![s] = y]
    /\ full' = [full EXCEPT ![s] = Nil] /\ reassembled' = reassembled
    /\ mem' \in [Bufs -> Seq(Tokens)]
    /\ Balance(s, p, y)

LEMMA FinishStep ==
    ASSUME MemOK, RunOK, NEW s \in Sessions, Placed(s), \E q, p, y : Finishes(s, q, p, y), Written(s)
    PROVE  MemEffect(s)
<1>1. PICK q, p, y : Finishes(s, q, p, y)
    OBVIOUS
<1>2. /\ pool' \in Pools
      /\ \A b \in Bufs : /\ Home[b] # -1 => pool'[b] <= p[b] + One(payload[s].buf = b)
                         /\ Home[b] > 0 => pool'[b] = p[b] + One(payload[s].buf = b)
    BY <1>1, Returned DEF Finishes, Busy
<1>3. Becomes(s, Nil, y, Nil, reassembled[s])
    BY <1>1, Keeps DEF Becomes, Finishes, FrameDone
<1>4. Fit(s, q, Nil, y, Nil, reassembled[s])
    BY <1>1 DEF Finishes, Fit, Busy
<1>5. Ledger(s, Nil, y, Nil, reassembled[s])
    <2>1. ASSUME NEW b \in Bufs
          PROVE  /\ Home[b] # -1 =>
                       pool'[b] + Share(Nil, y, Nil, reassembled[s], b) <= pool[b] + Count(s, b)
                 /\ Home[b] > 0 =>
                       pool'[b] + Share(Nil, y, Nil, reassembled[s], b) = pool[b] + Count(s, b)
        <3>1. pool'[b] \in Int /\ p[b] \in Int /\ pool[b] \in Int
            BY <1>1, <1>2 DEF Finishes, Pools, MemOK
        <3>2. Share(Nil, y, Nil, reassembled[s], b) = One(y.buf = b) /\ One(y.buf = b) \in Int
            BY NilOK DEF Share, One
        <3>3. PICK i \in Int, j \in Int, k \in Int :
                  /\ i = One(payload[s].buf = b) /\ j = One(buffer[s].buf = b)
                  /\ k = One(reassembled[s] /\ full[s].buf = b)
            BY DEF One
        <3>4. Count(s, b) = i + j + k
            BY <3>3 DEF Count, Share
        <3>5. /\ Home[b] # -1 => p[b] + One(y.buf = b) <= pool[b] + (j + k)
              /\ Home[b] > 0 => p[b] + One(y.buf = b) = pool[b] + (j + k)
            BY <1>1, <3>3 DEF Finishes, Balance
        <3> QED
            BY <1>2, <3>1, <3>2, <3>3, <3>4, <3>5
    <2> QED
        BY <2>1 DEF Ledger
<1>6. Move(s, q, Nil, y, Nil, reassembled[s])
    BY <1>1, <1>2, <1>3, <1>4, <1>5, Keeps, NilOK DEF Move, Pcs, Finishes
<1> QED
    BY <1>6, Moves DEF MemEffect

(* No message, and nothing added to the Assembler: a control frame, a frame *)
(* the Assembler refuses, a message that cannot be inflated; and OnMessage  *)
(* returning.                                                               *)
LEMMA RefusalStep ==
    ASSUME MemOK, RunOK, NEW s \in Sessions, Placed(s),
           PingPong(s) \/ CloseFrame(s) \/ AssemblerRefuses(s) \/ SingleInflateFails(s)
    PROVE  MemEffect(s)
<1>1. /\ pc[s] = "process" /\ UNCHANGED <<direct, mem, full, reassembled>>
      /\ \E q \in {"loop", "err"} : pc' = [pc EXCEPT ![s] = q]
      /\ full[s] = Nil /\ full' = [full EXCEPT ![s] = Nil]
    BY Keeps
       DEF PingPong, CloseFrame, AssemblerRefuses, SingleInflateFails, Goto, netVars, msgVars,
           Placed, Fit
<1>2. PICK q \in {"loop", "err"} : pc' = [pc EXCEPT ![s] = q]
    BY <1>1
<1>4. Written(s) /\ mem' \in [Bufs -> Seq(Tokens)]
    BY <1>1 DEF Written, MemOK
<1>5. buffer[s] \in Slices /\ (buffer[s] = Nil \/ Pooled(buffer[s])) /\ pool \in Pools
    BY Keeps DEF Placed, Fit, MemOK
<1>7. CASE PingPong(s) \/ CloseFrame(s) \/ SingleInflateFails(s)
    <2>1. FrameDone(s, pool) /\ buffer' = [buffer EXCEPT ![s] = buffer[s]]
        BY <1>7, Keeps DEF PingPong, CloseFrame, SingleInflateFails, asmVars
    <2>2. Finishes(s, q, pool, buffer[s])
        <3>1. Balance(s, pool, buffer[s])
            BY <1>1, <1>5, NilOK DEF Balance, One, Pools
        <3> QED
            BY <1>1, <1>2, <1>4, <1>5, <2>1, <3>1 DEF Finishes
    <2> QED
        BY <1>4, <2>2, FinishStep
<1>8. CASE AssemblerRefuses(s)
    <2>1. PICK p : /\ p = IF buffer[s] = Nil THEN pool ELSE putPayloadBuffer(pool, buffer[s])
                   /\ FrameDone(s, p) /\ buffer' = [buffer EXCEPT ![s] = Nil]
        BY <1>8 DEF AssemblerRefuses
    <2>2. /\ p \in Pools
          /\ \A b \in Bufs : /\ p[b] <= pool[b] + One(buffer[s].buf = b)
                             /\ Home[b] > 0 => p[b] = pool[b] + One(buffer[s].buf = b)
        <3>1. CASE buffer[s] = Nil
            BY <1>5, <2>1, <3>1, NilOK DEF Pools, One
        <3>2. CASE buffer[s] # Nil
            BY <1>5, <2>1, <3>2, PutOne DEF Pools, One
        <3> QED
            BY <3>1, <3>2
    <2>3. Finishes(s, q, p, Nil)
        <3>1. Balance(s, p, Nil)
            BY <1>1, <1>5, <2>2, NilOK DEF Balance, One, Pools
        <3> QED
            BY <1>1, <1>2, <1>4, <2>1, <2>2, <3>1, NilOK DEF Finishes
    <2> QED
        BY <1>4, <2>3, FinishStep
<1> QED
    BY <1>7, <1>8

LEMMA MessageReturnsStep ==
    ASSUME MemOK, RunOK, NEW s \in Sessions, Placed(s), MessageReturns(s)
    PROVE  MemEffect(s)
<1>1. PICK p : /\ p = IF reassembled[s] THEN putPayloadBuffer(pool, full[s]) ELSE pool
               /\ FrameDone(s, p)
    BY DEF MessageReturns
<1>2. /\ pc[s] = "message" /\ pc' = [pc EXCEPT ![s] = "loop"] /\ UNCHANGED <<direct, mem, reassembled>>
      /\ full' = [full EXCEPT ![s] = Nil] /\ buffer' = [buffer EXCEPT ![s] = buffer[s]]
    BY Keeps DEF MessageReturns, Goto, netVars, asmVars
<1>3. Written(s) /\ mem' \in [Bufs -> Seq(Tokens)]
    BY <1>2 DEF Written, MemOK
<1>4. buffer[s] \in Slices /\ (buffer[s] = Nil \/ Pooled(buffer[s])) /\ pool \in Pools
    BY Keeps DEF Placed, Fit, MemOK
<1>5. /\ p \in Pools
      /\ \A b \in Bufs : /\ p[b] <= pool[b] + One(reassembled[s] /\ full[s].buf = b)
                         /\ Home[b] > 0 => p[b] = pool[b] + One(reassembled[s] /\ full[s].buf = b)
    <2>1. CASE reassembled[s]
        <3>1. Pooled(full[s])
            BY <1>2, <2>1 DEF Placed, Fit
        <3> QED
            BY <1>1, <1>4, <2>1, <3>1, PutOne DEF Pools, One
    <2>2. CASE ~reassembled[s]
        BY <1>1, <1>4, <2>2 DEF Pools, One
    <2> QED
        BY <2>1, <2>2
<1>6. \A b \in Bufs : /\ p[b] \in Int /\ pool[b] \in Int /\ One(buffer[s].buf = b) \in Int
                      /\ One(reassembled[s] /\ full[s].buf = b) \in Int
    BY <1>4, <1>5 DEF Pools, One
<1>7. Finishes(s, "loop", p, buffer[s])
    <2>1. Balance(s, p, buffer[s])
        BY <1>5, <1>6 DEF Balance
    <2> QED
        BY <1>1, <1>2, <1>3, <1>4, <1>5, <2>1 DEF Finishes
<1> QED
    BY <1>3, <1>7, FinishStep

(* What the actions that copy bytes write *)
LEMMA JoinedOK ==
    ASSUME MemOK, NEW s \in Sessions, Placed(s), pc[s] \in Busy
    PROVE  /\ mem[payload[s].buf] \in Seq(Tokens)
           /\ buffer[s] # Nil => Joined(s) \in Seq(Tokens)
<1>1. payload[s].buf \in Bufs /\ (buffer[s] # Nil => buffer[s].buf \in Bufs)
    BY DEF Placed, Fit, Pooled
<1>2. mem[payload[s].buf] \in Seq(Tokens)
    BY <1>1 DEF MemOK
<1>3. ASSUME buffer[s] # Nil PROVE Joined(s) \in Seq(Tokens)
    <2>1. mem[buffer[s].buf] \in Seq(Tokens)
        BY <1>1, <1>3 DEF MemOK
    <2> QED
        <3>1. PICK u \in Seq(Tokens), v \in Seq(Tokens) :
                  u = mem[buffer[s].buf] /\ v = mem[payload[s].buf]
            BY <1>2, <2>1
        <3>2. u \o v \in Seq(Tokens)
            OBVIOUS
        <3> QED
            BY <3>1, <3>2 DEF Joined
<1> QED
    BY <1>2, <1>3

LEMMA OneWrite ==
    ASSUME MemOK, NEW s \in Sessions, NEW a, NEW t \in Seq(Tokens),
           mem' = [mem EXCEPT ![a] = t], a \in Bufs => Mine(s, a)
    PROVE  mem' \in [Bufs -> Seq(Tokens)] /\ Written(s)
    BY DEF MemOK, Written

LEMMA FirstFragmentStep ==
    ASSUME MemOK, RunOK, NEW s \in Sessions, Placed(s), FirstFragment(s)
    PROVE  MemEffect(s)
<1>1. PICK l \in Nat : l = payload[s].len
    BY Keeps DEF Slices
<1>2. PICK n \in Nat : n = Max({512, l})
    <2>1. PICK k : k = 512
        OBVIOUS
    <2>2. k \in Int /\ l \in Int
        BY <2>1
    <2>3. Max({k, l}) \in {k, l}
        BY <2>2, MaxOK, Zenon
    <2> QED
        BY <2>1, <2>3
<1>3. PICK x \in getPayloadBuffer(pool, n) :
          /\ buffer' = [buffer EXCEPT ![s] = [x EXCEPT !.len = l]]
          /\ mem' = [mem EXCEPT ![x.buf] = mem[payload[s].buf]]
          /\ FrameDone(s, Without(pool, x))
    BY <1>1, <1>2 DEF FirstFragment
<1>4. Pooled(x) /\ x.buf \in Bufs /\ pool[x.buf] > 0 /\ x \in Slices /\ pool \in Pools
    BY <1>3, Got DEF MemOK, Pooled
<1>5. PICK y \in Slices : y = [x EXCEPT !.len = l] /\ y.buf = x.buf /\ y.cap = x.cap
    <2>1. PICK y : y = [x EXCEPT !.len = l]
        OBVIOUS
    <2>2. y \in Slices /\ y.buf = x.buf /\ y.cap = x.cap
        BY <1>1, <1>4, <2>1 DEF Slices
    <2> QED
        BY <2>1, <2>2
<1>6. PICK p \in Pools : p = Without(pool, x) /\ \A b \in Bufs : p[b] = pool[b] - One(b = x.buf)
    BY <1>4, TakeOne
<1>7. /\ pc[s] = "process" /\ pc' = [pc EXCEPT ![s] = "loop"] /\ direct' = direct
      /\ buffer[s] = Nil /\ full[s] = Nil /\ reassembled' = reassembled
      /\ full' = [full EXCEPT ![s] = Nil]
    BY Keeps DEF FirstFragment, BeginsMessage, Goto, netVars, msgVars, Placed, Fit
<1>8. mem' \in [Bufs -> Seq(Tokens)] /\ Written(s)
    <2>1. mem[payload[s].buf] \in Seq(Tokens)
        BY <1>7, JoinedOK DEF Busy
    <2>2. Mine(s, x.buf)
        BY <1>4 DEF Mine
    <2> QED
        BY <1>3, <2>1, <2>2, OneWrite
<1>9. Balance(s, p, y)
    BY <1>4, <1>5, <1>6, <1>7, NilOK DEF Balance, One, Pools
<1>10. Pooled(y)
    BY <1>4, <1>5 DEF Pooled
<1>11. Finishes(s, "loop", p, y)
    BY <1>3, <1>5, <1>6, <1>7, <1>8, <1>9, <1>10 DEF Finishes
<1> QED
    BY <1>8, <1>11, FinishStep

LEMMA AppendStep ==
    ASSUME MemOK, RunOK, NEW s \in Sessions, Placed(s), MiddleFragment(s) \/ LastInflateFails(s)
    PROVE  MemEffect(s)
<1>1. Continues(s) /\ pc[s] = "process" /\ direct' = direct /\ buffer[s] # Nil
    BY DEF MiddleFragment, LastInflateFails, Continues, netVars
<1>2. PICK x \in Appended(s) :
          /\ mem' = [mem EXCEPT ![x.buf] = Joined(s)]
          /\ \/ /\ MiddleFragment(s) /\ buffer' = [buffer EXCEPT ![s] = x]
                /\ FrameDone(s, AfterAppend(s, x))
             \/ /\ LastInflateFails(s) /\ buffer' = [buffer EXCEPT ![s] = Nil]
                /\ FrameDone(s, putPayloadBuffer(AfterAppend(s, x), x))
    BY DEF MiddleFragment, LastInflateFails
<1>3. PICK p \in Pools :
          /\ x \in Slices /\ Pooled(x) /\ x.buf \in Bufs /\ p = AfterAppend(s, x)
          /\ x.buf = buffer[s].buf \/ pool[x.buf] > 0
          /\ \A b \in Bufs :
                /\ p[b] + One(x.buf = b) <= pool[b] + One(buffer[s].buf = b)
                /\ Home[b] > 0 => p[b] + One(x.buf = b) = pool[b] + One(buffer[s].buf = b)
    BY <1>1, <1>2, Grown DEF Pooled
<1>4. mem' \in [Bufs -> Seq(Tokens)] /\ Written(s)
    <2>1. Mine(s, x.buf)
        BY <1>3 DEF Mine, Count, Share, One
    <2>2. Joined(s) \in Seq(Tokens)
        BY <1>1, JoinedOK DEF Busy
    <2> QED
        BY <1>2, <2>1, <2>2, OneWrite
<1>5. /\ full[s] = Nil /\ reassembled' = reassembled /\ full' = [full EXCEPT ![s] = Nil]
      /\ pool \in Pools
    BY <1>1, Keeps DEF MiddleFragment, LastInflateFails, msgVars, Placed, Fit, MemOK
<1>6. CASE /\ MiddleFragment(s) /\ buffer' = [buffer EXCEPT ![s] = x]
           /\ FrameDone(s, AfterAppend(s, x))
    <2>1. Balance(s, p, x)
        BY <1>3, <1>5, NilOK DEF Balance, One, Pools
    <2>2. pc' = [pc EXCEPT ![s] = "loop"]
        BY <1>6 DEF MiddleFragment, Goto
    <2>3. Finishes(s, "loop", p, x)
        BY <1>1, <1>3, <1>4, <1>5, <1>6, <2>1, <2>2 DEF Finishes
    <2> QED
        BY <1>4, <2>3, FinishStep
<1>7. CASE /\ LastInflateFails(s) /\ buffer' = [buffer EXCEPT ![s] = Nil]
           /\ FrameDone(s, putPayloadBuffer(AfterAppend(s, x), x))
    <2>1. PICK r \in Pools :
              /\ r = putPayloadBuffer(p, x)
              /\ \A b \in Bufs : /\ r[b] \in p[b]..p[b] + One(b = x.buf)
                                 /\ Home[b] > 0 => r[b] = p[b] + One(b = x.buf)
        BY <1>3, PutOne
    <2>2. Balance(s, r, Nil)
        BY <1>3, <1>5, <2>1, NilOK DEF Balance, One, Pools
    <2>3. pc' = [pc EXCEPT ![s] = "err"]
        BY <1>7 DEF LastInflateFails, Goto
    <2>4. Finishes(s, "err", r, Nil)
        BY <1>1, <1>3, <1>4, <1>5, <1>7, <2>1, <2>2, <2>3, NilOK DEF Finishes
    <2> QED
        BY <1>4, <2>4, FinishStep
<1> QED
    BY <1>2, <1>6, <1>7

(* The actions that call OnMessage.  What they deliver is in the array they *)
(* deliver it in.                                                           *)
Delivers(s, x) ==
    /\ x.len \in Nat /\ ~TooLarge(x.len) /\ full'[s] = x /\ x.buf \in Bufs
    /\ \E o \in DataOps \cup {"none"}, t \in Seq(Tokens) :
          /\ delivered' = [delivered EXCEPT ![s] =
                               Append(delivered[s], [op |-> o, parts |-> t, len |-> x.len])]
          /\ mem'[x.buf] = t

LEMMA SingleFrameStep ==
    ASSUME MemOK, RunOK, NEW s \in Sessions, Placed(s), Counted(s), SingleFrame(s)
    PROVE  MemEffect(s) /\ Delivers(s, payload[s])
<1>1. /\ pc[s] = "process" /\ pc' = [pc EXCEPT ![s] = "message"] /\ direct' = direct
      /\ UNCHANGED <<mem, pool, payload, buffer>>
      /\ full' = [full EXCEPT ![s] = payload[s]]
      /\ reassembled' = [reassembled EXCEPT ![s] = FALSE]
      /\ full[s] = Nil /\ payload[s].buf \in Bufs /\ ~TooLarge(payload[s].len)
    BY DEF SingleFrame, Goto, CallOnMessage, netVars, memVars, Placed, Fit, Busy
<1>2. Becomes(s, payload[s], buffer[s], payload[s], FALSE)
    BY <1>1, Keeps DEF Becomes
<1>3. Fit(s, "message", payload[s], buffer[s], payload[s], FALSE)
    BY <1>1 DEF Placed, Fit, Busy
<1>4. Ledger(s, payload[s], buffer[s], payload[s], FALSE)
    BY <1>1, NilOK DEF Ledger, Count, Share, One, MemOK, Pools
<1>5. Move(s, "message", payload[s], buffer[s], payload[s], FALSE)
    BY <1>1, <1>2, <1>3, <1>4, Keeps DEF Move, Pcs, MemOK
<1>6. Delivers(s, payload[s])
    <2>1. payload[s].len \in Nat /\ full'[s] = payload[s]
        BY <1>1, Keeps DEF Slices, MemOK
    <2>2. mem[payload[s].buf] \in Seq(Tokens) /\ Frame(s).op \in DataOps
        BY <1>1, JoinedOK DEF Busy, SingleFrame, BeginsMessage
    <2>3. delivered' = [delivered EXCEPT ![s] =
              Append(delivered[s], [op |-> Frame(s).op, parts |-> mem[payload[s].buf],
                                    len |-> payload[s].len])]
        BY DEF SingleFrame, CallOnMessage
    <2> QED
        BY <1>1, <2>1, <2>2, <2>3 DEF Delivers
<1> QED
    BY <1>1, <1>5, <1>6, Moves DEF MemEffect, Written

LEMMA SingleCompressedStep ==
    ASSUME MemOK, RunOK, NEW s \in Sessions, Placed(s), SingleCompressed(s)
    PROVE  MemEffect(s) /\ \E x : Delivers(s, x)
<1>1. PICK x \in DecompressData(pool, payload[s]) :
          /\ pool' = Without(pool, x)
          /\ mem' = [mem EXCEPT ![x.buf] = mem[payload[s].buf]]
          /\ CallOnMessage(s, Frame(s).op, x, mem[payload[s].buf], TRUE)
    BY DEF SingleCompressed
<1>2. Pooled(x) /\ x.buf \in Bufs /\ pool[x.buf] > 0 /\ x \in Slices /\ ~TooLarge(x.len)
    BY <1>1, Keeps, Inflated DEF MemOK, Pooled
<1>3. pool' \in Pools /\ \A b \in Bufs : pool'[b] = pool[b] - One(b = x.buf)
    BY <1>1, <1>2, TakeOne DEF MemOK
<1>4. /\ pc[s] = "process" /\ pc' = [pc EXCEPT ![s] = "message"] /\ direct' = direct
      /\ UNCHANGED <<payload, buffer>> /\ full' = [full EXCEPT ![s] = x]
      /\ reassembled' = [reassembled EXCEPT ![s] = TRUE] /\ full[s] = Nil
    BY <1>1 DEF SingleCompressed, Goto, CallOnMessage, netVars, Placed, Fit
<1>5. mem[payload[s].buf] \in Seq(Tokens) /\ Frame(s).op \in DataOps
    BY <1>4, JoinedOK DEF Busy, SingleCompressed, BeginsMessage
<1>6. mem' \in [Bufs -> Seq(Tokens)] /\ Written(s)
    <2>1. Mine(s, x.buf)
        BY <1>2 DEF Mine
    <2> QED
        BY <1>1, <1>5, <2>1, OneWrite
<1>7. Becomes(s, payload[s], buffer[s], x, TRUE)
    BY <1>4, Keeps DEF Becomes
<1>8. Fit(s, "message", payload[s], buffer[s], x, TRUE)
    BY <1>2, <1>4 DEF Placed, Fit, Busy
<1>9. Ledger(s, payload[s], buffer[s], x, TRUE)
    BY <1>2, <1>3, <1>4, NilOK DEF Ledger, Count, Share, One, MemOK, Pools
<1>10. Move(s, "message", payload[s], buffer[s], x, TRUE)
    BY <1>2, <1>3, <1>4, <1>6, <1>7, <1>8, <1>9, Keeps DEF Move, Pcs
<1>11. Delivers(s, x)
    <2>1. x.len \in Nat /\ full'[s] = x
        BY <1>2, <1>4 DEF Slices, MemOK
    <2>2. mem'[x.buf] = mem[payload[s].buf]
        BY <1>1, <1>2 DEF MemOK
    <2> QED
        BY <1>1, <1>2, <1>5, <2>1, <2>2 DEF Delivers, CallOnMessage
<1> QED
    BY <1>6, <1>10, <1>11, Moves DEF MemEffect

LEMMA LastFragmentStep ==
    ASSUME MemOK, RunOK, NEW s \in Sessions, Placed(s), LastFragment(s)
    PROVE  MemEffect(s) /\ \E x : Delivers(s, x)
<1>own. PICK own \in BOOLEAN : own = TRUE
    OBVIOUS
<1>1. PICK x \in Appended(s) :
          /\ mem' = [mem EXCEPT ![x.buf] = Joined(s)]
          /\ pool' = AfterAppend(s, x)
          /\ CallOnMessage(s, lastOpCode[s], x, Joined(s), TRUE)
    BY DEF LastFragment
<1>2. Continues(s) /\ pc[s] = "process" /\ direct' = direct /\ buffer[s] # Nil
    BY DEF LastFragment, Continues, netVars
<1>3. /\ x \in Slices /\ Pooled(x) /\ x.buf \in Bufs /\ ~TooLarge(x.len) /\ pool' \in Pools
      /\ x.buf = buffer[s].buf \/ pool[x.buf] > 0
      /\ \A b \in Bufs :
            /\ pool'[b] + One(x.buf = b) <= pool[b] + One(buffer[s].buf = b)
            /\ Home[b] > 0 => pool'[b] + One(x.buf = b) = pool[b] + One(buffer[s].buf = b)
    BY <1>1, <1>2, Grown DEF Pooled
<1>4. /\ pc' = [pc EXCEPT ![s] = "message"] /\ UNCHANGED payload
      /\ buffer' = [buffer EXCEPT ![s] = Nil] /\ full' = [full EXCEPT ![s] = x]
      /\ reassembled' = [reassembled EXCEPT ![s] = TRUE] /\ full[s] = Nil
    BY <1>1, <1>2 DEF LastFragment, Goto, CallOnMessage, Placed, Fit
<1>5. Joined(s) \in Seq(Tokens) /\ lastOpCode[s] \in DataOps \cup {"none"}
    BY <1>2, JoinedOK DEF Busy, RunOK
<1>6. mem' \in [Bufs -> Seq(Tokens)] /\ Written(s)
    <2>1. Mine(s, x.buf)
        BY <1>3 DEF Mine, Count, Share, One
    <2> QED
        BY <1>1, <1>5, <2>1, OneWrite
<1>7. Becomes(s, payload[s], Nil, x, own)
    BY <1>own, <1>4, Keeps DEF Becomes
<1>8. Fit(s, "message", payload[s], Nil, x, own)
    BY <1>own, <1>2, <1>3 DEF Placed, Fit, Busy
<1>9. Ledger(s, payload[s], Nil, x, own)
    <2>1. ASSUME NEW b \in Bufs
          PROVE  /\ pool'[b] + Share(payload[s], Nil, x, own, b) <= pool[b] + Count(s, b)
                 /\ Home[b] > 0 =>
                       pool'[b] + Share(payload[s], Nil, x, own, b) = pool[b] + Count(s, b)
        <3>1. PICK i \in Int, j \in Int, k \in Int :
                  /\ i = One(payload[s].buf = b) /\ j = One(buffer[s].buf = b)
                  /\ k = One(x.buf = b)
            BY DEF One
        <3>2. /\ Share(payload[s], Nil, x, own, b) = i + k
              /\ Count(s, b) = i + j
            BY <1>own, <3>1, <1>4, NilOK DEF Count, Share, One
        <3>3. pool'[b] \in Int /\ pool[b] \in Int
            BY <1>3 DEF MemOK, Pools
        <3>4. pool'[b] + k <= pool[b] + j /\ (Home[b] > 0 => pool'[b] + k = pool[b] + j)
            BY <1>3, <3>1, <3>3
        <3> QED
            BY <3>2, <3>3, <3>4
    <2> QED
        BY <2>1 DEF Ledger
<1>10. Move(s, "message", payload[s], Nil, x, own)
    BY <1>2, <1>3, <1>4, <1>6, <1>7, <1>8, <1>9, Keeps, NilOK DEF Move, Pcs
<1>11. Delivers(s, x)
    <2>1. x.len \in Nat /\ full'[s] = x
        BY <1>3, <1>4 DEF Slices, MemOK
    <2>2. mem'[x.buf] = Joined(s)
        BY <1>1, <1>3 DEF MemOK
    <2> QED
        BY <1>1, <1>3, <1>5, <2>1, <2>2 DEF Delivers, CallOnMessage
<1> QED
    BY <1>6, <1>10, <1>11, Moves DEF MemEffect

LEMMA LastCompressedStep ==
    ASSUME MemOK, RunOK, NEW s \in Sessions, Placed(s), LastCompressed(s)
    PROVE  MemEffect(s) /\ \E z : Delivers(s, z)
<1>own. PICK own \in BOOLEAN : own = TRUE
    OBVIOUS
<1>0. PICK x \in Appended(s) : \E z \in DecompressData(AfterAppend(s, x), x) :
          /\ mem' = [mem EXCEPT ![x.buf] = Joined(s), ![z.buf] = Joined(s)]
          /\ pool' = putPayloadBuffer(Without(AfterAppend(s, x), z), x)
          /\ CallOnMessage(s, lastOpCode[s], z, Joined(s), TRUE)
    BY DEF LastCompressed
<1>1. PICK z \in DecompressData(AfterAppend(s, x), x) :
          /\ mem' = [mem EXCEPT ![x.buf] = Joined(s), ![z.buf] = Joined(s)]
          /\ pool' = putPayloadBuffer(Without(AfterAppend(s, x), z), x)
          /\ CallOnMessage(s, lastOpCode[s], z, Joined(s), TRUE)
    BY <1>0
<1>2. Continues(s) /\ pc[s] = "process" /\ direct' = direct /\ buffer[s] # Nil
    BY DEF LastCompressed, Continues, netVars
<1>3. PICK p \in Pools :
          /\ x \in Slices /\ Pooled(x) /\ x.buf \in Bufs /\ p = AfterAppend(s, x)
          /\ x.buf = buffer[s].buf \/ pool[x.buf] > 0
          /\ \A b \in Bufs :
                /\ p[b] + One(x.buf = b) <= pool[b] + One(buffer[s].buf = b)
                /\ Home[b] > 0 => p[b] + One(x.buf = b) = pool[b] + One(buffer[s].buf = b)
    BY <1>1, <1>2, Grown DEF Pooled
<1>4. Pooled(z) /\ z.buf \in Bufs /\ p[z.buf] > 0 /\ z \in Slices /\ ~TooLarge(z.len)
    BY <1>1, <1>3, Inflated DEF Pooled
<1>5. PICK r \in Pools : /\ r = Without(p, z)
                         /\ \A b \in Bufs : r[b] = p[b] - One(b = z.buf)
    BY <1>3, <1>4, TakeOne
<1>6. /\ pool' \in Pools
      /\ \A b \in Bufs : /\ pool'[b] \in r[b]..r[b] + One(b = x.buf)
                         /\ Home[b] > 0 => pool'[b] = r[b] + One(b = x.buf)
    BY <1>1, <1>3, <1>5, PutOne
<1>7. /\ pc' = [pc EXCEPT ![s] = "message"] /\ UNCHANGED payload
      /\ buffer' = [buffer EXCEPT ![s] = Nil] /\ full' = [full EXCEPT ![s] = z]
      /\ reassembled' = [reassembled EXCEPT ![s] = TRUE] /\ full[s] = Nil
    BY <1>1, <1>2 DEF LastCompressed, Goto, CallOnMessage, Placed, Fit
<1>8. Joined(s) \in Seq(Tokens) /\ lastOpCode[s] \in DataOps \cup {"none"}
    BY <1>2, JoinedOK DEF Busy, RunOK
<1>9. mem' \in [Bufs -> Seq(Tokens)] /\ Written(s) /\ mem'[z.buf] = Joined(s)
    <2>1. Mine(s, x.buf)
        BY <1>3 DEF Mine, Count, Share, One
    <2>2. Mine(s, z.buf)
        <3>1. pool[z.buf] > 0 \/ z.buf = buffer[s].buf
            BY <1>3, <1>4 DEF One, Pools, MemOK
        <3> QED
            BY <3>1 DEF Mine, Count, Share, One
    <2>3. PICK a \in Bufs, c \in Bufs, t \in Seq(Tokens) : a = x.buf /\ c = z.buf /\ t = Joined(s)
        BY <1>3, <1>4, <1>8
    <2>4. mem' = [mem EXCEPT ![a] = t, ![c] = t] /\ Mine(s, a) /\ Mine(s, c)
        BY <1>1, <2>1, <2>2, <2>3
    <2>5. mem' \in [Bufs -> Seq(Tokens)] /\ Written(s) /\ mem'[c] = t
        BY <2>4 DEF MemOK, Written
    <2> QED
        BY <2>3, <2>5
<1>10. Becomes(s, payload[s], Nil, z, own)
    BY <1>own, <1>7, Keeps DEF Becomes
<1>11. Fit(s, "message", payload[s], Nil, z, own)
    BY <1>own, <1>2, <1>4 DEF Placed, Fit, Busy
<1>12. Ledger(s, payload[s], Nil, z, own)
    <2>1. ASSUME NEW b \in Bufs
          PROVE  /\ pool'[b] + Share(payload[s], Nil, z, own, b) <= pool[b] + Count(s, b)
                 /\ Home[b] > 0 =>
                       pool'[b] + Share(payload[s], Nil, z, own, b) = pool[b] + Count(s, b)
        <3>1. PICK i \in Int, j \in Int, k \in Int :
                  /\ i = One(payload[s].buf = b) /\ j = One(buffer[s].buf = b)
                  /\ k = One(z.buf = b)
            BY DEF One
        <3>2. /\ Share(payload[s], Nil, z, own, b) = i + k
              /\ Count(s, b) = i + j
            BY <1>own, <3>1, <1>7, NilOK DEF Count, Share, One
        <3>3. pool'[b] \in Int /\ pool[b] \in Int
            BY <1>6 DEF MemOK, Pools
        <3>4. p[b] \in Int /\ r[b] \in Int
            BY <1>3, <1>5 DEF Pools
        <3>5. PICK l \in Int : l = One(x.buf = b) /\ l = One(b = x.buf) /\ k = One(b = z.buf)
            BY <3>1 DEF One
        <3>6. /\ r[b] = p[b] - k /\ pool'[b] <= r[b] + l /\ (Home[b] > 0 => pool'[b] = r[b] + l)
              /\ p[b] + l <= pool[b] + j /\ (Home[b] > 0 => p[b] + l = pool[b] + j)
            BY <1>3, <1>5, <1>6, <3>1, <3>3, <3>4, <3>5
        <3> QED
            BY <3>2, <3>3, <3>4, <3>6
    <2> QED
        BY <2>1 DEF Ledger
<1>13. Move(s, "message", payload[s], Nil, z, own)
    BY <1>2, <1>4, <1>6, <1>7, <1>9, <1>10, <1>11, <1>12, Keeps, NilOK DEF Move, Pcs
<1>14. Delivers(s, z)
    <2>1. z.len \in Nat /\ full'[s] = z
        BY <1>4, <1>7 DEF Slices, MemOK
    <2> QED
        BY <1>1, <1>4, <1>8, <1>9, <2>1 DEF Delivers, CallOnMessage
<1> QED
    BY <1>9, <1>13, <1>14, Moves DEF MemEffect

-----------------------------------------------------------------------------
(* All actions of a session together. *)
LEMMA MemStep ==
    ASSUME MemOK, RunOK, NEW s \in Sessions, Placed(s), Counted(s), SessionActs(s)
    PROVE  MemEffect(s)
<1>1. CASE \/ Upgrade(s) \/ Peer(s) \/ StartCallback(s) \/ ReadHandlerFails(s)
           \/ ServeFindsClosed(s) \/ ServeWaits(s) \/ ServeReads(s) \/ ReadHeaderFails(s)
           \/ ReadHeaderBad(s) \/ FrameTooLarge(s) \/ PeekWaits(s) \/ PeekTooLarge(s)
    BY <1>1, QuietStep
<1>2. CASE \/ ReadHeader(s) \/ NegativeLength(s) \/ ReadPayload(s) \/ ReadPayloadFails(s)
           \/ PeekTakes(s) \/ MessagePanics(s)
    BY <1>2, ReadHeaderStep, NegativeLengthStep, ReadPayloadStep, ReadPayloadFailsStep,
       PeekTakesStep, MessagePanicsStep
<1>3. CASE \/ PingPong(s) \/ CloseFrame(s) \/ AssemblerRefuses(s) \/ SingleInflateFails(s)
           \/ MessageReturns(s) \/ FirstFragment(s) \/ MiddleFragment(s) \/ LastInflateFails(s)
    BY <1>3, RefusalStep, MessageReturnsStep, FirstFragmentStep, AppendStep
<1>4. CASE SingleFrame(s) \/ SingleCompressed(s) \/ LastFragment(s) \/ LastCompressed(s)
    BY <1>4, SingleFrameStep, SingleCompressedStep, LastFragmentStep, LastCompressedStep
<1> QED
    BY <1>1, <1>2, <1>3, <1>4 DEF SessionActs, ReadHandler, ServeConn, processFrame

(* A message is delivered, or none is and OnMessage is not entered. *)
LEMMA DeliveryEffect ==
    ASSUME MemOK, RunOK, NEW s \in Sessions, Placed(s), Counted(s), SessionActs(s)
    PROVE  \/ \E x : Delivers(s, x)
           \/ delivered' = delivered /\ (pc'[s] = "message" => UNCHANGED <<pc, mem, full>>)
<1> USE DEF RunOK, Goto, netVars, readVars, memVars, msgVars
<1>1. CASE Upgrade(s) \/ Peer(s)
    BY <1>1
       DEF Upgrade, UpgradeFlushes, UpgradeFlushFails, UpgradeInstalls, Peer,
           PeerStartsFrame, PeerSendsHeader, PeerSendsPayload, PeerCloses
<1>2. CASE \/ StartCallback(s) \/ ReadHandlerFails(s) \/ ServeFindsClosed(s) \/ ServeWaits(s)
           \/ ServeReads(s) \/ ReadHeaderFails(s) \/ ReadHeaderBad(s) \/ FrameTooLarge(s)
    BY <1>2
       DEF StartCallback, ReadHandlerFails, ServeFindsClosed, ServeWaits, ServeReads,
           ReadHeaderFails, ReadHeaderBad, FrameTooLarge
<1>3. CASE \/ PeekWaits(s) \/ PeekTooLarge(s) \/ ReadHeader(s) \/ NegativeLength(s)
           \/ ReadPayload(s) \/ ReadPayloadFails(s) \/ PeekTakes(s)
    BY <1>3
       DEF PeekWaits, PeekTooLarge, ReadHeader, NegativeLength, ReadPayload, ReadPayloadFails,
           PeekTakes
<1>4. CASE \/ PingPong(s) \/ CloseFrame(s) \/ AssemblerRefuses(s) \/ SingleInflateFails(s)
           \/ MessageReturns(s) \/ MessagePanics(s)
    BY <1>4
       DEF PingPong, CloseFrame, AssemblerRefuses, SingleInflateFails, MessageReturns,
           MessagePanics
<1>5. CASE FirstFragment(s) \/ MiddleFragment(s) \/ LastInflateFails(s)
    BY <1>5 DEF FirstFragment, MiddleFragment, LastInflateFails
<1>6. CASE SingleFrame(s) \/ SingleCompressed(s) \/ LastFragment(s) \/ LastCompressed(s)
    BY <1>6, SingleFrameStep, SingleCompressedStep, LastFragmentStep, LastCompressedStep
<1> QED
    BY <1>1, <1>2, <1>3, <1>4, <1>5, <1>6 DEF SessionActs, ReadHandler, ServeConn, processFrame

LEMMA DeliveryStep ==
    ASSUME MemOK, RunOK, HistOK, NEW s \in Sessions, Placed(s), Counted(s), SizesOK(s), Stable(s),
           SessionActs(s)
    PROVE  /\ HistOK' /\ SizesOK(s)' /\ Stable(s)'
           /\ \A t \in Sessions \ {s} : delivered'[t] = delivered[t]
<1>1. CASE \E x : Delivers(s, x)
    <2>1. PICK x : Delivers(s, x)
        BY <1>1
    <2>2. PICK o \in DataOps \cup {"none"}, t \in Seq(Tokens) :
              /\ delivered' = [delivered EXCEPT ![s] =
                                   Append(delivered[s], [op |-> o, parts |-> t, len |-> x.len])]
              /\ mem'[x.buf] = t
        BY <2>1 DEF Delivers
    <2>3. PICK n \in Nat : n = x.len /\ ~TooLarge(n)
        BY <2>1 DEF Delivers
    <2> DEFINE d == [op |-> o, parts |-> t, len |-> n]
    <2>4. d \in Deliveries /\ d.len = n /\ d.parts = t
        BY DEF Deliveries
    <2> HIDE DEF d
    <2>5. /\ delivered[s] \in Seq(Deliveries)
          /\ delivered' = [delivered EXCEPT ![s] = Append(delivered[s], d)]
        BY <2>2, <2>3 DEF HistOK, d
    <2>6. PICK h \in Seq(Deliveries) : h = Append(delivered[s], d) /\ delivered'[s] = h
        <3>1. Append(delivered[s], d) \in Seq(Deliveries)
            BY <2>4, <2>5
        <3>2. delivered'[s] = Append(delivered[s], d)
            BY <2>5 DEF HistOK
        <3> QED
            BY <3>1, <3>2
    <2>7. /\ Len(h) = Len(delivered[s]) + 1 /\ Len(h) \in DOMAIN h /\ h[Len(h)] = d /\ h # << >>
          /\ \A i \in DOMAIN h : h[i] = IF i <= Len(delivered[s]) THEN delivered[s][i] ELSE d
          /\ \A i \in DOMAIN h : i <= Len(delivered[s]) => i \in DOMAIN delivered[s]
        <3>1. /\ DOMAIN h = 1..Len(h) /\ Len(h) = Len(delivered[s]) + 1
              /\ DOMAIN delivered[s] = 1..Len(delivered[s]) /\ Len(delivered[s]) \in Nat
            BY <2>4, <2>5, <2>6
        <3>2. \A i \in 1..Len(h) : h[i] = IF i <= Len(delivered[s]) THEN delivered[s][i] ELSE d
            BY <2>4, <2>5, <2>6
        <3> QED
            BY <3>1, <3>2
    <2>8. HistOK' /\ \A u \in Sessions \ {s} : delivered'[u] = delivered[u]
        BY <2>5, <2>6 DEF HistOK
    <2>9. SizesOK(s)'
        BY <2>3, <2>4, <2>6, <2>7 DEF SizesOK, TooLarge
    <2>10. Stable(s)'
        <3>1. full'[s] = x
            BY <2>1 DEF Delivers
        <3> QED
            BY <2>2, <2>4, <2>6, <2>7, <3>1 DEF Stable
    <2> QED
        BY <2>8, <2>9, <2>10
<1>2. CASE delivered' = delivered /\ (pc'[s] = "message" => UNCHANGED <<pc, mem, full>>)
    BY <1>2 DEF HistOK, SizesOK, Stable, TooLarge
<1> QED
    BY <1>1, <1>2, DeliveryEffect

(***************************************************************************)
(* The invariant: every session's slices are in place, and an array is in  *)
(* its pool or with one session.                                           *)
(***************************************************************************)
SessionInv ==
    /\ MemOK /\ RunOK /\ HistOK
    /\ \A s \in Sessions : Placed(s) /\ Counted(s) /\ SizesOK(s) /\ Stable(s)
Exclusive ==
    \A b \in Bufs : Home[b] # -1 =>
        /\ pool[b] <= 1 /\ \A s \in Sessions : pool[b] + Count(s, b) <= 1
        /\ \A s, t \in Sessions : s # t => Count(s, b) = 0 \/ Count(t, b) = 0

LEMMA CountNat == \A s \in Sessions, b \in Bufs : Count(s, b) \in Nat
    BY DEF Count, Share, One

(* What a session holds is its own. *)
LEMMA Apart ==
    ASSUME SessionInv, Exclusive, NEW s \in Sessions, NEW t \in Sessions, s # t,
           NEW b \in Bufs, Count(t, b) > 0
    PROVE  ~Mine(s, b) /\ pool[b] = 0
<1>1. pool[b] \in Nat /\ Count(s, b) \in Nat /\ Count(t, b) \in Nat
    BY CountNat DEF SessionInv, MemOK, Pools
<1>2. CASE Home[b] # -1
    <2>1. pool[b] + Count(t, b) <= 1 /\ (Count(s, b) = 0 \/ Count(t, b) = 0)
        BY <1>2 DEF Exclusive
    <2>2. b # Input[s]
        BY <1>2, SessionAssumption
    <2> QED
        BY <1>1, <2>1, <2>2 DEF Mine
<1>3. CASE Home[b] = -1
    <2>1. \A u \in Sessions : Count(u, b) > 0 => b = Input[u]
        <3>1. ASSUME NEW u \in Sessions, Count(u, b) > 0 PROVE b = Input[u]
            <4>1. Placed(u) /\ buffer[u].buf # b /\ ~(reassembled[u] /\ full[u].buf = b)
                BY <1>3, NilOK DEF SessionInv, Placed, Fit, Pooled
            <4>2. payload[u].buf = b
                BY <3>1, <4>1 DEF Count, Share, One
            <4> QED
                BY <1>3, <4>1, <4>2, NilOK DEF Placed, Fit, Pooled
        <3> QED
            BY <3>1
    <2>2. b = Input[t] /\ b # Input[s] /\ pool[b] = 0
        BY <1>3, <2>1, SessionAssumption DEF SessionInv, MemOK, Pools
    <2>3. Count(s, b) = 0
        BY <1>1, <2>1, <2>2
    <2> QED
        BY <2>2, <2>3 DEF Mine
<1> QED
    BY <1>2, <1>3

LEMMA ExclusiveStep ==
    ASSUME SessionInv, Exclusive, NEW s \in Sessions, HoldsAlone(s), Conserved(s), MemOK'
    PROVE  Exclusive'
<1>1. ASSUME NEW b \in Bufs, Home[b] # -1
      PROVE  /\ pool'[b] <= 1 /\ \A t \in Sessions : pool'[b] + Count(t, b)' <= 1
             /\ \A t, u \in Sessions : t # u => Count(t, b)' = 0 \/ Count(u, b)' = 0
    <2>1. /\ pool[b] \in Nat /\ pool'[b] \in Nat
          /\ \A t \in Sessions : Count(t, b) \in Nat /\ Count(t, b)' \in Nat
        BY CountNat DEF SessionInv, MemOK, Pools, Count, Share, One
    <2>2. \A t \in Sessions \ {s} : Count(t, b)' = Count(t, b)
        BY DEF HoldsAlone, Count
    <2>3. pool'[b] + Count(s, b)' <= pool[b] + Count(s, b)
        BY <1>1 DEF Conserved
    <2>4. /\ \A t \in Sessions : pool[b] + Count(t, b) <= 1
          /\ \A t, u \in Sessions : t # u => Count(t, b) = 0 \/ Count(u, b) = 0
        BY <1>1 DEF Exclusive
    <2> HIDE DEF Count
    <2>5. ASSUME NEW t \in Sessions \ {s}
          PROVE  /\ pool'[b] + Count(t, b)' <= 1
                 /\ Count(t, b)' = 0 \/ Count(s, b)' = 0
        BY <2>1, <2>2, <2>3, <2>4
    <2>6. pool'[b] + Count(s, b)' <= 1
        BY <2>1, <2>3, <2>4
    <2> QED
        BY <2>1, <2>2, <2>4, <2>5, <2>6
<1> QED
    BY <1>1 DEF Exclusive

(* The sessions that are not stepping keep what they hold and deliver. *)
LEMMA BystanderStep ==
    ASSUME SessionInv, NEW s \in Sessions, HoldsAlone(s), RunsAlone(s),
           NEW t \in Sessions \ {s}, delivered'[t] = delivered[t],
           pc[t] = "message" => mem'[full[t].buf] = mem[full[t].buf]
    PROVE  Placed(t)' /\ Counted(t)' /\ SizesOK(t)' /\ Stable(t)'
<1>1. /\ payload'[t] = payload[t] /\ buffer'[t] = buffer[t] /\ full'[t] = full[t]
      /\ reassembled'[t] = reassembled[t] /\ pc'[t] = pc[t] /\ direct' = direct
      /\ sent'[t] = sent[t] /\ taken'[t] = taken[t]
    BY DEF HoldsAlone, RunsAlone
<1>2. Placed(t) /\ Counted(t) /\ SizesOK(t) /\ Stable(t)
    BY DEF SessionInv
<1> QED
    BY <1>1, <1>2 DEF Placed, Fit, Counted, SizesOK, Stable, TooLarge, Pooled

LEMMA SessionInvStep ==
    ASSUME SessionInv, Exclusive, NEW s \in Sessions, SessionActs(s)
    PROVE  SessionInv' /\ Exclusive'
<1>1. MemOK /\ RunOK /\ HistOK /\ Placed(s) /\ Counted(s) /\ SizesOK(s) /\ Stable(s)
    BY DEF SessionInv
<1>2. MemEffect(s)
    BY <1>1, MemStep
<1>3. RunOK' /\ Counted(s)' /\ RunsAlone(s)
    BY <1>1, RunStep
<1>4. /\ HistOK' /\ SizesOK(s)' /\ Stable(s)'
      /\ \A t \in Sessions \ {s} : delivered'[t] = delivered[t]
    BY <1>1, DeliveryStep
<1>5. MemOK' /\ Placed(s)' /\ HoldsAlone(s) /\ Conserved(s) /\ Written(s)
    BY <1>2 DEF MemEffect
<1>6. ASSUME NEW t \in Sessions \ {s}, pc[t] = "message"
      PROVE  mem'[full[t].buf] = mem[full[t].buf]
    <2>1. Placed(t)
        BY DEF SessionInv
    <2>2. full[t].buf \in Bufs /\ Count(t, full[t].buf) > 0
        BY <1>6, <2>1 DEF Placed, Fit, Busy, Pooled, Count, Share, One
    <2> QED
        BY <1>5, <2>2, Apart DEF Written
<1>7. \A t \in Sessions \ {s} : Placed(t)' /\ Counted(t)' /\ SizesOK(t)' /\ Stable(t)'
    BY <1>3, <1>4, <1>5, <1>6, BystanderStep
<1>8. Exclusive'
    BY <1>5, ExclusiveStep
<1> QED
    BY <1>3, <1>4, <1>5, <1>7, <1>8 DEF SessionInv

LEMMA SessionInvInit ==
    ASSUME Init
    PROVE  SessionInv /\ Exclusive
<1>1. MemOK
    <2>1. pool \in Pools
        BY DEF Init, PoolInit, Pools
    <2>2. mem \in [Bufs -> Seq(Tokens)]
        BY DEF Init, PoolInit
    <2> QED
        BY <2>1, <2>2, NilOK DEF Init, MemOK
<1>2. RunOK /\ HistOK
    BY DEF Init, RunOK, HistOK, Pcs
<1>3. ASSUME NEW s \in Sessions
      PROVE  /\ Placed(s) /\ Counted(s) /\ SizesOK(s) /\ Stable(s)
             /\ \A b \in Bufs : Count(s, b) = 0
    BY NilOK
       DEF Init, Placed, Fit, Counted, SizesOK, Stable, Busy, Count, Share, One
<1>4. \A b \in Bufs : pool[b] \in {0, 1}
    BY DEF Init, PoolInit
<1> QED
    BY <1>1, <1>2, <1>3, <1>4 DEF SessionInv, Exclusive

LEMMA SessionInvHolds == Spec => [](SessionInv /\ Exclusive)
<1>1. Init => SessionInv /\ Exclusive
    BY SessionInvInit
<1>2. SessionInv /\ Exclusive /\ [Next]_vars => SessionInv' /\ Exclusive'
    <2>1. SessionInv /\ Exclusive /\ UNCHANGED vars => SessionInv' /\ Exclusive'
        BY DEF SessionInv, Exclusive, MemOK, RunOK, HistOK, Placed, Fit, Counted, SizesOK, Stable,
               TooLarge, Pooled, Count, vars, netVars, readVars, memVars, asmVars, msgVars
    <2> QED
        BY <2>1, SessionInvStep DEF Next, SessionActs
<1> QED
    BY <1>1, <1>2, PTL DEF Spec

(* MaxFrameSize bounds what OnMessage gets, also when it was joined from    *)
(* fragments or inflated, for any limit and any frames.                     *)
THEOREM SizeCorrect == Spec => []SizeBound
<1>1. SessionInv => SizeBound
    <2> SUFFICES ASSUME SessionInv, MaxFrameSize > 0, NEW s \in Sessions,
                        NEW n \in DOMAIN delivered[s]
                 PROVE  delivered[s][n].len <= MaxFrameSize
        BY DEF SizeBound
    <2>1. SizesOK(s) /\ delivered[s] \in Seq(Deliveries)
        BY DEF SessionInv, HistOK
    <2>2. delivered[s][n].len \in Nat
        <3>1. delivered[s][n] \in Deliveries
            BY <2>1
        <3> QED
            BY <3>1 DEF Deliveries
    <2> QED
        BY <2>1, <2>2, SessionAssumption DEF SizesOK, TooLarge
<1> QED
    BY <1>1, SessionInvHolds, PTL

(* An array in a pool is with nobody, and one that is with a session is     *)
(* there once, for netpoll's arrays too.                                    *)
LEMMA Once ==
    ASSUME SessionInv, Exclusive, NEW b \in Bufs, NEW s \in Sessions
    PROVE  pool[b] \in Nat /\ pool[b] + Count(s, b) <= 1
<1>1. pool[b] \in Nat
    BY DEF SessionInv, MemOK, Pools
<1>2. CASE Home[b] # -1
    BY <1>1, <1>2 DEF Exclusive
<1>3. CASE Home[b] = -1
    <2>1. Placed(s) /\ buffer[s].buf # b /\ ~(reassembled[s] /\ full[s].buf = b) /\ pool[b] = 0
        BY <1>3, NilOK DEF SessionInv, Placed, Fit, Pooled, MemOK, Pools
    <2> QED
        BY <2>1 DEF Count, Share, One
<1> QED
    BY <1>1, <1>2, <1>3

LEMMA HoldersOnce ==
    ASSUME SessionInv, Exclusive, NEW b \in Bufs
    PROVE  /\ \A s \in Sessions : (\E k : <<s, k>> \in Holders(b)) <=> Count(s, b) > 0
           /\ \/ Holders(b) = {}
              \/ \E s \in Sessions : \E k : Holders(b) = {<<s, k>>} /\ Count(s, b) = 1
<1>1. ASSUME NEW h
      PROVE  h \in Holders(b) <=>
                 \/ \E s \in Sessions : h = <<s, "payload">> /\ payload[s].buf = b
                 \/ \E s \in Sessions : h = <<s, "buffer">> /\ buffer[s].buf = b
                 \/ \E s \in Sessions : h = <<s, "full">> /\ full[s].buf = b /\ reassembled[s]
    BY DEF Holders
<1>2. ASSUME NEW s \in Sessions
      PROVE  (\E k : <<s, k>> \in Holders(b)) <=> Count(s, b) > 0
    <2>1. Count(s, b) > 0 <=>
              payload[s].buf = b \/ buffer[s].buf = b \/ (reassembled[s] /\ full[s].buf = b)
        BY DEF Count, Share, One
    <2>2. ASSUME NEW k, <<s, k>> \in Holders(b) PROVE Count(s, b) > 0
        BY <1>1, <2>1, <2>2
    <2>3. ASSUME Count(s, b) > 0
          PROVE  \E k \in {"payload", "buffer", "full"} : <<s, k>> \in Holders(b)
        BY <1>1, <2>1, <2>3
    <2> QED
        BY <2>2, <2>3
<1>3. ASSUME NEW s \in Sessions, Count(s, b) > 0
      PROVE  \E k : Holders(b) = {<<s, k>>} /\ Count(s, b) = 1
    <2>1. \A t \in Sessions : t # s => ~\E k : <<t, k>> \in Holders(b)
        <3>1. ASSUME NEW t \in Sessions, t # s PROVE ~(Count(t, b) > 0)
            BY <1>3, <3>1, Apart DEF Mine
        <3> QED
            BY <1>2, <3>1
    <2>2. Count(s, b) = 1
        BY <1>3, Once, CountNat
    <2>3. \/ /\ payload[s].buf = b /\ buffer[s].buf # b /\ ~(reassembled[s] /\ full[s].buf = b)
          \/ /\ payload[s].buf # b /\ buffer[s].buf = b /\ ~(reassembled[s] /\ full[s].buf = b)
          \/ /\ payload[s].buf # b /\ buffer[s].buf # b /\ reassembled[s] /\ full[s].buf = b
        BY <2>2 DEF Count, Share, One
    <2>4. \/ \A h : h \in Holders(b) <=> h = <<s, "payload">>
          \/ \A h : h \in Holders(b) <=> h = <<s, "buffer">>
          \/ \A h : h \in Holders(b) <=> h = <<s, "full">>
        BY <1>1, <2>1, <2>3
    <2> QED
        BY <2>2, <2>4
<1>4. CASE \E s \in Sessions : Count(s, b) > 0
    BY <1>2, <1>3, <1>4
<1>5. CASE ~\E s \in Sessions : Count(s, b) > 0
    <2>1. \A h : h \notin Holders(b)
        BY <1>1, <1>2, <1>5
    <2> QED
        BY <1>2, <2>1
<1> QED
    BY <1>4, <1>5

(* Every payload array is in its pool, once, or in one slice of one         *)
(* connection: no two of the process's connections ever read into the same  *)
(* array, however many they are and in whatever order they run.             *)
THEOREM AliasingCorrect == Spec => []NoAliasing
<1>1. SessionInv /\ Exclusive => NoAliasing
    <2> SUFFICES ASSUME SessionInv, Exclusive, NEW b \in Bufs
                 PROVE  pool[b] + Cardinality(Holders(b)) <= 1
        BY DEF NoAliasing
    <2>1. CASE Holders(b) = {}
        <3>1. pool[b] \in Nat /\ pool[b] <= 1
            BY DEF SessionInv, Exclusive, MemOK, Pools
        <3> QED
            BY <2>1, <3>1, FS_EmptySet
    <2>2. CASE \E s \in Sessions : \E k : Holders(b) = {<<s, k>>} /\ Count(s, b) = 1
        <3>1. PICK s \in Sessions : \E k : Holders(b) = {<<s, k>>} /\ Count(s, b) = 1
            BY <2>2
        <3>2. pool[b] = 0
            BY <3>1, Once
        <3>3. Cardinality(Holders(b)) = 1
            BY <3>1, FS_Singleton
        <3> QED
            BY <3>2, <3>3
    <2> QED
        BY <2>1, <2>2, HoldersOnce
<1> QED
    BY <1>1, SessionInvHolds, PTL

-----------------------------------------------------------------------------
(***************************************************************************)
(* What OnMessage gets.  Done(s) frames have been through processFrame.  A *)
(* session that may still deliver has called OnMessage for every final     *)
(* frame among them, and the Assembler's buffer, if it is open, has the    *)
(* frames since the one that opened it, in order.                          *)
(***************************************************************************)
Done(s) == IF pc[s] \in {"payload", "process"} THEN taken[s] - 1 ELSE taken[s]
Alive(s) == closes[s] = 0 /\ (pc[s] = "idle" => link[s] = "open")
Opens(s, i, j) ==
    /\ i <= j /\ \A k \in i..j : sent[s][k].op \in DataOps <=> k = i
    /\ Ended(s, j) \cap i..j = {}
Gathers(s, p, o, j) ==
    \E i \in 1..j : Opens(s, i, j) /\ o = sent[s][i].op /\ Lists(s, p, i, j)
Joining(s) ==
    Alive(s) =>
        /\ Len(delivered[s]) = Cardinality(Ended(s, Done(s)))
        /\ pc[s] = "process" => mem[payload[s].buf] = << <<s, taken[s]>> >>
        /\ buffer[s] # Nil => Gathers(s, mem[buffer[s].buf], lastOpCode[s], Done(s))

(* d is the n-th message that the client of s has sent *)
Message(s, d, n) ==
    \E i, j \in DOMAIN sent[s] :
        /\ Spans(s, i, j) /\ Cardinality(Ended(s, j)) = n
        /\ d.op = sent[s][i].op /\ Lists(s, d.parts, i, j)
Intact(s) == ~Abandoned(s) => \A n \in DOMAIN delivered[s] : Message(s, delivered[s][n], n)

(* The frames 1 to j, and one more *)
LEMMA EndedNext ==
    ASSUME NEW s \in Sessions, NEW j \in Nat
    PROVE  /\ Cardinality(Ended(s, j)) \in Nat
           /\ Data(s, j + 1) /\ sent[s][j + 1].fin =>
                 /\ Ended(s, j + 1) = Ended(s, j) \cup {j + 1}
                 /\ Cardinality(Ended(s, j + 1)) = Cardinality(Ended(s, j)) + 1
           /\ ~(Data(s, j + 1) /\ sent[s][j + 1].fin) => Ended(s, j + 1) = Ended(s, j)
<1>1. IsFiniteSet(Ended(s, j)) /\ Cardinality(Ended(s, j)) \in Nat
    <2>1. IsFiniteSet(1..j)
        BY FS_Interval
    <2>2. Ended(s, j) \subseteq 1..j
        BY DEF Ended
    <2> QED
        BY <2>1, <2>2, FS_Subset, FS_CardinalityType
<1>2. 1..(j + 1) = 1..j \cup {j + 1} /\ j + 1 \notin Ended(s, j)
    BY DEF Ended
<1>3. ASSUME Data(s, j + 1) /\ sent[s][j + 1].fin
      PROVE  Ended(s, j + 1) = Ended(s, j) \cup {j + 1}
    BY <1>2, <1>3 DEF Ended
<1>4. ASSUME ~(Data(s, j + 1) /\ sent[s][j + 1].fin) PROVE Ended(s, j + 1) = Ended(s, j)
    BY <1>2, <1>4 DEF Ended
<1> QED
    BY <1>1, <1>2, <1>3, <1>4, FS_AddElement

(* Data frames listed in order: one, one more, and a control frame *)
LEMMA ListsOne ==
    ASSUME NEW s \in Sessions, NEW j \in Nat, Data(s, j)
    PROVE  Lists(s, << <<s, j>> >>, j, j)
<1>1. PICK p : p = << <<s, j>> >>
    OBVIOUS
<1>2. DOMAIN p = {1} /\ p[1] = <<s, j>>
    BY <1>1
<1>3. MessageFrames(s, j, j) = {j}
    BY DEF MessageFrames
<1>4. Lists(s, p, j, j)
    BY <1>2, <1>3 DEF Lists
<1> QED
    BY <1>1, <1>4

LEMMA ListsMore ==
    ASSUME NEW s \in Sessions, NEW i \in Nat, NEW j \in Nat, i <= j + 1, Data(s, j + 1),
           NEW p \in Seq(Tokens), Lists(s, p, i, j)
    PROVE  Lists(s, p \o << <<s, j + 1>> >>, i, j + 1)
<1>1. PICK m \in Nat : m = j + 1
    OBVIOUS
<1>2. PICK q : q = p \o << <<s, m>> >>
    OBVIOUS
<1>3. /\ Len(p) \in Nat /\ DOMAIN p = 1..Len(p) /\ DOMAIN q = 1..(Len(p) + 1)
      /\ \A x \in 1..Len(p) : q[x] = p[x]
      /\ q[Len(p) + 1] = <<s, m>>
    BY <1>2
<1>4. MessageFrames(s, i, m) = MessageFrames(s, i, j) \cup {m}
    BY <1>1 DEF MessageFrames
<1>5. \A x \in 1..Len(p) : \E k \in i..j : p[x] = <<s, k>>
    <2>1. ASSUME NEW x \in 1..Len(p) PROVE \E k \in i..j : p[x] = <<s, k>>
        <3>1. p[x] \in {<<s, k>> : k \in MessageFrames(s, i, j)}
            BY <1>3 DEF Lists
        <3> QED
            BY <3>1 DEF MessageFrames
    <2> QED
        BY <2>1
<1>6. ASSUME NEW x \in DOMAIN q, NEW y \in DOMAIN q, x < y PROVE q[x][2] < q[y][2]
    <2>1. x \in 1..Len(p)
        BY <1>3, <1>6
    <2>2. CASE y \in 1..Len(p)
        BY <1>3, <1>6, <2>1, <2>2 DEF Lists
    <2>3. CASE y = Len(p) + 1
        <3>1. PICK k \in i..j : p[x] = <<s, k>>
            BY <1>5, <2>1
        <3>2. q[x][2] = k /\ q[y][2] = m
            BY <1>3, <2>1, <2>3, <3>1
        <3> QED
            BY <1>1, <3>2
    <2> QED
        BY <1>3, <2>2, <2>3
<1>7. {q[x] : x \in DOMAIN q} = {<<s, k>> : k \in MessageFrames(s, i, m)}
    <2>1. {q[x] : x \in DOMAIN q} = {p[x] : x \in DOMAIN p} \cup {<<s, m>>}
        <3>1. 1..(Len(p) + 1) = 1..Len(p) \cup {Len(p) + 1}
            BY <1>3
        <3> QED
            BY <1>3, <3>1, ZenonT(30)
    <2>2. {p[x] : x \in DOMAIN p} = {<<s, k>> : k \in MessageFrames(s, i, j)}
        BY DEF Lists
    <2> QED
        BY <1>4, <2>1, <2>2
<1>8. Lists(s, q, i, m)
    BY <1>6, <1>7 DEF Lists
<1> QED
    BY <1>1, <1>2, <1>8

LEMMA ListsSkip ==
    ASSUME NEW s \in Sessions, NEW i \in Nat, NEW j \in Nat, ~Data(s, j + 1),
           NEW p, Lists(s, p, i, j)
    PROVE  Lists(s, p, i, j + 1)
<1>1. MessageFrames(s, i, j + 1) = MessageFrames(s, i, j)
    BY DEF MessageFrames
<1> QED
    BY <1>1 DEF Lists

(* What is said of frames that have been sent stays true. *)
Extended(s) ==
    /\ Len(sent[s]) <= Len(sent'[s])
    /\ \A k \in 1..Len(sent[s]) : sent'[s][k] = sent[s][k]

LEMMA Lasting ==
    ASSUME RunOK, RunOK', NEW s \in Sessions, Extended(s), NEW j \in 0..Len(sent[s])
    PROVE  /\ Ended(s, j)' = Ended(s, j)
           /\ \A p : \A i \in 1..j :
                 /\ Spans(s, i, j) => Spans(s, i, j)'
                 /\ Opens(s, i, j) => Opens(s, i, j)'
                 /\ Lists(s, p, i, j) => Lists(s, p, i, j)'
                 /\ sent'[s][i] = sent[s][i]
<1>1. Len(sent[s]) \in Nat /\ \A k \in 1..j : sent'[s][k] = sent[s][k]
    BY DEF RunOK, Extended
<1>2. \A k \in 1..j : Data(s, k)' = Data(s, k)
    BY <1>1 DEF Data
<1>3. Ended(s, j)' = Ended(s, j)
    BY <1>1, <1>2 DEF Ended
<1>4. ASSUME NEW i \in 1..j, NEW p
      PROVE  /\ Spans(s, i, j) => Spans(s, i, j)'
             /\ Opens(s, i, j) => Opens(s, i, j)'
             /\ Lists(s, p, i, j) => Lists(s, p, i, j)'
             /\ sent'[s][i] = sent[s][i]
    <2>1. \A k \in i..j : sent'[s][k] = sent[s][k] /\ Data(s, k)' = Data(s, k)
        BY <1>1, <1>2
    <2>2. MessageFrames(s, i, j)' = MessageFrames(s, i, j)
        BY <2>1 DEF MessageFrames
    <2>3. Lists(s, p, i, j) => Lists(s, p, i, j)'
        BY <2>2 DEF Lists
    <2>4. Spans(s, i, j) => Spans(s, i, j)'
        BY <1>3, <2>1 DEF Spans
    <2>5. Opens(s, i, j) => Opens(s, i, j)'
        BY <1>3, <2>1 DEF Opens
    <2> QED
        BY <1>1, <2>3, <2>4, <2>5
<1> QED
    BY <1>3, <1>4

LEMMA GathersLast ==
    ASSUME RunOK, RunOK', NEW s \in Sessions, Extended(s), NEW j \in 0..Len(sent[s]),
           NEW p, NEW o, Gathers(s, p, o, j)
    PROVE  Gathers(s, p, o, j)'
<1>1. PICK i \in 1..j : Opens(s, i, j) /\ o = sent[s][i].op /\ Lists(s, p, i, j)
    BY DEF Gathers
<1>2. Opens(s, i, j)' /\ o = sent'[s][i].op /\ Lists(s, p, i, j)'
    BY <1>1, Lasting
<1> QED
    BY <1>2 DEF Gathers

LEMMA MessageLasts ==
    ASSUME RunOK, RunOK', NEW s \in Sessions, Extended(s), NEW d, NEW n, Message(s, d, n)
    PROVE  Message(s, d, n)'
<1>1. PICK i \in DOMAIN sent[s], j \in DOMAIN sent[s] :
          /\ Spans(s, i, j) /\ Cardinality(Ended(s, j)) = n
          /\ d.op = sent[s][i].op /\ Lists(s, d.parts, i, j)
    BY DEF Message
<1>2. /\ DOMAIN sent[s] = 1..Len(sent[s]) /\ DOMAIN sent'[s] = 1..Len(sent'[s])
      /\ Len(sent[s]) \in Nat /\ Len(sent'[s]) \in Nat
    BY DEF RunOK
<1>3. /\ j \in 0..Len(sent[s]) /\ i \in 1..j
      /\ i \in DOMAIN sent'[s] /\ j \in DOMAIN sent'[s]
    BY <1>1, <1>2 DEF Spans, Extended
<1>4. PICK p : p = d.parts
    OBVIOUS
<1>5. /\ Spans(s, i, j)' /\ Cardinality(Ended(s, j)') = n
      /\ d.op = sent'[s][i].op /\ Lists(s, p, i, j)'
    BY <1>1, <1>3, <1>4, Lasting
<1> QED
    BY <1>3, <1>4, <1>5 DEF Message

(* The Assembler's buffer is not where payloads are read into. *)
LEMMA Separate ==
    ASSUME SessionInv, Exclusive, NEW s \in Sessions, buffer[s] # Nil
    PROVE  /\ buffer[s].buf \in Bufs /\ Count(s, buffer[s].buf) > 0 /\ pool[buffer[s].buf] = 0
           /\ payload[s].buf # buffer[s].buf /\ buffer[s].buf # Input[s]
<1>1. PICK b \in Bufs : b = buffer[s].buf /\ Home[b] # -1
    BY DEF SessionInv, Placed, Fit, Pooled
<1>2. pool[b] \in Nat /\ pool[b] + Count(s, b) <= 1
    BY Once
<1>3. CASE payload[s].buf = b
    BY <1>1, <1>2, <1>3 DEF Count, Share, One
<1>4. CASE payload[s].buf # b
    <2>1. Count(s, b) >= 1 /\ Count(s, b) \in Nat
        BY <1>1, <1>4 DEF Count, Share, One
    <2> QED
        BY <1>1, <1>2, <1>4, <2>1, SessionAssumption
<1> QED
    BY <1>3, <1>4

LEMMA DoneOK ==
    ASSUME SessionInv, NEW s \in Sessions
    PROVE  /\ Done(s) \in 0..Len(sent[s]) /\ taken[s] \in Nat /\ Len(sent[s]) \in Nat
           /\ pc[s] \in Busy => taken[s] \in 1..Len(sent[s])
<1>1. /\ taken[s] \in Nat /\ Len(sent[s]) \in Nat /\ taken[s] <= Len(sent[s])
      /\ pc[s] \in Busy => taken[s] >= 1
    BY DEF SessionInv, RunOK, Counted
<1> QED
    BY <1>1 DEF Done, Busy

LEMMA SentStep ==
    ASSUME RunOK, NEW s \in Sessions, SessionActs(s)
    PROVE  Extended(s) /\ (pc'[s] # pc[s] => sent' = sent)
<1>1. sent[s] \in Seq(Frames) /\ Len(sent[s]) \in Nat
    BY DEF RunOK
<1>2. CASE \E f \in Frames : PeerSendsHeader(s, f)
    <2>1. PICK f \in Frames : PeerSendsHeader(s, f)
        BY <1>2
    <2>2. sent'[s] = Append(sent[s], f) /\ pc' = pc
        BY <2>1 DEF PeerSendsHeader, RunOK
    <2> QED
        BY <1>1, <2>2 DEF Extended
<1>3. CASE ~\E f \in Frames : PeerSendsHeader(s, f)
    <2>1. sent' = sent
        <3> USE DEF netVars
        <3>1. CASE Upgrade(s) \/ Peer(s) \/ StartCallback(s) \/ ReadHandlerFails(s)
            BY <1>3, <3>1
               DEF Upgrade, UpgradeFlushes, UpgradeFlushFails, UpgradeInstalls, Peer,
                   PeerStartsFrame, PeerSendsPayload, PeerCloses, StartCallback,
                   ReadHandlerFails
        <3>2. CASE ServeConn(s)
            BY <3>2
               DEF ServeConn, ServeFindsClosed, ServeWaits, ServeReads, ReadHeaderFails,
                   ReadHeaderBad, FrameTooLarge, ReadHeader, NegativeLength, ReadPayload,
                   ReadPayloadFails, PeekWaits, PeekTakes, PeekTooLarge
        <3>3. CASE PingPong(s) \/ CloseFrame(s) \/ AssemblerRefuses(s) \/ SingleFrame(s)
                   \/ SingleCompressed(s) \/ SingleInflateFails(s) \/ FirstFragment(s)
            BY <3>3
               DEF PingPong, CloseFrame, AssemblerRefuses, SingleFrame, SingleCompressed,
                   SingleInflateFails, FirstFragment
        <3>4. CASE MiddleFragment(s) \/ LastFragment(s) \/ LastCompressed(s)
                   \/ LastInflateFails(s) \/ MessageReturns(s) \/ MessagePanics(s)
            BY <3>4
               DEF MiddleFragment, LastFragment, LastCompressed, LastInflateFails,
                   MessageReturns, MessagePanics
        <3> QED
            BY <3>1, <3>2, <3>3, <3>4 DEF SessionActs, ReadHandler, processFrame
    <2> QED
        BY <1>1, <2>1 DEF Extended
<1> QED
    BY <1>2, <1>3

(* A step that neither takes part in joining a message nor delivers one, or *)
(* after which no message will be delivered.                                *)
Stays(s) ==
    /\ delivered'[s] = delivered[s]
    /\ Alive(s)' =>
          /\ Alive(s) /\ Done(s)' = Done(s)
          /\ buffer'[s] = buffer[s] /\ lastOpCode'[s] = lastOpCode[s]
          /\ buffer[s] # Nil => mem'[buffer[s].buf] = mem[buffer[s].buf]
          /\ pc'[s] = "process" => mem'[payload'[s].buf] = << <<s, taken'[s]>> >>

LEMMA StaysKeep ==
    ASSUME SessionInv, SessionInv', NEW s \in Sessions, Extended(s), Stays(s),
           Abandoned(s) => Abandoned(s)', Joining(s), Intact(s)
    PROVE  Joining(s)' /\ Intact(s)'
<1>0. RunOK /\ RunOK'
    BY DEF SessionInv
<1>1. Intact(s)'
    <2> SUFFICES ASSUME ~Abandoned(s)', NEW n \in DOMAIN delivered'[s]
                 PROVE  Message(s, delivered[s][n], n)'
        BY DEF Intact
    <2>1. PICK d : d = delivered[s][n] /\ d = delivered'[s][n]
        BY DEF Stays
    <2>2. Message(s, d, n)
        BY <2>1 DEF Intact, Stays
    <2>3. Message(s, d, n)'
        BY <1>0, <2>2, MessageLasts
    <2> QED
        BY <2>1, <2>3
<1>2. Joining(s)'
    <2> SUFFICES ASSUME Alive(s)'
                 PROVE  /\ Len(delivered'[s]) = Cardinality(Ended(s, Done(s))')
                        /\ pc'[s] = "process" => mem'[payload'[s].buf] = << <<s, taken'[s]>> >>
                        /\ buffer'[s] # Nil => Gathers(s, mem[buffer[s].buf], lastOpCode[s], Done(s))'
        BY DEF Joining
    <2>1. PICK j \in 0..Len(sent[s]) : j = Done(s) /\ j = Done(s)'
        BY DoneOK DEF Stays
    <2>2. Len(delivered'[s]) = Cardinality(Ended(s, j)')
        <3>1. Len(delivered[s]) = Cardinality(Ended(s, j))
            BY <2>1 DEF Joining, Stays
        <3>2. Ended(s, j)' = Ended(s, j)
            BY <1>0, Lasting
        <3> QED
            BY <3>1, <3>2 DEF Stays
    <2>3. ASSUME buffer'[s] # Nil PROVE Gathers(s, mem[buffer[s].buf], lastOpCode[s], j)'
        <3>1. PICK q, o : q = mem[buffer[s].buf] /\ o = lastOpCode[s]
            OBVIOUS
        <3>2. q = mem'[buffer'[s].buf] /\ o = lastOpCode'[s]
            BY <2>3, <3>1 DEF Stays
        <3>3. Gathers(s, q, o, j)
            BY <2>1, <2>3, <3>1 DEF Joining, Stays
        <3>4. Gathers(s, q, o, j)'
            BY <1>0, <3>3, GathersLast
        <3> QED
            BY <3>2, <3>4
    <2> QED
        BY <2>1, <2>2, <2>3 DEF Stays
<1> QED
    BY <1>1, <1>2

LEMMA WaitStep ==
    ASSUME SessionInv, CloseOK, NEW s \in Sessions, Joining(s),
           \/ Upgrade(s) \/ Peer(s) \/ StartCallback(s) \/ ReadHandlerFails(s)
           \/ ServeWaits(s) \/ ServeReads(s) \/ PeekWaits(s) \/ ReadHeader(s) \/ MessageReturns(s)
    PROVE  Stays(s)
<1>1. taken[s] \in Nat
    BY DoneOK
<1> USE DEF Goto, netVars, readVars, memVars, asmVars, msgVars, CloseOK
<1>2. CASE Upgrade(s) \/ Peer(s)
    <2>1. /\ UNCHANGED <<delivered, pc, closes, taken, buffer, lastOpCode, mem, payload>>
          /\ link'[s] = "open" => link[s] = "open"
        BY <1>2
           DEF Upgrade, UpgradeFlushes, UpgradeFlushFails, UpgradeInstalls, Peer,
               PeerStartsFrame, PeerSendsHeader, PeerSendsPayload, PeerCloses
    <2>2. Alive(s)' => Alive(s)
        BY <2>1 DEF Alive
    <2> QED
        BY <2>1, <2>2 DEF Stays, Joining, Done
<1>3. CASE \/ StartCallback(s) \/ ReadHandlerFails(s) \/ ServeWaits(s) \/ ServeReads(s)
           \/ PeekWaits(s)
    <2>1. /\ UNCHANGED <<delivered, closes, taken, buffer, lastOpCode, mem, payload>>
          /\ pc[s] \in {"idle", "err", "loop"} /\ pc'[s] \in {"idle", "loop", "read"}
          /\ pc[s] = "idle" => link[s] = "open"
        BY <1>3 DEF StartCallback, ReadHandlerFails, ServeWaits, ServeReads, PeekWaits
    <2> QED
        BY <2>1 DEF Stays, Alive, Done
<1>4. CASE ReadHeader(s) \/ MessageReturns(s)
    <2>1. /\ UNCHANGED <<delivered, closes, buffer, lastOpCode, mem>>
          /\ \/ pc[s] = "read" /\ pc'[s] = "payload" /\ taken'[s] = taken[s] + 1
             \/ pc[s] = "message" /\ pc'[s] = "loop" /\ taken'[s] = taken[s]
        BY <1>4 DEF ReadHeader, MessageReturns, TakeHeader, SessionInv, RunOK
    <2> QED
        BY <1>1, <2>1 DEF Stays, Alive, Done
<1> QED
    BY <1>2, <1>3, <1>4

LEMMA FetchStep ==
    ASSUME SessionInv, Exclusive, NEW s \in Sessions, ReadPayload(s) \/ PeekTakes(s)
    PROVE  Stays(s)
<1>1. /\ SessionInv /\ taken[s] \in Nat /\ mem \in [Bufs -> Seq(Tokens)]
      /\ taken \in [Sessions -> Nat] /\ pc \in [Sessions -> Pcs]
      /\ payload \in [Sessions -> Slices]
    BY DEF SessionInv, MemOK, RunOK
<1> USE DEF Goto, netVars, readVars, asmVars, msgVars
<1>2. CASE ReadPayload(s)
    <2>1. PICK a \in Bufs : a = payload[s].buf
        BY <1>2 DEF ReadPayload, SessionInv, Placed, Fit, Busy
    <2>2. /\ UNCHANGED <<delivered, closes, taken, buffer, lastOpCode, payload>>
          /\ pc[s] = "payload" /\ pc'[s] = "process"
          /\ mem' = [mem EXCEPT ![a] = << <<s, taken[s]>> >>]
        BY <1>1, <1>2, <2>1 DEF ReadPayload
    <2>3. mem'[a] = << <<s, taken[s]>> >> /\ \A b \in Bufs : b # a => mem'[b] = mem[b]
        BY <1>1, <2>2
    <2>4. buffer[s] # Nil => mem'[buffer[s].buf] = mem[buffer[s].buf]
        BY <2>1, <2>3, Separate
    <2> QED
        BY <2>1, <2>2, <2>3, <2>4 DEF Stays, Alive, Done
<1>3. CASE PeekTakes(s)
    <2>1. PICK a \in Bufs : a = Input[s]
        BY SessionAssumption
    <2>2. /\ UNCHANGED <<delivered, closes, buffer, lastOpCode>>
          /\ pc[s] = "loop" /\ pc'[s] = "process"
          /\ taken' = [taken EXCEPT ![s] = taken[s] + 1]
          /\ mem' = [mem EXCEPT ![a] = << <<s, taken[s] + 1>> >>]
          /\ payload'[s].buf = a
        BY <1>1, <1>3, <2>1 DEF PeekTakes, SkipHeader
    <2>3. /\ mem'[a] = << <<s, taken[s] + 1>> >> /\ \A b \in Bufs : b # a => mem'[b] = mem[b]
          /\ taken'[s] = taken[s] + 1
        BY <1>1, <2>2
    <2>4. buffer[s] # Nil => mem'[buffer[s].buf] = mem[buffer[s].buf]
        BY <2>1, <2>3, Separate
    <2> QED
        BY <1>1, <2>2, <2>3, <2>4 DEF Stays, Alive, Done
<1> QED
    BY <1>2, <1>3

LEMMA LeaveStep ==
    ASSUME SessionInv, CloseOK, NEW s \in Sessions,
           \/ ServeFindsClosed(s) \/ ReadHeaderFails(s) \/ ReadHeaderBad(s) \/ FrameTooLarge(s)
           \/ ReadPayloadFails(s) \/ PeekTooLarge(s) \/ CloseFrame(s) \/ AssemblerRefuses(s)
           \/ SingleInflateFails(s) \/ LastInflateFails(s) \/ NegativeLength(s) \/ MessagePanics(s)
    PROVE  Stays(s)
<1> USE DEF Goto, OnClose, Close, netVars, msgVars, CloseOK
<1>1. CASE NegativeLength(s) \/ MessagePanics(s)
    <2>1. delivered' = delivered /\ pc'[s] = "idle" /\ link'[s] # "open"
        BY <1>1 DEF NegativeLength, MessagePanics
    <2> QED
        BY <2>1 DEF Stays, Alive
<1>2. CASE \/ ServeFindsClosed(s) \/ ReadHeaderFails(s) \/ ReadHeaderBad(s) \/ FrameTooLarge(s)
           \/ ReadPayloadFails(s) \/ PeekTooLarge(s)
    <2>1. delivered' = delivered /\ closes'[s] = closes[s] + 1 /\ closes[s] \in Nat
        BY <1>2
           DEF ServeFindsClosed, ReadHeaderFails, ReadHeaderBad, FrameTooLarge,
               ReadPayloadFails, PeekTooLarge
    <2> QED
        BY <2>1 DEF Stays, Alive
<1>3. CASE \/ CloseFrame(s) \/ AssemblerRefuses(s) \/ SingleInflateFails(s)
           \/ LastInflateFails(s)
    <2>1. delivered' = delivered /\ closes'[s] = closes[s] + 1 /\ closes[s] \in Nat
        BY <1>3 DEF CloseFrame, AssemblerRefuses, SingleInflateFails, LastInflateFails
    <2> QED
        BY <2>1 DEF Stays, Alive
<1> QED
    BY <1>1, <1>2, <1>3

(* One more frame of an open message, and the only frame of one *)
LEMMA OpensMore ==
    ASSUME NEW s \in Sessions, NEW j \in Nat, NEW i \in 1..j, Opens(s, i, j),
           sent[s][j + 1].op \notin DataOps
    PROVE  /\ ~(Data(s, j + 1) /\ sent[s][j + 1].fin) => Opens(s, i, j + 1)
           /\ Data(s, j + 1) /\ sent[s][j + 1].fin => Spans(s, i, j + 1)
<1>1. /\ i..(j + 1) = i..j \cup {j + 1} /\ i # j + 1
      /\ \A k \in i..j : sent[s][k].op \in DataOps <=> k = i
    BY DEF Opens
<1>2. \A k \in i..(j + 1) : sent[s][k].op \in DataOps <=> k = i
    BY <1>1
<1>3. Ended(s, j) \cap i..j = {} /\ j + 1 \notin Ended(s, j)
    BY DEF Opens, Ended
<1>4. ASSUME ~(Data(s, j + 1) /\ sent[s][j + 1].fin) PROVE Opens(s, i, j + 1)
    <2>1. Ended(s, j + 1) \cap i..(j + 1) = {}
        BY <1>1, <1>3, <1>4, EndedNext
    <2> QED
        BY <1>2, <2>1 DEF Opens
<1>5. ASSUME Data(s, j + 1) /\ sent[s][j + 1].fin PROVE Spans(s, i, j + 1)
    <2>1. Ended(s, j + 1) \cap i..(j + 1) = {j + 1}
        BY <1>1, <1>3, <1>5, EndedNext
    <2> QED
        BY <1>2, <2>1 DEF Spans
<1> QED
    BY <1>4, <1>5

LEMMA OpensOne ==
    ASSUME NEW s \in Sessions, NEW j \in Nat \ {0}, sent[s][j].op \in DataOps
    PROVE  /\ Data(s, j)
           /\ ~sent[s][j].fin => Opens(s, j, j)
           /\ sent[s][j].fin => Spans(s, j, j)
<1>1. j..j = {j} /\ Data(s, j)
    BY DEF Data, DataOps, ControlOps
<1>2. \A k \in j..j : sent[s][k].op \in DataOps <=> k = j
    BY <1>1
<1>3. j \in Ended(s, j) <=> sent[s][j].fin
    BY <1>1 DEF Ended
<1> QED
    BY <1>1, <1>2, <1>3 DEF Opens, Spans

LEMMA GathersSkip ==
    ASSUME NEW s \in Sessions, NEW j \in Nat, NEW p, NEW o, Gathers(s, p, o, j), ~Data(s, j + 1)
    PROVE  Gathers(s, p, o, j + 1)
<1>1. PICK i \in 1..j : Opens(s, i, j) /\ o = sent[s][i].op /\ Lists(s, p, i, j)
    BY DEF Gathers
<1>2. sent[s][j + 1].op \notin DataOps
    BY DEF Data, DataOps, ControlOps
<1>3. Opens(s, i, j + 1)
    BY <1>1, <1>2, OpensMore
<1>4. Lists(s, p, i, j + 1)
    BY <1>1, ListsSkip
<1> QED
    BY <1>1, <1>3, <1>4 DEF Gathers

LEMMA GathersMore ==
    ASSUME NEW s \in Sessions, NEW j \in Nat, NEW p \in Seq(Tokens), NEW o, Gathers(s, p, o, j),
           sent[s][j + 1].op = "cont"
    PROVE  \E i \in 1..j :
              /\ ~sent[s][j + 1].fin => Opens(s, i, j + 1)
              /\ sent[s][j + 1].fin => Spans(s, i, j + 1)
              /\ o = sent[s][i].op /\ Lists(s, p \o << <<s, j + 1>> >>, i, j + 1)
<1>1. PICK i \in 1..j : Opens(s, i, j) /\ o = sent[s][i].op /\ Lists(s, p, i, j)
    BY DEF Gathers
<1>2. sent[s][j + 1].op \notin DataOps /\ Data(s, j + 1)
    BY DEF Data, DataOps, ControlOps
<1>3. Lists(s, p \o << <<s, j + 1>> >>, i, j + 1)
    BY <1>1, <1>2, ListsMore
<1> QED
    BY <1>1, <1>2, <1>3, OpensMore

(* A frame goes through processFrame and is no end of a message. *)
LEMMA HandledStep ==
    ASSUME SessionInv, SessionInv', NEW s \in Sessions, Joining(s), Intact(s), sent' = sent,
           Abandoned(s) => Abandoned(s)', delivered'[s] = delivered[s], taken' = taken,
           closes' = closes, pc[s] = "process", pc'[s] = "loop",
           NEW j \in Nat, j + 1 = taken[s], ~(Data(s, j + 1) /\ sent[s][j + 1].fin),
           Alive(s) /\ buffer'[s] # Nil =>
               Gathers(s, mem'[buffer'[s].buf], lastOpCode'[s], j + 1)
    PROVE  Joining(s)' /\ Intact(s)'
<1>0. RunOK /\ RunOK' /\ Extended(s) /\ j + 1 \in 0..Len(sent[s])
    BY DoneOK DEF SessionInv, Extended, RunOK, Busy
<1>1. Intact(s)'
    <2> SUFFICES ASSUME ~Abandoned(s)', NEW n \in DOMAIN delivered'[s]
                 PROVE  Message(s, delivered[s][n], n)'
        BY DEF Intact
    <2>1. PICK d : d = delivered[s][n] /\ d = delivered'[s][n]
        OBVIOUS
    <2>2. Message(s, d, n)
        BY <2>1 DEF Intact
    <2>3. Message(s, d, n)'
        BY <1>0, <2>2, MessageLasts
    <2> QED
        BY <2>1, <2>3
<1>2. Joining(s)'
    <2>1. Done(s) = j /\ Done(s)' = j + 1
        BY DEF Done
    <2> SUFFICES ASSUME Alive(s)'
                 PROVE  /\ Len(delivered'[s]) = Cardinality(Ended(s, j + 1)')
                        /\ buffer'[s] # Nil => Gathers(s, mem[buffer[s].buf], lastOpCode[s], j + 1)'
        BY <2>1 DEF Joining
    <2>2. Alive(s)
        BY DEF Alive
    <2>3. Len(delivered[s]) = Cardinality(Ended(s, j))
        BY <2>1, <2>2 DEF Joining
    <2>4. Ended(s, j + 1) = Ended(s, j)
        BY EndedNext
    <2>5. Ended(s, j + 1)' = Ended(s, j + 1)
        BY <1>0, Lasting
    <2>6. ASSUME buffer'[s] # Nil PROVE Gathers(s, mem[buffer[s].buf], lastOpCode[s], j + 1)'
        <3>1. PICK q, o : q = mem'[buffer'[s].buf] /\ o = lastOpCode'[s]
            OBVIOUS
        <3>2. Gathers(s, q, o, j + 1)
            BY <2>2, <2>6, <3>1
        <3>3. Gathers(s, q, o, j + 1)'
            BY <1>0, <3>2, GathersLast
        <3> QED
            BY <3>1, <3>3
    <2> QED
        BY <2>3, <2>4, <2>5, <2>6
<1> QED
    BY <1>1, <1>2

LEMMA GatherStep ==
    ASSUME SessionInv, SessionInv', Exclusive, NEW s \in Sessions, Joining(s), Intact(s),
           PingPong(s) \/ FirstFragment(s) \/ MiddleFragment(s)
    PROVE  Joining(s)' /\ Intact(s)'
<1>0. MemOK /\ RunOK /\ Placed(s) /\ pc \in [Sessions -> Pcs] /\ mem \in [Bufs -> Seq(Tokens)]
    BY DEF SessionInv, MemOK, RunOK
<1>1. /\ pc[s] = "process" /\ pc'[s] = "loop"
      /\ UNCHANGED <<direct, sent, taken, closes, delivered>>
    BY <1>0 DEF PingPong, FirstFragment, MiddleFragment, Goto, netVars, readVars, msgVars
<1>2. PICK j \in Nat : j + 1 = taken[s]
    <2>1. taken[s] - 1 \in Nat /\ (taken[s] - 1) + 1 = taken[s]
        BY <1>1, DoneOK DEF Busy
    <2> QED
        BY <2>1
<1>3. Frame(s) = sent[s][j + 1] /\ Done(s) = j
    BY <1>1, <1>2 DEF Frame, Done
<1>4. Abandoned(s) => Abandoned(s)'
    BY <1>1 DEF Abandoned
<1>5. Alive(s) => mem[payload[s].buf] = << <<s, j + 1>> >>
    BY <1>1, <1>2 DEF Joining
<1>6. CASE PingPong(s)
    <2>1. ~Data(s, j + 1)
        BY <1>3, <1>6 DEF PingPong, Data, ControlOps
    <2>2. UNCHANGED <<mem, buffer, lastOpCode>>
        BY <1>6 DEF PingPong, asmVars
    <2>3. ASSUME Alive(s), buffer'[s] # Nil
          PROVE  Gathers(s, mem'[buffer'[s].buf], lastOpCode'[s], j + 1)
        <3>1. PICK q, o : q = mem[buffer[s].buf] /\ o = lastOpCode[s]
            OBVIOUS
        <3>2. Gathers(s, q, o, j)
            BY <1>3, <2>2, <2>3, <3>1 DEF Joining
        <3>3. Gathers(s, q, o, j + 1)
            BY <2>1, <3>2, GathersSkip
        <3> QED
            BY <2>2, <3>1, <3>3
    <2> QED
        BY <1>1, <1>2, <1>4, <2>1, <2>3, HandledStep
<1>7. CASE FirstFragment(s)
    <2>1. PICK x : /\ buffer' = [buffer EXCEPT ![s] = [x EXCEPT !.len = payload[s].len]]
                   /\ mem' = [mem EXCEPT ![x.buf] = mem[payload[s].buf]]
                   /\ x \in getPayloadBuffer(pool, Max({512, payload[s].len}))
        BY <1>7 DEF FirstFragment
    <2>2. PICK n : x \in getPayloadBuffer(pool, n)
        BY <2>1
    <2>3. /\ x = [buf |-> x.buf, len |-> n, cap |-> IF n > 65536 THEN n ELSE Bucket(n)]
          /\ x.buf \in Bufs
        BY <1>0, <2>2, Got DEF MemOK, Pooled
    <2>4. [x EXCEPT !.len = payload[s].len].buf = x.buf
        BY <2>3
    <2>5. buffer'[s].buf = x.buf /\ mem'[x.buf] = mem[payload[s].buf]
        BY <1>0, <2>1, <2>3, <2>4 DEF MemOK
    <2>6. /\ sent[s][j + 1].op \in DataOps /\ ~sent[s][j + 1].fin
          /\ lastOpCode'[s] = sent[s][j + 1].op
        BY <1>0, <1>3, <1>7 DEF FirstFragment, BeginsMessage, RunOK
    <2>7. ASSUME Alive(s) PROVE Gathers(s, mem'[buffer'[s].buf], lastOpCode'[s], j + 1)
        <3>1. PICK m \in Nat \ {0} : m = j + 1
            OBVIOUS
        <3>2. Opens(s, m, m) /\ Data(s, m)
            BY <2>6, <3>1, OpensOne
        <3>3. Lists(s, << <<s, m>> >>, m, m)
            BY <3>2, ListsOne
        <3>4. mem'[buffer'[s].buf] = << <<s, m>> >>
            BY <1>5, <2>5, <2>7, <3>1
        <3>5. m \in 1..m
            OBVIOUS
        <3> QED
            BY <2>6, <3>1, <3>2, <3>3, <3>4, <3>5 DEF Gathers
    <2> QED
        BY <1>1, <1>2, <1>4, <2>6, <2>7, HandledStep
<1>8. CASE MiddleFragment(s)
    <2>1. /\ Continues(s) /\ buffer[s] # Nil /\ sent[s][j + 1].op = "cont"
          /\ ~sent[s][j + 1].fin /\ lastOpCode' = lastOpCode
        BY <1>3, <1>8 DEF MiddleFragment, Continues
    <2>2. PICK x \in Appended(s) : /\ buffer' = [buffer EXCEPT ![s] = x]
                                   /\ mem' = [mem EXCEPT ![x.buf] = Joined(s)]
        BY <1>8 DEF MiddleFragment
    <2>3. x.buf \in Bufs
        BY <1>0, <2>1, <2>2, Grown DEF Pooled
    <2>4. mem'[buffer'[s].buf] = Joined(s)
        BY <1>0, <2>2, <2>3 DEF MemOK
    <2>5. ASSUME Alive(s) PROVE Gathers(s, mem'[buffer'[s].buf], lastOpCode'[s], j + 1)
        <3>1. PICK q \in Seq(Tokens) : q = mem[buffer[s].buf]
            BY <1>0, <2>1, Separate
        <3>2. PICK o : o = lastOpCode[s]
            OBVIOUS
        <3>3. Gathers(s, q, o, j)
            BY <1>3, <2>1, <2>5, <3>1, <3>2 DEF Joining
        <3>4. mem'[buffer'[s].buf] = q \o << <<s, j + 1>> >>
            BY <1>5, <2>4, <2>5, <3>1 DEF Joined
        <3>5. PICK i \in 1..j : /\ Opens(s, i, j + 1) /\ o = sent[s][i].op
                                /\ Lists(s, q \o << <<s, j + 1>> >>, i, j + 1)
            BY <2>1, <3>3, GathersMore
        <3>6. i \in 1..(j + 1)
            OBVIOUS
        <3> QED
            BY <2>1, <3>2, <3>4, <3>5, <3>6 DEF Gathers
    <2> QED
        BY <1>1, <1>2, <1>4, <2>1, <2>5, HandledStep
<1> QED
    BY <1>6, <1>7, <1>8

(* A message is delivered: its frames end with the one being processed. *)
LEMMA PostStep ==
    ASSUME SessionInv, SessionInv', CloseOK, Leaving, NEW s \in Sessions, Joining(s), Intact(s),
           UNCHANGED <<direct, sent, taken, closes>>, pc[s] = "process", pc'[s] = "message",
           buffer'[s] = Nil, NEW d, delivered'[s] = Append(delivered[s], d),
           Alive(s) => \E i \in 1..taken[s] :
               Spans(s, i, taken[s]) /\ d.op = sent[s][i].op /\ Lists(s, d.parts, i, taken[s])
    PROVE  Joining(s)' /\ Intact(s)'
<1>0. RunOK /\ RunOK' /\ Extended(s) /\ taken[s] \in 1..Len(sent[s])
    BY DoneOK DEF SessionInv, Extended, RunOK, Busy
<1>1. PICK j \in Nat : j + 1 = taken[s]
    <2>1. taken[s] - 1 \in Nat /\ (taken[s] - 1) + 1 = taken[s]
        BY <1>0, DoneOK
    <2> QED
        BY <2>1
<1>2. Done(s) = j /\ Done(s)' = j + 1 /\ (Alive(s)' => Alive(s))
    <2>1. pc[s] # "idle" /\ closes'[s] = closes[s] /\ taken'[s] = taken[s]
        OBVIOUS
    <2> QED
        BY <1>1, <2>1 DEF Done, Alive
<1>3. PICK h : h = delivered[s] /\ h \in Seq(Deliveries)
    BY DEF SessionInv, HistOK
<1>4. /\ Len(delivered'[s]) = Len(h) + 1 /\ DOMAIN delivered'[s] = 1..(Len(h) + 1)
      /\ DOMAIN h = 1..Len(h) /\ Len(h) \in Nat
      /\ \A n \in 1..(Len(h) + 1) : delivered'[s][n] = IF n <= Len(h) THEN h[n] ELSE d
    <2>1. /\ delivered'[s] \in Seq(Deliveries) /\ delivered'[s] = Append(h, d)
        BY <1>3 DEF SessionInv, HistOK
    <2> QED
        BY <1>3, <2>1
<1>5. ASSUME Alive(s)
      PROVE  /\ Len(h) + 1 = Cardinality(Ended(s, j + 1)) /\ Message(s, d, Len(h) + 1)
             /\ Ended(s, j + 1)' = Ended(s, j + 1)
    <2>1. PICK i \in 1..(j + 1) :
              /\ Spans(s, i, j + 1) /\ d.op = sent[s][i].op /\ Lists(s, d.parts, i, j + 1)
        BY <1>1, <1>5
    <2>2. Data(s, j + 1) /\ sent[s][j + 1].fin
        BY <2>1 DEF Spans, Ended
    <2>3. Len(h) = Cardinality(Ended(s, j))
        BY <1>2, <1>3, <1>5 DEF Joining
    <2>4. Len(h) + 1 = Cardinality(Ended(s, j + 1))
        BY <2>2, <2>3, EndedNext
    <2>5. i \in DOMAIN sent[s] /\ j + 1 \in DOMAIN sent[s] /\ j + 1 \in 0..Len(sent[s])
        BY <1>0, <1>1 DEF RunOK
    <2>6. Ended(s, j + 1)' = Ended(s, j + 1)
        BY <1>0, <2>5, Lasting
    <2> QED
        BY <2>1, <2>4, <2>5, <2>6 DEF Message
<1>6. Joining(s)'
    BY <1>2, <1>4, <1>5 DEF Joining
<1>7. Intact(s)'
    <2> SUFFICES ASSUME ~Abandoned(s)', NEW n \in DOMAIN delivered'[s]
                 PROVE  Message(s, delivered[s][n], n)'
        BY DEF Intact
    <2>1. PICK e : e = delivered'[s][n]
        OBVIOUS
    <2>2. Alive(s)
        <3>1. closes[s] \in Nat /\ pc[s] # "err" /\ pc[s] # "idle"
            BY DEF CloseOK
        <3>2. ~direct[s] => closes[s] = 0
            BY <3>1 DEF Leaving
        <3>3. direct[s] => closes[s] = 0
            BY <3>1 DEF Abandoned
        <3> QED
            BY <3>1, <3>2, <3>3 DEF Alive
    <2>3. Message(s, e, n)
        <3>1. CASE n <= Len(h)
            <4>1. n \in DOMAIN h /\ e = h[n]
                BY <1>4, <2>1, <3>1
            <4>2. ~Abandoned(s)
                BY DEF Abandoned
            <4> QED
                BY <1>3, <4>1, <4>2 DEF Intact
        <3>2. CASE ~(n <= Len(h))
            <4>1. n = Len(h) + 1 /\ e = d
                BY <1>4, <2>1, <3>2
            <4> QED
                BY <1>5, <2>2, <4>1
        <3> QED
            BY <3>1, <3>2
    <2>4. Message(s, e, n)'
        BY <1>0, <2>3, MessageLasts
    <2> QED
        BY <2>1, <2>4
<1> QED
    BY <1>6, <1>7

LEMMA DeliverStep ==
    ASSUME SessionInv, SessionInv', Exclusive, CloseOK, Leaving, NEW s \in Sessions,
           Joining(s), Intact(s),
           SingleFrame(s) \/ SingleCompressed(s) \/ LastFragment(s) \/ LastCompressed(s)
    PROVE  Joining(s)' /\ Intact(s)'
<1>0. /\ MemOK /\ RunOK /\ Placed(s) /\ pc \in [Sessions -> Pcs] /\ mem \in [Bufs -> Seq(Tokens)]
      /\ buffer \in [Sessions -> Slices] /\ delivered \in [Sessions -> Seq(Deliveries)]
    BY DEF SessionInv, MemOK, RunOK, HistOK
<1>1. pc[s] = "process" /\ pc'[s] = "message" /\ UNCHANGED <<direct, sent, taken, closes>>
    <2> USE <1>0 DEF Goto, netVars, readVars
    <2>1. CASE SingleFrame(s) \/ SingleCompressed(s)
        BY <2>1 DEF SingleFrame, SingleCompressed
    <2>2. CASE LastFragment(s) \/ LastCompressed(s)
        BY <2>2 DEF LastFragment, LastCompressed
    <2> QED
        BY <2>1, <2>2
<1>2. PICK j \in Nat : j + 1 = taken[s]
    <2>1. taken[s] - 1 \in Nat /\ (taken[s] - 1) + 1 = taken[s]
        BY <1>1, DoneOK DEF Busy
    <2> QED
        BY <2>1
<1>3. Frame(s) = sent[s][j + 1] /\ Done(s) = j
    BY <1>1, <1>2 DEF Frame, Done
<1>4. Alive(s) => mem[payload[s].buf] = << <<s, j + 1>> >>
    BY <1>1, <1>2 DEF Joining
<1>5. CASE SingleFrame(s) \/ SingleCompressed(s)
    <2>1. PICK l : delivered'[s] = Append(delivered[s],
                       [op |-> Frame(s).op, parts |-> mem[payload[s].buf], len |-> l])
        <3>1. CASE SingleFrame(s)
            BY <1>0, <3>1 DEF SingleFrame, CallOnMessage
        <3>2. CASE SingleCompressed(s)
            <4>1. PICK out \in DecompressData(pool, payload[s]) :
                      CallOnMessage(s, Frame(s).op, out, mem[payload[s].buf], TRUE)
                BY <3>2 DEF SingleCompressed
            <4> QED
                BY <1>0, <4>1 DEF CallOnMessage
        <3> QED
            BY <1>5, <3>1, <3>2
    <2>2. PICK d : d = [op |-> Frame(s).op, parts |-> mem[payload[s].buf], len |-> l]
        OBVIOUS
    <2>3. d.op = sent[s][j + 1].op /\ d.parts = mem[payload[s].buf]
        BY <1>3, <2>2
    <2>4. buffer'[s] = Nil /\ sent[s][j + 1].op \in DataOps /\ sent[s][j + 1].fin
        BY <1>3, <1>5 DEF SingleFrame, SingleCompressed, BeginsMessage
    <2>5. PICK m \in Nat \ {0} : m = j + 1
        OBVIOUS
    <2>6. Spans(s, m, m) /\ Data(s, m)
        BY <2>4, <2>5, OpensOne
    <2>7. Lists(s, << <<s, m>> >>, m, m)
        BY <2>6, ListsOne
    <2>8. Alive(s) => \E i \in 1..taken[s] :
              Spans(s, i, taken[s]) /\ d.op = sent[s][i].op /\ Lists(s, d.parts, i, taken[s])
        BY <1>2, <1>4, <2>3, <2>5, <2>6, <2>7
    <2>9. delivered'[s] = Append(delivered[s], d)
        BY <2>1, <2>2
    <2> QED
        BY <1>1, <2>4, <2>8, <2>9, PostStep
<1>6. CASE LastFragment(s) \/ LastCompressed(s)
    <2>1. PICK l : delivered'[s] = Append(delivered[s],
                       [op |-> lastOpCode[s], parts |-> Joined(s), len |-> l])
        <3>1. CASE LastFragment(s)
            <4>1. PICK x : CallOnMessage(s, lastOpCode[s], x, Joined(s), TRUE)
                BY <3>1 DEF LastFragment
            <4> QED
                BY <1>0, <4>1 DEF CallOnMessage
        <3>2. CASE LastCompressed(s)
            <4>1. PICK x : CallOnMessage(s, lastOpCode[s], x, Joined(s), TRUE)
                BY <3>2 DEF LastCompressed
            <4> QED
                BY <1>0, <4>1 DEF CallOnMessage
        <3> QED
            BY <1>6, <3>1, <3>2
    <2>2. PICK d : d = [op |-> lastOpCode[s], parts |-> Joined(s), len |-> l]
        OBVIOUS
    <2>3. d.op = lastOpCode[s] /\ d.parts = Joined(s) /\ delivered'[s] = Append(delivered[s], d)
        BY <2>1, <2>2
    <2>4. /\ buffer[s] # Nil /\ sent[s][j + 1].op = "cont" /\ sent[s][j + 1].fin
          /\ buffer'[s] = Nil
        BY <1>0, <1>3, <1>6 DEF LastFragment, LastCompressed, Continues
    <2>5. ASSUME Alive(s)
          PROVE  \E i \in 1..taken[s] :
              Spans(s, i, taken[s]) /\ d.op = sent[s][i].op /\ Lists(s, d.parts, i, taken[s])
        <3>1. PICK q \in Seq(Tokens) : q = mem[buffer[s].buf]
            BY <1>0, <2>4, Separate
        <3>2. Gathers(s, q, d.op, j)
            BY <1>3, <2>3, <2>4, <2>5, <3>1 DEF Joining
        <3>3. d.parts = q \o << <<s, j + 1>> >>
            BY <1>4, <2>3, <2>5, <3>1 DEF Joined
        <3>4. PICK i \in 1..j : /\ Spans(s, i, j + 1) /\ d.op = sent[s][i].op
                                /\ Lists(s, q \o << <<s, j + 1>> >>, i, j + 1)
            BY <2>4, <3>2, GathersMore
        <3>5. i \in 1..(j + 1)
            OBVIOUS
        <3> QED
            BY <1>2, <3>3, <3>4, <3>5
    <2> QED
        BY <1>1, <2>3, <2>4, <2>5, PostStep
<1> QED
    BY <1>5, <1>6

(* Every action of the session that steps ... *)
LEMMA JoinStep ==
    ASSUME SessionInv, SessionInv', Exclusive, CloseOK, CloseOK', Leaving, NEW s \in Sessions,
           Joining(s), Intact(s), SessionActs(s)
    PROVE  Joining(s)' /\ Intact(s)'
<1>0. RunOK
    BY DEF SessionInv
<1>1. Extended(s)
    BY <1>0, SentStep
<1>2. Abandoned(s) => Abandoned(s)'
    <2>1. direct' = direct /\ (CallsOnClose(s) \/ ReturnsErr(s) \/ GoesOn(s) \/ StaysOut(s))
        BY CloseEffect
    <2>2. closes'[s] = closes[s] \/ closes'[s] = closes[s] + 1
        BY <2>1 DEF CallsOnClose, ReturnsErr, GoesOn, StaysOut, CloseOK
    <2>3. closes[s] \in Nat
        BY DEF CloseOK
    <2> QED
        BY <2>1, <2>2, <2>3 DEF Abandoned
<1>3. CASE Stays(s)
    BY <1>1, <1>2, <1>3, StaysKeep
<1>4. CASE PingPong(s) \/ FirstFragment(s) \/ MiddleFragment(s)
    BY <1>4, GatherStep
<1>5. CASE SingleFrame(s) \/ SingleCompressed(s) \/ LastFragment(s) \/ LastCompressed(s)
    BY <1>5, DeliverStep
<1>6. CASE \/ Upgrade(s) \/ Peer(s) \/ StartCallback(s) \/ ReadHandlerFails(s)
           \/ ServeWaits(s) \/ ServeReads(s) \/ PeekWaits(s) \/ ReadHeader(s) \/ MessageReturns(s)
    BY <1>3, <1>6, WaitStep
<1>7. CASE ReadPayload(s) \/ PeekTakes(s)
    BY <1>3, <1>7, FetchStep
<1>8. CASE \/ ServeFindsClosed(s) \/ ReadHeaderFails(s) \/ ReadHeaderBad(s) \/ FrameTooLarge(s)
           \/ ReadPayloadFails(s) \/ PeekTooLarge(s) \/ CloseFrame(s) \/ AssemblerRefuses(s)
           \/ SingleInflateFails(s) \/ LastInflateFails(s) \/ NegativeLength(s) \/ MessagePanics(s)
    BY <1>3, <1>8, LeaveStep
<1> QED
    BY <1>4, <1>5, <1>6, <1>7, <1>8 DEF SessionActs, ReadHandler, ServeConn, processFrame

(* ... and the sessions that do not. *)
LEMMA AsmAlone ==
    ASSUME RunOK, NEW s \in Sessions, SessionActs(s), NEW t \in Sessions \ {s}
    PROVE  lastOpCode'[t] = lastOpCode[t]
<1> USE DEF RunOK, asmVars
<1>1. CASE Upgrade(s) \/ Peer(s) \/ StartCallback(s) \/ ReadHandlerFails(s)
    BY <1>1
       DEF Upgrade, UpgradeFlushes, UpgradeFlushFails, UpgradeInstalls, Peer, PeerStartsFrame,
           PeerSendsHeader, PeerSendsPayload, PeerCloses, StartCallback, ReadHandlerFails
<1>2. CASE ServeConn(s)
    BY <1>2
       DEF ServeConn, ServeFindsClosed, ServeWaits, ServeReads, ReadHeaderFails,
           ReadHeaderBad, FrameTooLarge, ReadHeader, NegativeLength, ReadPayload,
           ReadPayloadFails, PeekWaits, PeekTakes, PeekTooLarge
<1>3. CASE PingPong(s) \/ CloseFrame(s) \/ AssemblerRefuses(s) \/ SingleFrame(s)
           \/ SingleCompressed(s) \/ SingleInflateFails(s) \/ FirstFragment(s)
    BY <1>3
       DEF PingPong, CloseFrame, AssemblerRefuses, SingleFrame, SingleCompressed,
           SingleInflateFails, FirstFragment, BeginsMessage
<1>4. CASE MiddleFragment(s) \/ LastFragment(s) \/ LastCompressed(s)
           \/ LastInflateFails(s) \/ MessageReturns(s) \/ MessagePanics(s)
    BY <1>4
       DEF MiddleFragment, LastFragment, LastCompressed, LastInflateFails, MessageReturns,
           MessagePanics
<1> QED
    BY <1>1, <1>2, <1>3, <1>4 DEF SessionActs, ReadHandler, processFrame

LEMMA JoinApart ==
    ASSUME SessionInv, SessionInv', Exclusive, CloseOK, NEW s \in Sessions, SessionActs(s),
           NEW t \in Sessions \ {s}, Joining(t), Intact(t)
    PROVE  Joining(t)' /\ Intact(t)'
<1>0. MemOK /\ RunOK /\ HistOK /\ Placed(s) /\ Counted(s) /\ SizesOK(s) /\ Stable(s)
    BY DEF SessionInv
<1>1. /\ RunsAlone(s) /\ HoldsAlone(s) /\ Written(s) /\ delivered'[t] = delivered[t]
      /\ lastOpCode'[t] = lastOpCode[t]
    BY <1>0, RunStep, MemStep, DeliveryStep, AsmAlone DEF MemEffect
<1>2. closes'[t] = closes[t] /\ link'[t] = link[t]
    <2>1. CallsOnClose(s) \/ ReturnsErr(s) \/ GoesOn(s) \/ StaysOut(s)
        BY CloseEffect
    <2> QED
        BY <2>1 DEF CallsOnClose, ReturnsErr, GoesOn, StaysOut, CloseOK
<1>3. /\ pc'[t] = pc[t] /\ sent'[t] = sent[t] /\ taken'[t] = taken[t] /\ direct' = direct
      /\ payload'[t] = payload[t] /\ buffer'[t] = buffer[t]
    BY <1>1 DEF RunsAlone, HoldsAlone
<1>4. ASSUME NEW b \in Bufs, Count(t, b) > 0 PROVE mem'[b] = mem[b]
    BY <1>1, <1>4, Apart DEF Written
<1>5. buffer[t] # Nil => mem'[buffer[t].buf] = mem[buffer[t].buf]
    BY <1>4, Separate
<1>6. pc[t] = "process" => mem'[payload[t].buf] = mem[payload[t].buf]
    <2>1. ASSUME pc[t] = "process"
          PROVE  payload[t].buf \in Bufs /\ Count(t, payload[t].buf) > 0
        BY <2>1 DEF SessionInv, Placed, Fit, Busy, Count, Share, One
    <2> QED
        BY <1>4, <2>1
<1>7. Extended(t)
    BY <1>3 DEF Extended, SessionInv, RunOK
<1>8. Stays(t)
    BY <1>1, <1>2, <1>3, <1>5, <1>6 DEF Stays, Alive, Done, Joining
<1>9. Abandoned(t) => Abandoned(t)'
    BY <1>2, <1>3 DEF Abandoned
<1> QED
    BY <1>7, <1>8, <1>9, StaysKeep

JoinInv ==
    /\ SessionInv /\ Exclusive /\ CloseOK /\ Leaving
    /\ \A s \in Sessions : Joining(s) /\ Intact(s)

(* MessageIntact: every call of OnMessage has the next message its client   *)
(* sent, all of its fragments in order and with its opcode, for any frames, *)
(* sizes and number of connections that share the payload buffers.          *)
THEOREM MessageCorrect == Spec => []MessageIntact
<1>1. Init => JoinInv
    <2> SUFFICES ASSUME Init PROVE JoinInv
        OBVIOUS
    <2>1. SessionInv /\ Exclusive
        BY SessionInvInit
    <2>2. CloseOK /\ Leaving
        BY DEF Init, CloseOK, Leaving, Pcs
    <2>3. ASSUME NEW s \in Sessions PROVE Joining(s) /\ Intact(s)
        <3>1. /\ delivered[s] = << >> /\ pc[s] = "idle" /\ taken[s] = 0 /\ buffer[s] = Nil
            BY DEF Init
        <3>2. Ended(s, 0) = {} /\ Done(s) = 0
            BY <3>1 DEF Ended, Done
        <3>3. Cardinality(Ended(s, 0)) = 0
            BY <3>2, FS_EmptySet
        <3>4. Len(delivered[s]) = 0 /\ \A n \in DOMAIN delivered[s] : FALSE
            BY <3>1
        <3> QED
            BY <3>1, <3>2, <3>3, <3>4 DEF Joining, Intact
    <2> QED
        BY <2>1, <2>2, <2>3 DEF JoinInv
<1>2. JoinInv /\ [Next]_vars => JoinInv'
    <2> SUFFICES ASSUME JoinInv, [Next]_vars PROVE JoinInv'
        OBVIOUS
    <2>1. CASE UNCHANGED vars
        <3>1. SessionInv' /\ Exclusive' /\ CloseOK' /\ Leaving'
            BY <2>1
               DEF JoinInv, SessionInv, Exclusive, MemOK, RunOK, HistOK, Placed, Fit, Counted,
                   SizesOK, Stable, TooLarge, Pooled, Count, CloseOK, Leaving, vars, netVars,
                   readVars, memVars, asmVars, msgVars
        <3>2. ASSUME NEW s \in Sessions PROVE Joining(s)' /\ Intact(s)'
            <4>1. Extended(s)
                BY <2>1 DEF Extended, JoinInv, SessionInv, RunOK, vars, netVars
            <4>2. Stays(s) /\ (Abandoned(s) => Abandoned(s)')
                BY <2>1
                   DEF JoinInv, Joining, Stays, Alive, Done, Abandoned, vars, netVars, readVars,
                       memVars, asmVars, msgVars
            <4> QED
                BY <3>1, <4>1, <4>2, StaysKeep DEF JoinInv
        <3> QED
            BY <3>1, <3>2 DEF JoinInv
    <2>2. ASSUME NEW s \in Sessions, SessionActs(s) PROVE JoinInv'
        <3>1. SessionInv' /\ Exclusive' /\ CloseOK' /\ Leaving'
            BY <2>2, SessionInvStep, CloseStep DEF JoinInv
        <3>2. Joining(s)' /\ Intact(s)'
            BY <2>2, <3>1, JoinStep DEF JoinInv
        <3>3. \A t \in Sessions \ {s} : Joining(t)' /\ Intact(t)'
            BY <2>2, <3>1, JoinApart DEF JoinInv
        <3> QED
            BY <3>1, <3>2, <3>3 DEF JoinInv
    <2> QED
        BY <2>1, <2>2 DEF Next, SessionActs
<1>3. JoinInv => MessageIntact
    BY DEF JoinInv, Intact, Message, MessageIntact
<1> QED
    BY <1>1, <1>2, <1>3, PTL DEF Spec

-----------------------------------------------------------------------------
(***************************************************************************)
(* The types of all variables: what is not in the invariants above.        *)
(***************************************************************************)
NetOK ==
    /\ up \in [Sessions -> {"new", "failed", "onOpen", "ready"}]
    /\ pending \in [Sessions -> {"none", "start", "header"}]
    /\ isCompressed \in [Sessions -> BOOLEAN]
(* A client's session reads from netpoll's buffer itself. *)
MovedOK ==
    /\ moved \in [Sessions -> Nat]
    /\ \A s \in Sessions : /\ moved[s] <= Len(sent[s]) /\ taken[s] <= moved[s]
                           /\ direct[s] => moved[s] = taken[s]
BytesOK == mem \in [Bufs -> Seq(Sessions \X Nat)]
RoomOK ==
    \A s \in Sessions : /\ payload[s].len <= payload[s].cap
                        /\ buffer[s].len <= buffer[s].cap
                        /\ full[s].len <= full[s].cap

LEMMA NetStep ==
    ASSUME SessionInv, NetOK, NEW s \in Sessions, SessionActs(s)
    PROVE  NetOK'
<1> USE DEF NetOK, netVars, asmVars
<1>1. CASE Upgrade(s) \/ Peer(s) \/ StartCallback(s) \/ ReadHandlerFails(s)
    BY <1>1
       DEF Upgrade, UpgradeFlushes, UpgradeFlushFails, UpgradeInstalls, Peer, PeerStartsFrame,
           PeerSendsHeader, PeerSendsPayload, PeerCloses, StartCallback, ReadHandlerFails
<1>2. CASE ServeConn(s)
    BY <1>2
       DEF ServeConn, ServeFindsClosed, ServeWaits, ServeReads, ReadHeaderFails,
           ReadHeaderBad, FrameTooLarge, ReadHeader, NegativeLength, ReadPayload,
           ReadPayloadFails, PeekWaits, PeekTakes, PeekTooLarge
<1>3. CASE PingPong(s) \/ CloseFrame(s) \/ AssemblerRefuses(s)
    BY <1>3 DEF PingPong, CloseFrame, AssemblerRefuses
<1>4. CASE SingleFrame(s) \/ SingleCompressed(s) \/ SingleInflateFails(s) \/ FirstFragment(s)
    <2>1. /\ UNCHANGED <<up, pending>> /\ pc[s] = "process"
          /\ isCompressed' = [isCompressed EXCEPT ![s] = Frame(s).rsv1 /\ Compression]
        BY <1>4
           DEF SingleFrame, SingleCompressed, SingleInflateFails, FirstFragment, BeginsMessage
    <2>2. PICK z : z = (Frame(s).rsv1 /\ Compression)
        BY Zenon
    <2>3. z \in BOOLEAN
        BY <2>2, Zenon
    <2>4. isCompressed' = [isCompressed EXCEPT ![s] = z]
        BY <2>1, <2>2, Zenon
    <2> QED
        BY <2>1, <2>3, <2>4
<1>5. CASE MiddleFragment(s) \/ LastFragment(s) \/ LastCompressed(s)
           \/ LastInflateFails(s) \/ MessageReturns(s) \/ MessagePanics(s)
    BY <1>5
       DEF MiddleFragment, LastFragment, LastCompressed, LastInflateFails, MessageReturns,
           MessagePanics
<1> QED
    BY <1>1, <1>2, <1>3, <1>4, <1>5 DEF SessionActs, ReadHandler, processFrame

LEMMA MovedStep ==
    ASSUME SessionInv, MovedOK, NEW s \in Sessions, SessionActs(s)
    PROVE  MovedOK'
<1>0. /\ RunOK /\ Counted(s) /\ direct \in [Sessions -> BOOLEAN] /\ taken \in [Sessions -> Nat]
      /\ \A t \in Sessions : Len(sent[t]) \in Nat
    BY DEF SessionInv, RunOK
<1>1. RunOK' /\ RunsAlone(s) /\ Extended(s)
    BY <1>0, RunStep, SentStep
<1>2. ASSUME NEW t \in Sessions
      PROVE  Len(sent'[t]) \in Nat /\ Len(sent[t]) <= Len(sent'[t])
    <2>1. sent'[t] \in Seq(Frames)
        BY <1>1 DEF RunOK
    <2>2. t # s => sent'[t] = sent[t]
        BY <1>1 DEF RunsAlone
    <2>3. Len(sent[t]) \in Nat /\ (t = s => Len(sent[t]) <= Len(sent'[t]))
        BY <1>0, <1>1 DEF Extended
    <2> QED
        BY <2>1, <2>2, <2>3
<1>3. CASE FrameTooLarge(s) \/ ReadHeader(s) \/ NegativeLength(s)
    <2>1. TakeHeader(s) /\ pc[s] = "read" /\ Unread(s) > 0 /\ sent' = sent /\ direct' = direct
        BY <1>3 DEF FrameTooLarge, ReadHeader, NegativeLength, Goto, netVars
    <2>2. ~direct[s]
        BY <1>0, <2>1 DEF Counted
    <2>3. PICK k \in taken[s] + 1..Len(sent[s]) : moved' = [moved EXCEPT ![s] = k]
        BY <2>1 DEF TakeHeader
    <2>4. taken' = [taken EXCEPT ![s] = taken[s] + 1] /\ k \in Nat
        BY <1>0, <2>1, <2>3 DEF TakeHeader
    <2> QED
        BY <1>0, <2>1, <2>2, <2>3, <2>4 DEF MovedOK
<1>4. CASE PeekTakes(s) \/ PeekTooLarge(s)
    <2>1. SkipHeader(s) /\ direct[s] /\ Unread(s) > 0 /\ sent' = sent /\ direct' = direct
        BY <1>4 DEF PeekTakes, PeekTooLarge, WholeFrame, netVars
    <2>2. moved[s] = taken[s] /\ taken[s] + 1 <= Len(sent[s])
        <3>1. moved[s] = taken[s]
            BY <2>1 DEF MovedOK
        <3>2. Len(sent[s]) \in Nat /\ taken[s] \in Nat /\ Len(sent[s]) - taken[s] > 0
            BY <1>0, <2>1 DEF Unread
        <3> QED
            BY <3>1, <3>2
    <2>3. /\ taken' = [taken EXCEPT ![s] = taken[s] + 1]
          /\ moved' = [moved EXCEPT ![s] = moved[s] + 1]
        BY <2>1 DEF SkipHeader
    <2> QED
        BY <1>0, <2>1, <2>2, <2>3 DEF MovedOK
<1>5. CASE UNCHANGED <<moved, taken>>
    <2>1. ASSUME NEW t \in Sessions
          PROVE  /\ moved'[t] <= Len(sent'[t]) /\ taken'[t] <= moved'[t]
                 /\ direct'[t] => moved'[t] = taken'[t]
        <3>1. moved'[t] = moved[t] /\ taken'[t] = taken[t] /\ direct'[t] = direct[t]
            BY <1>1, <1>5 DEF RunsAlone
        <3>2. /\ moved[t] \in Nat /\ moved[t] <= Len(sent[t]) /\ taken[t] <= moved[t]
              /\ direct[t] => moved[t] = taken[t]
            BY DEF MovedOK
        <3>3. Len(sent[t]) \in Nat /\ Len(sent'[t]) \in Nat /\ Len(sent[t]) <= Len(sent'[t])
            BY <1>0, <1>2
        <3> QED
            BY <3>1, <3>2, <3>3
    <2> QED
        BY <1>5, <2>1 DEF MovedOK
<1>6. \/ UNCHANGED <<moved, taken>>
      \/ FrameTooLarge(s) \/ ReadHeader(s) \/ NegativeLength(s) \/ PeekTakes(s) \/ PeekTooLarge(s)
    <2> USE DEF readVars
    <2>1. CASE Upgrade(s) \/ Peer(s) \/ StartCallback(s) \/ ReadHandlerFails(s)
        BY <2>1
           DEF Upgrade, UpgradeFlushes, UpgradeFlushFails, UpgradeInstalls, Peer, PeerStartsFrame,
               PeerSendsHeader, PeerSendsPayload, PeerCloses, StartCallback, ReadHandlerFails
    <2>2. CASE ServeConn(s)
        BY <2>2
           DEF ServeConn, ServeFindsClosed, ServeWaits, ServeReads, ReadHeaderFails,
               ReadHeaderBad, ReadPayload, ReadPayloadFails, PeekWaits
    <2>3. CASE PingPong(s) \/ CloseFrame(s) \/ AssemblerRefuses(s) \/ SingleFrame(s)
               \/ SingleCompressed(s) \/ SingleInflateFails(s) \/ FirstFragment(s)
        BY <2>3
           DEF PingPong, CloseFrame, AssemblerRefuses, SingleFrame, SingleCompressed,
               SingleInflateFails, FirstFragment
    <2>4. CASE MiddleFragment(s) \/ LastFragment(s) \/ LastCompressed(s)
               \/ LastInflateFails(s) \/ MessageReturns(s) \/ MessagePanics(s)
        BY <2>4
           DEF MiddleFragment, LastFragment, LastCompressed, LastInflateFails, MessageReturns,
               MessagePanics
    <2> QED
        BY <2>1, <2>2, <2>3, <2>4 DEF SessionActs, ReadHandler, processFrame
<1> QED
    BY <1>3, <1>4, <1>5, <1>6

(* Sessions alone only move the bytes that their clients sent. *)
LEMMA BytesStep ==
    ASSUME SessionInv, BytesOK, NEW s \in Sessions, SessionActs(s)
    PROVE  BytesOK'
<1>0. /\ MemOK /\ Placed(s) /\ taken[s] \in Nat /\ taken[s] + 1 \in Nat
      /\ mem \in [Bufs -> Seq(Sessions \X Nat)]
    BY DEF SessionInv, RunOK, BytesOK
<1>1. ASSUME pc[s] \in Busy
      PROVE  /\ mem[payload[s].buf] \in Seq(Sessions \X Nat)
             /\ buffer[s] # Nil => Joined(s) \in Seq(Sessions \X Nat)
    <2>1. payload[s].buf \in Bufs /\ (buffer[s] # Nil => buffer[s].buf \in Bufs)
        BY <1>0, <1>1 DEF Placed, Fit, Pooled
    <2>2. mem[payload[s].buf] \in Seq(Sessions \X Nat)
        BY <1>0, <2>1
    <2>3. ASSUME buffer[s] # Nil PROVE Joined(s) \in Seq(Sessions \X Nat)
        <3>1. mem[buffer[s].buf] \in Seq(Sessions \X Nat)
            BY <1>0, <2>1, <2>3
        <3>2. PICK u \in Seq(Sessions \X Nat), v \in Seq(Sessions \X Nat) :
                  u = mem[buffer[s].buf] /\ v = mem[payload[s].buf]
            BY <2>2, <3>1
        <3>3. u \o v \in Seq(Sessions \X Nat)
            OBVIOUS
        <3> QED
            BY <3>2, <3>3 DEF Joined
    <2> QED
        BY <2>2, <2>3
<1>2. ASSUME NEW a, NEW x \in Seq(Sessions \X Nat), mem' = [mem EXCEPT ![a] = x] PROVE BytesOK'
    BY <1>0, <1>2 DEF BytesOK
<1>3. CASE mem' = mem
    BY <1>0, <1>3 DEF BytesOK
<1> USE DEF Goto, memVars, Busy
<1>4. CASE ReadPayload(s) \/ PeekTakes(s)
    <2>1. /\ << <<s, taken[s]>> >> \in Seq(Sessions \X Nat)
          /\ << <<s, taken[s] + 1>> >> \in Seq(Sessions \X Nat)
        BY <1>0
    <2> QED
        BY <1>2, <1>4, <2>1 DEF ReadPayload, PeekTakes
<1>5. CASE SingleCompressed(s) \/ FirstFragment(s)
    <2>1. pc[s] = "process" /\ \E a : mem' = [mem EXCEPT ![a] = mem[payload[s].buf]]
        BY <1>5 DEF SingleCompressed, FirstFragment
    <2> QED
        BY <1>1, <1>2, <2>1
<1>6. CASE MiddleFragment(s) \/ LastFragment(s) \/ LastInflateFails(s)
    <2>1. /\ pc[s] = "process" /\ buffer[s] # Nil
          /\ \E a : mem' = [mem EXCEPT ![a] = Joined(s)]
        BY <1>6 DEF MiddleFragment, LastFragment, LastInflateFails, Continues
    <2> QED
        BY <1>1, <1>2, <2>1
<1>7. CASE LastCompressed(s)
    <2>1. /\ pc[s] = "process" /\ buffer[s] # Nil
          /\ \E a, c : mem' = [mem EXCEPT ![a] = Joined(s), ![c] = Joined(s)]
        BY <1>7 DEF LastCompressed, Continues
    <2>2. PICK x \in Seq(Sessions \X Nat) : x = Joined(s)
        BY <1>1, <2>1
    <2>3. PICK a, c : mem' = [mem EXCEPT ![a] = x, ![c] = x]
        BY <2>1, <2>2
    <2> QED
        BY <1>0, <2>3 DEF BytesOK
<1>8. CASE Upgrade(s) \/ Peer(s) \/ StartCallback(s) \/ ReadHandlerFails(s)
    BY <1>3, <1>8
       DEF Upgrade, UpgradeFlushes, UpgradeFlushFails, UpgradeInstalls, Peer, PeerStartsFrame,
           PeerSendsHeader, PeerSendsPayload, PeerCloses, StartCallback, ReadHandlerFails
<1>9. CASE ServeConn(s)
    BY <1>3, <1>4, <1>9
       DEF ServeConn, ServeFindsClosed, ServeWaits, ServeReads, ReadHeaderFails,
           ReadHeaderBad, FrameTooLarge, ReadHeader, NegativeLength, ReadPayloadFails,
           PeekWaits, PeekTooLarge
<1>10. CASE \/ PingPong(s) \/ CloseFrame(s) \/ AssemblerRefuses(s) \/ SingleFrame(s)
            \/ SingleInflateFails(s) \/ MessageReturns(s) \/ MessagePanics(s)
    BY <1>3, <1>10
       DEF PingPong, CloseFrame, AssemblerRefuses, SingleFrame, SingleInflateFails,
           MessageReturns, MessagePanics
<1> QED
    BY <1>5, <1>6, <1>7, <1>8, <1>9, <1>10 DEF SessionActs, ReadHandler, processFrame

(* Room in the slices that are taken from a pool *)
LEMMA GotRoom ==
    ASSUME NEW p \in Pools, NEW n \in Nat, NEW x \in getPayloadBuffer(p, n)
    PROVE  x.cap \in Nat /\ n <= x.cap
<1>1. x = [buf |-> x.buf, len |-> n, cap |-> IF n > 65536 THEN n ELSE Bucket(n)]
    BY Got
<1>2. x.cap = IF n > 65536 THEN n ELSE Bucket(n)
    BY <1>1
<1> QED
    BY <1>2, BucketOK DEF Buckets

LEMMA LargerOf ==
    ASSUME NEW a \in Nat, NEW b \in Nat
    PROVE  Max({a, b}) \in Nat /\ b <= Max({a, b})
<1>1. a \in Int /\ b \in Int
    OBVIOUS
<1>2. Max({a, b}) \in {a, b} /\ Max({a, b}) >= b
    BY <1>1, MaxOK, Zenon
<1> QED
    BY <1>2

LEMMA GrownRoom ==
    ASSUME SessionInv, NEW s \in Sessions, NEW x \in Appended(s)
    PROVE  x.len <= x.cap
<1>1. /\ buffer[s] \in Slices /\ payload[s] \in Slices /\ pool \in Pools
      /\ Required(s) \in Nat /\ 2 * buffer[s].cap \in Nat
    BY DEF SessionInv, MemOK, Required, Slices
<1>2. CASE Fits(s)
    <2>1. x = [buffer[s] EXCEPT !.len = Required(s)]
        BY <1>2 DEF Appended
    <2>2. x.cap = buffer[s].cap /\ x.len = Required(s)
        BY <1>1, <2>1 DEF Slices
    <2> QED
        BY <1>2, <2>2 DEF Fits
<1>3. CASE ~Fits(s)
    <2>1. PICK k \in Nat, m \in Nat : k = 2 * buffer[s].cap /\ m = Required(s)
        BY <1>1
    <2>2. PICK n \in Nat : n = Max({k, m}) /\ m <= n
        BY LargerOf
    <2>3. PICK y \in getPayloadBuffer(pool, n) : x = [y EXCEPT !.len = m]
        BY <1>3, <2>1, <2>2 DEF Appended
    <2>4. y \in Slices /\ n <= y.cap
        BY <1>1, <2>3, Got, GotRoom
    <2>5. x.cap = y.cap /\ x.len = m /\ y.cap \in Nat
        BY <2>3, <2>4 DEF Slices
    <2> QED
        BY <2>2, <2>4, <2>5
<1> QED
    BY <1>2, <1>3

(* A step gives its session three slices, and none is longer than its array. *)
Roomy(x) == x.len <= x.cap
Fills(s, x, y, z) ==
    /\ payload' = [payload EXCEPT ![s] = x] /\ Roomy(x)
    /\ buffer' = [buffer EXCEPT ![s] = y] /\ Roomy(y)
    /\ full' = [full EXCEPT ![s] = z] /\ Roomy(z)

LEMMA FillsRoom ==
    ASSUME SessionInv, RoomOK, NEW s \in Sessions, \E x, y, z : Fills(s, x, y, z)
    PROVE  RoomOK'
    BY DEF Fills, Roomy, RoomOK, SessionInv, MemOK

LEMMA RoomStep ==
    ASSUME SessionInv, RoomOK, NEW s \in Sessions, SessionActs(s)
    PROVE  RoomOK'
<1>0. /\ MemOK /\ RunOK /\ Placed(s) /\ Counted(s) /\ pool \in Pools
      /\ payload[s] \in Slices /\ Roomy(Nil)
      /\ Roomy(payload[s]) /\ Roomy(buffer[s]) /\ Roomy(full[s])
    BY NilOK DEF SessionInv, MemOK, RoomOK, Roomy, Nil
<1> DEFINE x0 == payload[s]
           y0 == buffer[s]
           z0 == full[s]
<1>1. /\ payload = [payload EXCEPT ![s] = x0] /\ buffer = [buffer EXCEPT ![s] = y0]
      /\ full = [full EXCEPT ![s] = z0]
    BY <1>0, Keeps
<1> USE DEF netVars, readVars, memVars, asmVars, msgVars
<1>2. CASE UNCHANGED <<payload, buffer, full>>
    <2>1. Fills(s, x0, y0, z0)
        BY <1>0, <1>1, <1>2 DEF Fills
    <2> QED
        BY <2>1, FillsRoom
<1>3. CASE Upgrade(s) \/ Peer(s) \/ StartCallback(s) \/ ReadHandlerFails(s)
    BY <1>2, <1>3
       DEF Upgrade, UpgradeFlushes, UpgradeFlushFails, UpgradeInstalls, Peer, PeerStartsFrame,
           PeerSendsHeader, PeerSendsPayload, PeerCloses, StartCallback, ReadHandlerFails
<1>4. CASE \/ ServeFindsClosed(s) \/ ServeWaits(s) \/ ServeReads(s) \/ ReadHeaderFails(s)
           \/ ReadHeaderBad(s) \/ FrameTooLarge(s) \/ NegativeLength(s) \/ ReadPayload(s)
           \/ PeekWaits(s) \/ PeekTooLarge(s)
    BY <1>2, <1>4
       DEF ServeFindsClosed, ServeWaits, ServeReads, ReadHeaderFails, ReadHeaderBad,
           FrameTooLarge, NegativeLength, ReadPayload, PeekWaits, PeekTooLarge
<1>5. CASE \/ ReadPayloadFails(s) \/ PingPong(s) \/ CloseFrame(s) \/ AssemblerRefuses(s)
           \/ SingleInflateFails(s) \/ LastInflateFails(s) \/ MessageReturns(s) \/ MessagePanics(s)
    <2>1. /\ payload' = [payload EXCEPT ![s] = Nil]
          /\ buffer' = buffer \/ buffer' = [buffer EXCEPT ![s] = Nil]
          /\ full' = full \/ full' = [full EXCEPT ![s] = Nil]
        <3>1. CASE \/ ReadPayloadFails(s) \/ PingPong(s) \/ CloseFrame(s) \/ AssemblerRefuses(s)
            BY <3>1 DEF ReadPayloadFails, PingPong, CloseFrame, AssemblerRefuses, FrameDone
        <3>2. CASE SingleInflateFails(s) \/ LastInflateFails(s)
            BY <3>2 DEF SingleInflateFails, LastInflateFails, FrameDone
        <3>3. CASE MessageReturns(s) \/ MessagePanics(s)
            BY <3>3 DEF MessageReturns, MessagePanics, FrameDone
        <3> QED
            BY <1>5, <3>1, <3>2, <3>3
    <2>2. PICK y \in {y0, Nil} : buffer' = [buffer EXCEPT ![s] = y] /\ Roomy(y)
        BY <1>0, <1>1, <2>1
    <2>3. PICK z \in {z0, Nil} : full' = [full EXCEPT ![s] = z] /\ Roomy(z)
        BY <1>0, <1>1, <2>1
    <2>4. Fills(s, Nil, y, z)
        BY <1>0, <2>1, <2>2, <2>3 DEF Fills
    <2> QED
        BY <2>4, FillsRoom
<1>6. CASE ReadHeader(s)
    <2>1. PICK n \in Nat : n = NextFrame(s).len
        BY <1>0, <1>6, NextOK DEF ReadHeader
    <2>2. PICK x \in getPayloadBuffer(pool, n) :
              payload' = [payload EXCEPT ![s] = x] /\ UNCHANGED <<buffer, full>>
        BY <1>6, <2>1 DEF ReadHeader
    <2>3. Roomy(x)
        BY <1>0, <2>2, Got, GotRoom DEF Roomy
    <2>4. Fills(s, x, y0, z0)
        BY <1>0, <1>1, <2>2, <2>3 DEF Fills
    <2> QED
        BY <2>4, FillsRoom
<1>7. CASE PeekTakes(s)
    <2>0. Unread(s) > 0
        BY <1>7 DEF PeekTakes, WholeFrame
    <2>1. PICK n \in Nat : n = Max({0, NextFrame(s).len})
        <3>1. PICK l \in Int : l = NextFrame(s).len
            BY <1>0, <2>0, NextOK
        <3>2. Max({0, l}) \in {0, l} /\ Max({0, l}) >= 0
            BY MaxOK
        <3> QED
            BY <3>1, <3>2
    <2> DEFINE x == [buf |-> Input[s], len |-> n, cap |-> n]
    <2>2. payload' = [payload EXCEPT ![s] = x] /\ UNCHANGED <<buffer, full>>
        BY <1>7, <2>1 DEF PeekTakes
    <2>3. Roomy(x)
        BY DEF Roomy
    <2> HIDE DEF x
    <2>4. Fills(s, x, y0, z0)
        BY <1>0, <1>1, <2>2, <2>3 DEF Fills
    <2> QED
        BY <2>4, FillsRoom
<1>8. CASE SingleFrame(s)
    <2>1. full' = [full EXCEPT ![s] = x0] /\ UNCHANGED <<payload, buffer>>
        BY <1>8 DEF SingleFrame, CallOnMessage
    <2>2. Fills(s, x0, y0, x0)
        BY <1>0, <1>1, <2>1 DEF Fills
    <2> QED
        BY <2>2, FillsRoom
<1>9. CASE SingleCompressed(s)
    <2>1. PICK z \in DecompressData(pool, payload[s]) :
              full' = [full EXCEPT ![s] = z] /\ UNCHANGED <<payload, buffer>>
        BY <1>9 DEF SingleCompressed, CallOnMessage
    <2>2. Roomy(z)
        BY <1>0, <2>1, Inflated DEF Roomy
    <2>3. Fills(s, x0, y0, z)
        BY <1>0, <1>1, <2>1, <2>2 DEF Fills
    <2> QED
        BY <2>3, FillsRoom
<1>10. CASE FirstFragment(s)
    <2>1. PICK k \in Nat, l \in Nat : k = 512 /\ l = payload[s].len
        BY <1>0 DEF Slices
    <2>2. PICK n \in Nat : n = Max({k, l}) /\ l <= n
        BY LargerOf
    <2>3. PICK x \in getPayloadBuffer(pool, n) : buffer' = [buffer EXCEPT ![s] = [x EXCEPT !.len = l]]
        BY <1>10, <2>1, <2>2, ZenonT(30) DEF FirstFragment
    <2>4. x \in Slices /\ n <= x.cap
        BY <1>0, <2>3, Got, GotRoom
    <2>5. PICK y : y = [x EXCEPT !.len = l]
        OBVIOUS
    <2>6. Roomy(y)
        BY <2>2, <2>4, <2>5 DEF Slices, Roomy
    <2>7. payload' = [payload EXCEPT ![s] = Nil] /\ full' = full
        BY <1>10 DEF FirstFragment, FrameDone
    <2>8. Fills(s, Nil, y, z0)
        BY <1>0, <1>1, <2>3, <2>5, <2>6, <2>7 DEF Fills
    <2> QED
        BY <2>8, FillsRoom
<1>11. CASE MiddleFragment(s)
    <2>1. PICK y \in Appended(s) : buffer' = [buffer EXCEPT ![s] = y]
        BY <1>11 DEF MiddleFragment
    <2>2. payload' = [payload EXCEPT ![s] = Nil] /\ full' = full /\ Roomy(y)
        BY <1>11, <2>1, GrownRoom DEF MiddleFragment, FrameDone, Roomy
    <2>3. Fills(s, Nil, y, z0)
        BY <1>0, <1>1, <2>1, <2>2 DEF Fills
    <2> QED
        BY <2>3, FillsRoom
<1>12. CASE LastFragment(s)
    <2>1. PICK z \in Appended(s) : full' = [full EXCEPT ![s] = z]
        BY <1>12 DEF LastFragment, CallOnMessage
    <2>2. payload' = payload /\ buffer' = [buffer EXCEPT ![s] = Nil] /\ Roomy(z)
        BY <1>12, <2>1, GrownRoom DEF LastFragment, Roomy
    <2>3. Fills(s, x0, Nil, z)
        BY <1>0, <1>1, <2>1, <2>2 DEF Fills
    <2> QED
        BY <2>3, FillsRoom
<1>13. CASE LastCompressed(s)
    <2>1. PICK x \in Appended(s) : \E z \in DecompressData(AfterAppend(s, x), x) :
              full' = [full EXCEPT ![s] = z]
        BY <1>13 DEF LastCompressed, CallOnMessage
    <2>2. PICK z \in DecompressData(AfterAppend(s, x), x) : full' = [full EXCEPT ![s] = z]
        BY <2>1
    <2>3. /\ payload' = payload /\ buffer' = [buffer EXCEPT ![s] = Nil] /\ Continues(s)
        BY <1>13 DEF LastCompressed
    <2>4. x \in Slices /\ AfterAppend(s, x) \in Pools
        BY <1>0, <2>1, <2>3, Grown
    <2>5. Roomy(z)
        BY <2>2, <2>4, Inflated DEF Roomy
    <2>6. Fills(s, x0, Nil, z)
        BY <1>0, <1>1, <2>2, <2>3, <2>5 DEF Fills
    <2> QED
        BY <2>6, FillsRoom
<1> QED
    BY <1>3, <1>4, <1>5, <1>6, <1>7, <1>8, <1>9, <1>10, <1>11, <1>12, <1>13
       DEF SessionActs, ReadHandler, ServeConn, processFrame

TypeInv == SessionInv /\ Exclusive /\ CloseOK /\ Leaving /\ NetOK /\ MovedOK /\ BytesOK /\ RoomOK

(* TypeOK: every variable has its type for any constants; in particular no  *)
(* slice that getPayloadBuffer, the Assembler or DecompressData returns is  *)
(* longer than its array, and no header is taken that has not arrived.      *)
THEOREM TypeCorrect == Spec => []TypeOK
<1>1. Init => TypeInv
    <2> SUFFICES ASSUME Init PROVE TypeInv
        OBVIOUS
    <2>1. SessionInv /\ Exclusive
        BY SessionInvInit
    <2>2. CloseOK /\ Leaving /\ NetOK
        BY DEF Init, CloseOK, Leaving, NetOK, Pcs
    <2>3. MovedOK
        BY DEF Init, MovedOK
    <2>4. BytesOK
        BY DEF Init, PoolInit, BytesOK
    <2>5. RoomOK
        BY DEF Init, RoomOK, Nil
    <2> QED
        BY <2>1, <2>2, <2>3, <2>4, <2>5 DEF TypeInv
<1>2. TypeInv /\ [Next]_vars => TypeInv'
    <2> SUFFICES ASSUME TypeInv, [Next]_vars PROVE TypeInv'
        OBVIOUS
    <2>1. CASE UNCHANGED vars
        <3> USE <2>1 DEF TypeInv, vars, netVars, readVars, memVars, asmVars, msgVars
        <3>1. SessionInv' /\ Exclusive'
            BY DEF SessionInv, Exclusive, MemOK, RunOK, HistOK, Placed, Fit, Counted, SizesOK,
                   Stable, TooLarge, Pooled, Count
        <3>2. CloseOK' /\ Leaving' /\ NetOK' /\ MovedOK' /\ BytesOK' /\ RoomOK'
            BY DEF CloseOK, Leaving, NetOK, MovedOK, BytesOK, RoomOK
        <3> QED
            BY <3>1, <3>2
    <2>2. ASSUME NEW s \in Sessions, SessionActs(s) PROVE TypeInv'
        BY <2>2, SessionInvStep, CloseStep, NetStep, MovedStep, BytesStep, RoomStep DEF TypeInv
    <2> QED
        BY <2>1, <2>2 DEF Next, SessionActs
<1>3. TypeInv => TypeOK
    <2> SUFFICES ASSUME TypeInv PROVE TypeOK
        OBVIOUS
    <2>1. MemOK /\ RunOK /\ CloseOK /\ NetOK /\ MovedOK /\ BytesOK /\ RoomOK
        BY DEF TypeInv, SessionInv
    <2>2. ASSUME NEW s \in Sessions
          PROVE  /\ sent[s] \in Seq(Frames) /\ moved[s] \in 0..Len(sent[s])
                 /\ taken[s] \in 0..moved[s]
        <3>1. /\ sent[s] \in Seq(Frames) /\ Len(sent[s]) \in Nat /\ taken[s] \in Nat
              /\ moved[s] \in Nat /\ moved[s] <= Len(sent[s]) /\ taken[s] <= moved[s]
            BY <2>1 DEF RunOK, MovedOK
        <3> QED
            BY <3>1
    <2>3. \A x \in {payload, buffer, full} : \A s \in Sessions :
              x[s] \in Slices /\ x[s].len <= x[s].cap
        BY <2>1 DEF MemOK, RoomOK
    <2>4. pool \in [Bufs -> Nat]
        BY <2>1 DEF MemOK, Pools
    <2> QED
        BY <2>1, <2>2, <2>3, <2>4 DEF MemOK, RunOK, CloseOK, NetOK, BytesOK, TypeOK
<1> QED
    BY <1>1, <1>2, <1>3, PTL DEF Spec
=============================================================================
