--------------------------- MODULE WsTrafficProofs ---------------------------
(* Machine-checked theorems about sessions and writers that share the       *)
(* payload pools: the specification of module WsTraffic, for any number of  *)
(* sessions, writers and arrays.                                            *)
EXTENDS WsTraffic, WsSessionProofs

(***************************************************************************)
(* What a writer relies on at each place of its call: its source is the    *)
(* message of its own session, or an array of the application's; a         *)
(* compressed or masked payload is in a pooled array that is the writer's. *)
(***************************************************************************)
Wpcs == {"idle", "compress", "header", "mask", "payload"}
Jobs == [src : Slices, text : Seq(Tokens)]
WriterOK ==
    /\ wpc \in [Writers -> Wpcs] /\ job \in [Writers -> Jobs] /\ out \in [Writers -> Slices]
    /\ lost \in BOOLEAN

Owns(g) == Compressed(g) \/ (wpc[g] = "payload" /\ MasksFor[g])
Ready(g) ==
    /\ wpc[g] = "idle" /\ Compressed(g) => out[g] = Nil
    /\ wpc[g] = "compress" => Compressed(g)
    /\ wpc[g] = "mask" => MasksFor[g]
    /\ wpc[g] # "idle" =>
          IF Compressed(g)
          THEN out[g] \in Slices /\ Pooled(out[g]) /\ (wpc[g] # "compress" => out[g].len > 0)
          ELSE IF Owns(g) THEN Pooled(out[g]) ELSE out[g] = job[g].src
Sourced(g) ==
    wpc[g] # "idle" =>
        IF g \in Sessions THEN pc[g] = "message" /\ job[g].src = full[g]
                          ELSE job[g].src \in Broadcast

(* The bytes: the source is what the call got, and what will be written is  *)
(* that, encoded as far as the call has come.                               *)
Body(g) ==
    LET text == IF Compressed(g) THEN Deflated(job[g].text) ELSE job[g].text
    IN  IF MasksFor[g] THEN Masked(text) ELSE text
Faithful(g) ==
    /\ wpc[g] # "idle" => mem[job[g].src.buf] = job[g].text
    /\ wpc[g] \in {"compress", "header", "mask"} /\ Compressed(g) /\ out[g].len > 0 =>
          mem[out[g].buf] = Deflated(job[g].text)
    /\ wpc[g] = "payload" => mem[out[g].buf] = Body(g)

(* How often a writer owns an array, and where its step may write *)
Hold(g, b) == One(Owns(g) /\ out[g].buf = b)
Reach(g, b) == pool[b] > 0 \/ Hold(g, b) > 0

WriterInv ==
    /\ WriterOK
    /\ \A g \in Writers : Ready(g) /\ Sourced(g) /\ Faithful(g)
Disjoint ==
    \A b \in Bufs : Home[b] # -1 => \A g \in Writers :
        /\ pool[b] + Hold(g, b) <= 1
        /\ \A h \in Writers : g # h => Hold(g, b) = 0 \/ Hold(h, b) = 0
        /\ \A s \in Sessions : Hold(g, b) = 0 \/ Count(s, b) = 0
TrafficInv == SessionInv /\ Exclusive /\ WriterInv /\ Disjoint

LEMMA HoldNat ==
    ASSUME WriterInv, NEW g \in Writers, NEW b \in Bufs
    PROVE  /\ Hold(g, b) \in {0, 1} /\ (Hold(g, b) > 0 => Home[b] # -1)
           /\ Hold(g, b) > 0 => wpc[g] # "idle"
<1>1. Hold(g, b) \in {0, 1} /\ (Hold(g, b) > 0 <=> Owns(g) /\ out[g].buf = b)
    BY DEF Hold, One
<1>2. Ready(g) /\ wpc[g] \in Wpcs
    BY DEF WriterInv, WriterOK
<1>3. ASSUME Owns(g), out[g].buf = b PROVE Home[b] # -1 /\ wpc[g] # "idle"
    <2>1. wpc[g] # "idle"
        BY <1>2, <1>3, NilOK DEF Ready, Owns
    <2> QED
        BY <1>2, <1>3, <2>1 DEF Ready, Pooled, Owns
<1> QED
    BY <1>1, <1>3

(* An array a writer reads is written by no other writer, and by no session *)
(* other than the one whose message it is.                                  *)
LEMMA ReadsSafely ==
    ASSUME TrafficInv, NEW g \in Writers, wpc[g] # "idle",
           NEW b \in Bufs, b = job[g].src.buf \/ Hold(g, b) > 0
    PROVE  /\ \A h \in Writers \ {g} : ~Reach(h, b)
           /\ b = job[g].src.buf => ~Reach(g, b)
           /\ \A s \in Sessions \ {g} : ~Mine(s, b)
<1>1. /\ SessionInv /\ Exclusive /\ WriterInv /\ Disjoint /\ Sourced(g)
      /\ pool \in Pools /\ pool[b] \in Nat
    BY DEF TrafficInv, WriterInv, SessionInv, MemOK, Pools
<1>2. \A h \in Writers : Hold(h, b) \in {0, 1} /\ (Hold(h, b) > 0 => Home[b] # -1)
    BY <1>1, HoldNat
<1>3. \A s \in Sessions : Count(s, b) \in Nat
    BY CountNat
<1>4. CASE b # job[g].src.buf
    <2>1. /\ Home[b] # -1 /\ pool[b] = 0 /\ \A h \in Writers \ {g} : Hold(h, b) = 0
          /\ \A s \in Sessions : Count(s, b) = 0 /\ b # Input[s]
        BY <1>1, <1>2, <1>3, <1>4, SessionAssumption DEF Disjoint
    <2> QED
        BY <1>4, <2>1 DEF Reach, Mine
<1>5. CASE b = job[g].src.buf /\ g \in Sessions
    <2>1. pc[g] = "message" /\ b = full[g].buf /\ Placed(g)
        BY <1>1, <1>5 DEF Sourced, SessionInv
    <2>2. Count(g, b) > 0
        BY <2>1 DEF Placed, Fit, Count, Share, One
    <2>3. \A s \in Sessions \ {g} : ~Mine(s, b) /\ pool[b] = 0
        BY <1>1, <1>5, <2>2, Apart
    <2>4. pool[b] = 0
        BY <1>1, <1>3, <1>5, <2>2, Once
    <2>5. \A h \in Writers : Hold(h, b) = 0
        BY <1>1, <1>2, <1>3, <1>5, <2>2 DEF Disjoint
    <2> QED
        BY <2>3, <2>4, <2>5 DEF Reach
<1>6. CASE b = job[g].src.buf /\ g \notin Sessions
    <2>1. Home[b] = -1 /\ \A s \in Sessions : b # Input[s]
        BY <1>1, <1>6, TrafficAssumption DEF Sourced
    <2>2. pool[b] = 0 /\ \A h \in Writers : Hold(h, b) = 0
        BY <1>1, <1>2, <2>1 DEF Pools
    <2>3. \A s \in Sessions : Count(s, b) = 0
        <3>1. ASSUME NEW s \in Sessions PROVE Count(s, b) = 0
            <4>1. Placed(s)
                BY <1>1 DEF SessionInv
            <4>2. payload[s].buf # b /\ buffer[s].buf # b /\ ~(reassembled[s] /\ full[s].buf = b)
                BY <2>1, <4>1, NilOK DEF Placed, Fit, Pooled
            <4> QED
                BY <4>2 DEF Count, Share, One
        <3> QED
            BY <3>1
    <2> QED
        BY <2>1, <2>2, <2>3 DEF Reach, Mine
<1> QED
    BY <1>4, <1>5, <1>6

LEMMA SourceOK ==
    ASSUME TrafficInv, NEW g \in Writers, wpc[g] # "idle"
    PROVE  job[g].src.buf \in Bufs /\ ~Reach(g, job[g].src.buf)
<1>1. Sourced(g)
    BY DEF TrafficInv, WriterInv
<1>2. job[g].src.buf \in Bufs
    <2>1. CASE g \in Sessions
        <3>1. Placed(g)
            BY <2>1 DEF TrafficInv, SessionInv
        <3> QED
            BY <1>1, <2>1, <3>1 DEF Sourced, Placed, Fit, Busy, Pooled
    <2>2. CASE g \notin Sessions
        BY <1>1, <2>2, TrafficAssumption DEF Sourced
    <2> QED
        BY <2>1, <2>2
<1> QED
    BY <1>2, ReadsSafely

(* A writer that does not step, and whose arrays nobody writes to. *)
Rests(g) == wpc'[g] = wpc[g] /\ job'[g] = job[g] /\ out'[g] = out[g]
LEMMA Steady ==
    ASSUME TrafficInv, NEW g \in Writers, Rests(g),
           wpc[g] # "idle" =>
               \A b \in Bufs : b = job[g].src.buf \/ Hold(g, b) > 0 => mem'[b] = mem[b]
    PROVE  Ready(g)' /\ Faithful(g)' /\ \A b \in Bufs : Hold(g, b)' = Hold(g, b)
<1>1. Ready(g) /\ Sourced(g) /\ Faithful(g) /\ wpc[g] \in Wpcs
    BY DEF TrafficInv, WriterInv, WriterOK
<1>2. Compressed(g)' = Compressed(g) /\ Owns(g)' = Owns(g) /\ Body(g)' = Body(g)
    BY DEF Rests, Compressed, Owns, Body
<1>3. Ready(g)'
    BY <1>1, <1>2 DEF Ready, Rests, Pooled
<1>4. \A b \in Bufs : Hold(g, b)' = Hold(g, b)
    BY <1>2 DEF Hold, Rests
<1>5. ASSUME wpc[g] # "idle"
      PROVE  /\ mem'[job[g].src.buf] = mem[job[g].src.buf]
             /\ wpc[g] = "payload" \/ Compressed(g) => mem'[out[g].buf] = mem[out[g].buf]
    <2>1. job[g].src.buf \in Bufs
        BY <1>5, SourceOK
    <2>2. CASE Owns(g)
        <3>1. out[g].buf \in Bufs
            BY <1>1, <1>5, <2>2 DEF Ready, Pooled
        <3>2. Hold(g, out[g].buf) > 0
            BY <2>2 DEF Hold, One
        <3> QED
            BY <1>5, <2>1, <3>1, <3>2
    <2>3. CASE ~Owns(g)
        <3>1. ~Compressed(g) /\ out[g] = job[g].src
            BY <1>1, <1>5, <2>3 DEF Ready, Owns
        <3> QED
            BY <1>5, <2>1, <3>1
    <2> QED
        BY <2>2, <2>3
<1>6. Faithful(g)'
    BY <1>1, <1>2, <1>5 DEF Faithful, Rests
<1> QED
    BY <1>3, <1>4, <1>6

(* A step of a session: it waits for its own call of WriteMessage. *)
LEMMA SessionSide ==
    ASSUME TrafficInv, NEW s \in Sessions, SessionStep(s)
    PROVE  TrafficInv'
<1>1. /\ SessionActs(s) /\ wpc[s] = "idle" /\ UNCHANGED <<wpc, job, out, lost>>
      /\ SessionInv /\ Exclusive /\ WriterInv /\ Disjoint /\ s \in Writers
    BY TrafficAssumption DEF SessionStep, SessionActs, writerVars, TrafficInv
<1>2. SessionInv' /\ Exclusive'
    BY <1>1, SessionInvStep
<1>3. MemEffect(s) /\ RunsAlone(s)
    BY <1>1, MemStep, RunStep DEF SessionInv
<1>4. ASSUME NEW g \in Writers
      PROVE  Ready(g)' /\ Faithful(g)' /\ \A b \in Bufs : Hold(g, b)' = Hold(g, b)
    <2>1. Rests(g)
        BY <1>1 DEF Rests
    <2>2. ASSUME wpc[g] # "idle", NEW b \in Bufs, b = job[g].src.buf \/ Hold(g, b) > 0
          PROVE  mem'[b] = mem[b]
        <3>1. ~Mine(s, b)
            BY <1>1, <2>2, ReadsSafely
        <3> QED
            BY <1>3, <3>1 DEF MemEffect, Written
    <2> QED
        BY <2>1, <2>2, Steady
<1>5. \A g \in Writers : Sourced(g)'
    BY <1>1, <1>3 DEF WriterInv, Sourced, MemEffect, HoldsAlone, RunsAlone
<1>6. Disjoint'
    <2>1. ASSUME NEW b \in Bufs, Home[b] # -1, NEW g \in Writers
          PROVE  /\ pool'[b] + Hold(g, b)' <= 1
                 /\ \A h \in Writers : g # h => Hold(g, b)' = 0 \/ Hold(h, b)' = 0
                 /\ \A t \in Sessions : Hold(g, b)' = 0 \/ Count(t, b)' = 0
        <3>1. /\ pool[b] \in Nat /\ pool'[b] \in Nat /\ pool'[b] <= 1 /\ Hold(g, b) \in {0, 1}
              /\ \A t \in Sessions : Count(t, b) \in Nat /\ Count(t, b)' \in Nat
            BY <1>1, <1>2, <2>1, HoldNat DEF SessionInv, MemOK, Pools, Exclusive, Count, Share, One
        <3>2. \A t \in Sessions \ {s} : Count(t, b)' = Count(t, b)
            BY <1>3 DEF MemEffect, HoldsAlone, Count
        <3>3. pool'[b] + Count(s, b)' <= pool[b] + Count(s, b)
            BY <1>3, <2>1 DEF MemEffect, Conserved
        <3>4. /\ pool[b] + Hold(g, b) <= 1
              /\ \A h \in Writers : g # h => Hold(g, b) = 0 \/ Hold(h, b) = 0
              /\ \A t \in Sessions : Hold(g, b) = 0 \/ Count(t, b) = 0
            BY <1>1, <2>1 DEF Disjoint
        <3>5. \A h \in Writers : Hold(h, b)' = Hold(h, b)
            BY <1>4
        <3>6. CASE Hold(g, b) = 0
            BY <3>1, <3>5, <3>6
        <3>7. CASE Hold(g, b) = 1
            BY <3>1, <3>2, <3>3, <3>4, <3>5, <3>7
        <3> QED
            BY <3>1, <3>6, <3>7
    <2> QED
        BY <2>1 DEF Disjoint
<1>7. WriterOK'
    BY <1>1 DEF WriterInv, WriterOK
<1> QED
    BY <1>2, <1>4, <1>5, <1>6, <1>7 DEF TrafficInv, WriterInv

-----------------------------------------------------------------------------
(* What a step of a writer does: the same balance as a session's. *)
Balanced(g) ==
    \A b \in Bufs :
        /\ Home[b] # -1 => pool'[b] + Hold(g, b)' <= pool[b] + Hold(g, b)
        /\ Home[b] > 0 /\ ~lost' => pool'[b] + Hold(g, b)' = pool[b] + Hold(g, b)
WriterEffect(g) ==
    /\ UNCHANGED sessionVars /\ \A h \in Writers \ {g} : Rests(h)
    /\ pool' \in Pools /\ mem' \in [Bufs -> Seq(Tokens)] /\ WriterOK'
    /\ Ready(g)' /\ Sourced(g)' /\ Faithful(g)'
    /\ Balanced(g)
    /\ \A b \in Bufs : mem'[b] # mem[b] => Reach(g, b)

LEMMA WriterSide ==
    ASSUME TrafficInv, NEW g \in Writers, WriterEffect(g)
    PROVE  TrafficInv'
<1>1. /\ SessionInv /\ Exclusive /\ WriterInv /\ Disjoint
      /\ UNCHANGED <<direct, pc, sent, taken, payload, buffer, lastOpCode, full, reassembled,
                     delivered>>
    BY DEF TrafficInv, WriterEffect, sessionVars, netVars, readVars, asmVars, msgVars
<1>2. \A s \in Sessions, b \in Bufs : Count(s, b)' = Count(s, b) /\ Count(s, b) \in Nat
    BY <1>1 DEF Count, Share, One
<1>3. SessionInv'
    <2>1. MemOK' /\ RunOK' /\ HistOK'
        BY <1>1 DEF SessionInv, MemOK, RunOK, HistOK, WriterEffect
    <2>2. ASSUME NEW s \in Sessions PROVE Placed(s)' /\ Counted(s)' /\ SizesOK(s)' /\ Stable(s)'
        <3>1. Placed(s) /\ Counted(s) /\ SizesOK(s) /\ Stable(s)
            BY <1>1 DEF SessionInv
        <3>2. Placed(s)' /\ Counted(s)' /\ SizesOK(s)'
            BY <1>1, <3>1 DEF Placed, Fit, Counted, SizesOK, TooLarge, Pooled
        <3>3. ASSUME pc[s] = "message" PROVE mem'[full[s].buf] = mem[full[s].buf]
            <4>1. PICK b \in Bufs : b = full[s].buf /\ Count(s, b) > 0
                BY <3>1, <3>3 DEF Placed, Fit, Busy, Pooled, Count, Share, One
            <4>2. pool[b] = 0
                BY <1>1, <1>2, <4>1, Once
            <4>3. Hold(g, b) = 0
                BY <1>1, <1>2, <4>1, HoldNat DEF Disjoint
            <4> QED
                BY <4>1, <4>2, <4>3 DEF WriterEffect, Reach
        <3> QED
            BY <1>1, <3>1, <3>2, <3>3 DEF Stable
    <2> QED
        BY <2>1, <2>2 DEF SessionInv
<1>4. ASSUME NEW h \in Writers \ {g}
      PROVE  Ready(h)' /\ Faithful(h)' /\ Sourced(h)' /\ \A b \in Bufs : Hold(h, b)' = Hold(h, b)
    <2>1. Rests(h)
        BY DEF WriterEffect
    <2>2. ASSUME wpc[h] # "idle", NEW b \in Bufs, b = job[h].src.buf \/ Hold(h, b) > 0
          PROVE  mem'[b] = mem[b]
        <3>1. ~Reach(g, b)
            BY <2>2, ReadsSafely
        <3> QED
            BY <3>1 DEF WriterEffect
    <2>3. Sourced(h)'
        BY <1>1, <2>1 DEF WriterInv, Sourced, Rests
    <2> QED
        BY <2>1, <2>2, <2>3, Steady
<1>5. WriterInv'
    BY <1>4 DEF WriterInv, WriterEffect
<1>6. ASSUME NEW b \in Bufs, Home[b] # -1
      PROVE  /\ pool'[b] <= 1 /\ \A s \in Sessions : pool'[b] + Count(s, b)' <= 1
             /\ pool'[b] + Hold(g, b)' <= 1
             /\ \A h \in Writers \ {g} :
                   /\ pool'[b] + Hold(h, b)' <= 1
                   /\ Hold(g, b)' = 0 \/ Hold(h, b)' = 0
             /\ \A s \in Sessions : Hold(g, b)' = 0 \/ Count(s, b)' = 0
    <2>1. pool[b] \in Nat /\ pool'[b] \in Nat
        BY <1>1, <1>3 DEF SessionInv, MemOK, Pools
    <2>2. Hold(g, b) \in {0, 1} /\ Hold(g, b)' \in {0, 1}
        BY DEF Hold, One
    <2>3. pool'[b] + Hold(g, b)' <= pool[b] + Hold(g, b)
        BY <1>6 DEF WriterEffect, Balanced
    <2>4. pool[b] + Hold(g, b) <= 1
        BY <1>1, <1>6 DEF Disjoint
    <2>5. ASSUME NEW s \in Sessions
          PROVE  pool'[b] + Count(s, b)' <= 1 /\ (Hold(g, b)' = 0 \/ Count(s, b)' = 0)
        <3>1. pool[b] + Count(s, b) <= 1 /\ (Hold(g, b) = 0 \/ Count(s, b) = 0)
            BY <1>1, <1>6 DEF Exclusive, Disjoint
        <3>2. Count(s, b)' = Count(s, b) /\ Count(s, b) \in Nat
            BY <1>2
        <3> QED
            BY <2>1, <2>2, <2>3, <2>4, <3>1, <3>2
    <2>6. ASSUME NEW h \in Writers \ {g}
          PROVE  pool'[b] + Hold(h, b)' <= 1 /\ (Hold(g, b)' = 0 \/ Hold(h, b)' = 0)
        <3>1. pool[b] + Hold(h, b) <= 1 /\ (Hold(g, b) = 0 \/ Hold(h, b) = 0)
            BY <1>1, <1>6 DEF Disjoint
        <3>2. Hold(h, b)' = Hold(h, b) /\ Hold(h, b) \in {0, 1}
            BY <1>4 DEF Hold, One
        <3> QED
            BY <2>1, <2>2, <2>3, <2>4, <3>1, <3>2
    <2> QED
        BY <2>1, <2>2, <2>3, <2>4, <2>5, <2>6
<1>7. Exclusive'
    <2>1. \A b \in Bufs : Home[b] # -1 =>
              \A s, t \in Sessions : s # t => Count(s, b)' = 0 \/ Count(t, b)' = 0
        BY <1>1, <1>2 DEF Exclusive
    <2> QED
        BY <1>6, <2>1 DEF Exclusive
<1>8. Disjoint'
    <2>1. ASSUME NEW b \in Bufs, Home[b] # -1, NEW h \in Writers
          PROVE  /\ pool'[b] + Hold(h, b)' <= 1
                 /\ \A i \in Writers : h # i => Hold(h, b)' = 0 \/ Hold(i, b)' = 0
                 /\ \A s \in Sessions : Hold(h, b)' = 0 \/ Count(s, b)' = 0
        <3>1. CASE h = g
            BY <1>6, <2>1, <3>1
        <3>2. CASE h # g
            <4>1. /\ pool'[b] + Hold(h, b)' <= 1 /\ (Hold(g, b)' = 0 \/ Hold(h, b)' = 0)
                BY <1>6, <2>1, <3>2
            <4>2. ASSUME NEW i \in Writers \ {g}, h # i PROVE Hold(h, b)' = 0 \/ Hold(i, b)' = 0
                BY <1>1, <1>4, <2>1, <3>2, <4>2 DEF Disjoint
            <4>3. ASSUME NEW s \in Sessions PROVE Hold(h, b)' = 0 \/ Count(s, b)' = 0
                BY <1>1, <1>2, <1>4, <2>1, <3>2 DEF Disjoint
            <4> QED
                BY <4>1, <4>2, <4>3
        <3> QED
            BY <3>1, <3>2
    <2> QED
        BY <2>1 DEF Disjoint
<1> QED
    BY <1>3, <1>5, <1>7, <1>8 DEF TrafficInv

-----------------------------------------------------------------------------
(* Each action of a writer has that effect. *)
LEMMA ViewOK ==
    ASSUME NEW x \in Slices
    PROVE  x.len \in Nat
    BY DEF Slices

LEMMA MaxNat ==
    ASSUME NEW k \in Nat, NEW m \in Nat
    PROVE  Max({k, m}) \in Nat
<1>1. k \in Int /\ m \in Int
    OBVIOUS
<1>2. Max({k, m}) \in {k, m}
    BY <1>1, MaxOK, Zenon
<1> QED
    BY <1>2

LEMMA NewLength ==
    ASSUME NEW x \in Slices, NEW n \in Nat
    PROVE  /\ [x EXCEPT !.len = n] \in Slices /\ [x EXCEPT !.len = n].buf = x.buf
           /\ [x EXCEPT !.len = n].cap = x.cap /\ [x EXCEPT !.len = n].len = n
    BY DEF Slices

LEMMA BeginStep ==
    ASSUME TrafficInv, NEW g \in Writers, NEW src \in Slices, src.buf \in Bufs, BeginWrite(g, src),
           UNCHANGED sessionVars,
           IF g \in Sessions THEN pc[g] = "message" /\ src = full[g] ELSE src \in Broadcast
    PROVE  WriterEffect(g)
<1>1. /\ pool \in Pools /\ mem \in [Bufs -> Seq(Tokens)] /\ WriterOK /\ Ready(g)
      /\ wpc[g] = "idle" /\ mem' = mem /\ lost' = lost
      /\ UNCHANGED <<pc, full>>
    BY DEF TrafficInv, SessionInv, MemOK, WriterInv, BeginWrite, GotoW, sessionVars, msgVars
<1>2. PICK text \in Seq(Tokens) : text = mem[src.buf]
    BY <1>1
<1>3. PICK j \in Jobs : /\ j = [src |-> src, text |-> text] /\ j.src = src /\ j.text = text
                        /\ job' = [job EXCEPT ![g] = j]
    <2>1. [src |-> src, text |-> text] \in Jobs
        BY DEF Jobs
    <2> QED
        BY <1>2, <2>1 DEF BeginWrite
<1>4. \A b \in Bufs : Hold(g, b) = 0
    BY <1>1, HoldNat DEF TrafficInv
<1>5. job'[g] = j /\ (Compressed(g)' <=> Compresses(src))
    BY <1>1, <1>3 DEF WriterOK, Compressed
<1>6. CASE Compresses(src)
    <2>1. PICK n \in Nat : n = Max({512, src.len})
        <3>1. PICK k \in Nat, m \in Nat : k = 512 /\ m = src.len
            BY ViewOK
        <3>2. Max({k, m}) \in Nat
            BY MaxNat
        <3> QED
            BY <3>1, <3>2
    <2>2. PICK x \in getPayloadBuffer(pool, n) :
              /\ out' = [out EXCEPT ![g] = [x EXCEPT !.len = 0]]
              /\ pool' = Without(pool, [x EXCEPT !.len = 0])
              /\ wpc' = [wpc EXCEPT ![g] = "compress"]
        BY <1>6, <2>1 DEF BeginWrite, GotoW
    <2>3. Pooled(x) /\ pool[x.buf] > 0 /\ x \in Slices
        BY <1>1, <2>2, Got
    <2>4. PICK y \in Slices :
              y = [x EXCEPT !.len = 0] /\ y.buf = x.buf /\ y.cap = x.cap /\ y.len = 0
        BY <2>3, NewLength
    <2>5. Pooled(y) /\ y.buf \in Bufs /\ y \in Slices
        BY <2>3, <2>4 DEF Pooled, Slices
    <2>6. pool' \in Pools /\ \A b \in Bufs : pool'[b] = pool[b] - One(b = y.buf)
        <3>1. pool' = Without(pool, y) /\ pool[y.buf] > 0
            BY <2>2, <2>3, <2>4
        <3> QED
            BY <1>1, <2>5, <3>1, TakeOne
    <2>7. WriterOK' /\ wpc'[g] = "compress" /\ out'[g] = y
        BY <1>1, <1>3, <2>2, <2>4, <2>5 DEF WriterOK, Wpcs
    <2>8. Ready(g)'
        BY <1>5, <1>6, <2>4, <2>5, <2>7 DEF Ready
    <2>9. Sourced(g)' /\ Faithful(g)'
        BY <1>1, <1>2, <1>3, <1>5, <2>4, <2>7 DEF Sourced, Faithful
    <2>10. Balanced(g)
        <3>1. ASSUME NEW b \in Bufs PROVE pool'[b] + Hold(g, b)' = pool[b] + Hold(g, b)
            <4>1. Hold(g, b)' = One(y.buf = b)
                BY <1>5, <1>6, <2>7 DEF Hold, Owns, One
            <4> QED
                BY <1>1, <1>4, <2>6, <4>1 DEF One, Pools
        <3>2. \A b \in Bufs : pool[b] \in Int /\ Hold(g, b) \in Int
            BY <1>1, <1>4 DEF Pools
        <3> QED
            BY <3>1, <3>2 DEF Balanced
    <2>11. \A h \in Writers \ {g} : Rests(h)
        BY <1>1, <1>3, <2>2 DEF Rests, WriterOK
    <2> QED
        BY <1>1, <2>6, <2>7, <2>8, <2>9, <2>10, <2>11 DEF WriterEffect
<1>7. CASE ~Compresses(src)
    <2>1. out' = [out EXCEPT ![g] = src] /\ pool' = pool /\ wpc' = [wpc EXCEPT ![g] = "header"]
        BY <1>7 DEF BeginWrite, GotoW
    <2>2. WriterOK' /\ wpc'[g] = "header" /\ out'[g] = src
        BY <1>1, <1>3, <2>1 DEF WriterOK, Wpcs
    <2>3. Ready(g)' /\ ~Owns(g)'
        BY <1>3, <1>5, <1>7, <2>2 DEF Ready, Owns
    <2>4. Sourced(g)' /\ Faithful(g)'
        BY <1>1, <1>2, <1>3, <1>5, <1>7, <2>2 DEF Sourced, Faithful
    <2>5. Balanced(g)
        BY <1>1, <1>4, <2>1, <2>3 DEF Balanced, Hold, One, Pools
    <2>6. \A h \in Writers \ {g} : Rests(h)
        BY <1>1, <1>3, <2>1 DEF Rests, WriterOK
    <2> QED
        BY <1>1, <2>1, <2>2, <2>3, <2>4, <2>5, <2>6 DEF WriterEffect
<1> QED
    BY <1>6, <1>7

LEMMA TextOK ==
    ASSUME NEW text \in Seq(Tokens)
    PROVE  Deflated(text) \in Seq(Tokens) /\ Masked(text) \in Seq(Tokens)
<1>1. << <<"deflated", 0>> >> \in Seq(Tokens) /\ << <<"masked", 0>> >> \in Seq(Tokens)
    BY DEF Tokens
<1> QED
    BY <1>1 DEF Deflated, Masked

(* PooledWriter.Write into y, after which the pools are pool'. *)
LEMMA GrowOut ==
    ASSUME TrafficInv, NEW g \in Writers, NEW d \in Pieces, CompressWrites(g, d)
    PROVE  \E y \in Slices :
              /\ Pooled(y) /\ y.len > 0 /\ Reach(g, y.buf) /\ pool' \in Pools
              /\ out' = [out EXCEPT ![g] = y]
              /\ mem' = [mem EXCEPT ![y.buf] = Deflated(mem[job[g].src.buf])]
              /\ \A b \in Bufs :
                    /\ pool'[b] + One(y.buf = b) <= pool[b] + One(out[g].buf = b)
                    /\ Home[b] > 0 => pool'[b] + One(y.buf = b) = pool[b] + One(out[g].buf = b)
<1>1. pool \in Pools /\ wpc[g] = "compress" /\ Ready(g)
    BY DEF TrafficInv, SessionInv, MemOK, WriterInv, CompressWrites, GotoW
<1>2. out[g] \in Slices /\ Pooled(out[g]) /\ out[g].buf \in Bufs /\ Compressed(g)
    BY <1>1 DEF Ready, Pooled
<1>3. PICK n \in Nat, c \in Nat : n = out[g].len + d /\ n > 0 /\ c = out[g].cap
    BY <1>2, WriterAssumption DEF Slices
<1>4. Hold(g, out[g].buf) > 0
    BY <1>2 DEF Hold, One, Owns
<1>5. CASE n <= c
    <2>1. /\ out' = [out EXCEPT ![g] = [out[g] EXCEPT !.len = n]] /\ pool' = pool
          /\ mem' = [mem EXCEPT ![out[g].buf] = Deflated(mem[job[g].src.buf])]
        BY <1>3, <1>5 DEF CompressWrites
    <2>2. PICK y \in Slices : y = [out[g] EXCEPT !.len = n] /\ y.buf = out[g].buf
                              /\ y.cap = out[g].cap /\ y.len = n
        BY <1>2, NewLength
    <2>3. Pooled(y) /\ Reach(g, y.buf)
        BY <1>2, <1>4, <2>2 DEF Pooled, Reach
    <2>4. \A b \in Bufs :
              /\ pool'[b] + One(y.buf = b) <= pool[b] + One(out[g].buf = b)
              /\ Home[b] > 0 => pool'[b] + One(y.buf = b) = pool[b] + One(out[g].buf = b)
        BY <1>1, <2>1, <2>2 DEF Pools, One
    <2>5. mem' = [mem EXCEPT ![y.buf] = Deflated(mem[job[g].src.buf])] /\ y.len > 0
        BY <1>3, <2>1, <2>2
    <2>6. pool' \in Pools /\ out' = [out EXCEPT ![g] = y]
        BY <1>1, <2>1, <2>2
    <2> QED
        BY <2>3, <2>4, <2>5, <2>6
<1>6. CASE ~(n <= c)
    <2>1. PICK m \in Nat : m = Max({2 * c, n})
        <3>1. PICK k \in Nat : k = 2 * c
            OBVIOUS
        <3>2. Max({k, n}) \in Nat
            BY MaxNat
        <3> QED
            BY <3>1, <3>2
    <2>2. PICK x \in getPayloadBuffer(pool, m) :
              /\ out' = [out EXCEPT ![g] = [x EXCEPT !.len = n]]
              /\ pool' = PutOutgrown(Without(pool, x), out[g])
              /\ mem' = [mem EXCEPT ![x.buf] = Deflated(mem[job[g].src.buf])]
        BY <1>3, <1>6, <2>1 DEF CompressWrites
    <2>3. Pooled(x) /\ pool[x.buf] > 0 /\ x \in Slices /\ x.buf \in Bufs
        BY <1>1, <2>2, Got DEF Pooled
    <2>4. PICK y \in Slices :
              y = [x EXCEPT !.len = n] /\ y.buf = x.buf /\ y.cap = x.cap /\ y.len = n
        BY <2>3, NewLength
    <2>5. PICK p \in Pools : /\ p = Without(pool, x)
                             /\ \A b \in Bufs : p[b] = pool[b] - One(b = x.buf)
        BY <1>1, <2>3, TakeOne
    <2>6. /\ pool' \in Pools
          /\ \A b \in Bufs : /\ pool'[b] \in p[b]..p[b] + One(b = out[g].buf)
                             /\ Home[b] > 0 => pool'[b] = p[b] + One(b = out[g].buf)
        <3>1. CASE c >= 512 /\ c <= 65536
            <4>1. pool' = putPayloadBuffer(p, out[g])
                BY <1>3, <2>2, <2>5, <3>1 DEF PutOutgrown
            <4> QED
                BY <1>2, <4>1, PutOne
        <3>2. CASE ~(c >= 512 /\ c <= 65536)
            <4>1. pool' = p
                BY <1>3, <2>2, <2>5, <3>2 DEF PutOutgrown
            <4>2. Home[out[g].buf] \in Buckets \cup {0, -1} /\ ~(Home[out[g].buf] > 0)
                BY <1>2, <1>3, <3>2, PoolAssumption DEF Pooled, Buckets
            <4> QED
                BY <4>1, <4>2 DEF Pools, One
        <3> QED
            BY <3>1, <3>2
    <2>7. Pooled(y) /\ Reach(g, y.buf)
        BY <2>3, <2>4 DEF Pooled, Reach
    <2>8. ASSUME NEW b \in Bufs
          PROVE  /\ pool'[b] + One(y.buf = b) <= pool[b] + One(out[g].buf = b)
                 /\ Home[b] > 0 => pool'[b] + One(y.buf = b) = pool[b] + One(out[g].buf = b)
        <3>1. pool[b] \in Int /\ p[b] \in Int /\ pool'[b] \in Int
            BY <1>1, <2>6 DEF Pools
        <3> QED
            BY <2>4, <2>5, <2>6, <3>1 DEF One
    <2> QED
        BY <1>3, <2>2, <2>4, <2>6, <2>7, <2>8
<1> QED
    BY <1>5, <1>6

LEMMA CompressWritesStep ==
    ASSUME TrafficInv, NEW g \in Writers, NEW d \in Pieces, CompressWrites(g, d),
           UNCHANGED sessionVars
    PROVE  WriterEffect(g)
<1>1. /\ pool \in Pools /\ mem \in [Bufs -> Seq(Tokens)] /\ WriterOK
      /\ Ready(g) /\ Sourced(g) /\ Faithful(g) /\ wpc[g] = "compress" /\ Compressed(g)
      /\ wpc' = [wpc EXCEPT ![g] = "compress"] /\ UNCHANGED <<job, lost, pc, full>>
    BY DEF TrafficInv, SessionInv, MemOK, WriterInv, CompressWrites, GotoW, sessionVars, msgVars,
           Ready
<1>2. PICK y \in Slices :
          /\ Pooled(y) /\ y.len > 0 /\ Reach(g, y.buf) /\ pool' \in Pools
          /\ out' = [out EXCEPT ![g] = y]
          /\ mem' = [mem EXCEPT ![y.buf] = Deflated(mem[job[g].src.buf])]
          /\ \A b \in Bufs :
                /\ pool'[b] + One(y.buf = b) <= pool[b] + One(out[g].buf = b)
                /\ Home[b] > 0 => pool'[b] + One(y.buf = b) = pool[b] + One(out[g].buf = b)
    BY GrowOut
<1>3. PICK a \in Bufs, c \in Bufs : a = job[g].src.buf /\ c = y.buf /\ a # c
    BY <1>1, <1>2, SourceOK DEF Pooled
<1>4. PICK text \in Seq(Tokens) : text = job[g].text /\ mem[a] = text
    BY <1>1, <1>3 DEF Faithful
<1>5. Deflated(text) \in Seq(Tokens) /\ mem' = [mem EXCEPT ![c] = Deflated(text)]
    BY <1>2, <1>3, <1>4, TextOK
<1>6. /\ mem' \in [Bufs -> Seq(Tokens)] /\ mem'[c] = Deflated(text) /\ mem'[a] = text
      /\ \A b \in Bufs : mem'[b] # mem[b] => Reach(g, b)
    BY <1>1, <1>2, <1>3, <1>4, <1>5
<1>7. WriterOK' /\ wpc'[g] = "compress" /\ out'[g] = y /\ Compressed(g)'
    BY <1>1, <1>2 DEF WriterOK, Compressed
<1>8. Ready(g)'
    BY <1>2, <1>7 DEF Ready
<1>9. Sourced(g)' /\ Faithful(g)'
    BY <1>1, <1>3, <1>4, <1>6, <1>7 DEF Sourced, Faithful
<1>10. Balanced(g)
    <2>1. \A b \in Bufs : /\ Hold(g, b) = One(out[g].buf = b) /\ Hold(g, b)' = One(y.buf = b)
        BY <1>1, <1>7 DEF Hold, Owns, One
    <2> QED
        BY <1>2, <2>1 DEF Balanced
<1>11. \A h \in Writers \ {g} : Rests(h)
    BY <1>1, <1>2 DEF Rests, WriterOK
<1> QED
    BY <1>2, <1>6, <1>7, <1>8, <1>9, <1>10, <1>11 DEF WriterEffect

LEMMA HeaderStep ==
    ASSUME TrafficInv, NEW g \in Writers, CompressEnds(g) \/ WriteHeader(g), UNCHANGED sessionVars
    PROVE  WriterEffect(g)
<1>1. /\ pool \in Pools /\ mem \in [Bufs -> Seq(Tokens)] /\ WriterOK
      /\ Ready(g) /\ Sourced(g) /\ Faithful(g)
      /\ UNCHANGED <<job, out, lost, pool, mem, pc, full>>
    BY DEF TrafficInv, SessionInv, MemOK, WriterInv, CompressEnds, WriteHeader, memVars,
           sessionVars, msgVars
<1>2. PICK w \in Wpcs :
          /\ wpc' = [wpc EXCEPT ![g] = w] /\ wpc'[g] = w
          /\ \/ wpc[g] = "compress" /\ w = "header" /\ out[g].len > 0
             \/ wpc[g] = "header" /\ w = "idle" /\ out[g].len = 0
             \/ wpc[g] = "header" /\ w = "mask" /\ MasksFor[g]
             \/ wpc[g] = "header" /\ w = "payload" /\ ~MasksFor[g]
    BY <1>1 DEF CompressEnds, WriteHeader, GotoW, Wpcs, WriterOK
<1>3. WriterOK' /\ Compressed(g)' = Compressed(g)
    BY <1>1, <1>2 DEF WriterOK, Compressed
<1>4. Owns(g)' = Owns(g)
    BY <1>2, <1>3 DEF Owns
<1>5. Ready(g)'
    BY <1>1, <1>2, <1>3, <1>4 DEF Ready, Owns
<1>6. Sourced(g)'
    BY <1>1, <1>2 DEF Sourced
<1>7. Faithful(g)'
    <2>1. wpc[g] # "idle" /\ mem[job[g].src.buf] = job[g].text
        BY <1>1, <1>2 DEF Faithful
    <2>2. CASE w = "payload"
        <3>1. mem[out[g].buf] = Body(g)
            BY <1>1, <1>2, <2>1, <2>2 DEF Body, Ready, Faithful, Owns
        <3>2. Body(g)' = Body(g)
            BY <1>1, <1>3 DEF Body
        <3> QED
            BY <1>1, <1>2, <2>1, <2>2, <3>1, <3>2 DEF Faithful
    <2>3. CASE w # "payload"
        BY <1>1, <1>2, <1>3, <2>1, <2>3 DEF Faithful
    <2> QED
        BY <2>2, <2>3
<1>8. Balanced(g)
    <2>1. \A b \in Bufs : pool'[b] + Hold(g, b)' = pool[b] + Hold(g, b)
                         /\ pool[b] + Hold(g, b) \in Int
        BY <1>1, <1>4 DEF Hold, One, Pools
    <2> QED
        BY <2>1 DEF Balanced
<1>9. \A h \in Writers \ {g} : Rests(h)
    BY <1>1, <1>2 DEF Rests, WriterOK
<1> QED
    BY <1>1, <1>3, <1>5, <1>6, <1>7, <1>8, <1>9 DEF WriterEffect

LEMMA HeaderFailsStep ==
    ASSUME TrafficInv, NEW g \in Writers, WriteHeaderFails(g), UNCHANGED sessionVars
    PROVE  WriterEffect(g)
<1>1. /\ pool \in Pools /\ mem \in [Bufs -> Seq(Tokens)] /\ WriterOK /\ wpc[g] = "header"
      /\ UNCHANGED <<job, pool, mem>> /\ wpc' = [wpc EXCEPT ![g] = "idle"]
      /\ out' = [out EXCEPT ![g] = Nil] /\ lost' = (lost \/ Compressed(g))
    BY DEF TrafficInv, SessionInv, MemOK, WriterInv, WriteHeaderFails, GotoW, memVars
<1>2. WriterOK' /\ wpc'[g] = "idle" /\ out'[g] = Nil
    BY <1>1, NilOK DEF WriterOK, Wpcs
<1>3. Ready(g)' /\ Sourced(g)' /\ Faithful(g)'
    BY <1>2 DEF Ready, Sourced, Faithful
<1>4. Balanced(g)
    <2>1. \A b \in Bufs : /\ Hold(g, b)' = 0 /\ Hold(g, b) \in {0, 1} /\ pool[b] \in Int
                          /\ ~Compressed(g) => Hold(g, b) = 0
        BY <1>1, <1>2, NilOK DEF Hold, One, Owns, Pools
    <2>2. ~lost' => ~Compressed(g)
        BY <1>1
    <2> QED
        BY <1>1, <2>1, <2>2 DEF Balanced
<1>5. \A h \in Writers \ {g} : Rests(h)
    BY <1>1 DEF Rests, WriterOK
<1> QED
    BY <1>1, <1>2, <1>3, <1>4, <1>5 DEF WriterEffect

LEMMA WritePayloadStep ==
    ASSUME TrafficInv, NEW g \in Writers, WritePayload(g), UNCHANGED sessionVars
    PROVE  WriterEffect(g)
<1>1. /\ pool \in Pools /\ mem \in [Bufs -> Seq(Tokens)] /\ WriterOK /\ Ready(g)
      /\ wpc[g] = "payload" /\ UNCHANGED <<job, mem, lost>> /\ wpc' = [wpc EXCEPT ![g] = "idle"]
      /\ out' = [out EXCEPT ![g] = Nil] /\ pool' = AfterPayload(g)
    BY DEF TrafficInv, SessionInv, MemOK, WriterInv, WritePayload, GotoW
<1>2. WriterOK' /\ wpc'[g] = "idle" /\ out'[g] = Nil
    BY <1>1, NilOK DEF WriterOK, Wpcs
<1>3. Ready(g)' /\ Sourced(g)' /\ Faithful(g)'
    BY <1>2 DEF Ready, Sourced, Faithful
<1>4. \A b \in Bufs : Hold(g, b)' = 0
    BY <1>2, NilOK DEF Hold, One
<1>5. pool' \in Pools /\ Balanced(g)
    <2>1. CASE Owns(g)
        <3>1. pool' = putPayloadBuffer(pool, out[g]) /\ Pooled(out[g])
            BY <1>1, <2>1 DEF AfterPayload, Owns, Ready
        <3>2. /\ pool' \in Pools
              /\ \A b \in Bufs : /\ pool'[b] \in pool[b]..pool[b] + One(b = out[g].buf)
                                 /\ Home[b] > 0 => pool'[b] = pool[b] + One(b = out[g].buf)
            BY <1>1, <3>1, PutOne
        <3>3. \A b \in Bufs : /\ Hold(g, b) = One(b = out[g].buf) /\ Hold(g, b) \in Int
                              /\ pool[b] \in Int /\ pool'[b] \in Int
            BY <1>1, <2>1, <3>2 DEF Hold, One, Pools
        <3> QED
            BY <1>4, <3>2, <3>3 DEF Balanced
    <2>2. CASE ~Owns(g)
        <3>1. pool' = pool /\ \A b \in Bufs : Hold(g, b) = 0 /\ pool[b] \in Int
            BY <1>1, <2>2 DEF AfterPayload, Owns, Hold, One, Pools
        <3> QED
            BY <1>1, <1>4, <3>1 DEF Balanced
    <2> QED
        BY <2>1, <2>2
<1>6. \A h \in Writers \ {g} : Rests(h)
    BY <1>1 DEF Rests, WriterOK
<1> QED
    BY <1>1, <1>2, <1>3, <1>5, <1>6 DEF WriterEffect

LEMMA MaskPayloadStep ==
    ASSUME TrafficInv, NEW g \in Writers, MaskPayload(g), UNCHANGED sessionVars
    PROVE  WriterEffect(g)
<1>1. /\ pool \in Pools /\ mem \in [Bufs -> Seq(Tokens)] /\ WriterOK
      /\ Ready(g) /\ Sourced(g) /\ Faithful(g) /\ wpc[g] = "mask" /\ MasksFor[g]
      /\ UNCHANGED <<job, lost, pc, full>> /\ wpc' = [wpc EXCEPT ![g] = "payload"]
    BY DEF TrafficInv, SessionInv, MemOK, WriterInv, MaskPayload, GotoW, sessionVars, msgVars, Ready
<1>2. PICK y \in MaskTargets(g) :
          /\ out' = [out EXCEPT ![g] = y]
          /\ mem' = [mem EXCEPT ![y.buf] = Masked(mem[out[g].buf])]
          /\ pool' = IF y = out[g] THEN pool ELSE Without(pool, y)
    BY DEF MaskPayload
<1>3. job[g].src.buf \in Bufs /\ ~Reach(g, job[g].src.buf)
    BY <1>1, SourceOK
<1>4. /\ y \in Slices /\ Pooled(y) /\ Reach(g, y.buf) /\ pool' \in Pools
      /\ \A b \in Bufs : pool'[b] + One(y.buf = b) = pool[b] + Hold(g, b)
    <2>1. CASE Compressed(g)
        <3>1. y = out[g] /\ y \in Slices /\ Pooled(y) /\ pool' = pool
            BY <1>1, <1>2, <2>1 DEF MaskTargets, Ready
        <3>2. \A b \in Bufs : Hold(g, b) = One(y.buf = b)
            BY <2>1, <3>1 DEF Hold, Owns, One
        <3>3. Reach(g, y.buf)
            BY <2>1, <3>1 DEF Reach, Hold, Owns, One
        <3> QED
            BY <1>1, <3>1, <3>2, <3>3
    <2>2. CASE ~Compressed(g)
        <3>1. PICK n \in Nat : n = out[g].len
            BY <1>1, ViewOK DEF WriterOK
        <3>2. y \in getPayloadBuffer(pool, n) /\ out[g] = job[g].src
            BY <1>1, <1>2, <2>2, <3>1 DEF MaskTargets, Ready, Owns
        <3>3. Pooled(y) /\ pool[y.buf] > 0 /\ y \in Slices /\ y.buf \in Bufs
            BY <1>1, <3>2, Got DEF Pooled
        <3>4. y # out[g] /\ Reach(g, y.buf)
            BY <1>3, <3>2, <3>3 DEF Reach
        <3>5. pool' \in Pools /\ \A b \in Bufs : pool'[b] = pool[b] - One(b = y.buf)
            BY <1>1, <1>2, <3>3, <3>4, TakeOne
        <3>6. \A b \in Bufs : Hold(g, b) = 0
            BY <1>1, <2>2 DEF Hold, Owns, One
        <3> QED
            BY <1>1, <3>3, <3>4, <3>5, <3>6 DEF One, Pools
    <2> QED
        BY <2>1, <2>2
<1>5. PICK a \in Bufs, c \in Bufs : a = job[g].src.buf /\ c = y.buf /\ a # c
    BY <1>3, <1>4 DEF Pooled
<1>6. PICK text \in Seq(Tokens) : text = job[g].text /\ mem[a] = text
    BY <1>1, <1>5 DEF Faithful
<1>7. PICK plain \in Seq(Tokens) :
          plain = mem[out[g].buf] /\ Masked(plain) = Body(g) /\ Masked(plain) \in Seq(Tokens)
    <2>1. mem[out[g].buf] = IF Compressed(g) THEN Deflated(text) ELSE text
        BY <1>1, <1>5, <1>6 DEF Faithful, Ready, Owns
    <2>2. mem[out[g].buf] \in Seq(Tokens)
        BY <1>6, <2>1, TextOK
    <2>3. Masked(mem[out[g].buf]) = Body(g)
        BY <1>1, <1>6, <2>1 DEF Body
    <2> QED
        BY <2>2, <2>3, TextOK
<1>8. /\ mem' = [mem EXCEPT ![c] = Masked(plain)]
      /\ mem' \in [Bufs -> Seq(Tokens)] /\ mem'[c] = Body(g) /\ mem'[a] = text
      /\ \A b \in Bufs : mem'[b] # mem[b] => Reach(g, b)
    BY <1>1, <1>2, <1>4, <1>5, <1>6, <1>7
<1>9. WriterOK' /\ wpc'[g] = "payload" /\ out'[g] = y
    BY <1>1, <1>2, <1>4 DEF WriterOK, Wpcs
<1>10. Compressed(g)' = Compressed(g) /\ Owns(g)' /\ Body(g)' = Body(g)
    BY <1>1, <1>9 DEF Compressed, Owns, Body
<1>11. Ready(g)'
    <2>1. Compressed(g) => y.len > 0
        BY <1>1, <1>2 DEF MaskTargets, Ready
    <2> QED
        BY <1>4, <1>9, <1>10, <2>1 DEF Ready
<1>12. Sourced(g)' /\ Faithful(g)'
    BY <1>1, <1>5, <1>6, <1>8, <1>9, <1>10 DEF Sourced, Faithful
<1>13. Balanced(g)
    <2>1. \A b \in Bufs : /\ Hold(g, b)' = One(y.buf = b)
                          /\ pool[b] + Hold(g, b) \in Int
        BY <1>1, <1>9, <1>10 DEF Hold, One, Pools
    <2> QED
        BY <1>4, <2>1 DEF Balanced
<1>14. \A h \in Writers \ {g} : Rests(h)
    BY <1>1, <1>2 DEF Rests, WriterOK
<1> QED
    BY <1>4, <1>8, <1>9, <1>11, <1>12, <1>13, <1>14 DEF WriterEffect

LEMMA WriterStep ==
    ASSUME TrafficInv,
           NEW g \in Writers,
           Writing(g) \/ (\E x \in Broadcast : Broadcasts(g, x)) \/ (g \in Sessions /\ Echo(g))
    PROVE  WriterEffect(g)
<1>1. CASE Writing(g)
    BY <1>1, CompressWritesStep, HeaderStep, HeaderFailsStep, MaskPayloadStep, WritePayloadStep
       DEF Writing, WriteSteps
<1>2. ASSUME NEW x \in Broadcast, Broadcasts(g, x) PROVE WriterEffect(g)
    <2>1. x \in Slices /\ x.buf \in Bufs
        BY TrafficAssumption
    <2> QED
        BY <1>2, <2>1, BeginStep DEF Broadcasts
<1>3. ASSUME g \in Sessions, Echo(g) PROVE WriterEffect(g)
    <2>1. pc[g] = "message" /\ BeginWrite(g, full[g]) /\ UNCHANGED sessionVars
        BY <1>3 DEF Echo
    <2>2. Placed(g) /\ full[g] \in Slices
        BY <1>3 DEF TrafficInv, SessionInv, MemOK
    <2>3. full[g].buf \in Bufs
        BY <2>1, <2>2 DEF Placed, Fit, Busy, Pooled
    <2> QED
        BY <1>3, <2>1, <2>2, <2>3, BeginStep
<1> QED
    BY <1>1, <1>2, <1>3

-----------------------------------------------------------------------------
LEMMA TrafficInvInit ==
    ASSUME TrafficInit
    PROVE  TrafficInv
<1>1. SessionInv /\ Exclusive
    BY SessionInvInit DEF TrafficInit
<1>2. WriterOK
    <2>1. [src |-> Nil, text |-> << >>] \in Jobs
        BY NilOK DEF Jobs
    <2> QED
        BY <2>1, NilOK DEF TrafficInit, WriterInit, WriterOK, Wpcs
<1>3. ASSUME NEW g \in Writers
      PROVE  /\ Ready(g) /\ Sourced(g) /\ Faithful(g)
             /\ \A b \in Bufs : Hold(g, b) = 0
    BY NilOK DEF TrafficInit, WriterInit, Ready, Sourced, Faithful, Hold, One
<1>4. \A b \in Bufs : pool[b] \in {0, 1}
    BY DEF TrafficInit, Init, PoolInit
<1>5. Disjoint
    BY <1>3, <1>4 DEF Disjoint
<1> QED
    BY <1>1, <1>2, <1>3, <1>5 DEF TrafficInv, WriterInv

LEMMA TrafficStutter ==
    ASSUME TrafficInv, UNCHANGED trafficVars
    PROVE  TrafficInv'
<1> USE DEF trafficVars, vars, netVars, readVars, memVars, asmVars, msgVars, writerVars
<1>1. SessionInv' /\ Exclusive'
    BY DEF TrafficInv, SessionInv, Exclusive, MemOK, RunOK, HistOK, Placed, Fit, Counted, SizesOK,
           Stable, TooLarge, Pooled, Count
<1>2. WriterInv'
    BY DEF TrafficInv, WriterInv, WriterOK, Ready, Sourced, Faithful, Owns, Compressed, Body, Pooled
<1>3. Disjoint'
    BY DEF TrafficInv, Disjoint, Hold, Owns, Compressed, Count
<1> QED
    BY <1>1, <1>2, <1>3 DEF TrafficInv

LEMMA TrafficInvHolds == TrafficSpec => []TrafficInv
<1>1. TrafficInit => TrafficInv
    BY TrafficInvInit
<1>2. TrafficInv /\ [TrafficNext]_trafficVars => TrafficInv'
    <2>1. ASSUME TrafficInv, NEW g \in Writers,
                 Writing(g) \/ (\E x \in Broadcast : Broadcasts(g, x)) \/ (g \in Sessions /\ Echo(g))
          PROVE  TrafficInv'
        BY <2>1, WriterStep, WriterSide
    <2>2. \A s \in Sessions : s \in Writers
        BY TrafficAssumption
    <2> QED
        BY <2>1, <2>2, SessionSide, TrafficStutter DEF TrafficNext
<1> QED
    BY <1>1, <1>2, PTL DEF TrafficSpec

(* A payload array is in its pool, or with one session, or with one writer: *)
(* what processFrame, the PooledWriter or writeMessageInternal put back is  *)
(* in nobody's hands, for any number of sessions and writers.               *)
THEOREM SharingCorrect == TrafficSpec => []NoSharedBuffer
<1>1. TrafficInv => NoSharedBuffer
    <2> SUFFICES ASSUME TrafficInv, NEW b \in Bufs
                 PROVE  pool[b] + Cardinality(Holders(b)) + Cardinality(OwnedByWriter(b)) <= 1
        BY DEF NoSharedBuffer
    <2>1. SessionInv /\ Exclusive /\ WriterInv /\ Disjoint
        BY DEF TrafficInv
    <2>2. /\ pool[b] \in Nat /\ (Home[b] = -1 => pool[b] = 0) /\ (Home[b] # -1 => pool[b] <= 1)
        BY <2>1 DEF SessionInv, MemOK, Pools, Exclusive
    <2>3. \A g \in Writers : /\ Hold(g, b) \in {0, 1} /\ (Hold(g, b) > 0 => Home[b] # -1)
                             /\ g \in OwnedByWriter(b) <=> Hold(g, b) = 1
        BY <2>1, HoldNat DEF OwnedByWriter, Hold, One, Owns
    <2>4. OwnedByWriter(b) \subseteq Writers
        BY DEF OwnedByWriter
    <2>5. CASE OwnedByWriter(b) = {}
        <3>1. Cardinality(OwnedByWriter(b)) = 0
            BY <2>5, FS_EmptySet
        <3>2. CASE Holders(b) = {}
            BY <2>2, <3>1, <3>2, FS_EmptySet
        <3>3. CASE \E s \in Sessions : \E k : Holders(b) = {<<s, k>>} /\ Count(s, b) = 1
            <4>1. PICK s \in Sessions : \E k : Holders(b) = {<<s, k>>} /\ Count(s, b) = 1
                BY <3>3
            <4>2. pool[b] = 0
                BY <2>1, <2>2, <4>1, Once
            <4>3. Cardinality(Holders(b)) = 1
                BY <4>1, FS_Singleton
            <4> QED
                BY <3>1, <4>2, <4>3
        <3> QED
            BY <2>1, <3>2, <3>3, HoldersOnce
    <2>6. ASSUME NEW g \in OwnedByWriter(b)
          PROVE  pool[b] + Cardinality(Holders(b)) + Cardinality(OwnedByWriter(b)) <= 1
        <3>1. g \in Writers /\ Hold(g, b) = 1 /\ Home[b] # -1
            BY <2>3, <2>4, <2>6
        <3>2. /\ pool[b] = 0 /\ \A h \in Writers : h # g => Hold(h, b) = 0
              /\ \A s \in Sessions : Count(s, b) = 0
            BY <2>1, <2>2, <3>1 DEF Disjoint
        <3>3. OwnedByWriter(b) = {g}
            BY <2>3, <2>4, <2>6, <3>2
        <3>4. Holders(b) = {}
            BY <2>1, <3>2, HoldersOnce
        <3>5. Cardinality(OwnedByWriter(b)) = 1
            BY <3>3, FS_Singleton
        <3>6. Cardinality(Holders(b)) = 0
            BY <3>4, FS_EmptySet
        <3> QED
            BY <3>2, <3>5, <3>6
    <2> QED
        BY <2>5, <2>6
<1> QED
    BY <1>1, TrafficInvHolds, PTL

(* While OnMessage runs, and while the WriteMessage it calls writes its     *)
(* payload back, nobody writes to that payload.                             *)
THEOREM StableCorrect == TrafficSpec => []MessageStable
<1>1. TrafficInv => MessageStable
    BY DEF TrafficInv, SessionInv, Stable, MessageStable, Last
<1> QED
    BY <1>1, TrafficInvHolds, PTL

-----------------------------------------------------------------------------
(***************************************************************************)
(* Nothing is lost: as long as no connection is closed and no call failed  *)
(* with its buffer, an array of a pool is in it or in somebody's hands.    *)
(* A panic loses arrays too, but it closes its connection, and a           *)
(* connection that is closed stays closed.                                 *)
(***************************************************************************)
Links == {"open", "peerClosed", "selfClosed", "garbled"}
LinksOK == link \in [Sessions -> Links]
Accounted ==
    ~lost /\ (\A s \in Sessions : link[s] = "open") =>
        \A b \in Bufs : Home[b] > 0 =>
            \/ pool[b] = 1
            \/ \E s \in Sessions : Count(s, b) > 0
            \/ \E g \in Writers : Hold(g, b) > 0

LEMMA LinkStep ==
    ASSUME LinksOK, NEW s \in Sessions, SessionActs(s)
    PROVE  /\ LinksOK' /\ \A t \in Sessions : link'[t] = "open" => link[t] = "open"
           /\ link'[s] = "open" => ~NegativeLength(s) /\ ~MessagePanics(s)
<1>1. Close(s) => LinksOK' /\ link'[s] # "open" /\ \A t \in Sessions \ {s} : link'[t] = link[t]
    BY DEF Close, LinksOK, Links
<1>2. \/ link' = link \/ Close(s)
      \/ \E l \in Links \ {"open"} : link' = [link EXCEPT ![s] = l]
    <2> USE DEF netVars, Links
    <2>1. CASE Upgrade(s) \/ Peer(s)
        BY <2>1 DEF Upgrade, UpgradeFlushes, UpgradeFlushFails, UpgradeInstalls, Peer,
                    PeerStartsFrame, PeerSendsHeader, PeerSendsPayload, PeerCloses
    <2>2. CASE StartCallback(s) \/ ReadHandlerFails(s)
        BY <2>2 DEF StartCallback, ReadHandlerFails
    <2>3. CASE ServeConn(s)
        BY <2>3 DEF ServeConn, ServeFindsClosed, ServeWaits, ServeReads, ReadHeaderFails,
                    ReadHeaderBad, FrameTooLarge, ReadHeader, NegativeLength, ReadPayload,
                    ReadPayloadFails, PeekWaits, PeekTakes, PeekTooLarge
    <2>4. CASE processFrame(s)
        BY <2>4 DEF processFrame, PingPong, CloseFrame, AssemblerRefuses, SingleFrame,
                    SingleCompressed, SingleInflateFails, FirstFragment, MiddleFragment,
                    LastFragment, LastCompressed, LastInflateFails, MessageReturns, MessagePanics
    <2> QED
        BY <2>1, <2>2, <2>3, <2>4 DEF SessionActs, ReadHandler
<1>3. NegativeLength(s) \/ MessagePanics(s) => Close(s)
    BY DEF NegativeLength, MessagePanics
<1>4. CASE Close(s)
    BY <1>1, <1>4
<1>5. CASE ~Close(s)
    BY <1>2, <1>3, <1>5 DEF LinksOK, Links
<1> QED
    BY <1>4, <1>5

LEMMA SessionAccounts ==
    ASSUME TrafficInv, TrafficInv', LinksOK, Accounted, NEW s \in Sessions, SessionStep(s)
    PROVE  LinksOK' /\ Accounted'
<1>1. /\ SessionActs(s) /\ UNCHANGED <<wpc, job, out, lost>>
      /\ SessionInv /\ Exclusive' /\ WriterInv /\ MemOK'
    BY DEF SessionStep, SessionActs, writerVars, TrafficInv, SessionInv
<1>2. /\ LinksOK' /\ \A t \in Sessions : link'[t] = "open" => link[t] = "open"
      /\ link'[s] = "open" => ~NegativeLength(s) /\ ~MessagePanics(s)
    BY <1>1, LinkStep
<1>3. MemEffect(s)
    BY <1>1, MemStep DEF SessionInv
<1>4. ASSUME ~lost', \A t \in Sessions : link'[t] = "open", NEW b \in Bufs, Home[b] > 0
      PROVE  \/ pool'[b] = 1
             \/ \E t \in Sessions : Count(t, b)' > 0
             \/ \E g \in Writers : Hold(g, b)' > 0
    <2>1. \/ pool[b] = 1
          \/ \E t \in Sessions : Count(t, b) > 0
          \/ \E g \in Writers : Hold(g, b) > 0
        BY <1>1, <1>2, <1>4 DEF Accounted
    <2>2. pool'[b] + Count(s, b)' = pool[b] + Count(s, b)
        BY <1>2, <1>3, <1>4 DEF MemEffect, Conserved
    <2>3. /\ pool[b] \in Nat /\ pool'[b] \in Nat /\ pool'[b] <= 1
          /\ Count(s, b) \in Nat /\ Count(s, b)' \in Nat
        <3>1. Home[b] # -1
            BY <1>4, PoolAssumption DEF Buckets
        <3> QED
            BY <1>1, <3>1 DEF SessionInv, MemOK, Pools, Exclusive, Count, Share, One
    <2>4. \A t \in Sessions \ {s} : Count(t, b)' = Count(t, b)
        BY <1>3 DEF MemEffect, HoldsAlone, Count
    <2>5. \A g \in Writers : Hold(g, b)' = Hold(g, b)
        BY <1>1 DEF Hold, Owns, Compressed
    <2>6. CASE pool[b] = 1 \/ Count(s, b) > 0
        BY <2>2, <2>3, <2>6
    <2> QED
        BY <2>1, <2>4, <2>5, <2>6
<1> QED
    BY <1>2, <1>4 DEF Accounted

LEMMA WriterAccounts ==
    ASSUME TrafficInv, TrafficInv', LinksOK, Accounted, NEW g \in Writers, WriterEffect(g),
           lost => lost'
    PROVE  LinksOK' /\ Accounted'
<1>1. UNCHANGED <<link, payload, buffer, full, reassembled>> /\ Balanced(g)
    BY DEF WriterEffect, sessionVars, netVars, asmVars, msgVars
<1>2. ASSUME ~lost', \A t \in Sessions : link'[t] = "open", NEW b \in Bufs, Home[b] > 0
      PROVE  \/ pool'[b] = 1
             \/ \E t \in Sessions : Count(t, b)' > 0
             \/ \E h \in Writers : Hold(h, b)' > 0
    <2>1. \/ pool[b] = 1
          \/ \E t \in Sessions : Count(t, b) > 0
          \/ \E h \in Writers : Hold(h, b) > 0
        BY <1>1, <1>2 DEF Accounted
    <2>2. pool'[b] + Hold(g, b)' = pool[b] + Hold(g, b)
        BY <1>1, <1>2 DEF Balanced
    <2>3. /\ pool[b] \in Nat /\ pool'[b] \in Nat /\ pool'[b] <= 1
          /\ Hold(g, b) \in Nat /\ Hold(g, b)' \in Nat
        <3>1. Home[b] # -1
            BY <1>2, PoolAssumption DEF Buckets
        <3> QED
            BY <3>1 DEF TrafficInv, SessionInv, MemOK, Pools, Exclusive, Hold, One
    <2>4. \A t \in Sessions : Count(t, b)' = Count(t, b)
        BY <1>1 DEF Count
    <2>5. \A h \in Writers \ {g} : Hold(h, b)' = Hold(h, b)
        BY DEF WriterEffect, Rests, Hold, Owns, Compressed
    <2>6. CASE pool[b] = 1 \/ Hold(g, b) > 0
        BY <2>2, <2>3, <2>6
    <2> QED
        BY <2>1, <2>4, <2>5, <2>6
<1> QED
    BY <1>1, <1>2 DEF LinksOK, Accounted

LEMMA LostStays ==
    ASSUME NEW g,
           Writing(g) \/ (\E x \in Broadcast : Broadcasts(g, x)) \/ (g \in Sessions /\ Echo(g))
    PROVE  lost => lost'
    BY DEF Writing, Broadcasts, Echo, BeginWrite, WriteSteps, CompressWrites, CompressEnds,
           WriteHeader, WriteHeaderFails, MaskPayload, WritePayload

(* CompressData's caller puts its buffer back: with nothing under way, no   *)
(* connection closed and no call failed, every array of a pool is there,    *)
(* after any number of messages in both directions.                         *)
THEOREM BuffersCorrect == TrafficSpec => []BuffersComeBack
<1>1. TrafficInit => LinksOK /\ Accounted
    <2>1. ASSUME TrafficInit PROVE \A b \in Bufs : Home[b] > 0 => pool[b] = 1
        BY <2>1, PoolAssumption DEF TrafficInit, Init, PoolInit, Buckets
    <2> QED
        BY <2>1 DEF TrafficInit, Init, LinksOK, Links, Accounted
<1>2. TrafficInv /\ TrafficInv' /\ LinksOK /\ Accounted /\ [TrafficNext]_trafficVars
          => LinksOK' /\ Accounted'
    <2> SUFFICES ASSUME TrafficInv, TrafficInv', LinksOK, Accounted, [TrafficNext]_trafficVars
                 PROVE  LinksOK' /\ Accounted'
        OBVIOUS
    <2>1. ASSUME NEW g \in Writers,
                 Writing(g) \/ (\E x \in Broadcast : Broadcasts(g, x)) \/ (g \in Sessions /\ Echo(g))
          PROVE  LinksOK' /\ Accounted'
        BY <2>1, WriterStep, WriterAccounts, LostStays
    <2>2. \A s \in Sessions : s \in Writers
        BY TrafficAssumption
    <2>3. CASE UNCHANGED trafficVars
        BY <2>3 DEF trafficVars, vars, netVars, memVars, asmVars, msgVars, writerVars, LinksOK,
                    Accounted, Count, Hold, Owns, Compressed
    <2> QED
        BY <2>1, <2>2, <2>3, SessionAccounts DEF TrafficNext
<1>3. TrafficInv /\ Accounted => BuffersComeBack
    <2> SUFFICES ASSUME TrafficInv, Accounted, AtRest, ~lost, NEW b \in Bufs, Home[b] > 0
                 PROVE  pool[b] = 1
        BY DEF BuffersComeBack
    <2>1. ASSUME NEW s \in Sessions PROVE Count(s, b) = 0
        <3>1. payload[s] = Nil /\ buffer[s] = Nil /\ full[s] = Nil
            BY DEF AtRest, TrafficInv, SessionInv, Placed, Fit, Busy
        <3> QED
            BY <3>1, NilOK DEF Count, Share, One
    <2>2. ASSUME NEW g \in Writers PROVE ~(Hold(g, b) > 0)
        BY HoldNat DEF AtRest, TrafficInv
    <2> QED
        BY <2>1, <2>2 DEF Accounted, AtRest
<1> QED
    BY <1>1, <1>2, <1>3, TrafficInvHolds, PTL DEF TrafficSpec

-----------------------------------------------------------------------------
(***************************************************************************)
(* What goes out.  Between a header with a length and its payload the      *)
(* writer is at "mask" or at "payload", and the header is the last that    *)
(* went out on its connection; when a write fails there, so do all later   *)
(* ones.  This needs a single writer per connection: the code has no lock  *)
(* around the two writes.                                                  *)
(***************************************************************************)
Headers == [by : Writers, k : {"header"}, rsv1 : BOOLEAN, text : Seq(Tokens), len : Nat]
Payloads == [by : Writers, k : {"payload"}, text : Seq(Tokens)]
Items == Headers \cup Payloads
WireOK == wire \in [{LinkOf[g] : g \in Writers} -> Seq(Items)]

Announces(i) == i.k = "header" /\ i.len > 0
Follows(h, i) == h.k = "header" /\ h.by = i.by /\ i.text = Encoded(h)
Whole(w) ==
    \A i \in DOMAIN w :
        /\ w[i].k = "payload" => i > 1 /\ Follows(w[i - 1], w[i])
        /\ Announces(w[i]) /\ i < Len(w) => w[i + 1].k = "payload"
LastIs(w, i) == w # << >> /\ w[Len(w)] = i

(* Where the connection w of a writer is *)
Opened(g, w) ==
    wpc[g] \in {"mask", "payload"} =>
        \E h \in Headers : /\ LastIs(w, h) /\ h.by = g
                           /\ h.rsv1 = Compressed(g) /\ h.text = job[g].text
Closed(g, w) ==
    wpc[g] \notin {"mask", "payload"} =>
        LinkOf[g] \in broken \/ \A i \in Items : LastIs(w, i) => ~Announces(i)
FrameInv ==
    /\ WireOK
    /\ \A g \in Writers : /\ Whole(wire[LinkOf[g]])
                          /\ Opened(g, wire[LinkOf[g]]) /\ Closed(g, wire[LinkOf[g]])
Alone == \A g, h \in Writers : LinkOf[g] = LinkOf[h] => g = h

LEMMA AppendWhole ==
    ASSUME NEW w \in Seq(Items), NEW x \in Items, Whole(w),
           x.k = "payload" => \E h \in Items : LastIs(w, h) /\ Follows(h, x),
           \A i \in Items : LastIs(w, i) /\ Announces(i) => x.k = "payload"
    PROVE  Append(w, x) \in Seq(Items) /\ Whole(Append(w, x)) /\ LastIs(Append(w, x), x)
<1>1. PICK v \in Seq(Items), n \in Nat :
          /\ v = Append(w, x) /\ n = Len(w) /\ Len(v) = n + 1 /\ v[n + 1] = x
          /\ \A i \in 1..n : v[i] = w[i] /\ w[i] \in Items
          /\ DOMAIN w = 1..n /\ DOMAIN v = 1..n + 1 /\ (w = << >> <=> n = 0)
    <2>1. Append(w, x) \in Seq(Items) /\ Len(w) \in Nat /\ (w = << >> <=> Len(w) = 0)
        OBVIOUS
    <2>2. /\ Len(Append(w, x)) = Len(w) + 1 /\ Append(w, x)[Len(w) + 1] = x
          /\ \A i \in 1..Len(w) : Append(w, x)[i] = w[i] /\ w[i] \in Items
          /\ DOMAIN w = 1..Len(w)
        OBVIOUS
    <2>3. DOMAIN Append(w, x) = 1..Len(w) + 1
        BY <2>1, <2>2
    <2> QED
        BY <2>1, <2>2, <2>3
<1>2. ASSUME NEW i \in 1..n + 1
      PROVE  /\ v[i].k = "payload" => i > 1 /\ Follows(v[i - 1], v[i])
             /\ Announces(v[i]) /\ i < n + 1 => v[i + 1].k = "payload"
    <2>1. CASE i < n
        <3>1. PICK a \in 1..n, c \in 1..n : a = i /\ c = i + 1
            BY <2>1
        <3>2. i > 1 => v[i - 1] = w[i - 1]
            BY <1>1, <2>1
        <3>3. v[i] = w[i] /\ v[i + 1] = w[i + 1] /\ i \in DOMAIN w /\ i < Len(w)
            BY <1>1, <2>1, <3>1
        <3> QED
            BY <3>2, <3>3 DEF Whole
    <2>2. CASE i = n
        <3>1. i > 1 => v[i - 1] = w[i - 1]
            BY <1>1, <2>2
        <3>2. v[i] = w[i] /\ v[i + 1] = x /\ i \in DOMAIN w /\ w[i] \in Items /\ LastIs(w, w[i])
            BY <1>1, <2>2 DEF LastIs
        <3> QED
            BY <3>1, <3>2 DEF Whole
    <2>3. CASE i = n + 1
        <3>1. ASSUME x.k = "payload" PROVE i > 1 /\ Follows(v[i - 1], x)
            <4>1. PICK h \in Items : LastIs(w, h) /\ Follows(h, x)
                BY <3>1
            <4>2. i > 1 /\ v[i - 1] = h
                BY <1>1, <2>3, <4>1 DEF LastIs
            <4> QED
                BY <4>1, <4>2
        <3>2. v[i] = x
            BY <1>1, <2>3
        <3> QED
            BY <2>3, <3>1, <3>2
    <2> QED
        BY <2>1, <2>2, <2>3
<1>3. Whole(v)
    BY <1>1, <1>2 DEF Whole
<1>4. LastIs(v, x)
    BY <1>1 DEF LastIs
<1> QED
    BY <1>1, <1>3, <1>4

(* A step that sends nothing on the connection of g, or sends x on it, and  *)
(* breaks no other connection.                                              *)
LEMMA Sends ==
    ASSUME Alone, FrameInv, NEW g \in Writers, NEW w \in Seq(Items),
           wire' = [wire EXCEPT ![LinkOf[g]] = w], broken \subseteq broken',
           \A h \in Writers \ {g} : Rests(h),
           Whole(w), Opened(g, w)', Closed(g, w)'
    PROVE  FrameInv'
<1>1. WireOK' /\ wire'[LinkOf[g]] = w
    BY DEF FrameInv, WireOK
<1>2. ASSUME NEW h \in Writers \ {g}
      PROVE  /\ wire'[LinkOf[h]] = wire[LinkOf[h]] /\ Whole(wire[LinkOf[h]])
             /\ Opened(h, wire[LinkOf[h]])' /\ Closed(h, wire[LinkOf[h]])'
    <2>1. LinkOf[h] # LinkOf[g] /\ wire'[LinkOf[h]] = wire[LinkOf[h]]
        BY DEF Alone, FrameInv, WireOK
    <2>2. Compressed(h)' = Compressed(h) /\ wpc'[h] = wpc[h] /\ job'[h] = job[h]
        BY DEF Compressed, Rests
    <2> QED
        BY <2>1, <2>2 DEF FrameInv, Opened, Closed
<1>3. \A h \in Writers : /\ Whole(wire'[LinkOf[h]])
                         /\ Opened(h, wire[LinkOf[h]])' /\ Closed(h, wire[LinkOf[h]])'
    BY <1>1, <1>2
<1> QED
    BY <1>1, <1>3 DEF FrameInv

LEMMA Silent ==
    ASSUME Alone, TrafficInv, FrameInv, NEW g \in Writers, UNCHANGED wire, broken \subseteq broken',
           \A h \in Writers \ {g} : Rests(h),
           \/ /\ wpc[g] \notin {"mask", "payload"} /\ wpc'[g] \notin {"mask", "payload"}
           \/ /\ wpc[g] = "mask" /\ wpc'[g] = "payload" /\ job'[g] = job[g]
           \/ /\ wpc'[g] = "idle" /\ LinkOf[g] \in broken'
    PROVE  FrameInv'
<1>1. PICK w \in Seq(Items) : w = wire[LinkOf[g]] /\ wire' = [wire EXCEPT ![LinkOf[g]] = w]
    BY DEF FrameInv, WireOK
<1>2. Whole(w) /\ Opened(g, w) /\ Closed(g, w)
    BY <1>1 DEF FrameInv
<1>3. Opened(g, w)' /\ Closed(g, w)'
    BY <1>2 DEF Opened, Closed, Compressed
<1> QED
    BY <1>1, <1>2, <1>3, Sends

LEMMA HeaderFrame ==
    ASSUME Alone, TrafficInv, FrameInv, NEW g \in Writers, WriteHeader(g)
    PROVE  FrameInv'
<1>1. /\ WriterOK /\ wpc[g] = "header" /\ UNCHANGED <<job, out, broken>> /\ LinkOf[g] \notin broken
      /\ wpc' = [wpc EXCEPT ![g] = IF out[g].len = 0 THEN "idle"
                                   ELSE IF MasksFor[g] THEN "mask" ELSE "payload"]
    BY DEF TrafficInv, WriterInv, WriteHeader, GotoW, Transmit
<1>2. PICK x \in Headers :
          /\ x.by = g /\ x.k = "header" /\ x.rsv1 = Compressed(g) /\ x.text = job[g].text
          /\ x.len = out[g].len /\ wire' = [wire EXCEPT ![LinkOf[g]] = Append(@, x)]
    <2>1. Compressed(g) \in BOOLEAN
        BY WriterAssumption DEF Compressed, Compresses
    <2>2. job[g].text \in Seq(Tokens) /\ out[g].len \in Nat
        BY <1>1, ViewOK DEF WriterOK, Jobs
    <2>3. [by |-> g, k |-> "header", rsv1 |-> Compressed(g), text |-> job[g].text,
           len |-> out[g].len] \in Headers
        BY <2>1, <2>2 DEF Headers
    <2> QED
        BY <2>3 DEF WriteHeader, Transmit
<1>3. PICK w \in Seq(Items) :
          /\ w = wire[LinkOf[g]] /\ wire' = [wire EXCEPT ![LinkOf[g]] = Append(w, x)]
          /\ Whole(w) /\ \A i \in Items : LastIs(w, i) => ~Announces(i)
    BY <1>1, <1>2 DEF FrameInv, WireOK, Closed
<1>4. /\ Append(w, x) \in Seq(Items) /\ Whole(Append(w, x)) /\ LastIs(Append(w, x), x)
    BY <1>2, <1>3, AppendWhole DEF Items
<1>5. PICK v \in Seq(Items) : v = Append(w, x) /\ Whole(v) /\ LastIs(v, x)
    BY <1>4
<1>6. Compressed(g)' = Compressed(g)
    BY <1>1 DEF Compressed
<1>7. Opened(g, v)'
    BY <1>1, <1>2, <1>5, <1>6 DEF Opened
<1>8. Closed(g, v)'
    <2>1. ASSUME wpc'[g] \notin {"mask", "payload"}, NEW i \in Items, LastIs(v, i)
          PROVE  ~Announces(i)
        BY <1>1, <1>2, <1>5, <2>1 DEF LastIs, Announces, WriterOK
    <2> QED
        BY <2>1 DEF Closed
<1>9. \A h \in Writers \ {g} : Rests(h)
    BY <1>1 DEF Rests, WriterOK
<1> QED
    BY <1>1, <1>3, <1>5, <1>7, <1>8, <1>9, Sends

(* The bytes of the payload are those that the last header announced. *)
LEMMA PayloadFrame ==
    ASSUME Alone, TrafficInv, FrameInv, NEW g \in Writers, WritePayload(g),
           Transmit(g, [by |-> g, k |-> "payload", text |-> mem[out[g].buf]]), UNCHANGED broken
    PROVE  FrameInv'
<1>1. /\ WriterOK /\ wpc[g] = "payload" /\ job' = job /\ wpc' = [wpc EXCEPT ![g] = "idle"]
      /\ out' = [out EXCEPT ![g] = Nil] /\ mem[out[g].buf] = Body(g)
    BY DEF TrafficInv, WriterInv, WritePayload, GotoW, Faithful
<1>2. PICK x \in Payloads :
          /\ x.by = g /\ x.k = "payload" /\ x.text = Body(g)
          /\ wire' = [wire EXCEPT ![LinkOf[g]] = Append(@, x)]
    <2>1. job[g].text \in Seq(Tokens)
        BY <1>1 DEF WriterOK, Jobs
    <2>2. Deflated(job[g].text) \in Seq(Tokens)
        BY <2>1, TextOK
    <2>3. Body(g) \in Seq(Tokens)
        BY <2>1, <2>2, TextOK DEF Body
    <2>4. [by |-> g, k |-> "payload", text |-> Body(g)] \in Payloads
        BY <2>3 DEF Payloads
    <2> QED
        BY <1>1, <2>4 DEF Transmit
<1>3. PICK w \in Seq(Items) :
          /\ w = wire[LinkOf[g]] /\ wire' = [wire EXCEPT ![LinkOf[g]] = Append(w, x)]
          /\ Whole(w) /\ Opened(g, w)
    BY <1>2 DEF FrameInv, WireOK
<1>4. PICK h \in Headers : /\ LastIs(w, h) /\ h.by = g
                           /\ h.rsv1 = Compressed(g) /\ h.text = job[g].text
    BY <1>1, <1>3 DEF Opened
<1>5. h.k = "header" /\ Encoded(h) = Body(g)
    BY <1>4 DEF Headers, Encoded, Body
<1>6. h \in Items /\ x \in Items /\ Follows(h, x)
    BY <1>2, <1>4, <1>5 DEF Items, Follows
<1>7. /\ Append(w, x) \in Seq(Items) /\ Whole(Append(w, x)) /\ LastIs(Append(w, x), x)
    BY <1>2, <1>3, <1>4, <1>6, AppendWhole
<1>8. PICK v \in Seq(Items) : v = Append(w, x) /\ Whole(v) /\ LastIs(v, x)
    BY <1>7
<1>9. wpc'[g] = "idle"
    BY <1>1 DEF WriterOK
<1>10. \A i \in Items : LastIs(v, i) => ~Announces(i)
    BY <1>2, <1>8 DEF LastIs, Announces
<1>11. Opened(g, v)' /\ Closed(g, v)'
    BY <1>9, <1>10 DEF Opened, Closed
<1>12. \A i \in Writers \ {g} : Rests(i)
    BY <1>1 DEF Rests, WriterOK
<1> QED
    BY <1>3, <1>8, <1>11, <1>12, Sends

LEMMA FrameStep ==
    ASSUME Alone, TrafficInv, FrameInv, NEW g \in Writers,
           Writing(g) \/ (\E x \in Broadcast : Broadcasts(g, x)) \/ (g \in Sessions /\ Echo(g))
    PROVE  FrameInv'
<1>1. \A h \in Writers \ {g} : Rests(h)
    BY WriterStep DEF WriterEffect
<1>2. wpc \in [Writers -> Wpcs]
    BY DEF TrafficInv, WriterInv, WriterOK
<1>3. ASSUME NEW x, BeginWrite(g, x) PROVE FrameInv'
    <2>1. /\ UNCHANGED <<wire, broken>> /\ wpc[g] = "idle"
          /\ wpc'[g] \notin {"mask", "payload"}
        BY <1>2, <1>3 DEF BeginWrite, GotoW
    <2> QED
        BY <1>1, <2>1, Silent
<1>4. ASSUME NEW d, CompressWrites(g, d) \/ CompressEnds(g) PROVE FrameInv'
    <2>1. /\ UNCHANGED <<wire, broken>> /\ wpc[g] = "compress"
          /\ wpc'[g] \notin {"mask", "payload"}
        BY <1>2, <1>4 DEF CompressWrites, CompressEnds, GotoW
    <2> QED
        BY <1>1, <2>1, Silent
<1>5. CASE WriteHeaderFails(g)
    <2>1. /\ UNCHANGED wire /\ wpc'[g] = "idle" /\ broken \subseteq broken' /\ LinkOf[g] \in broken'
        BY <1>2, <1>5 DEF WriteHeaderFails, GotoW
    <2> QED
        BY <1>1, <2>1, Silent
<1>6. CASE MaskPayload(g)
    <2>1. /\ UNCHANGED <<wire, broken>> /\ wpc[g] = "mask" /\ wpc'[g] = "payload" /\ job' = job
        BY <1>2, <1>6 DEF MaskPayload, GotoW
    <2> QED
        BY <1>1, <2>1, Silent
<1>7. CASE WritePayload(g)
    <2>1. CASE /\ Transmit(g, [by |-> g, k |-> "payload", text |-> mem[out[g].buf]])
               /\ UNCHANGED broken
        BY <1>7, <2>1, PayloadFrame
    <2>2. CASE broken' = broken \cup {LinkOf[g]} /\ UNCHANGED wire
        <3>1. wpc'[g] = "idle" /\ broken \subseteq broken' /\ LinkOf[g] \in broken'
            BY <1>2, <1>7, <2>2 DEF WritePayload, GotoW
        <3> QED
            BY <1>1, <2>2, <3>1, Silent
    <2> QED
        BY <1>7, <2>1, <2>2 DEF WritePayload
<1> QED
    BY <1>3, <1>4, <1>5, <1>6, <1>7, HeaderFrame DEF Writing, WriteSteps, Broadcasts, Echo

(* Each peer gets frames: a payload directly follows its header and is what *)
(* the caller passed to writeMessageInternal, compressed and masked once as *)
(* the header says, whoever shares the pools or the payload and whichever   *)
(* write fails; provided each connection has one writer.                    *)
THEOREM FramesCorrect ==
    ASSUME Alone
    PROVE  TrafficSpec => []FramesIntact
<1>1. TrafficInit => FrameInv
    <2> SUFFICES ASSUME TrafficInit PROVE FrameInv
        OBVIOUS
    <2>1. WireOK /\ \A g \in Writers : wire[LinkOf[g]] = << >> /\ wpc[g] = "idle"
        BY DEF TrafficInit, WriterInit, WireOK
    <2>2. Whole(<< >>) /\ \A i : ~LastIs(<< >>, i)
        BY DEF Whole, LastIs
    <2> QED
        BY <2>1, <2>2 DEF FrameInv, Opened, Closed
<1>2. TrafficInv /\ FrameInv /\ [TrafficNext]_trafficVars => FrameInv'
    <2> SUFFICES ASSUME TrafficInv, FrameInv, [TrafficNext]_trafficVars
                 PROVE  FrameInv'
        OBVIOUS
    <2>1. CASE UNCHANGED writerVars
        BY <2>1 DEF writerVars, FrameInv, WireOK, Opened, Closed, Compressed
    <2>2. \A s \in Sessions : s \in Writers
        BY TrafficAssumption
    <2> QED
        BY <2>1, <2>2, FrameStep DEF TrafficNext, SessionStep, trafficVars
<1>3. FrameInv => FramesIntact
    <2> SUFFICES ASSUME FrameInv, NEW c \in DOMAIN wire PROVE Whole(wire[c])
        BY DEF FramesIntact, Whole, Follows, Announces
    <2>1. PICK g \in Writers : c = LinkOf[g]
        BY DEF FrameInv, WireOK
    <2> QED
        BY <2>1 DEF FrameInv
<1>4. TrafficSpec => []TrafficInv
    BY TrafficInvHolds
<1> QED
    BY <1>1, <1>2, <1>3, <1>4, PTL DEF TrafficSpec
=============================================================================
