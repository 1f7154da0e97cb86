------------------------------ MODULE WsWriter ------------------------------
(***************************************************************************)
(* Writing WebSocket messages: WriteMessage and WriteClientMessage of      *)
(* pkg/websocket/writer.go with CompressData and the PooledWriter, called  *)
(* by several goroutines that share the payload buffers and, when an       *)
(* application broadcasts, the payload itself.                             *)
(*                                                                         *)
(* Bytes are named by the array the application passed; Deflated and       *)
(* Masked say what was done to them.                                       *)
(***************************************************************************)
EXTENDS PayloadPool

CONSTANTS
    Writers,            \* goroutines that write
    LinkOf, MasksFor,   \* the connection of each; whether it is a client's
    EnableCompression,  \* of the Config they pass
    Pieces,             \* sizes in which the compressor hands on its output
    MaxPieces,          \* bound: pieces of one message
    WritesFail          \* a connection may break

ASSUME WriterAssumption ==
    /\ MasksFor \in [Writers -> BOOLEAN] /\ EnableCompression \in BOOLEAN
    /\ Pieces \subseteq Nat \ {0} /\ MaxPieces \in Nat
    /\ WritesFail \in BOOLEAN

VARIABLES
    wpc,       \* where a call of writeMessageInternal is
    job,       \* its payload argument, and the bytes that was called with
    out,       \* the slice that holds what it will write
    pieces,    \* pieces compressed so far
    wire,      \* history: what went out on each connection
    broken,    \* connections on which writes fail
    lost       \* history: a call failed and kept its buffer

writerVars == <<wpc, job, out, pieces, wire, broken, lost>>

WriterInit ==
    /\ wpc = [g \in Writers |-> "idle"]
    /\ job = [g \in Writers |-> [src |-> Nil, text |-> << >>]]
    /\ out = [g \in Writers |-> Nil]
    /\ pieces = [g \in Writers |-> 0]
    /\ wire = [c \in {LinkOf[g] : g \in Writers} |-> << >>]
    /\ broken = {}
    /\ lost = FALSE

Deflated(text) == << <<"deflated", 0>> >> \o text
Masked(text) == << <<"masked", 0>> >> \o text

minCompressSize == 1024

(* Text and binary messages; those of control frames are smaller *)
Compresses(src) == EnableCompression /\ src.len >= minCompressSize
Compressed(g) == Compresses(job[g].src)

GotoW(g, here, there) == wpc[g] = here /\ wpc' = [wpc EXCEPT ![g] = there]

-----------------------------------------------------------------------------
(* A call with the slice src: as it is, or into a PooledWriter.  An array   *)
(* that the application shares between calls is not written by it.          *)
BeginWrite(g, src) ==
    /\ GotoW(g, "idle", IF Compresses(src) THEN "compress" ELSE "header")
    /\ job' = [job EXCEPT ![g] = [src |-> src, text |-> mem[src.buf]]]
    /\ \E slice \in IF Compresses(src)
                    THEN {[b EXCEPT !.len = 0] : b \in getPayloadBuffer(pool, Max({512, src.len}))}
                    ELSE {src} :
          /\ out' = [out EXCEPT ![g] = slice]
          /\ pool' = IF Compresses(src) THEN Without(pool, slice) ELSE pool
    /\ pieces' = [pieces EXCEPT ![g] = 0]
    /\ UNCHANGED <<mem, wire, broken, lost>>

(* Mutant: the outgrown buffer is not put back *)
PutOutgrownNever(p, slice) == p

PutOutgrown(p, slice) ==
    IF slice.cap >= 512 /\ slice.cap <= 65536 THEN putPayloadBuffer(p, slice) ELSE p

(* PooledWriter.Write of d bytes; it never fails, and so the compressor     *)
(* does not either.                                                         *)
CompressWrites(g, d) ==
    LET old == out[g]
        required == old.len + d
        fits == required <= old.cap
    IN  /\ GotoW(g, "compress", "compress")
        /\ pieces[g] < MaxPieces
        /\ pieces' = [pieces EXCEPT ![g] = @ + 1]
        /\ \E new \in IF fits THEN {old} ELSE getPayloadBuffer(pool, Max({2 * old.cap, required})) :
              /\ out' = [out EXCEPT ![g] = [new EXCEPT !.len = required]]
              /\ mem' = [mem EXCEPT ![new.buf] = Deflated(mem[job[g].src.buf])]
              /\ pool' = IF fits THEN pool ELSE PutOutgrown(Without(pool, new), old)
        /\ UNCHANGED <<job, wire, broken, lost>>

CompressEnds(g) ==
    /\ GotoW(g, "compress", "header")
    /\ out[g].len > 0
    /\ UNCHANGED <<memVars, job, out, pieces, wire, broken, lost>>

Transmit(g, token) ==
    /\ LinkOf[g] \notin broken
    /\ wire' = [wire EXCEPT ![LinkOf[g]] = Append(@, token)]

(* ws.WriteHeader; then, for a payload, the mask or the bytes as they are *)
WriteHeader(g) ==
    /\ GotoW(g, "header", IF out[g].len = 0 THEN "idle"
                          ELSE IF MasksFor[g] THEN "mask" ELSE "payload")
    /\ Transmit(g, [by |-> g, k |-> "header", rsv1 |-> Compressed(g),
                    text |-> job[g].text, len |-> out[g].len])
    /\ UNCHANGED <<memVars, job, out, pieces, broken, lost>>

(* rand.Read or ws.WriteHeader fails: return, and a compressed payload is   *)
(* not put back.                                                            *)
WriteHeaderFails(g) ==
    /\ WritesFail
    /\ GotoW(g, "header", "idle")
    /\ broken' = broken \cup {LinkOf[g]}
    /\ lost' = (lost \/ Compressed(g))
    /\ out' = [out EXCEPT ![g] = Nil]
    /\ UNCHANGED <<memVars, job, pieces, wire>>

(* Mutant: the application's payload is masked in place *)
MaskTargetsInPlace(g) == {out[g]}

(* A compressed payload is the writer's own; any other is copied first *)
MaskTargets(g) ==
    IF Compressed(g) THEN {out[g]} ELSE getPayloadBuffer(pool, out[g].len)

(* ws.Cipher *)
MaskPayload(g) ==
    /\ GotoW(g, "mask", "payload")
    /\ \E slice \in MaskTargets(g) :
          /\ out' = [out EXCEPT ![g] = slice]
          /\ mem' = [mem EXCEPT ![slice.buf] = Masked(mem[out[g].buf])]
          /\ pool' = IF slice = out[g] THEN pool ELSE Without(pool, slice)
    /\ UNCHANGED <<job, pieces, wire, broken, lost>>

(* Mutant: whatever was written is put back *)
AfterPayloadPutsAll(g) == putPayloadBuffer(pool, out[g])

(* Copied or compressed payloads go back, the application's does not *)
AfterPayload(g) ==
    IF MasksFor[g] \/ Compressed(g) THEN putPayloadBuffer(pool, out[g]) ELSE pool

WritePayload(g) ==
    /\ GotoW(g, "payload", "idle")
    /\ \/ /\ Transmit(g, [by |-> g, k |-> "payload", text |-> mem[out[g].buf]])
          /\ UNCHANGED broken
       \/ /\ WritesFail
          /\ broken' = broken \cup {LinkOf[g]}
          /\ UNCHANGED wire
    /\ pool' = AfterPayload(g)
    /\ out' = [out EXCEPT ![g] = Nil]
    /\ UNCHANGED <<mem, job, pieces, lost>>

WriteSteps(g) ==
    \/ \E d \in Pieces : CompressWrites(g, d)
    \/ CompressEnds(g)
    \/ WriteHeader(g)
    \/ WriteHeaderFails(g)
    \/ MaskPayload(g)
    \/ WritePayload(g)

-----------------------------------------------------------------------------
(* What each peer gets are frames: a payload directly follows its own       *)
(* header, and is what the caller passed, compressed and masked once, as    *)
(* the header says; whoever else used the buffers or the payload meanwhile. *)
Encoded(h) ==
    LET text == IF h.rsv1 THEN Deflated(h.text) ELSE h.text
    IN  IF MasksFor[h.by] THEN Masked(text) ELSE text
FramesIntact ==
    \A c \in DOMAIN wire : \A i \in DOMAIN wire[c] :
        /\ wire[c][i].k = "payload" =>
              /\ i > 1
              /\ wire[c][i - 1].k = "header" /\ wire[c][i - 1].by = wire[c][i].by
              /\ wire[c][i].text = Encoded(wire[c][i - 1])
        /\ wire[c][i].k = "header" /\ i < Len(wire[c]) /\ wire[c][i].len > 0 =>
              wire[c][i + 1].k = "payload"

(* The slices that writers own *)
OwnedByWriter(b) ==
    {g \in Writers : /\ out[g].buf = b
                     /\ Compressed(g) \/ (wpc[g] = "payload" /\ MasksFor[g])}
=============================================================================
