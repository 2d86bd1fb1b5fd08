-------------------------------- MODULE Wire --------------------------------
(***************************************************************************)
(* Frames on a byte stream.  A connection's writer sends frame after       *)
(* frame: WriteFrame writes the header and then the payload, each with     *)
(* WriteAll, which calls Write until all is accepted.  Write is either     *)
(* that of a plain pipe (any short write) or winSockPipe.Write, which      *)
(* cuts the data into chunks and tries smaller pieces when WSASend says    *)
(* WSAEMSGSIZE.  At the other end Read serves bytes from a cache filled    *)
(* by one receive at a time, and Decode asks for the prefix, the rest of   *)
(* the header and the payload.                                             *)
(*                                                                         *)
(* A byte is <<f, i>>, the i-th byte of frame f; what a field says is a    *)
(* property of the byte that ends it (LenField, Magic).                    *)
(***************************************************************************)
EXTENDS Naturals, Sequences, FiniteSetsExt

CONSTANTS
  payload,   \* the lengths of the payloads of the frames, in sending order
  HdrLen,    \* headerTcpSize
  Prefix,    \* bytes Decode reads to find the magic number
  W, R,      \* winRFCOMMWriteChunkBytes, winRFCOMMReadChunkBytes
  Pipes      \* kinds of pipe: "plain", "windows"

ASSUME WireAssumption ==
  /\ payload \in Seq(Nat) /\ Pipes \subseteq {"plain", "windows"}
  /\ HdrLen \in Nat /\ Prefix \in 1..(HdrLen - 1) /\ W \in Nat \ {0} /\ R \in Nat \ {0}

Frames == 1..Len(payload)
Header(f) == [i \in 1..HdrLen |-> <<f, i>>]
Payload(f) == [i \in 1..payload[f] |-> <<f, HdrLen + i>>]
Bytes(f) == Header(f) \o Payload(f)
Size(f) == HdrLen + payload[f]
Byte == Frames \X Nat

VARIABLES
  pipe,    \* the kind of pipe
  cur,     \* the frame being written, 0 between frames
  seg,     \* the buffer of WriteAllBuffers being written: "header", "payload"
  rest,    \* data of WriteAll: what Write has not accepted yet
  w,       \* winSockPipe.Write: [total], and writeWithMsgSizeFallback:
           \* [active, len, ftotal, chunk, tick]; tick makes a refused
           \* piece a step of its own
  result,  \* what WriteFrame answered: "none", "ok", "err"
  out,     \* every byte that was put on the stream
  rpos,    \* how many of them were received
  cache,   \* readCache
  buf,     \* the bytes of the frame Decode is reading
  stage,   \* Decode: "prefix", "header", "payload"; "failed" when it rejects
           \* the prefix, "ended" when Read failed
  need,    \* bytes of the frame up to the end of the stage
  got,     \* frames given to DispatchReceive
  torn     \* history: a write failed with part of its frame on the stream

sender == <<cur, seg, rest, w, result, torn>>
receiver == <<rpos, cache, buf, stage, need, got>>
wireVars == <<pipe, sender, out, receiver>>

NoWrite == [total |-> 0, active |-> FALSE, len |-> 0, ftotal |-> 0, chunk |-> 0, tick |-> FALSE]

WireInit ==
  /\ pipe \in Pipes
  /\ cur = 0 /\ seg = "header" /\ rest = <<>> /\ w = NoWrite
  /\ result = [f \in Frames |-> "none"] /\ torn = FALSE
  /\ out = <<>> /\ rpos = 0 /\ cache = <<>> /\ buf = <<>>
  /\ stage = "prefix" /\ need = Prefix /\ got = <<>>

-----------------------------------------------------------------------------
(* WriteFrame, WriteAllBuffers, WriteAll *)

\* The writer goroutine takes the next frame, also after a failed one.
WriteFrame(f) ==
  /\ cur = 0 /\ result[f] = "none" /\ (\A e \in 1..(f-1) : result[e] # "none")
  /\ cur' = f /\ seg' = "header" /\ rest' = Header(f)
  /\ UNCHANGED <<pipe, w, result, torn, out, receiver>>

Answer(r) ==
  /\ result' = [result EXCEPT ![cur] = r]
  /\ cur' = 0 /\ rest' = <<>> /\ UNCHANGED seg

\* WriteAll after Write answered (n, err): on with the rest, or the end of
\* this buffer, or an error (no progress is one too).
WriteReturns(n, err) ==
  LET left == SubSeq(rest, n + 1, Len(rest)) IN
  /\ w' = NoWrite
  /\ CASE left = <<>> /\ seg = "header" /\ payload[cur] > 0 ->
            seg' = "payload" /\ rest' = Payload(cur) /\ UNCHANGED <<cur, result, torn>>
       [] left = <<>> /\ (seg = "payload" \/ payload[cur] = 0) ->
            Answer("ok") /\ UNCHANGED torn
       [] left # <<>> /\ (err \/ n = 0) ->
            /\ Answer("err")
            /\ torn' = (torn \/ seg = "payload" \/ Len(left) < HdrLen)
       [] OTHER -> rest' = left /\ UNCHANGED <<cur, seg, result, torn>>

\* Write of a plain pipe takes some of the data, with or without an error.
PlainWrite(n, err) ==
  /\ pipe = "plain" /\ cur # 0 /\ n <= Len(rest)
  /\ out' = out \o SubSeq(rest, 1, n)
  /\ WriteReturns(n, err)
  /\ UNCHANGED <<pipe, receiver>>

-----------------------------------------------------------------------------
(* winSockPipe.Write *)

Errors == {"nil", "msgsize", "other"}

\* The loop of Write after writeChunkWithFallback answered (n, err).
ChunkReturns(n, err) ==
  LET total == w.total + n IN
  IF err \/ n = 0 \/ total = Len(rest) THEN WriteReturns(total, err \/ n = 0)
  ELSE w' = [NoWrite EXCEPT !.total = total] /\ UNCHANGED <<cur, seg, rest, result, torn>>

\* Faulty variant: the fallback starts over, not after the bytes that went out.
SendChunkAgain(n, e) ==
  LET len == Min({W, Len(rest) - w.total}) IN
  /\ pipe = "windows" /\ cur # 0 /\ ~w.active /\ n <= len
  /\ out' = out \o SubSeq(rest, w.total + 1, w.total + n)
  /\ IF e = "msgsize" /\ n < len
     THEN /\ w' = [total |-> w.total, active |-> TRUE, len |-> len, ftotal |-> 0,
                   chunk |-> Max({1, len \div 2}), tick |-> FALSE]
          /\ UNCHANGED <<cur, seg, rest, result, torn>>
     ELSE ChunkReturns(n, e = "other")
  /\ UNCHANGED <<pipe, receiver>>

\* writeChunkWithFallback: one WSASend of the chunk, which took n bytes.
SendChunk(n, e) ==
  LET len == Min({W, Len(rest) - w.total}) IN
  /\ pipe = "windows" /\ cur # 0 /\ ~w.active /\ n <= len
  /\ out' = out \o SubSeq(rest, w.total + 1, w.total + n)
  /\ IF e = "msgsize" /\ n < len
     THEN /\ w' = [total |-> w.total, active |-> TRUE, len |-> len, ftotal |-> n,
                   chunk |-> Max({1, Min({W, (len - n) \div 2})}), tick |-> FALSE]
          /\ UNCHANGED <<cur, seg, rest, result, torn>>
     ELSE ChunkReturns(n, e = "other")
  /\ UNCHANGED <<pipe, receiver>>

\* Faulty variant: a piece of one byte is tried again too.
SendPieceForever(n, e) ==
  LET len == Min({w.chunk, w.len - w.ftotal})
      ftotal == w.ftotal + n
  IN
  /\ pipe = "windows" /\ cur # 0 /\ w.active /\ n <= len
  /\ out' = out \o SubSeq(rest, w.total + w.ftotal + 1, w.total + ftotal)
  /\ IF e = "msgsize" /\ n = 0
     THEN /\ w' = [w EXCEPT !.chunk = Max({1, @ \div 2}), !.tick = ~@]
          /\ UNCHANGED <<cur, seg, rest, result, torn>>
     ELSE ChunkReturns(ftotal, e # "nil" \/ ftotal < w.len)
  /\ UNCHANGED <<pipe, receiver>>

\* writeWithMsgSizeFallback: one WSASend of a piece; smaller pieces while
\* nothing is accepted.
SendPiece(n, e) ==
  LET len == Min({w.chunk, w.len - w.ftotal})
      ftotal == w.ftotal + n
  IN
  /\ pipe = "windows" /\ cur # 0 /\ w.active /\ n <= len
  /\ out' = out \o SubSeq(rest, w.total + w.ftotal + 1, w.total + ftotal)
  /\ CASE e = "msgsize" /\ n = 0 /\ w.chunk > 1 ->
            /\ w' = [w EXCEPT !.chunk = @ \div 2, !.tick = ~@]
            /\ UNCHANGED <<cur, seg, rest, result, torn>>
       [] e = "nil" /\ n > 0 /\ ftotal < w.len ->
            /\ w' = [w EXCEPT !.ftotal = ftotal]
            /\ UNCHANGED <<cur, seg, rest, result, torn>>
       [] e = "nil" /\ n > 0 /\ ftotal = w.len -> ChunkReturns(ftotal, FALSE)
       [] OTHER -> ChunkReturns(ftotal, TRUE)
  /\ UNCHANGED <<pipe, receiver>>

-----------------------------------------------------------------------------
(* The reader: winSockPipe.Read under io.ReadFull under Decode *)

\* fillReadCacheLocked: one receive.
FillCache(n) ==
  /\ cache = <<>> /\ stage \notin {"failed", "ended"} /\ rpos + n <= Len(out)
  /\ cache' = SubSeq(out, rpos + 1, rpos + n) /\ rpos' = rpos + n
  /\ UNCHANGED <<pipe, sender, out, buf, stage, need, got>>

\* The receive fails, or the peer has closed: ReadLoop ends.
ReceiveFails ==
  /\ cache = <<>> /\ stage \notin {"failed", "ended"}
  /\ stage' = "ended"
  /\ UNCHANGED <<pipe, sender, out, rpos, cache, buf, need, got>>

\* Whether the bytes read so far begin with the magic number, and what the
\* length field says.  Bytes that are not a header may say anything.
Magic(b) == IF \A i \in 1..Prefix : b[i][2] = i THEN {TRUE} ELSE BOOLEAN
LenField(b) == IF b[HdrLen][2] = HdrLen THEN {payload[b[HdrLen][1]]}
               ELSE {payload[f] : f \in Frames}

Stage(s, n) == stage' = s /\ need' = n /\ UNCHANGED got
Deliver(b) == got' = Append(got, b) /\ stage' = "prefix" /\ need' = Prefix

\* Faulty variant: what does not fit the caller's buffer is dropped.
ReadDropsRest(n) ==
  /\ cache # <<>> /\ n = Min({Len(cache), need - Len(buf)})
  /\ cache' = <<>>

\* winSockPipe.Read copies n bytes and keeps the rest for the next call.
Read(n) ==
  /\ cache # <<>> /\ n = Min({Len(cache), need - Len(buf)})
  /\ cache' = SubSeq(cache, n + 1, Len(cache))

\* Decode: io.ReadFull reads on; at the end of a stage Decode looks at it.
Decode(n) ==
  LET b == buf \o SubSeq(cache, 1, n) IN
  /\ stage \notin {"failed", "ended"}
  /\ Read(n)
  /\ IF Len(b) < need THEN buf' = b /\ UNCHANGED <<stage, need, got>>
     ELSE \/ /\ stage = "prefix" /\ TRUE \in Magic(b)
             /\ buf' = b /\ Stage("header", HdrLen)
          \/ /\ stage = "prefix" /\ FALSE \in Magic(b)
             /\ buf' = b /\ Stage("failed", need)
          \/ /\ stage = "header"
             /\ \E p \in LenField(b) :
                  IF p = 0 THEN buf' = <<>> /\ Deliver(b)
                  ELSE buf' = b /\ Stage("payload", HdrLen + p)
          \/ /\ stage = "payload" /\ buf' = <<>> /\ Deliver(b)
  /\ UNCHANGED <<pipe, sender, out, rpos>>

WriteStep ==
  \/ \E n \in 0..Max({HdrLen} \cup {payload[f] : f \in Frames}), err \in BOOLEAN : PlainWrite(n, err)
  \/ \E n \in 0..W, e \in Errors : SendChunk(n, e) \/ SendPiece(n, e)

WireNext ==
  \/ \E f \in Frames : WriteFrame(f)
  \/ WriteStep
  \/ \E n \in 1..R : FillCache(n)
  \/ ReceiveFails
  \/ \E n \in 1..R : Decode(n)

WireSpec == WireInit /\ [][WireNext]_wireVars

\* A WSASend ends, at the latest with SO_SNDTIMEO; a plain pipe may block as
\* long as its peer does not read.
WireFairness == WF_wireVars(pipe = "windows" /\ WriteStep)

-----------------------------------------------------------------------------
(* Properties *)

\* The sender's and the receiver's data are bytes of frames.
WireTypeOK ==
  /\ pipe \in {"plain", "windows"} /\ torn \in BOOLEAN
  /\ cur \in Frames \cup {0} /\ seg \in {"header", "payload"}
  /\ result \in [Frames -> {"none", "ok", "err"}]
  /\ w \in [total : Nat, active : BOOLEAN, len : Nat, ftotal : Nat, chunk : Nat, tick : BOOLEAN]
  /\ rest \in Seq(Byte) /\ out \in Seq(Byte) /\ cache \in Seq(Byte) /\ buf \in Seq(Byte)
  /\ rpos \in Nat /\ need \in Nat /\ got \in Seq(Seq(Byte))
  /\ stage \in {"prefix", "header", "payload", "failed", "ended"}

\* Until a write has failed in the middle of a frame, the reader delivers
\* exactly the frames whose WriteFrame answered nil, in order and whole, and
\* Decode rejects nothing (WriteAllBuffers, Write, Read, Decode).
FrameOf(b) == b[1][1]
DeliveredAsSent ==
  ~torn =>
    /\ stage # "failed"
    /\ \A i \in 1..Len(got) :
         LET f == FrameOf(got[i]) IN
         /\ f \in Frames /\ result[f] = "ok" /\ got[i] = Bytes(f)
         /\ \A j \in 1..(i-1) : FrameOf(got[j]) < f
         /\ \A e \in 1..(f-1) : result[e] = "ok" => \E j \in 1..(i-1) : got[j] = Bytes(e)

\* The first n bytes of f are on the stream, each once, in order and together.
OnStream(f, n) ==
  \E a \in 0..Len(out) :
    /\ a + n <= Len(out)
    /\ \A i \in 1..n : out[a+i] = <<f, i>>
    /\ \A k \in 1..Len(out) : out[k][1] = f => k \in (a+1)..(a+n)

\* WriteFrame answers nil exactly when every byte of the frame went out, each
\* once and in order; after an error a proper prefix went out (WriteAll, the
\* chunks of Write and its fallback).
OkIffWritten ==
  \A f \in Frames :
    /\ result[f] = "ok" => OnStream(f, Size(f))
    /\ result[f] = "err" => \E n \in 0..(Size(f)-1) : OnStream(f, n)

\* WriteFrame on a winSockPipe answers, however often WSASend refuses the
\* size: the fallback does not try for ever (writeWithMsgSizeFallback).
WriteEnds == (cur # 0 /\ pipe = "windows") ~> (cur = 0)
=============================================================================
