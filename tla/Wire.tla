-------------------------------- MODULE Wire --------------------------------
(***************************************************************************)
(* What reaches the bridge from Cursor, under the meaning of its messages: *)
(* the frames of a Run, cut into chunks anywhere (connect-frame.ts and the *)
(* handler of a Run's chunks), and the body of a unary response, plain or  *)
(* gzip (unary-body.ts, unary-transport.ts).                               *)
(*                                                                         *)
(* Data abstracted away: the content of payloads (their lengths, encoded   *)
(* and decoded), the JSON of a trailer (whether it carries an error), the  *)
(* bytes of a frame's header (HeaderBytes of them).                        *)
(***************************************************************************)
EXTENDS Integers, FiniteSets, SequencesExt

CONSTANTS
    StreamFrames,      \* the frames upstream sends
    MaxFrames,         \* bound on the frames of a Run
    MaxChunk,          \* bound on the bytes of a chunk
    HeaderBytes,       \* 5 in the code
    MaxOutputBytes,    \* CURSOR_BRIDGE_MAX_OUTPUT_BYTES
    CompressedLimit,   \* maxUnaryCompressedBytes
    DecompressedLimit, \* maxUnaryDecompressedBytes
    MaxExpansion       \* bound on what one compressed byte expands to

FrameRecord ==
    [kind : {"message", "trailer", "badFlags"},
     bytes : Nat,                         \* of the payload, as sent
     decoded : Nat,                       \* of the payload, decompressed
     gzip : {"no", "yes", "invalid"},
     trailer : {"fine", "error", "invalid"}]

\* What the constants are.
WireConstants ==
    /\ StreamFrames \subseteq FrameRecord
    /\ {MaxFrames, MaxChunk, HeaderBytes, MaxOutputBytes, CompressedLimit,
        DecompressedLimit, MaxExpansion} \subseteq Nat \ {0}

VARIABLES
    frames,   \* what upstream sends over the Run
    decoder,  \* ConnectFrameDecoder, and how much reached it
    handled,  \* the messages the Run's handler was given
    failure,  \* why the Run failed: none, frame, trailer, limit
    body      \* one unary response and the reading of it

wireVars == <<frames, decoder, handled, failure, body>>

(***************************************************************************)
(* Frames                                                                  *)
(***************************************************************************)

DecoderState ==
    [received : Nat,    \* bytes of the stream so far
     taken : Nat,       \* frames taken off the buffer
     decoded : Nat,     \* decodedBytes
     encoded : Nat,     \* encodedBytes
     ended : BOOLEAN]

AddFrame(sum, f) == sum + HeaderBytes + f.bytes

\* The bytes of the first i frames.
BytesOf(i) == FoldLeft(AddFrame, 0, SubSeq(frames, 1, i))

\* What one push makes of the buffer: the frames it returns, or what it throws.
Pushed(chunk) ==
    [d |-> [decoder EXCEPT !.received = @ + chunk, !.encoded = @ + chunk],
     out |-> <<>>, thrown |-> "none", chunk |-> chunk]

\* Mutant: the bytes that follow the trailer in its chunk stay counted.
TakeFrame_CountsAfter(acc, i) ==
    LET frame == frames[i]
        taken == [acc.d EXCEPT !.taken = i]
        within == [taken EXCEPT !.decoded = @ + frame.decoded]
    IN  CASE \/ frame.kind = "badFlags" \/ frame.gzip = "invalid"
             \/ frame.decoded > MaxOutputBytes - acc.d.decoded
               -> [acc EXCEPT !.d = taken, !.thrown = "frame"]
          [] frame.kind = "message" -> [acc EXCEPT !.d = within, !.out = Append(@, i)]
          [] OTHER -> [acc EXCEPT !.d = [within EXCEPT !.ended = TRUE],
                                  !.out = Append(@, i),
                                  !.thrown = IF frame.trailer # "fine" /\ acc.out = <<>>
                                             THEN "trailer" ELSE "none"]

\* One turn of the loop, with frame i complete in the buffer.
TakeFrame(acc, i) ==
    LET frame == frames[i]
        remaining == MaxOutputBytes - acc.d.decoded
        taken == [acc.d EXCEPT !.taken = i]
        within == [taken EXCEPT !.decoded = @ + frame.decoded]
        previous == decoder.received - BytesOf(decoder.taken)
        consumed == BytesOf(i) - BytesOf(decoder.taken)
        accepted == IF consumed - previous < 0 THEN 0
                    ELSE IF consumed - previous < acc.chunk THEN consumed - previous ELSE acc.chunk
        fails == frame.gzip = "invalid" \/ frame.decoded > remaining
    IN  CASE frame.kind = "badFlags" -> [acc EXCEPT !.thrown = "frame"]
          [] frame.kind # "badFlags" /\ fails -> [acc EXCEPT !.d = taken, !.thrown = "frame"]
          [] frame.kind = "message" /\ ~fails -> [acc EXCEPT !.d = within, !.out = Append(@, i)]
          [] OTHER
               -> [acc EXCEPT !.d = [within EXCEPT !.encoded = @ - (acc.chunk - accepted),
                                                   !.ended = TRUE],
                              !.out = Append(@, i),
                              !.thrown = IF frame.trailer # "fine" /\ acc.out = <<>>
                                         THEN "trailer" ELSE "none"]

\* ConnectFrameDecoder.push
Push(chunk) ==
    LET step(acc, i) ==
            LET complete == IF frames[i].kind = "badFlags"
                            THEN BytesOf(i - 1) + HeaderBytes <= acc.d.received
                            ELSE BytesOf(i) <= acc.d.received
            IN  IF complete /\ acc.thrown = "none" /\ ~acc.d.ended THEN TakeFrame(acc, i)
                ELSE acc
    IN  IF decoder.ended THEN [Pushed(chunk) EXCEPT !.d = [decoder EXCEPT !.received = @ + chunk]]
        ELSE FoldLeft(step, Pushed(chunk),
                      [j \in 1..(Len(frames) - decoder.taken) |-> decoder.taken + j])

\* The handler of a Run's chunks, once the decoder has pushed one.
Handle(push) ==
    LET overrun == push.d.encoded > MaxOutputBytes
        last == IF push.out = <<>> THEN [kind |-> "none"] ELSE frames[Last(push.out)]
    IN  /\ decoder' = push.d
        /\ handled' = IF push.thrown = "none" /\ ~overrun THEN handled \o push.out ELSE handled
        /\ failure' = CASE push.thrown # "none" -> push.thrown
                        [] push.thrown = "none" /\ overrun -> "limit"
                        [] /\ push.thrown = "none" /\ ~overrun
                           /\ last.kind = "trailer" /\ last.trailer # "fine" -> "trailer"
                        [] OTHER -> "none"

\* A chunk of a Run that is neither settled nor held.
ReceiveChunk(chunk) ==
    /\ failure = "none"
    /\ decoder.received + chunk <= BytesOf(Len(frames))
    /\ Handle(Push(chunk))
    /\ UNCHANGED <<frames, body>>

(***************************************************************************)
(* The body of a unary response                                            *)
(***************************************************************************)

BodyState ==
    [gzip : BOOLEAN, via : {"fetch", "https"}, declaredOver : BOOLEAN,
     source : {"open", "ended", "failed", "cancelled"},
     compressed : Nat, decompressed : Nat,
     inflating : Nat,     \* decompressed bytes the reader has not seen
     result : {"pending", "body", "compressed", "decompressed", "error"},
     ahead : BOOLEAN,     \* a read of the source is under way that nobody awaits
     process : {"up", "down"}]

NewBody(gzip, via, over) ==
    [gzip |-> gzip, via |-> via, declaredOver |-> over, source |-> "open", compressed |-> 0,
     decompressed |-> 0, inflating |-> 0, result |-> "pending", ahead |-> FALSE,
     process |-> "up"]

BodyReading == body.result = "pending" /\ body.process = "up" /\ ~body.declaredOver

Others == UNCHANGED <<frames, decoder, handled, failure>>

\* The catch of readUnaryBody: the gunzip is destroyed, the source cancelled.  The
\* generator under the gunzip may have asked the source for more; cancelled through
\* fetch that read ends, a response that is destroyed makes it throw.
Rejects(b, kind) ==
    [b EXCEPT !.result = kind,
              !.source = IF @ = "open" THEN "cancelled" ELSE @]

\* The generator counted() throws.  Read by the loop itself, the loop rejects; read by
\* Readable.from(...).pipe(gunzip), the Readable emits an 'error' nobody listens to.
GeneratorThrows(b, kind) ==
    IF b.gzip THEN [b EXCEPT !.process = "down"] ELSE Rejects(b, kind)

\* A content-length over the limit.
RefuseDeclared ==
    /\ body.declaredOver /\ body.result = "pending"
    /\ body' = Rejects(body, "compressed")
    /\ Others

\* A chunk of one byte; a compressed one becomes expands bytes.
BodyChunk(expands) ==
    /\ BodyReading /\ body.source = "open"
    /\ LET b == [body EXCEPT !.compressed = @ + 1]
       IN  body' = CASE b.compressed > CompressedLimit -> GeneratorThrows(b, "compressed")
                     [] b.compressed <= CompressedLimit /\ b.gzip
                          -> [b EXCEPT !.inflating = @ + expands]
                     [] OTHER -> IF b.decompressed < DecompressedLimit
                                 THEN [b EXCEPT !.decompressed = @ + 1]
                                 ELSE Rejects(b, "decompressed")
    /\ Others

\* The connection fails, or the caller's signal aborts the request.
BodyFails ==
    /\ BodyReading /\ body.source = "open"
    /\ body' = GeneratorThrows([body EXCEPT !.source = "failed"], "error")
    /\ Others

BodyEnds ==
    /\ BodyReading /\ body.source = "open"
    /\ body' = [body EXCEPT !.source = "ended", !.result = IF body.gzip THEN @ ELSE "body"]
    /\ Others

\* The loop rejects while the pipe may be reading ahead.
RejectsPiped(kind) ==
    \E ahead \in BOOLEAN :
        /\ ahead => body.source = "open" /\ body.via = "https"
        /\ body' = [Rejects(body, kind) EXCEPT !.ahead = ahead]

\* The gunzip gives the loop n bytes.
Inflate(n) ==
    /\ BodyReading /\ body.gzip /\ n <= body.inflating
    /\ \/ /\ body.decompressed + n <= DecompressedLimit
          /\ body' = [body EXCEPT !.decompressed = @ + n, !.inflating = @ - n]
       \/ /\ body.decompressed + n > DecompressedLimit
          /\ RejectsPiped("decompressed")
    /\ Others

\* The bytes are no gzip, or end in the middle of it.
GunzipFails ==
    /\ BodyReading /\ body.gzip
    /\ RejectsPiped("error")
    /\ Others

GunzipEnds ==
    /\ BodyReading /\ body.gzip /\ body.source = "ended" /\ body.inflating = 0
    /\ body' = [body EXCEPT !.result = "body"]
    /\ Others

\* The read of a destroyed response throws in the generator, under a Readable that
\* nobody listens to any more.
AheadReadThrows ==
    /\ body.ahead /\ body.process = "up"
    /\ body' = [body EXCEPT !.process = "down", !.ahead = FALSE]
    /\ Others

ReceiveFrames == \E chunk \in 1..MaxChunk : ReceiveChunk(chunk)

ReadBody ==
    \/ RefuseDeclared
    \/ \E expands \in 0..MaxExpansion : BodyChunk(expands)
    \/ BodyFails
    \/ BodyEnds
    \/ \E n \in 1..MaxExpansion : Inflate(n)
    \/ GunzipFails
    \/ GunzipEnds
    \/ AheadReadThrows

WireInit ==
    /\ frames \in UNION {[1..n -> StreamFrames] : n \in 1..MaxFrames}
    /\ decoder = [received |-> 0, taken |-> 0, decoded |-> 0, encoded |-> 0, ended |-> FALSE]
    /\ handled = <<>>
    /\ failure = "none"
    /\ \E gzip, over \in BOOLEAN, via \in {"fetch", "https"} : body = NewBody(gzip, via, over)

WireNext == ReceiveFrames \/ ReadBody

WireSpec == WireInit /\ [][WireNext]_wireVars

(***************************************************************************)
(* Properties                                                              *)
(***************************************************************************)

WireTypeOK ==
    /\ WireConstants
    /\ frames \in Seq(StreamFrames) /\ decoder \in DecoderState
    /\ handled \in Seq(1..MaxFrames)
    /\ failure \in {"none", "frame", "trailer", "limit"}
    /\ body \in BodyState

FirstTrailer ==
    LET trailers == {i \in DOMAIN frames : frames[i].kind = "trailer"}
    IN  IF trailers = {} THEN Len(frames) ELSE CHOOSE i \in trailers : \A j \in trailers : i <= j

AddDecoded(sum, f) == sum + f.decoded

DecodedOf(i) == FoldLeft(AddDecoded, 0, SubSeq(frames, 1, i))

Deserved(i) ==
    \/ \E j \in 1..i : frames[j].kind = "badFlags" \/ frames[j].gzip = "invalid"
    \/ DecodedOf(i) > MaxOutputBytes

\* However the stream is cut into chunks: the handler sees upstream's frames in their
\* order and none twice, all that are complete while nothing has failed, none after
\* the trailer; the bytes counted against CURSOR_BRIDGE_MAX_OUTPUT_BYTES are those up
\* to the trailer's end; and a Run fails only on a stream that deserves it.
FramesSound ==
    LET complete == {i \in 1..FirstTrailer : BytesOf(i) <= decoder.received}
        counted == IF decoder.ended THEN BytesOf(FirstTrailer) ELSE decoder.received
    IN  /\ handled = [i \in 1..Len(handled) |-> i]
        /\ failure = "none" => Len(handled) = Cardinality(complete)
        /\ failure = "none" => decoder.encoded = counted
        /\ decoder.decoded <= MaxOutputBytes
        /\ failure = "frame" => Deserved(FirstTrailer)
        /\ failure = "trailer" => frames[FirstTrailer].trailer # "fine"
        /\ failure = "limit" => counted > MaxOutputBytes

\* A unary reading that settles has read the whole body within both limits, or says why
\* not and holds on to nothing: its source is over.  A body that is not compressed
\* always settles like that.
BodySound ==
    /\ body.result = "body" =>
         /\ body.source = "ended" /\ body.inflating = 0
         /\ body.compressed <= CompressedLimit /\ body.decompressed <= DecompressedLimit
    /\ body.result \notin {"pending", "body"} => body.source # "open"
    /\ body.decompressed <= DecompressedLimit
    /\ ~body.gzip => body.process = "up"

\* What upstream sends over a Run is read alike however the network cuts it, and a unary
\* response is read to its end or given up for good.
WireSound == WireTypeOK /\ FramesSound /\ BodySound

\* tests/cursor-api-f2-security.test.ts: a gzip body that cannot be read is rejected
\* "with a typed failure", and the bridge goes on.
GzipFailsTyped == body.process = "up"
=============================================================================
