--------------------------- MODULE UpstreamProofs ---------------------------
(***************************************************************************)
(* Theorems about what upstream sends: its frames and bodies (Wire) and    *)
(* its errors (ErrorPolicy), for any values of their constants.            *)
(***************************************************************************)
EXTENDS Wire, ErrorPolicy, FoldLemmas

-----------------------------------------------------------------------------
(***************************************************************************)
(* Wire: a Run is read alike however its stream is cut into chunks.        *)
(*                                                                         *)
(* While nothing failed the decoder stands where the bytes received put it *)
(* (Standing), and its frames were handled in order (Sofar). A push takes  *)
(* one such state to the next, or to the failure that the first bad frame  *)
(* or the limit deserves. BytesOf and DecodedOf are folds over the frames; *)
(* FoldLemmas makes them sums.                                             *)
(***************************************************************************)
\* What body may be, in every state.
BodyOK(b) ==
    /\ b \in BodyState
    /\ b.result = "pending" /\ b.process = "up" => b.compressed <= CompressedLimit
    /\ b.result = "body" => /\ b.source = "ended" /\ b.inflating = 0
                            /\ b.compressed <= CompressedLimit
    /\ b.result \notin {"pending", "body"} => b.source # "open"
    /\ b.decompressed <= DecompressedLimit
    /\ ~b.gzip => b.process = "up" /\ b.inflating = 0 /\ ~b.ahead

LEMMA BodyStepIs ==
    ASSUME WireConstants, BodyOK(body), ReadBody
    PROVE  BodyOK(body')
<1> USE DEF BodyOK
<1>1. /\ body \in BodyState
      /\ CompressedLimit \in Nat \ {0} /\ DecompressedLimit \in Nat \ {0}
  BY DEF WireConstants
<1>2. ASSUME NEW b \in BodyState, NEW kind \in {"compressed", "decompressed", "error"}
      PROVE  /\ Rejects(b, kind) \in BodyState
             /\ Rejects(b, kind).result = kind /\ Rejects(b, kind).source # "open"
             /\ Rejects(b, kind).decompressed = b.decompressed
             /\ Rejects(b, kind).gzip = b.gzip /\ Rejects(b, kind).process = b.process
             /\ Rejects(b, kind).inflating = b.inflating /\ Rejects(b, kind).ahead = b.ahead
  BY DEF Rejects, BodyState
<1>3. CASE RefuseDeclared
  BY <1>1, <1>2, <1>3 DEF RefuseDeclared
<1>4. ASSUME NEW b \in BodyState, NEW kind \in {"compressed", "decompressed", "error"},
             b.gzip = body.gzip, b.process = "up", b.result = "pending",
             b.decompressed = body.decompressed, b.inflating = body.inflating,
             b.ahead = body.ahead
      PROVE  BodyOK(GeneratorThrows(b, kind))
  <2>1. CASE b.gzip
    <3>1. GeneratorThrows(b, kind) = [b EXCEPT !.process = "down"]
      BY <2>1 DEF GeneratorThrows
    <3>2. QED
      BY <1>1, <1>4, <2>1, <3>1 DEF BodyState
  <2>2. CASE ~b.gzip
    <3>1. GeneratorThrows(b, kind) = Rejects(b, kind)
      BY <2>2 DEF GeneratorThrows
    <3>2. QED
      BY <1>1, <1>2, <1>4, <2>2, <3>1
  <2>3. QED
    BY <2>1, <2>2 DEF BodyState
<1>5. ASSUME NEW expands \in 0..MaxExpansion, BodyChunk(expands) PROVE BodyOK(body')
  <2> DEFINE b == [body EXCEPT !.compressed = @ + 1]
  <2>1. /\ b \in BodyState /\ b.gzip = body.gzip /\ b.process = "up" /\ b.result = "pending"
        /\ b.decompressed = body.decompressed /\ b.inflating = body.inflating
        /\ b.ahead = body.ahead /\ b.compressed = body.compressed + 1
        /\ b.source = "open"
    BY <1>1, <1>5 DEF BodyChunk, BodyReading, BodyState
  <2>2. body' = CASE b.compressed > CompressedLimit -> GeneratorThrows(b, "compressed")
                  [] b.compressed <= CompressedLimit /\ b.gzip
                       -> [b EXCEPT !.inflating = @ + expands]
                  [] OTHER -> IF b.decompressed < DecompressedLimit
                              THEN [b EXCEPT !.decompressed = @ + 1]
                              ELSE Rejects(b, "decompressed")
    BY <1>5 DEF BodyChunk
  <2> HIDE DEF b
  <2>3. CASE b.compressed > CompressedLimit
    <3>1. body' = GeneratorThrows(b, "compressed")
      <4>1. ~(b.compressed <= CompressedLimit)
        BY <1>1, <2>1, <2>3 DEF BodyState
      <4>2. QED
        BY <2>2, <2>3, <4>1
    <3>2. QED
      BY <1>4, <2>1, <3>1
  <2>4. CASE b.compressed <= CompressedLimit /\ b.gzip
    <3>1. body' = [b EXCEPT !.inflating = @ + expands]
      <4>1. ~(b.compressed > CompressedLimit)
        BY <1>1, <2>1, <2>4 DEF BodyState
      <4>2. QED
        BY <2>2, <2>4, <4>1
    <3>2. expands \in Nat
      BY DEF WireConstants
    <3>3. QED
      BY <1>1, <2>1, <2>4, <3>1, <3>2 DEF BodyState
  <2>5. CASE b.compressed <= CompressedLimit /\ ~b.gzip
    <3>1. body' = IF b.decompressed < DecompressedLimit
                  THEN [b EXCEPT !.decompressed = @ + 1] ELSE Rejects(b, "decompressed")
      <4>1. ~(b.compressed > CompressedLimit)
        BY <1>1, <2>1, <2>5 DEF BodyState
      <4>2. QED
        BY <2>2, <2>5, <4>1
    <3>2. CASE b.decompressed < DecompressedLimit
      BY <1>1, <2>1, <2>5, <3>1, <3>2 DEF BodyState
    <3>3. CASE ~(b.decompressed < DecompressedLimit)
      BY <1>1, <1>2, <2>1, <2>5, <3>1, <3>3
    <3>4. QED
      BY <3>2, <3>3
  <2>6. QED
    BY <1>1, <2>1, <2>3, <2>4, <2>5 DEF BodyState
<1>6. CASE BodyFails
  <2> DEFINE b == [body EXCEPT !.source = "failed"]
  <2>1. /\ b \in BodyState /\ b.gzip = body.gzip /\ b.process = "up" /\ b.result = "pending"
        /\ b.decompressed = body.decompressed /\ b.inflating = body.inflating
        /\ b.ahead = body.ahead
    BY <1>1, <1>6 DEF BodyFails, BodyReading, BodyState
  <2>2. body' = GeneratorThrows(b, "error")
    BY <1>6 DEF BodyFails
  <2> HIDE DEF b
  <2>3. QED
    BY <1>4, <2>1, <2>2
<1>7. CASE BodyEnds
  BY <1>1, <1>7 DEF BodyEnds, BodyReading, BodyState
<1>8. ASSUME NEW kind \in {"decompressed", "error"}, RejectsPiped(kind), BodyReading, body.gzip
      PROVE  BodyOK(body')
  <2>1. PICK ahead \in BOOLEAN : body' = [Rejects(body, kind) EXCEPT !.ahead = ahead]
    BY <1>8 DEF RejectsPiped
  <2>2. body' \in BodyState
    BY <1>1, <1>2, <2>1 DEF BodyState
  <2>3. /\ body'.result = kind /\ body'.source # "open" /\ body'.gzip
        /\ body'.decompressed = body.decompressed
    BY <1>1, <1>2, <1>8, <2>1 DEF BodyState
  <2>4. QED
    BY <1>1, <2>2, <2>3
<1>9. ASSUME NEW n \in 1..MaxExpansion, Inflate(n) PROVE BodyOK(body')
  <2>1. CASE RejectsPiped("decompressed")
    BY <1>8, <1>9, <2>1 DEF Inflate
  <2>2. CASE /\ body.decompressed + n <= DecompressedLimit
             /\ body' = [body EXCEPT !.decompressed = @ + n, !.inflating = @ - n]
    <3>1. n \in Nat
      BY DEF WireConstants
    <3>2. body.inflating - n \in Nat
      BY <1>1, <1>9, <3>1 DEF Inflate, BodyState
    <3>3. body.decompressed + n \in Nat
      BY <1>1, <3>1 DEF BodyState
    <3>4. /\ body' \in BodyState /\ body'.decompressed = body.decompressed + n
          /\ body'.result = body.result /\ body'.process = body.process
          /\ body'.compressed = body.compressed /\ body'.gzip = body.gzip
      BY <1>1, <2>2, <3>2, <3>3 DEF BodyState
    <3>5. body.gzip /\ body.result = "pending"
      BY <1>9 DEF Inflate, BodyReading
    <3>6. QED
      BY <1>1, <2>2, <3>4, <3>5
  <2>3. QED
    BY <1>9, <2>1, <2>2 DEF Inflate
<1>10. CASE GunzipFails
  BY <1>8, <1>10 DEF GunzipFails
<1>11. CASE GunzipEnds
  BY <1>1, <1>11 DEF GunzipEnds, BodyReading, BodyState
<1>12. CASE AheadReadThrows
  BY <1>1, <1>12 DEF AheadReadThrows, BodyState
<1>13. QED
  BY <1>3, <1>5, <1>6, <1>7, <1>9, <1>10, <1>11, <1>12 DEF ReadBody

Weights == [i \in 1..Len(frames) |-> HeaderBytes + frames[i].bytes]

DecodedLengths == [i \in 1..Len(frames) |-> frames[i].decoded]

LEMMA BytesOfIs ==
    ASSUME WireConstants, frames \in Seq(StreamFrames),
           NEW p, SumsOf(p, Weights, Len(frames)), NEW m \in 0..Len(frames)
    PROVE  BytesOf(m) = p[m]
<1> DEFINE n == Len(frames)
           v == Weights
           s == SubSeq(frames, 1, m)
           F == [q \in Nat \X StreamFrames |-> q[1] + HeaderBytes + q[2].bytes]
           Folds(g) == g = [t \in SUBSET DOMAIN s |->
                              IF t = {} THEN 0 ELSE g[t \ {Max(t)}] + HeaderBytes + s[Max(t)].bytes]
<1>1. /\ n \in Nat /\ m \in Nat /\ m <= n /\ v \in [1..n -> Nat]
      /\ \A f \in StreamFrames : f.bytes \in Nat /\ f.decoded \in Nat
      /\ HeaderBytes \in Nat
  <2>1. n \in Nat /\ frames \in [1..n -> StreamFrames]
    OBVIOUS
  <2>2. /\ \A f \in StreamFrames : f.bytes \in Nat /\ f.decoded \in Nat
        /\ HeaderBytes \in Nat
    BY DEF WireConstants, FrameRecord
  <2>3. \A i \in 1..n : frames[i] \in StreamFrames
    BY <2>1
  <2>4. v \in [1..n -> Nat]
    BY <2>2, <2>3 DEF Weights
  <2>5. QED
    BY <2>1, <2>2, <2>4
<1>2. /\ s \in [1..m -> StreamFrames] /\ DOMAIN s = 1..m
      /\ \A k \in 1..m : s[k] = frames[k] /\ s[k] \in StreamFrames
  <2>1. 1 \in Int /\ m \in Int /\ \A k \in 1..m : frames[k] \in StreamFrames
    BY <1>1
  <2>2. /\ s \in Seq(StreamFrames) /\ Len(s) = IF 1 <= m THEN m - 1 + 1 ELSE 0
        /\ \A k \in 1..(m - 1 + 1) : s[k] = frames[1 + k - 1]
    BY <2>1, SubSeqProperties
  <2>3. m - 1 + 1 = m /\ \A k \in 1..m : 1 + k - 1 = k
    BY <1>1
  <2> HIDE DEF s
  <2>4. QED
    BY <1>1, <2>2, <2>3
<1>3. F \in [Nat \X StreamFrames -> Nat]
  BY <1>1
<1>4. PICK g \in [SUBSET (1..m) -> Nat] : FoldsParts(g, F, 0, s, m)
  <2> HIDE DEF F, s
  <2>1. 0 \in Nat
    OBVIOUS
  <2>2. \E g \in [SUBSET (1..m) -> Nat] : FoldsParts(g, F, 0, s, m)
    BY <1>1, <1>2, <1>3, <2>1, FoldExists, Zenon
  <2>3. QED
    BY <2>2
<1>5. \A t \in SUBSET (1..m) : t # {} => g[t \ {Max(t)}] \in Nat /\ s[Max(t)] \in StreamFrames
  BY <1>1, <1>2, GreatestIs
<1>6. \A t \in SUBSET (1..m) :
        g[t] = IF t = {} THEN 0 ELSE g[t \ {Max(t)}] + HeaderBytes + s[Max(t)].bytes
  BY <1>4, <1>5 DEF FoldsParts
<1>7. Folds(g)
  BY <1>2, <1>6
<1>8. PICK h : Folds(h) /\ BytesOf(m) = h[DOMAIN s]
  <2>1. \E h : Folds(h) /\ BytesOf(m) = h[DOMAIN s]
    BY <1>7 DEF BytesOf, AddFrame, FoldLeft, MapThenFoldSet
  <2>2. QED
    BY <2>1
<1>9. \A t \in SUBSET (1..m) :
        h[t] = IF t = {} THEN 0 ELSE h[t \ {Max(t)}] + HeaderBytes + s[Max(t)].bytes
  BY <1>2, <1>8
<1>10. h[{}] = 0
  BY <1>9
<1>11. ASSUME NEW k \in 1..m, h[1..(k - 1)] \in Nat PROVE h[1..k] = h[1..(k - 1)] + v[k]
  <2> HIDE DEF n, Folds, s, F, v
  <2>0. k \in Nat /\ k # 0 /\ 1 <= k /\ k <= m /\ k <= n
    BY <1>1
  <2>1. 1..k \in SUBSET (1..m) /\ 1..k # {} /\ k \in Nat /\ k # 0 /\ k \in 1..n
    <3>1. 1..k \subseteq 1..m
      BY <1>1, <2>0
    <3>2. 1 \in 1..k /\ k \in 1..n
      BY <1>1, <2>0
    <3>3. QED
      BY <2>0, <3>1, <3>2
  <2>2. Max(1..k) = k /\ (1..k) \ {k} = 1..(k - 1)
    BY <2>1, GreatestOfPrefix
  <2>3. h[1..k] = h[1..(k - 1)] + HeaderBytes + s[k].bytes
    BY <1>9, <2>1, <2>2
  <2>4. v[k] = HeaderBytes + frames[k].bytes /\ s[k] = frames[k] /\ frames[k] \in StreamFrames
    BY <1>2, <2>1 DEF Weights, v, n, s
  <2>5. frames[k].bytes \in Nat /\ HeaderBytes \in Nat
    BY <1>1, <2>4
  <2>6. QED
    BY <1>11, <2>3, <2>4, <2>5
<1>12. h[1..m] = p[m]
  <2> HIDE DEF n, v, Folds, s, F
  <2>1. SumsOf(p, v, n)
    BY DEF v, n
  <2>2. m \in 0..n /\ n \in Nat
    BY <1>1
  <2>3. v \in [1..n -> Nat] /\ AddsUp(h, v, m)
    BY <1>1, <1>10, <1>11 DEF AddsUp
  <2>4. \A x, k : k \in 0..n /\ AddsUp(x, v, k) => x[1..k] = p[k]
    BY <2>1, <2>2, <2>3, SumIs
  <2>5. QED
    BY <2>2, <2>3, <2>4, Zenon
<1>13. QED
  BY <1>2, <1>8, <1>12

LEMMA DecodedOfIs ==
    ASSUME WireConstants, frames \in Seq(StreamFrames),
           NEW p, SumsOf(p, DecodedLengths, Len(frames)), NEW m \in 0..Len(frames)
    PROVE  DecodedOf(m) = p[m]
<1> DEFINE n == Len(frames)
           v == DecodedLengths
           s == SubSeq(frames, 1, m)
           F == [q \in Nat \X StreamFrames |-> q[1] + q[2].decoded]
           Folds(g) == g = [t \in SUBSET DOMAIN s |->
                              IF t = {} THEN 0 ELSE g[t \ {Max(t)}] + s[Max(t)].decoded]
<1>1. /\ n \in Nat /\ m \in Nat /\ m <= n /\ v \in [1..n -> Nat]
      /\ \A f \in StreamFrames : f.bytes \in Nat /\ f.decoded \in Nat
      /\ HeaderBytes \in Nat
  <2>1. n \in Nat /\ frames \in [1..n -> StreamFrames]
    OBVIOUS
  <2>2. /\ \A f \in StreamFrames : f.bytes \in Nat /\ f.decoded \in Nat
        /\ HeaderBytes \in Nat
    BY DEF WireConstants, FrameRecord
  <2>3. \A i \in 1..n : frames[i] \in StreamFrames
    BY <2>1
  <2>4. v \in [1..n -> Nat]
    BY <2>2, <2>3 DEF DecodedLengths
  <2>5. QED
    BY <2>1, <2>2, <2>4
<1>2. /\ s \in [1..m -> StreamFrames] /\ DOMAIN s = 1..m
      /\ \A k \in 1..m : s[k] = frames[k] /\ s[k] \in StreamFrames
  <2>1. 1 \in Int /\ m \in Int /\ \A k \in 1..m : frames[k] \in StreamFrames
    BY <1>1
  <2>2. /\ s \in Seq(StreamFrames) /\ Len(s) = IF 1 <= m THEN m - 1 + 1 ELSE 0
        /\ \A k \in 1..(m - 1 + 1) : s[k] = frames[1 + k - 1]
    BY <2>1, SubSeqProperties
  <2>3. m - 1 + 1 = m /\ \A k \in 1..m : 1 + k - 1 = k
    BY <1>1
  <2> HIDE DEF s
  <2>4. QED
    BY <1>1, <2>2, <2>3
<1>3. F \in [Nat \X StreamFrames -> Nat]
  BY <1>1
<1>4. PICK g \in [SUBSET (1..m) -> Nat] : FoldsParts(g, F, 0, s, m)
  <2> HIDE DEF F, s
  <2>1. 0 \in Nat
    OBVIOUS
  <2>2. \E g \in [SUBSET (1..m) -> Nat] : FoldsParts(g, F, 0, s, m)
    BY <1>1, <1>2, <1>3, <2>1, FoldExists, Zenon
  <2>3. QED
    BY <2>2
<1>5. \A t \in SUBSET (1..m) : t # {} => g[t \ {Max(t)}] \in Nat /\ s[Max(t)] \in StreamFrames
  BY <1>1, <1>2, GreatestIs
<1>6. \A t \in SUBSET (1..m) :
        g[t] = IF t = {} THEN 0 ELSE g[t \ {Max(t)}] + s[Max(t)].decoded
  BY <1>4, <1>5 DEF FoldsParts
<1>7. Folds(g)
  BY <1>2, <1>6
<1>8. PICK h : Folds(h) /\ DecodedOf(m) = h[DOMAIN s]
  <2>1. \E h : Folds(h) /\ DecodedOf(m) = h[DOMAIN s]
    BY <1>7 DEF DecodedOf, AddDecoded, FoldLeft, MapThenFoldSet
  <2>2. QED
    BY <2>1
<1>9. \A t \in SUBSET (1..m) :
        h[t] = IF t = {} THEN 0 ELSE h[t \ {Max(t)}] + s[Max(t)].decoded
  BY <1>2, <1>8
<1>10. h[{}] = 0
  BY <1>9
<1>11. ASSUME NEW k \in 1..m, h[1..(k - 1)] \in Nat PROVE h[1..k] = h[1..(k - 1)] + v[k]
  <2> HIDE DEF n, Folds, s, F, v
  <2>0. k \in Nat /\ k # 0 /\ 1 <= k /\ k <= m /\ k <= n
    BY <1>1
  <2>1. 1..k \in SUBSET (1..m) /\ 1..k # {} /\ k \in Nat /\ k # 0 /\ k \in 1..n
    <3>1. 1..k \subseteq 1..m
      BY <1>1, <2>0
    <3>2. 1 \in 1..k /\ k \in 1..n
      BY <1>1, <2>0
    <3>3. QED
      BY <2>0, <3>1, <3>2
  <2>2. Max(1..k) = k /\ (1..k) \ {k} = 1..(k - 1)
    BY <2>1, GreatestOfPrefix
  <2>3. h[1..k] = h[1..(k - 1)] + s[k].decoded
    BY <1>9, <2>1, <2>2
  <2>4. v[k] = frames[k].decoded /\ s[k] = frames[k] /\ frames[k] \in StreamFrames
    BY <1>2, <2>1 DEF DecodedLengths, v, n, s
  <2>5. frames[k].decoded \in Nat
    BY <1>1, <2>4
  <2>6. QED
    BY <1>11, <2>3, <2>4, <2>5
<1>12. h[1..m] = p[m]
  <2> HIDE DEF n, v, Folds, s, F
  <2>1. SumsOf(p, v, n)
    BY DEF v, n
  <2>2. m \in 0..n /\ n \in Nat
    BY <1>1
  <2>3. v \in [1..n -> Nat] /\ AddsUp(h, v, m)
    BY <1>1, <1>10, <1>11 DEF AddsUp
  <2>4. \A x, k : k \in 0..n /\ AddsUp(x, v, k) => x[1..k] = p[k]
    BY <2>1, <2>2, <2>3, SumIs
  <2>5. QED
    BY <2>2, <2>3, <2>4, Zenon
<1>13. QED
  BY <1>2, <1>8, <1>12

LEMMA BytesOfSteps ==
    ASSUME WireConstants, frames \in Seq(StreamFrames)
    PROVE  /\ BytesOf(0) = 0
           /\ \A i \in 0..Len(frames) : BytesOf(i) \in Nat
           /\ \A i \in 1..Len(frames) :
                BytesOf(i) = BytesOf(i - 1) + (HeaderBytes + frames[i].bytes)
           /\ \A j \in 0..Len(frames) : \A i \in 0..j : BytesOf(i) <= BytesOf(j)
<1>1. Len(frames) \in Nat /\ Weights \in [1..Len(frames) -> Nat]
  <2>1. Len(frames) \in Nat /\ frames \in [1..Len(frames) -> StreamFrames]
    OBVIOUS
  <2>2. \A f \in StreamFrames : HeaderBytes + f.bytes \in Nat
    BY DEF WireConstants, FrameRecord
  <2>3. QED
    BY <2>1, <2>2 DEF Weights
<1>2. PICK p : SumsOf(p, Weights, Len(frames))
  BY <1>1, SumsExist
<1>3. \A i \in 0..Len(frames) : BytesOf(i) = p[i]
  BY <1>2, BytesOfIs
<1>4. \A j \in 0..Len(frames) : \A i \in 0..j : p[i] <= p[j]
  BY <1>1, <1>2, SumsGrow
<1>5. /\ p \in [0..Len(frames) -> Nat] /\ p[0] = 0
      /\ \A i \in 1..Len(frames) : p[i] = p[i - 1] + (HeaderBytes + frames[i].bytes)
  BY <1>2 DEF SumsOf, Weights
<1>6. \A i \in 1..Len(frames) : i \in 0..Len(frames) /\ i - 1 \in 0..Len(frames)
  BY <1>1
<1>7. \A j \in 0..Len(frames) : \A i \in 0..j : i \in 0..Len(frames)
  BY <1>1
<1>8. 0 \in 0..Len(frames)
  BY <1>1
<1>9. QED
  BY <1>3, <1>4, <1>5, <1>6, <1>7, <1>8

LEMMA DecodedSteps ==
    ASSUME WireConstants, frames \in Seq(StreamFrames)
    PROVE  /\ DecodedOf(0) = 0
           /\ \A i \in 0..Len(frames) : DecodedOf(i) \in Nat
           /\ \A i \in 1..Len(frames) : DecodedOf(i) = DecodedOf(i - 1) + frames[i].decoded
           /\ \A j \in 0..Len(frames) : \A i \in 0..j : DecodedOf(i) <= DecodedOf(j)
<1>1. Len(frames) \in Nat /\ DecodedLengths \in [1..Len(frames) -> Nat]
  <2>1. Len(frames) \in Nat /\ frames \in [1..Len(frames) -> StreamFrames]
    OBVIOUS
  <2>2. \A f \in StreamFrames : f.decoded \in Nat
    BY DEF WireConstants, FrameRecord
  <2>3. QED
    BY <2>1, <2>2 DEF DecodedLengths
<1>2. PICK p : SumsOf(p, DecodedLengths, Len(frames))
  BY <1>1, SumsExist
<1>3. \A i \in 0..Len(frames) : DecodedOf(i) = p[i]
  BY <1>2, DecodedOfIs
<1>4. \A j \in 0..Len(frames) : \A i \in 0..j : p[i] <= p[j]
  BY <1>1, <1>2, SumsGrow
<1>5. /\ p \in [0..Len(frames) -> Nat] /\ p[0] = 0
      /\ \A i \in 1..Len(frames) : p[i] = p[i - 1] + frames[i].decoded
  BY <1>2 DEF SumsOf, DecodedLengths
<1>6. \A i \in 1..Len(frames) : i \in 0..Len(frames) /\ i - 1 \in 0..Len(frames)
  BY <1>1
<1>7. \A j \in 0..Len(frames) : \A i \in 0..j : i \in 0..Len(frames)
  BY <1>1
<1>8. 0 \in 0..Len(frames)
  BY <1>1
<1>9. QED
  BY <1>3, <1>4, <1>5, <1>6, <1>7, <1>8

-----------------------------------------------------------------------------
(* The decoder                                                             *)

LEMMA FirstTrailerIs ==
    ASSUME frames \in Seq(StreamFrames), Len(frames) # 0
    PROVE  /\ FirstTrailer \in 1..Len(frames)
           /\ \A j \in 1..(FirstTrailer - 1) : frames[j].kind # "trailer"
           /\ frames[FirstTrailer].kind # "trailer" => FirstTrailer = Len(frames)
<1> DEFINE trailers == {i \in DOMAIN frames : frames[i].kind = "trailer"}
<1>1. /\ Len(frames) \in Nat /\ DOMAIN frames = 1..Len(frames)
      /\ FirstTrailer = IF trailers = {} THEN Len(frames)
                        ELSE CHOOSE i \in trailers : \A j \in trailers : i <= j
  BY DEF FirstTrailer
<1>2. CASE trailers = {}
  BY <1>1, <1>2
<1>3. CASE trailers # {}
  <2>1. trailers \subseteq Nat
    BY <1>1
  <2>2. \E i \in trailers : \A j \in trailers : i <= j
    <3> HIDE DEF trailers
    <3>1. QED
      BY <1>3, <2>1, LeastOf
  <2>3. FirstTrailer \in trailers /\ \A j \in trailers : FirstTrailer <= j
    BY <1>1, <1>3, <2>2
  <2>4. \A j \in 1..(FirstTrailer - 1) : j \in DOMAIN frames /\ ~(FirstTrailer <= j)
    <3>1. FirstTrailer \in 1..Len(frames)
      BY <1>1, <2>3
    <3>2. \A T \in 1..Len(frames) : \A j \in 1..(T - 1) : j \in 1..Len(frames) /\ ~(T <= j)
      BY <1>1
    <3>3. QED
      BY <1>1, <3>1, <3>2
  <2>5. QED
    BY <1>1, <2>3, <2>4
<1>4. QED
  BY <1>2, <1>3

\* Frame i is complete once received bytes are there.
CompleteAt(i, received) ==
    IF frames[i].kind = "badFlags" THEN BytesOf(i - 1) + HeaderBytes <= received
    ELSE BytesOf(i) <= received

\* The decoder has taken messages only, and every byte counts.
Waits(d) ==
    /\ ~d.ended /\ d.taken \in 0..FirstTrailer
    /\ \A j \in 1..d.taken : frames[j].kind = "message" /\ frames[j].gzip # "invalid"
    /\ BytesOf(d.taken) <= d.received /\ d.encoded = d.received
    /\ d.decoded = DecodedOf(d.taken) /\ d.decoded <= MaxOutputBytes

\* It has taken the trailer, and what came after is not counted.
AtTrailer(d) ==
    /\ d.ended /\ d.taken = FirstTrailer /\ frames[FirstTrailer].kind = "trailer"
    /\ BytesOf(FirstTrailer) <= d.received /\ d.encoded = BytesOf(FirstTrailer)
    /\ d.decoded <= MaxOutputBytes

NextIncomplete(d) == d.taken < Len(frames) => ~CompleteAt(d.taken + 1, d.received)

WireOK ==
    /\ WireConstants
    /\ frames \in Seq(StreamFrames) /\ Len(frames) \in 1..MaxFrames
    /\ decoder \in DecoderState /\ handled \in Seq(1..MaxFrames)
    /\ failure \in {"none", "frame", "trailer", "limit"}

\* Where the decoder may stand while nothing has failed.
Standing(d) == (Waits(d) /\ NextIncomplete(d)) \/ AtTrailer(d)

Sofar(d) == [i \in 1..d.taken |-> i]

FramesInv ==
    /\ WireOK
    /\ failure = "none" => Standing(decoder) /\ handled = Sofar(decoder)
    /\ FramesSound

\* A frame that is complete has every frame before it complete.
LEMMA CompleteBefore ==
    ASSUME WireOK, NEW received \in Nat, NEW i \in 1..Len(frames), NEW j \in 1..i,
           CompleteAt(i, received)
    PROVE  CompleteAt(j, received)
<1>1. /\ frames \in Seq(StreamFrames) /\ WireConstants /\ Len(frames) \in Nat
      /\ HeaderBytes \in Nat /\ i \in Nat /\ j \in Nat /\ j <= i /\ 1 <= j /\ i <= Len(frames)
      /\ MaxFrames \in Nat
  BY DEF WireOK, WireConstants
<1>2. /\ BytesOf(i) \in Nat /\ BytesOf(i - 1) \in Nat /\ BytesOf(j) \in Nat
      /\ BytesOf(j - 1) \in Nat
      /\ BytesOf(i) = BytesOf(i - 1) + (HeaderBytes + frames[i].bytes)
      /\ BytesOf(j) = BytesOf(j - 1) + (HeaderBytes + frames[j].bytes)
      /\ BytesOf(j) <= BytesOf(i)
      /\ j # i => BytesOf(j) <= BytesOf(i - 1)
  <2>1. /\ i \in 0..Len(frames) /\ i - 1 \in 0..Len(frames) /\ j \in 0..Len(frames)
        /\ j - 1 \in 0..Len(frames) /\ i \in 1..Len(frames) /\ j \in 1..Len(frames)
        /\ j \in 0..i /\ (j # i => j \in 0..(i - 1))
    BY <1>1
  <2>2. QED
    BY <1>1, <2>1, BytesOfSteps
<1>3. frames[j].bytes \in Nat /\ frames[i].bytes \in Nat
  <2>1. \A f \in StreamFrames : f.bytes \in Nat
    BY <1>1 DEF WireConstants, FrameRecord
  <2>2. i \in 1..Len(frames) /\ j \in 1..Len(frames)
    BY <1>1
  <2>3. QED
    BY <1>1, <2>1, <2>2
<1>4. CASE j = i
  BY <1>4
<1>5. CASE j # i
  <2>1. BytesOf(i - 1) <= received
    <3>1. CASE frames[i].kind = "badFlags"
      <4>1. BytesOf(i - 1) + HeaderBytes <= received
        BY <3>1 DEF CompleteAt
      <4>2. QED
        BY <1>1, <1>2, <4>1
    <3>2. CASE frames[i].kind # "badFlags"
      <4>1. BytesOf(i) <= received
        BY <3>2 DEF CompleteAt
      <4>2. QED
        BY <1>1, <1>2, <1>3, <4>1
    <3>3. QED
      BY <3>1, <3>2
  <2>2. BytesOf(j) <= received
    BY <1>2, <1>5, <2>1
  <2>3. QED
    BY <1>1, <1>2, <1>3, <2>2 DEF CompleteAt
<1>6. QED
  BY <1>4, <1>5

-----------------------------------------------------------------------------
(* A push                                                                  *)

Decoding == [received : Nat, taken : Nat, decoded : Nat, encoded : Int, ended : BOOLEAN]

Acc == [d : Decoding, out : Seq(Nat), thrown : {"none", "frame", "trailer"}, chunk : Nat]

\* One turn of the loop of Push.
Turn(acc, i) ==
    IF CompleteAt(i, acc.d.received) /\ acc.thrown = "none" /\ ~acc.d.ended
    THEN TakeFrame(acc, i) ELSE acc

LEMMA TakeFrameIs ==
    ASSUME WireOK, Waits(decoder), NEW acc \in Acc, NEW i \in 1..Len(frames)
    PROVE  /\ TakeFrame(acc, i) \in Acc
           /\ TakeFrame(acc, i).chunk = acc.chunk
           /\ TakeFrame(acc, i).d.received = acc.d.received
           /\ frames[i].kind = "badFlags" =>
                TakeFrame(acc, i) = [acc EXCEPT !.thrown = "frame"]
           /\ /\ frames[i].kind # "badFlags"
              /\ frames[i].gzip = "invalid" \/ frames[i].decoded > MaxOutputBytes - acc.d.decoded
              => /\ TakeFrame(acc, i).thrown = "frame"
                 /\ TakeFrame(acc, i).d.decoded = acc.d.decoded
                 /\ TakeFrame(acc, i).d.encoded = acc.d.encoded
           /\ /\ frames[i].kind = "message" /\ frames[i].gzip # "invalid"
              /\ ~(frames[i].decoded > MaxOutputBytes - acc.d.decoded)
              => /\ TakeFrame(acc, i).thrown = acc.thrown
                 /\ TakeFrame(acc, i).out = Append(acc.out, i)
                 /\ TakeFrame(acc, i).d.taken = i
                 /\ TakeFrame(acc, i).d.decoded = acc.d.decoded + frames[i].decoded
                 /\ TakeFrame(acc, i).d.encoded = acc.d.encoded
                 /\ TakeFrame(acc, i).d.ended = acc.d.ended
           /\ /\ frames[i].kind = "trailer" /\ frames[i].gzip # "invalid"
              /\ ~(frames[i].decoded > MaxOutputBytes - acc.d.decoded)
              => /\ TakeFrame(acc, i).thrown = IF frames[i].trailer # "fine" /\ acc.out = <<>>
                                               THEN "trailer" ELSE "none"
                 /\ TakeFrame(acc, i).out = Append(acc.out, i)
                 /\ TakeFrame(acc, i).d.taken = i
                 /\ TakeFrame(acc, i).d.decoded = acc.d.decoded + frames[i].decoded
                 /\ TakeFrame(acc, i).d.ended
                 /\ BytesOf(i) - decoder.received \in 0..acc.chunk =>
                      TakeFrame(acc, i).d.encoded =
                        acc.d.encoded - (acc.chunk - (BytesOf(i) - decoder.received))
<1> DEFINE frame == frames[i]
           remaining == MaxOutputBytes - acc.d.decoded
           taken == [acc.d EXCEPT !.taken = i]
           within == [taken EXCEPT !.decoded = @ + frame.decoded]
           previous == decoder.received - BytesOf(decoder.taken)
           consumed == BytesOf(i) - BytesOf(decoder.taken)
           accepted == IF consumed - previous < 0 THEN 0
                       ELSE IF consumed - previous < acc.chunk THEN consumed - previous
                       ELSE acc.chunk
           fails == frame.gzip = "invalid" \/ frame.decoded > remaining
           trailed == [acc EXCEPT !.d = [within EXCEPT !.encoded = @ - (acc.chunk - accepted),
                                                      !.ended = TRUE],
                                  !.out = Append(@, i),
                                  !.thrown = IF frame.trailer # "fine" /\ acc.out = <<>>
                                             THEN "trailer" ELSE "none"]
<1>1. TakeFrame(acc, i) =
        CASE frame.kind = "badFlags" -> [acc EXCEPT !.thrown = "frame"]
          [] frame.kind # "badFlags" /\ fails -> [acc EXCEPT !.d = taken, !.thrown = "frame"]
          [] frame.kind = "message" /\ ~fails -> [acc EXCEPT !.d = within, !.out = Append(@, i)]
          [] OTHER -> trailed
  BY DEF TakeFrame
<1>2. /\ frames \in Seq(StreamFrames) /\ WireConstants /\ Len(frames) \in Nat /\ i \in Nat
      /\ Len(frames) # 0 /\ decoder.received \in Nat /\ decoder.taken \in 0..Len(frames)
      /\ BytesOf(decoder.taken) \in Nat /\ BytesOf(i) \in Nat /\ MaxOutputBytes \in Nat
      /\ acc.chunk \in Nat
  <2>1. /\ frames \in Seq(StreamFrames) /\ WireConstants /\ Len(frames) \in Nat /\ i \in Nat
        /\ Len(frames) # 0 /\ decoder.received \in Nat /\ MaxOutputBytes \in Nat
    BY DEF WireOK, WireConstants, DecoderState
  <2>2. FirstTrailer \in 1..Len(frames) /\ decoder.taken \in 0..FirstTrailer
    BY <2>1, FirstTrailerIs DEF Waits
  <2>3. \A T \in 1..Len(frames) : \A j \in 0..T : j \in 0..Len(frames)
    BY <2>1
  <2>4. decoder.taken \in 0..Len(frames) /\ i \in 0..Len(frames)
    BY <2>1, <2>2, <2>3
  <2>5. BytesOf(decoder.taken) \in Nat /\ BytesOf(i) \in Nat
    BY <2>1, <2>4, BytesOfSteps
  <2>6. acc.chunk \in Nat
    BY DEF Acc
  <2>7. QED
    BY <2>1, <2>4, <2>5, <2>6
<1>3. /\ frame.decoded \in Nat /\ frame.kind \in {"message", "trailer", "badFlags"}
  <2>1. \A f \in StreamFrames : f.decoded \in Nat /\ f.kind \in {"message", "trailer", "badFlags"}
    BY <1>2 DEF WireConstants, FrameRecord
  <2>2. frame \in StreamFrames
    BY <1>2
  <2>3. QED
    BY <2>1, <2>2
<1>4. accepted \in Nat /\ (BytesOf(i) - decoder.received \in 0..acc.chunk =>
                             accepted = BytesOf(i) - decoder.received)
  <2>1. consumed - previous = BytesOf(i) - decoder.received
    BY <1>2
  <2>2. BytesOf(i) - decoder.received \in Int
    BY <1>2
  <2> HIDE DEF consumed, previous
  <2>3. QED
    BY <1>2, <2>1, <2>2
<1>5. /\ acc.d \in Decoding /\ acc.out \in Seq(Nat) /\ acc.thrown \in {"none", "frame", "trailer"}
      /\ acc.d.encoded \in Int /\ acc.d.decoded \in Nat
      /\ Append(acc.out, i) \in Seq(Nat)
  BY <1>2 DEF Acc, Decoding
<1> HIDE DEF accepted, frame
<1>6. /\ taken \in Decoding /\ taken.received = acc.d.received /\ taken.decoded = acc.d.decoded
      /\ taken.encoded = acc.d.encoded /\ taken.taken = i /\ taken.ended = acc.d.ended
  BY <1>2, <1>5 DEF Decoding
<1> HIDE DEF taken
<1>7. /\ within \in Decoding /\ within.received = acc.d.received
      /\ within.decoded = acc.d.decoded + frame.decoded
      /\ within.encoded = acc.d.encoded /\ within.taken = i /\ within.ended = acc.d.ended
  <2>1. acc.d.decoded + frame.decoded \in Nat
    BY <1>3, <1>5
  <2>2. QED
    BY <1>6, <2>1 DEF Decoding
<1> HIDE DEF within
<1>8. /\ trailed \in Acc /\ trailed.chunk = acc.chunk /\ trailed.d.received = acc.d.received
      /\ trailed.thrown = IF frame.trailer # "fine" /\ acc.out = <<>> THEN "trailer" ELSE "none"
      /\ trailed.out = Append(acc.out, i) /\ trailed.d.taken = i
      /\ trailed.d.decoded = acc.d.decoded + frame.decoded /\ trailed.d.ended
      /\ trailed.d.encoded = acc.d.encoded - (acc.chunk - accepted)
  <2> DEFINE d == [within EXCEPT !.encoded = @ - (acc.chunk - accepted), !.ended = TRUE]
  <2>1. within.encoded - (acc.chunk - accepted) \in Int
    BY <1>2, <1>4, <1>5, <1>7
  <2>2. /\ d \in Decoding /\ d.received = acc.d.received /\ d.taken = i
        /\ d.decoded = acc.d.decoded + frame.decoded /\ d.ended
        /\ d.encoded = acc.d.encoded - (acc.chunk - accepted)
    BY <1>7, <2>1 DEF Decoding
  <2>3. trailed = [acc EXCEPT !.d = d, !.out = Append(@, i),
                              !.thrown = IF frame.trailer # "fine" /\ acc.out = <<>>
                                         THEN "trailer" ELSE "none"]
    OBVIOUS
  <2> HIDE DEF d, trailed
  <2>4. QED
    BY <1>5, <2>2, <2>3 DEF Acc
<1> HIDE DEF trailed, fails
<1>9. CASE frame.kind = "badFlags"
  <2>1. TakeFrame(acc, i) = [acc EXCEPT !.thrown = "frame"]
    BY <1>1, <1>9
  <2>2. QED
    BY <1>9, <2>1 DEF Acc, frame
<1>10. CASE frame.kind # "badFlags" /\ fails
  <2>1. TakeFrame(acc, i) = [acc EXCEPT !.d = taken, !.thrown = "frame"]
    BY <1>1, <1>10
  <2>2. /\ TakeFrame(acc, i) \in Acc /\ TakeFrame(acc, i).chunk = acc.chunk
        /\ TakeFrame(acc, i).d = taken /\ TakeFrame(acc, i).thrown = "frame"
    BY <1>6, <2>1 DEF Acc
  <2>3. QED
    BY <1>6, <1>10, <2>2 DEF frame, fails
<1>11. CASE frame.kind = "message" /\ ~fails
  <2>1. TakeFrame(acc, i) = [acc EXCEPT !.d = within, !.out = Append(@, i)]
    BY <1>1, <1>11
  <2>2. /\ TakeFrame(acc, i) \in Acc /\ TakeFrame(acc, i).chunk = acc.chunk
        /\ TakeFrame(acc, i).d = within /\ TakeFrame(acc, i).thrown = acc.thrown
        /\ TakeFrame(acc, i).out = Append(acc.out, i)
    BY <1>5, <1>7, <2>1 DEF Acc
  <2>3. QED
    BY <1>7, <1>11, <2>2 DEF frame, fails
<1>12. CASE frame.kind = "trailer" /\ ~fails
  <2>1. TakeFrame(acc, i) = trailed
    BY <1>1, <1>12
  <2>2. QED
    BY <1>4, <1>8, <1>12, <2>1 DEF frame, fails
<1>13. QED
  BY <1>3, <1>9, <1>10, <1>11, <1>12

\* The frames that came out of the buffer after the first ones.
Taken(first, n) == [j \in 1..n |-> first + j]

\* What the loop has made of the k-th frame after those taken before.
Good(acc, k, chunk) ==
    LET first == decoder.taken
    IN  /\ acc \in Acc /\ acc.chunk = chunk /\ acc.d.received = decoder.received + chunk
        /\ acc.d.decoded <= MaxOutputBytes
        /\ acc.thrown = "none" /\ ~acc.d.ended =>
             /\ Waits(acc.d) /\ first <= acc.d.taken /\ acc.d.taken <= first + k
             /\ acc.d.taken < first + k => ~CompleteAt(acc.d.taken + 1, acc.d.received)
        /\ acc.thrown = "frame" => /\ Deserved(FirstTrailer)
                                   /\ acc.d.encoded = acc.d.received
        /\ acc.thrown # "frame" => acc.out = Taken(first, acc.d.taken - first)
        /\ acc.thrown # "frame" /\ acc.d.ended => AtTrailer(acc.d) /\ first < acc.d.taken
        /\ acc.thrown = "trailer" => acc.d.ended /\ frames[FirstTrailer].trailer # "fine"

\* A stream with such a frame before its trailer deserves to fail.
LEMMA DeservesIt ==
    ASSUME WireOK, NEW i \in 1..FirstTrailer,
           \/ frames[i].kind = "badFlags" \/ frames[i].gzip = "invalid"
           \/ DecodedOf(i) > MaxOutputBytes
    PROVE  Deserved(FirstTrailer)
<1>1. /\ frames \in Seq(StreamFrames) /\ WireConstants /\ Len(frames) \in Nat /\ Len(frames) # 0
      /\ MaxOutputBytes \in Nat
  BY DEF WireOK, WireConstants
<1>2. FirstTrailer \in 1..Len(frames)
  BY <1>1, FirstTrailerIs
<1>3. FirstTrailer \in 0..Len(frames) /\ i \in 0..FirstTrailer /\ i \in 0..Len(frames)
  <2>1. \A T \in 1..Len(frames) : T \in 0..Len(frames) /\ \A j \in 1..T : j \in 0..T /\ j \in 0..Len(frames)
    BY <1>1
  <2>2. QED
    BY <1>2, <2>1
<1>4. /\ DecodedOf(i) \in Nat /\ DecodedOf(FirstTrailer) \in Nat
      /\ DecodedOf(i) <= DecodedOf(FirstTrailer)
  BY <1>1, <1>3, DecodedSteps
<1>5. QED
  BY <1>1, <1>4 DEF Deserved

\* A complete frame whose turn it is comes next, and before the trailer's end.
LEMMA TurnIsNext ==
    ASSUME WireOK, Waits(decoder), NEW chunk \in Nat, NEW k \in Nat,
           k + 1 <= Len(frames) - decoder.taken, NEW acc, Good(acc, k, chunk),
           CompleteAt(decoder.taken + (k + 1), acc.d.received),
           acc.thrown = "none", ~acc.d.ended
    PROVE  acc.d.taken = decoder.taken + k /\ decoder.taken + (k + 1) \in 1..FirstTrailer
<1> DEFINE i == decoder.taken + (k + 1)
           T == FirstTrailer
<1>1. /\ frames \in Seq(StreamFrames) /\ WireConstants /\ Len(frames) \in Nat /\ Len(frames) # 0
      /\ decoder.taken \in Nat /\ acc.d.received \in Nat /\ acc.d.taken \in Nat
  BY DEF WireOK, DecoderState, Good, Acc, Decoding
<1>2. /\ T \in 1..Len(frames) /\ (frames[T].kind # "trailer" => T = Len(frames))
      /\ decoder.taken \in 0..T
  BY <1>1, FirstTrailerIs DEF Waits
<1>3. /\ Waits(acc.d) /\ decoder.taken <= acc.d.taken /\ acc.d.taken <= decoder.taken + k
      /\ acc.d.taken < decoder.taken + k => ~CompleteAt(acc.d.taken + 1, acc.d.received)
  BY DEF Good
<1> HIDE DEF T
<1>4. i \in 1..Len(frames) /\ (acc.d.taken < decoder.taken + k => acc.d.taken + 1 \in 1..i)
  <2>1. \A n, a, b \in Nat : k + 1 <= n - a =>
          a + (k + 1) \in 1..n /\ (b < a + k => b + 1 \in 1..(a + (k + 1)))
    OBVIOUS
  <2>2. QED
    BY <1>1, <2>1
<1>5. acc.d.taken = decoder.taken + k
  <2>1. SUFFICES ASSUME acc.d.taken < decoder.taken + k PROVE FALSE
    BY <1>1, <1>3
  <2>2. CompleteAt(acc.d.taken + 1, acc.d.received)
    <3> HIDE DEF i
    <3>1. CompleteAt(i, acc.d.received) /\ acc.d.taken + 1 \in 1..i /\ i \in 1..Len(frames)
      BY <1>4, <2>1 DEF i
    <3>2. QED
      BY <1>1, <3>1, CompleteBefore
  <2>3. QED
    BY <1>3, <2>1, <2>2
<1>6. i <= T
  <2>1. SUFFICES ASSUME T < i PROVE FALSE
    BY <1>2, <1>4
  <2>2. T \in 1..acc.d.taken
    BY <1>1, <1>2, <1>5, <2>1
  <2>3. frames[T].kind = "message"
    BY <1>3, <2>2 DEF Waits
  <2>4. T = Len(frames)
    BY <1>2, <2>3
  <2>5. QED
    BY <1>1, <1>4, <2>1, <2>4
<1>7. QED
  BY <1>1, <1>2, <1>4, <1>5, <1>6 DEF T

LEMMA TakenAppends ==
    ASSUME NEW first \in Nat, NEW n \in Nat, NEW i, i = first + (n + 1)
    PROVE  Append(Taken(first, n), i) = Taken(first, n + 1)
<1>1. Taken(first, n) \in Seq(Nat) /\ Len(Taken(first, n)) = n
  BY DEF Taken
<1>2. Append(Taken(first, n), i) =
        [j \in 1..(n + 1) |-> IF j = n + 1 THEN i ELSE Taken(first, n)[j]]
  BY <1>1
<1>3. \A j \in 1..(n + 1) : j # n + 1 => Taken(first, n)[j] = first + j
  BY DEF Taken
<1>4. QED
  BY <1>2, <1>3 DEF Taken

LEMMA TurnKeepsGood ==
    ASSUME WireOK, Waits(decoder), NextIncomplete(decoder), NEW chunk \in Nat, NEW k \in Nat,
           k + 1 <= Len(frames) - decoder.taken, NEW acc, Good(acc, k, chunk)
    PROVE  Good(Turn(acc, decoder.taken + (k + 1)), k + 1, chunk)
<1> DEFINE i == decoder.taken + (k + 1)
           T == FirstTrailer
           first == decoder.taken
           new == TakeFrame(acc, i)
<1>1. /\ frames \in Seq(StreamFrames) /\ WireConstants /\ Len(frames) \in Nat /\ Len(frames) # 0
      /\ first \in Nat /\ acc.d.received \in Nat /\ acc.d.taken \in Nat /\ decoder.received \in Nat
      /\ acc.d.decoded \in Nat /\ MaxOutputBytes \in Nat /\ HeaderBytes \in Nat /\ acc \in Acc
      /\ acc.d.received = decoder.received + chunk /\ acc.chunk = chunk
      /\ acc.d.decoded <= MaxOutputBytes
  <2>1. /\ frames \in Seq(StreamFrames) /\ WireConstants /\ Len(frames) \in Nat /\ Len(frames) # 0
        /\ first \in Nat /\ decoder.received \in Nat
        /\ MaxOutputBytes \in Nat /\ HeaderBytes \in Nat
    BY DEF WireOK, WireConstants, DecoderState
  <2>2. /\ acc \in Acc /\ acc.d.received = decoder.received + chunk /\ acc.chunk = chunk
        /\ acc.d.decoded <= MaxOutputBytes
    BY DEF Good
  <2>3. acc.d.received \in Nat /\ acc.d.taken \in Nat /\ acc.d.decoded \in Nat
    BY <2>2 DEF Acc, Decoding
  <2>4. QED
    BY <2>1, <2>2, <2>3
<1> HIDE DEF new
<1>1a. /\ first \in Nat /\ acc.d.taken \in Nat /\ acc.d.received \in Nat
       /\ decoder.received \in Nat /\ chunk \in Nat /\ k \in Nat
       /\ acc.d.decoded \in Nat /\ MaxOutputBytes \in Nat /\ acc.d.decoded <= MaxOutputBytes
  BY <1>1
<1>2. /\ T \in 1..Len(frames) /\ (frames[T].kind # "trailer" => T = Len(frames))
      /\ \A j \in 1..(T - 1) : frames[j].kind # "trailer"
      /\ first \in 0..T
  BY <1>1, FirstTrailerIs DEF Waits
<1> HIDE DEF T
<1>3. i \in 1..Len(frames) /\ i \in Nat /\ k + 1 \in Nat
  <2>1. \A n, a \in Nat : k + 1 <= n - a => a + (k + 1) \in 1..n
    OBVIOUS
  <2>2. i \in 1..Len(frames)
    BY <1>1, <2>1
  <2>3. i \in Nat /\ k + 1 \in Nat
    BY <1>1
  <2>4. QED
    BY <2>2, <2>3
<1>4. CASE ~(CompleteAt(i, acc.d.received) /\ acc.thrown = "none" /\ ~acc.d.ended)
  <2>1. Turn(acc, i) = acc
    BY <1>4 DEF Turn
  <2>2. ASSUME acc.thrown = "none", ~acc.d.ended, acc.d.taken < first + (k + 1)
        PROVE  ~CompleteAt(acc.d.taken + 1, acc.d.received)
    <3>1. CASE acc.d.taken < first + k
      BY <2>2, <3>1 DEF Good
    <3>2. CASE acc.d.taken = first + k
      <4>1. acc.d.taken + 1 = i
        <5>1. \A a, b \in Nat : a = b + k => a + 1 = b + (k + 1)
          OBVIOUS
        <5>2. QED
          BY <1>1a, <3>2, <5>1
      <4>2. QED
        BY <1>4, <2>2, <4>1
    <3>3. QED
      BY <1>1a, <2>2, <3>1, <3>2
  <2>3. acc.d.taken <= first + k => acc.d.taken <= first + (k + 1)
    BY <1>1
  <2>4. Good(acc, k + 1, chunk)
    BY <2>2, <2>3 DEF Good
  <2>5. QED
    BY <2>1, <2>4
<1>5. CASE CompleteAt(i, acc.d.received) /\ acc.thrown = "none" /\ ~acc.d.ended
  <2>1. Turn(acc, i) = new
    BY <1>5 DEF Turn, new
  <2>2. acc.d.taken = first + k /\ i \in 1..T
    <3> HIDE DEF i
    <3>1. CompleteAt(i, acc.d.received)
      BY <1>5
    <3>2. QED
      BY <1>5, <3>1, TurnIsNext DEF i, T
  <2>3. Waits(acc.d) /\ acc.out = Taken(first, k)
    <3>1. acc.d.taken - first = k
      BY <1>1, <2>2
    <3>2. QED
      BY <1>5, <3>1 DEF Good
  <2>4. /\ acc.d.encoded = acc.d.received /\ acc.d.decoded = DecodedOf(acc.d.taken)
        /\ \A j \in 1..acc.d.taken : frames[j].kind = "message" /\ frames[j].gzip # "invalid"
    BY <2>3 DEF Waits
  <2>5. /\ DecodedOf(i) = acc.d.decoded + frames[i].decoded /\ DecodedOf(i) \in Nat
        /\ frames[i].decoded \in Nat
    <3>1. i - 1 = acc.d.taken /\ i \in 0..Len(frames)
      BY <1>1, <1>3, <2>2
    <3>2. DecodedOf(i) = DecodedOf(i - 1) + frames[i].decoded /\ DecodedOf(i) \in Nat
      BY <1>1, <1>3, <3>1, DecodedSteps
    <3>3. \A f \in StreamFrames : f.decoded \in Nat
      BY <1>1 DEF WireConstants, FrameRecord
    <3>4. QED
      BY <1>1, <1>3, <2>4, <3>1, <3>2, <3>3
  <2>6. Append(acc.out, i) = Taken(first, k + 1) /\ first + (k + 1) = i
    <3>1. first \in Nat /\ k \in Nat /\ i = first + (k + 1)
      BY <1>1a
    <3> HIDE DEF i, first
    <3>2. QED
      BY <2>3, <3>1, TakenAppends
  <2>7. new \in Acc /\ new.chunk = chunk /\ new.d.received = decoder.received + chunk
    <3> HIDE DEF i
    <3>1. QED
      BY <1>1, <1>3, TakeFrameIs DEF new
  <2>8. CASE frames[i].kind = "badFlags"
    <3>1. new = [acc EXCEPT !.thrown = "frame"]
      <4> HIDE DEF i
      <4>1. QED
        BY <1>3, <1>1, <2>8, TakeFrameIs DEF new
    <3>2. new.thrown = "frame" /\ new.d = acc.d
      BY <1>1, <3>1 DEF Acc
    <3>3. Deserved(T)
      <4> HIDE DEF i
      <4>1. QED
        BY <2>2, <2>8, DeservesIt DEF T
    <3>4. QED
      BY <1>1, <2>1, <2>4, <2>7, <3>2, <3>3 DEF Good, T
  <2>9. CASE /\ frames[i].kind # "badFlags"
             /\ frames[i].gzip = "invalid" \/ frames[i].decoded > MaxOutputBytes - acc.d.decoded
    <3>1. /\ new.thrown = "frame" /\ new.d.decoded = acc.d.decoded
          /\ new.d.encoded = acc.d.encoded
      <4> HIDE DEF i
      <4>1. QED
        BY <1>3, <1>1, <2>9, TakeFrameIs DEF new
    <3>2. frames[i].gzip = "invalid" \/ DecodedOf(i) > MaxOutputBytes
      <4>1. MaxOutputBytes \in Nat /\ acc.d.decoded \in Nat
        BY <1>1
      <4> HIDE DEF i
      <4>2. QED
        BY <2>5, <2>9, <4>1
    <3>3. Deserved(T)
      <4> HIDE DEF i
      <4>1. QED
        BY <2>2, <3>2, DeservesIt DEF T
    <3>4. QED
      BY <1>1, <2>1, <2>4, <2>7, <3>1, <3>3 DEF Good, T
  <2>10. CASE /\ frames[i].kind = "message" /\ frames[i].gzip # "invalid"
              /\ ~(frames[i].decoded > MaxOutputBytes - acc.d.decoded)
    <3>1. /\ new.thrown = "none" /\ new.out = Append(acc.out, i) /\ new.d.taken = i
          /\ new.d.decoded = acc.d.decoded + frames[i].decoded
          /\ new.d.encoded = acc.d.encoded /\ ~new.d.ended
      <4> HIDE DEF i
      <4>1. QED
        BY <1>3, <1>1, <1>5, <2>10, TakeFrameIs DEF new
    <3>2. new.d.decoded <= MaxOutputBytes
      <4> HIDE DEF i
      <4>1. QED
        BY <1>1a, <2>5, <2>10, <3>1
    <3>3. Waits(new.d)
      <4>1. \A j \in 1..i : frames[j].kind = "message" /\ frames[j].gzip # "invalid"
        <5>1. \A j \in 1..i : j # i => j \in 1..acc.d.taken
          BY <1>1, <2>2
        <5>2. QED
          BY <2>4, <2>10, <5>1
      <4>2. BytesOf(i) <= acc.d.received
        BY <1>5, <2>10 DEF CompleteAt
      <4>3. i \in 0..T
        <5>1. \A n \in Nat : \A j \in 1..n : j \in 0..n
          OBVIOUS
        <5>2. T \in Nat
          BY <1>1, <1>2
        <5> HIDE DEF i
        <5>3. QED
          BY <2>2, <5>1, <5>2
      <4>4. QED
        BY <1>1, <2>4, <2>5, <2>7, <3>1, <3>2, <4>1, <4>2, <4>3 DEF Waits, T
    <3>4. new.out = Taken(first, new.d.taken - first)
      <4>1. i - first = k + 1
        BY <1>1
      <4>2. QED
        BY <2>6, <3>1, <4>1
    <3>5. first <= new.d.taken /\ new.d.taken <= first + (k + 1)
      BY <1>1, <3>1
    <3>6. ~(new.d.taken < first + (k + 1))
      BY <1>1, <3>1
    <3>7. QED
      BY <2>1, <2>7, <3>1, <3>2, <3>3, <3>4, <3>5, <3>6 DEF Good
  <2>11. CASE /\ frames[i].kind = "trailer" /\ frames[i].gzip # "invalid"
              /\ ~(frames[i].decoded > MaxOutputBytes - acc.d.decoded)
    <3>1. i = T
      <4>1. \A n \in Nat : \A j \in 1..n : j # n => j \in 1..(n - 1)
        OBVIOUS
      <4>2. T \in Nat
        BY <1>1, <1>2
      <4> HIDE DEF i
      <4>3. QED
        BY <1>2, <2>2, <2>11, <4>1, <4>2
    <3>2. BytesOf(i) \in Nat /\ BytesOf(i) <= acc.d.received
      <4>1. i \in 0..Len(frames)
        BY <1>3
      <4>2. BytesOf(i) \in Nat
        BY <1>1, <4>1, BytesOfSteps
      <4>3. QED
        BY <1>5, <2>11, <4>2 DEF CompleteAt
    <3>3. ~(BytesOf(i) <= decoder.received)
      <4>1. SUFFICES ASSUME BytesOf(i) <= decoder.received PROVE FALSE
        OBVIOUS
      <4>2. CompleteAt(i, decoder.received)
        BY <2>11, <4>1 DEF CompleteAt
      <4>3. first + 1 \in 1..i /\ first < Len(frames)
        BY <1>1, <1>3
      <4>4. CompleteAt(first + 1, decoder.received)
        <5> HIDE DEF i
        <5>1. QED
          BY <1>1, <1>3, <4>2, <4>3, CompleteBefore
      <4>5. QED
        BY <4>3, <4>4 DEF NextIncomplete
    <3>4. BytesOf(i) - decoder.received \in 0..acc.chunk
      BY <1>1, <3>2, <3>3
    <3>5. /\ new.thrown = IF frames[i].trailer # "fine" /\ acc.out = <<>> THEN "trailer" ELSE "none"
          /\ new.out = Append(acc.out, i) /\ new.d.taken = i
          /\ new.d.decoded = acc.d.decoded + frames[i].decoded /\ new.d.ended
          /\ new.d.encoded = acc.d.encoded - (acc.chunk - (BytesOf(i) - decoder.received))
      <4> HIDE DEF i
      <4>1. /\ new.out = Append(acc.out, i) /\ new.d.taken = i
            /\ new.d.decoded = acc.d.decoded + frames[i].decoded /\ new.d.ended
        BY <1>1, <1>3, <2>11, TakeFrameIs DEF new
      <4>2. new.thrown = IF frames[i].trailer # "fine" /\ acc.out = <<>> THEN "trailer" ELSE "none"
        BY <1>1, <1>3, <2>11, TakeFrameIs DEF new
      <4>3. new.d.encoded = acc.d.encoded - (acc.chunk - (BytesOf(i) - decoder.received))
        BY <1>1, <1>3, <2>11, <3>4, TakeFrameIs DEF new
      <4>4. QED
        BY <4>1, <4>2, <4>3
    <3>6. new.d.encoded = BytesOf(i)
      BY <1>1, <2>4, <3>2, <3>5
    <3>7. new.d.decoded <= MaxOutputBytes
      <4> HIDE DEF i
      <4>1. QED
        BY <1>1a, <2>5, <2>11, <3>5
    <3>8. new.out = Taken(first, new.d.taken - first)
      <4>1. i - first = k + 1
        BY <1>1
      <4>2. QED
        BY <2>6, <3>5, <4>1
    <3>9. AtTrailer(new.d) /\ first < new.d.taken
      <4>1. first < i
        BY <1>1
      <4>2. QED
        BY <1>1, <2>7, <2>11, <3>1, <3>2, <3>5, <3>6, <3>7, <4>1 DEF AtTrailer, T
    <3>10. new.thrown # "frame" /\ (new.thrown = "trailer" => frames[T].trailer # "fine")
      BY <3>1, <3>5
    <3>11. QED
      BY <2>1, <2>7, <3>5, <3>7, <3>8, <3>9, <3>10 DEF Good, T
  <2>12. frames[i].kind \in {"message", "trailer", "badFlags"}
    <3>1. \A f \in StreamFrames : f.kind \in {"message", "trailer", "badFlags"}
      BY <1>1 DEF WireConstants, FrameRecord
    <3>2. QED
      BY <1>1, <1>3, <3>1
  <2>13. QED
    BY <2>8, <2>9, <2>10, <2>11, <2>12
<1>6. QED
  BY <1>4, <1>5

LEMMA PushedIsGood ==
    ASSUME WireOK, Waits(decoder), NextIncomplete(decoder), NEW chunk \in Nat
    PROVE  Pushed(chunk) \in Acc /\ Good(Pushed(chunk), 0, chunk)
<1> DEFINE new == Pushed(chunk)
<1>1. /\ decoder \in DecoderState /\ decoder.taken \in Nat /\ decoder.received \in Nat
      /\ decoder.encoded \in Nat /\ decoder.decoded \in Nat /\ decoder.ended \in BOOLEAN
  BY DEF WireOK, DecoderState
<1>2. /\ new.d \in Decoding /\ new.d.received = decoder.received + chunk
      /\ new.d.encoded = decoder.encoded + chunk /\ new.d.taken = decoder.taken
      /\ new.d.decoded = decoder.decoded /\ new.d.ended = decoder.ended
  <2> DEFINE d == [decoder EXCEPT !.received = @ + chunk, !.encoded = @ + chunk]
  <2>1. new.d = d
    BY DEF Pushed
  <2>2. decoder.received + chunk \in Nat /\ decoder.encoded + chunk \in Int
    BY <1>1
  <2>3. /\ d.received = decoder.received + chunk /\ d.encoded = decoder.encoded + chunk
        /\ d.taken = decoder.taken /\ d.decoded = decoder.decoded /\ d.ended = decoder.ended
    BY <1>1 DEF DecoderState
  <2>4. d \in Decoding
    BY <1>1, <2>2 DEF Decoding, DecoderState
  <2>5. QED
    BY <2>1, <2>3, <2>4
<1>3. new.out = <<>> /\ new.thrown = "none" /\ new.chunk = chunk
  BY DEF Pushed
<1>4. new \in Acc
  BY <1>2, <1>3 DEF Pushed, Acc
<1>5. Waits(new.d)
  <2>1. frames \in Seq(StreamFrames) /\ WireConstants /\ Len(frames) \in Nat /\ Len(frames) # 0
    BY DEF WireOK, WireConstants
  <2>2. FirstTrailer \in 1..Len(frames) /\ decoder.taken \in 0..FirstTrailer
    BY <2>1, FirstTrailerIs DEF Waits
  <2>3. \A T \in 1..Len(frames) : \A j \in 0..T : j \in 0..Len(frames)
    BY <2>1
  <2>4. BytesOf(decoder.taken) \in Nat
    BY <2>1, <2>2, <2>3, BytesOfSteps
  <2>5. BytesOf(decoder.taken) <= decoder.received + chunk
    BY <1>1, <2>4 DEF Waits
  <2> HIDE DEF new
  <2>6. QED
    BY <1>2, <2>5 DEF Waits
<1>6. Taken(decoder.taken, new.d.taken - decoder.taken) = <<>>
  <2>1. new.d.taken - decoder.taken = 0
    BY <1>1, <1>2
  <2>2. 1..0 = {}
    OBVIOUS
  <2> HIDE DEF new
  <2>3. QED
    BY <2>1, <2>2 DEF Taken
<1> HIDE DEF new
<1>7. decoder.taken <= new.d.taken /\ new.d.taken <= decoder.taken + 0
      /\ ~(new.d.taken < decoder.taken + 0)
  BY <1>1, <1>2
<1>8. new.d.decoded <= MaxOutputBytes /\ ~new.d.ended
  BY <1>2 DEF Waits
<1>9. Good(new, 0, chunk)
  BY <1>2, <1>3, <1>4, <1>5, <1>6, <1>7, <1>8 DEF Good
<1>10. QED
  BY <1>4, <1>9 DEF new

LEMMA PushIsGood ==
    ASSUME WireOK, Waits(decoder), NextIncomplete(decoder), NEW chunk \in Nat
    PROVE  Good(Push(chunk), Len(frames) - decoder.taken, chunk)
<1> DEFINE n == Len(frames) - decoder.taken
           E == 1..Len(frames)
           s == [j \in 1..n |-> decoder.taken + j]
           b == Pushed(chunk)
           F == [p \in Acc \X E |-> Turn(p[1], p[2])]
           Folds(g) == g = [t \in SUBSET DOMAIN s |->
                              IF t = {} THEN b ELSE Turn(g[t \ {Max(t)}], s[Max(t)])]
<1>1. n \in Nat /\ Len(frames) \in Nat /\ decoder.taken \in Nat
  <2>1. /\ frames \in Seq(StreamFrames) /\ WireConstants /\ Len(frames) \in Nat /\ Len(frames) # 0
        /\ decoder.taken \in Nat
    BY DEF WireOK, WireConstants, DecoderState
  <2>2. FirstTrailer \in 1..Len(frames) /\ decoder.taken \in 0..FirstTrailer
    BY <2>1, FirstTrailerIs DEF Waits
  <2>3. \A T \in 1..Len(frames) : \A j \in 0..T : Len(frames) - j \in Nat
    BY <2>1
  <2>4. QED
    BY <2>1, <2>2, <2>3
<1>2. DOMAIN s = 1..n /\ s \in [1..n -> E]
  BY <1>1
<1>3. F \in [Acc \X E -> Acc]
  <2>1. \A acc \in Acc, i \in E : Turn(acc, i) \in Acc
    BY TakeFrameIs DEF Turn
  <2>2. QED
    BY <2>1
<1>4. b \in Acc
  BY PushedIsGood
<1> HIDE DEF n, E, b
<1>5. PICK g \in [SUBSET (1..n) -> Acc] : FoldsParts(g, F, b, s, n)
  <2> HIDE DEF F, s
  <2>1. QED
    BY <1>1, <1>2, <1>3, <1>4, FoldExists, Zenon
<1>6. \A t \in SUBSET (1..n) : t # {} => g[t \ {Max(t)}] \in Acc /\ s[Max(t)] \in E
  BY <1>1, <1>2, GreatestIs
<1>7. \A t \in SUBSET (1..n) : g[t] = IF t = {} THEN b ELSE Turn(g[t \ {Max(t)}], s[Max(t)])
  <2> HIDE DEF s
  <2>1. \A acc \in Acc, i \in E : F[<<acc, i>>] = Turn(acc, i)
    OBVIOUS
  <2> HIDE DEF F
  <2>2. QED
    BY <1>5, <1>6, <2>1 DEF FoldsParts
<1>8. Folds(g)
  BY <1>2, <1>7
<1>9. ~decoder.ended
  BY DEF Waits
<1>10. PICK h : Folds(h) /\ Push(chunk) = h[DOMAIN s]
  <2>1. \E h : Folds(h) /\ Push(chunk) = h[DOMAIN s]
    BY <1>8, <1>9 DEF Push, Turn, CompleteAt, FoldLeft, MapThenFoldSet, n, b
  <2>2. QED
    BY <2>1
<1>11. \A t \in SUBSET (1..n) : h[t] = IF t = {} THEN b ELSE Turn(h[t \ {Max(t)}], s[Max(t)])
  BY <1>2, <1>10
<1> DEFINE S == {k \in Nat : k <= n => Good(h[1..k], k, chunk)}
<1>12. 0 \in S
  <2>1. 1..0 = {}
    OBVIOUS
  <2>2. h[1..0] = b
    BY <1>11, <2>1
  <2>3. Good(b, 0, chunk)
    BY PushedIsGood DEF b
  <2>4. QED
    BY <2>2, <2>3
<1>13. ASSUME NEW k \in Nat, k \in S PROVE k + 1 \in S
  <2>1. SUFFICES ASSUME k + 1 <= n PROVE Good(h[1..(k + 1)], k + 1, chunk)
    OBVIOUS
  <2>2. /\ 1..(k + 1) \in SUBSET (1..n) /\ k + 1 \in Nat /\ k + 1 # 0 /\ 1..(k + 1) # {}
        /\ (k + 1) - 1 = k /\ k + 1 \in 1..n /\ k <= n
    BY <1>1, <2>1
  <2>3. Max(1..(k + 1)) = k + 1 /\ (1..(k + 1)) \ {k + 1} = 1..k
    BY <2>2, GreatestOfPrefix
  <2>4. h[1..(k + 1)] = Turn(h[1..k], decoder.taken + (k + 1))
    BY <1>11, <2>2, <2>3
  <2>5. Good(h[1..k], k, chunk)
    BY <1>13, <2>2
  <2>6. k + 1 <= Len(frames) - decoder.taken
    BY <2>1 DEF n
  <2> HIDE DEF S
  <2>7. QED
    BY <2>4, <2>5, <2>6, TurnKeepsGood
<1>14. n \in S
  <2> HIDE DEF S
  <2>1. QED
    BY <1>1, <1>12, <1>13, AllNumbers
<1>15. Good(h[1..n], n, chunk)
  BY <1>1, <1>14
<1>16. QED
  BY <1>2, <1>10, <1>15 DEF n

-----------------------------------------------------------------------------
(* The invariant                                                           *)


BytesIn(s, i) == FoldLeft(AddFrame, 0, SubSeq(s, 1, i))

DecodedIn(s, i) == FoldLeft(AddDecoded, 0, SubSeq(s, 1, i))

CompleteIn(s, i, received) ==
    IF s[i].kind = "badFlags" THEN BytesIn(s, i - 1) + HeaderBytes <= received
    ELSE BytesIn(s, i) <= received

\* While the frames stay as they are, what is said of them stays true.
LEMMA FramesStay ==
    ASSUME frames' = frames
    PROVE  /\ FirstTrailer' = FirstTrailer
           /\ \A i : BytesOf(i)' = BytesOf(i)
           /\ \A i : DecodedOf(i)' = DecodedOf(i)
           /\ \A i : Deserved(i)' = Deserved(i)
<1>1. FirstTrailer' = FirstTrailer
  BY DEF FirstTrailer
<1>2. ASSUME NEW i
      PROVE  /\ BytesOf(i) = BytesIn(frames, i) /\ BytesOf(i)' = BytesIn(frames', i)
             /\ DecodedOf(i) = DecodedIn(frames, i) /\ DecodedOf(i)' = DecodedIn(frames', i)
  BY DEF BytesOf, BytesIn, DecodedOf, DecodedIn
<1>3. \A i : BytesOf(i)' = BytesOf(i) /\ DecodedOf(i)' = DecodedOf(i)
  BY <1>2
<1>4. ASSUME NEW i PROVE Deserved(i)' = Deserved(i)
  BY <1>3 DEF Deserved
<1>5. QED
  BY <1>1, <1>3, <1>4

WholeFrames(d) == {i \in 1..FirstTrailer : BytesOf(i) <= d.received}

Counted(d) == IF d.ended THEN BytesOf(FirstTrailer) ELSE d.received

\* FramesSound, of a decoder that d describes.
SoundFor(d, given, why) ==
    /\ given = [i \in 1..Len(given) |-> i]
    /\ why = "none" => Len(given) = Cardinality(WholeFrames(d))
    /\ why = "none" => d.encoded = Counted(d)
    /\ d.decoded <= MaxOutputBytes
    /\ why = "frame" => Deserved(FirstTrailer)
    /\ why = "trailer" => frames[FirstTrailer].trailer # "fine"
    /\ why = "limit" => Counted(d) > MaxOutputBytes

LEMMA SoundForIs ==
    /\ FramesSound <=> SoundFor(decoder, handled, failure)
    /\ frames' = frames => (FramesSound' <=> SoundFor(decoder', handled', failure'))
<1>1. FramesSound <=> SoundFor(decoder, handled, failure)
  BY DEF FramesSound, SoundFor, WholeFrames, Counted
<1>2. ASSUME frames' = frames
      PROVE  FramesSound' <=> SoundFor(decoder', handled', failure')
  <2> DEFINE complete == {i \in 1..FirstTrailer' : BytesOf(i)' <= decoder'.received}
             counted == IF decoder'.ended THEN BytesOf(FirstTrailer)' ELSE decoder'.received
  <2>1. /\ FirstTrailer' = FirstTrailer
        /\ \A i : BytesOf(i)' = BytesOf(i)
        /\ \A i : Deserved(i)' = Deserved(i)
    BY <1>2, FramesStay
  <2>2. complete = WholeFrames(decoder')
    BY <2>1 DEF WholeFrames
  <2>3. BytesOf(FirstTrailer)' = BytesOf(FirstTrailer) /\ Deserved(FirstTrailer)' = Deserved(FirstTrailer)
    <3>1. \A i : BytesOf(i)' = BytesOf(i) /\ Deserved(i)' = Deserved(i)
      BY <2>1
    <3>2. QED
      BY <2>1, <3>1
  <2>4. counted = Counted(decoder')
    BY <2>3 DEF Counted
  <2>5. FramesSound' <=>
          /\ handled' = [i \in 1..Len(handled') |-> i]
          /\ failure' = "none" => Len(handled') = Cardinality(complete)
          /\ failure' = "none" => decoder'.encoded = counted
          /\ decoder'.decoded <= MaxOutputBytes
          /\ failure' = "frame" => Deserved(FirstTrailer)'
          /\ failure' = "trailer" => frames'[FirstTrailer'].trailer # "fine"
          /\ failure' = "limit" => counted > MaxOutputBytes
    BY DEF FramesSound
  <2> HIDE DEF complete, counted
  <2>6. QED
    BY <1>2, <2>1, <2>2, <2>3, <2>4, <2>5 DEF SoundFor
<1>3. QED
  BY <1>1, <1>2

LEMMA StandingIsSound ==
    ASSUME WireOK, NEW d, d.received \in Nat, d.taken \in Nat, Standing(d)
    PROVE  SoundFor(d, Sofar(d), "none")
<1> DEFINE T == FirstTrailer
<1>1. /\ frames \in Seq(StreamFrames) /\ WireConstants /\ Len(frames) \in Nat /\ Len(frames) # 0
  BY DEF WireOK, WireConstants
<1>2. T \in 1..Len(frames) /\ T \in Nat /\ T \in 0..Len(frames)
  <2>1. FirstTrailer \in 1..Len(frames)
    BY <1>1, FirstTrailerIs
  <2>2. \A n \in Nat : \A j \in 1..n : j \in Nat /\ j \in 0..n
    OBVIOUS
  <2>3. QED
    BY <1>1, <2>1, <2>2
<1>3. d.taken <= T /\ BytesOf(d.taken) <= d.received
  BY <1>2 DEF Standing, Waits, AtTrailer
<1>4. BytesOf(T) \in Nat /\ \A i \in 0..Len(frames) : BytesOf(i) \in Nat
  BY <1>1, <1>2, BytesOfSteps
<1> HIDE DEF T
<1>5. ASSUME NEW i \in 1..T PROVE BytesOf(i) <= d.received <=> i <= d.taken
  <2>0. i \in Nat /\ d.taken \in 0..Len(frames) /\ i \in 0..Len(frames) /\ i \in 1..Len(frames)
    <3>1. \A n, m \in Nat : m <= n => \A j \in 1..m : j \in Nat /\ j \in 1..n /\ j \in 0..n
      OBVIOUS
    <3>2. T <= Len(frames)
      BY <1>1, <1>2
    <3>3. d.taken <= Len(frames)
      BY <1>1, <1>2, <1>3, <3>2
    <3>4. QED
      BY <1>1, <1>2, <3>1, <3>2, <3>3
  <2>1. ASSUME i <= d.taken PROVE BytesOf(i) <= d.received
    <3>1. i \in 0..d.taken
      BY <2>0, <2>1
    <3>2. BytesOf(i) <= BytesOf(d.taken)
      BY <1>1, <2>0, <3>1, BytesOfSteps
    <3>3. BytesOf(i) \in Nat /\ BytesOf(d.taken) \in Nat
      BY <1>4, <2>0
    <3>4. QED
      BY <1>3, <3>2, <3>3
  <2>2. ASSUME ~(i <= d.taken) PROVE ~(BytesOf(i) <= d.received)
    <3>1. d.taken < T /\ d.taken + 1 \in 1..i /\ d.taken < Len(frames)
      BY <1>1, <1>2, <2>0, <2>2
    <3>2. Waits(d) /\ NextIncomplete(d)
      BY <3>1, <1>2 DEF Standing, AtTrailer, T
    <3>3. ~CompleteAt(d.taken + 1, d.received)
      BY <3>1, <3>2 DEF NextIncomplete
    <3>4. ~CompleteAt(i, d.received)
      BY <2>0, <3>1, <3>3, CompleteBefore
    <3>5. CASE frames[i].kind = "badFlags"
      <4>1. ~(BytesOf(i - 1) + HeaderBytes <= d.received)
        BY <3>4, <3>5 DEF CompleteAt
      <4>2. BytesOf(i) = BytesOf(i - 1) + (HeaderBytes + frames[i].bytes)
        BY <1>1, <2>0, BytesOfSteps
      <4>3. HeaderBytes \in Nat /\ frames[i].bytes \in Nat
        <5>1. HeaderBytes \in Nat /\ \A f \in StreamFrames : f.bytes \in Nat
          BY <1>1 DEF WireConstants, FrameRecord
        <5>2. QED
          BY <1>1, <2>0, <5>1
      <4>4. BytesOf(i - 1) \in Nat
        <5>1. i - 1 \in 0..Len(frames)
          BY <1>1, <2>0
        <5>2. QED
          BY <1>4, <5>1
      <4>5. QED
        BY <4>1, <4>2, <4>3, <4>4
    <3>6. CASE frames[i].kind # "badFlags"
      BY <3>4, <3>6 DEF CompleteAt
    <3>7. QED
      BY <3>5, <3>6
  <2>3. QED
    BY <2>1, <2>2
<1>6. WholeFrames(d) = 1..d.taken
  <2>1. \A i \in 1..T : i \in Nat
    OBVIOUS
  <2>2. \A i : i \in 1..d.taken <=> i \in 1..T /\ i <= d.taken
    BY <1>2, <1>3
  <2>3. QED
    BY <1>5, <2>2 DEF WholeFrames, T
<1>7. Cardinality(WholeFrames(d)) = d.taken
  <2>1. 1 \in Int /\ d.taken \in Int /\ (1 > d.taken => d.taken = 0) /\ d.taken - 1 + 1 = d.taken
    OBVIOUS
  <2>2. QED
    BY <1>6, <2>1, FS_Interval
<1>8. Sofar(d) \in Seq(Nat) /\ Len(Sofar(d)) = d.taken
  BY DEF Sofar
<1>9. d.encoded = Counted(d) /\ d.decoded <= MaxOutputBytes
  BY DEF Standing, Waits, AtTrailer, Counted
<1>10. Sofar(d) = [i \in 1..Len(Sofar(d)) |-> i]
  BY <1>8 DEF Sofar
<1>11. QED
  BY <1>7, <1>8, <1>9, <1>10 DEF SoundFor

LEMMA SofarGrows ==
    ASSUME NEW first \in Nat, NEW n \in Nat
    PROVE  [i \in 1..first |-> i] \o Taken(first, n) = [i \in 1..(first + n) |-> i]
<1> DEFINE s == [i \in 1..first |-> i]
           u == Taken(first, n)
<1>1. s \in Seq(Nat) /\ Len(s) = first /\ u \in Seq(Nat) /\ Len(u) = n
  BY DEF Taken
<1>2. s \o u \in Seq(Nat) /\ Len(s \o u) = Len(s) + Len(u)
  BY <1>1
<1>3. \A i \in 1..(Len(s) + Len(u)) :
        (s \o u)[i] = IF i <= Len(s) THEN s[i] ELSE u[i - Len(s)]
  <2> HIDE DEF s, u
  <2>1. QED
    BY <1>1, ConcatProperties, Zenon
<1>4. \A i \in 1..(first + n) : (s \o u)[i] = i
  <2>1. \A i \in 1..first : s[i] = i
    OBVIOUS
  <2>2. \A i \in 1..n : u[i] = first + i
    BY DEF Taken
  <2> HIDE DEF s, u
  <2>3. ASSUME NEW i \in 1..(first + n) PROVE (s \o u)[i] = i
    <3>1. (s \o u)[i] = IF i <= first THEN s[i] ELSE u[i - first]
      BY <1>1, <1>3
    <3>2. CASE i <= first
      <4>1. i \in 1..first
        BY <3>2
      <4>2. QED
        BY <2>1, <3>1, <3>2, <4>1
    <3>3. CASE ~(i <= first)
      <4>1. i - first \in 1..n /\ first + (i - first) = i
        BY <3>3
      <4>2. QED
        BY <2>2, <3>1, <3>3, <4>1
    <3>4. QED
      BY <3>2, <3>3
  <2>4. QED
    BY <2>3
<1> HIDE DEF s, u
<1>4a. s \o u = [i \in 1..(first + n) |-> i]
  <2>1. Len(s \o u) = first + n
    BY <1>1, <1>2
  <2> DEFINE w == s \o u
  <2>2. w \in Seq(Nat) /\ Len(w) = first + n /\ \A i \in 1..(first + n) : w[i] = i
    BY <1>2, <1>4, <2>1
  <2> HIDE DEF w
  <2>3. w = [i \in 1..Len(w) |-> w[i]]
    BY <2>2
  <2>4. w = [i \in 1..(first + n) |-> i]
    BY <2>2, <2>3
  <2>5. QED
    BY <2>4 DEF w
<1>5. QED
  BY <1>4a DEF s, u

LEMMA StandingStays ==
    ASSUME frames' = frames
    PROVE  Standing(decoder)' <=> Standing(decoder')
<1>1. /\ FirstTrailer' = FirstTrailer
      /\ \A i : BytesOf(i)' = BytesOf(i)
      /\ \A i : DecodedOf(i)' = DecodedOf(i)
  BY FramesStay
<1>2. Waits(decoder)' <=> Waits(decoder')
  <2>1. /\ BytesOf(decoder.taken)' = BytesOf(decoder'.taken)
        /\ DecodedOf(decoder.taken)' = DecodedOf(decoder'.taken)
    <3>1. BytesOf(decoder.taken)' = BytesIn(frames', decoder'.taken)
          /\ DecodedOf(decoder.taken)' = DecodedIn(frames', decoder'.taken)
      BY DEF BytesOf, BytesIn, DecodedOf, DecodedIn
    <3>2. BytesOf(decoder'.taken) = BytesIn(frames, decoder'.taken)
          /\ DecodedOf(decoder'.taken) = DecodedIn(frames, decoder'.taken)
      BY DEF BytesOf, BytesIn, DecodedOf, DecodedIn
    <3>3. QED
      BY <3>1, <3>2
  <2>2. QED
    BY <1>1, <2>1 DEF Waits
<1>3. NextIncomplete(decoder)' <=> NextIncomplete(decoder')
  <2>1. CompleteAt(decoder.taken + 1, decoder.received)' =
          CompleteIn(frames', decoder'.taken + 1, decoder'.received)
    BY DEF CompleteAt, CompleteIn, BytesOf, BytesIn
  <2>2. CompleteAt(decoder'.taken + 1, decoder'.received) =
          CompleteIn(frames, decoder'.taken + 1, decoder'.received)
    BY DEF CompleteAt, CompleteIn, BytesOf, BytesIn
  <2>3. QED
    BY <2>1, <2>2 DEF NextIncomplete
<1>4. AtTrailer(decoder)' <=> AtTrailer(decoder')
  <2>1. BytesOf(FirstTrailer)' = BytesOf(FirstTrailer)
    <3>1. BytesOf(FirstTrailer)' = BytesIn(frames', FirstTrailer')
      BY DEF BytesOf, BytesIn
    <3>2. BytesOf(FirstTrailer) = BytesIn(frames, FirstTrailer)
      BY DEF BytesOf, BytesIn
    <3>3. QED
      BY <1>1, <3>1, <3>2
  <2>2. QED
    BY <1>1, <2>1 DEF AtTrailer
<1>5. QED
  BY <1>2, <1>3, <1>4 DEF Standing

\* What FramesInv asks of the decoder and the handler after a step.
After(d, given, why) ==
    /\ d \in DecoderState /\ given \in Seq(1..MaxFrames)
    /\ why \in {"none", "frame", "trailer", "limit"}
    /\ why = "none" => Standing(d) /\ given = Sofar(d)
    /\ SoundFor(d, given, why)

LEMMA AfterIsEnough ==
    ASSUME FramesInv, frames' = frames, After(decoder', handled', failure')
    PROVE  FramesInv'
<1>1. FramesSound'
  BY SoundForIs DEF After
<1>2. failure' = "none" => Standing(decoder)' /\ handled' = Sofar(decoder')
  BY StandingStays DEF After
<1>3. Sofar(decoder)' = Sofar(decoder')
  BY DEF Sofar
<1>4. WireOK'
  BY DEF FramesInv, WireOK, After
<1>5. QED
  BY <1>1, <1>2, <1>3, <1>4 DEF FramesInv

LEMMA SofarIs ==
    ASSUME WireOK, NEW d, d.taken \in Nat, Standing(d)
    PROVE  Sofar(d) \in Seq(1..MaxFrames)
<1>1. /\ frames \in Seq(StreamFrames) /\ WireConstants /\ Len(frames) \in Nat /\ Len(frames) # 0
      /\ Len(frames) <= MaxFrames /\ MaxFrames \in Nat
  BY DEF WireOK, WireConstants
<1>2. FirstTrailer \in 1..Len(frames)
  BY <1>1, FirstTrailerIs
<1>3. d.taken <= FirstTrailer
  BY <1>2 DEF Standing, Waits, AtTrailer
<1>4. d.taken <= MaxFrames
  BY <1>1, <1>2, <1>3
<1>5. \A i \in 1..d.taken : i \in 1..MaxFrames
  BY <1>1, <1>4
<1>6. \A n \in Nat : (\A i \in 1..n : i \in 1..MaxFrames) => [i \in 1..n |-> i] \in Seq(1..MaxFrames)
  OBVIOUS
<1>7. QED
  BY <1>5, <1>6 DEF Sofar

\* A chunk after the trailer: only the bytes that reached the decoder grow.
LEMMA AfterTheTrailer ==
    ASSUME FramesInv, failure = "none", decoder.ended, NEW chunk \in Nat, Handle(Push(chunk))
    PROVE  After(decoder', handled', failure')
<1> DEFINE d == [decoder EXCEPT !.received = @ + chunk]
<1>1. /\ WireOK /\ decoder \in DecoderState /\ decoder.received \in Nat /\ decoder.taken \in Nat
      /\ decoder.encoded \in Nat /\ decoder.decoded \in Nat /\ MaxOutputBytes \in Nat
      /\ handled \in Seq(1..MaxFrames) /\ frames \in Seq(StreamFrames) /\ Len(frames) \in Nat
      /\ Len(frames) # 0 /\ WireConstants
  BY DEF FramesInv, WireOK, DecoderState, WireConstants
<1>2. Standing(decoder) /\ handled = Sofar(decoder) /\ AtTrailer(decoder)
  BY DEF FramesInv, Standing, Waits
<1>3. Push(chunk).d = d /\ Push(chunk).out = <<>> /\ Push(chunk).thrown = "none"
  BY DEF Push, Pushed
<1>4. /\ decoder' = d /\ handled' = handled
      /\ failure' = IF d.encoded > MaxOutputBytes THEN "limit" ELSE "none"
  <2>1. handled \o <<>> = handled
    BY <1>1
  <2> HIDE DEF d
  <2>2. QED
    BY <1>3, <2>1 DEF Handle
<1>5. /\ d \in DecoderState /\ d.received = decoder.received + chunk /\ d.taken = decoder.taken
      /\ d.decoded = decoder.decoded /\ d.encoded = decoder.encoded /\ d.ended = decoder.ended
      /\ d.received \in Nat
  <2>1. decoder.received + chunk \in Nat
    BY <1>1
  <2>2. QED
    BY <1>1, <2>1 DEF DecoderState
<1> HIDE DEF d
<1>6. AtTrailer(d)
  <2>1. BytesOf(FirstTrailer) \in Nat
    <3>1. FirstTrailer \in 1..Len(frames)
      BY <1>1, FirstTrailerIs
    <3>2. \A i \in 1..Len(frames) : i \in 0..Len(frames)
      BY <1>1
    <3>3. QED
      BY <1>1, <3>1, <3>2, BytesOfSteps
  <2>2. BytesOf(FirstTrailer) <= decoder.received + chunk
    BY <1>1, <1>2, <2>1 DEF AtTrailer
  <2>3. QED
    BY <1>2, <1>5, <2>2 DEF AtTrailer
<1>7. Standing(d) /\ Sofar(d) = handled
  BY <1>2, <1>5, <1>6 DEF Standing, Sofar
<1>8. SoundFor(d, handled, "none")
  BY <1>1, <1>5, <1>7, StandingIsSound
<1>9. Counted(d) = d.encoded
  BY <1>8 DEF SoundFor
<1>10. SoundFor(d, handled, IF d.encoded > MaxOutputBytes THEN "limit" ELSE "none")
  BY <1>8, <1>9 DEF SoundFor
<1>11. QED
  BY <1>1, <1>4, <1>5, <1>7, <1>10 DEF After

\* The frames a push that throws nothing hands over follow those handed over before.
LEMMA HandedOver ==
    ASSUME NEW first \in Nat, NEW last \in Nat, first <= last
    PROVE  /\ [i \in 1..first |-> i] \o Taken(first, last - first) = [i \in 1..last |-> i]
           /\ first < last => /\ Taken(first, last - first) # <<>>
                              /\ Last(Taken(first, last - first)) = last
           /\ first = last => Taken(first, last - first) = <<>>
<1>1. last - first \in Nat /\ first + (last - first) = last
  OBVIOUS
<1> DEFINE n == last - first
           u == Taken(first, n)
<1>2. n \in Nat /\ first + n = last
  BY <1>1
<1> HIDE DEF n
<1>3. u \in Seq(Nat) /\ Len(u) = n /\ \A i \in 1..n : u[i] = first + i
  BY <1>2 DEF Taken
<1>4. [i \in 1..first |-> i] \o u = [i \in 1..last |-> i]
  BY <1>2, SofarGrows
<1> HIDE DEF u
<1>5. ASSUME first < last PROVE u # <<>> /\ Last(u) = last
  <2>1. n \in 1..n /\ n # 0
    BY <1>2, <1>5
  <2>2. Last(u) = u[n]
    BY <1>3 DEF Last
  <2>3. QED
    BY <1>2, <1>3, <2>1, <2>2
<1>6. ASSUME first = last PROVE u = <<>>
  <2>1. n = 0
    BY <1>2, <1>6
  <2>2. QED
    BY <1>3, <2>1
<1>7. QED
  BY <1>4, <1>5, <1>6 DEF u, n

\* A chunk before the trailer.
LEMMA BeforeTheTrailer ==
    ASSUME FramesInv, failure = "none", ~decoder.ended, NEW chunk \in Nat, Handle(Push(chunk))
    PROVE  After(decoder', handled', failure')
<1> DEFINE push == Push(chunk)
           d == push.d
           first == decoder.taken
<1>1. /\ WireOK /\ decoder \in DecoderState /\ decoder.received \in Nat /\ decoder.taken \in Nat
      /\ decoder.encoded \in Nat /\ decoder.decoded \in Nat /\ MaxOutputBytes \in Nat
      /\ handled \in Seq(1..MaxFrames) /\ frames \in Seq(StreamFrames) /\ Len(frames) \in Nat
      /\ Len(frames) # 0 /\ WireConstants
  BY DEF FramesInv, WireOK, DecoderState, WireConstants
<1>2. Waits(decoder) /\ NextIncomplete(decoder) /\ Standing(decoder) /\ handled = Sofar(decoder)
  BY DEF FramesInv, Standing, AtTrailer
<1>3. Good(push, Len(frames) - first, chunk)
  BY <1>1, <1>2, PushIsGood
<1>4. SoundFor(decoder, handled, "none")
  BY SoundForIs DEF FramesInv
<1>5. /\ decoder' = d
      /\ handled' = IF push.thrown = "none" /\ ~(d.encoded > MaxOutputBytes)
                    THEN handled \o push.out ELSE handled
      /\ push.thrown # "none" => failure' = push.thrown
      /\ push.thrown = "none" /\ d.encoded > MaxOutputBytes => failure' = "limit"
      /\ push.thrown = "none" /\ ~(d.encoded > MaxOutputBytes) =>
           LET last == IF push.out = <<>> THEN [kind |-> "none"] ELSE frames[Last(push.out)]
           IN  failure' = IF last.kind = "trailer" /\ last.trailer # "fine" THEN "trailer"
                          ELSE "none"
  BY DEF Handle
<1> HIDE DEF push
<1>6. /\ push \in Acc /\ d \in Decoding /\ d.received \in Nat /\ d.taken \in Nat
      /\ d.decoded \in Nat /\ d.decoded <= MaxOutputBytes
      /\ push.thrown \in {"none", "frame", "trailer"} /\ d.received = decoder.received + chunk
  BY <1>3 DEF Good, Acc, Decoding
<1> HIDE DEF d
<1>7. ASSUME d.encoded \in Nat PROVE d \in DecoderState
  BY <1>6, <1>7 DEF Decoding, DecoderState
<1>8. BytesOf(FirstTrailer) \in Nat
  <2>1. FirstTrailer \in 1..Len(frames)
    BY <1>1, FirstTrailerIs
  <2>2. \A i \in 1..Len(frames) : i \in 0..Len(frames)
    BY <1>1
  <2>3. QED
    BY <1>1, <2>1, <2>2, BytesOfSteps
<1>9. handled = [i \in 1..Len(handled) |-> i]
  BY <1>4 DEF SoundFor
<1>10. CASE push.thrown = "frame"
  <2>1. d.encoded = d.received /\ Deserved(FirstTrailer)
    BY <1>3, <1>10 DEF Good, d
  <2>2. handled' = handled /\ failure' = "frame"
    BY <1>5, <1>10
  <2>3. SoundFor(d, handled, "frame")
    BY <1>6, <1>9, <2>1 DEF SoundFor
  <2>4. QED
    BY <1>1, <1>5, <1>6, <1>7, <2>1, <2>2, <2>3 DEF After
<1>11. CASE push.thrown = "trailer"
  <2>1. d.ended /\ AtTrailer(d) /\ frames[FirstTrailer].trailer # "fine"
    BY <1>3, <1>11 DEF Good, d
  <2>2. handled' = handled /\ failure' = "trailer"
    BY <1>5, <1>11
  <2>3. SoundFor(d, handled, "trailer")
    BY <1>6, <1>9, <2>1 DEF SoundFor
  <2>4. d.encoded \in Nat
    BY <1>8, <2>1 DEF AtTrailer
  <2>5. QED
    BY <1>1, <1>5, <1>7, <2>2, <2>3, <2>4 DEF After
<1>12. CASE push.thrown = "none"
  <2>1. /\ push.out = Taken(first, d.taken - first)
        /\ d.ended => AtTrailer(d) /\ first < d.taken
        /\ ~d.ended => /\ Waits(d) /\ first <= d.taken /\ d.taken <= first + (Len(frames) - first)
                       /\ d.taken < first + (Len(frames) - first) =>
                            ~CompleteAt(d.taken + 1, d.received)
    BY <1>3, <1>12 DEF Good, d
  <2>2. first + (Len(frames) - first) = Len(frames)
    BY <1>1
  <2>3. Standing(d) /\ first <= d.taken
    BY <1>1, <1>6, <2>1, <2>2 DEF Standing, NextIncomplete
  <2>4. SoundFor(d, Sofar(d), "none")
    BY <1>1, <1>6, <2>3, StandingIsSound
  <2>5. d.encoded = Counted(d) /\ Sofar(d) = [i \in 1..Len(Sofar(d)) |-> i]
    BY <2>4 DEF SoundFor
  <2>6. d.encoded \in Nat
    BY <1>6, <1>8, <2>5 DEF Counted
  <2>7. CASE d.encoded > MaxOutputBytes
    <3>1. handled' = handled /\ failure' = "limit"
      BY <1>5, <1>12, <2>7
    <3>2. SoundFor(d, handled, "limit")
      BY <1>6, <1>9, <2>5, <2>7 DEF SoundFor
    <3>3. QED
      BY <1>1, <1>5, <1>7, <2>6, <3>1, <3>2 DEF After
  <2>8. CASE ~(d.encoded > MaxOutputBytes)
    <3>1. handled' = Sofar(d)
      <4>1. Sofar(decoder) \o push.out = Sofar(d)
        BY <1>1, <1>6, <2>1, <2>3, HandedOver DEF Sofar
      <4>2. QED
        BY <1>2, <1>5, <1>12, <2>8, <4>1
    <3>2. Sofar(d) \in Seq(1..MaxFrames)
      BY <1>1, <1>6, <2>3, SofarIs
    <3> DEFINE last == IF push.out = <<>> THEN [kind |-> "none"] ELSE frames[Last(push.out)]
    <3>3. failure' = IF last.kind = "trailer" /\ last.trailer # "fine" THEN "trailer" ELSE "none"
      BY <1>5, <1>12, <2>8
    <3>4. CASE last.kind = "trailer" /\ last.trailer # "fine"
      <4>1. push.out # <<>> /\ last = frames[Last(push.out)]
        BY <3>4
      <4>2. first # d.taken /\ first < d.taken
        <5>1. ASSUME first = d.taken PROVE FALSE
          <6>1. Taken(first, d.taken - first) = <<>>
            BY <1>1, <1>6, <2>3, <5>1, HandedOver
          <6>2. QED
            BY <2>1, <4>1, <6>1
        <5>2. QED
          BY <1>1, <1>6, <2>3, <5>1
      <4>3. Last(push.out) = d.taken
        <5>1. Last(Taken(first, d.taken - first)) = d.taken
          BY <1>1, <1>6, <2>3, <4>2, HandedOver
        <5>2. QED
          BY <2>1, <5>1
      <4>4. frames[d.taken].kind = "trailer" /\ frames[d.taken].trailer # "fine"
        BY <3>4, <4>1, <4>3
      <4>5. d.taken \in 1..d.taken
        BY <1>1, <1>6, <4>2
      <4>6. AtTrailer(d)
        BY <2>3, <4>4, <4>5 DEF Standing, Waits
      <4>7. frames[FirstTrailer].trailer # "fine"
        BY <4>4, <4>6 DEF AtTrailer
      <4>8. SoundFor(d, Sofar(d), "trailer")
        BY <1>6, <2>5, <4>7 DEF SoundFor
      <4>9. failure' = "trailer"
        BY <3>3, <3>4
      <4>10. QED
        BY <1>5, <1>7, <2>6, <3>1, <3>2, <4>8, <4>9 DEF After
    <3>5. CASE ~(last.kind = "trailer" /\ last.trailer # "fine")
      <4>1. failure' = "none"
        BY <3>3, <3>5
      <4>2. QED
        BY <1>5, <1>7, <2>3, <2>4, <2>6, <3>1, <3>2, <4>1 DEF After
    <3>6. QED
      BY <3>4, <3>5
  <2>9. QED
    BY <2>7, <2>8
<1>13. QED
  BY <1>6, <1>10, <1>11, <1>12

LEMMA ChunkKeeps ==
    ASSUME FramesInv, NEW chunk \in 1..MaxChunk, ReceiveChunk(chunk)
    PROVE  FramesInv'
<1>1. chunk \in Nat
  OBVIOUS
<1>2. After(decoder', handled', failure')
  BY <1>1, AfterTheTrailer, BeforeTheTrailer DEF ReceiveChunk
<1>3. QED
  BY <1>2, AfterIsEnough DEF ReceiveChunk

LEMMA StandsAtFirst ==
    ASSUME WireConstants, WireInit
    PROVE  FramesInv /\ BodyOK(body)
<1>1. PICK n \in 1..MaxFrames : frames \in [1..n -> StreamFrames]
  BY DEF WireInit
<1>2. /\ MaxFrames \in Nat \ {0} /\ HeaderBytes \in Nat \ {0} /\ MaxOutputBytes \in Nat \ {0}
      /\ CompressedLimit \in Nat \ {0} /\ DecompressedLimit \in Nat \ {0}
  BY DEF WireConstants
<1>3. n \in Nat /\ n # 0 /\ frames \in Seq(StreamFrames) /\ Len(frames) = n
      /\ Len(frames) \in 1..MaxFrames
  BY <1>1, <1>2
<1>4. /\ decoder.received = 0 /\ decoder.taken = 0 /\ decoder.decoded = 0 /\ decoder.encoded = 0
      /\ ~decoder.ended /\ decoder \in DecoderState /\ handled = <<>> /\ failure = "none"
  BY DEF WireInit, DecoderState
<1>5. WireOK
  BY <1>3, <1>4 DEF WireOK
<1>6. 0 \in 0..Len(frames) /\ 1 \in 1..Len(frames)
  BY <1>3
<1>7. BytesOf(0) = 0 /\ BytesOf(1) = BytesOf(1 - 1) + (HeaderBytes + frames[1].bytes)
  BY <1>3, <1>6, BytesOfSteps
<1>8. DecodedOf(0) = 0
  BY <1>3, DecodedSteps
<1>9. FirstTrailer \in 1..Len(frames)
  BY <1>3, FirstTrailerIs
<1>10. Waits(decoder)
  <2>1. \A T \in 1..n : 0 \in 0..T
    BY <1>3
  <2>2. decoder.taken \in 0..FirstTrailer
    BY <1>3, <1>4, <1>9, <2>1
  <2>3. \A j \in 1..decoder.taken : FALSE
    BY <1>4
  <2>4. BytesOf(decoder.taken) <= decoder.received /\ decoder.encoded = decoder.received
        /\ decoder.decoded = DecodedOf(decoder.taken) /\ decoder.decoded <= MaxOutputBytes
    BY <1>2, <1>4, <1>7, <1>8
  <2>5. QED
    BY <1>4, <2>2, <2>3, <2>4 DEF Waits
<1>11. ~CompleteAt(1, 0)
  <2>1. frames[1].bytes \in Nat
    <3>1. \A f \in StreamFrames : f.bytes \in Nat
      BY DEF WireConstants, FrameRecord
    <3>2. QED
      BY <1>3, <1>6, <3>1
  <2>2. BytesOf(1 - 1) = 0
    BY <1>7
  <2>3. ~(BytesOf(1) <= 0) /\ ~(BytesOf(1 - 1) + HeaderBytes <= 0)
    BY <1>2, <1>7, <2>1, <2>2
  <2>4. QED
    BY <2>3 DEF CompleteAt
<1>12. Standing(decoder) /\ handled = Sofar(decoder)
  <2>1. NextIncomplete(decoder)
    BY <1>4, <1>11 DEF NextIncomplete
  <2>2. <<>> = [i \in 1..0 |-> i]
    OBVIOUS
  <2>3. QED
    BY <1>4, <1>10, <2>1, <2>2 DEF Standing, Sofar
<1>13. SoundFor(decoder, handled, failure)
  <2>1. decoder.received \in Nat /\ decoder.taken \in Nat
    BY <1>4
  <2>2. SoundFor(decoder, Sofar(decoder), "none")
    BY <1>5, <1>12, <2>1, StandingIsSound
  <2>3. QED
    BY <1>4, <1>12, <2>2
<1>14. FramesSound
  BY <1>13, SoundForIs
<1>15. BodyOK(body)
  <2>1. PICK gzip, over \in BOOLEAN, via \in {"fetch", "https"} : body = NewBody(gzip, via, over)
    BY DEF WireInit
  <2>2. QED
    BY <1>2, <2>1 DEF NewBody, BodyOK, BodyState
<1>16. QED
  BY <1>5, <1>12, <1>14, <1>15 DEF FramesInv

LEMMA BodyStepsLeaveFrames ==
    ASSUME ReadBody
    PROVE  UNCHANGED <<frames, decoder, handled, failure>>
BY DEF ReadBody, RefuseDeclared, BodyChunk, BodyFails, BodyEnds, Inflate, GunzipFails,
       GunzipEnds, AheadReadThrows, Others

LEMMA FramesUntouched ==
    ASSUME FramesInv, UNCHANGED <<frames, decoder, handled, failure>>
    PROVE  FramesInv'
<1>1. SoundFor(decoder, handled, failure) /\ FramesSound'
  <2>1. SoundFor(decoder, handled, failure)
    BY SoundForIs DEF FramesInv
  <2>2. SoundFor(decoder', handled', failure')
    BY <2>1
  <2>3. QED
    BY <2>1, <2>2, SoundForIs
<1>2. Standing(decoder)' <=> Standing(decoder)
  BY StandingStays
<1>3. WireOK' /\ (failure' = "none" => handled' = Sofar(decoder'))
  BY DEF FramesInv, WireOK
<1>4. Sofar(decoder)' = Sofar(decoder')
  BY DEF Sofar
<1>5. QED
  BY <1>1, <1>2, <1>3, <1>4 DEF FramesInv

\* A Run is read alike however its stream is cut into chunks, and a unary response is
\* read to its end or given up for good (WireSound), for every set of frames upstream
\* may send, every number of them, every size of chunk and every limit.
THEOREM StreamsAreReadAlike ==
    ASSUME WireConstants
    PROVE  WireSpec => []WireSound
<1> DEFINE Inv == FramesInv /\ BodyOK(body)
<1>1. WireInit => Inv
  BY StandsAtFirst
<1>2. Inv /\ [WireNext]_wireVars => Inv'
  <2> SUFFICES ASSUME Inv, [WireNext]_wireVars PROVE Inv'
    OBVIOUS
  <2>1. CASE ReceiveFrames
    <3>1. PICK chunk \in 1..MaxChunk : ReceiveChunk(chunk)
      BY <2>1 DEF ReceiveFrames
    <3>2. FramesInv' /\ body' = body
      BY <3>1, ChunkKeeps DEF ReceiveChunk
    <3>3. QED
      BY <3>2 DEF BodyOK
  <2>2. CASE ReadBody
    <3>1. FramesInv'
      BY <2>2, BodyStepsLeaveFrames, FramesUntouched
    <3>2. BodyOK(body')
      BY <2>2, BodyStepIs
    <3>3. BodyOK(body)'
      BY <3>2 DEF BodyOK
    <3>4. QED
      BY <3>1, <3>3
  <2>3. CASE UNCHANGED wireVars
    <3>1. UNCHANGED <<frames, decoder, handled, failure>> /\ body' = body
      BY <2>3 DEF wireVars
    <3>2. FramesInv'
      BY <3>1, FramesUntouched
    <3>3. QED
      BY <3>1, <3>2 DEF BodyOK
  <2>4. QED
    BY <2>1, <2>2, <2>3 DEF WireNext
<1>3. Inv => WireSound
  BY DEF FramesInv, WireOK, BodyOK, BodySound, WireSound, WireTypeOK
<1>4. QED
  BY <1>1, <1>2, <1>3, PTL DEF WireSpec

-----------------------------------------------------------------------------
(***************************************************************************)
(* ErrorPolicy: an error is judged alike in whatever order its details are *)
(* found and by whichever road it arrives, and no detail or wrapper added  *)
(* to it makes it retried.                                                 *)
(*                                                                         *)
(* The invariant says that an error is a chain of wrappers on a root whose *)
(* details are of Details (ErrorInv). What a chain decides is what its     *)
(* first link that decides does (FirstLink), and what details decide does  *)
(* not depend on their order.                                              *)
(***************************************************************************)
-----------------------------------------------------------------------------
(* What the details of an error say, in whatever order                     *)

Seen ==
    [connect : BOOLEAN, provider : BOOLEAN, direct : BOOLEAN, permanent : BOOLEAN,
     veto : BOOLEAN, server : BOOLEAN, retryable : {"unset", Yes, No}, conflict : BOOLEAN,
     status : {"none", "400", "503"}, statusConflict : BOOLEAN]

OfProvider(header, d) == d.type = "provider" \/ (d.type = "none" /\ header = "provider")

Vetoes(header, form, d) ==
    \/ d.type = "broken"
    \/ form = "value" /\ Permanent(d)
    \/ d.type \notin {"foreign", "broken"} /\ d.retryable = No /\ ~OfProvider(header, d)

\* The provider's details in D, and what two of them say against each other.
Said(header, D) == {d \in D : OfProvider(header, d)}

Conflicts(header, D) ==
    \E d, e \in Said(header, D) : d.retryable = Yes /\ e.retryable = No

Disagree(header, D) ==
    \E d, e \in Said(header, D) : d.status = "400" /\ e.status = "503"

\* Of the flags of seen, and of its two values, once the details D were read.
FlagsAre(seen, header, form, D) ==
    /\ seen.connect
    /\ seen.provider <=> header = "provider" \/ (\E d \in D : d.type = "provider")
    /\ seen.permanent <=> form = "value" /\ (\E d \in D : Permanent(d))
    /\ seen.veto <=> \E d \in D : Vetoes(header, form, d)
    /\ seen.server <=> \E d \in Said(header, D) : d.retryable = No /\ d.status = "503"

RetryableIs(seen, header, D) ==
    /\ seen.conflict <=> Conflicts(header, D)
    /\ seen.retryable = "unset" => \A d \in Said(header, D) : d.retryable = "unset"
    /\ seen.retryable # "unset" => \E d \in Said(header, D) : d.retryable = seen.retryable

StatusIs(seen, header, D) ==
    /\ seen.statusConflict <=> Disagree(header, D)
    /\ seen.statusConflict => seen.status = "none"
    /\ seen.status = "none" /\ ~seen.statusConflict =>
         \A d \in Said(header, D) : d.status = "none"
    /\ seen.status # "none" => \E d \in Said(header, D) : d.status = seen.status

SeenIs(seen, header, form, D) ==
    /\ seen \in Seen /\ FlagsAre(seen, header, form, D)
    /\ RetryableIs(seen, header, D) /\ StatusIs(seen, header, D)

\* The fields after one more detail, and of the provider.
ProviderReads(after, seen, d) ==
    /\ after.server <=> seen.server \/ (d.retryable = No /\ d.status = "503")
    /\ after.conflict <=> \/ seen.conflict
                          \/ d.retryable # "unset" /\ seen.retryable \notin {"unset", d.retryable}
    /\ seen.retryable = "unset" => after.retryable = d.retryable
    /\ seen.retryable # "unset" => after.retryable = seen.retryable
    /\ LET disagrees == d.status # "none" /\ seen.status \notin {"none", d.status}
       IN  /\ after.statusConflict <=> seen.statusConflict \/ disagrees
           /\ disagrees => after.status = "none"
           /\ ~disagrees /\ d.status # "none" /\ ~seen.statusConflict => after.status = d.status
           /\ ~disagrees /\ (d.status = "none" \/ seen.statusConflict) => after.status = seen.status

\* The fields after one more detail.
DetailRead(after, seen, header, form, d) ==
    /\ after.connect <=> seen.connect
    /\ after.provider <=> seen.provider \/ OfProvider(header, d)
    /\ after.permanent <=> seen.permanent \/ (form = "value" /\ Permanent(d))
    /\ after.veto <=> seen.veto \/ Vetoes(header, form, d)
    /\ OfProvider(header, d) => ProviderReads(after, seen, d)
    /\ ~OfProvider(header, d) =>
         /\ after.server <=> seen.server
         /\ after.conflict <=> seen.conflict
         /\ after.statusConflict <=> seen.statusConflict
         /\ after.retryable = seen.retryable /\ after.status = seen.status

LEMMA ReadProviderIs ==
    ASSUME NEW seen \in Seen, NEW d \in DetailRecord
    PROVE  /\ ReadProvider(seen, d) \in Seen
           /\ ReadProvider(seen, d).connect = seen.connect
           /\ ReadProvider(seen, d).provider
           /\ ReadProvider(seen, d).permanent = seen.permanent
           /\ ReadProvider(seen, d).veto = seen.veto
           /\ ProviderReads(ReadProvider(seen, d), seen, d)
<1> DEFINE contradicts == d.retryable # "unset" /\ seen.retryable \notin {"unset", d.retryable}
           disagrees == d.status # "none" /\ seen.status \notin {"none", d.status}
           server == seen.server \/ (d.retryable = No /\ d.status = "503")
           conflict == seen.conflict \/ contradicts
           retryable == IF seen.retryable = "unset" THEN d.retryable ELSE seen.retryable
           statusConflict == seen.statusConflict \/ disagrees
           status == IF disagrees THEN "none"
                     ELSE IF d.status # "none" /\ ~seen.statusConflict THEN d.status
                     ELSE seen.status
           found == ReadProvider(seen, d)
<1> DEFINE with(a, b, c, r, t) ==
             [seen EXCEPT !.provider = TRUE, !.server = a, !.conflict = b, !.retryable = r,
                          !.statusConflict = c, !.status = t]
           P(a, b, c, r, t, y) ==
             /\ y.connect = seen.connect /\ y.provider = TRUE
             /\ y.permanent = seen.permanent /\ y.veto = seen.veto
             /\ y.server = a /\ y.conflict = b /\ y.retryable = r
             /\ y.statusConflict = c /\ y.status = t
             /\ a \in BOOLEAN /\ b \in BOOLEAN /\ c \in BOOLEAN
                /\ r \in {"unset", Yes, No} /\ t \in {"none", "400", "503"} => y \in Seen
<1>1. ASSUME NEW a, NEW b, NEW c, NEW r, NEW t
      PROVE  P(a, b, c, r, t, with(a, b, c, r, t))
  BY DEF Seen
<1>2. /\ d.retryable \in {"unset", Yes, No} /\ d.status \in {"none", "400", "503"}
      /\ seen.retryable \in {"unset", Yes, No} /\ seen.status \in {"none", "400", "503"}
  BY DEF DetailRecord, Seen
<1>3. /\ server \in BOOLEAN /\ conflict \in BOOLEAN /\ statusConflict \in BOOLEAN
      /\ retryable \in {"unset", Yes, No}
  BY <1>2
<1>4. status \in {"none", "400", "503"}
  BY <1>2
<1>5. found = with(server, conflict, statusConflict, retryable, status)
  BY DEF ReadProvider
<1> HIDE DEF with, P, found, server, conflict, retryable, statusConflict, status
<1>6. /\ found \in Seen /\ found.connect = seen.connect /\ found.provider = TRUE
      /\ found.permanent = seen.permanent /\ found.veto = seen.veto
      /\ found.server = server /\ found.conflict = conflict /\ found.retryable = retryable
      /\ found.statusConflict = statusConflict /\ found.status = status
  <2>1. LET y == with(server, conflict, statusConflict, retryable, status)
        IN  /\ y.connect = seen.connect /\ y.provider = TRUE
            /\ y.permanent = seen.permanent /\ y.veto = seen.veto
            /\ y.server = server /\ y.conflict = conflict /\ y.retryable = retryable
            /\ y.statusConflict = statusConflict /\ y.status = status /\ y \in Seen
    <3>1. P(server, conflict, statusConflict, retryable, status,
            with(server, conflict, statusConflict, retryable, status))
      BY <1>1
    <3>2. QED
      BY <1>3, <1>4, <3>1 DEF P
  <2>2. QED
    BY <1>5, <2>1, Zenon
<1>7. /\ found.server <=> seen.server \/ (d.retryable = No /\ d.status = "503")
      /\ found.conflict <=> seen.conflict \/ contradicts
      /\ found.statusConflict <=> seen.statusConflict \/ disagrees
  BY <1>6 DEF server, conflict, statusConflict
<1>8. /\ seen.retryable = "unset" => found.retryable = d.retryable
      /\ seen.retryable # "unset" => found.retryable = seen.retryable
  BY <1>6 DEF retryable
<1>9. /\ disagrees => found.status = "none"
      /\ ~disagrees /\ d.status # "none" /\ ~seen.statusConflict => found.status = d.status
      /\ ~disagrees /\ (d.status = "none" \/ seen.statusConflict) => found.status = seen.status
  <2>1. /\ disagrees => status = "none"
        /\ ~disagrees /\ d.status # "none" /\ ~seen.statusConflict => status = d.status
        /\ ~disagrees /\ (d.status = "none" \/ seen.statusConflict) => status = seen.status
    BY DEF status
  <2>2. QED
    BY <1>6, <2>1
<1>10. ProviderReads(found, seen, d)
  BY <1>7, <1>8, <1>9 DEF ProviderReads
<1>11. QED
  BY <1>6, <1>10 DEF found

LEMMA ReadDetailIs ==
    ASSUME NEW header, NEW form, NEW seen \in Seen, NEW d \in DetailRecord
    PROVE  /\ ReadDetail(header, form, seen, d) \in Seen
           /\ DetailRead(ReadDetail(header, form, seen, d), seen, header, form, d)
<1> DEFINE direct == d.type = "provider"
           found == ReadProvider(seen, d)
           after == ReadDetail(header, form, seen, d)
           permanent == form = "value" /\ Permanent(d)
           isProvider == OfProvider(header, d)
           more(x) == [x EXCEPT !.direct = @ \/ direct, !.permanent = @ \/ permanent,
                                !.veto = @ \/ permanent \/ (d.retryable = No /\ ~isProvider)]
<1>1. /\ found \in Seen /\ found.connect = seen.connect /\ found.provider
      /\ found.permanent = seen.permanent /\ found.veto = seen.veto
      /\ ProviderReads(found, seen, d)
  BY ReadProviderIs
<1>2. /\ d.type = "foreign" => after = seen
      /\ d.type = "broken" => after = [seen EXCEPT !.veto = TRUE]
      /\ d.type \notin {"foreign", "broken"} /\ isProvider => after = more(found)
      /\ d.type \notin {"foreign", "broken"} /\ ~isProvider => after = more(seen)
  BY DEF ReadDetail, OfProvider
<1> HIDE DEF found, after
<1>3. ASSUME NEW x \in Seen
      PROVE  /\ more(x) \in Seen /\ more(x).connect = x.connect /\ more(x).provider = x.provider
             /\ more(x).permanent <=> x.permanent \/ permanent
             /\ more(x).veto <=> x.veto \/ permanent \/ (d.retryable = No /\ ~isProvider)
             /\ more(x).server = x.server /\ more(x).conflict = x.conflict
             /\ more(x).retryable = x.retryable /\ more(x).status = x.status
             /\ more(x).statusConflict = x.statusConflict
  <2> DEFINE with(a, b, c) == [x EXCEPT !.direct = a, !.permanent = b, !.veto = c]
  <2>1. ASSUME NEW a, NEW b, NEW c
        PROVE  LET y == with(a, b, c)
               IN  /\ y.connect = x.connect /\ y.provider = x.provider
                   /\ y.permanent = b /\ y.veto = c
                   /\ y.server = x.server /\ y.conflict = x.conflict
                   /\ y.retryable = x.retryable /\ y.status = x.status
                   /\ y.statusConflict = x.statusConflict
                   /\ a \in BOOLEAN /\ b \in BOOLEAN /\ c \in BOOLEAN => y \in Seen
    BY DEF Seen
  <2> DEFINE p == x.direct \/ direct
             q == x.permanent \/ permanent
             r == x.veto \/ permanent \/ (d.retryable = No /\ ~isProvider)
  <2>2. p \in BOOLEAN /\ q \in BOOLEAN /\ r \in BOOLEAN
    OBVIOUS
  <2>3. more(x) = with(p, q, r)
    OBVIOUS
  <2> HIDE DEF with, more, p, q, r
  <2>4. /\ more(x) \in Seen /\ more(x).connect = x.connect /\ more(x).provider = x.provider
        /\ more(x).permanent = q /\ more(x).veto = r
        /\ more(x).server = x.server /\ more(x).conflict = x.conflict
        /\ more(x).retryable = x.retryable /\ more(x).status = x.status
        /\ more(x).statusConflict = x.statusConflict
    BY <2>1, <2>2, <2>3
  <2>5. QED
    BY <2>4 DEF q, r
<1> HIDE DEF more
<1>4. CASE d.type = "foreign"
  <2>1. ~OfProvider(header, d) /\ ~Permanent(d) /\ ~Vetoes(header, form, d)
    BY <1>4 DEF OfProvider, Permanent, Vetoes
  <2>2. after = seen /\ DetailRead(seen, seen, header, form, d)
    BY <1>2, <1>4, <2>1 DEF DetailRead
  <2>3. QED
    BY <2>2 DEF after
<1>5. CASE d.type = "broken"
  <2>1. ~OfProvider(header, d) /\ ~Permanent(d) /\ Vetoes(header, form, d)
    BY <1>5 DEF OfProvider, Permanent, Vetoes
  <2>2. /\ after \in Seen /\ after.veto /\ after.connect = seen.connect
        /\ after.provider = seen.provider /\ after.permanent = seen.permanent
        /\ after.server = seen.server /\ after.conflict = seen.conflict
        /\ after.retryable = seen.retryable /\ after.status = seen.status
        /\ after.statusConflict = seen.statusConflict
    BY <1>2, <1>5 DEF Seen
  <2>3. DetailRead(after, seen, header, form, d)
    BY <2>1, <2>2 DEF DetailRead
  <2>4. QED
    BY <2>2, <2>3 DEF after
<1>6. CASE d.type \notin {"foreign", "broken"} /\ isProvider
  <2>1. after = more(found) /\ after \in Seen
    BY <1>1, <1>2, <1>3, <1>6
  <2>2. /\ after.connect = seen.connect /\ after.provider
        /\ after.permanent <=> seen.permanent \/ permanent
        /\ after.veto <=> seen.veto \/ permanent
        /\ after.server = found.server /\ after.conflict = found.conflict
        /\ after.retryable = found.retryable /\ after.status = found.status
        /\ after.statusConflict = found.statusConflict
    BY <1>1, <1>3, <1>6, <2>1
  <2>3. ProviderReads(after, seen, d)
    BY <1>1, <2>2 DEF ProviderReads
  <2>4. DetailRead(after, seen, header, form, d)
    BY <1>6, <2>2, <2>3 DEF DetailRead, Vetoes
  <2>5. QED
    BY <2>1, <2>4 DEF after
<1>7. CASE d.type \notin {"foreign", "broken"} /\ ~isProvider
  <2>1. after = more(seen) /\ after \in Seen
    BY <1>2, <1>3, <1>7
  <2>2. /\ after.connect = seen.connect /\ after.provider = seen.provider
        /\ after.permanent <=> seen.permanent \/ permanent
        /\ after.veto <=> seen.veto \/ permanent \/ d.retryable = No
        /\ after.server = seen.server /\ after.conflict = seen.conflict
        /\ after.retryable = seen.retryable /\ after.status = seen.status
        /\ after.statusConflict = seen.statusConflict
    BY <1>3, <1>7, <2>1
  <2>3. DetailRead(after, seen, header, form, d)
    BY <1>7, <2>2 DEF DetailRead, Vetoes
  <2>4. QED
    BY <2>1, <2>3 DEF after
<1>8. QED
  BY <1>4, <1>5, <1>6, <1>7 DEF after

LEMMA SeenGrows ==
    ASSUME NEW header, NEW form, NEW D \in SUBSET DetailRecord, NEW d \in DetailRecord,
           NEW seen, SeenIs(seen, header, form, D)
    PROVE  SeenIs(ReadDetail(header, form, seen, d), header, form, D \cup {d})
<1> DEFINE after == ReadDetail(header, form, seen, d)
           E == D \cup {d}
<1>1. seen \in Seen /\ after \in Seen /\ DetailRead(after, seen, header, form, d)
  BY ReadDetailIs DEF SeenIs
<1> HIDE DEF after
<1>2. /\ OfProvider(header, d) => Said(header, E) = Said(header, D) \cup {d}
      /\ ~OfProvider(header, d) => Said(header, E) = Said(header, D)
  BY DEF Said
<1>3. /\ d.retryable \in {"unset", Yes, No} /\ d.status \in {"none", "400", "503"}
      /\ \A e \in Said(header, D) : /\ e.retryable \in {"unset", Yes, No}
                                    /\ e.status \in {"none", "400", "503"}
      /\ seen.retryable \in {"unset", Yes, No} /\ seen.status \in {"none", "400", "503"}
  BY <1>1 DEF DetailRecord, Said, Seen
<1> HIDE DEF E
<1>4. FlagsAre(after, header, form, E)
  <2>1. FlagsAre(seen, header, form, D)
    BY DEF SeenIs
  <2>2. after.connect /\ (after.provider <=> header = "provider" \/ \E e \in E : e.type = "provider")
    BY <1>1, <2>1 DEF FlagsAre, DetailRead, OfProvider, E
  <2>3. after.permanent <=> form = "value" /\ \E e \in E : Permanent(e)
    BY <1>1, <2>1 DEF FlagsAre, DetailRead, E
  <2>4. after.veto <=> \E e \in E : Vetoes(header, form, e)
    BY <1>1, <2>1 DEF FlagsAre, DetailRead, E
  <2>5. after.server <=> \E e \in Said(header, E) : e.retryable = No /\ e.status = "503"
    BY <1>1, <1>2, <2>1 DEF FlagsAre, DetailRead, ProviderReads
  <2>6. QED
    BY <2>2, <2>3, <2>4, <2>5 DEF FlagsAre
<1>5. RetryableIs(after, header, E)
  <2>1. RetryableIs(seen, header, D)
    BY DEF SeenIs
  <2>2. CASE ~OfProvider(header, d)
    BY <1>1, <1>2, <2>1, <2>2 DEF RetryableIs, DetailRead, ProviderReads, Conflicts
  <2>3. CASE OfProvider(header, d)
    <3>1. after.conflict <=> Conflicts(header, E)
      BY <1>1, <1>2, <1>3, <2>1, <2>3 DEF RetryableIs, DetailRead, ProviderReads, Conflicts, Yes, No
    <3>2. after.retryable = "unset" => \A e \in Said(header, E) : e.retryable = "unset"
      BY <1>1, <1>2, <1>3, <2>1, <2>3 DEF RetryableIs, DetailRead, ProviderReads
    <3>3. after.retryable # "unset" => \E e \in Said(header, E) : e.retryable = after.retryable
      BY <1>1, <1>2, <1>3, <2>1, <2>3 DEF RetryableIs, DetailRead, ProviderReads
    <3>4. QED
      BY <3>1, <3>2, <3>3 DEF RetryableIs
  <2>4. QED
    BY <2>2, <2>3
<1>6. StatusIs(after, header, E)
  <2>1. StatusIs(seen, header, D)
    BY DEF SeenIs
  <2>2. CASE ~OfProvider(header, d)
    BY <1>1, <1>2, <2>1, <2>2 DEF StatusIs, DetailRead, ProviderReads, Disagree
  <2>3. CASE OfProvider(header, d)
    <3>1. after.statusConflict <=> Disagree(header, E)
      BY <1>1, <1>2, <1>3, <2>1, <2>3 DEF StatusIs, DetailRead, ProviderReads, Disagree
    <3>2. after.statusConflict => after.status = "none"
      BY <1>1, <1>2, <1>3, <2>1, <2>3 DEF StatusIs, DetailRead, ProviderReads
    <3>3. after.status = "none" /\ ~after.statusConflict =>
            \A e \in Said(header, E) : e.status = "none"
      BY <1>1, <1>2, <1>3, <2>1, <2>3 DEF StatusIs, DetailRead, ProviderReads
    <3>4. after.status # "none" => \E e \in Said(header, E) : e.status = after.status
      BY <1>1, <1>2, <1>3, <2>1, <2>3 DEF StatusIs, DetailRead, ProviderReads
    <3>5. QED
      BY <3>1, <3>2, <3>3, <3>4 DEF StatusIs
  <2>4. QED
    BY <2>2, <2>3
<1>7. QED
  BY <1>1, <1>4, <1>5, <1>6 DEF SeenIs, after, E

\* An order of finitely many details has each of them.
LEMMA OrderIs ==
    ASSUME NEW D, IsFiniteSet(D), NEW order \in SetToSeqs(D)
    PROVE  /\ order \in [1..Cardinality(D) -> D] /\ Cardinality(D) \in Nat
           /\ D = {order[i] : i \in 1..Cardinality(D)}
<1> DEFINE n == Cardinality(D)
<1>1. n \in Nat
  BY FS_CardinalityType
<1>2. order \in [1..n -> D] /\ \A i, j \in 1..n : i # j => order[i] # order[j]
  BY DEF SetToSeqs
<1> HIDE DEF n
<1>3. order \in Injection(1..n, D)
  BY <1>2 DEF Injection, IsInjective
<1>4. Cardinality(1..n) = n
  BY <1>1, FS_Interval
<1>5. order \in Surjection(1..n, D)
  BY <1>3, <1>4, FS_Injection DEF n
<1>6. \A d \in D : \E i \in 1..n : order[i] = d
  BY <1>5 DEF Surjection
<1>7. D = {order[i] : i \in 1..n}
  BY <1>2, <1>6
<1>8. QED
  BY <1>1, <1>2, <1>7 DEF n

LEMMA OrderExists ==
    ASSUME NEW D, IsFiniteSet(D)
    PROVE  \E order : order \in SetToSeqs(D)
<1> DEFINE n == Cardinality(D)
<1>1. ExistsBijection(1..n, D)
  BY FS_CardinalityType
<1>2. PICK b : b \in Bijection(1..n, D)
  BY <1>1 DEF ExistsBijection
<1>3. b \in [1..n -> D] /\ \A i, j \in 1..n : i # j => b[i] # b[j]
  BY <1>2 DEF Bijection, Injection, IsInjective
<1>4. QED
  BY <1>3 DEF SetToSeqs

LEMMA DetailsAreRead ==
    ASSUME NEW link, NEW form, NEW D \in SUBSET DetailRecord, IsFiniteSet(D),
           NEW order \in SetToSeqs(D)
    PROVE  \E found : /\ SeenIs(found, link.header, form, D)
                      /\ InspectDetails(link, form, order) = Reconciled(found)
<1> DEFINE n == Cardinality(D)
           header == link.header
           base == [Nothing EXCEPT !.connect = TRUE, !.provider = link.header = "provider"]
           F == [p \in Seen \X DetailRecord |-> ReadDetail(header, form, p[1], p[2])]
           Folds(g) == g = [t \in SUBSET DOMAIN order |->
                              IF t = {} THEN base
                              ELSE ReadDetail(link.header, form, g[t \ {Max(t)}], order[Max(t)])]
           Upto(k) == {order[i] : i \in 1..k}
<1>1. order \in [1..n -> D] /\ n \in Nat /\ D = Upto(n)
  BY OrderIs
<1>2. DOMAIN order = 1..n /\ \A i \in 1..n : order[i] \in DetailRecord
  BY <1>1
<1> HIDE DEF n
<1>3. SeenIs(base, header, form, {})
  <2>1. /\ base \in Seen /\ base.connect /\ (base.provider <=> header = "provider")
        /\ base.permanent = FALSE /\ base.veto = FALSE /\ base.server = FALSE
        /\ base.conflict = FALSE /\ base.retryable = "unset" /\ base.status = "none"
        /\ base.statusConflict = FALSE
    BY DEF Nothing, Seen
  <2>2. Said(header, {}) = {}
    BY DEF Said
  <2> HIDE DEF base
  <2>3. QED
    BY <2>1, <2>2 DEF SeenIs, FlagsAre, RetryableIs, StatusIs, Conflicts, Disagree
<1>4. base \in Seen
  BY <1>3 DEF SeenIs
<1>5. F \in [Seen \X DetailRecord -> Seen]
  <2>1. \A x \in Seen, d \in DetailRecord : ReadDetail(header, form, x, d) \in Seen
    BY ReadDetailIs
  <2>2. QED
    BY <2>1
<1>6. PICK g \in [SUBSET (1..n) -> Seen] : FoldsParts(g, F, base, order, n)
  <2>1. order \in [1..n -> DetailRecord]
    BY <1>1, <1>2
  <2> HIDE DEF F, base
  <2>2. QED
    BY <1>1, <1>4, <1>5, <2>1, FoldExists
<1>7. \A t \in SUBSET (1..n) : t # {} => g[t \ {Max(t)}] \in Seen /\ order[Max(t)] \in DetailRecord
  BY <1>1, <1>2, GreatestIs
<1>8. \A t \in SUBSET (1..n) :
        g[t] = IF t = {} THEN base
               ELSE ReadDetail(link.header, form, g[t \ {Max(t)}], order[Max(t)])
  <2>1. \A x \in Seen, d \in DetailRecord : F[<<x, d>>] = ReadDetail(header, form, x, d)
    OBVIOUS
  <2> HIDE DEF F, base
  <2>2. QED
    BY <1>6, <1>7, <2>1 DEF FoldsParts
<1>9. Folds(g)
  <2> HIDE DEF base
  <2>1. QED
    BY <1>2, <1>6, <1>8
<1>10. PICK h : Folds(h) /\ InspectDetails(link, form, order) = Reconciled(h[DOMAIN order])
  <2>1. \E h : Folds(h) /\ InspectDetails(link, form, order) = Reconciled(h[DOMAIN order])
    BY <1>9 DEF InspectDetails, FoldLeft, MapThenFoldSet
  <2>2. QED
    BY <2>1
<1>11. \A t \in SUBSET (1..n) :
         h[t] = IF t = {} THEN base
                ELSE ReadDetail(link.header, form, h[t \ {Max(t)}], order[Max(t)])
  <2> HIDE DEF base
  <2>1. QED
    BY <1>2, <1>10
<1> DEFINE Ks == {k \in Nat : k <= n => SeenIs(h[1..k], header, form, Upto(k))}
<1> HIDE DEF base
<1>12. 0 \in Ks
  <2>1. 1..0 = {} /\ Upto(0) = {}
    OBVIOUS
  <2>2. h[1..0] = base
    BY <1>11, <2>1
  <2>3. QED
    BY <1>3, <2>1, <2>2
<1>13. ASSUME NEW k \in Nat, k \in Ks PROVE k + 1 \in Ks
  <2>1. SUFFICES ASSUME k + 1 <= n PROVE SeenIs(h[1..(k + 1)], header, form, Upto(k + 1))
    OBVIOUS
  <2>2. /\ 1..(k + 1) \in SUBSET (1..n) /\ k + 1 \in Nat /\ k + 1 # 0 /\ 1..(k + 1) # {}
        /\ (k + 1) - 1 = k /\ k + 1 \in 1..n /\ k <= n
    BY <1>1, <2>1
  <2>3. Max(1..(k + 1)) = k + 1 /\ (1..(k + 1)) \ {k + 1} = 1..k
    BY <2>2, GreatestOfPrefix
  <2>4. h[1..(k + 1)] = ReadDetail(header, form, h[1..k], order[k + 1])
    BY <1>11, <2>2, <2>3
  <2>5. Upto(k + 1) = Upto(k) \cup {order[k + 1]}
    <3>1. \A i \in Int : i \in 1..(k + 1) <=> i \in 1..k \/ i = k + 1
      BY <1>13
    <3>2. QED
      BY <3>1
  <2>6. Upto(k) \in SUBSET DetailRecord /\ order[k + 1] \in DetailRecord
    <3>1. \A i \in 1..k : i \in 1..n
      BY <1>1, <2>2
    <3>2. QED
      BY <1>2, <2>2, <3>1
  <2>7. SeenIs(h[1..k], header, form, Upto(k))
    BY <1>13, <2>2
  <2> DEFINE before == Upto(k)
  <2> HIDE DEF Upto
  <2>8. QED
    BY <2>4, <2>5, <2>6, <2>7, SeenGrows
<1>14. n \in Ks
  <2> HIDE DEF Ks
  <2>1. QED
    BY <1>1, <1>12, <1>13, AllNumbers
<1>15. SeenIs(h[1..n], header, form, Upto(n))
  BY <1>1, <1>14
<1>16. QED
  BY <1>1, <1>2, <1>10, <1>15

-----------------------------------------------------------------------------
(* What a link decides                                                     *)

LinkRecord ==
    [type : {"http", "connect", "plain", "timeout"}, status : Nat, code : Codes,
     header : Headers, details : SUBSET DetailRecord, text : {"neutral", "transport"}]

ProviderSpoke(link) == link.header = "provider" \/ \E d \in link.details : d.type = "provider"

\* A detail is broken, names a permanent error, refuses a retry without being the
\* provider's, or contradicts another.
Forbids(link) ==
    \/ \E d \in link.details : Permanent(d) \/ Vetoes(link.header, "debug", d)
    \/ Conflicts(link.header, link.details)

\* A detail of the provider's is a server failure, and no other says otherwise.
ServerFailed(link) ==
    /\ \E d \in Said(link.header, link.details) : d.retryable = No /\ d.status = "503"
    /\ ~Disagree(link.header, link.details)

\* The decision on a link, of which neither an order nor a form is part.
RetryVerdict(link, optIn) ==
    IF link.type = "http" THEN (IF link.status # 503 THEN "terminal" ELSE "none")
    ELSE IF link.type # "connect" THEN "none"
    ELSE IF Forbids(link) THEN "terminal"
    ELSE IF optIn /\ ServerFailed(link) /\ link.code = "resource_exhausted" THEN "server"
    ELSE IF \E d \in link.details : d.retryable = No THEN "terminal" ELSE "none"

\* What the inspection of a Connect error says, once the details were reconciled.
InspectionIs(seen, link, form) ==
    /\ seen.connect
    /\ seen.provider <=> ProviderSpoke(link)
    /\ seen.veto <=> \E d \in link.details : Vetoes(link.header, form, d)
    /\ seen.conflict <=> Conflicts(link.header, link.details)
    /\ seen.server <=> ServerFailed(link) /\ ~Conflicts(link.header, link.details)
    /\ ~Forbids(link) =>
         (seen.retryable = No <=> \E d \in Said(link.header, link.details) : d.retryable = No)
    /\ seen.retryable = No => \E d \in link.details : d.retryable = No

LEMMA InspectIs ==
    ASSUME NEW link \in LinkRecord, IsFiniteSet(link.details), NEW form,
           NEW order \in SetToSeqs(link.details)
    PROVE  InspectionIs(InspectDetails(link, form, order), link, form)
<1> DEFINE D == link.details
           header == link.header
           seen == InspectDetails(link, form, order)
<1>1. D \in SUBSET DetailRecord
  BY DEF LinkRecord
<1>2. PICK found : SeenIs(found, header, form, D) /\ seen = Reconciled(found)
  BY <1>1, DetailsAreRead
<1> HIDE DEF seen
<1>3. /\ found \in Seen /\ FlagsAre(found, header, form, D)
      /\ RetryableIs(found, header, D) /\ StatusIs(found, header, D)
  BY <1>2 DEF SeenIs
<1>4. /\ seen.connect = found.connect /\ seen.provider = found.provider
      /\ seen.veto = found.veto /\ seen.conflict = found.conflict
      /\ seen.server <=> found.server /\ ~found.statusConflict /\ ~found.conflict
      /\ seen.retryable = IF found.permanent \/ found.conflict THEN "unset" ELSE found.retryable
  BY <1>2, <1>3 DEF Reconciled, Seen
<1>5. /\ seen.connect
      /\ seen.provider <=> ProviderSpoke(link)
      /\ seen.veto <=> \E d \in D : Vetoes(header, form, d)
  BY <1>3, <1>4 DEF FlagsAre, ProviderSpoke
<1>6. seen.conflict <=> Conflicts(header, D)
  BY <1>3, <1>4 DEF RetryableIs
<1>7. seen.server <=> ServerFailed(link) /\ ~Conflicts(header, D)
  BY <1>3, <1>4 DEF FlagsAre, StatusIs, RetryableIs, ServerFailed
<1>8. /\ \A d \in Said(header, D) : d \in D /\ d.retryable \in {"unset", Yes, No}
      /\ found.retryable \in {"unset", Yes, No}
  BY <1>1, <1>3 DEF Said, DetailRecord, Seen
<1>9. /\ seen.retryable = No => \E d \in D : d.retryable = No
      /\ found.retryable = No => \E d \in Said(header, D) : d.retryable = No
  BY <1>3, <1>4, <1>8 DEF RetryableIs, No
<1>10. ASSUME ~Forbids(link)
       PROVE  seen.retryable = No <=> \E d \in Said(header, D) : d.retryable = No
  <2>1. ~found.permanent /\ ~found.conflict
    BY <1>3, <1>10 DEF Forbids, FlagsAre, RetryableIs
  <2>2. seen.retryable = found.retryable
    BY <1>4, <2>1
  <2>3. ASSUME NEW d \in Said(header, D), d.retryable = No PROVE found.retryable = No
    <3>1. found.retryable # "unset"
      BY <1>3, <2>3 DEF RetryableIs, No
    <3>2. found.retryable # Yes
      BY <1>3, <1>10, <2>3 DEF RetryableIs, Forbids, Conflicts, Yes
    <3>3. QED
      BY <1>8, <3>1, <3>2
  <2>4. QED
    BY <1>9, <2>2, <2>3
<1>11. QED
  BY <1>5, <1>6, <1>7, <1>9, <1>10 DEF InspectionIs, seen

\* Whoever reads the details, in whatever form and order, decides the same.
LEMMA DecisionIs ==
    ASSUME NEW link \in LinkRecord, link.type = "connect", IsFiniteSet(link.details),
           NEW form \in {"value", "debug"}, NEW order \in SetToSeqs(link.details),
           NEW optIn \in BOOLEAN
    PROVE  ConnectDecision(link, InspectDetails(link, form, order), form, optIn)
             = RetryVerdict(link, optIn)
<1> DEFINE D == link.details
           header == link.header
           seen == InspectDetails(link, form, order)
<1>1. InspectionIs(seen, link, form)
  BY InspectIs
<1> HIDE DEF seen
<1>2. \A d \in D : d.type = "foreign" => ~Permanent(d)
  BY DEF Permanent
<1>3. Forbids(link) <=> NamesPermanent(link, form) \/ seen.veto \/ seen.conflict
  BY <1>1, <1>2 DEF InspectionIs, Forbids, NamesPermanent, Readable, Vetoes
<1>4. ServerFailed(link) => ProviderSpoke(link)
  BY DEF ServerFailed, ProviderSpoke, Said, OfProvider
<1>5. ASSUME ~Forbids(link)
      PROVE  seen.provider /\ seen.server <=> ServerFailed(link)
  BY <1>1, <1>4, <1>5 DEF InspectionIs, Forbids
<1>6. ASSUME ~Forbids(link)
      PROVE  FlaggedNo(link, form) \/ seen.retryable = No <=> \E d \in D : d.retryable = No
  <2>1. ASSUME NEW d \in D, d.retryable = No
        PROVE  d.type = "foreign" \/ d \in Said(header, D)
    BY <1>5, <1>6, <2>1 DEF Forbids, Vetoes, Said
  <2>2. (\E d \in D : d.retryable = No) => FlaggedNo(link, form) \/ seen.retryable = No
    BY <1>1, <1>6, <2>1 DEF InspectionIs, FlaggedNo, Readable
  <2>3. FlaggedNo(link, form) \/ seen.retryable = No => \E d \in D : d.retryable = No
    BY <1>1 DEF InspectionIs, FlaggedNo, Readable
  <2>4. QED
    BY <2>2, <2>3
<1>7. CASE Forbids(link)
  BY <1>3, <1>7 DEF ConnectDecision, RetryVerdict, seen
<1>8. CASE ~Forbids(link)
  <2>1. ConnectDecision(link, seen, form, optIn) =
          IF optIn /\ ServerFailed(link) /\ link.code = "resource_exhausted" THEN "server"
          ELSE IF \E d \in D : d.retryable = No THEN "terminal" ELSE "none"
    <3>1. ~(NamesPermanent(link, form) \/ seen.veto \/ seen.conflict)
      BY <1>3, <1>8
    <3>2. (optIn /\ seen.provider /\ seen.server /\ link.code = "resource_exhausted")
            <=> (optIn /\ ServerFailed(link) /\ link.code = "resource_exhausted")
      BY <1>5, <1>8
    <3>3. FlaggedNo(link, form) \/ seen.retryable = No <=> \E d \in D : d.retryable = No
      BY <1>6, <1>8
    <3>4. QED
      BY <3>1, <3>2, <3>3 DEF ConnectDecision
  <2>2. QED
    BY <1>8, <2>1 DEF RetryVerdict, seen
<1>9. QED
  BY <1>7, <1>8

-----------------------------------------------------------------------------
(* What a chain decides                                                    *)

Wrapper == {Plain("plain", text) : text \in {"neutral", "transport"}}

\* What threw the error, with the details upstream gave it.
RootFine(link) ==
    /\ link \in LinkRecord /\ IsFiniteSet(link.details)
    /\ link.type = "http" => link.code = "none" /\ link.text = "neutral"
    /\ link.type = "connect" => link.status = 0
    /\ link.type \notin {"http", "connect"} => link.status = 0 /\ link.code = "none"

ChainFine(chain) ==
    /\ chain \in Seq(LinkRecord) /\ Len(chain) # 0 /\ RootFine(Last(chain))
    /\ \A i \in 1..Len(chain) : i # Len(chain) => chain[i] \in Wrapper

ViewOf(chain, view) ==
    /\ view.form \in {"value", "debug"} /\ view.order \in SetToSeqs(Last(chain).details)

\* What becomes of a chain that is, or is not, retried at its deciding link.
KindOf(verdict, kind) ==
    IF verdict = "terminal" THEN "none" ELSE IF verdict = "server" THEN "server" ELSE kind

LEMMA ChainIs ==
    ASSUME NEW chain, ChainFine(chain)
    PROVE  /\ Len(chain) \in Nat /\ Len(chain) \in 1..Len(chain) /\ DOMAIN chain = 1..Len(chain)
           /\ Last(chain) = chain[Len(chain)] /\ Last(chain) \in LinkRecord
           /\ \A i \in 1..Len(chain) : i # Len(chain) =>
                /\ chain[i].type = "plain" /\ chain[i].status = 0 /\ chain[i].code = "none"
                /\ chain[i].header = "none" /\ chain[i].details = {}
BY DEF ChainFine, Last, Wrapper, Plain, RootFine

LEMMA NestedIs ==
    ASSUME NEW chain, ChainFine(chain), NEW view, ViewOf(chain, view), NEW optIn \in BOOLEAN
    PROVE  NestedDecision(chain, view, optIn) = RetryVerdict(Last(chain), optIn)
<1> DEFINE root == Last(chain)
           decisions == {LinkDecision(chain[i], view, optIn) : i \in DOMAIN chain}
<1>1. /\ Len(chain) \in Nat /\ Len(chain) \in 1..Len(chain) /\ DOMAIN chain = 1..Len(chain)
      /\ root = chain[Len(chain)] /\ root \in LinkRecord /\ IsFiniteSet(root.details)
  BY ChainIs DEF ChainFine, RootFine
<1>2. \A i \in 1..Len(chain) : i # Len(chain) => LinkDecision(chain[i], view, optIn) = "none"
  BY ChainIs DEF LinkDecision
<1>3. LinkDecision(root, view, optIn) = RetryVerdict(root, optIn)
  <2>1. CASE root.type = "http"
    BY <2>1 DEF LinkDecision, RetryVerdict
  <2>2. CASE root.type = "connect"
    <3>1. LinkDecision(root, view, optIn) =
            ConnectDecision(root, InspectDetails(root, view.form, view.order), view.form, optIn)
      BY <2>2 DEF LinkDecision, InspectLink
    <3>2. view.form \in {"value", "debug"} /\ view.order \in SetToSeqs(root.details)
      BY DEF ViewOf
    <3> HIDE DEF root
    <3>3. QED
      BY <1>1, <2>2, <3>1, <3>2, DecisionIs
  <2>3. CASE root.type \notin {"http", "connect"}
    BY <2>3 DEF LinkDecision, RetryVerdict
  <2>4. QED
    BY <2>1, <2>2, <2>3
<1>4. RetryVerdict(root, optIn) \in {"terminal", "server", "none"}
  BY DEF RetryVerdict
<1> HIDE DEF root
<1>5. "terminal" \in decisions <=> RetryVerdict(root, optIn) = "terminal"
  BY <1>1, <1>2, <1>3
<1>6. "server" \in decisions <=> RetryVerdict(root, optIn) = "server"
  BY <1>1, <1>2, <1>3
<1>7. NestedDecision(chain, view, optIn) = Strongest(decisions)
  BY DEF NestedDecision
<1> HIDE DEF decisions
<1>8. QED
  BY <1>4, <1>5, <1>6, <1>7 DEF Strongest, root

LEMMA RetryKindIs ==
    ASSUME NEW chain, ChainFine(chain), NEW view, ViewOf(chain, view), NEW optIn \in BOOLEAN
    PROVE  RetryKind(chain, view, optIn)
             = KindOf(RetryVerdict(Last(chain), optIn), LinkKind(FirstLink(chain, Decides)))
<1>1. NestedDecision(chain, view, optIn) = RetryVerdict(Last(chain), optIn)
  BY NestedIs
<1>2. RetryVerdict(Last(chain), optIn) \in {"terminal", "server", "none"}
  BY DEF RetryVerdict
<1>3. QED
  BY <1>1, <1>2 DEF RetryKind, KindOf

LEMMA LeastOfOne ==
    ASSUME NEW n \in Nat
    PROVE  Min({n}) = n
BY DEF Min

\* Only the innermost link of a chain is typed.
LEMMA FirstLinksAre ==
    ASSUME NEW chain, ChainFine(chain)
    PROVE  LET root == Last(chain) silent == Plain("plain", "neutral")
           IN  /\ FirstLink(chain, IsTyped) = IF IsTyped(root) THEN root ELSE silent
               /\ FirstLink(chain, IsHttp) = IF IsHttp(root) THEN root ELSE silent
               /\ FirstLink(chain, IsConnect) = IF IsConnect(root) THEN root ELSE silent
<1> DEFINE root == Last(chain)
           n == Len(chain)
           typed == {i \in 1..n : IsTyped(chain[i])}
           https == {i \in 1..n : IsHttp(chain[i])}
           connects == {i \in 1..n : IsConnect(chain[i])}
<1>1. /\ n \in Nat /\ n \in 1..n /\ root = chain[n] /\ n # 0
      /\ \A i \in 1..n : i # n => chain[i].type = "plain"
  BY ChainIs
<1> HIDE DEF root, n
<1>2. /\ typed = IF IsTyped(root) THEN {n} ELSE {}
      /\ https = IF IsHttp(root) THEN {n} ELSE {}
      /\ connects = IF IsConnect(root) THEN {n} ELSE {}
  BY <1>1 DEF IsTyped, IsHttp, IsConnect
<1> HIDE DEF typed, https, connects
<1>3. Min({n}) = n /\ {n} # {}
  BY <1>1, LeastOfOne
<1>4. /\ SelectInSeq(chain, IsTyped) = IF IsTyped(root) THEN n ELSE 0
      /\ SelectInSeq(chain, IsHttp) = IF IsHttp(root) THEN n ELSE 0
      /\ SelectInSeq(chain, IsConnect) = IF IsConnect(root) THEN n ELSE 0
  <2>1. /\ SelectInSeq(chain, IsTyped) = IF typed # {} THEN Min(typed) ELSE 0
        /\ SelectInSeq(chain, IsHttp) = IF https # {} THEN Min(https) ELSE 0
        /\ SelectInSeq(chain, IsConnect) = IF connects # {} THEN Min(connects) ELSE 0
    BY DEF SelectInSeq, typed, https, connects, n
  <2>2. QED
    BY <1>2, <1>3, <2>1
<1>5. /\ FirstLink(chain, IsTyped) = IF IsTyped(root) THEN root ELSE Plain("plain", "neutral")
      /\ FirstLink(chain, IsHttp) = IF IsHttp(root) THEN root ELSE Plain("plain", "neutral")
      /\ FirstLink(chain, IsConnect) = IF IsConnect(root) THEN root ELSE Plain("plain", "neutral")
  BY <1>1, <1>4 DEF FirstLink
<1>6. QED
  BY <1>5 DEF root

\* A chain of one link is decided by it, if by any.
LEMMA OneDecides ==
    ASSUME NEW chain, Len(chain) = 1
    PROVE  FirstLink(chain, Decides) =
             IF Decides(chain[1]) THEN chain[1] ELSE Plain("plain", "neutral")
<1> DEFINE I == {i \in 1..Len(chain) : Decides(chain[i])}
<1>1. I = IF Decides(chain[1]) THEN {1} ELSE {}
  OBVIOUS
<1>2. SelectInSeq(chain, Decides) = IF I # {} THEN Min(I) ELSE 0
  BY DEF SelectInSeq
<1> HIDE DEF I
<1>3. SelectInSeq(chain, Decides) = IF Decides(chain[1]) THEN 1 ELSE 0
  BY <1>1, <1>2, LeastOfOne
<1>4. QED
  BY <1>3 DEF FirstLink

-----------------------------------------------------------------------------
(* The properties                                                          *)

ErrorInv ==
    /\ ChainFine(error)
    /\ [Last(error) EXCEPT !.details = {}] \in Roots
    /\ Last(error).details \subseteq Details

LEMMA ViewsAre ==
    ASSUME ErrorInv
    PROVE  /\ AView \in Views /\ \A view \in Views : ViewOf(error, view)
<1>1. PICK order : order \in SetToSeqs(Last(error).details)
  BY OrderExists DEF ErrorInv, ChainFine, RootFine
<1>2. [form |-> "value", order |-> order] \in Views
  BY <1>1 DEF Views
<1>3. \E view \in Views : view.form = "value"
  BY <1>2
<1>4. AView \in Views
  BY <1>3 DEF AView
<1>5. \A view \in Views : ViewOf(error, view)
  BY DEF Views, ViewOf
<1>6. QED
  BY <1>4, <1>5

LEMMA OneOf ==
    ASSUME NEW S, NEW x, S = {x}
    PROVE  Cardinality(S) = 1
BY FS_Singleton

\* What the inspection says of a whole error.
LEMMA InspectionOfChain ==
    ASSUME NEW chain, ChainFine(chain), NEW view, ViewOf(chain, view)
    PROVE  LET root == Last(chain) seen == Inspect(chain, view)
           IN  /\ root.type = "connect" => InspectionIs(seen, root, view.form)
               /\ root.type # "connect" =>
                    /\ ~seen.connect /\ ~seen.veto
                    /\ seen.provider <=> root.type = "http" /\ root.header = "provider"
<1> DEFINE root == Last(chain)
           seen == Inspect(chain, view)
<1>1. root \in LinkRecord /\ IsFiniteSet(root.details) /\ view.order \in SetToSeqs(root.details)
  BY DEF ChainFine, RootFine, ViewOf
<1>2. FirstLink(chain, IsTyped) = IF IsTyped(root) THEN root ELSE Plain("plain", "neutral")
  BY FirstLinksAre
<1> HIDE DEF root
<1>3. CASE root.type = "connect"
  <2>1. seen = InspectDetails(root, view.form, view.order)
    BY <1>2, <1>3 DEF Inspect, IsTyped, IsConnect, InspectLink
  <2>2. InspectionIs(InspectDetails(root, view.form, view.order), root, view.form)
    BY <1>1, InspectIs
  <2>3. QED
    BY <1>3, <2>1, <2>2 DEF root
<1>4. CASE root.type = "http"
  <2>1. seen = [Nothing EXCEPT !.provider = root.header = "provider"]
    BY <1>2, <1>4 DEF Inspect, IsTyped, IsHttp, InspectLink
  <2>2. ~seen.connect /\ ~seen.veto /\ (seen.provider <=> root.header = "provider")
    BY <2>1 DEF Nothing
  <2>3. QED
    BY <1>4, <2>2 DEF root
<1>5. CASE root.type \notin {"http", "connect"}
  <2>1. seen = Nothing
    BY <1>2, <1>5 DEF Inspect, IsTyped, IsHttp, IsConnect, InspectLink, Plain
  <2>2. ~seen.connect /\ ~seen.veto /\ ~seen.provider
    BY <2>1 DEF Nothing
  <2>3. QED
    BY <1>5, <2>2 DEF root
<1>6. QED
  BY <1>3, <1>4, <1>5

\* Why a credential failed, of the outermost status and code and the inspection.
ReasonOf(root, provider, veto) ==
    LET rejected == root.status \in {401, 403} \/ root.code = "unauthenticated"
        exhausted == provider /\ root.code = "resource_exhausted"
        said == DetailsReason(root)
    IN  IF rejected /\ ~provider /\ ~veto THEN "auth"
        ELSE IF root.status = 402 \/ said = "billing" THEN "billing"
        ELSE IF root.status \in {429, 503} \/ said = "cooldown" \/ exhausted THEN "cooldown"
        ELSE "none"

LEMMA ReasonIs ==
    ASSUME NEW chain, ChainFine(chain), NEW view
    PROVE  FailureReason(chain, view) =
             ReasonOf(Last(chain), Inspect(chain, view).provider, Inspect(chain, view).veto)
<1> DEFINE root == Last(chain)
<1>1. FirstLink(chain, IsHttp).status = root.status
  <2>1. FirstLink(chain, IsHttp) = IF IsHttp(root) THEN root ELSE Plain("plain", "neutral")
    BY FirstLinksAre
  <2>2. QED
    BY <2>1 DEF ChainFine, RootFine, LinkRecord, IsHttp, Plain
<1>2. FirstLink(chain, IsConnect).code = root.code
  <2>1. FirstLink(chain, IsConnect) = IF IsConnect(root) THEN root ELSE Plain("plain", "neutral")
    BY FirstLinksAre
  <2>2. QED
    BY <2>1 DEF ChainFine, RootFine, LinkRecord, IsConnect, Plain
<1>3. QED
  BY <1>1, <1>2 DEF FailureReason, ReasonOf

LEMMA DecisionsDo ==
    ASSUME ErrorInv
    PROVE  DecisionsAgree
<1> DEFINE root == Last(error)
<1>1. ChainFine(error) /\ AView \in Views /\ \A view \in Views : ViewOf(error, view)
  BY ViewsAre DEF ErrorInv
<1>2. ASSUME NEW optIn \in BOOLEAN
      PROVE  Cardinality({RetryKind(error, view, optIn) : view \in Views}) = 1
  <2> DEFINE kind == KindOf(RetryVerdict(root, optIn), LinkKind(FirstLink(error, Decides)))
  <2>1. \A view \in Views : RetryKind(error, view, optIn) = kind
    BY <1>1, RetryKindIs
  <2> HIDE DEF kind
  <2>2. {RetryKind(error, view, optIn) : view \in Views} = {kind}
    BY <1>1, <2>1
  <2>3. QED
    BY <2>2, OneOf
<1>3. ASSUME ~(root.code = "unauthenticated" /\ \E d \in root.details : Permanent(d))
      PROVE  Cardinality({FailureReason(error, view) : view \in Views}) = 1
  <2> DEFINE provider(view) == Inspect(error, view).provider
             veto(view) == Inspect(error, view).veto
             reason == FailureReason(error, AView)
  <2>1. ASSUME NEW v \in Views, NEW w \in Views
        PROVE  provider(v) <=> provider(w)
    BY <1>1, InspectionOfChain DEF InspectionIs
  <2>2. ASSUME NEW v \in Views, NEW w \in Views, root.code = "unauthenticated"
        PROVE  veto(v) <=> veto(w)
    <3>1. \A d \in root.details : ~Permanent(d)
      BY <1>3, <2>2
    <3>2. CASE root.type = "connect"
      <4>1. /\ veto(v) <=> \E d \in root.details : Vetoes(root.header, v.form, d)
            /\ veto(w) <=> \E d \in root.details : Vetoes(root.header, w.form, d)
        BY <1>1, <3>2, InspectionOfChain DEF InspectionIs
      <4>2. QED
        BY <3>1, <4>1 DEF Vetoes
    <3>3. CASE root.type # "connect"
      BY <1>1, <3>3, InspectionOfChain
    <3>4. QED
      BY <3>2, <3>3
  <2>3. ASSUME NEW v \in Views, NEW w \in Views, root.status \in {401, 403}
        PROVE  veto(v) <=> veto(w)
    <3>1. root.type # "connect"
      BY <1>1, <2>3 DEF ChainFine, RootFine
    <3>2. QED
      BY <1>1, <3>1, InspectionOfChain
  <2>4. ASSUME NEW v \in Views
        PROVE  FailureReason(error, v) = reason
    <3>1. /\ FailureReason(error, v) = ReasonOf(root, provider(v), veto(v))
          /\ reason = ReasonOf(root, provider(AView), veto(AView))
      BY <1>1, ReasonIs
    <3>2. provider(v) <=> provider(AView)
      BY <1>1, <2>1
    <3>3. root.code = "unauthenticated" \/ root.status \in {401, 403} => (veto(v) <=> veto(AView))
      BY <1>1, <2>2, <2>3
    <3> HIDE DEF provider, veto, reason, root
    <3>4. ReasonOf(root, provider(v), veto(v)) = ReasonOf(root, provider(AView), veto(AView))
      BY <3>2, <3>3 DEF ReasonOf
    <3>5. QED
      BY <3>1, <3>4
  <2> HIDE DEF reason
  <2>5. {FailureReason(error, view) : view \in Views} = {reason}
    BY <1>1, <2>4
  <2>6. QED
    BY <2>5, OneOf
<1>4. QED
  BY <1>2, <1>3 DEF DecisionsAgree

LEMMA OptInDoes ==
    ASSUME ErrorInv
    PROVE  OptInIsNarrow
<1> DEFINE root == Last(error)
           D == root.details
           kind == LinkKind(FirstLink(error, Decides))
<1>1. ChainFine(error) /\ ViewOf(error, AView) /\ D \in SUBSET DetailRecord
  BY ViewsAre DEF ErrorInv, ChainFine, RootFine, LinkRecord
<1>2. /\ RetryKind(error, AView, FALSE) = KindOf(RetryVerdict(root, FALSE), kind)
      /\ RetryKind(error, AView, TRUE) = KindOf(RetryVerdict(root, TRUE), kind)
  BY <1>1, RetryKindIs
<1> HIDE DEF root, kind
<1>3. SUFFICES ASSUME KindOf(RetryVerdict(root, TRUE), kind) # KindOf(RetryVerdict(root, FALSE), kind)
               PROVE  /\ KindOf(RetryVerdict(root, FALSE), kind) = "none"
                      /\ KindOf(RetryVerdict(root, TRUE), kind) = "server"
                      /\ \E d \in D : d.retryable = No /\ d.status = "503"
                      /\ \A d \in D :
                           /\ d.type \notin {"billing", "cooldown", "broken"}
                           /\ d.type = "provider" => d.status # "400" /\ d.retryable # Yes
                           /\ d.type = "other" => d.retryable # No
  BY <1>2 DEF OptInIsNarrow, root
<1>4. /\ root.type = "connect" /\ ~Forbids(root) /\ ServerFailed(root)
      /\ root.code = "resource_exhausted"
  BY <1>3 DEF RetryVerdict
<1>5. PICK e \in Said(root.header, D) : e.retryable = No /\ e.status = "503"
  BY <1>4 DEF ServerFailed
<1>6. e \in D
  BY <1>5 DEF Said
<1>7. RetryVerdict(root, FALSE) = "terminal" /\ RetryVerdict(root, TRUE) = "server"
  BY <1>4, <1>5, <1>6 DEF RetryVerdict
<1>8. ASSUME NEW d \in D
      PROVE  /\ d.type \notin {"billing", "cooldown", "broken"}
             /\ d.type = "provider" => d.status # "400" /\ d.retryable # Yes
             /\ d.type = "other" => d.retryable # No
  <2>1. ~Permanent(d) /\ ~Vetoes(root.header, "debug", d)
    BY <1>4 DEF Forbids
  <2>2. d.type \notin {"billing", "cooldown", "broken"} /\ (d.type = "other" => d.retryable # No)
    BY <2>1 DEF Permanent, Vetoes, OfProvider
  <2>3. ASSUME d.type = "provider" PROVE d.status # "400" /\ d.retryable # Yes
    <3>1. d \in Said(root.header, D)
      BY <2>3 DEF Said, OfProvider
    <3>2. d.status # "400"
      BY <1>4, <1>5, <3>1 DEF ServerFailed, Disagree
    <3>3. d.retryable # Yes
      BY <1>4, <1>5, <3>1 DEF Forbids, Conflicts
    <3>4. QED
      BY <3>2, <3>3
  <2>4. QED
    BY <2>2, <2>3
<1>9. QED
  BY <1>5, <1>6, <1>7, <1>8 DEF KindOf

LEMMA FlagDoes ==
    ASSUME ErrorInv
    PROVE  FlagOffIsTold
<1>1. ChainFine(error) /\ ViewOf(error, AView)
  BY ViewsAre DEF ErrorInv
<1>2. SUFFICES ASSUME NEW d \in RetryDecisions, ~d.retryProvider5xx, ~d.aborted, ~d.exhausted
               PROVE  Classify(error, AView, d).declined = "flag_off" <=>
                        /\ Classify(error, AView, [d EXCEPT !.retryProvider5xx = TRUE]).reason
                             = "provider_5xx"
                        /\ Classify(error, AView, d).kind = "none"
  BY DEF FlagOffIsTold, Unopted
<1> DEFINE e == [d EXCEPT !.retryProvider5xx = TRUE]
           off == Classify(error, AView, d)
           on == Classify(error, AView, e)
           timeoutRetry == d.retryRunTimeout /\ Head(error).type = "timeout"
           eligible == Provider5xxEligible(error, AView)
           kindOff == IF timeoutRetry THEN "transport" ELSE RetryKind(error, AView, FALSE)
           kindOn == IF timeoutRetry THEN "transport" ELSE RetryKind(error, AView, TRUE)
<1>3. /\ e.retryProvider5xx = TRUE /\ e.retryRunTimeout = d.retryRunTimeout
      /\ d.retryProvider5xx = FALSE
  BY <1>2 DEF RetryDecisions
<1>4. eligible <=> NestedDecision(error, AView, TRUE) = "server"
  BY DEF Provider5xxEligible
<1>5. eligible => RetryKind(error, AView, TRUE) = "server"
  BY <1>4 DEF RetryKind
<1> HIDE DEF e
<1>6. off.kind = kindOff /\ (off.declined = "flag_off" <=> eligible /\ kindOff = "none")
  <2>1. off.kind = kindOff
    BY <1>3 DEF Classify
  <2>2. off.declined = IF eligible /\ kindOff = "none" THEN "flag_off" ELSE "none"
    <3>1. off.declined =
            CASE (d.retryProvider5xx /\ eligible /\ kindOff = "server") /\ d.delivered -> "post_visible"
              [] (d.retryProvider5xx /\ eligible /\ kindOff = "server") /\ ~d.delivered
                 /\ ~d.aborted /\ d.exhausted -> "retry_limit"
              [] ~d.retryProvider5xx /\ eligible /\ kindOff = "none" -> "flag_off"
              [] OTHER -> "none"
      BY <1>3 DEF Classify
    <3> HIDE DEF off, eligible, kindOff
    <3>2. QED
      BY <1>3, <3>1
  <2>3. QED
    BY <2>1, <2>2
<1>7. on.reason = "provider_5xx" <=> ~timeoutRetry /\ eligible /\ kindOn = "server"
  <2>1. on.reason =
          CASE timeoutRetry -> "run_timeout"
            [] ~timeoutRetry /\ (e.retryProvider5xx /\ eligible /\ kindOn = "server")
                 -> "provider_5xx"
            [] OTHER -> "none"
    BY <1>3 DEF Classify
  <2> HIDE DEF on, timeoutRetry, eligible, kindOn
  <2>2. QED
    BY <1>3, <2>1
<1>8. QED
  BY <1>5, <1>6, <1>7 DEF e

\* What refuses a token, of a chain of one link.
LEMMA AutoDoes ==
    ASSUME ErrorInv
    PROVE  AutoAgrees
<1> DEFINE root == Last(error)
<1>1. /\ ChainFine(error) /\ \A view \in Views : ViewOf(error, view)
      /\ RootFine(root) /\ root.type \in {"http", "connect", "plain", "timeout"}
      /\ root.text \in {"neutral", "transport"} /\ root.status \in Nat
  BY ViewsAre DEF ErrorInv, ChainFine, RootFine, LinkRecord
<1>2. FirstLink(error, IsTyped) = IF IsTyped(root) THEN root ELSE Plain("plain", "neutral")
  BY <1>1, FirstLinksAre
<1>3. ASSUME Len(error) = 1, NEW view \in Views
      PROVE  AutoKind(error, view) = "auth" <=> FailureReason(error, view) = "auth"
  <2> DEFINE seen == Inspect(error, view)
  <2>1. root = Head(error)
    BY <1>1, <1>3 DEF ChainFine, Last
  <2>2. seen.connect <=> root.type = "connect"
    BY <1>1, InspectionOfChain DEF InspectionIs
  <2>3. FailureReason(error, view) = "auth" <=>
          /\ ~seen.provider /\ ~seen.veto
          /\ root.status \in {401, 403} \/ root.code = "unauthenticated"
    <3>1. FailureReason(error, view) = ReasonOf(root, seen.provider, seen.veto)
      BY <1>1, ReasonIs
    <3> HIDE DEF seen, root
    <3>2. QED
      BY <3>1 DEF ReasonOf
  <2>4. AutoKind(error, view) = "auth" <=>
          /\ ~seen.provider /\ ~seen.veto
          /\ \/ seen.connect /\ FirstLink(error, IsTyped).code = "unauthenticated"
             \/ root.type = "http" /\ root.status \in {401, 403}
    <3>1. root.type = "http" => ~(seen.connect /\ FirstLink(error, IsTyped).code = "unauthenticated")
      BY <2>2
    <3>2. AutoKind(error, view) =
            IF seen.provider \/ seen.veto THEN "ordinary"
            ELSE IF seen.connect /\ FirstLink(error, IsTyped).code = "unauthenticated" THEN "auth"
            ELSE IF root.type = "http"
            THEN IF root.status \in {401, 403} THEN "auth"
                 ELSE IF root.status \in 400..499 THEN "ordinary" ELSE "transport"
            ELSE IF \/ RetryKind(error, view, FALSE) = "transport"
                    \/ (~seen.connect /\ root.text = "transport")
            THEN "transport" ELSE "ordinary"
      BY <2>1 DEF AutoKind
    <3> HIDE DEF seen, root
    <3>3. QED
      BY <3>1, <3>2
  <2>5. seen.connect => FirstLink(error, IsTyped).code = root.code
    BY <1>2, <2>2 DEF IsTyped, IsConnect
  <2>6. /\ root.type = "connect" => root.status \notin {401, 403}
        /\ root.type = "http" => root.code # "unauthenticated"
        /\ root.type \notin {"http", "connect"} =>
             root.status \notin {401, 403} /\ root.code # "unauthenticated"
    BY <1>1 DEF RootFine
  <2> HIDE DEF seen, root
  <2>7. QED
    BY <1>1, <2>2, <2>3, <2>4, <2>5, <2>6
<1>4. ASSUME NEW view \in Views, RetryKind(error, view, FALSE) = "transport",
             ~Inspect(error, view).provider
      PROVE  AutoKind(error, view) \in {"transport", "auth"}
  <2> DEFINE seen == Inspect(error, view)
  <2>1. RetryKind(error, view, FALSE)
          = KindOf(RetryVerdict(root, FALSE), LinkKind(FirstLink(error, Decides)))
    BY <1>1, RetryKindIs
  <2>2. RetryVerdict(root, FALSE) # "terminal" /\ LinkKind(FirstLink(error, Decides)) = "transport"
    BY <1>4, <2>1 DEF KindOf
  <2>3. ~seen.veto
    <3>1. CASE root.type = "connect"
      <4>1. seen.veto <=> \E d \in root.details : Vetoes(root.header, view.form, d)
        BY <1>1, <3>1, InspectionOfChain DEF InspectionIs
      <4>2. ~Forbids(root)
        BY <2>2, <3>1 DEF RetryVerdict
      <4>3. QED
        BY <4>1, <4>2 DEF Forbids, Vetoes
    <3>2. CASE root.type # "connect"
      BY <1>1, <3>2, InspectionOfChain
    <3>3. QED
      BY <3>1, <3>2
  <2>4. Head(error).type # "http"
    <3>1. CASE Len(error) = 1
      <4>1. FirstLink(error, Decides) =
              IF Decides(error[1]) THEN error[1] ELSE Plain("plain", "neutral")
        BY <3>1, OneDecides
      <4>2. Head(error) = error[1]
        BY <1>1 DEF ChainFine
      <4>3. QED
        BY <2>2, <4>1, <4>2 DEF Decides, IsTyped, IsHttp, LinkKind, Plain
    <3>2. CASE Len(error) # 1
      <4>1. 1 \in 1..Len(error) /\ Head(error) = error[1]
        BY <1>1, ChainIs DEF ChainFine
      <4>2. \A i \in 1..Len(error) : i # Len(error) => error[i].type = "plain"
        BY <1>1, ChainIs
      <4>3. error[1].type = "plain"
        BY <3>2, <4>1, <4>2
      <4>4. QED
        BY <4>1, <4>3
    <3>3. QED
      BY <3>1, <3>2
  <2> HIDE DEF seen
  <2>5. QED
    BY <1>4, <2>3, <2>4 DEF AutoKind, seen
<1>5. QED
  BY <1>3, <1>4 DEF AutoAgrees

-----------------------------------------------------------------------------
(* The error grows                                                         *)

LEMMA RootsAreFine ==
    ASSUME NEW root \in Roots
    PROVE  RootFine(root) /\ root.details = {} /\ [root EXCEPT !.details = {}] = root
<1>1. IsFiniteSet({})
  BY FS_EmptySet
<1>2. CASE root \in {Http(s, h) : s \in {401, 402, 404, 429, 503}, h \in Headers}
  BY <1>1, <1>2 DEF Http, RootFine, LinkRecord, Headers, Codes
<1>3. CASE root \in {Connect(c, h, "neutral") : c \in Codes, h \in Headers}
  BY <1>1, <1>3 DEF Connect, RootFine, LinkRecord, Headers, Codes
<1>4. CASE root = Connect("none", "none", "transport")
  BY <1>1, <1>4 DEF Connect, RootFine, LinkRecord, Headers, Codes
<1>5. CASE root \in {Plain("plain", "transport"), Plain("plain", "neutral"),
                     Plain("timeout", "neutral")}
  BY <1>1, <1>5 DEF Plain, RootFine, LinkRecord, Headers, Codes
<1>6. QED
  BY <1>2, <1>3, <1>4, <1>5 DEF Roots

LEMMA ErrorStarts ==
    ASSUME ErrorInit
    PROVE  ErrorInv
<1>1. PICK root \in Roots : error = <<root>>
  BY DEF ErrorInit
<1>2. RootFine(root) /\ root.details = {} /\ [root EXCEPT !.details = {}] = root
  BY RootsAreFine
<1>3. Len(error) = 1 /\ Last(error) = root /\ error \in Seq(LinkRecord)
  BY <1>1, <1>2 DEF Last, RootFine
<1>4. ChainFine(error)
  BY <1>2, <1>3 DEF ChainFine
<1>5. QED
  BY <1>2, <1>3, <1>4 DEF ErrorInv

\* One more detail: the links are what they were, and what it forbids stays forbidden.
LEMMA DetailIsAdded ==
    ASSUME ErrorConstants, ErrorInv, NEW d \in Details, AddDetail(d)
    PROVE  /\ ErrorInv' /\ Len(error') = 1 /\ Len(error) = 1
           /\ LET now == Last(error)' before == Last(error)
              IN  /\ now.details = before.details \cup {d} /\ before.type = "connect"
                  /\ now.type = before.type /\ now.code = before.code
                  /\ now.header = before.header /\ now.text = before.text
                  /\ error'[1] = now /\ error[1] = before
<1> DEFINE before == error[1]
           now == [before EXCEPT !.details = @ \cup {d}]
<1>1. /\ Len(error) = 1 /\ before.type = "connect" /\ error' = [error EXCEPT ![1].details = @ \cup {d}]
      /\ error \in Seq(LinkRecord)
  BY DEF AddDetail, ErrorInv, ChainFine
<1>2. Last(error) = before /\ before \in LinkRecord
  BY <1>1 DEF Last
<1>3. error' \in Seq({now}) /\ Len(error') = 1 /\ error'[1] = now
  <2>1. error = <<before>>
    BY <1>1
  <2> HIDE DEF before
  <2>2. error' = <<now>>
    BY <1>1, <2>1
  <2> HIDE DEF now
  <2>3. QED
    BY <2>2
<1>4. Last(error)' = now
  BY <1>3 DEF Last
<1>5. d \in DetailRecord
  BY DEF ErrorConstants
<1>6. /\ now \in LinkRecord /\ now.type = before.type /\ now.code = before.code
      /\ now.header = before.header /\ now.text = before.text /\ now.status = before.status
      /\ now.details = before.details \cup {d}
      /\ [now EXCEPT !.details = {}] = [before EXCEPT !.details = {}]
  BY <1>2, <1>5 DEF LinkRecord
<1>7. /\ RootFine(before) /\ [before EXCEPT !.details = {}] \in Roots
      /\ before.details \subseteq Details
  BY <1>2 DEF ErrorInv, ChainFine
<1> HIDE DEF now, before
<1>8. RootFine(now)
  <2>1. IsFiniteSet(now.details)
    BY <1>6, <1>7, FS_AddElement DEF RootFine
  <2>2. QED
    BY <1>6, <1>7, <2>1 DEF RootFine
<1>9. ErrorInv'
  <2>1. error' \in Seq(LinkRecord)
    BY <1>3, <1>6
  <2>2. ChainFine(error')
    BY <1>3, <1>4, <1>8, <2>1 DEF ChainFine, Last
  <2>3. QED
    BY <1>4, <1>6, <1>7, <2>2 DEF ErrorInv, ChainFine
<1>10. QED
  BY <1>1, <1>2, <1>3, <1>4, <1>6, <1>9 DEF before

\* A wrapper has the same root.
LEMMA WrapperIsAdded ==
    ASSUME ErrorInv, NEW text \in {"neutral", "transport"}, Wrap(text)
    PROVE  ErrorInv' /\ Len(error') = Len(error) + 1 /\ Last(error)' = Last(error)
<1> DEFINE link == Plain("plain", text)
<1>1. /\ error' = <<link>> \o error /\ error \in Seq(LinkRecord) /\ Len(error) # 0
      /\ Len(error) \in Nat
  BY DEF Wrap, ErrorInv, ChainFine
<1>2. link \in LinkRecord /\ link \in Wrapper
  BY DEF LinkRecord, Plain, Wrapper, Codes, Headers
<1> HIDE DEF link
<1>3. <<link>> \in Seq(LinkRecord) /\ Len(<<link>>) = 1
  BY <1>2
<1>4. /\ error' \in Seq(LinkRecord) /\ Len(error') = Len(error) + 1
      /\ \A i \in 1..Len(error') : error'[i] = IF i = 1 THEN link ELSE error[i - 1]
  BY <1>1, <1>3
<1>5. Last(error)' = Last(error)
  <2>1. Last(error)' = error'[Len(error')] /\ Last(error) = error[Len(error)]
    BY DEF Last
  <2>2. Len(error') \in 1..Len(error') /\ Len(error') # 1 /\ Len(error') - 1 = Len(error)
    BY <1>1, <1>4
  <2>3. QED
    BY <1>4, <2>1, <2>2
<1>6. ASSUME NEW i \in 1..Len(error'), i # Len(error') PROVE error'[i] \in Wrapper
  <2>1. CASE i = 1
    BY <1>2, <1>4, <2>1
  <2>2. CASE i # 1
    <3>1. i - 1 \in 1..Len(error) /\ i - 1 # Len(error)
      BY <1>1, <1>4, <1>6, <2>2
    <3>2. QED
      BY <1>4, <2>2, <3>1 DEF ErrorInv, ChainFine
  <2>3. QED
    BY <2>1, <2>2
<1>7. ChainFine(error')
  <2>1. Last(error') = Last(error)
    BY <1>5 DEF Last
  <2>2. QED
    BY <1>1, <1>4, <1>6, <2>1 DEF ChainFine, ErrorInv
<1>8. ErrorInv'
  BY <1>5, <1>7 DEF ErrorInv, ChainFine
<1>9. QED
  BY <1>4, <1>5, <1>8

LEMMA ErrorGrows ==
    ASSUME ErrorConstants, ErrorInv, [ErrorNext]_errorVars
    PROVE  ErrorInv'
<1>1. CASE UNCHANGED errorVars
  BY <1>1 DEF errorVars, ErrorInv, ChainFine
<1>2. CASE ErrorNext
  BY <1>2, DetailIsAdded, WrapperIsAdded DEF ErrorNext
<1>3. QED
  BY <1>1, <1>2

LEMMA ErrorSays ==
    ASSUME ErrorConstants, ErrorInv
    PROVE  ErrorPolicySound
<1>1. ErrorTypeOK
  <2>1. \A i \in DOMAIN error \ {Len(error)} : error[i].type = "plain"
    BY ChainIs DEF ErrorInv
  <2>2. QED
    BY <2>1 DEF ErrorTypeOK, ErrorInv
<1>2. QED
  BY <1>1, DecisionsDo, OptInDoes, FlagDoes, AutoDoes DEF ErrorPolicySound

\* What was forbidden by some details is forbidden by more of them.
LEMMA VerdictStays ==
    ASSUME NEW before, NEW now, NEW d, now.details = before.details \cup {d},
           before.type = "connect", now.type = before.type, now.header = before.header,
           RetryVerdict(before, FALSE) = "terminal"
    PROVE  RetryVerdict(now, FALSE) = "terminal"
<1>1. Said(before.header, before.details) \subseteq Said(now.header, now.details)
  BY DEF Said
<1>2. Forbids(before) => Forbids(now)
  BY <1>1 DEF Forbids, Conflicts
<1>3. (\E e \in before.details : e.retryable = No) => \E e \in now.details : e.retryable = No
  OBVIOUS
<1>4. QED
  BY <1>2, <1>3 DEF RetryVerdict

LEMMA MoreDoes ==
    ASSUME ErrorConstants, ErrorInv, [ErrorNext]_errorVars
    PROVE  [MoreIsNoRetry]_errorVars
<1>0. ErrorInv'
  BY ErrorGrows
<1>1. SUFFICES ASSUME ErrorNext PROVE MoreIsNoRetry
  OBVIOUS
<1> DEFINE root == Last(error)
           rootNow == Last(error')
<1>2. ChainFine(error) /\ ViewOf(error, AView) /\ AView \in Views
  BY ViewsAre DEF ErrorInv
<1>3. ChainFine(error') /\ ViewOf(error', AView')
  <2>1. ASSUME NEW D, IsFiniteSet(D)
        PROVE  \E order : order \in SetToSeqs(D)
    BY <2>1, OrderExists
  <2>2. ChainFine(error') /\ rootNow = Last(error)'
    BY <1>0 DEF ErrorInv, ChainFine, Last
  <2>3. PICK order : order \in SetToSeqs(rootNow.details)
    BY <2>1, <2>2 DEF ChainFine, RootFine
  <2>4. Views' = [form : {"value", "debug"}, order : SetToSeqs(rootNow.details)]
    BY DEF Views, Last
  <2>5. [form |-> "value", order |-> order] \in Views'
    BY <2>3, <2>4
  <2>6. AView' = CHOOSE view \in Views' : view.form = "value"
    BY DEF AView
  <2>7. AView' \in Views'
    BY <2>5, <2>6
  <2>8. QED
    BY <2>2, <2>4, <2>7 DEF ViewOf
<1>4. \A optIn \in BOOLEAN :
        /\ RetryKind(error, AView, optIn)
             = KindOf(RetryVerdict(root, optIn), LinkKind(FirstLink(error, Decides)))
        /\ NestedDecision(error, AView, optIn) = RetryVerdict(root, optIn)
        /\ RetryKind(error', AView', optIn)
             = KindOf(RetryVerdict(rootNow, optIn), LinkKind(FirstLink(error', Decides)))
  BY <1>2, <1>3, RetryKindIs, NestedIs
<1>5. ASSUME NEW d \in Details, AddDetail(d) PROVE MoreIsNoRetry
  <2>1. /\ Len(error') = 1 /\ Len(error) = 1
        /\ rootNow.details = root.details \cup {d} /\ root.type = "connect"
        /\ rootNow.type = root.type /\ rootNow.code = root.code
        /\ rootNow.header = root.header /\ rootNow.text = root.text
        /\ error'[1] = rootNow /\ error[1] = root
    BY <1>5, DetailIsAdded DEF Last
  <2>2. FirstLink(error, Decides) = root /\ FirstLink(error', Decides) = rootNow
    BY <2>1, OneDecides DEF Decides, IsTyped, IsConnect
  <2> HIDE DEF root, rootNow
  <2>3. LinkKind(rootNow) = LinkKind(root)
    BY <2>1 DEF LinkKind
  <2>4. RetryVerdict(root, FALSE) = "terminal" => RetryVerdict(rootNow, FALSE) = "terminal"
    BY <2>1, VerdictStays
  <2>5. RetryVerdict(root, FALSE) # "server" /\ RetryVerdict(rootNow, FALSE) # "server"
    BY DEF RetryVerdict
  <2>6. RetryKind(error', AView', FALSE) \in {RetryKind(error, AView, FALSE), "none"}
    BY <1>4, <2>2, <2>3, <2>4, <2>5 DEF KindOf
  <2>7. ~(Len(error') > Len(error))
    BY <2>1
  <2>8. QED
    BY <2>6, <2>7 DEF MoreIsNoRetry
<1>6. ASSUME NEW text \in {"neutral", "transport"}, Wrap(text) PROVE MoreIsNoRetry
  <2>1. Len(error') # Len(error) /\ rootNow = root
    <3>1. Len(error') = Len(error) + 1 /\ Last(error)' = root /\ Len(error) \in Nat
      BY <1>2, <1>6, WrapperIsAdded, ChainIs
    <3>2. QED
      BY <3>1 DEF Last
  <2>2. ViewOf(error', AView)
    BY <1>2, <2>1 DEF ViewOf
  <2>3. \A optIn \in BOOLEAN :
          RetryKind(error', AView, optIn)
            = KindOf(RetryVerdict(rootNow, optIn), LinkKind(FirstLink(error', Decides)))
    BY <1>3, <2>2, RetryKindIs
  <2>4. \A optIn \in BOOLEAN :
          NestedDecision(error, AView, optIn) = "terminal" => RetryKind(error', AView, optIn) = "none"
    BY <1>4, <2>1, <2>3 DEF KindOf
  <2>5. QED
    BY <2>1, <2>4 DEF MoreIsNoRetry
<1>7. QED
  BY <1>1, <1>5, <1>6 DEF ErrorNext

\* Whatever details upstream puts into an error, in whatever order and form, and whoever wraps
\* it: they change no decision on a retry, the opt-in is narrow and told when it is off, and
\* the auto backend agrees with the router (provider-error.ts, retry.ts, credential-policy.ts,
\* auto-runtime.ts).
THEOREM ErrorsAreReadAlike ==
    ASSUME ErrorConstants
    PROVE  ErrorSpec => []ErrorPolicySound
<1>1. ErrorInit => ErrorInv
  BY ErrorStarts
<1>2. ErrorInv /\ [ErrorNext]_errorVars => ErrorInv'
  BY ErrorGrows
<1>3. ErrorInv => ErrorPolicySound
  BY ErrorSays
<1>4. QED
  BY <1>1, <1>2, <1>3, PTL DEF ErrorSpec

\* More details and more wrappers never make an error retried that was terminal
\* (retry.ts, cursorRetryFailureKind).
THEOREM MoreIsNeverRetried ==
    ASSUME ErrorConstants
    PROVE  ErrorSpec => MoreNeverRetries
<1>1. ErrorInit => ErrorInv
  BY ErrorStarts
<1>2. ErrorInv /\ [ErrorNext]_errorVars => ErrorInv'
  BY ErrorGrows
<1>3. ErrorInv /\ [ErrorNext]_errorVars => [MoreIsNoRetry]_errorVars
  BY MoreDoes
<1>4. QED
  BY <1>1, <1>2, <1>3, PTL DEF ErrorSpec, MoreNeverRetries
=============================================================================
