--------------------------- MODULE ReadingProofs ---------------------------
(***************************************************************************)
(* Proofs about Reading: for any messages, of any sizes, on a stream that  *)
(* is cut into any pieces and shared by any number of exchanges, the body  *)
(* an exchange delivers is the beginning of the body sent, and the whole   *)
(* of it where the handlers promise that.                                  *)
(*                                                                         *)
(* The argument follows the parser along the stream.                       *)
(*   - What the server sends is known position by position (HeadIs,        *)
(*     PlainIs, ChunkedIs).                                                *)
(*   - Follows(p, m, e, i): the parser p has taken the answer m to         *)
(*     exchange e up to position i, with the bytes of the body that are in *)
(*     front of it.  Positions below 1 are what the exchange before left.  *)
(*     A step takes the parser one position on (FollowsStep).              *)
(*   - Ran(...): what one call of execute() does, however long its input,  *)
(*     and where a callback pauses it.  It is proved along the fold        *)
(*     execute() is modelled as, with the lemmas of FoldLemmas.            *)
(*   - Underway: response_buf begins where the parser is, and the stream   *)
(*     goes on where response_buf ends; Doing and Whole say where each     *)
(*     read finds the parser.  Over: what an exchange has delivered.       *)
(* IInv, the inductive invariant, is the last two, for an exchange all of  *)
(* whose predecessors succeeded.                                           *)
(***************************************************************************)
EXTENDS Reading, TLAPS

Sums  == INSTANCE FoldLemmas WITH Op <- Plus
Joins == INSTANCE FoldLemmas WITH Op <- Concat
Runs  == INSTANCE FoldLemmas WITH Op <- Advance

Kinds == {"status", "bare", "length", "chunked", "eof", "CR", "LF", "size", "byte"}
TokenType == [kind : Kinds, n : Nat, of : Nat]

-----------------------------------------------------------------------------
(* Sizes.                                                                  *)

\* What a message is.
LEMMA PartsType ==
  ASSUME NEW m \in Messages
  PROVE  /\ m.framing \in Framing /\ m.parts \in Seq(Nat) /\ m.reason \in BOOLEAN
         /\ Len(m.parts) \in Nat
         /\ \A c \in 1..Len(m.parts) : m.parts[c] \in Nat /\ m.parts[c] > 0
<1>1. m \in [framing : Framing, parts : Seq(Nat), reason : BOOLEAN]
  BY MessagesAssumption
<1>2. \A c \in DOMAIN m.parts : m.parts[c] > 0
  BY MessagesAssumption
<1>3. m.parts \in Seq(Nat)
  BY <1>1
<1>4. DOMAIN m.parts = 1..Len(m.parts) /\ Len(m.parts) \in Nat
  BY <1>3
<1>5. \A c \in 1..Len(m.parts) : m.parts[c] \in Nat
  BY <1>3
<1> QED
  BY <1>1, <1>2, <1>4, <1>5

\* The sums of Reading are folds of FoldLemmas.
LEMMA SumFolds ==
  ASSUME NEW s
  PROVE  Sums!Folded(0, s) = FoldLeft(Plus, 0, s)
  BY DEF FoldLeft, MapThenFoldSet, Max, Sums!Folded, Sums!FoldLeft, Sums!MapThenFoldSet, Sums!Max

\* The size up to a chunk is the size up to the one before it and its own.
LEMMA SizeSteps ==
  ASSUME NEW m \in Messages
  PROVE  /\ SizeUpTo(m, 0) = 0
         /\ \A c \in 1..Len(m.parts) : SizeUpTo(m, c) = SizeUpTo(m, c - 1) + m.parts[c]
<1>1. m.parts \in Seq(Nat)
  BY PartsType
<1>2. Sums!Closes(Nat, Nat)
  BY DEF Sums!Closes, Plus
<1>3. 0 \in Nat
  OBVIOUS
<1>4. SizeUpTo(m, 0) = 0
  <2>1. SubSeq(m.parts, 1, 0) = <<>>
    BY <1>1
  <2>2. Sums!Folded(0, <<>>) = 0
    BY <1>2, <1>3, Sums!FoldEmpty, Zenon
  <2>3. FoldLeft(Plus, 0, <<>>) = 0
    BY <2>2, SumFolds, Zenon
  <2> QED
    BY <2>1, <2>3, Zenon DEF SizeUpTo
<1>5. ASSUME NEW k \in 0..(Len(m.parts) - 1)
      PROVE  SizeUpTo(m, k + 1) = SizeUpTo(m, k) + m.parts[k + 1]
  <2>1. Sums!Folded(0, SubSeq(m.parts, 1, k + 1))
          = Plus(Sums!Folded(0, SubSeq(m.parts, 1, k)), m.parts[k + 1])
    <3>1. Sums!Unrolls(0, m.parts)
      BY <1>1, <1>2, <1>3, Sums!FoldStep, Zenon
    <3> QED
      BY <3>1 DEF Sums!Unrolls
  <2>2. SizeUpTo(m, k + 1) = Plus(SizeUpTo(m, k), m.parts[k + 1])
    BY <2>1, SumFolds, Zenon DEF SizeUpTo
  <2> QED
    BY <2>2 DEF Plus
<1>6. ASSUME NEW c \in 1..Len(m.parts)
      PROVE  SizeUpTo(m, c) = SizeUpTo(m, c - 1) + m.parts[c]
  <2>1. c - 1 \in 0..(Len(m.parts) - 1) /\ (c - 1) + 1 = c
    BY <1>1
  <2> QED
    BY <1>5, <2>1
<1> QED
  BY <1>4, <1>6

\* Sizes are natural numbers, and the size up to a chunk is at most the whole.
LEMMA SizeBounds ==
  ASSUME NEW m \in Messages
  PROVE  /\ Size(m) \in Nat
         /\ \A c \in 0..Len(m.parts) : SizeUpTo(m, c) \in Nat /\ SizeUpTo(m, c) <= Size(m)
<1> DEFINE N == Len(m.parts)
<1>1. N \in Nat /\ \A c \in 1..N : m.parts[c] \in Nat
  BY PartsType
<1>2. SizeUpTo(m, 0) = 0 /\ \A c \in 1..N : SizeUpTo(m, c) = SizeUpTo(m, c - 1) + m.parts[c]
  BY SizeSteps
<1> HIDE DEF N
<1> DEFINE Up(c) == c <= N => SizeUpTo(m, c) \in Nat
           S == {c \in Nat : Up(c)}
<1>3. Up(0)
  BY <1>2
<1>4. ASSUME NEW c \in Nat, Up(c) PROVE Up(c + 1)
  <2>1. SUFFICES ASSUME c + 1 <= N PROVE SizeUpTo(m, c + 1) \in Nat
    OBVIOUS
  <2>2. c + 1 \in 1..N /\ (c + 1) - 1 = c /\ SizeUpTo(m, c) \in Nat
    BY <1>1, <1>4, <2>1
  <2> QED
    BY <1>1, <1>2, <2>2
<1>5. \A c \in 0..N : SizeUpTo(m, c) \in Nat
  <2> HIDE DEF Up
  <2>1. 0 \in S /\ \A c \in Nat : c \in S => c + 1 \in S
    BY <1>3, <1>4
  <2>2. Nat \subseteq S
    <3> HIDE DEF S
    <3> QED
      BY <2>1, Sums!NaturalInduction
  <2> QED
    BY <1>1, <2>2 DEF Up
<1> DEFINE Down(d) == d <= N => SizeUpTo(m, N - d) <= Size(m)
           T == {d \in Nat : Down(d)}
<1>6. Down(0)
  BY <1>1, <1>5 DEF Size, N
<1>7. ASSUME NEW d \in Nat, Down(d) PROVE Down(d + 1)
  <2>1. SUFFICES ASSUME d + 1 <= N PROVE SizeUpTo(m, N - (d + 1)) <= Size(m)
    OBVIOUS
  <2>2. N - d \in 1..N /\ (N - d) - 1 = N - (d + 1) /\ SizeUpTo(m, N - d) <= Size(m)
    BY <1>1, <1>7, <2>1
  <2>3. SizeUpTo(m, N - d) = SizeUpTo(m, N - (d + 1)) + m.parts[N - d]
    BY <1>2, <2>2
  <2>4. m.parts[N - d] \in Nat /\ SizeUpTo(m, N - (d + 1)) \in Nat /\ Size(m) \in Nat
    BY <1>1, <1>5, <2>1, <2>2 DEF Size, N
  <2> QED
    BY <2>2, <2>3, <2>4
<1>8. \A c \in 0..N : SizeUpTo(m, c) <= Size(m)
  <2> HIDE DEF Down
  <2>1. 0 \in T /\ \A d \in Nat : d \in T => d + 1 \in T
    BY <1>6, <1>7
  <2>2. Nat \subseteq T
    <3> HIDE DEF T
    <3> QED
      BY <2>1, Sums!NaturalInduction
  <2>3. TAKE c \in 0..N
  <2>4. N - c \in Nat /\ N - c <= N /\ N - (N - c) = c
    BY <1>1
  <2> QED
    BY <2>2, <2>4 DEF Down
<1> QED
  BY <1>1, <1>5, <1>8 DEF Size, N

-----------------------------------------------------------------------------
(* What the server sends, token by token.                                  *)

\* The tokens the server sends are tokens.
LEMMA TokenTypes ==
  /\ \A kind \in Kinds, n \in Nat, of \in Nat : Token(kind, n, of) \in TokenType
  /\ \A kind \in Kinds : Sign(kind) \in TokenType
  /\ CRLF \in Seq(TokenType) /\ Len(CRLF) = 2 /\ CRLF[1] = Sign("CR") /\ CRLF[2] = Sign("LF")
<1>1. ASSUME NEW kind \in Kinds, NEW n \in Nat, NEW of \in Nat
      PROVE  Token(kind, n, of) \in TokenType
  BY DEF Token, TokenType
<1>2. \A kind \in Kinds : Sign(kind) \in TokenType
  BY <1>1 DEF Sign
<1>3. Sign("CR") \in TokenType /\ Sign("LF") \in TokenType
  BY <1>2 DEF Kinds
<1>4. CRLF \in Seq(TokenType) /\ Len(CRLF) = 2 /\ CRLF[1] = Sign("CR") /\ CRLF[2] = Sign("LF")
  BY <1>3 DEF CRLF
<1> QED
  BY <1>1, <1>2, <1>4, Zenon

Tokens == Seq(TokenType)

\* u is s and then t.
IsJoin(u, s, t) ==
  /\ u \in Tokens /\ Len(s) \in Nat /\ Len(t) \in Nat /\ Len(u) = Len(s) + Len(t)
  /\ \A i \in 1..Len(s) : u[i] = s[i]
  /\ \A i \in 1..Len(t) : u[Len(s) + i] = t[i]

\* Two sequences of tokens, one after the other.
LEMMA Joined ==
  ASSUME NEW s \in Tokens, NEW t \in Tokens
  PROVE  IsJoin(s \o t, s, t)
  BY DEF IsJoin, Tokens

\* A sequence of one token.
LEMMA Single ==
  ASSUME NEW t \in TokenType
  PROVE  <<t>> \in Tokens /\ Len(<<t>>) = 1 /\ <<t>>[1] = t
  BY DEF Tokens

\* The body is as many bytes as its size, numbered.
LEMMA BodyIs ==
  ASSUME NEW m \in Messages, NEW e \in Nat
  PROVE  /\ Body(m, e) \in Seq(TokenType) /\ Len(Body(m, e)) = Size(m)
         /\ \A i \in 1..Size(m) : Body(m, e)[i] = Token("byte", i, e)
<1>1. Size(m) \in Nat
  BY SizeBounds
<1>2. ASSUME NEW i \in 1..Size(m) PROVE Token("byte", i, e) \in TokenType
  <2>1. i \in Nat
    BY <1>1
  <2> QED
    BY <2>1 DEF Token, TokenType, Kinds
<1> QED
  BY <1>1, <1>2 DEF Body

\* A chunk is its size, a line end, its bytes and a line end.
LEMMA ChunkIs ==
  ASSUME NEW m \in Messages, NEW e \in Nat, NEW c \in 1..Len(m.parts)
  PROVE  /\ Chunk(m, e, c) \in Seq(TokenType) /\ Len(Chunk(m, e, c)) = m.parts[c] + 5
         /\ Chunk(m, e, c)[1] = Token("size", m.parts[c], 0)
         /\ Chunk(m, e, c)[2] = Sign("CR") /\ Chunk(m, e, c)[3] = Sign("LF")
         /\ \A k \in 1..m.parts[c] :
              Chunk(m, e, c)[3 + k] = Token("byte", SizeUpTo(m, c - 1) + k, e)
         /\ Chunk(m, e, c)[m.parts[c] + 4] = Sign("CR")
         /\ Chunk(m, e, c)[m.parts[c] + 5] = Sign("LF")
<1> DEFINE n == m.parts[c]
           b == SizeUpTo(m, c - 1)
           data == SubSeq(Body(m, e), b + 1, SizeUpTo(m, c))
           first == <<Token("size", n, 0)>>
<1>1. n \in Nat /\ b \in Nat /\ SizeUpTo(m, c) = b + n /\ b + n <= Size(m) /\ Size(m) \in Nat
  <2>1. c \in 0..Len(m.parts) /\ c - 1 \in 0..Len(m.parts)
    BY PartsType
  <2> QED
    BY <2>1, PartsType, SizeSteps, SizeBounds
<1>2. data \in Seq(TokenType) /\ Len(data) = n /\ \A k \in 1..n : data[k] = Token("byte", b + k, e)
  <2> HIDE DEF n, b
  <2>1. data = SubSeq(Body(m, e), b + 1, b + n)
    BY <1>1
  <2>2. Body(m, e) \in Seq(TokenType) /\ Len(Body(m, e)) = Size(m)
    BY BodyIs
  <2>3. Len(data) = n /\ data \in Seq(TokenType)
    BY <1>1, <2>1, <2>2
  <2>4. \A k \in 1..n : data[k] = Body(m, e)[b + k] /\ b + k \in 1..Size(m)
    BY <1>1, <2>1, <2>2
  <2> HIDE DEF data
  <2> QED
    BY <2>3, <2>4, BodyIs
<1>3. first \in Tokens /\ Len(first) = 1 /\ first[1] = Token("size", n, 0)
  <2>1. Token("size", n, 0) \in TokenType
    BY <1>1 DEF Token, TokenType, Kinds
  <2> QED
    BY <2>1, Single
<1>4. Chunk(m, e, c) = ((first \o CRLF) \o data) \o CRLF
  BY DEF Chunk
<1> HIDE DEF n, b, data, first
<1> DEFINE s2 == first \o CRLF
           s3 == s2 \o data
           s4 == s3 \o CRLF
<1>5. CRLF \in Tokens /\ Len(CRLF) = 2 /\ CRLF[1] = Sign("CR") /\ CRLF[2] = Sign("LF")
  BY TokenTypes DEF Tokens
<1>6. IsJoin(s2, first, CRLF)
  BY <1>3, <1>5, Joined
<1> HIDE DEF s2
<1>7. IsJoin(s3, s2, data)
  BY <1>2, <1>6, Joined DEF IsJoin, Tokens
<1> HIDE DEF s3
<1>8. IsJoin(s4, s3, CRLF)
  BY <1>5, <1>7, Joined DEF IsJoin
<1>9. Chunk(m, e, c) = s4
  BY <1>4 DEF s4, s3, s2
<1> HIDE DEF s4
<1>10. Len(s2) = 3 /\ s2[1] = Token("size", n, 0) /\ s2[2] = Sign("CR") /\ s2[3] = Sign("LF")
  BY <1>3, <1>5, <1>6 DEF IsJoin
<1>11. /\ Len(s3) = 3 + n /\ \A i \in 1..3 : s3[i] = s2[i]
       /\ \A k \in 1..n : s3[3 + k] = data[k]
  BY <1>1, <1>2, <1>7, <1>10 DEF IsJoin
<1>12. /\ Len(s4) = n + 5 /\ \A i \in 1..(3 + n) : s4[i] = s3[i]
       /\ s4[n + 4] = Sign("CR") /\ s4[n + 5] = Sign("LF")
  <2>1. Len(s4) = (3 + n) + 2 /\ \A i \in 1..(3 + n) : s4[i] = s3[i]
    BY <1>5, <1>8, <1>11 DEF IsJoin
  <2>2. s4[(3 + n) + 1] = Sign("CR") /\ s4[(3 + n) + 2] = Sign("LF")
    BY <1>5, <1>8, <1>11 DEF IsJoin
  <2>3. (3 + n) + 1 = n + 4 /\ (3 + n) + 2 = n + 5
    BY <1>1
  <2> QED
    BY <2>1, <2>2, <2>3
<1>13. s4[1] = Token("size", n, 0) /\ s4[2] = Sign("CR") /\ s4[3] = Sign("LF")
  BY <1>1, <1>10, <1>11, <1>12
<1>14. \A k \in 1..n : s4[3 + k] = Token("byte", b + k, e)
  <2> TAKE k \in 1..n
  <2>1. 3 + k \in 1..(3 + n)
    BY <1>1
  <2>2. s4[3 + k] = s3[3 + k]
    BY <1>12, <2>1
  <2>3. s3[3 + k] = data[k]
    BY <1>11
  <2> QED
    BY <1>2, <2>2, <2>3
<1>15. s4 \in Tokens
  BY <1>8 DEF IsJoin
<1> QED
  BY <1>9, <1>12, <1>13, <1>14, <1>15 DEF n, b, Tokens

\* Where chunk c begins among the chunks.
ChunkStart(m, c) == SizeUpTo(m, c - 1) + 5 * (c - 1)

\* s is the first c chunks.
Chunked(s, m, e, c) ==
  /\ s \in Tokens /\ Len(s) = ChunkStart(m, c + 1)
  /\ \A d \in 1..c : /\ ChunkStart(m, d) + m.parts[d] + 5 <= Len(s)
                     /\ \A k \in 1..(m.parts[d] + 5) : s[ChunkStart(m, d) + k] = Chunk(m, e, d)[k]

\* Each chunk begins behind the one before it.
LEMMA ChunkStarts ==
  ASSUME NEW m \in Messages
  PROVE  /\ ChunkStart(m, 1) = 0
         /\ \A c \in 1..(Len(m.parts) + 1) : ChunkStart(m, c) \in Nat
         /\ \A c \in 1..Len(m.parts) : ChunkStart(m, c + 1) = ChunkStart(m, c) + m.parts[c] + 5
<1>1. Len(m.parts) \in Nat /\ SizeUpTo(m, 0) = 0
  BY PartsType, SizeSteps
<1>2. ASSUME NEW c \in 1..(Len(m.parts) + 1) PROVE ChunkStart(m, c) \in Nat
  <2>1. c - 1 \in 0..Len(m.parts)
    BY <1>1
  <2>2. SizeUpTo(m, c - 1) \in Nat
    BY <2>1, SizeBounds
  <2> QED
    BY <2>1, <2>2, <1>1 DEF ChunkStart
<1>3. ASSUME NEW c \in 1..Len(m.parts)
      PROVE  ChunkStart(m, c + 1) = ChunkStart(m, c) + m.parts[c] + 5
  <2>1. c - 1 \in 0..Len(m.parts) /\ (c + 1) - 1 = c
    BY <1>1
  <2>2. SizeUpTo(m, c - 1) \in Nat /\ m.parts[c] \in Nat
    BY <2>1, SizeBounds, PartsType
  <2>3. SizeUpTo(m, c) = SizeUpTo(m, c - 1) + m.parts[c]
    BY SizeSteps
  <2> QED
    BY <2>1, <2>2, <2>3, <1>1 DEF ChunkStart
<1>4. ChunkStart(m, 1) = 0
  BY <1>1 DEF ChunkStart
<1> QED
  BY <1>2, <1>3, <1>4

\* The concatenations of Reading are folds of FoldLemmas.
LEMMA JoinFolds ==
  ASSUME NEW s
  PROVE  Joins!Folded(<<>>, s) = FoldLeft(Concat, <<>>, s)
  BY DEF FoldLeft, MapThenFoldSet, Max, Joins!Folded, Joins!FoldLeft, Joins!MapThenFoldSet,
         Joins!Max

\* The chunks, one after the other, are each at its place.
LEMMA ChunksAre ==
  ASSUME NEW m \in Messages, NEW e \in Nat
  PROVE  Chunked(FoldLeft(Concat, <<>>, [c \in DOMAIN m.parts |-> Chunk(m, e, c)]),
                 m, e, Len(m.parts))
<1> DEFINE N == Len(m.parts)
           chunks == [c \in DOMAIN m.parts |-> Chunk(m, e, c)]
           J(c) == FoldLeft(Concat, <<>>, SubSeq(chunks, 1, c))
<1>1. N \in Nat /\ m.parts \in Seq(Nat) /\ DOMAIN m.parts = 1..N
  BY PartsType
<1>2. chunks \in Seq(Tokens) /\ Len(chunks) = N /\ \A c \in 1..N : chunks[c] = Chunk(m, e, c)
  <2>1. \A c \in 1..N : Chunk(m, e, c) \in Tokens
    BY ChunkIs DEF Tokens
  <2> QED
    BY <1>1, <2>1
<1> HIDE DEF N, chunks
<1>3. Joins!Unrolls(<<>>, chunks) /\ Joins!Folded(<<>>, <<>>) = <<>>
  <2>1. Joins!Closes(Tokens, Tokens)
    BY Joined DEF Joins!Closes, Concat, IsJoin
  <2>2. <<>> \in Tokens
    BY DEF Tokens
  <2> QED
    BY <1>2, <2>1, <2>2, Joins!FoldStep, Joins!FoldEmpty, Zenon
<1>4. SubSeq(chunks, 1, N) = chunks /\ SubSeq(chunks, 1, 0) = <<>>
  BY <1>1, <1>2
<1>5. J(0) = <<>>
  BY <1>3, <1>4, JoinFolds, Zenon
<1>6. ASSUME NEW k \in 0..(N - 1) PROVE J(k + 1) = J(k) \o Chunk(m, e, k + 1)
  <2>1. Joins!Folded(<<>>, SubSeq(chunks, 1, k + 1))
          = Concat(Joins!Folded(<<>>, SubSeq(chunks, 1, k)), chunks[k + 1])
    BY <1>2, <1>3 DEF Joins!Unrolls
  <2>2. J(k + 1) = Concat(J(k), chunks[k + 1])
    BY <2>1, JoinFolds, Zenon
  <2>3. k + 1 \in 1..N
    BY <1>1
  <2> QED
    BY <1>2, <2>2, <2>3 DEF Concat
<1> HIDE DEF J
<1> DEFINE Has(c) == c <= N => Chunked(J(c), m, e, c)
           S == {c \in Nat : Has(c)}
<1>7. Has(0)
  <2>1. ChunkStart(m, 0 + 1) = 0
    BY ChunkStarts
  <2>2. <<>> \in Tokens /\ Len(<<>>) = 0
    BY DEF Tokens
  <2> QED
    BY <1>5, <2>1, <2>2 DEF Chunked
<1>8. ASSUME NEW c \in Nat, Has(c) PROVE Has(c + 1)
  <2>1. SUFFICES ASSUME c + 1 <= N PROVE Chunked(J(c + 1), m, e, c + 1)
    OBVIOUS
  <2>2. Chunked(J(c), m, e, c)
    BY <1>1, <1>8, <2>1
  <2>3. c \in 0..(N - 1) /\ c + 1 \in 1..N
    BY <1>1, <2>1
  <2> DEFINE next == Chunk(m, e, c + 1)
             n == m.parts[c + 1]
  <2>4. next \in Tokens /\ Len(next) = n + 5 /\ n \in Nat
    BY <2>3, ChunkIs, PartsType DEF Tokens, N
  <2>5. J(c + 1) = J(c) \o next
    BY <1>6, <2>3
  <2>6. IsJoin(J(c + 1), J(c), next)
    BY <2>2, <2>4, <2>5, Joined DEF Chunked
  <2>7. ChunkStart(m, (c + 1) + 1) = ChunkStart(m, c + 1) + n + 5 /\ ChunkStart(m, c + 1) \in Nat
    BY <2>3, <1>1, ChunkStarts DEF N
  <2> HIDE DEF next, n
  <2>8. Len(J(c)) = ChunkStart(m, c + 1) /\ Len(J(c + 1)) = ChunkStart(m, c + 1) + n + 5
    BY <2>2, <2>4, <2>6, <2>7 DEF Chunked, IsJoin
  <2>9. ASSUME NEW d \in 1..(c + 1)
        PROVE  /\ ChunkStart(m, d) + m.parts[d] + 5 <= Len(J(c + 1))
               /\ \A k \in 1..(m.parts[d] + 5) :
                    J(c + 1)[ChunkStart(m, d) + k] = Chunk(m, e, d)[k]
    <3>1. m.parts[d] \in Nat /\ ChunkStart(m, d) \in Nat
      BY <1>1, <2>1, PartsType, ChunkStarts DEF N
    <3>2. CASE d = c + 1
      <4>1. \A k \in 1..(n + 5) : J(c + 1)[ChunkStart(m, c + 1) + k] = next[k]
        BY <2>4, <2>6, <2>8 DEF IsJoin
      <4> QED
        BY <3>1, <3>2, <2>7, <2>8, <4>1 DEF n, next
    <3>3. CASE d # c + 1
      <4>1. d \in 1..c
        BY <3>3
      <4>2. /\ ChunkStart(m, d) + m.parts[d] + 5 <= Len(J(c))
            /\ \A k \in 1..(m.parts[d] + 5) : J(c)[ChunkStart(m, d) + k] = Chunk(m, e, d)[k]
        BY <2>2, <4>1 DEF Chunked
      <4>3. ASSUME NEW k \in 1..(m.parts[d] + 5)
            PROVE  J(c + 1)[ChunkStart(m, d) + k] = Chunk(m, e, d)[k]
        <5>1. ChunkStart(m, d) + k \in 1..Len(J(c))
          <6> DEFINE a == ChunkStart(m, d)
                     b == m.parts[d]
                     l == Len(J(c))
          <6>1. a \in Nat /\ b \in Nat /\ l \in Nat
            BY <2>7, <2>8, <3>1
          <6>2. a + b + 5 <= l /\ k \in 1..(b + 5)
            BY <4>2
          <6> HIDE DEF a, b, l
          <6>3. a + k \in 1..l
            BY <6>1, <6>2
          <6> QED
            BY <6>3 DEF a, l
        <5> QED
          BY <4>2, <5>1, <2>6 DEF IsJoin
      <4>4. Len(J(c)) \in Nat /\ Len(J(c + 1)) \in Nat /\ Len(J(c)) <= Len(J(c + 1))
        <5>1. n \in Nat
          BY <2>4
        <5> QED
          BY <5>1, <2>7, <2>8
      <4>5. ChunkStart(m, d) + m.parts[d] + 5 <= Len(J(c))
        BY <4>2
      <4>6. ChunkStart(m, d) + m.parts[d] + 5 <= Len(J(c + 1))
        BY <3>1, <4>4, <4>5
      <4> QED
        BY <4>3, <4>6
    <3> QED
      BY <3>2, <3>3
  <2>10. J(c + 1) \in Tokens
    BY <2>6 DEF IsJoin
  <2> QED
    BY <2>7, <2>8, <2>9, <2>10 DEF Chunked
<1>9. Chunked(J(N), m, e, N)
  <2> HIDE DEF Has
  <2>1. 0 \in S /\ \A c \in Nat : c \in S => c + 1 \in S
    BY <1>7, <1>8
  <2>2. Nat \subseteq S
    <3> HIDE DEF S
    <3> QED
      BY <2>1, Joins!NaturalInduction
  <2> QED
    BY <1>1, <2>2 DEF Has
<1>10. J(N) = FoldLeft(Concat, <<>>, chunks)
  BY <1>4 DEF J
<1> QED
  BY <1>9, <1>10 DEF chunks, N

\* So they are in the payload, with the last chunk behind them.
LEMMA ChunkedPayload ==
  ASSUME NEW m \in Messages, NEW e \in Nat, m.framing = "chunked"
  PROVE  LET s == ChunkStart(m, Len(m.parts) + 1)
             p == Payload(m, e)
         IN /\ p \in Tokens /\ Len(p) = s + 5
            /\ \A c \in 1..Len(m.parts) :
                 /\ ChunkStart(m, c) + m.parts[c] + 5 <= s
                 /\ \A k \in 1..(m.parts[c] + 5) : p[ChunkStart(m, c) + k] = Chunk(m, e, c)[k]
            /\ p[s + 1] = Token("size", 0, 0)
            /\ p[s + 2] = Sign("CR") /\ p[s + 3] = Sign("LF")
            /\ p[s + 4] = Sign("CR") /\ p[s + 5] = Sign("LF")
<1> DEFINE N == Len(m.parts)
           s == ChunkStart(m, N + 1)
           p == Payload(m, e)
           chunks == FoldLeft(Concat, <<>>, [c \in DOMAIN m.parts |-> Chunk(m, e, c)])
           last == <<Token("size", 0, 0)>>
<1>1. /\ CRLF \in Tokens /\ Len(CRLF) = 2 /\ CRLF[1] = Sign("CR") /\ CRLF[2] = Sign("LF")
      /\ last \in Tokens /\ Len(last) = 1 /\ last[1] = Token("size", 0, 0)
  <2>1. Token("size", 0, 0) \in TokenType
    BY DEF Token, TokenType, Kinds
  <2> QED
    BY <2>1, Single, TokenTypes DEF Tokens
<1>2. N \in Nat /\ s \in Nat
  BY PartsType, ChunkStarts
<1>3. /\ chunks \in Tokens /\ Len(chunks) = s
      /\ \A c \in 1..N :
           /\ ChunkStart(m, c) + m.parts[c] + 5 <= s
           /\ \A k \in 1..(m.parts[c] + 5) : chunks[ChunkStart(m, c) + k] = Chunk(m, e, c)[k]
  BY ChunksAre DEF Chunked
<1>4. p = ((chunks \o last) \o CRLF) \o CRLF
  BY DEF Payload
<1> HIDE DEF s, p, chunks, last
<1> DEFINE p1 == chunks \o last
           p2 == p1 \o CRLF
           p3 == p2 \o CRLF
<1>5. IsJoin(p1, chunks, last)
  BY <1>1, <1>3, Joined
<1> HIDE DEF p1
<1>6. IsJoin(p2, p1, CRLF)
  BY <1>1, <1>5, Joined DEF IsJoin
<1> HIDE DEF p2
<1>7. IsJoin(p3, p2, CRLF)
  BY <1>1, <1>6, Joined DEF IsJoin
<1>8. p = p3
  BY <1>4 DEF p3, p2, p1
<1> HIDE DEF p3
<1>9. Len(p1) = s + 1 /\ p1[s + 1] = Token("size", 0, 0) /\ \A i \in 1..s : p1[i] = chunks[i]
  BY <1>1, <1>2, <1>3, <1>5 DEF IsJoin
<1>10. /\ Len(p2) = (s + 1) + 2 /\ \A i \in 1..(s + 1) : p2[i] = p1[i]
       /\ p2[(s + 1) + 1] = Sign("CR") /\ p2[(s + 1) + 2] = Sign("LF")
  BY <1>1, <1>2, <1>6, <1>9 DEF IsJoin
<1>11. /\ Len(p3) = (s + 3) + 2 /\ \A i \in 1..(s + 3) : p3[i] = p2[i]
       /\ p3[(s + 3) + 1] = Sign("CR") /\ p3[(s + 3) + 2] = Sign("LF")
  BY <1>1, <1>2, <1>7, <1>10 DEF IsJoin
<1>12. /\ (s + 1) + 1 = s + 2 /\ (s + 1) + 2 = s + 3 /\ (s + 3) + 1 = s + 4 /\ (s + 3) + 2 = s + 5
       /\ s + 1 \in 1..(s + 1) /\ s + 1 \in 1..(s + 3) /\ s + 2 \in 1..(s + 3) /\ s + 3 \in 1..(s + 3)
  BY <1>2
<1>13. /\ p3[s + 1] = Token("size", 0, 0)
       /\ p3[s + 2] = Sign("CR") /\ p3[s + 3] = Sign("LF")
       /\ p3[s + 4] = Sign("CR") /\ p3[s + 5] = Sign("LF") /\ Len(p3) = s + 5
  BY <1>9, <1>10, <1>11, <1>12
<1>14. ASSUME NEW c \in 1..N
       PROVE  \A k \in 1..(m.parts[c] + 5) : p3[ChunkStart(m, c) + k] = Chunk(m, e, c)[k]
  <2> TAKE k \in 1..(m.parts[c] + 5)
  <2>1. ChunkStart(m, c) \in Nat /\ m.parts[c] \in Nat
    BY <1>2, ChunkStarts, PartsType DEF N
  <2>2. ChunkStart(m, c) + k \in 1..s
    BY <1>2, <1>3, <2>1
  <2>3. ChunkStart(m, c) + k \in 1..(s + 1) /\ ChunkStart(m, c) + k \in 1..(s + 3)
    BY <1>2, <2>2
  <2>4. p3[ChunkStart(m, c) + k] = chunks[ChunkStart(m, c) + k]
    BY <1>9, <1>10, <1>11, <2>2, <2>3
  <2> QED
    BY <1>3, <2>4
<1>15. p3 \in Tokens
  BY <1>7 DEF IsJoin
<1> QED
  BY <1>3, <1>8, <1>13, <1>14, <1>15 DEF s, p, N

\* The number in the header.
Given(m) == IF m.framing = "length" THEN Size(m) ELSE 0

\* An answer is its status line, its header, an empty line and its payload.
LEMMA RenderIs ==
  ASSUME NEW m \in Messages, NEW e \in Nat, NEW q, q = Payload(m, e), q \in Tokens
  PROVE  LET r == Render(m, e)
         IN /\ r \in Tokens /\ Len(r) = 8 + Len(q)
            /\ r[1] = Sign(IF m.reason THEN "status" ELSE "bare")
            /\ r[2] = Sign("CR") /\ r[3] = Sign("LF")
            /\ r[4] = Token(m.framing, Given(m), 0)
            /\ r[5] = Sign("CR") /\ r[6] = Sign("LF") /\ r[7] = Sign("CR") /\ r[8] = Sign("LF")
            /\ \A i \in 1..Len(q) : r[8 + i] = q[i]
<1> DEFINE t1 == Sign(IF m.reason THEN "status" ELSE "bare")
           t2 == Token(m.framing, Given(m), 0)
<1>1. t1 \in TokenType /\ t2 \in TokenType
  <2>1. m.framing \in Framing /\ Size(m) \in Nat
    BY PartsType, SizeBounds
  <2> QED
    BY <2>1 DEF Sign, Token, TokenType, Kinds, Framing, Given
<1>2. /\ CRLF \in Tokens /\ Len(CRLF) = 2 /\ CRLF[1] = Sign("CR") /\ CRLF[2] = Sign("LF")
  BY TokenTypes DEF Tokens
<1>3. Render(m, e) = ((((<<t1>> \o CRLF) \o <<t2>>) \o CRLF) \o CRLF) \o q
  BY DEF Render, Given
<1> HIDE DEF t1, t2
<1> DEFINE s1 == <<t1>>
           s2 == s1 \o CRLF
           s3 == <<t2>>
           s4 == s2 \o s3
           s5 == s4 \o CRLF
           s6 == s5 \o CRLF
           s7 == s6 \o q
<1>4. s1 \in Tokens /\ Len(s1) = 1 /\ s1[1] = t1
  BY <1>1, Single
<1>5. s3 \in Tokens /\ Len(s3) = 1 /\ s3[1] = t2
  BY <1>1, Single
<1> HIDE DEF s1, s3
<1>6. IsJoin(s2, s1, CRLF)
  BY <1>2, <1>4, Joined
<1> HIDE DEF s2
<1>7. IsJoin(s4, s2, s3)
  BY <1>5, <1>6, Joined DEF IsJoin
<1> HIDE DEF s4
<1>8. IsJoin(s5, s4, CRLF)
  BY <1>2, <1>7, Joined DEF IsJoin
<1> HIDE DEF s5
<1>9. IsJoin(s6, s5, CRLF)
  BY <1>2, <1>8, Joined DEF IsJoin
<1> HIDE DEF s6
<1>10. IsJoin(s7, s6, q)
  BY <1>9, Joined DEF IsJoin
<1>11. Render(m, e) = s7
  BY <1>3 DEF s1, s2, s3, s4, s5, s6, s7
<1> HIDE DEF s7
<1>12. Len(s2) = 3 /\ s2[1] = t1 /\ s2[2] = Sign("CR") /\ s2[3] = Sign("LF")
  BY <1>2, <1>4, <1>6 DEF IsJoin
<1>13. Len(s4) = 4 /\ s4[1] = t1 /\ s4[2] = Sign("CR") /\ s4[3] = Sign("LF") /\ s4[4] = t2
  BY <1>5, <1>7, <1>12 DEF IsJoin
<1>14. /\ Len(s5) = 6 /\ s5[1] = t1 /\ s5[2] = Sign("CR") /\ s5[3] = Sign("LF") /\ s5[4] = t2
       /\ s5[5] = Sign("CR") /\ s5[6] = Sign("LF")
  BY <1>2, <1>8, <1>13 DEF IsJoin
<1>15. /\ Len(s6) = 8 /\ s6[1] = t1 /\ s6[2] = Sign("CR") /\ s6[3] = Sign("LF") /\ s6[4] = t2
       /\ s6[5] = Sign("CR") /\ s6[6] = Sign("LF") /\ s6[7] = Sign("CR") /\ s6[8] = Sign("LF")
  BY <1>2, <1>9, <1>14 DEF IsJoin
<1>16. /\ s7 \in Tokens /\ Len(s7) = 8 + Len(q) /\ \A i \in 1..8 : s7[i] = s6[i]
       /\ \A i \in 1..Len(q) : s7[8 + i] = q[i]
  BY <1>10, <1>15 DEF IsJoin
<1> QED
  BY <1>11, <1>15, <1>16 DEF t1, t2

End(m, e) == Len(Render(m, e))

\* Where chunk c begins in the stream, the last chunk being the one of no bytes.
Offset(m, c) == 8 + ChunkStart(m, c)

\* The size a chunk announces.
Announced(m, c) == IF c <= Len(m.parts) THEN m.parts[c] ELSE 0

\* The first eight tokens of an answer.
LEMMA HeadIs ==
  ASSUME NEW m \in Messages, NEW e \in Nat
  PROVE  LET r == Render(m, e)
         IN /\ r \in Tokens /\ End(m, e) \in Nat /\ End(m, e) >= 8
            /\ r[1] = Sign(IF m.reason THEN "status" ELSE "bare")
            /\ r[2] = Sign("CR") /\ r[3] = Sign("LF")
            /\ r[4] = Token(m.framing, Given(m), 0)
            /\ r[5] = Sign("CR") /\ r[6] = Sign("LF") /\ r[7] = Sign("CR") /\ r[8] = Sign("LF")
<1>1. Payload(m, e) \in Tokens
  <2>1. CASE m.framing = "chunked"
    BY <2>1, ChunkedPayload
  <2>2. CASE m.framing # "chunked"
    BY <2>2, BodyIs DEF Payload, Tokens
  <2> QED
    BY <2>1, <2>2
<1>2. Len(Payload(m, e)) \in Nat
  BY <1>1 DEF Tokens
<1> QED
  BY <1>1, <1>2, RenderIs DEF End

\* The tokens behind them, of an answer that is not in chunks.
LEMMA PlainIs ==
  ASSUME NEW m \in Messages, NEW e \in Nat, m.framing # "chunked"
  PROVE  /\ End(m, e) = 8 + Size(m) /\ Size(m) \in Nat
         /\ \A i \in 1..Size(m) : Render(m, e)[8 + i] = Token("byte", i, e)
<1>1. Payload(m, e) = Body(m, e)
  BY DEF Payload
<1>2. /\ Body(m, e) \in Tokens /\ Len(Body(m, e)) = Size(m) /\ Size(m) \in Nat
      /\ \A i \in 1..Size(m) : Body(m, e)[i] = Token("byte", i, e)
  BY BodyIs, SizeBounds DEF Tokens
<1>3. /\ End(m, e) = 8 + Size(m)
      /\ \A i \in 1..Size(m) : Render(m, e)[8 + i] = Body(m, e)[i]
  BY <1>1, <1>2, RenderIs DEF End
<1> QED
  BY <1>2, <1>3

\* The tokens behind them, of an answer in chunks.
LEMMA ChunkedIs ==
  ASSUME NEW m \in Messages, NEW e \in Nat, m.framing = "chunked"
  PROVE  LET r == Render(m, e)
         IN /\ End(m, e) = Offset(m, Len(m.parts) + 1) + 5
            /\ \A c \in 1..(Len(m.parts) + 1) :
                 /\ Offset(m, c) \in Nat /\ Offset(m, c) >= 8 /\ Offset(m, c) + 5 <= End(m, e)
                 /\ r[Offset(m, c) + 1] = Token("size", Announced(m, c), 0)
                 /\ r[Offset(m, c) + 2] = Sign("CR") /\ r[Offset(m, c) + 3] = Sign("LF")
            /\ \A c \in 1..Len(m.parts) :
                 /\ Offset(m, c + 1) = Offset(m, c) + m.parts[c] + 5
                 /\ Offset(m, c + 1) <= Offset(m, Len(m.parts) + 1)
                 /\ \A k \in 1..m.parts[c] :
                      r[Offset(m, c) + 3 + k] = Token("byte", SizeUpTo(m, c - 1) + k, e)
                 /\ r[Offset(m, c) + m.parts[c] + 4] = Sign("CR")
                 /\ r[Offset(m, c) + m.parts[c] + 5] = Sign("LF")
            /\ r[Offset(m, Len(m.parts) + 1) + 4] = Sign("CR")
            /\ r[Offset(m, Len(m.parts) + 1) + 5] = Sign("LF")
<1> DEFINE N == Len(m.parts)
           s == ChunkStart(m, N + 1)
           p == Payload(m, e)
           r == Render(m, e)
<1>1. N \in Nat /\ s \in Nat /\ \A c \in 1..(N + 1) : ChunkStart(m, c) \in Nat
  BY PartsType, ChunkStarts
<1>2. /\ p \in Tokens /\ Len(p) = s + 5
      /\ \A c \in 1..N :
           /\ ChunkStart(m, c) + m.parts[c] + 5 <= s
           /\ \A k \in 1..(m.parts[c] + 5) : p[ChunkStart(m, c) + k] = Chunk(m, e, c)[k]
      /\ p[s + 1] = Token("size", 0, 0)
      /\ p[s + 2] = Sign("CR") /\ p[s + 3] = Sign("LF")
      /\ p[s + 4] = Sign("CR") /\ p[s + 5] = Sign("LF")
  BY ChunkedPayload
<1>3. End(m, e) = 8 + (s + 5) /\ \A i \in 1..(s + 5) : r[8 + i] = p[i]
  BY <1>2, RenderIs DEF End
<1>a. Offset(m, N + 1) = 8 + s
  BY DEF Offset
<1> HIDE DEF s, p, r
<1>4. ASSUME NEW c \in 1..N
      PROVE  /\ m.parts[c] \in Nat /\ Offset(m, c) \in Nat /\ Offset(m, c) >= 8
             /\ Offset(m, c) + m.parts[c] + 5 <= 8 + s
             /\ \A k \in 1..(m.parts[c] + 5) : r[Offset(m, c) + k] = Chunk(m, e, c)[k]
  <2>1. m.parts[c] \in Nat /\ ChunkStart(m, c) \in Nat
    BY <1>1, PartsType DEF N
  <2>2. ASSUME NEW k \in 1..(m.parts[c] + 5)
        PROVE  r[Offset(m, c) + k] = Chunk(m, e, c)[k]
    <3>1. ChunkStart(m, c) + k \in 1..(s + 5)
      <4>1. ChunkStart(m, c) + m.parts[c] + 5 <= s
        BY <1>2
      <4> QED
        BY <1>1, <2>1, <4>1
    <3>2. r[8 + (ChunkStart(m, c) + k)] = p[ChunkStart(m, c) + k]
      BY <1>3, <3>1
    <3>3. 8 + (ChunkStart(m, c) + k) = Offset(m, c) + k
      BY <2>1 DEF Offset
    <3> QED
      BY <1>2, <3>2, <3>3
  <2>3. ChunkStart(m, c) + m.parts[c] + 5 <= s
    BY <1>2
  <2>4. Offset(m, c) = 8 + ChunkStart(m, c)
    BY DEF Offset
  <2>5. Offset(m, c) + m.parts[c] + 5 <= 8 + s
    BY <1>1, <2>1, <2>3, <2>4
  <2>6. Offset(m, c) \in Nat /\ Offset(m, c) >= 8
    BY <2>1, <2>4
  <2> QED
    BY <2>1, <2>2, <2>5, <2>6
<1>5. ASSUME NEW c \in 1..N
      PROVE  /\ Offset(m, c) \in Nat /\ Offset(m, c) >= 8 /\ Offset(m, c) + 5 <= End(m, e)
             /\ r[Offset(m, c) + 1] = Token("size", m.parts[c], 0)
             /\ r[Offset(m, c) + 2] = Sign("CR") /\ r[Offset(m, c) + 3] = Sign("LF")
             /\ \A k \in 1..m.parts[c] :
                  r[Offset(m, c) + 3 + k] = Token("byte", SizeUpTo(m, c - 1) + k, e)
             /\ r[Offset(m, c) + m.parts[c] + 4] = Sign("CR")
             /\ r[Offset(m, c) + m.parts[c] + 5] = Sign("LF")
             /\ Offset(m, c + 1) = Offset(m, c) + m.parts[c] + 5
             /\ Offset(m, c + 1) <= Offset(m, N + 1)
  <2> DEFINE n == m.parts[c]
             o == Offset(m, c)
  <2>1. /\ n \in Nat /\ o \in Nat /\ o >= 8 /\ o + n + 5 <= 8 + s
        /\ \A k \in 1..(n + 5) : r[o + k] = Chunk(m, e, c)[k]
    BY <1>4
  <2>2. /\ Chunk(m, e, c)[1] = Token("size", n, 0)
        /\ Chunk(m, e, c)[2] = Sign("CR") /\ Chunk(m, e, c)[3] = Sign("LF")
        /\ \A k \in 1..n : Chunk(m, e, c)[3 + k] = Token("byte", SizeUpTo(m, c - 1) + k, e)
        /\ Chunk(m, e, c)[n + 4] = Sign("CR") /\ Chunk(m, e, c)[n + 5] = Sign("LF")
    BY ChunkIs
  <2>3. ChunkStart(m, c + 1) = ChunkStart(m, c) + n + 5
    BY ChunkStarts
  <2>4. Offset(m, c + 1) = o + n + 5 /\ Offset(m, N + 1) = 8 + s
    <3>1. Offset(m, c + 1) = 8 + ChunkStart(m, c + 1) /\ o = 8 + ChunkStart(m, c)
      BY DEF Offset
    <3>2. ChunkStart(m, c) \in Nat
      BY <1>1
    <3> HIDE DEF n, o
    <3> QED
      BY <2>1, <2>3, <3>1, <3>2, <1>a
  <2> HIDE DEF n, o
  <2>5. /\ 1 \in 1..(n + 5) /\ 2 \in 1..(n + 5) /\ 3 \in 1..(n + 5)
        /\ n + 4 \in 1..(n + 5) /\ n + 5 \in 1..(n + 5)
    BY <2>1
  <2>6. /\ r[o + 1] = Chunk(m, e, c)[1] /\ r[o + 2] = Chunk(m, e, c)[2]
        /\ r[o + 3] = Chunk(m, e, c)[3] /\ r[o + (n + 4)] = Chunk(m, e, c)[n + 4]
        /\ r[o + (n + 5)] = Chunk(m, e, c)[n + 5]
    BY <2>1, <2>5
  <2>7. o + (n + 4) = o + n + 4 /\ o + (n + 5) = o + n + 5
    BY <2>1
  <2>8. ASSUME NEW k \in 1..n PROVE r[o + 3 + k] = Token("byte", SizeUpTo(m, c - 1) + k, e)
    <3>1. 3 + k \in 1..(n + 5) /\ o + (3 + k) = o + 3 + k
      BY <2>1
    <3> QED
      BY <2>1, <2>2, <3>1
  <2>9. o + 5 <= End(m, e) /\ Offset(m, c + 1) <= Offset(m, N + 1)
    BY <1>1, <1>3, <2>1, <2>4
  <2> QED
    BY <2>1, <2>2, <2>4, <2>6, <2>7, <2>8, <2>9 DEF n, o
<1>6. /\ Offset(m, N + 1) = 8 + s /\ Offset(m, N + 1) \in Nat /\ Offset(m, N + 1) >= 8
      /\ End(m, e) = Offset(m, N + 1) + 5
      /\ r[Offset(m, N + 1) + 1] = Token("size", 0, 0)
      /\ r[Offset(m, N + 1) + 2] = Sign("CR") /\ r[Offset(m, N + 1) + 3] = Sign("LF")
      /\ r[Offset(m, N + 1) + 4] = Sign("CR") /\ r[Offset(m, N + 1) + 5] = Sign("LF")
  <2>1. \A k \in {1, 2, 3, 4, 5} : s + k \in 1..(s + 5) /\ 8 + (s + k) = (8 + s) + k
    BY <1>1
  <2>2. \A k \in {1, 2, 3, 4, 5} : r[(8 + s) + k] = p[s + k]
    BY <1>3, <2>1
  <2> QED
    <3>1. /\ r[(8 + s) + 1] = p[s + 1] /\ r[(8 + s) + 2] = p[s + 2] /\ r[(8 + s) + 3] = p[s + 3]
          /\ r[(8 + s) + 4] = p[s + 4] /\ r[(8 + s) + 5] = p[s + 5]
      BY <2>2
    <3>2. 8 + s \in Nat /\ 8 + s >= 8 /\ End(m, e) = (8 + s) + 5
      BY <1>1, <1>3
    <3>3. Offset(m, N + 1) = 8 + s
      BY <1>a
    <3> HIDE DEF N
    <3> QED
      BY <1>2, <3>1, <3>2, <3>3
<1>7. ASSUME NEW c \in 1..(N + 1)
      PROVE  /\ Offset(m, c) \in Nat /\ Offset(m, c) >= 8 /\ Offset(m, c) + 5 <= End(m, e)
             /\ r[Offset(m, c) + 1] = Token("size", Announced(m, c), 0)
             /\ r[Offset(m, c) + 2] = Sign("CR") /\ r[Offset(m, c) + 3] = Sign("LF")
  <2>1. CASE c = N + 1
    <3>1. Announced(m, c) = 0
      BY <2>1, <1>1 DEF Announced
    <3> QED
      BY <2>1, <3>1, <1>6
  <2>2. CASE c # N + 1
    <3>1. c \in 1..N
      BY <2>2, <1>1
    <3>2. Announced(m, c) = m.parts[c]
      BY <3>1, <1>1 DEF Announced
    <3> QED
      BY <3>1, <3>2, <1>5
  <2> QED
    BY <2>1, <2>2
<1> QED
  BY <1>5, <1>6, <1>7 DEF N, r

-----------------------------------------------------------------------------
(* The parser.                                                             *)

HeadStates == {"start", "status", "bare", "line", "fields", "field", "field_lf", "blank",
               "headers"}
BodyStates == {"body", "done", "rest"}
ChunkStates == {"size", "size_cr", "size_lf", "chunk", "chunk_cr", "chunk_lf", "trailer",
                "trailer_lf"}
States == HeadStates \cup BodyStates \cup ChunkStates \cup {"error"}

ParserType ==
  [at : States, framing : Framing, left : Int, headers : Framing \cup {"unread"},
   length : Nat, status : BOOLEAN, raw : Tokens, taken : Nat, marked : BOOLEAN,
   halted : BOOLEAN]

Parsers == {p \in ParserType : /\ p.at # "rest" => p.left >= 0
                               /\ p.at = "chunk" => p.left > 0}

\* The table of the tokens that only move the parser on.
LEMMA ShiftIs ==
  /\ DOMAIN Shift = {"start", "bare", "line", "fields", "field", "field_lf", "size_cr",
                     "chunk_lf", "trailer", "trailer_lf"}
  /\ DOMAIN Shift["start"] = {"CR", "LF", "status", "bare"}
  /\ DOMAIN Shift["line"] = {"LF"} /\ DOMAIN Shift["field_lf"] = {"LF"}
  /\ DOMAIN Shift["chunk_lf"] = {"LF"} /\ DOMAIN Shift["trailer_lf"] = {"LF"}
  /\ DOMAIN Shift["bare"] = {"CR"} /\ DOMAIN Shift["fields"] = {"CR"}
  /\ DOMAIN Shift["field"] = {"CR"} /\ DOMAIN Shift["size_cr"] = {"CR"}
  /\ DOMAIN Shift["trailer"] = {"CR"}
  /\ Shift["start"]["CR"] = "start" /\ Shift["start"]["LF"] = "start"
  /\ Shift["start"]["status"] = "status" /\ Shift["start"]["bare"] = "bare"
  /\ Shift["bare"]["CR"] = "line" /\ Shift["line"]["LF"] = "fields"
  /\ Shift["fields"]["CR"] = "blank" /\ Shift["field"]["CR"] = "field_lf"
  /\ Shift["field_lf"]["LF"] = "fields" /\ Shift["size_cr"]["CR"] = "size_lf"
  /\ Shift["chunk_lf"]["LF"] = "size" /\ Shift["trailer"]["CR"] = "trailer_lf"
  /\ Shift["trailer_lf"]["LF"] = "start"
  BY DEF Shift

\* Where a token that only moves the parser on takes it.
Shifts(p, t) == p.at \in DOMAIN Shift /\ t.kind \in DOMAIN Shift[p.at]

\* They move it to a state that collects nothing.
LEMMA ShiftType ==
  ASSUME NEW p \in Parsers, NEW t \in TokenType, Shifts(p, t)
  PROVE  Shift[p.at][t.kind] \in States \ {"chunk", "rest", "error"} /\ p.at # "rest"
<1>1. /\ p.at \in {"start", "bare", "line", "fields", "field", "field_lf", "size_cr",
                   "chunk_lf", "trailer", "trailer_lf"}
  BY ShiftIs DEF Shifts
<1>2. t.kind \in DOMAIN Shift[p.at]
  BY DEF Shifts
<1> QED
  BY <1>1, <1>2, ShiftIs DEF States, HeadStates, ChunkStates

\* What q has of p: the body, and what the headers said.
SameBody(p, q) == q.raw = p.raw /\ q.marked = p.marked
SameHead(p, q) == q.framing = p.framing /\ q.headers = p.headers
SameSize(p, q) == q.left = p.left /\ q.length = p.length

\* What To() changes.
LEMMA ToIs ==
  ASSUME NEW p \in ParserType, NEW at \in States
  PROVE  /\ To(p, at) \in ParserType
         /\ To(p, at).at = at /\ To(p, at).taken = p.taken + 1 /\ To(p, at).halted = p.halted
         /\ SameBody(p, To(p, at)) /\ SameHead(p, To(p, at)) /\ SameSize(p, To(p, at))
<1>1. p.taken + 1 \in Nat
  BY DEF ParserType
<1>2. \A n \in Nat : [p EXCEPT !.at = at, !.taken = n] \in ParserType
  BY DEF ParserType
<1> QED
  BY <1>1, <1>2 DEF To, ParserType, SameBody, SameHead, SameSize

\* What Byte() changes.
LEMMA ByteIs ==
  ASSUME NEW p \in ParserType, NEW at \in States, NEW t \in TokenType
  PROVE  LET q == Byte(p, t, at)
         IN /\ q \in ParserType
            /\ q.at = at /\ q.taken = p.taken + 1 /\ q.halted = p.halted
            /\ q.raw = Append(p.raw, t) /\ q.marked = TRUE /\ q.left = p.left - 1
            /\ q.length = p.length /\ SameHead(p, q)
<1>1. p.taken + 1 \in Nat /\ p.left - 1 \in Int /\ Append(p.raw, t) \in Tokens
  BY DEF ParserType, Tokens
<1>2. \A n \in Nat, l \in Int, r \in Tokens :
        [p EXCEPT !.at = at, !.taken = n, !.raw = r, !.left = l, !.marked = TRUE] \in ParserType
  BY DEF ParserType
<1>3. Byte(p, t, at) \in ParserType
  BY <1>1, <1>2 DEF Byte
<1> QED
  BY <1>3 DEF Byte, ParserType, SameHead

\* What Halt() changes.
LEMMA HaltIs ==
  ASSUME NEW p \in ParserType
  PROVE  /\ Halt(p) \in ParserType
         /\ Halt(p).at = p.at /\ Halt(p).taken = p.taken /\ Halt(p).halted = TRUE
         /\ SameBody(p, Halt(p)) /\ SameHead(p, Halt(p)) /\ SameSize(p, Halt(p))
  BY DEF Halt, ParserType, SameBody, SameHead, SameSize

\* The end of the status line: the parser pauses behind the CR.
LEMMA StepStatus ==
  ASSUME NEW p \in ParserType, NEW t \in TokenType, ~p.halted, p.at = "status", t.kind = "CR"
  PROVE  LET q == Step(p, t)
         IN /\ q \in ParserType
            /\ q.at = "line" /\ q.taken = p.taken + 1 /\ q.halted = TRUE
            /\ SameBody(p, q) /\ SameHead(p, q) /\ SameSize(p, q)
<1> DEFINE at == "line"
           w == To(p, at)
           v == [w EXCEPT !.status = TRUE]
<1>1. at \in States
  BY DEF States, HeadStates, ChunkStates
<1> HIDE DEF at
<1>2. /\ w \in ParserType
      /\ w.at = at /\ w.taken = p.taken + 1 /\ w.halted = p.halted
      /\ SameBody(p, w) /\ SameHead(p, w) /\ SameSize(p, w)
  BY <1>1, ToIs
<1>3. Step(p, t) = Halt(v)
  BY DEF Step, Framing, at
<1> HIDE DEF w
<1>4. v \in ParserType
  BY <1>2 DEF ParserType, TokenType
<1>5. /\ Halt(v) \in ParserType
      /\ Halt(v).at = v.at /\ Halt(v).taken = v.taken /\ Halt(v).halted = TRUE
      /\ SameBody(v, Halt(v)) /\ SameHead(v, Halt(v)) /\ SameSize(v, Halt(v))
  BY <1>4, HaltIs
<1>6. v.at = w.at /\ v.taken = w.taken /\ SameBody(w, v) /\ SameHead(w, v) /\ v.left = w.left
      /\ v.length = w.length
  BY <1>2 DEF ParserType, SameBody, SameHead
<1> QED
  BY <1>2, <1>3, <1>5, <1>6 DEF SameBody, SameHead, SameSize, at

\* The header that says how the body ends.
LEMMA StepField ==
  ASSUME NEW p \in ParserType, NEW t \in TokenType, ~p.halted, p.at = "fields", t.kind \in Framing
  PROVE  LET q == Step(p, t)
         IN /\ q \in ParserType
            /\ q.at = "field" /\ q.taken = p.taken + 1 /\ ~q.halted
            /\ q.framing = t.kind /\ q.left = t.n
            /\ SameBody(p, q) /\ q.headers = p.headers /\ q.length = p.length
<1> DEFINE at == "field"
           w == To(p, at)
           v == [w EXCEPT !.framing = t.kind, !.left = t.n]
<1>1. at \in States
  BY DEF States, HeadStates, ChunkStates
<1> HIDE DEF at
<1>2. /\ w \in ParserType
      /\ w.at = at /\ w.taken = p.taken + 1 /\ w.halted = p.halted
      /\ SameBody(p, w) /\ SameHead(p, w) /\ SameSize(p, w)
  BY <1>1, ToIs
<1>3. Step(p, t) = v
  BY DEF Step, Framing, at
<1> HIDE DEF w
<1>4. t.kind \in Framing /\ t.n \in Int
  BY DEF TokenType
<1>5. \A f \in Framing, l \in Int : [w EXCEPT !.framing = f, !.left = l] \in ParserType
  BY <1>2 DEF ParserType
<1>6. v \in ParserType
  BY <1>4, <1>5
<1> QED
  BY <1>2, <1>3, <1>6 DEF ParserType, SameBody, SameHead, SameSize, at

\* The size of a chunk.
LEMMA StepSize ==
  ASSUME NEW p \in ParserType, NEW t \in TokenType, ~p.halted, p.at = "size", t.kind = "size"
  PROVE  LET q == Step(p, t)
         IN /\ q \in ParserType
            /\ q.at = "size_cr" /\ q.taken = p.taken + 1 /\ ~q.halted
            /\ q.left = t.n /\ q.length = p.length /\ SameBody(p, q) /\ SameHead(p, q)
<1> DEFINE at == "size_cr"
           w == To(p, at)
           v == [w EXCEPT !.left = t.n]
<1>1. at \in States
  BY DEF States, HeadStates, ChunkStates
<1> HIDE DEF at
<1>2. /\ w \in ParserType
      /\ w.at = at /\ w.taken = p.taken + 1 /\ w.halted = p.halted
      /\ SameBody(p, w) /\ SameHead(p, w) /\ SameSize(p, w)
  BY <1>1, ToIs
<1>3. Step(p, t) = v
  BY DEF Step, Framing, at
<1> HIDE DEF w
<1>4. v \in ParserType
  BY <1>2 DEF ParserType, TokenType
<1> QED
  BY <1>2, <1>3, <1>4 DEF ParserType, SameBody, SameHead, SameSize, at

\* The end of the line of that size: the parser pauses behind it.
LEMMA StepSizeLine ==
  ASSUME NEW p \in ParserType, NEW t \in TokenType, ~p.halted, p.at = "size_lf", t.kind = "LF", p.left \in Nat
  PROVE  LET q == Step(p, t)
         IN /\ q \in ParserType
            /\ q.at = (IF p.left = 0 THEN "trailer" ELSE "chunk")
            /\ q.taken = p.taken + 1 /\ q.halted = TRUE
            /\ q.left = p.left /\ q.length = p.left /\ SameBody(p, q) /\ SameHead(p, q)
<1> DEFINE at == (IF p.left = 0 THEN "trailer" ELSE "chunk")
           w == To(p, at)
           v == [w EXCEPT !.length = p.left]
<1>1. at \in States
  BY DEF States, HeadStates, ChunkStates
<1> HIDE DEF at
<1>2. /\ w \in ParserType
      /\ w.at = at /\ w.taken = p.taken + 1 /\ w.halted = p.halted
      /\ SameBody(p, w) /\ SameHead(p, w) /\ SameSize(p, w)
  BY <1>1, ToIs
<1>3. Step(p, t) = Halt(v)
  BY DEF Step, Framing, at
<1> HIDE DEF w
<1>4. v \in ParserType
  BY <1>2 DEF ParserType, TokenType
<1>5. /\ Halt(v) \in ParserType
      /\ Halt(v).at = v.at /\ Halt(v).taken = v.taken /\ Halt(v).halted = TRUE
      /\ SameBody(v, Halt(v)) /\ SameHead(v, Halt(v)) /\ SameSize(v, Halt(v))
  BY <1>4, HaltIs
<1>6. v.at = w.at /\ v.taken = w.taken /\ SameBody(w, v) /\ SameHead(w, v) /\ v.left = w.left
      /\ v.length = p.left
  BY <1>2 DEF ParserType, SameBody, SameHead
<1> QED
  BY <1>2, <1>3, <1>5, <1>6 DEF SameBody, SameHead, SameSize, at

\* The CR behind a chunk: the parser pauses if this call collected a byte of it.
LEMMA StepChunkEnd ==
  ASSUME NEW p \in ParserType, NEW t \in TokenType, ~p.halted, p.at = "chunk_cr", t.kind = "CR"
  PROVE  LET q == Step(p, t)
         IN /\ q \in ParserType
            /\ q.at = "chunk_lf" /\ q.taken = p.taken + 1 /\ q.halted = p.marked
            /\ SameBody(p, q) /\ SameHead(p, q) /\ SameSize(p, q)
<1> DEFINE at == "chunk_lf"
           w == To(p, at)
           v == [w EXCEPT !.halted = p.marked]
<1>1. at \in States
  BY DEF States, HeadStates, ChunkStates
<1> HIDE DEF at
<1>2. /\ w \in ParserType
      /\ w.at = at /\ w.taken = p.taken + 1 /\ w.halted = p.halted
      /\ SameBody(p, w) /\ SameHead(p, w) /\ SameSize(p, w)
  BY <1>1, ToIs
<1>3. Step(p, t) = v
  BY DEF Step, Framing, at
<1> HIDE DEF w
<1>4. v \in ParserType
  BY <1>2 DEF ParserType, TokenType
<1> QED
  BY <1>2, <1>3, <1>4 DEF ParserType, SameBody, SameHead, SameSize, at

\* The end of the headers: the parser pauses in front of the LF.
LEMMA StepBlank ==
  ASSUME NEW p \in ParserType, NEW t \in TokenType, ~p.halted, p.at = "blank", t.kind = "LF",
         p.left \in Nat
  PROVE  LET q == Step(p, t)
         IN /\ q \in ParserType
            /\ q.at = "headers" /\ q.taken = p.taken /\ q.halted = TRUE
            /\ q.headers = p.framing /\ q.framing = p.framing /\ q.left = p.left
            /\ q.length = (IF p.framing = "length" THEN p.left ELSE Unbounded)
            /\ SameBody(p, q)
<1> DEFINE at == "headers"
           l == (IF p.framing = "length" THEN p.left ELSE Unbounded)
           v == [p EXCEPT !.at = at, !.headers = p.framing, !.length = l]
<1>1. at \in States /\ l \in Nat /\ p.framing \in Framing
  BY DEF States, HeadStates, ParserType, Unbounded
<1>2. Step(p, t) = Halt(v)
  BY DEF Step, Framing, at
<1> HIDE DEF at, l
<1>3. \A f \in Framing, n \in Nat :
        [p EXCEPT !.at = at, !.headers = f, !.length = n] \in ParserType
  BY <1>1 DEF ParserType
<1>4. v \in ParserType
  BY <1>1, <1>3
<1>5. /\ Halt(v) \in ParserType
      /\ Halt(v).at = v.at /\ Halt(v).taken = v.taken /\ Halt(v).halted = TRUE
      /\ SameBody(v, Halt(v)) /\ SameHead(v, Halt(v)) /\ SameSize(v, Halt(v))
  BY <1>4, HaltIs
<1>6. /\ v.at = at /\ v.taken = p.taken /\ SameBody(p, v) /\ v.headers = p.framing
      /\ v.framing = p.framing /\ v.left = p.left /\ v.length = l
  BY DEF ParserType, SameBody
<1> QED
  BY <1>2, <1>5, <1>6 DEF SameBody, SameHead, SameSize, at, l

\* That LF again: the body follows.
LEMMA StepHeaders ==
  ASSUME NEW p \in ParserType, NEW t \in TokenType, ~p.halted, p.at = "headers", t.kind = "LF"
  PROVE  LET q == Step(p, t)
         IN /\ q \in ParserType
            /\ q.at = AfterHeaders(p) /\ q.taken = p.taken + 1 /\ ~q.halted
            /\ SameBody(p, q) /\ SameHead(p, q) /\ SameSize(p, q)
<1>1. AfterHeaders(p) \in States
  BY DEF AfterHeaders, States, HeadStates, ChunkStates, BodyStates
<1>2. Step(p, t) = To(p, AfterHeaders(p))
  BY DEF Step, Framing
<1> QED
  BY <1>1, <1>2, ToIs

\* A byte of a body of a given length.
LEMMA StepBody ==
  ASSUME NEW p \in ParserType, NEW t \in TokenType, ~p.halted, p.at = "body", p.left > 1
  PROVE  LET q == Step(p, t)
         IN /\ q \in ParserType
            /\ q.at = "body" /\ q.taken = p.taken + 1 /\ ~q.halted
            /\ q.raw = Append(p.raw, t) /\ q.marked = TRUE /\ q.left = p.left - 1
            /\ q.length = p.length /\ SameHead(p, q)
<1> DEFINE at == "body"
<1>1. at \in States
  BY DEF States, BodyStates
<1>2. Step(p, t) = Byte(p, t, at)
  BY DEF Step, Framing
<1> HIDE DEF at
<1>3. LET q == Byte(p, t, at)
      IN /\ q \in ParserType
         /\ q.at = at /\ q.taken = p.taken + 1 /\ q.halted = p.halted
         /\ q.raw = Append(p.raw, t) /\ q.marked = TRUE /\ q.left = p.left - 1
         /\ q.length = p.length /\ SameHead(p, q)
  BY <1>1, ByteIs
<1> QED
  BY <1>2, <1>3 DEF at

\* The last of them: the parser pauses in front of it.
LEMMA StepLast ==
  ASSUME NEW p \in ParserType, NEW t \in TokenType, ~p.halted, p.at = "body", p.left = 1
  PROVE  LET q == Step(p, t)
         IN /\ q \in ParserType
            /\ q.at = "done" /\ q.taken = p.taken /\ q.halted = TRUE
            /\ q.raw = Append(p.raw, t) /\ q.marked = TRUE /\ q.left = 0
            /\ q.length = p.length /\ SameHead(p, q)
<1> DEFINE at == "done"
           w == Byte(p, t, at)
           v == [w EXCEPT !.taken = p.taken]
<1>1. at \in States
  BY DEF States, BodyStates
<1>2. Step(p, t) = Halt(v)
  BY DEF Step, Framing
<1> HIDE DEF at
<1>3. /\ w \in ParserType
      /\ w.at = at /\ w.taken = p.taken + 1 /\ w.halted = p.halted
      /\ w.raw = Append(p.raw, t) /\ w.marked = TRUE /\ w.left = p.left - 1
      /\ w.length = p.length /\ SameHead(p, w)
  BY <1>1, ByteIs
<1> HIDE DEF w
<1>4. p.taken \in Nat
  BY DEF ParserType
<1>5. \A n \in Nat : [w EXCEPT !.taken = n] \in ParserType
  BY <1>3 DEF ParserType
<1>6. v \in ParserType
  BY <1>4, <1>5
<1>7. /\ Halt(v) \in ParserType
      /\ Halt(v).at = v.at /\ Halt(v).taken = v.taken /\ Halt(v).halted = TRUE
      /\ SameBody(v, Halt(v)) /\ SameHead(v, Halt(v)) /\ SameSize(v, Halt(v))
  BY <1>6, HaltIs
<1>8. /\ v.at = w.at /\ v.taken = p.taken /\ v.raw = w.raw /\ v.marked = w.marked
      /\ SameHead(w, v) /\ SameSize(w, v)
  BY <1>3 DEF ParserType, SameHead, SameSize
<1> QED
  BY <1>2, <1>3, <1>7, <1>8 DEF SameBody, SameHead, SameSize, at

\* The last byte again: the message is over.
LEMMA StepDone ==
  ASSUME NEW p \in ParserType, NEW t \in TokenType, ~p.halted, p.at = "done"
  PROVE  LET q == Step(p, t)
         IN /\ q \in ParserType
            /\ q.at = "start" /\ q.taken = p.taken + 1 /\ ~q.halted
            /\ SameBody(p, q) /\ SameHead(p, q) /\ SameSize(p, q)
<1>1. "start" \in States
  BY DEF States, HeadStates
<1>2. Step(p, t) = To(p, "start")
  BY DEF Step, Framing
<1> QED
  BY <1>1, <1>2, ToIs

\* A byte of a body that the end of the stream ends.
LEMMA StepRest ==
  ASSUME NEW p \in ParserType, NEW t \in TokenType, ~p.halted, p.at = "rest"
  PROVE  LET q == Step(p, t)
         IN /\ q \in ParserType
            /\ q.at = "rest" /\ q.taken = p.taken + 1 /\ ~q.halted
            /\ q.raw = Append(p.raw, t) /\ q.marked = TRUE /\ q.left = p.left - 1
            /\ q.length = p.length /\ SameHead(p, q)
<1> DEFINE at == "rest"
<1>1. at \in States
  BY DEF States, BodyStates
<1>2. Step(p, t) = Byte(p, t, at)
  BY DEF Step, Framing
<1> HIDE DEF at
<1>3. LET q == Byte(p, t, at)
      IN /\ q \in ParserType
         /\ q.at = at /\ q.taken = p.taken + 1 /\ q.halted = p.halted
         /\ q.raw = Append(p.raw, t) /\ q.marked = TRUE /\ q.left = p.left - 1
         /\ q.length = p.length /\ SameHead(p, q)
  BY <1>1, ByteIs
<1> QED
  BY <1>2, <1>3 DEF at

\* A byte of a chunk.
LEMMA StepChunk ==
  ASSUME NEW p \in ParserType, NEW t \in TokenType, ~p.halted, p.at = "chunk"
  PROVE  LET q == Step(p, t)
         IN /\ q \in ParserType
            /\ q.at = (IF p.left = 1 THEN "chunk_cr" ELSE "chunk")
            /\ q.taken = p.taken + 1 /\ ~q.halted
            /\ q.raw = Append(p.raw, t) /\ q.marked = TRUE /\ q.left = p.left - 1
            /\ q.length = p.length /\ SameHead(p, q)
<1> DEFINE at == (IF p.left = 1 THEN "chunk_cr" ELSE "chunk")
<1>1. at \in States
  BY DEF States, ChunkStates
<1>2. Step(p, t) = Byte(p, t, at)
  BY DEF Step, Framing
<1> HIDE DEF at
<1>3. LET q == Byte(p, t, at)
      IN /\ q \in ParserType
         /\ q.at = at /\ q.taken = p.taken + 1 /\ q.halted = p.halted
         /\ q.raw = Append(p.raw, t) /\ q.marked = TRUE /\ q.left = p.left - 1
         /\ q.length = p.length /\ SameHead(p, q)
  BY <1>1, ByteIs
<1> QED
  BY <1>2, <1>3 DEF at

\* A token of the table.
LEMMA StepShift ==
  ASSUME NEW p \in Parsers, NEW t \in TokenType, ~p.halted, Shifts(p, t)
  PROVE  LET q == Step(p, t)
         IN /\ q \in ParserType
            /\ q.at = Shift[p.at][t.kind] /\ q.taken = p.taken + 1 /\ ~q.halted
            /\ SameBody(p, q) /\ SameHead(p, q) /\ SameSize(p, q)
<1>1. Shift[p.at][t.kind] \in States
  BY ShiftType
<1>2. p.at \in {"start", "bare", "line", "fields", "field", "field_lf", "size_cr", "chunk_lf",
                "trailer", "trailer_lf"}
  BY ShiftIs DEF Shifts
<1>3. ~(p.at = "fields" /\ t.kind \in Framing)
  BY ShiftIs DEF Shifts, Framing
<1>4. Step(p, t) = To(p, Shift[p.at][t.kind])
  BY <1>2, <1>3 DEF Step, Shifts
<1>5. p \in ParserType
  BY DEF Parsers
<1> QED
  BY <1>1, <1>4, <1>5, ToIs

\* What a token nobody expects changes.
LEMMA ErrorIs ==
  ASSUME NEW p \in ParserType
  PROVE  LET q == Halt([p EXCEPT !.at = "error", !.taken = 0])
         IN /\ q \in ParserType
            /\ q.at = "error" /\ q.taken = 0 /\ q.halted = TRUE
            /\ SameBody(p, q) /\ SameHead(p, q) /\ SameSize(p, q)
<1> DEFINE at == "error"
           v == [p EXCEPT !.at = at, !.taken = 0]
<1>1. at \in States
  BY DEF States
<1> HIDE DEF at
<1>2. v \in ParserType
  BY <1>1 DEF ParserType
<1>3. /\ Halt(v) \in ParserType
      /\ Halt(v).at = v.at /\ Halt(v).taken = v.taken /\ Halt(v).halted = TRUE
      /\ SameBody(v, Halt(v)) /\ SameHead(v, Halt(v)) /\ SameSize(v, Halt(v))
  BY <1>2, HaltIs
<1>4. v.at = at /\ v.taken = 0 /\ SameBody(p, v) /\ SameHead(p, v) /\ SameSize(p, v)
  BY DEF ParserType, SameBody, SameHead, SameSize
<1> QED
  BY <1>3, <1>4 DEF at, SameBody, SameHead, SameSize

\* The step is one of the cases of Step() before the last.
Handled(p, t) ==
  \/ p.at = "status" /\ t.kind = "CR"
  \/ p.at = "fields" /\ t.kind \in Framing
  \/ p.at \in {"blank", "headers"} /\ t.kind = "LF"
  \/ p.at = "body" /\ p.left >= 1
  \/ p.at \in {"done", "rest", "chunk"}
  \/ p.at = "size" /\ t.kind = "size"
  \/ p.at = "size_lf" /\ t.kind = "LF"
  \/ p.at = "chunk_cr" /\ t.kind = "CR"
  \/ Shifts(p, t)

\* Any other token is an error.
LEMMA StepError ==
  ASSUME NEW p \in ParserType, NEW t \in TokenType, ~p.halted, ~Handled(p, t)
  PROVE  LET q == Step(p, t)
         IN /\ q \in ParserType
            /\ q.at = "error" /\ q.taken = 0 /\ q.halted = TRUE
            /\ SameBody(p, q) /\ SameHead(p, q) /\ SameSize(p, q)
<1>1. p.left \in Int
  BY DEF ParserType
<1>2. ~(p.at = "body" /\ p.left > 1) /\ ~(p.at = "body" /\ p.left = 1)
  BY <1>1 DEF Handled
<1>3. Step(p, t) = Halt([p EXCEPT !.at = "error", !.taken = 0])
  BY <1>2, Zenon DEF Handled, Step, Shifts
<1> QED
  BY <1>3, ErrorIs

\* A step takes a parser to a parser.
LEMMA StepType ==
  ASSUME NEW p \in Parsers, NEW t \in TokenType
  PROVE  Step(p, t) \in Parsers
<1> DEFINE q == Step(p, t)
<1>1. /\ p \in ParserType /\ p.left \in Int /\ t.n \in Nat
      /\ p.at # "rest" => p.left >= 0
      /\ p.at = "chunk" => p.left > 0
      /\ p.at # "rest" => p.left \in Nat
  BY DEF Parsers, ParserType, TokenType
<1>2. SUFFICES ASSUME ~p.halted PROVE q \in Parsers
  BY DEF Step
<1> HIDE DEF q
<1>3. SUFFICES q \in ParserType /\ (q.at # "rest" => q.left >= 0) /\ (q.at = "chunk" => q.left > 0)
  BY DEF Parsers
<1>4. CASE p.at = "status" /\ t.kind = "CR"
  BY <1>1, <1>2, <1>4, StepStatus DEF q, SameSize
<1>5. CASE p.at = "fields" /\ t.kind \in Framing
  BY <1>1, <1>2, <1>5, StepField DEF q
<1>6. CASE p.at = "blank" /\ t.kind = "LF"
  <2>1. q \in ParserType /\ q.left = p.left /\ q.at = "headers"
    BY <1>1, <1>2, <1>6, StepBlank DEF q
  <2> QED
    BY <1>1, <1>6, <2>1
<1>7. CASE p.at = "headers" /\ t.kind = "LF"
  BY <1>1, <1>2, <1>7, StepHeaders DEF q, SameSize, AfterHeaders
<1>8. CASE p.at = "body" /\ p.left >= 1
  <2>1. CASE p.left = 1
    <3>1. q \in ParserType /\ q.left = 0 /\ q.at = "done"
      BY <1>1, <1>2, <1>8, <2>1, StepLast DEF q
    <3> QED
      BY <1>1, <1>8, <2>1, <3>1
  <2>2. CASE p.left > 1
    <3>1. q \in ParserType /\ q.left = p.left - 1 /\ q.at = "body"
      BY <1>1, <1>2, <1>8, <2>2, StepBody DEF q
    <3> QED
      BY <1>1, <1>8, <2>2, <3>1
  <2> QED
    BY <1>1, <1>8, <2>1, <2>2
<1>9. CASE p.at = "done"
  BY <1>1, <1>2, <1>9, StepDone DEF q, SameSize
<1>10. CASE p.at = "rest"
  BY <1>1, <1>2, <1>10, StepRest DEF q
<1>11. CASE p.at = "chunk"
  <2>1. q \in ParserType /\ q.left = p.left - 1 /\ q.at = (IF p.left = 1 THEN "chunk_cr" ELSE "chunk")
    BY <1>1, <1>2, <1>11, StepChunk DEF q
  <2> QED
    BY <1>1, <1>11, <2>1
<1>12. CASE p.at = "size" /\ t.kind = "size"
  BY <1>1, <1>2, <1>12, StepSize DEF q
<1>13. CASE p.at = "size_lf" /\ t.kind = "LF"
  <2>1. q \in ParserType /\ q.left = p.left /\ q.at = (IF p.left = 0 THEN "trailer" ELSE "chunk")
    BY <1>1, <1>2, <1>13, StepSizeLine DEF q
  <2> QED
    BY <1>1, <1>13, <2>1
<1>14. CASE p.at = "chunk_cr" /\ t.kind = "CR"
  BY <1>1, <1>2, <1>14, StepChunkEnd DEF q, SameSize
<1>15. CASE Shifts(p, t)
  BY <1>1, <1>2, <1>15, StepShift, ShiftType DEF q, SameSize
<1>16. CASE ~Handled(p, t)
  <2>1. p.at # "rest"
    BY <1>16 DEF Handled
  <2> QED
    BY <1>1, <1>2, <1>16, <2>1, StepError DEF q, SameSize
<1> QED
  BY <1>4, <1>5, <1>6, <1>7, <1>8, <1>9, <1>10, <1>11, <1>12, <1>13, <1>14, <1>15, <1>16 DEF Handled

\* Advance() is a step.
LEMMA AdvanceIs ==
  ASSUME NEW p, NEW t
  PROVE  Advance(p, t) = Step(p, t)
<1>1. {Step(q, t) : q \in {p}} = {Step(p, t)}
  BY Zenon
<1> HIDE DEF Step
<1> QED
  BY <1>1 DEF Advance

\* A new parser is one, in front of the status line.
LEMMA FreshType ==
  /\ FreshRx \in Parsers /\ FreshRx.raw = <<>> /\ <<>> \in Tokens /\ FreshRx.at = "start"
  /\ FreshRx.taken = 0 /\ FreshRx.halted = (FreshRx.at = "error")
<1>1. <<>> \in Tokens
  BY DEF Tokens
<1>2. \A r \in Tokens :
        [at |-> "start", framing |-> "eof", left |-> 0, headers |-> "unread", length |-> 0,
         status |-> FALSE, raw |-> r, taken |-> 0, marked |-> FALSE, halted |-> FALSE] \in ParserType
  BY DEF ParserType, States, HeadStates, Framing
<1>3. FreshRx \in ParserType
  BY <1>1, <1>2 DEF FreshRx
<1>4. FreshRx.at = "start" /\ FreshRx.left = 0
  BY DEF FreshRx
<1>5. FreshRx \in Parsers
  BY <1>3, <1>4 DEF Parsers
<1>6. FreshRx.raw = <<>> /\ FreshRx.taken = 0 /\ FreshRx.halted = FALSE
  BY DEF FreshRx
<1>7. FreshRx.halted = (FreshRx.at = "error")
  BY <1>4, <1>6
<1> QED
  BY <1>1, <1>4, <1>5, <1>6, <1>7

\* Between two calls a parser keeps its state and what it collected.
LEMMA ResumedIs ==
  ASSUME NEW p \in Parsers
  PROVE  /\ Resumed(p) \in Parsers
         /\ Resumed(p).at = p.at /\ Resumed(p).raw = p.raw
         /\ SameHead(p, Resumed(p)) /\ SameSize(p, Resumed(p))
         /\ Resumed(p).taken = 0 /\ Resumed(p).marked = FALSE
         /\ Resumed(p).halted = (p.at = "error")
<1>1. p \in ParserType
  BY DEF Parsers
<1>2. (p.at = "error") \in BOOLEAN
  OBVIOUS
<1>3. \A h \in BOOLEAN : [p EXCEPT !.taken = 0, !.marked = FALSE, !.halted = h] \in ParserType
  BY <1>1 DEF ParserType
<1>4. Resumed(p) \in ParserType
  BY <1>2, <1>3 DEF Resumed
<1>5. /\ Resumed(p).at = p.at /\ Resumed(p).raw = p.raw
      /\ SameHead(p, Resumed(p)) /\ SameSize(p, Resumed(p))
      /\ Resumed(p).taken = 0 /\ Resumed(p).marked = FALSE
      /\ Resumed(p).halted = (p.at = "error")
  BY <1>1 DEF Resumed, ParserType, SameHead, SameSize
<1> QED
  BY <1>4, <1>5 DEF Parsers, SameSize

-----------------------------------------------------------------------------
(* Where the parser is in the answer.                                      *)

\* What an exchange that succeeded on a stream that stays open may have left on it.
Leftovers == {<<>>, <<Sign("LF")>>, CRLF} \cup {<<Token("byte", n, f)>> : n \in Nat, f \in Nat}

\* The stream: position 1 is the first token of the answer, L is in front of it.
TokenAt(m, e, L, i) == IF i > 0 THEN Render(m, e)[i] ELSE L[Len(L) + i]

RawIs(p, e, n) == Len(p.raw) = n /\ \A k \in 1..n : p.raw[k] = Token("byte", k, e)

InHead(p, m, i) ==
  /\ p.raw = <<>>
  /\ p.at = "start" => i <= 0
  /\ p.at \in {"status", "bare"} => i = 1 /\ p.at = (IF m.reason THEN "status" ELSE "bare")
  /\ p.at = "line" => i = 2
  /\ p.at = "fields" => i \in {3, 6}
  /\ p.at = "field" => i = 4
  /\ p.at = "field_lf" => i = 5
  /\ p.at \in {"blank", "headers"} => i = 7
  /\ i > 3 => p.framing = m.framing /\ p.left = Given(m)
  /\ p.at # "headers" => p.headers = "unread"
  /\ p.at = "headers" => /\ p.headers = m.framing
                         /\ p.length = IF m.framing = "length" THEN Size(m) ELSE Unbounded

InBody(p, m, e, i) ==
  /\ p.headers = m.framing /\ p.framing = m.framing
  /\ m.framing = "length" => p.length = Size(m)
  /\ p.at = "body" => /\ m.framing = "length" /\ p.left \in 1..Size(m)
                      /\ i = 8 + Size(m) - p.left /\ RawIs(p, e, Size(m) - p.left)
  /\ p.at = "done" => /\ m.framing = "length" /\ Size(m) > 0
                      /\ i = 7 + Size(m) /\ RawIs(p, e, Size(m))
  /\ p.at = "rest" => m.framing = "eof" /\ i >= 8 /\ RawIs(p, e, i - 8)

InChunk(p, m, e, i, c) ==
  /\ p.headers = "chunked" /\ m.framing = "chunked" /\ p.framing = "chunked"
  /\ p.at \in {"trailer", "trailer_lf"} \/ p.length > 0
  /\ p.at = "size" => i = Offset(m, c)
  /\ p.at = "size_cr" => i = Offset(m, c) + 1 /\ p.left = Announced(m, c)
  /\ p.at = "size_lf" => i = Offset(m, c) + 2 /\ p.left = Announced(m, c)
  /\ p.at = "chunk" => /\ c <= Len(m.parts) /\ p.left \in 1..m.parts[c]
                       /\ p.length = m.parts[c]
                       /\ i = Offset(m, c) + 3 + m.parts[c] - p.left
                       /\ RawIs(p, e, SizeUpTo(m, c) - p.left)
  /\ p.at = "chunk_cr" => /\ c <= Len(m.parts) /\ i = Offset(m, c) + 3 + m.parts[c]
                          /\ RawIs(p, e, SizeUpTo(m, c))
  /\ p.at = "chunk_lf" => /\ c <= Len(m.parts) /\ i = Offset(m, c) + 4 + m.parts[c]
                          /\ RawIs(p, e, SizeUpTo(m, c))
  /\ p.at \in {"size", "size_cr", "size_lf", "trailer", "trailer_lf"} =>
       RawIs(p, e, SizeUpTo(m, c - 1))
  /\ p.at = "trailer" => c = Len(m.parts) + 1 /\ i = Offset(m, c) + 3 /\ p.length = 0
  /\ p.at = "trailer_lf" => c = Len(m.parts) + 1 /\ i = Offset(m, c) + 4 /\ p.length = 0

AtEnd(p, m, e, i) ==
  /\ p.at = "start" /\ i = End(m, e) /\ m.framing # "eof" /\ p.headers = m.framing
  /\ m.framing = "length" => p.length = Size(m)
  /\ RawIs(p, e, Size(m))

\* The parser has taken the answer up to position i.
Follows(p, m, e, i) ==
  \/ p.at \in HeadStates /\ InHead(p, m, i)
  \/ p.at \in BodyStates /\ InBody(p, m, e, i)
  \/ p.at \in ChunkStates /\ \E c \in 1..(Len(m.parts) + 1) : InChunk(p, m, e, i, c)
  \/ AtEnd(p, m, e, i)

\* The step from p to q took the token behind position i, or left it.
Onward(p, q, m, e, i) ==
  \/ q.taken = p.taken + 1 /\ Follows(q, m, e, i + 1)
  \/ q.taken = p.taken /\ q.halted /\ Follows(q, m, e, i) /\ p.at \in {"blank", "body"}

Failed(q) == q.at = "error" /\ q.halted /\ q.taken = 0 /\ q.raw = <<>>

\* One more byte is collected.
LEMMA RawGrows ==
  ASSUME NEW p \in ParserType, NEW q, NEW e, NEW n \in Nat, RawIs(p, e, n),
         q.raw = Append(p.raw, Token("byte", n + 1, e)), Token("byte", n + 1, e) \in TokenType
  PROVE  RawIs(q, e, n + 1)
<1> DEFINE t == Token("byte", n + 1, e)
<1>1. p.raw \in Tokens /\ t \in TokenType
  BY DEF ParserType
<1>2. Len(p.raw) = n
  BY DEF RawIs
<1>3. \A r \in Tokens, u \in TokenType :
        /\ Len(Append(r, u)) = Len(r) + 1 /\ Append(r, u)[Len(r) + 1] = u
        /\ \A k \in 1..Len(r) : Append(r, u)[k] = r[k]
  BY DEF Tokens
<1> HIDE DEF t
<1>4. q.raw = Append(p.raw, t)
  BY DEF t
<1>5. /\ Len(q.raw) = n + 1 /\ q.raw[n + 1] = t
      /\ \A k \in 1..n : q.raw[k] = p.raw[k]
  BY <1>1, <1>2, <1>3, <1>4
<1>6. ASSUME NEW k \in 1..(n + 1) PROVE q.raw[k] = Token("byte", k, e)
  <2>1. CASE k = n + 1
    BY <1>5, <2>1 DEF t
  <2>2. CASE k # n + 1
    <3>1. k \in 1..n
      BY <2>2
    <3> QED
      BY <1>5, <3>1 DEF RawIs
  <2> QED
    BY <2>1, <2>2
<1> QED
  BY <1>5, <1>6 DEF RawIs

\* None is.
LEMMA RawStays ==
  ASSUME NEW p, NEW q, NEW e, NEW n, RawIs(p, e, n), q.raw = p.raw
  PROVE  RawIs(q, e, n)
  BY DEF RawIs

\* A parser that collected nothing has no byte of the body.
LEMMA RawEmpty ==
  ASSUME NEW p, NEW e, p.raw = <<>>
  PROVE  RawIs(p, e, 0)
  BY DEF RawIs

\* What is left of an answer is at most line ends or a byte.
LEMMA LeftoverIs ==
  ASSUME NEW L \in Leftovers
  PROVE  /\ L \in Tokens /\ Len(L) \in Nat
         /\ \A k \in 1..Len(L) : L[k] \in TokenType /\ L[k].kind \in {"CR", "LF", "byte"}
<1>1. CASE L = <<>>
  BY <1>1 DEF Tokens
<1>2. CASE L = <<Sign("LF")>>
  <2>1. Sign("LF") \in TokenType /\ Sign("LF").kind = "LF"
    BY TokenTypes DEF Sign, Token, Kinds
  <2> QED
    BY <1>2, <2>1, Single
<1>3. CASE L = CRLF
  <2>1. Sign("LF") \in TokenType /\ Sign("LF").kind = "LF"
    BY TokenTypes DEF Sign, Token, Kinds
  <2>2. Sign("CR") \in TokenType /\ Sign("CR").kind = "CR"
    BY TokenTypes DEF Sign, Token, Kinds
  <2> QED
    BY <1>3, <2>1, <2>2, TokenTypes DEF Tokens
<1>4. CASE L \in {<<Token("byte", n, f)>> : n \in Nat, f \in Nat}
  <2>1. PICK n \in Nat, f \in Nat : L = <<Token("byte", n, f)>>
    BY <1>4
  <2>2. Token("byte", n, f) \in TokenType /\ Token("byte", n, f).kind = "byte"
    BY TokenTypes DEF Token, Kinds
  <2> QED
    BY <2>1, <2>2, Single
<1> QED
  BY <1>1, <1>2, <1>3, <1>4 DEF Leftovers

\* The next token of the stream.
LEMMA TokenAtIs ==
  ASSUME NEW m \in Messages, NEW e \in Nat, NEW L \in Leftovers, NEW i \in Int,
         0 - Len(L) <= i, i < End(m, e)
  PROVE  /\ TokenAt(m, e, L, i + 1) \in TokenType
         /\ i < 0 => TokenAt(m, e, L, i + 1).kind \in {"CR", "LF", "byte"}
         /\ i >= 0 => TokenAt(m, e, L, i + 1) = Render(m, e)[i + 1]
<1>1. Render(m, e) \in Tokens /\ End(m, e) \in Nat
  BY HeadIs
<1>2. CASE i < 0
  <2>1. Len(L) + (i + 1) \in 1..Len(L)
    BY <1>2, LeftoverIs
  <2>2. TokenAt(m, e, L, i + 1) = L[Len(L) + (i + 1)]
    BY <1>2 DEF TokenAt
  <2> QED
    BY <1>2, <2>1, <2>2, LeftoverIs
<1>3. CASE i >= 0
  <2>1. TokenAt(m, e, L, i + 1) = Render(m, e)[i + 1] /\ i + 1 \in 1..Len(Render(m, e))
    BY <1>1, <1>3 DEF TokenAt, End
  <2> QED
    BY <1>1, <1>3, <2>1 DEF Tokens
<1> QED
  BY <1>2, <1>3

\* The kinds of tokens.
LEMMA SignIs ==
  /\ Sign("CR").kind = "CR" /\ Sign("LF").kind = "LF"
  /\ Sign("status").kind = "status" /\ Sign("bare").kind = "bare"
  /\ \A kind, n, of : Token(kind, n, of).kind = kind /\ Token(kind, n, of).n = n
  BY DEF Sign, Token

\* In front of the answer: line ends are skipped, a byte is an error.
LEMMA FollowsStart ==
  ASSUME NEW m \in Messages, NEW e \in Nat, NEW L \in Leftovers, NEW i \in Int,
         0 - Len(L) <= i, i < End(m, e),
         NEW p \in Parsers, ~p.halted, p.at = "start", Follows(p, m, e, i)
  PROVE  LET q == Step(p, TokenAt(m, e, L, i + 1))
         IN Onward(p, q, m, e, i) \/ Failed(q)
<1> DEFINE t == TokenAt(m, e, L, i + 1)
           q == Step(p, t)
<1>1. InHead(p, m, i)
  <2>1. ~AtEnd(p, m, e, i)
    BY HeadIs DEF AtEnd
  <2> QED
    BY <2>1 DEF Follows, BodyStates, ChunkStates
<1>2. i <= 0 /\ p.raw = <<>> /\ p.headers = "unread"
  BY <1>1 DEF InHead
<1>3. /\ t \in TokenType
      /\ i < 0 => t.kind \in {"CR", "LF", "byte"}
      /\ i >= 0 => t = Render(m, e)[i + 1]
  BY TokenAtIs
<1>4. Render(m, e)[1] = Sign(IF m.reason THEN "status" ELSE "bare")
  BY HeadIs
<1>5. p \in ParserType
  BY DEF Parsers
<1> HIDE DEF t, q
<1>6. CASE t.kind \in {"CR", "LF", "status", "bare"}
  <2>1. Shifts(p, t)
    BY <1>6, ShiftIs DEF Shifts
  <2>2. /\ q.at = Shift["start"][t.kind] /\ q.taken = p.taken + 1
        /\ q.raw = <<>> /\ q.headers = "unread"
    BY <1>2, <1>3, <2>1, StepShift DEF q, SameBody, SameHead
  <2>3. CASE i < 0
    <3>1. q.at = "start"
      BY <1>3, <1>6, <2>2, <2>3, ShiftIs
    <3>2. InHead(q, m, i + 1)
      BY <2>2, <2>3, <3>1 DEF InHead
    <3> QED
      BY <2>2, <3>1, <3>2 DEF Onward, Follows, HeadStates, q, t
  <2>4. CASE i = 0
    <3>1. t = Sign(IF m.reason THEN "status" ELSE "bare")
      BY <1>3, <1>4, <2>4
    <3>2. q.at = (IF m.reason THEN "status" ELSE "bare")
      BY <2>2, <3>1, SignIs, ShiftIs
    <3>3. InHead(q, m, i + 1)
      BY <2>2, <2>4, <3>2 DEF InHead
    <3> QED
      BY <2>2, <3>2, <3>3 DEF Onward, Follows, HeadStates, q, t
  <2> QED
    BY <1>2, <2>3, <2>4
<1>7. CASE t.kind \notin {"CR", "LF", "status", "bare"}
  <2>1. ~Handled(p, t)
    BY <1>7, ShiftIs DEF Handled, Shifts
  <2>2. q.at = "error" /\ q.taken = 0 /\ q.halted = TRUE /\ q.raw = <<>>
    BY <1>2, <1>3, <1>5, <2>1, StepError DEF q, SameBody
  <2> QED
    BY <2>2 DEF Failed, q, t
<1> QED
  BY <1>6, <1>7

\* In the headers, up to their end.
LEMMA FollowsHead ==
  ASSUME NEW m \in Messages, NEW e \in Nat, NEW L \in Leftovers, NEW i \in Int,
         0 - Len(L) <= i, i < End(m, e),
         NEW p \in Parsers, ~p.halted, p.at \in HeadStates \ {"start", "headers"},
         Follows(p, m, e, i)
  PROVE  Onward(p, Step(p, TokenAt(m, e, L, i + 1)), m, e, i)
<1> DEFINE t == TokenAt(m, e, L, i + 1)
           q == Step(p, t)
           r == Render(m, e)
<1>1. InHead(p, m, i)
  BY DEF Follows, BodyStates, ChunkStates, HeadStates, AtEnd
<1>2. p.raw = <<>> /\ p.headers = "unread" /\ p \in ParserType /\ p.left \in Int
  BY <1>1 DEF InHead, Parsers, ParserType
<1>3. i >= 0 => t = r[i + 1]
  BY TokenAtIs
<1>a. t \in TokenType
  BY TokenAtIs
<1>4. /\ r[2] = Sign("CR") /\ r[3] = Sign("LF") /\ r[4] = Token(m.framing, Given(m), 0)
      /\ r[5] = Sign("CR") /\ r[6] = Sign("LF") /\ r[7] = Sign("CR") /\ r[8] = Sign("LF")
  BY HeadIs
<1>5. m.framing \in Framing
  BY PartsType
<1> HIDE DEF t, q, r
<1>6. SUFFICES Onward(p, q, m, e, i)
  BY DEF q, t
<1>7. ASSUME Shifts(p, t)
      PROVE  /\ q.at = Shift[p.at][t.kind] /\ q.taken = p.taken + 1
             /\ q.raw = <<>> /\ q.headers = "unread"
             /\ q.framing = p.framing /\ q.left = p.left
  BY <1>2, <1>a, <1>7, StepShift DEF q, SameBody, SameHead, SameSize
<1>8. CASE p.at = "status"
  <2>1. i = 1 /\ t = Sign("CR") /\ m.reason
    BY <1>1, <1>3, <1>4, <1>8 DEF InHead
  <2>2. q.at = "line" /\ q.taken = p.taken + 1 /\ q.raw = <<>> /\ q.headers = "unread"
    BY <1>2, <1>a, <1>8, <2>1, SignIs, StepStatus DEF q, SameBody, SameHead
  <2>3. InHead(q, m, i + 1)
    BY <2>1, <2>2 DEF InHead
  <2> QED
    BY <2>2, <2>3 DEF Onward, Follows, HeadStates
<1>9. CASE p.at = "bare"
  <2>1. i = 1 /\ t = Sign("CR")
    BY <1>1, <1>3, <1>4, <1>9 DEF InHead
  <2>2. q.at = "line" /\ q.taken = p.taken + 1 /\ q.raw = <<>> /\ q.headers = "unread"
    BY <1>7, <1>9, <2>1, SignIs, ShiftIs DEF Shifts
  <2>3. InHead(q, m, i + 1)
    BY <2>1, <2>2 DEF InHead
  <2> QED
    BY <2>2, <2>3 DEF Onward, Follows, HeadStates
<1>10. CASE p.at = "line"
  <2>1. i = 2 /\ t = Sign("LF")
    BY <1>1, <1>3, <1>4, <1>10 DEF InHead
  <2>2. q.at = "fields" /\ q.taken = p.taken + 1 /\ q.raw = <<>> /\ q.headers = "unread"
    BY <1>7, <1>10, <2>1, SignIs, ShiftIs DEF Shifts
  <2>3. InHead(q, m, i + 1)
    BY <2>1, <2>2 DEF InHead
  <2> QED
    BY <2>2, <2>3 DEF Onward, Follows, HeadStates
<1>11. CASE p.at = "fields" /\ i = 3
  <2>1. t = Token(m.framing, Given(m), 0)
    BY <1>3, <1>4, <1>11
  <2>2. t.kind = m.framing /\ t.n = Given(m)
    BY <2>1, SignIs
  <2>3. /\ q.at = "field" /\ q.taken = p.taken + 1 /\ q.raw = <<>> /\ q.headers = "unread"
        /\ q.framing = m.framing /\ q.left = Given(m)
    BY <1>2, <1>a, <1>5, <1>11, <2>2, StepField DEF q, SameBody
  <2>4. InHead(q, m, i + 1)
    BY <1>11, <2>3 DEF InHead
  <2> QED
    BY <2>3, <2>4 DEF Onward, Follows, HeadStates
<1>12. CASE p.at = "fields" /\ i = 6
  <2>1. t = Sign("CR") /\ p.framing = m.framing /\ p.left = Given(m)
    BY <1>1, <1>3, <1>4, <1>12 DEF InHead
  <2>2. /\ q.at = "blank" /\ q.taken = p.taken + 1 /\ q.raw = <<>> /\ q.headers = "unread"
        /\ q.framing = p.framing /\ q.left = p.left
    BY <1>7, <1>12, <2>1, SignIs, ShiftIs DEF Shifts
  <2>3. InHead(q, m, i + 1)
    BY <1>12, <2>1, <2>2 DEF InHead
  <2> QED
    BY <2>2, <2>3 DEF Onward, Follows, HeadStates
<1>13. CASE p.at = "field"
  <2>1. i = 4 /\ t = Sign("CR") /\ p.framing = m.framing /\ p.left = Given(m)
    BY <1>1, <1>3, <1>4, <1>13 DEF InHead
  <2>2. /\ q.at = "field_lf" /\ q.taken = p.taken + 1 /\ q.raw = <<>> /\ q.headers = "unread"
        /\ q.framing = p.framing /\ q.left = p.left
    BY <1>7, <1>13, <2>1, SignIs, ShiftIs DEF Shifts
  <2>3. InHead(q, m, i + 1)
    BY <2>1, <2>2 DEF InHead
  <2> QED
    BY <2>2, <2>3 DEF Onward, Follows, HeadStates
<1>14. CASE p.at = "field_lf"
  <2>1. i = 5 /\ t = Sign("LF") /\ p.framing = m.framing /\ p.left = Given(m)
    BY <1>1, <1>3, <1>4, <1>14 DEF InHead
  <2>2. /\ q.at = "fields" /\ q.taken = p.taken + 1 /\ q.raw = <<>> /\ q.headers = "unread"
        /\ q.framing = p.framing /\ q.left = p.left
    BY <1>7, <1>14, <2>1, SignIs, ShiftIs DEF Shifts
  <2>3. InHead(q, m, i + 1)
    BY <2>1, <2>2 DEF InHead
  <2> QED
    BY <2>2, <2>3 DEF Onward, Follows, HeadStates
<1>15. CASE p.at = "blank"
  <2>1. i = 7 /\ t = Sign("LF") /\ p.framing = m.framing /\ p.left = Given(m)
    BY <1>1, <1>3, <1>4, <1>15 DEF InHead
  <2>2. p.left \in Nat
    BY <1>2, <1>15 DEF Parsers
  <2>3. /\ q.at = "headers" /\ q.taken = p.taken /\ q.halted = TRUE
        /\ q.headers = m.framing /\ q.framing = m.framing /\ q.left = Given(m)
        /\ q.length = (IF m.framing = "length" THEN Given(m) ELSE Unbounded)
        /\ q.raw = <<>>
    BY <1>2, <1>a, <1>15, <2>1, <2>2, SignIs, StepBlank DEF q, SameBody
  <2>4. q.length = (IF m.framing = "length" THEN Size(m) ELSE Unbounded)
    BY <2>3 DEF Given
  <2>5. InHead(q, m, i)
    BY <2>1, <2>3, <2>4 DEF InHead
  <2> QED
    BY <1>15, <2>3, <2>5 DEF Onward, Follows, HeadStates
<1>16. \/ p.at \in {"status", "bare", "line", "field", "field_lf", "blank"}
       \/ p.at = "fields" /\ i = 3
       \/ p.at = "fields" /\ i = 6
  BY <1>1 DEF InHead, HeadStates
<1> QED
  BY <1>8, <1>9, <1>10, <1>11, <1>12, <1>13, <1>14, <1>15, <1>16

\* Behind the headers.
LEMMA FollowsHeaders ==
  ASSUME NEW m \in Messages, NEW e \in Nat, NEW L \in Leftovers, NEW i \in Int,
         0 - Len(L) <= i, i < End(m, e),
         NEW p \in Parsers, ~p.halted, p.at = "headers", Follows(p, m, e, i)
  PROVE  LET q == Step(p, TokenAt(m, e, L, i + 1))
         IN q.taken = p.taken + 1 /\ Follows(q, m, e, i + 1)
<1> DEFINE t == TokenAt(m, e, L, i + 1)
           q == Step(p, t)
<1>1. InHead(p, m, i)
  BY DEF Follows, BodyStates, ChunkStates, HeadStates, AtEnd
<1>2. /\ p.raw = <<>> /\ p.headers = m.framing /\ p.framing = m.framing /\ i = 7
      /\ p.left = Given(m) /\ p.length = (IF m.framing = "length" THEN Size(m) ELSE Unbounded)
  BY <1>1 DEF InHead
<1>3. t \in TokenType /\ t = Sign("LF") /\ t.kind = "LF"
  <2>1. t \in TokenType /\ (i >= 0 => t = Render(m, e)[i + 1])
    BY TokenAtIs
  <2>2. Render(m, e)[8] = Sign("LF")
    BY HeadIs
  <2> QED
    BY <1>2, <2>1, <2>2, SignIs
<1>4. p \in ParserType
  BY DEF Parsers
<1>5. /\ q.at = AfterHeaders(p) /\ q.taken = p.taken + 1
      /\ q.raw = <<>> /\ q.framing = m.framing /\ q.headers = m.framing
      /\ q.left = p.left /\ q.length = p.length
  BY <1>2, <1>3, <1>4, StepHeaders DEF SameBody, SameHead, SameSize
<1>6. Size(m) \in Nat /\ m.framing \in Framing
  BY SizeBounds, PartsType
<1> HIDE DEF t, q
<1>7. RawIs(q, e, 0)
  BY <1>5, RawEmpty
<1>8. Follows(q, m, e, i + 1)
  <2>1. CASE m.framing = "chunked"
    <3>1. q.at = "size" /\ q.length > 0
      BY <1>2, <1>5, <2>1 DEF AfterHeaders, Unbounded
    <3>2. Offset(m, 1) = 8 /\ SizeUpTo(m, 1 - 1) = 0 /\ 1 \in 1..(Len(m.parts) + 1)
      BY SizeSteps, PartsType DEF Offset, ChunkStart
    <3>3. InChunk(q, m, e, i + 1, 1)
      BY <1>2, <1>5, <1>7, <2>1, <3>1, <3>2 DEF InChunk
    <3> QED
      BY <3>1, <3>2, <3>3 DEF Follows, ChunkStates
  <2>2. CASE m.framing = "eof"
    <3>1. q.at = "rest"
      BY <1>2, <1>5, <2>2 DEF AfterHeaders
    <3>2. InBody(q, m, e, i + 1)
      BY <1>2, <1>5, <1>7, <2>2, <3>1 DEF InBody
    <3> QED
      BY <3>1, <3>2 DEF Follows, BodyStates
  <2>3. CASE m.framing = "length" /\ Size(m) = 0
    <3>1. q.at = "start"
      BY <1>2, <1>5, <2>3 DEF AfterHeaders, Given
    <3>2. AtEnd(q, m, e, i + 1)
      BY <1>2, <1>5, <1>7, <2>3, <3>1, PlainIs DEF AtEnd
    <3> QED
      BY <3>2 DEF Follows
  <2>4. CASE m.framing = "length" /\ Size(m) > 0
    <3>1. q.at = "body" /\ q.left = Size(m)
      BY <1>2, <1>5, <2>4 DEF AfterHeaders, Given
    <3>2. q.left \in 1..Size(m) /\ 8 + Size(m) - q.left = 8 /\ Size(m) - q.left = 0
      BY <1>6, <2>4, <3>1
    <3>3. InBody(q, m, e, i + 1)
      BY <1>2, <1>5, <1>7, <2>4, <3>1, <3>2 DEF InBody
    <3> QED
      BY <3>1, <3>3 DEF Follows, BodyStates
  <2> QED
    BY <1>6, <2>1, <2>2, <2>3, <2>4 DEF Framing
<1> QED
  BY <1>5, <1>8 DEF q, t

\* In a body that is not in chunks.
LEMMA FollowsBody ==
  ASSUME NEW m \in Messages, NEW e \in Nat, NEW L \in Leftovers, NEW i \in Int,
         0 - Len(L) <= i, i < End(m, e),
         NEW p \in Parsers, ~p.halted, p.at \in BodyStates, Follows(p, m, e, i)
  PROVE  Onward(p, Step(p, TokenAt(m, e, L, i + 1)), m, e, i)
<1> DEFINE t == TokenAt(m, e, L, i + 1)
           q == Step(p, t)
           S == Size(m)
<1>1. InBody(p, m, e, i)
  BY DEF Follows, BodyStates, ChunkStates, HeadStates, AtEnd
<1>2. /\ p.headers = m.framing /\ p.framing = m.framing /\ p \in ParserType /\ p.left \in Int
      /\ S \in Nat
  BY <1>1, SizeBounds DEF InBody, Parsers, ParserType
<1>3. t \in TokenType /\ (i >= 0 => t = Render(m, e)[i + 1])
  BY TokenAtIs
<1>4. m.framing # "chunked" => /\ End(m, e) = 8 + S
                               /\ \A k \in 1..S : Render(m, e)[8 + k] = Token("byte", k, e)
  BY PlainIs
<1> HIDE DEF t, q, S
<1>5. SUFFICES Onward(p, q, m, e, i)
  BY DEF q, t
<1>6. CASE p.at = "body"
  <2> DEFINE n == S - p.left
  <2>1. /\ m.framing = "length" /\ p.left \in 1..S /\ i = 8 + S - p.left /\ RawIs(p, e, n)
        /\ p.length = S
    BY <1>1, <1>6 DEF InBody, S
  <2>2. n \in Nat /\ n + 1 \in 1..S /\ i + 1 = 8 + (n + 1) /\ i >= 0 /\ n + 1 = S - (p.left - 1)
    <3>1. S \in Nat /\ p.left \in Int /\ p.left >= 1 /\ p.left <= S
      BY <1>2, <2>1
    <3> HIDE DEF S
    <3>2. i = 8 + S - p.left
      BY <2>1
    <3> QED
      BY <3>1, <3>2
  <2> HIDE DEF n
  <2>3. t = Token("byte", n + 1, e)
    BY <1>3, <1>4, <2>1, <2>2
  <2>4. CASE p.left > 1
    <3>1. /\ q.at = "body" /\ q.taken = p.taken + 1 /\ q.raw = Append(p.raw, t)
          /\ q.left = p.left - 1 /\ q.headers = m.framing /\ q.framing = m.framing
          /\ q.length = S
      BY <1>2, <1>3, <1>6, <2>1, <2>4, StepBody DEF q, SameHead
    <3>2. RawIs(q, e, n + 1)
      BY <1>2, <1>3, <2>1, <2>2, <2>3, <3>1, RawGrows
    <3>3. q.left \in 1..S /\ i + 1 = 8 + S - q.left /\ RawIs(q, e, S - q.left)
      <4>1. /\ S \in Nat /\ p.left \in 1..S /\ p.left > 1 /\ q.left = p.left - 1
            /\ i = 8 + S - p.left /\ n + 1 = S - (p.left - 1)
        BY <1>2, <2>1, <2>2, <2>4, <3>1
      <4>2. q.left \in 1..S /\ i + 1 = 8 + S - q.left /\ n + 1 = S - q.left
        <5> HIDE DEF S, q
        <5> QED BY <4>1
      <4> QED
        BY <3>2, <4>2
    <3>4. InBody(q, m, e, i + 1)
      BY <2>1, <3>1, <3>3 DEF InBody, S
    <3> QED
      BY <3>1, <3>4 DEF Onward, Follows, BodyStates
  <2>5. CASE p.left = 1
    <3>1. /\ q.at = "done" /\ q.taken = p.taken /\ q.halted = TRUE /\ q.raw = Append(p.raw, t)
          /\ q.headers = m.framing /\ q.framing = m.framing /\ q.length = S
      BY <1>2, <1>3, <1>6, <2>1, <2>5, StepLast DEF q, SameHead
    <3>2. RawIs(q, e, n + 1)
      BY <1>2, <1>3, <2>1, <2>2, <2>3, <3>1, RawGrows
    <3>3. n + 1 = S /\ i = 7 + S /\ S > 0
      BY <1>2, <2>1, <2>2, <2>5
    <3>4. InBody(q, m, e, i)
      BY <2>1, <3>1, <3>2, <3>3 DEF InBody, S
    <3> QED
      BY <1>6, <3>1, <3>4 DEF Onward, Follows, BodyStates
  <2> QED
    BY <1>2, <2>1, <2>4, <2>5
<1>7. CASE p.at = "done"
  <2>1. m.framing = "length" /\ i = 7 + S /\ RawIs(p, e, S) /\ p.length = S
    BY <1>1, <1>7 DEF InBody, S
  <2>2. /\ q.at = "start" /\ q.taken = p.taken + 1 /\ q.raw = p.raw /\ q.headers = m.framing
        /\ q.length = S
    BY <1>2, <1>3, <1>7, <2>1, StepDone DEF q, SameBody, SameHead, SameSize
  <2>3. RawIs(q, e, S)
    BY <2>1, <2>2, RawStays
  <2>4. i + 1 = End(m, e)
    BY <1>2, <1>4, <2>1
  <2>5. AtEnd(q, m, e, i + 1)
    BY <2>1, <2>2, <2>3, <2>4 DEF AtEnd, S
  <2> QED
    BY <2>2, <2>5 DEF Onward, Follows
<1>8. CASE p.at = "rest"
  <2> DEFINE n == i - 8
  <2>1. m.framing = "eof" /\ i >= 8 /\ RawIs(p, e, n)
    BY <1>1, <1>8 DEF InBody
  <2>2. n \in Nat /\ n + 1 \in 1..S /\ i + 1 = 8 + (n + 1) /\ i >= 0 /\ n + 1 = (i + 1) - 8
    BY <1>2, <1>4, <2>1
  <2> HIDE DEF n
  <2>3. t = Token("byte", n + 1, e)
    BY <1>3, <1>4, <2>1, <2>2
  <2>4. /\ q.at = "rest" /\ q.taken = p.taken + 1 /\ q.raw = Append(p.raw, t)
        /\ q.headers = m.framing /\ q.framing = m.framing
    BY <1>2, <1>3, <1>8, StepRest DEF q, SameHead
  <2>5. RawIs(q, e, n + 1)
    BY <1>2, <1>3, <2>1, <2>2, <2>3, <2>4, RawGrows
  <2>6. i + 1 >= 8 /\ RawIs(q, e, (i + 1) - 8)
    BY <2>1, <2>2, <2>5
  <2>7. InBody(q, m, e, i + 1)
    BY <2>1, <2>4, <2>6 DEF InBody
  <2> QED
    BY <2>4, <2>7 DEF Onward, Follows, BodyStates
<1> QED
  BY <1>6, <1>7, <1>8 DEF BodyStates

\* What chunk c of the answer is, at its place in the stream.
LEMMA ChunkAt ==
  ASSUME NEW m \in Messages, NEW e \in Nat, m.framing = "chunked",
         NEW c \in 1..(Len(m.parts) + 1)
  PROVE  LET r == Render(m, e)
             o == Offset(m, c)
             a == Announced(m, c)
         IN /\ o \in Nat /\ o >= 8 /\ o + 5 <= End(m, e) /\ a \in Nat
            /\ SizeUpTo(m, c - 1) \in Nat
            /\ r[o + 1] = Token("size", a, 0) /\ r[o + 2] = Sign("CR") /\ r[o + 3] = Sign("LF")
            /\ IF c <= Len(m.parts)
               THEN /\ c + 1 \in 1..(Len(m.parts) + 1) /\ a = m.parts[c] /\ a > 0
                    /\ SizeUpTo(m, c) = SizeUpTo(m, c - 1) + a
                    /\ Offset(m, c + 1) = o + a + 5
                    /\ \A k \in 1..a : r[o + 3 + k] = Token("byte", SizeUpTo(m, c - 1) + k, e)
                    /\ r[o + a + 4] = Sign("CR") /\ r[o + a + 5] = Sign("LF")
               ELSE /\ c = Len(m.parts) + 1 /\ a = 0 /\ End(m, e) = o + 5
                    /\ SizeUpTo(m, c - 1) = Size(m)
                    /\ r[o + 4] = Sign("CR") /\ r[o + 5] = Sign("LF")
<1> DEFINE N == Len(m.parts)
           r == Render(m, e)
<1>1. N \in Nat /\ \A d \in 1..N : m.parts[d] \in Nat /\ m.parts[d] > 0
  BY PartsType
<1>2. /\ \A d \in 1..N : SizeUpTo(m, d) = SizeUpTo(m, d - 1) + m.parts[d]
      /\ \A d \in 0..N : SizeUpTo(m, d) \in Nat
  BY SizeSteps, SizeBounds
<1>3. /\ End(m, e) = Offset(m, N + 1) + 5
      /\ \A d \in 1..(N + 1) :
           /\ Offset(m, d) \in Nat /\ Offset(m, d) >= 8 /\ Offset(m, d) + 5 <= End(m, e)
           /\ r[Offset(m, d) + 1] = Token("size", Announced(m, d), 0)
           /\ r[Offset(m, d) + 2] = Sign("CR") /\ r[Offset(m, d) + 3] = Sign("LF")
      /\ \A d \in 1..N :
           /\ Offset(m, d + 1) = Offset(m, d) + m.parts[d] + 5
           /\ \A k \in 1..m.parts[d] :
                r[Offset(m, d) + 3 + k] = Token("byte", SizeUpTo(m, d - 1) + k, e)
           /\ r[Offset(m, d) + m.parts[d] + 4] = Sign("CR")
           /\ r[Offset(m, d) + m.parts[d] + 5] = Sign("LF")
      /\ r[Offset(m, N + 1) + 4] = Sign("CR") /\ r[Offset(m, N + 1) + 5] = Sign("LF")
  BY ChunkedIs
<1>4. SizeUpTo(m, N) = Size(m)
  BY DEF Size
<1> HIDE DEF r
<1>5. CASE c <= N
  <2>1. c \in 1..N /\ c \in 1..(N + 1) /\ c - 1 \in 0..N /\ c + 1 \in 1..(N + 1)
    BY <1>1, <1>5
  <2>2. Announced(m, c) = m.parts[c]
    BY <1>5 DEF Announced
  <2> HIDE DEF N
  <2>a. SizeUpTo(m, c - 1) \in Nat
    BY <1>2, <2>1
  <2>3. /\ Offset(m, c) \in Nat /\ Offset(m, c) >= 8 /\ Offset(m, c) + 5 <= End(m, e)
        /\ r[Offset(m, c) + 1] = Token("size", Announced(m, c), 0)
        /\ r[Offset(m, c) + 2] = Sign("CR") /\ r[Offset(m, c) + 3] = Sign("LF")
    BY <1>3, <2>1
  <2>4. /\ m.parts[c] \in Nat /\ m.parts[c] > 0
        /\ SizeUpTo(m, c) = SizeUpTo(m, c - 1) + m.parts[c]
        /\ Offset(m, c + 1) = Offset(m, c) + m.parts[c] + 5
        /\ \A k \in 1..m.parts[c] :
             r[Offset(m, c) + 3 + k] = Token("byte", SizeUpTo(m, c - 1) + k, e)
        /\ r[Offset(m, c) + m.parts[c] + 4] = Sign("CR")
        /\ r[Offset(m, c) + m.parts[c] + 5] = Sign("LF")
    BY <1>1, <1>2, <1>3, <2>1
  <2> QED
    BY <1>5, <2>1, <2>2, <2>3, <2>4, <2>a DEF N, r
<1>6. CASE ~(c <= N)
  <2>1. c = N + 1 /\ c \in 1..(N + 1) /\ c - 1 = N /\ N \in 0..N
    BY <1>1, <1>6
  <2>2. Announced(m, c) = 0
    BY <1>6 DEF Announced
  <2> HIDE DEF N
  <2>3. /\ Offset(m, c) \in Nat /\ Offset(m, c) >= 8 /\ Offset(m, c) + 5 <= End(m, e)
        /\ SizeUpTo(m, c - 1) \in Nat /\ SizeUpTo(m, c - 1) = Size(m)
        /\ End(m, e) = Offset(m, c) + 5
        /\ r[Offset(m, c) + 1] = Token("size", Announced(m, c), 0)
        /\ r[Offset(m, c) + 2] = Sign("CR") /\ r[Offset(m, c) + 3] = Sign("LF")
        /\ r[Offset(m, c) + 4] = Sign("CR") /\ r[Offset(m, c) + 5] = Sign("LF")
    BY <1>2, <1>3, <1>4, <2>1
  <2> QED
    BY <1>6, <2>1, <2>2, <2>3 DEF N, r
<1> QED
  BY <1>5, <1>6

\* In a chunk.
LEMMA FollowsChunk ==
  ASSUME NEW m \in Messages, NEW e \in Nat, NEW L \in Leftovers, NEW i \in Int,
         0 - Len(L) <= i, i < End(m, e),
         NEW p \in Parsers, ~p.halted, p.at \in ChunkStates, Follows(p, m, e, i)
  PROVE  LET q == Step(p, TokenAt(m, e, L, i + 1))
         IN q.taken = p.taken + 1 /\ Follows(q, m, e, i + 1)
<1> DEFINE t == TokenAt(m, e, L, i + 1)
           q == Step(p, t)
           r == Render(m, e)
           N == Len(m.parts)
<1>1. PICK c \in 1..(N + 1) : InChunk(p, m, e, i, c)
  BY DEF Follows, BodyStates, ChunkStates, HeadStates, AtEnd
<1> DEFINE o == Offset(m, c)
           a == Announced(m, c)
           b == SizeUpTo(m, c - 1)
           u == SizeUpTo(m, c)
<1>2. /\ p.headers = "chunked" /\ p.framing = "chunked" /\ m.framing = "chunked"
      /\ p \in ParserType /\ p.left \in Int
      /\ p.at \in {"trailer", "trailer_lf"} \/ p.length > 0
      /\ m \in Messages /\ m.framing # "eof"
  BY <1>1 DEF InChunk, Parsers, ParserType
<1>3. t \in TokenType /\ (i >= 0 => t = r[i + 1])
  BY TokenAtIs
<1>4. /\ o \in Nat /\ o >= 8 /\ o + 5 <= End(m, e) /\ a \in Nat /\ b \in Nat
      /\ r[o + 1] = Token("size", a, 0) /\ r[o + 2] = Sign("CR") /\ r[o + 3] = Sign("LF")
      /\ c <= N => /\ c + 1 \in 1..(N + 1) /\ a = m.parts[c] /\ a > 0
                   /\ u = b + a
                   /\ Offset(m, c + 1) = o + a + 5
                   /\ \A k \in 1..a : r[o + 3 + k] = Token("byte", b + k, e)
                   /\ r[o + a + 4] = Sign("CR") /\ r[o + a + 5] = Sign("LF")
      /\ ~(c <= N) => /\ c = N + 1 /\ a = 0 /\ End(m, e) = o + 5 /\ b = Size(m)
                      /\ r[o + 4] = Sign("CR") /\ r[o + 5] = Sign("LF")
  BY <1>2, ChunkAt
<1>5. (c + 1) - 1 = c
  BY PartsType
<1>6. /\ p.at = "size" => i = o
      /\ p.at = "size_cr" => i = o + 1 /\ p.left = a
      /\ p.at = "size_lf" => i = o + 2 /\ p.left = a
      /\ p.at = "chunk" => /\ c <= N /\ p.left \in 1..a /\ p.length = a
                           /\ i = o + 3 + a - p.left /\ RawIs(p, e, u - p.left)
      /\ p.at = "chunk_cr" => c <= N /\ i = o + 3 + a /\ RawIs(p, e, u)
      /\ p.at = "chunk_lf" => c <= N /\ i = o + 4 + a /\ RawIs(p, e, u)
      /\ p.at \in {"size", "size_cr", "size_lf", "trailer", "trailer_lf"} => RawIs(p, e, b)
      /\ p.at = "trailer" => c = N + 1 /\ i = o + 3 /\ p.length = 0
      /\ p.at = "trailer_lf" => c = N + 1 /\ i = o + 4 /\ p.length = 0
  BY <1>1, <1>4 DEF InChunk
<1>a. N \in Nat /\ (c = N + 1 => ~(c <= N))
  BY PartsType
<1> HIDE DEF t, q, r, o, a, b, u, N
<1>7. SUFFICES q.taken = p.taken + 1 /\ Follows(q, m, e, i + 1)
  BY DEF q, t
<1>8. ASSUME Shifts(p, t)
      PROVE  /\ q.at = Shift[p.at][t.kind] /\ q.taken = p.taken + 1
             /\ q.raw = p.raw /\ q.headers = "chunked" /\ q.framing = "chunked"
             /\ q.left = p.left /\ q.length = p.length
  BY <1>2, <1>3, <1>8, StepShift DEF q, SameBody, SameHead, SameSize
<1>9. ASSUME NEW d \in 1..(N + 1), q.at \in ChunkStates, InChunk(q, m, e, i + 1, d)
      PROVE  Follows(q, m, e, i + 1)
  BY <1>9 DEF Follows, N
<1>10. CASE p.at = "size"
  <2>1. i = o /\ RawIs(p, e, b) /\ p.length > 0
    BY <1>2, <1>6, <1>10
  <2>2. t = Token("size", a, 0) /\ t.kind = "size" /\ t.n = a
    BY <1>3, <1>4, <2>1, SignIs
  <2>3. /\ q.at = "size_cr" /\ q.taken = p.taken + 1 /\ q.left = a /\ q.length = p.length
        /\ q.raw = p.raw /\ q.headers = "chunked" /\ q.framing = "chunked"
    BY <1>2, <1>3, <1>10, <2>2, StepSize DEF q, SameBody, SameHead
  <2>4. RawIs(q, e, b)
    BY <2>1, <2>3, RawStays
  <2>5. InChunk(q, m, e, i + 1, c)
    BY <1>2, <2>1, <2>3, <2>4 DEF InChunk, o, a, b
  <2> QED
    BY <1>9, <2>3, <2>5 DEF ChunkStates
<1>11. CASE p.at = "size_cr"
  <2>1. i = o + 1 /\ p.left = a /\ RawIs(p, e, b) /\ p.length > 0
    BY <1>2, <1>6, <1>11
  <2>2. i >= 0 /\ i + 1 = o + 2
    BY <1>4, <2>1
  <2>3. t = Sign("CR") /\ t.kind = "CR"
    BY <1>3, <1>4, <2>2, SignIs
  <2>4. /\ q.at = "size_lf" /\ q.taken = p.taken + 1 /\ q.left = a /\ q.length = p.length
        /\ q.raw = p.raw /\ q.headers = "chunked" /\ q.framing = "chunked"
    BY <1>8, <1>11, <2>1, <2>3, ShiftIs DEF Shifts
  <2>5. RawIs(q, e, b)
    BY <2>1, <2>4, RawStays
  <2>6. InChunk(q, m, e, i + 1, c)
    BY <1>2, <2>1, <2>2, <2>4, <2>5 DEF InChunk, o, a, b
  <2> QED
    BY <1>9, <2>4, <2>6 DEF ChunkStates
<1>12. CASE p.at = "size_lf"
  <2>1. i = o + 2 /\ p.left = a /\ RawIs(p, e, b)
    BY <1>2, <1>6, <1>12
  <2>2. i >= 0 /\ i + 1 = o + 3 /\ p.left \in Nat
    BY <1>4, <2>1
  <2>3. t = Sign("LF") /\ t.kind = "LF"
    BY <1>3, <1>4, <2>2, SignIs
  <2>4. /\ q.at = (IF p.left = 0 THEN "trailer" ELSE "chunk") /\ q.taken = p.taken + 1
        /\ q.left = a /\ q.length = a
        /\ q.raw = p.raw /\ q.headers = "chunked" /\ q.framing = "chunked"
    BY <1>2, <1>3, <1>12, <2>1, <2>2, <2>3, StepSizeLine DEF q, SameBody, SameHead
  <2>5. RawIs(q, e, b)
    BY <2>1, <2>4, RawStays
  <2>6. CASE c <= N
    <3>1. a = m.parts[c] /\ a > 0 /\ u = b + a
      BY <1>4, <2>6
    <3>2. q.at = "chunk"
      BY <2>1, <2>4, <3>1
    <3>3. q.left \in 1..a /\ i + 1 = o + 3 + a - q.left /\ u - q.left = b
      <4>1. a \in Nat /\ a > 0 /\ b \in Nat /\ o \in Nat
        BY <1>4, <3>1
      <4>2. a \in 1..a /\ o + 3 = o + 3 + a - a /\ (b + a) - a = b
        BY <4>1
      <4> QED
        BY <2>2, <2>4, <3>1, <4>2
    <3>4. InChunk(q, m, e, i + 1, c)
      BY <1>2, <2>4, <2>5, <2>6, <3>1, <3>2, <3>3 DEF InChunk, o, u, N
    <3> QED
      BY <1>9, <2>4, <3>2, <3>4 DEF ChunkStates
  <2>7. CASE ~(c <= N)
    <3>1. a = 0 /\ c = N + 1
      BY <1>4, <2>7
    <3>2. q.at = "trailer"
      BY <2>1, <2>4, <3>1
    <3>3. InChunk(q, m, e, i + 1, c)
      BY <1>2, <2>2, <2>4, <2>5, <3>1, <3>2 DEF InChunk, o, b, N
    <3> QED
      BY <1>9, <2>4, <3>2, <3>3 DEF ChunkStates
  <2> QED
    BY <2>6, <2>7
<1>13. CASE p.at = "chunk"
  <2> DEFINE n == u - p.left
             k == a - p.left + 1
  <2>1. c <= N /\ p.length = a /\ RawIs(p, e, n)
    BY <1>6, <1>13
  <2>2. p.left \in 1..a /\ i = o + 3 + a - p.left
    BY <1>6, <1>13
  <2>3. a \in Nat /\ b \in Nat /\ o \in Nat /\ o >= 8 /\ a > 0 /\ u = b + a
    BY <1>4, <2>1
  <2>4. a = m.parts[c] /\ \A x \in 1..a : r[o + 3 + x] = Token("byte", b + x, e)
    BY <1>4, <2>1
  <2>5. /\ n \in Nat /\ n + 1 = b + k /\ k \in 1..a /\ i + 1 = o + 3 + k /\ i >= 0
        /\ n + 1 = u - (p.left - 1) /\ p.left \in Int
    <3>1. p.left \in Int /\ p.left >= 1 /\ p.left <= a
      BY <2>2, <2>3
    <3>2. n \in Nat /\ n + 1 = b + k /\ n + 1 = u - (p.left - 1)
      BY <2>3, <3>1
    <3>3. k \in 1..a
      BY <2>3, <3>1
    <3>4. i + 1 = o + 3 + k /\ i >= 0
      BY <2>2, <2>3, <3>1
    <3> QED
      BY <3>1, <3>2, <3>3, <3>4
  <2>6. (p.left = 1 => n + 1 = u) /\ (p.left # 1 => p.left - 1 \in 1..a)
    BY <2>2, <2>3
  <2>7. i + 1 = o + 3 + a - (p.left - 1)
    BY <2>2, <2>3
  <2> HIDE DEF n, k
  <2>8. t = Token("byte", n + 1, e)
    BY <1>3, <2>4, <2>5
  <2>9. /\ q.at = (IF p.left = 1 THEN "chunk_cr" ELSE "chunk") /\ q.taken = p.taken + 1
        /\ q.raw = Append(p.raw, t) /\ q.left = p.left - 1 /\ q.length = a
        /\ q.headers = "chunked" /\ q.framing = "chunked"
    BY <1>2, <1>3, <1>13, <2>1, StepChunk DEF q, SameHead
  <2>10. RawIs(q, e, n + 1)
    BY <1>2, <1>3, <2>1, <2>5, <2>8, <2>9, RawGrows
  <2>11. CASE p.left = 1
    <3>1. RawIs(q, e, u) /\ q.at = "chunk_cr"
      BY <2>6, <2>9, <2>10, <2>11
    <3>2. i + 1 = o + 3 + a
      BY <2>2, <2>3, <2>11
    <3>3. InChunk(q, m, e, i + 1, c)
      BY <1>2, <2>1, <2>3, <2>4, <2>9, <3>1, <3>2 DEF InChunk, o, u, N
    <3> QED
      BY <1>9, <2>9, <3>1, <3>3 DEF ChunkStates
  <2>12. CASE p.left # 1
    <3>1. RawIs(q, e, u - q.left) /\ q.at = "chunk"
      BY <2>5, <2>9, <2>10, <2>12
    <3>2. q.left \in 1..a /\ i + 1 = o + 3 + a - q.left
      BY <2>6, <2>7, <2>9, <2>12
    <3>3. InChunk(q, m, e, i + 1, c)
      BY <1>2, <2>1, <2>3, <2>4, <2>9, <3>1, <3>2 DEF InChunk, o, u, N
    <3> QED
      BY <1>9, <2>9, <3>1, <3>3 DEF ChunkStates
  <2> QED
    BY <2>11, <2>12
<1>14. CASE p.at = "chunk_cr"
  <2>1. c <= N /\ i = o + 3 + a /\ RawIs(p, e, u) /\ p.length > 0
    BY <1>2, <1>6, <1>14
  <2>2. a = m.parts[c] /\ r[o + a + 4] = Sign("CR") /\ i + 1 = o + a + 4 /\ i >= 0
        /\ i + 1 = o + 4 + a
    BY <1>4, <2>1
  <2>3. t = Sign("CR") /\ t.kind = "CR"
    BY <1>3, <2>2, SignIs
  <2>4. /\ q.at = "chunk_lf" /\ q.taken = p.taken + 1 /\ q.length = p.length
        /\ q.raw = p.raw /\ q.headers = "chunked" /\ q.framing = "chunked"
    BY <1>2, <1>3, <1>14, <2>3, StepChunkEnd DEF q, SameBody, SameHead, SameSize
  <2>5. RawIs(q, e, u)
    BY <2>1, <2>4, RawStays
  <2>6. InChunk(q, m, e, i + 1, c)
    BY <1>2, <2>1, <2>2, <2>4, <2>5 DEF InChunk, o, u, N
  <2> QED
    BY <1>9, <2>4, <2>6 DEF ChunkStates
<1>15. CASE p.at = "chunk_lf"
  <2>1. c <= N /\ i = o + 4 + a /\ RawIs(p, e, u) /\ p.length > 0
    BY <1>2, <1>6, <1>15
  <2>2. /\ a = m.parts[c] /\ r[o + a + 5] = Sign("LF") /\ i + 1 = o + a + 5 /\ i >= 0
        /\ i + 1 = Offset(m, c + 1) /\ c + 1 \in 1..(N + 1)
    BY <1>4, <2>1
  <2>3. t = Sign("LF") /\ t.kind = "LF"
    BY <1>3, <2>2, SignIs
  <2>4. /\ q.at = "size" /\ q.taken = p.taken + 1 /\ q.length = p.length
        /\ q.raw = p.raw /\ q.headers = "chunked" /\ q.framing = "chunked"
    BY <1>8, <1>15, <2>3, ShiftIs DEF Shifts
  <2>5. RawIs(q, e, SizeUpTo(m, (c + 1) - 1))
    <3>1. RawIs(q, e, u)
      BY <2>1, <2>4, RawStays
    <3> QED
      BY <1>5, <3>1 DEF u
  <2>6. InChunk(q, m, e, i + 1, c + 1)
    BY <1>2, <2>1, <2>2, <2>4, <2>5 DEF InChunk
  <2> QED
    BY <1>9, <2>2, <2>4, <2>6 DEF ChunkStates
<1>16. CASE p.at = "trailer"
  <2>1. c = N + 1 /\ i = o + 3 /\ RawIs(p, e, b) /\ p.length = 0
    BY <1>6, <1>16
  <2>2. i >= 0 /\ i + 1 = o + 4 /\ r[o + 4] = Sign("CR")
    BY <1>4, <1>a, <2>1
  <2>3. t = Sign("CR") /\ t.kind = "CR"
    BY <1>3, <2>2, SignIs
  <2>4. /\ q.at = "trailer_lf" /\ q.taken = p.taken + 1 /\ q.length = 0
        /\ q.raw = p.raw /\ q.headers = "chunked" /\ q.framing = "chunked"
    BY <1>8, <1>16, <2>1, <2>3, ShiftIs DEF Shifts
  <2>5. RawIs(q, e, b)
    BY <2>1, <2>4, RawStays
  <2>6. InChunk(q, m, e, i + 1, c)
    BY <1>2, <2>1, <2>2, <2>4, <2>5 DEF InChunk, o, b, N
  <2> QED
    BY <1>9, <2>4, <2>6 DEF ChunkStates
<1>17. CASE p.at = "trailer_lf"
  <2>1. c = N + 1 /\ i = o + 4 /\ RawIs(p, e, b)
    BY <1>6, <1>17
  <2>2. i >= 0 /\ i + 1 = o + 5 /\ r[o + 5] = Sign("LF") /\ i + 1 = End(m, e) /\ b = Size(m)
    BY <1>4, <1>a, <2>1
  <2>3. t = Sign("LF") /\ t.kind = "LF"
    BY <1>3, <2>2, SignIs
  <2>4. /\ q.at = "start" /\ q.taken = p.taken + 1 /\ q.raw = p.raw /\ q.headers = "chunked"
    BY <1>8, <1>17, <2>3, ShiftIs DEF Shifts
  <2>5. RawIs(q, e, Size(m))
    BY <2>1, <2>2, <2>4, RawStays
  <2>6. AtEnd(q, m, e, i + 1)
    BY <1>2, <2>2, <2>4, <2>5 DEF AtEnd
  <2> QED
    BY <2>4, <2>6 DEF Follows
<1> QED
  BY <1>10, <1>11, <1>12, <1>13, <1>14, <1>15, <1>16, <1>17 DEF ChunkStates

\* Each step takes the parser one token on, or pauses it in front of that token.
LEMMA FollowsStep ==
  ASSUME NEW m \in Messages, NEW e \in Nat, NEW L \in Leftovers, NEW i \in Int,
         0 - Len(L) <= i, i < End(m, e),
         NEW p \in Parsers, ~p.halted, Follows(p, m, e, i)
  PROVE  LET q == Step(p, TokenAt(m, e, L, i + 1))
         IN Onward(p, q, m, e, i) \/ (Failed(q) /\ p.at = "start")
<1>1. CASE p.at = "start"
  BY <1>1, FollowsStart
<1>2. CASE p.at \in HeadStates \ {"start", "headers"}
  BY <1>2, FollowsHead
<1>3. CASE p.at = "headers"
  BY <1>3, FollowsHeaders DEF Onward
<1>4. CASE p.at \in BodyStates
  BY <1>4, FollowsBody
<1>5. CASE p.at \in ChunkStates
  BY <1>5, FollowsChunk DEF Onward
<1> QED
  BY <1>1, <1>2, <1>3, <1>4, <1>5 DEF Follows, AtEnd

\* In front of the answer, a parser that has not failed has seen line ends only.
LEMMA FailsInFront ==
  ASSUME NEW m \in Messages, NEW e \in Nat, NEW L \in Leftovers, NEW i \in Int,
         0 <= i, i < End(m, e),
         NEW p \in Parsers, ~p.halted, Follows(p, m, e, i)
  PROVE  ~Failed(Step(p, TokenAt(m, e, L, i + 1)))
<1> DEFINE t == TokenAt(m, e, L, i + 1)
           q == Step(p, t)
<1>1. 0 - Len(L) <= i
  BY LeftoverIs
<1>2. CASE p.at # "start"
  <2>1. Onward(p, q, m, e, i)
    BY <1>1, <1>2, FollowsStep
  <2>2. ~Follows(q, m, e, i) \/ q.at # "error"
    BY DEF Follows, HeadStates, BodyStates, ChunkStates, AtEnd
  <2>3. ~Follows(q, m, e, i + 1) \/ q.at # "error"
    BY DEF Follows, HeadStates, BodyStates, ChunkStates, AtEnd
  <2> QED
    BY <2>1, <2>2, <2>3 DEF Onward, Failed
<1>3. CASE p.at = "start"
  <2>1. InHead(p, m, i)
    <3>1. ~AtEnd(p, m, e, i)
      BY HeadIs DEF AtEnd
    <3> QED
      BY <1>3, <3>1 DEF Follows, BodyStates, ChunkStates
  <2>2. i = 0
    BY <1>3, <2>1 DEF InHead
  <2>3. t \in TokenType /\ t = Sign(IF m.reason THEN "status" ELSE "bare")
    BY <1>1, <2>2, TokenAtIs, HeadIs
  <2>4. Shifts(p, t)
    BY <1>3, <2>3, SignIs, ShiftIs DEF Shifts
  <2>5. q.at = Shift["start"][t.kind]
    BY <1>3, <2>3, <2>4, StepShift
  <2>6. q.at # "error"
    BY <2>3, <2>5, SignIs, ShiftIs
  <2> QED
    BY <2>6 DEF Failed
<1> QED
  BY <1>2, <1>3

\* The states in which a callback pauses the parser.
LEMMA StepHalts ==
  ASSUME NEW p \in Parsers, NEW t \in TokenType, ~p.halted, Step(p, t).halted
  PROVE  Step(p, t).at \in {"line", "headers", "done", "trailer", "chunk", "chunk_lf", "error"}
<1> DEFINE q == Step(p, t)
<1>1. p \in ParserType /\ p.left \in Int /\ t.n \in Nat /\ (p.at # "rest" => p.left \in Nat)
  BY DEF Parsers, ParserType, TokenType
<1>2. q.halted
  OBVIOUS
<1> HIDE DEF q
<1>3. SUFFICES q.at \in {"line", "headers", "done", "trailer", "chunk", "chunk_lf", "error"}
  BY DEF q
<1>4. CASE p.at = "status" /\ t.kind = "CR"
  BY <1>1, <1>4, StepStatus DEF q
<1>5. CASE p.at = "fields" /\ t.kind \in Framing
  BY <1>1, <1>2, <1>5, StepField DEF q
<1>6. CASE p.at = "blank" /\ t.kind = "LF"
  BY <1>1, <1>6, StepBlank DEF q
<1>7. CASE p.at = "headers" /\ t.kind = "LF"
  BY <1>1, <1>2, <1>7, StepHeaders DEF q
<1>8. CASE p.at = "body" /\ p.left >= 1
  <2>1. CASE p.left = 1
    BY <1>1, <1>8, <2>1, StepLast DEF q
  <2>2. CASE p.left > 1
    BY <1>1, <1>2, <1>8, <2>2, StepBody DEF q
  <2> QED
    BY <1>1, <1>8, <2>1, <2>2
<1>9. CASE p.at = "done"
  BY <1>1, <1>2, <1>9, StepDone DEF q
<1>10. CASE p.at = "rest"
  BY <1>1, <1>2, <1>10, StepRest DEF q
<1>11. CASE p.at = "chunk"
  BY <1>1, <1>2, <1>11, StepChunk DEF q
<1>12. CASE p.at = "size" /\ t.kind = "size"
  BY <1>1, <1>2, <1>12, StepSize DEF q
<1>13. CASE p.at = "size_lf" /\ t.kind = "LF"
  <2>1. q.at = (IF p.left = 0 THEN "trailer" ELSE "chunk")
    BY <1>1, <1>13, StepSizeLine DEF q
  <2> QED
    BY <2>1
<1>14. CASE p.at = "chunk_cr" /\ t.kind = "CR"
  BY <1>1, <1>14, StepChunkEnd DEF q
<1>15. CASE Shifts(p, t)
  BY <1>2, <1>15, StepShift DEF q
<1>16. CASE ~Handled(p, t)
  BY <1>1, <1>16, StepError DEF q
<1> QED
  BY <1>4, <1>5, <1>6, <1>7, <1>8, <1>9, <1>10, <1>11, <1>12, <1>13, <1>14, <1>15, <1>16 DEF Handled

\* The state of the parser tells where it is.
LEMMA PositionIs ==
  ASSUME NEW m \in Messages, NEW e \in Nat, NEW i \in Int, NEW p \in Parsers, Follows(p, m, e, i)
  PROVE  /\ p.at = "start" => (i <= 0 /\ InHead(p, m, i)) \/ AtEnd(p, m, e, i)
         /\ p.at \in HeadStates \ {"start"} => InHead(p, m, i) /\ 1 <= i /\ i <= 7
         /\ p.at \in BodyStates \cup ChunkStates => 8 <= i /\ p.framing = m.framing
         /\ p.at # "error" /\ p.at \in HeadStates \cup BodyStates \cup ChunkStates
<1>1. ASSUME p.at = "start" PROVE (i <= 0 /\ InHead(p, m, i)) \/ AtEnd(p, m, e, i)
  BY <1>1 DEF Follows, InHead, BodyStates, ChunkStates
<1>2. ASSUME p.at \in HeadStates \ {"start"} PROVE InHead(p, m, i) /\ 1 <= i /\ i <= 7
  <2>1. InHead(p, m, i)
    BY <1>2 DEF Follows, AtEnd, HeadStates, BodyStates, ChunkStates
  <2>2. i \in {1, 2, 3, 4, 5, 6, 7}
    BY <1>2, <2>1 DEF InHead, HeadStates
  <2> QED
    BY <2>1, <2>2
<1>3. ASSUME p.at \in BodyStates PROVE 8 <= i /\ p.framing = m.framing
  <2>1. InBody(p, m, e, i)
    BY <1>3 DEF Follows, AtEnd, HeadStates, BodyStates, ChunkStates
  <2>2. Size(m) \in Nat
    BY SizeBounds
  <2>3. CASE p.at = "body"
    <3>1. p.left \in 1..Size(m) /\ i = 8 + Size(m) - p.left
      BY <2>1, <2>3 DEF InBody
    <3> QED
      BY <2>1, <2>2, <3>1 DEF InBody
  <2>4. CASE p.at = "done"
    <3>1. Size(m) > 0 /\ i = 7 + Size(m)
      BY <2>1, <2>4 DEF InBody
    <3> QED
      BY <2>1, <2>2, <3>1 DEF InBody
  <2>5. CASE p.at = "rest"
    BY <2>1, <2>5 DEF InBody
  <2> QED
    BY <1>3, <2>3, <2>4, <2>5 DEF BodyStates
<1>4. ASSUME p.at \in ChunkStates PROVE 8 <= i /\ p.framing = m.framing
  <2> DEFINE N == Len(m.parts)
  <2>1. PICK c \in 1..(N + 1) : InChunk(p, m, e, i, c)
    BY <1>4 DEF Follows, AtEnd, HeadStates, BodyStates, ChunkStates
  <2> DEFINE o == Offset(m, c)
             a == m.parts[c]
  <2>2. m.framing = "chunked" /\ p.framing = m.framing
    BY <2>1 DEF InChunk
  <2>3. o \in Nat /\ o >= 8 /\ (c <= N => a \in Nat)
    BY <2>2, ChunkAt
  <2>4. /\ p.at = "size" => i = o
        /\ p.at = "size_cr" => i = o + 1
        /\ p.at = "size_lf" => i = o + 2
        /\ p.at = "chunk" => c <= N /\ p.left \in 1..a /\ i = o + 3 + a - p.left
        /\ p.at = "chunk_cr" => c <= N /\ i = o + 3 + a
        /\ p.at = "chunk_lf" => c <= N /\ i = o + 4 + a
        /\ p.at = "trailer" => i = o + 3
        /\ p.at = "trailer_lf" => i = o + 4
    BY <2>1 DEF InChunk
  <2> HIDE DEF o, a, N
  <2>5. CASE p.at \in {"size", "size_cr", "size_lf", "trailer", "trailer_lf"}
    BY <2>2, <2>3, <2>4, <2>5
  <2>6. CASE p.at \in {"chunk_cr", "chunk_lf"}
    BY <2>2, <2>3, <2>4, <2>6
  <2>7. CASE p.at = "chunk"
    <3>1. a \in Nat /\ p.left \in 1..a /\ i = o + 3 + a - p.left
      BY <2>3, <2>4, <2>7
    <3> QED
      BY <2>2, <2>3, <3>1
  <2> QED
    BY <1>4, <2>5, <2>6, <2>7 DEF ChunkStates
<1>5. p.at # "error" /\ p.at \in HeadStates \cup BodyStates \cup ChunkStates
  BY DEF Follows, AtEnd, HeadStates, BodyStates, ChunkStates
<1> QED
  BY <1>1, <1>2, <1>3, <1>4, <1>5

-----------------------------------------------------------------------------
(* A call of execute().                                                    *)

\* The parser p, at position i, is q after k tokens: where q is,
Placed(p, q, m, e, i, k) ==
  /\ q \in Parsers /\ q.taken \in 0..k
  /\ k = 0 => q = p
  /\ ~q.halted => q.taken = k
  /\ Follows(q, m, e, i + q.taken) \/ (Failed(q) /\ i < 0)
  /\ q.halted =>
       q.at \in {"line", "headers", "done", "trailer", "chunk", "chunk_lf", "error"}
  /\ k > 0 /\ p.at \notin {"start", "blank", "body"} => q.taken > 0

\* that it pauses behind the headers,
PausesAtHeaders(p, q, m, e, i) ==
  p.at \in HeadStates \ {"headers"} /\ i < 8 =>
    \/ Failed(q)
    \/ /\ q.at \in HeadStates /\ InHead(q, m, i + q.taken)
       /\ q.at = "headers" => q.halted

\* behind the size of a chunk,
PausesAtSize(p, q, m) ==
  p.at \in {"headers", "chunk_lf"} /\ m.framing = "chunked" =>
    \/ ~q.halted /\ q.at \in {"headers", "chunk_lf", "size", "size_cr", "size_lf"}
    \/ q.halted /\ q.at = "trailer"
    \/ q.halted /\ q.at = "chunk" /\ q.left = q.length

\* and behind the data of a chunk.
PausesAtData(p, q) ==
  p.at = "chunk" =>
    \/ ~q.halted /\ q.at = "chunk"
    \/ ~q.halted /\ q.at = "chunk_cr" /\ q.marked
    \/ q.halted /\ q.at = "chunk_lf"

Ran(p, q, m, e, i, k) ==
  /\ Placed(p, q, m, e, i, k) /\ PausesAtHeaders(p, q, m, e, i)
  /\ PausesAtSize(p, q, m) /\ PausesAtData(p, q)

\* A call of execute() before its first token.
LEMMA RunStarts ==
  ASSUME NEW m \in Messages, NEW e \in Nat, NEW i \in Int,
         NEW p \in Parsers, ~p.halted, p.taken = 0, Follows(p, m, e, i)
  PROVE  Ran(p, p, m, e, i, 0)
<1>1. i + p.taken = i /\ p.taken \in 0..0
  OBVIOUS
<1>2. Placed(p, p, m, e, i, 0)
  BY <1>1 DEF Placed
<1>3. ASSUME p.at \in HeadStates \ {"headers"}, i < 8 PROVE InHead(p, m, i)
  <2>1. ~AtEnd(p, m, e, i)
    BY <1>3, HeadIs DEF AtEnd
  <2> QED
    BY <1>3, <2>1, PositionIs
<1> QED
  BY <1>1, <1>2, <1>3 DEF Ran, PausesAtHeaders, PausesAtSize, PausesAtData

\* One more token.
LEMMA RunSteps ==
  ASSUME NEW m \in Messages, NEW e \in Nat, NEW L \in Leftovers, NEW i \in Int,
         0 - Len(L) <= i,
         NEW p \in Parsers, ~p.halted, p.taken = 0, Follows(p, m, e, i),
         NEW k \in Nat, k > 0, i + k <= End(m, e),
         NEW x \in Parsers, Ran(p, x, m, e, i, k - 1)
  PROVE  Ran(p, Step(x, TokenAt(m, e, L, i + k)), m, e, i, k)
<1> DEFINE t == TokenAt(m, e, L, i + k)
           q == Step(x, t)
           j == i + (k - 1)
<1>1. /\ Placed(p, x, m, e, i, k - 1) /\ PausesAtHeaders(p, x, m, e, i)
      /\ PausesAtSize(p, x, m) /\ PausesAtData(p, x)
  BY DEF Ran
<1>2. CASE x.halted
  <2>1. q = x
    BY <1>2 DEF Step
  <2> HIDE DEF q
  <2>2. k - 1 # 0
    BY <1>1, <1>2 DEF Placed
  <2>3. Placed(p, x, m, e, i, k)
    BY <1>1, <1>2, <2>2 DEF Placed
  <2> QED
    BY <1>1, <2>1, <2>3 DEF Ran, q, t
<1>3. CASE ~x.halted
  <2>1. x.taken = k - 1 /\ Follows(x, m, e, j) /\ (k - 1 = 0 => x = p)
    BY <1>1, <1>3 DEF Placed, Failed
  <2>2. /\ j \in Int /\ i <= j /\ 0 - Len(L) <= j /\ j < End(m, e) /\ j + 1 = i + k
        /\ Len(L) \in Nat /\ End(m, e) \in Nat /\ End(m, e) >= 8 /\ j = i + (k - 1)
    <3>1. Len(L) \in Nat /\ End(m, e) \in Nat /\ End(m, e) >= 8
      BY HeadIs, LeftoverIs
    <3> QED
      BY <3>1
  <2>3. t \in TokenType /\ t = TokenAt(m, e, L, j + 1)
    BY <2>2, TokenAtIs
  <2> HIDE DEF j, t
  <2>4. Onward(x, q, m, e, j) \/ (Failed(q) /\ x.at = "start")
    BY <1>3, <2>1, <2>2, <2>3, FollowsStep
  <2>5. j >= 0 => ~Failed(q)
    BY <1>3, <2>1, <2>2, <2>3, FailsInFront
  <2>6. /\ q \in Parsers
        /\ q.halted => q.at \in {"line", "headers", "done", "trailer", "chunk", "chunk_lf", "error"}
    BY <1>3, <2>3, StepType, StepHalts
  <2>7. x \in ParserType /\ x.left \in Int /\ (x.at # "rest" => x.left \in Nat)
    BY DEF Parsers, ParserType
  <2>8. ASSUME ~Handled(x, t) PROVE q.at = "error"
    BY <1>3, <2>3, <2>7, <2>8, StepError
  <2>9. ASSUME Shifts(x, t) PROVE q.at = Shift[x.at][t.kind] /\ ~q.halted
    BY <1>3, <2>3, <2>9, StepShift
  <2> HIDE DEF q
  <2>10. q.taken \in Nat
    BY <2>6 DEF Parsers, ParserType
  <2>11. Placed(p, q, m, e, i, k)
    <3>1. CASE q.taken = k /\ Follows(q, m, e, i + k)
      BY <2>6, <3>1 DEF Placed
    <3>2. CASE q.taken = k - 1 /\ q.halted /\ Follows(q, m, e, j) /\ x.at \in {"blank", "body"}
      <4>1. Follows(q, m, e, i + q.taken)
        BY <2>2, <3>2
      <4>2. p.at \notin {"start", "blank", "body"} => k - 1 # 0
        BY <2>1, <3>2
      <4> QED
        BY <2>6, <3>2, <4>1, <4>2 DEF Placed
    <3>3. CASE Failed(q) /\ x.at = "start"
      <4>1. i < 0
        BY <2>2, <2>5, <3>3
      <4>2. p.at = "start"
        <5>1. ~(1 <= i) /\ ~(8 <= i)
          BY <4>1
        <5> QED
          BY <5>1, PositionIs
      <4> QED
        BY <2>6, <3>3, <4>1, <4>2 DEF Placed, Failed
    <3>4. Onward(x, q, m, e, j) => \/ q.taken = k /\ Follows(q, m, e, i + k)
                                   \/ /\ q.taken = k - 1 /\ q.halted /\ Follows(q, m, e, j)
                                      /\ x.at \in {"blank", "body"}
      <4>1. (k - 1) + 1 = k
        OBVIOUS
      <4> QED
        BY <2>1, <2>2, <4>1 DEF Onward
    <3> QED
      BY <2>4, <3>1, <3>2, <3>3, <3>4
  <2>12. PausesAtHeaders(p, q, m, e, i)
    <3>1. SUFFICES ASSUME p.at \in HeadStates \ {"headers"}, i < 8, ~Failed(q)
                   PROVE  /\ q.at \in HeadStates /\ InHead(q, m, i + q.taken)
                          /\ q.at = "headers" => q.halted
      BY DEF PausesAtHeaders
    <3>2. x.at \in HeadStates \ {"headers"} /\ InHead(x, m, j)
      BY <1>1, <1>3, <2>1, <2>2, <3>1 DEF PausesAtHeaders, Failed
    <3>3. CASE x.at = "blank"
      <4>1. j = 7
        BY <3>2, <3>3 DEF InHead
      <4>a. t = Sign("LF")
        <5>1. t = Render(m, e)[7 + 1]
          BY <2>2, <2>3, <4>1, TokenAtIs
        <5> QED
          BY <5>1, HeadIs
      <4>2. q.at = "headers" /\ q.taken = x.taken /\ q.halted
        BY <1>3, <2>3, <2>7, <3>3, <4>a, SignIs, StepBlank DEF q
      <4>3. Follows(q, m, e, i + q.taken)
        BY <2>11, <3>1 DEF Placed
      <4>4. i + q.taken \in Int
        BY <2>10
      <4> QED
        BY <2>6, <4>2, <4>3, <4>4, PositionIs DEF HeadStates
    <3>4. CASE x.at # "blank"
      <4>1. j <= 6 /\ (j = 6 => x.at = "fields")
        <5>1. j <= 0 \/ j \in {1, 2, 3, 4, 5} \/ (j = 6 /\ x.at = "fields")
          BY <3>2, <3>4 DEF InHead, HeadStates
        <5> QED
          BY <2>2, <5>1
      <4>2. q.taken = k /\ Follows(q, m, e, i + k) /\ i + k <= 7
        BY <2>1, <2>2, <2>4, <3>1, <3>2, <3>4, <4>1 DEF Onward, HeadStates
      <4>3. q.at \in HeadStates /\ InHead(q, m, i + k)
        <5>1. ~AtEnd(q, m, e, i + k)
          BY <2>2, <4>2 DEF AtEnd
        <5>2. i + k \in Int
          OBVIOUS
        <5> QED
          BY <2>6, <4>2, <5>1, <5>2, PositionIs
      <4>4. q.at # "headers"
        <5>1. SUFFICES ASSUME q.at = "headers" PROVE FALSE
          OBVIOUS
        <5>2. i + k = 7
          BY <4>3, <5>1 DEF InHead
        <5>3. j = 6 /\ x.at = "fields"
          BY <2>2, <4>1, <5>2
        <5>4. t = Sign("CR")
          <6>1. t = Render(m, e)[6 + 1]
            BY <2>2, <2>3, <5>3, TokenAtIs
          <6> QED
            BY <6>1, HeadIs
        <5>5. Shifts(x, t)
          BY <5>3, <5>4, SignIs, ShiftIs DEF Shifts
        <5> QED
          BY <2>9, <5>1, <5>3, <5>4, <5>5, SignIs, ShiftIs
      <4> QED
        BY <4>2, <4>3, <4>4
    <3> QED
      BY <3>3, <3>4
  <2>13. ASSUME x.at \notin {"start", "blank", "body"} PROVE q.at # "error"
    <3>1. Follows(q, m, e, j + 1)
      BY <2>4, <2>13 DEF Onward
    <3> QED
      BY <2>2, <2>6, <3>1, PositionIs
  <2>14. PausesAtSize(p, q, m)
    <3>1. SUFFICES ASSUME p.at \in {"headers", "chunk_lf"}, m.framing = "chunked"
                   PROVE  \/ ~q.halted /\ q.at \in {"headers", "chunk_lf", "size", "size_cr",
                                                     "size_lf"}
                          \/ q.halted /\ q.at = "trailer"
                          \/ q.halted /\ q.at = "chunk" /\ q.left = q.length
      BY DEF PausesAtSize
    <3>2. x.at \in {"headers", "chunk_lf", "size", "size_cr", "size_lf"}
      BY <1>1, <1>3, <3>1 DEF PausesAtSize
    <3>3. Handled(x, t)
      BY <2>8, <2>13, <3>2
    <3>4. CASE x.at = "headers"
      <4>1. t.kind = "LF"
        BY <3>3, <3>4, ShiftIs DEF Handled, Shifts
      <4>2. x.framing = "chunked"
        <5>1. InHead(x, m, j) /\ j = 7
          BY <2>1, <2>2, <3>4, PositionIs DEF HeadStates, InHead
        <5> QED
          BY <3>1, <5>1 DEF InHead
      <4>3. q.at = "size" /\ ~q.halted
        BY <1>3, <2>3, <2>7, <3>4, <4>1, <4>2, StepHeaders DEF q, AfterHeaders
      <4> QED
        BY <4>3
    <3>5. CASE x.at = "chunk_lf"
      <4>1. Shifts(x, t)
        BY <3>3, <3>5 DEF Handled
      <4>2. t.kind = "LF"
        BY <3>5, <4>1, ShiftIs DEF Shifts
      <4> QED
        BY <2>9, <3>5, <4>1, <4>2, ShiftIs
    <3>6. CASE x.at = "size"
      <4>1. t.kind = "size"
        BY <3>3, <3>6, ShiftIs DEF Handled, Shifts
      <4> QED
        BY <1>3, <2>3, <2>7, <3>6, <4>1, StepSize DEF q
    <3>7. CASE x.at = "size_cr"
      <4>1. Shifts(x, t)
        BY <3>3, <3>7 DEF Handled
      <4>2. t.kind = "CR"
        BY <3>7, <4>1, ShiftIs DEF Shifts
      <4> QED
        BY <2>9, <3>7, <4>1, <4>2, ShiftIs
    <3>8. CASE x.at = "size_lf"
      <4>1. t.kind = "LF"
        BY <3>3, <3>8, ShiftIs DEF Handled, Shifts
      <4>2. /\ q.at = (IF x.left = 0 THEN "trailer" ELSE "chunk") /\ q.halted
            /\ q.left = x.left /\ q.length = x.left
        BY <1>3, <2>3, <2>7, <3>8, <4>1, StepSizeLine DEF q
      <4> QED
        BY <4>2
    <3> QED
      BY <3>2, <3>4, <3>5, <3>6, <3>7, <3>8
  <2>15. PausesAtData(p, q)
    <3>1. SUFFICES ASSUME p.at = "chunk"
                   PROVE  \/ ~q.halted /\ q.at = "chunk"
                          \/ ~q.halted /\ q.at = "chunk_cr" /\ q.marked
                          \/ q.halted /\ q.at = "chunk_lf"
      BY DEF PausesAtData
    <3>2. x.at = "chunk" \/ (x.at = "chunk_cr" /\ x.marked)
      BY <1>1, <1>3, <3>1 DEF PausesAtData
    <3>3. CASE x.at = "chunk"
      <4>1. q.at = (IF x.left = 1 THEN "chunk_cr" ELSE "chunk") /\ ~q.halted /\ q.marked
        BY <1>3, <2>3, <2>7, <3>3, StepChunk DEF q
      <4> QED
        BY <4>1
    <3>4. CASE x.at = "chunk_cr" /\ x.marked
      <4>1. Handled(x, t)
        BY <2>8, <2>13, <3>4
      <4>2. t.kind = "CR"
        BY <3>4, <4>1, ShiftIs DEF Handled, Shifts
      <4>3. q.at = "chunk_lf" /\ q.halted = x.marked
        BY <1>3, <2>3, <2>7, <3>4, <4>2, StepChunkEnd DEF q
      <4> QED
        BY <3>4, <4>3
    <3> QED
      BY <3>2, <3>3, <3>4
  <2> QED
    BY <2>11, <2>12, <2>14, <2>15 DEF Ran, q, t
<1> QED
  BY <1>2, <1>3

\* s is the stream behind position i, up to j.
Window(s, m, e, L, i, j) ==
  /\ s \in Tokens /\ Len(s) = j - i
  /\ \A k \in 1..Len(s) : s[k] = TokenAt(m, e, L, i + k)

\* The calls of execute() are folds of FoldLemmas.
LEMMA RunFolds ==
  ASSUME NEW p, NEW s
  PROVE  Runs!Folded(p, s) = FoldLeft(Advance, p, s)
  BY DEF FoldLeft, MapThenFoldSet, Max, Runs!Folded, Runs!FoldLeft, Runs!MapThenFoldSet, Runs!Max

\* They are of parsers, on tokens.
LEMMA RunCloses == Runs!Closes(Parsers, TokenType)
<1>1. ASSUME NEW p \in Parsers, NEW t \in TokenType PROVE Advance(p, t) \in Parsers
  BY AdvanceIs, StepType, Zenon
<1> QED
  BY <1>1 DEF Runs!Closes

\* A call of execute() takes a parser to a parser.
LEMMA ExecuteType ==
  ASSUME rx \in Parsers, NEW b \in Tokens
  PROVE  Execute(b) \in Parsers
<1>1. b \in Seq(TokenType)
  BY DEF Tokens
<1> DEFINE G == [k \in 0..Len(b) |-> Parsers]
<1>2. Len(b) \in 0..Len(b) /\ 0 \in 0..Len(b)
  BY <1>1
<1>3. G \in [0..Len(b) -> SUBSET Parsers] /\ rx \in G[0]
  BY <1>2
<1>4. ASSUME NEW k \in 1..Len(b), NEW x \in G[k - 1] PROVE Advance(x, b[k]) \in G[k]
  <2>1. k - 1 \in 0..Len(b) /\ k \in 0..Len(b) /\ b[k] \in TokenType
    BY <1>1
  <2>2. x \in Parsers
    BY <2>1
  <2>3. Advance(x, b[k]) \in Parsers
    BY <2>1, <2>2, RunCloses DEF Runs!Closes
  <2> QED
    BY <2>1, <2>3
<1> HIDE DEF G
<1>5. Runs!Folded(rx, b) \in G[Len(b)]
  BY <1>1, <1>3, <1>4, RunCloses, Runs!FoldInduction, Zenon
<1>6. Runs!Folded(rx, b) \in Parsers
  BY <1>2, <1>5 DEF G
<1> QED
  BY <1>6, RunFolds, Zenon DEF Execute

\* A call of execute() on what the stream holds behind the parser.
LEMMA Executed ==
  ASSUME NEW m \in Messages, NEW e \in Nat, NEW L \in Leftovers, NEW i \in Int, NEW j \in Int,
         0 - Len(L) <= i, j <= End(m, e), NEW b, Window(b, m, e, L, i, j),
         rx \in Parsers, ~rx.halted, rx.taken = 0, Follows(rx, m, e, i)
  PROVE  Ran(rx, Execute(b), m, e, i, Len(b))
<1> DEFINE n == Len(b)
           G == [k \in 0..n |-> {q \in Parsers : Ran(rx, q, m, e, i, k)}]
<1>1. /\ b \in Seq(TokenType) /\ n \in Nat /\ n = j - i
      /\ \A k \in 1..n : b[k] = TokenAt(m, e, L, i + k)
  BY DEF Window, Tokens
<1> HIDE DEF n
<1>2. n \in 0..n /\ 0 \in 0..n
  BY <1>1
<1>3. Ran(rx, rx, m, e, i, 0)
  BY RunStarts
<1>4. G \in [0..n -> SUBSET Parsers] /\ rx \in G[0]
  BY <1>2, <1>3
<1>5. ASSUME NEW k \in 1..n, NEW x \in G[k - 1] PROVE Advance(x, b[k]) \in G[k]
  <2>1. k - 1 \in 0..n /\ k \in 0..n /\ k \in Nat /\ k > 0 /\ End(m, e) \in Nat
    BY <1>1, HeadIs
  <2>2. x \in Parsers /\ Ran(rx, x, m, e, i, k - 1)
    BY <2>1
  <2>3. i + k <= End(m, e)
    BY <1>1, <2>1
  <2>4. Ran(rx, Step(x, TokenAt(m, e, L, i + k)), m, e, i, k)
    BY <2>1, <2>2, <2>3, RunSteps
  <2>5. Advance(x, b[k]) = Step(x, TokenAt(m, e, L, i + k))
    BY <1>1, AdvanceIs, Zenon
  <2>6. Advance(x, b[k]) \in Parsers
    BY <2>4, <2>5 DEF Ran, Placed
  <2> HIDE DEF Ran
  <2> QED
    BY <2>1, <2>4, <2>5, <2>6
<1> HIDE DEF G
<1>6. Runs!Folded(rx, b) \in G[n]
  BY <1>1, <1>4, <1>5, RunCloses, Runs!FoldInduction, Zenon DEF n
<1>7. Ran(rx, Runs!Folded(rx, b), m, e, i, n)
  BY <1>2, <1>6 DEF G
<1> QED
  BY <1>7, RunFolds, Zenon DEF Execute, n

\* The status line of a clean stream: its LF is left for read_headers().
LEMMA FirstLine ==
  ASSUME NEW m \in Messages, NEW e \in Nat, m.reason, NEW j \in Int, j >= 2,
         NEW b, Window(b, m, e, <<>>, 0, j), rx = FreshRx
  PROVE  LET q == Execute(b)
         IN q.at = "line" /\ q.taken = 2 /\ q.halted
<1> DEFINE n == Len(b)
           At(k) == IF k = 0 THEN {rx}
                    ELSE IF k = 1
                    THEN {q \in Parsers : q.at = "status" /\ q.taken = 1 /\ ~q.halted}
                    ELSE {q \in Parsers : q.at = "line" /\ q.taken = 2 /\ q.halted}
           G == [k \in 0..n |-> At(k)]
<1>1. /\ b \in Seq(TokenType) /\ n \in Nat /\ n = j - 0 /\ n >= 2
      /\ \A k \in 1..n : b[k] = TokenAt(m, e, <<>>, 0 + k)
  BY DEF Window, Tokens
<1>a. rx \in Parsers /\ rx.at = "start" /\ rx.taken = 0 /\ ~rx.halted
  BY FreshType DEF FreshRx
<1>b. b[1] = Sign("status") /\ b[2] = Sign("CR") /\ b[1] \in TokenType /\ b[2] \in TokenType
  <2>1. b[1] = TokenAt(m, e, <<>>, 1) /\ b[2] = TokenAt(m, e, <<>>, 2)
    <3>1. 1 \in 1..n /\ 2 \in 1..n /\ 0 + 1 = 1 /\ 0 + 2 = 2
      BY <1>1
    <3> QED
      BY <1>1, <3>1
  <2>2. /\ TokenAt(m, e, <<>>, 1) = Render(m, e)[1]
        /\ TokenAt(m, e, <<>>, 2) = Render(m, e)[2]
    BY DEF TokenAt
  <2>3. Render(m, e)[1] = Sign("status") /\ Render(m, e)[2] = Sign("CR")
    BY HeadIs
  <2>4. b[1] \in TokenType /\ b[2] \in TokenType
    <3>1. 1 \in 1..n /\ 2 \in 1..n
      BY <1>1
    <3> QED
      BY <1>1, <3>1
  <2> QED
    BY <2>1, <2>2, <2>3, <2>4
<1> HIDE DEF n
<1>2. n \in 0..n /\ 0 \in 0..n
  BY <1>1
<1>4. G \in [0..n -> SUBSET Parsers] /\ rx \in G[0]
  BY <1>2, <1>a
<1>5. ASSUME NEW k \in 1..n, NEW x \in G[k - 1] PROVE Advance(x, b[k]) \in G[k]
  <2>1. k - 1 \in 0..n /\ k \in 0..n /\ k \in Nat /\ k > 0
    BY <1>1
  <2>2. x \in At(k - 1)
    BY <2>1
  <2>3. Advance(x, b[k]) = Step(x, b[k])
    BY AdvanceIs, Zenon
  <2> HIDE DEF G
  <2>4. SUFFICES Step(x, b[k]) \in At(k)
    BY <2>1, <2>3 DEF G
  <2>5. CASE k = 1
    <3>1. x = rx
      BY <2>2, <2>5
    <3>2. Shifts(x, b[1])
      BY <1>a, <1>b, <3>1, SignIs, ShiftIs DEF Shifts
    <3>3. Step(x, b[1]) \in Parsers
      BY <1>a, <1>b, <3>1, StepType
    <3>4. /\ Step(x, b[1]).at = Shift["start"]["status"]
          /\ Step(x, b[1]).taken = 0 + 1 /\ ~Step(x, b[1]).halted
      BY <1>a, <1>b, <3>1, <3>2, SignIs, StepShift
    <3>5. Step(x, b[1]).at = "status" /\ Step(x, b[1]).taken = 1
      BY <3>4, ShiftIs
    <3> QED
      BY <2>5, <3>3, <3>4, <3>5
  <2>6. CASE k = 2
    <3>1. x \in Parsers /\ x.at = "status" /\ x.taken = 1 /\ ~x.halted
      BY <2>2, <2>6
    <3>2. Step(x, b[2]) \in Parsers /\ x \in ParserType
      BY <1>b, <3>1, StepType DEF Parsers
    <3>3. Step(x, b[2]).at = "line" /\ Step(x, b[2]).taken = 1 + 1 /\ Step(x, b[2]).halted
      BY <1>b, <3>1, <3>2, SignIs, StepStatus
    <3> QED
      BY <2>6, <3>2, <3>3
  <2>7. CASE k > 2
    <3>1. x \in Parsers /\ x.at = "line" /\ x.taken = 2 /\ x.halted
      BY <2>2, <2>7
    <3>2. Step(x, b[k]) = x
      BY <3>1 DEF Step
    <3> QED
      BY <2>7, <3>1, <3>2
  <2> QED
    BY <2>1, <2>5, <2>6, <2>7
<1> HIDE DEF G, At
<1>6. Runs!Folded(rx, b) \in G[n]
  BY <1>1, <1>4, <1>5, <1>a, RunCloses, Runs!FoldInduction, Zenon DEF n
<1>7. Runs!Folded(rx, b) \in At(n)
  BY <1>2, <1>6 DEF G
<1>8. LET q == Runs!Folded(rx, b) IN q.at = "line" /\ q.taken = 2 /\ q.halted
  BY <1>1, <1>7 DEF At
<1> QED
  BY <1>8, RunFolds, Zenon DEF Execute

-----------------------------------------------------------------------------
(* Types.                                                                  *)

Types ==
  /\ TypeOK
  /\ rx \in Parsers /\ rx.taken = 0 /\ rx.halted = (rx.at = "error")
  /\ buf \in Tokens /\ wire \in Tokens

\* The two pieces of a sequence of tokens.
LEMMA Pieces ==
  ASSUME NEW s \in Tokens
  PROVE  /\ Len(s) \in Nat /\ SubSeq(s, 1, Len(s)) = s
         /\ \A k \in 0..Len(s) :
              /\ SubSeq(s, 1, k) \in Tokens /\ Len(SubSeq(s, 1, k)) = k
              /\ \A x \in 1..k : SubSeq(s, 1, k)[x] = s[x]
              /\ SubSeq(s, k + 1, Len(s)) \in Tokens
              /\ Len(SubSeq(s, k + 1, Len(s))) = Len(s) - k
              /\ \A x \in 1..(Len(s) - k) : SubSeq(s, k + 1, Len(s))[x] = s[k + x]
<1>1. Len(s) \in Nat
  BY DEF Tokens
<1>2. SubSeq(s, 1, Len(s)) = s
  BY DEF Tokens
<1>3. ASSUME NEW k \in 0..Len(s)
      PROVE  /\ SubSeq(s, 1, k) \in Tokens /\ Len(SubSeq(s, 1, k)) = k
             /\ \A x \in 1..k : SubSeq(s, 1, k)[x] = s[x]
  BY DEF Tokens
<1>4. ASSUME NEW k \in 0..Len(s)
      PROVE  /\ SubSeq(s, k + 1, Len(s)) \in Tokens
             /\ Len(SubSeq(s, k + 1, Len(s))) = Len(s) - k
             /\ \A x \in 1..(Len(s) - k) : SubSeq(s, k + 1, Len(s))[x] = s[k + x]
  BY DEF Tokens
<1> QED
  BY <1>1, <1>2, <1>3, <1>4

\* A read completes with what it asks for, or at the end of the stream.
LEMMA CompletionIs ==
  ASSUME Types, NEW c \in Completions
  PROVE  /\ c.took \in 0..Len(wire)
         /\ \/ c.ec = "ok" /\ c.took \in Amounts
            \/ c.ec = "eof" /\ c.took = Len(wire) /\ Amounts = {} /\ closed
<1>1. Len(wire) \in Nat /\ Len(buf) \in Nat /\ rx.length \in Nat
  BY Pieces DEF Types, Parsers, ParserType
<1>2. \A d : Until(d) \subseteq 0..Len(wire)
  BY <1>1 DEF Until
<1>3. \A n \in Int : AtLeast(n) \subseteq 0..Len(wire)
  BY <1>1 DEF AtLeast
<1>4. Missing \in Int /\ 1 \in Int
  BY <1>1 DEF Missing
<1>5. Amounts \subseteq 0..Len(wire)
  BY <1>2, <1>3, <1>4 DEF Amounts
<1>6. CASE Amounts = {} /\ closed
  <2>1. c = [ec |-> "eof", took |-> Len(wire)]
    BY <1>6 DEF Completions
  <2> QED
    BY <1>1, <1>6, <2>1
<1>7. CASE ~(Amounts = {} /\ closed)
  <2>1. PICK k \in Amounts : c = [ec |-> "ok", took |-> k]
    BY <1>7, Zenon DEF Completions
  <2> QED
    BY <1>5, <2>1
<1> QED
  BY <1>6, <1>7

\* A read leaves tokens.
LEMMA ReceivedType ==
  ASSUME Types, NEW c \in Completions, Receive(c)
  PROVE  /\ Filled(c) \in Tokens /\ wire' \in Tokens
         /\ whole' \in BOOLEAN /\ cutoff' \in BOOLEAN
<1>1. c.took \in 0..Len(wire)
  BY CompletionIs
<1>2. wire \in Tokens /\ buf \in Tokens
  BY DEF Types
<1>3. SubSeq(wire, 1, c.took) \in Tokens /\ wire' \in Tokens
  BY <1>1, <1>2, Pieces DEF Receive
<1>4. Filled(c) \in Tokens
  BY <1>2, <1>3, Joined DEF Filled, IsJoin
<1>5. whole' \in BOOLEAN /\ cutoff' \in BOOLEAN
  BY DEF Receive
<1> QED
  BY <1>3, <1>4, <1>5

\* So does a call of execute().
LEMMA ParsedType ==
  ASSUME Types, NEW b \in Tokens, Parse(b)
  PROVE  /\ rx' \in Parsers /\ rx'.taken = 0 /\ rx'.halted = (rx'.at = "error")
         /\ buf' \in Tokens
<1> DEFINE p == Execute(b)
<1>1. p \in Parsers
  BY ExecuteType DEF Types
<1>2. rx' = Resumed(p) /\ buf' = SubSeq(b, p.taken + 1, Len(b))
  BY DEF Parse
<1> HIDE DEF p
<1>3. p.taken \in Nat
  BY <1>1 DEF Parsers, ParserType
<1>4. \A k \in Nat : SubSeq(b, k + 1, Len(b)) \in Tokens
  BY DEF Tokens
<1> QED
  BY <1>1, <1>2, <1>3, <1>4, ResumedIs

\* What TypeOK says of a parser.
LEMMA RxTypeOK ==
  ASSUME NEW p \in Parsers
  PROVE  /\ DOMAIN p = DOMAIN FreshRx
         /\ p.headers \in Framing \cup {"unread"} /\ p.length \in Nat
<1>1. DOMAIN p = {"at", "framing", "left", "headers", "length", "status", "raw", "taken",
                  "marked", "halted"}
  BY DEF Parsers, ParserType
<1>2. DOMAIN FreshRx = {"at", "framing", "left", "headers", "length", "status", "raw", "taken",
                        "marked", "halted"}
  BY DEF FreshRx
<1> QED
  BY <1>1, <1>2 DEF Parsers, ParserType

\* What the server sends is the beginning of the answer.
LEMMA SendingsType ==
  ASSUME NEW m \in Messages, NEW e \in Nat, NEW s \in Sendings(m, e)
  PROVE  \E k \in 0..End(m, e) :
           /\ s.tokens = SubSeq(Render(m, e), 1, k) /\ s.tokens \in Tokens
           /\ s.intact = (k = End(m, e)) /\ s.intact \in BOOLEAN
           /\ s.closed = (k < End(m, e) \/ m.framing = "eof") /\ s.closed \in BOOLEAN
<1>1. PICK k \in 0..End(m, e) :
        s = [tokens |-> SubSeq(Render(m, e), 1, k), intact |-> k = End(m, e),
             closed |-> k < End(m, e) \/ m.framing = "eof"]
  BY DEF Sendings, End
<1>2. SubSeq(Render(m, e), 1, k) \in Tokens
  BY HeadIs, Pieces DEF End
<1> QED
  BY <1>1, <1>2

\* The types hold at first,
LEMMA TypesInit == Init => Types
<1> SUFFICES ASSUME Init PROVE Types
  OBVIOUS
<1>1. asked = 1 /\ message \in Messages
  BY DEF Init
<1>2. PICK s \in Sendings(message, 1) : intact = s.intact /\ wire = s.tokens /\ closed = s.closed
  BY <1>1 DEF Init
<1>3. wire \in Tokens /\ intact \in BOOLEAN /\ closed \in BOOLEAN
  BY <1>1, <1>2, SendingsType
<1>4. rx \in Parsers /\ rx.taken = 0 /\ rx.halted = (rx.at = "error") /\ buf \in Tokens
  BY FreshType, Zenon DEF Init
<1>5. asked \in 1..Exchanges
  BY <1>1, MessagesAssumption
<1> QED
  BY <1>1, <1>3, <1>4, <1>5, RxTypeOK DEF Init, Types, TypeOK

\* after what the server answers,
LEMMA TypesAnswer ==
  ASSUME Types, NEW m \in Messages, NEW e \in Nat, NEW l \in Tokens, Answer(m, e, l)
  PROVE  wire' \in Tokens /\ intact' \in BOOLEAN /\ closed' \in BOOLEAN
<1>1. PICK s \in Sendings(m, e) : intact' = s.intact /\ wire' = l \o s.tokens /\ closed' = s.closed
  BY DEF Answer
<1>2. s.tokens \in Tokens /\ s.intact \in BOOLEAN /\ s.closed \in BOOLEAN
  BY SendingsType
<1> QED
  BY <1>1, <1>2, Joined DEF IsJoin

\* and after every step.
LEMMA TypesNext ==
  ASSUME Types, [Next]_vars
  PROVE  Types'
<1>1. CASE UNCHANGED vars
  BY <1>1 DEF Types, TypeOK, vars, exchangeVars
<1>2. ASSUME UNCHANGED exchangeVars, NEW c \in Completions, Receive(c),
             Unparsed(Filled(c)) \/ Parse(Filled(c)),
             \/ op' = "none" /\ outcome' \in Outcomes
             \/ /\ outcome' = "none"
                /\ op' \in {"read_headers", "read_content_length", "read_chunk_header",
                            "read_chunk_data", "read_until_eof"}
      PROVE  Types'
  <2>1. Filled(c) \in Tokens /\ wire' \in Tokens /\ whole' \in BOOLEAN /\ cutoff' \in BOOLEAN
    BY <1>2, ReceivedType
  <2>2. rx' \in Parsers /\ rx'.taken = 0 /\ rx'.halted = (rx'.at = "error") /\ buf' \in Tokens
    <3>1. CASE Parse(Filled(c))
      BY <2>1, <3>1, ParsedType
    <3>2. CASE Unparsed(Filled(c))
      BY <2>1, <3>2 DEF Unparsed, Types
    <3> QED
      BY <1>2, <3>1, <3>2
  <2>3. DOMAIN rx' = DOMAIN FreshRx /\ rx'.headers \in Framing \cup {"unread"} /\ rx'.length \in Nat
    BY <2>2, RxTypeOK
  <2>4. /\ asked' \in 1..Exchanges /\ message' \in Messages
        /\ clean' \in BOOLEAN /\ intact' \in BOOLEAN /\ closed' \in BOOLEAN
    BY <1>2 DEF Types, TypeOK, exchangeVars
  <2>5. /\ (op = "none")' = (outcome # "none")' /\ outcome' \in Outcomes \cup {"none"}
        /\ op' \in {"none", "read_status", "read_headers", "read_content_length",
                    "read_chunk_header", "read_chunk_data", "read_until_eof"}
    BY <1>2 DEF Outcomes
  <2> QED
    BY <2>1, <2>2, <2>3, <2>4, <2>5 DEF Types, TypeOK
<1>3. CASE OnReadStatus
  BY <1>2, <1>3 DEF OnReadStatus, Finish, Read, Outcomes
<1>4. CASE OnReadHeaders
  BY <1>2, <1>4 DEF OnReadHeaders, Finish, Read, Outcomes, ContentRead
<1>5. CASE OnReadContentLength
  BY <1>2, <1>5 DEF OnReadContentLength, Finish, Read, Outcomes
<1>6. CASE OnReadChunkHeader
  BY <1>2, <1>6 DEF OnReadChunkHeader, Finish, Read, Outcomes
<1>7. CASE OnReadChunkData
  BY <1>2, <1>7 DEF OnReadChunkData, Finish, Read, Outcomes
<1>8. CASE OnReadUntilEof
  BY <1>2, <1>8 DEF OnReadUntilEof, Finish, Read, Outcomes
<1>9. CASE NextExchange
  <2>1. asked \in 1..Exchanges /\ asked < Exchanges /\ Exchanges \in Nat /\ asked' = asked + 1
    BY <1>9, MessagesAssumption DEF NextExchange, Types, TypeOK
  <2>a. asked' \in 1..Exchanges /\ asked' \in Nat
    BY <2>1
  <2>b. message' \in Messages /\ wire \in Tokens
    BY <1>9 DEF NextExchange, Types
  <2>c. whole' \in BOOLEAN /\ clean' \in BOOLEAN
    BY <1>9 DEF NextExchange
  <2>2. wire' \in Tokens /\ intact' \in BOOLEAN /\ closed' \in BOOLEAN
    BY <1>9, <2>a, <2>b, TypesAnswer DEF NextExchange
  <2>3. rx' \in Parsers /\ rx'.taken = 0 /\ rx'.halted = (rx'.at = "error") /\ buf' \in Tokens
    BY <1>9, FreshType, Zenon DEF NextExchange
  <2>4. DOMAIN rx' = DOMAIN FreshRx /\ rx'.headers \in Framing \cup {"unread"} /\ rx'.length \in Nat
    BY <2>3, RxTypeOK
  <2> QED
    BY <1>9, <2>a, <2>b, <2>c, <2>2, <2>3, <2>4 DEF NextExchange, Types, TypeOK
<1> QED
  BY <1>1, <1>3, <1>4, <1>5, <1>6, <1>7, <1>8, <1>9 DEF Next, Reads

\* What the variables of a connection that reads may be, for any messages, of any
\* sizes and in any number of exchanges.
THEOREM TypeCorrect == Spec => []TypeOK
<1>1. Types => TypeOK
  BY DEF Types
<1>2. Spec => []Types
  BY TypesInit, TypesNext, PTL DEF Spec
<1> QED
  BY <1>1, <1>2, PTL

-----------------------------------------------------------------------------
(* What one read does.                                                     *)

\* What was read is in front of what is read next.
LEMMA Extended ==
  ASSUME NEW m \in Messages, NEW e \in Nat, NEW L \in Leftovers,
         NEW i \in Int, NEW j \in Int, NEW k \in Int, i <= j,
         NEW u \in Tokens, NEW w \in Tokens, Window(u, m, e, L, i, j), Window(w, m, e, L, j, k), NEW t \in 0..Len(w)
  PROVE  /\ Window(u \o SubSeq(w, 1, t), m, e, L, i, j + t)
         /\ Window(SubSeq(w, t + 1, Len(w)), m, e, L, j + t, k)
         /\ j + t <= k /\ Len(w) = k - j /\ Len(u) = j - i
<1> DEFINE n == j + t
           s == SubSeq(w, 1, t)
           b == u \o s
           rest == SubSeq(w, t + 1, Len(w))
<1>1. /\ u \in Tokens /\ Len(u) = j - i
      /\ \A x \in 1..Len(u) : u[x] = TokenAt(m, e, L, i + x)
      /\ w \in Tokens /\ Len(w) = k - j
      /\ \A x \in 1..Len(w) : w[x] = TokenAt(m, e, L, j + x)
  BY DEF Window
<1>2. t \in 0..Len(w) /\ Len(w) \in Nat /\ Len(u) \in Nat
  BY <1>1, Pieces
<1>3. /\ s \in Tokens /\ Len(s) = t /\ \A x \in 1..t : s[x] = w[x]
      /\ rest \in Tokens /\ Len(rest) = Len(w) - t
      /\ \A x \in 1..(Len(w) - t) : rest[x] = w[t + x]
  BY <1>1, <1>2, Pieces
<1>4. IsJoin(b, u, s)
  BY <1>1, <1>3, Joined
<1> HIDE DEF s, b, rest
<1>5. /\ b \in Tokens /\ Len(b) = Len(u) + t
      /\ \A x \in 1..Len(u) : b[x] = u[x]
      /\ \A x \in 1..t : b[Len(u) + x] = s[x]
  BY <1>3, <1>4 DEF IsJoin
<1>6. n \in Int /\ n <= k /\ Len(b) = n - i /\ Len(rest) = k - n
  BY <1>1, <1>2, <1>3, <1>5
<1>7. ASSUME NEW x \in 1..Len(b) PROVE b[x] = TokenAt(m, e, L, i + x)
  <2>1. CASE x <= Len(u)
    <3>1. x \in 1..Len(u)
      BY <1>2, <2>1
    <3> QED
      BY <1>1, <1>5, <3>1
  <2>2. CASE ~(x <= Len(u))
    <3> DEFINE y == x - Len(u)
    <3>0. /\ Len(u) \in Nat /\ Len(u) = j - i /\ Len(w) \in Nat /\ t \in 0..Len(w)
          /\ Len(b) = Len(u) + t
      BY <1>1, <1>2, <1>5
    <3>1. y \in 1..t /\ x = Len(u) + y /\ j + y = i + x /\ y \in 1..Len(w)
      BY <2>2, <3>0
    <3> HIDE DEF y
    <3>2. b[x] = s[y]
      BY <1>5, <3>1
    <3> QED
      BY <1>1, <1>3, <3>1, <3>2
  <2> QED
    BY <2>1, <2>2
<1>8. ASSUME NEW x \in 1..Len(rest) PROVE rest[x] = TokenAt(m, e, L, n + x)
  <2>1. x \in 1..(Len(w) - t) /\ t + x \in 1..Len(w) /\ j + (t + x) = n + x
    BY <1>2, <1>3
  <2> HIDE DEF n
  <2> QED
    BY <1>1, <1>3, <2>1
<1>9. Window(b, m, e, L, i, n)
  BY <1>5, <1>6, <1>7 DEF Window
<1>10. Window(rest, m, e, L, n, k)
  BY <1>3, <1>6, <1>8 DEF Window
<1>11. n <= k /\ Len(w) = k - j /\ Len(u) = j - i
  BY <1>1, <1>6
<1> QED
  BY <1>9, <1>10, <1>11, Zenon DEF b, rest, s

\* A read moves the end of response_buf on.
LEMMA Received ==
  ASSUME Types, NEW m \in Messages, NEW e \in Nat, NEW L \in Leftovers,
         NEW i \in Int, NEW j \in Int, NEW k \in Int, i <= j,
         Window(buf, m, e, L, i, j), Window(wire, m, e, L, j, k),
         NEW c \in Completions, Receive(c)
  PROVE  LET n == j + c.took
         IN /\ n \in Int /\ j <= n /\ n <= k
            /\ Window(Filled(c), m, e, L, i, n) /\ Window(wire', m, e, L, n, k)
            /\ c.ec = "eof" => n = k
            /\ Len(Filled(c)) = Len(buf) + c.took
<1> DEFINE t == c.took
<1>1. t \in 0..Len(wire) /\ (c.ec = "eof" => t = Len(wire)) /\ Len(wire) \in Nat
  BY CompletionIs, Pieces DEF Types
<1>2. wire' = SubSeq(wire, t + 1, Len(wire)) /\ Filled(c) = buf \o SubSeq(wire, 1, t)
  BY DEF Receive, Filled
<1> HIDE DEF t
<1> DEFINE u == buf
           w == wire
<1>6. Window(u, m, e, L, i, j) /\ Window(w, m, e, L, j, k) /\ t \in 0..Len(w) /\ u \in Tokens /\ w \in Tokens
  BY <1>1 DEF Types
<1> HIDE DEF u, w
<1>a. /\ Window(u \o SubSeq(w, 1, t), m, e, L, i, j + t)
      /\ Window(SubSeq(w, t + 1, Len(w)), m, e, L, j + t, k)
      /\ j + t <= k /\ Len(w) = k - j /\ Len(u) = j - i
  BY <1>6, Extended
<1>3. /\ Window(Filled(c), m, e, L, i, j + t) /\ Window(wire', m, e, L, j + t, k)
      /\ j + t <= k /\ Len(wire) = k - j /\ Len(buf) = j - i
  BY <1>2, <1>a, Zenon DEF u, w
<1>4. Len(Filled(c)) = (j + t) - i
  BY <1>3 DEF Window
<1>5. j + t \in Int /\ j <= j + t /\ (t = Len(wire) => j + t = k) /\ (j + t) - i = (j - i) + t
  BY <1>1, <1>3
<1> QED
  BY <1>1, <1>3, <1>4, <1>5 DEF t

\* Where a parser is does not depend on what a call of execute() counts.
LEMMA FollowsSame ==
  ASSUME NEW m \in Messages, NEW e \in Nat, NEW i, NEW p, NEW q, q.at = p.at, q.raw = p.raw,
         SameHead(p, q), SameSize(p, q), Follows(p, m, e, i)
  PROVE  Follows(q, m, e, i)
<1>1. InHead(p, m, i) => InHead(q, m, i)
  BY DEF InHead, SameHead, SameSize
<1>2. InBody(p, m, e, i) => InBody(q, m, e, i)
  BY DEF InBody, SameHead, SameSize, RawIs
<1>3. \A c : InChunk(p, m, e, i, c) => InChunk(q, m, e, i, c)
  BY DEF InChunk, SameHead, SameSize, RawIs
<1>4. AtEnd(p, m, e, i) => AtEnd(q, m, e, i)
  BY DEF AtEnd, SameHead, SameSize, RawIs
<1> QED
  BY <1>1, <1>2, <1>3, <1>4 DEF Follows

\* A call of execute() moves the parser on, and response_buf with it.
LEMMA Parsed ==
  ASSUME Types, NEW m \in Messages, NEW e \in Nat, NEW L \in Leftovers,
         NEW i \in Int, NEW j \in Int, 0 - Len(L) <= i, i <= j, j <= End(m, e),
         NEW b, Window(b, m, e, L, i, j), Follows(rx, m, e, i), Parse(b)
  PROVE  LET q == Execute(b)
         IN /\ Ran(rx, q, m, e, i, Len(b)) /\ q \in Parsers /\ rx' = Resumed(q) /\ rx' \in Parsers
            /\ q.taken \in 0..Len(b) /\ Len(b) = j - i /\ i + q.taken <= j
            /\ Window(buf', m, e, L, i + q.taken, j)
            /\ TookNothing(b) = (q.taken = 0)
            /\ rx'.at = q.at /\ rx'.raw = q.raw /\ SameHead(q, rx') /\ SameSize(q, rx')
            /\ Follows(rx', m, e, i + q.taken) \/ (Failed(q) /\ i < 0)
<1> DEFINE q == Execute(b)
           n == q.taken
<1>1. rx \in Parsers /\ rx.taken = 0 /\ ~rx.halted
  BY PositionIs DEF Types
<1>2. Ran(rx, q, m, e, i, Len(b))
  BY <1>1, Executed
<1> HIDE DEF q
<1>3. /\ q \in Parsers /\ n \in 0..Len(b)
      /\ Follows(q, m, e, i + n) \/ (Failed(q) /\ i < 0)
  BY <1>2 DEF Ran, Placed
<1>4. rx' = Resumed(q) /\ buf' = SubSeq(b, n + 1, Len(b))
  BY DEF Parse, q
<1> HIDE DEF n
<1>5. /\ b \in Tokens /\ Len(b) = j - i /\ Len(b) \in Nat
      /\ \A x \in 1..Len(b) : b[x] = TokenAt(m, e, L, i + x)
  BY Pieces DEF Window
<1>6. /\ buf' \in Tokens /\ Len(buf') = Len(b) - n
      /\ \A x \in 1..(Len(b) - n) : buf'[x] = b[n + x]
  BY <1>3, <1>4, <1>5, Pieces
<1>7. /\ rx' \in Parsers /\ rx'.at = q.at /\ rx'.raw = q.raw
      /\ SameHead(q, rx') /\ SameSize(q, rx')
  BY <1>3, <1>4, ResumedIs
<1>8. Window(buf', m, e, L, i + n, j)
  <2>1. Len(buf') = j - (i + n)
    BY <1>3, <1>5, <1>6
  <2>2. ASSUME NEW x \in 1..Len(buf') PROVE buf'[x] = TokenAt(m, e, L, (i + n) + x)
    <3>1. x \in 1..(Len(b) - n) /\ n + x \in 1..Len(b) /\ i + (n + x) = (i + n) + x
      BY <1>3, <1>5, <1>6
    <3> QED
      BY <1>5, <1>6, <3>1
  <2> QED
    BY <1>6, <2>1, <2>2 DEF Window
<1>9. (buf' = b) = (n = 0)
  <2>1. CASE n = 0
    <3>1. buf' = SubSeq(b, 1, Len(b))
      BY <1>4, <2>1
    <3>2. buf' = b
      BY <1>5, <3>1, Pieces
    <3> QED
      BY <2>1, <3>2
  <2>2. CASE n # 0
    <3>1. Len(buf') # Len(b)
      BY <1>3, <1>5, <1>6, <2>2
    <3>2. buf' # b
      BY <3>1
    <3> QED
      BY <2>2, <3>2
  <2> QED
    BY <2>1, <2>2
<1>10. Follows(rx', m, e, i + n) \/ (Failed(q) /\ i < 0)
  BY <1>3, <1>7, FollowsSame
<1>11. i + n <= j
  BY <1>3, <1>5
<1> QED
  BY <1>2, <1>3, <1>4, <1>5, <1>7, <1>8, <1>9, <1>10, <1>11 DEF TookNothing, q, n

\* The first bytes of the body are its beginning, all of them the body.
LEMMA RawIsPrefix ==
  ASSUME NEW m \in Messages, NEW e \in Nat, NEW p \in Parsers, NEW n \in 0..Size(m), RawIs(p, e, n)
  PROVE  IsPrefix(p.raw, Body(m, e)) /\ (n = Size(m) => p.raw = Body(m, e))
<1>1. p.raw \in Seq(TokenType) /\ Len(p.raw) = n /\ \A k \in 1..n : p.raw[k] = Token("byte", k, e)
  BY DEF RawIs, Parsers, ParserType, Tokens
<1>2. /\ Body(m, e) \in Seq(TokenType) /\ Len(Body(m, e)) = Size(m) /\ Size(m) \in Nat
      /\ \A k \in 1..Size(m) : Body(m, e)[k] = Token("byte", k, e)
  BY BodyIs, SizeBounds
<1> DEFINE r == p.raw
           b == Body(m, e)
           S == Size(m)
<1>3. r \in Seq(TokenType) /\ b \in Seq(TokenType) /\ Len(r) = n /\ Len(b) = S /\ S \in Nat /\ n \in 0..S
  BY <1>1, <1>2
<1>4. \A k \in 1..n : r[k] = b[k]
  BY <1>1, <1>2
<1> HIDE DEF r, b, S
<1>5. IsPrefix(r, b)
  <2>1. SubSeq(r, 1, n) = SubSeq(b, 1, n)
    BY <1>3, <1>4
  <2>2. n <= S /\ Len(r) <= Len(b)
    BY <1>3
  <2> QED
    BY <1>3, <2>1, <2>2 DEF IsPrefix
<1>6. n = S => r = b
  BY <1>3, <1>4
<1> QED
  BY <1>5, <1>6 DEF r, b, S

\* The body so far is the beginning of the body sent.
LEMMA FollowsPrefix ==
  ASSUME NEW m \in Messages, NEW e \in Nat, NEW i \in Int, i <= End(m, e),
         NEW p \in Parsers, Follows(p, m, e, i)
  PROVE  IsPrefix(p.raw, Body(m, e))
<1>1. SUFFICES \E n \in 0..Size(m) : RawIs(p, e, n)
  BY RawIsPrefix
<1>2. Size(m) \in Nat /\ \A c \in 0..Len(m.parts) : SizeUpTo(m, c) \in 0..Size(m)
  BY SizeBounds
<1>3. CASE InHead(p, m, i)
  BY <1>2, <1>3, RawEmpty DEF InHead
<1>4. CASE p.at \in BodyStates /\ InBody(p, m, e, i)
  <2>1. CASE p.at = "body"
    <3>1. p.left \in 1..Size(m) /\ RawIs(p, e, Size(m) - p.left)
      BY <1>4, <2>1 DEF InBody
    <3>2. Size(m) - p.left \in 0..Size(m)
      BY <1>2, <3>1
    <3> QED
      BY <3>1, <3>2
  <2>2. CASE p.at = "done"
    BY <1>2, <1>4, <2>2 DEF InBody
  <2>3. CASE p.at = "rest"
    <3>1. m.framing = "eof" /\ i >= 8 /\ RawIs(p, e, i - 8)
      BY <1>4, <2>3 DEF InBody
    <3>2. End(m, e) = 8 + Size(m)
      BY <3>1, PlainIs
    <3>3. i - 8 \in 0..Size(m)
      BY <1>2, <3>1, <3>2
    <3> QED
      BY <3>1, <3>3
  <2> QED
    BY <1>4, <2>1, <2>2, <2>3 DEF BodyStates
<1>5. CASE p.at \in ChunkStates /\ \E c \in 1..(Len(m.parts) + 1) : InChunk(p, m, e, i, c)
  <2> DEFINE N == Len(m.parts)
  <2>1. PICK c \in 1..(N + 1) : InChunk(p, m, e, i, c)
    BY <1>5
  <2>2. N \in Nat /\ c - 1 \in 0..N /\ (c <= N => c \in 0..N)
    BY PartsType
  <2> HIDE DEF N
  <2>3. CASE p.at \in {"size", "size_cr", "size_lf", "trailer", "trailer_lf"}
    BY <1>2, <2>1, <2>2, <2>3 DEF InChunk, N
  <2>4. CASE p.at \in {"chunk_cr", "chunk_lf"}
    BY <1>2, <2>1, <2>2, <2>4 DEF InChunk, N
  <2>5. CASE p.at = "chunk"
    <3>1. /\ c <= N /\ p.left \in 1..m.parts[c] /\ RawIs(p, e, SizeUpTo(m, c) - p.left)
          /\ m.framing = "chunked"
      BY <2>1, <2>5 DEF InChunk, N
    <3>2. /\ SizeUpTo(m, c - 1) \in Nat /\ m.parts[c] \in Nat
          /\ SizeUpTo(m, c) = SizeUpTo(m, c - 1) + m.parts[c]
      BY <3>1, ChunkAt DEF N
    <3>3. SizeUpTo(m, c) \in 0..Size(m)
      BY <1>2, <2>2, <3>1 DEF N
    <3>4. SizeUpTo(m, c) - p.left \in 0..Size(m)
      BY <1>2, <3>1, <3>2, <3>3
    <3> QED
      BY <3>1, <3>4
  <2> QED
    BY <1>5, <2>3, <2>4, <2>5 DEF ChunkStates
<1>6. CASE AtEnd(p, m, e, i)
  BY <1>2, <1>6 DEF AtEnd
<1> QED
  BY <1>3, <1>4, <1>5, <1>6 DEF Follows

-----------------------------------------------------------------------------
(* The inductive invariant.                                                *)

\* The parser p is at position i of the stream, the bytes b in response_buf reach up
\* to j, and what is on the wire, w, up to k.
Located(m, e, p, b, w, L, i, j, k) ==
  /\ 0 - Len(L) <= i /\ i <= j /\ j <= k /\ 0 <= k /\ k <= End(m, e)
  /\ e = 1 => L = <<>>
  /\ Window(b, m, e, L, i, j) /\ Window(w, m, e, L, j, k)
  /\ Follows(p, m, e, i)

Ends(k) ==
  /\ intact = (k = End(message, asked))
  /\ closed = (~intact \/ message.framing = "eof")

\* Where each read finds the parser.
Doing(L, i) ==
  /\ op = "read_status" => rx = FreshRx /\ buf = <<>> /\ i = 0 - Len(L)
  /\ op = "read_headers" => i <= 7 /\ (First => rx.at = "line")
  /\ op = "read_content_length" =>
       rx.headers = "length" /\ ((closed /\ ~First) \/ rx.at = "headers")
  /\ op \in {"read_chunk_header", "read_chunk_data"} => rx.headers = "chunked"
  /\ op = "read_until_eof" /\ First =>
       rx.headers = "eof" \/ (rx.headers = "unread" /\ buf = <<>> /\ wire = <<>>)

\* An answer that comes in one piece is all in response_buf, and the reads keep step
\* with its parts.
Whole ==
  First /\ whole /\ intact =>
    /\ op # "read_status" => wire = <<>>
    /\ op = "read_chunk_header" => rx.at \in {"headers", "chunk_lf"}
    /\ op = "read_chunk_data" => rx.at = "chunk" /\ rx.left = rx.length
    /\ op = "read_until_eof" => rx.at = "headers" /\ rx.headers = "eof"

Underway ==
  \E L \in Leftovers, i \in Int, j \in Int, k \in Int :
    /\ Located(message, asked, rx, buf, wire, L, i, j, k)
    /\ Ends(k) /\ Doing(L, i) /\ Whole

Over ==
  /\ IsPrefix(rx.raw, Sent)
  /\ OnePiece /\ ChunksComplete
  /\ outcome = "SUCCESS" /\ ~closed => wire \in Leftovers

IInv ==
  /\ asked = 1 => clean
  /\ clean /\ op # "none" => Underway
  /\ clean /\ op = "none" => Over

\* The exchange goes on if the next read finds the parser where it should be,
LEMMA GoesOn ==
  ASSUME UNCHANGED exchangeVars, NEW L \in Leftovers, NEW i \in Int, NEW j \in Int, NEW k \in Int,
         Located(message, asked, rx', buf', wire', L, i, j, k), Ends(k), Doing(L, i)', Whole'
  PROVE  Underway'
<1>1. message' = message /\ asked' = asked /\ intact' = intact /\ closed' = closed
  BY DEF exchangeVars
<1>2. Located(message, asked, rx, buf, wire, L, i, j, k)'
  BY <1>1
<1>3. Ends(k)'
  BY <1>1 DEF Ends
<1> HIDE DEF Located, Ends, Doing, Whole
<1> QED
  BY <1>2, <1>3 DEF Underway

\* it may fail unless the answer came in one piece,
LEMMA GoesWrong ==
  ASSUME UNCHANGED exchangeVars, IsPrefix(rx'.raw, Body(message, asked)),
         op' = "none", outcome' # "SUCCESS", ~(First /\ whole' /\ intact)
  PROVE  Over'
<1>1. message' = message /\ asked' = asked /\ intact' = intact /\ closed' = closed
  BY DEF exchangeVars
<1> QED
  BY <1>1 DEF Over, Sent, OnePiece, ChunksComplete, Succeeds, First

\* and it may succeed with what the properties ask for.
LEMMA GoesWell ==
  ASSUME UNCHANGED exchangeVars, IsPrefix(rx'.raw, Body(message, asked)),
         op' = "none", outcome' = "SUCCESS",
         First /\ whole' /\ intact => rx'.raw = Body(message, asked),
         First /\ rx'.headers = "chunked" /\ ~cutoff' => rx'.raw = Body(message, asked),
         ~closed => wire' \in Leftovers
  PROVE  Over'
<1>1. message' = message /\ asked' = asked /\ intact' = intact /\ closed' = closed
  BY DEF exchangeVars
<1>2. First' = First /\ Sent' = Body(message, asked)
  BY <1>1 DEF First, Sent
<1>3. ~Stuck'
  BY DEF Stuck
<1> QED
  BY <1>1, <1>2, <1>3 DEF Over, OnePiece, ChunksComplete, Succeeds

\* What the parser knows of the headers is what they say.
LEMMA HeadersAre ==
  ASSUME NEW m \in Messages, NEW e \in Nat, NEW i \in Int, NEW p \in Parsers, Follows(p, m, e, i)
  PROVE  /\ p.headers # "unread" => p.headers = m.framing /\ i >= 7
         /\ i >= 8 => p.headers = m.framing /\ p.at \notin HeadStates \ {"start"}
         /\ p.headers # "unread" /\ i = 7 => p.at = "headers"
         /\ p.headers # "unread" /\ m.framing = "length" => p.length = Size(m)
<1>0. m.framing \in Framing /\ "unread" \notin Framing
  BY PartsType DEF Framing
<1>1. CASE p.at \in HeadStates /\ InHead(p, m, i)
  <2>1. p.headers # "unread" => /\ p.at = "headers" /\ p.headers = m.framing /\ i = 7
                                /\ m.framing = "length" => p.length = Size(m)
    BY <1>1 DEF InHead
  <2>2. i < 8
    <3>1. i <= 0 \/ i \in {1, 2, 3, 4, 5, 6, 7}
      BY <1>1 DEF InHead, HeadStates
    <3> QED
      BY <3>1
  <2> QED
    BY <2>1, <2>2
<1>2. CASE p.at \in BodyStates /\ InBody(p, m, e, i)
  <2>1. p.headers = m.framing /\ (m.framing = "length" => p.length = Size(m))
    BY <1>2 DEF InBody
  <2>2. 8 <= i /\ p.at \notin HeadStates
    BY <1>2, PositionIs DEF BodyStates, HeadStates
  <2> QED
    BY <2>1, <2>2
<1>3. CASE p.at \in ChunkStates /\ \E c \in 1..(Len(m.parts) + 1) : InChunk(p, m, e, i, c)
  <2>1. p.headers = m.framing /\ m.framing # "length"
    BY <1>3 DEF InChunk
  <2>2. 8 <= i /\ p.at \notin HeadStates
    BY <1>3, PositionIs DEF ChunkStates, HeadStates
  <2> QED
    BY <2>1, <2>2
<1>4. CASE AtEnd(p, m, e, i)
  <2>1. /\ p.headers = m.framing /\ i = End(m, e) /\ p.at = "start"
        /\ m.framing = "length" => p.length = Size(m)
    BY <1>4 DEF AtEnd
  <2>2. End(m, e) \in Nat /\ End(m, e) >= 8
    BY HeadIs
  <2> QED
    BY <2>1, <2>2
<1> QED
  BY <1>1, <1>2, <1>3, <1>4 DEF Follows

\* A parser behind the whole of the answer has the whole body.
LEMMA EndIs ==
  ASSUME NEW m \in Messages, NEW e \in Nat, NEW p \in Parsers, Follows(p, m, e, End(m, e))
  PROVE  /\ p.raw = Body(m, e)
         /\ p.at = "start" \/ (p.at = "rest" /\ m.framing = "eof")
<1> DEFINE i == End(m, e)
<1>1. i \in Nat /\ i >= 8 /\ Size(m) \in Nat /\ Size(m) \in 0..Size(m)
  BY HeadIs, SizeBounds
<1>2. p.at \notin HeadStates \ {"start"}
  BY <1>1, HeadersAre
<1>3. CASE AtEnd(p, m, e, i)
  BY <1>1, <1>3, RawIsPrefix DEF AtEnd
<1>4. CASE p.at \in BodyStates /\ InBody(p, m, e, i)
  <2>1. m.framing # "chunked" => i = 8 + Size(m)
    BY PlainIs
  <2> HIDE DEF i
  <2>2. p.at # "body"
    <3>1. SUFFICES ASSUME p.at = "body" PROVE FALSE
      OBVIOUS
    <3>2. m.framing = "length" /\ p.left \in 1..Size(m) /\ i = 8 + Size(m) - p.left
      BY <1>4, <3>1 DEF InBody
    <3> QED
      BY <1>1, <2>1, <3>2
  <2>3. p.at # "done"
    <3>1. SUFFICES ASSUME p.at = "done" PROVE FALSE
      OBVIOUS
    <3>2. m.framing = "length" /\ i = 7 + Size(m)
      BY <1>4, <3>1 DEF InBody
    <3> QED
      BY <1>1, <2>1, <3>2
  <2>4. p.at = "rest" /\ m.framing = "eof" /\ RawIs(p, e, i - 8)
    BY <1>4, <2>2, <2>3 DEF InBody, BodyStates
  <2>5. i - 8 = Size(m)
    BY <1>1, <2>1, <2>4
  <2> QED
    BY <1>1, <2>4, <2>5, RawIsPrefix
<1>5. CASE p.at \in ChunkStates /\ \E c \in 1..(Len(m.parts) + 1) : InChunk(p, m, e, i, c)
  <2> DEFINE N == Len(m.parts)
  <2>1. PICK c \in 1..(N + 1) : InChunk(p, m, e, i, c)
    BY <1>5
  <2> DEFINE o == Offset(m, c)
             a == Announced(m, c)
  <2>2. m.framing = "chunked"
    BY <2>1 DEF InChunk
  <2>3. /\ o \in Nat /\ o + 5 <= i /\ a \in Nat
        /\ c <= N => a = m.parts[c] /\ Offset(m, c + 1) = o + a + 5 /\ c + 1 \in 1..(N + 1)
    BY <2>2, ChunkAt
  <2>4. c <= N => Offset(m, c + 1) + 5 <= i /\ Offset(m, c + 1) \in Nat
    BY <2>2, <2>3, ChunkAt
  <2>5. /\ p.at = "size" => i = o
        /\ p.at = "size_cr" => i = o + 1
        /\ p.at = "size_lf" => i = o + 2
        /\ p.at = "chunk" => c <= N /\ p.left \in 1..a /\ i = o + 3 + a - p.left
        /\ p.at = "chunk_cr" => c <= N /\ i = o + 3 + a
        /\ p.at = "chunk_lf" => c <= N /\ i = o + 4 + a
        /\ p.at = "trailer" => i = o + 3
        /\ p.at = "trailer_lf" => i = o + 4
    BY <2>1, <2>3 DEF InChunk
  <2> HIDE DEF o, a, N, i
  <2>6. CASE p.at \in {"size", "size_cr", "size_lf", "trailer", "trailer_lf"}
    BY <1>1, <2>3, <2>5, <2>6
  <2>7. CASE p.at \in {"chunk", "chunk_cr", "chunk_lf"}
    <3>1. o + a + 5 + 5 <= i
      BY <2>3, <2>4, <2>5, <2>7
    <3>2. CASE p.at = "chunk"
      <4>1. p.left \in 1..a /\ i = o + 3 + a - p.left
        BY <2>5, <3>2
      <4> QED
        BY <1>1, <2>3, <3>1, <4>1
    <3>3. CASE p.at \in {"chunk_cr", "chunk_lf"}
      BY <1>1, <2>3, <2>5, <3>1, <3>3
    <3> QED
      BY <2>7, <3>2, <3>3
  <2> QED
    BY <1>5, <2>6, <2>7 DEF ChunkStates
<1>6. ~(p.at \in HeadStates /\ InHead(p, m, i))
  <2> HIDE DEF i
  <2>1. ASSUME p.at = "start", InHead(p, m, i) PROVE FALSE
    BY <1>1, <2>1 DEF InHead
  <2> QED
    BY <1>2, <2>1
<1> HIDE DEF i
<1>7. Follows(p, m, e, i)
  BY DEF i
<1> QED
  BY <1>3, <1>4, <1>5, <1>6, <1>7 DEF Follows

-----------------------------------------------------------------------------
(* What a read waits for.                                                  *)

\* What a window holds, by the position in the answer.
LEMMA InWindow ==
  ASSUME NEW m \in Messages, NEW e \in Nat, NEW L \in Leftovers, NEW i \in Int, NEW j \in Int,
         NEW b, Window(b, m, e, L, i, j), NEW x \in Nat, x > 0, i < x, x <= j
  PROVE  x - i \in 1..Len(b) /\ b[x - i] = Render(m, e)[x]
<1>1. Len(b) = j - i /\ \A k \in 1..Len(b) : b[k] = TokenAt(m, e, L, i + k)
  BY DEF Window
<1>2. x - i \in 1..Len(b) /\ i + (x - i) = x
  BY <1>1
<1>3. TokenAt(m, e, L, x) = Render(m, e)[x]
  BY DEF TokenAt
<1>4. b[x - i] = TokenAt(m, e, L, i + (x - i))
  BY <1>1, <1>2
<1> QED
  BY <1>2, <1>3, <1>4

\* The bytes of a window that hold a line end, and an empty line.
LEMMA HoldsLine ==
  ASSUME NEW m \in Messages, NEW e \in Nat, NEW L \in Leftovers, NEW i \in Int, NEW j \in Int,
         NEW b, Window(b, m, e, L, i, j), NEW x \in Nat, i <= x, x + 2 <= j,
         Render(m, e)[x + 1] = Sign("CR"), Render(m, e)[x + 2] = Sign("LF")
  PROVE  Holds(b, CRLF)
<1> DEFINE y == x - i
<1>1. Len(b) = j - i
  BY DEF Window
<1>2. /\ (x + 1) - i \in 1..Len(b) /\ b[(x + 1) - i] = Sign("CR")
      /\ (x + 2) - i \in 1..Len(b) /\ b[(x + 2) - i] = Sign("LF")
  <2>1. x + 1 \in Nat /\ x + 1 > 0 /\ i < x + 1 /\ x + 1 <= j
    OBVIOUS
  <2>2. x + 2 \in Nat /\ x + 2 > 0 /\ i < x + 2 /\ x + 2 <= j
    OBVIOUS
  <2> QED
    BY <2>1, <2>2, InWindow
<1>3. y \in 0..(Len(b) - 2) /\ (x + 1) - i = y + 1 /\ (x + 2) - i = y + 2
  BY <1>1
<1> HIDE DEF y
<1>4. b[y + 1] = CRLF[1] /\ b[y + 2] = CRLF[2]
  BY <1>2, <1>3, TokenTypes
<1>5. Len(CRLF) = 2 /\ DOMAIN CRLF = {1, 2}
  BY DEF CRLF
<1>6. \A k \in DOMAIN CRLF : b[y + k] = CRLF[k]
  BY <1>4, <1>5
<1> QED
  BY <1>3, <1>5, <1>6 DEF Holds

\* The delimiter of the headers.
LEMMA BlankIs ==
  /\ CRLF \o CRLF \in Tokens
  /\ Len(CRLF \o CRLF) = 4 /\ DOMAIN (CRLF \o CRLF) = {1, 2, 3, 4}
  /\ (CRLF \o CRLF)[1] = Sign("CR") /\ (CRLF \o CRLF)[2] = Sign("LF")
  /\ (CRLF \o CRLF)[3] = Sign("CR") /\ (CRLF \o CRLF)[4] = Sign("LF")
<1>1. CRLF \in Seq(TokenType) /\ Len(CRLF) = 2 /\ CRLF[1] = Sign("CR") /\ CRLF[2] = Sign("LF")
  BY TokenTypes
<1>2. IsJoin(CRLF \o CRLF, CRLF, CRLF)
  BY <1>1, Joined DEF Tokens
<1> DEFINE b == CRLF \o CRLF
<1> HIDE DEF b
<1>3. b \in Tokens /\ Len(b) = 4 /\ b[1] = CRLF[1] /\ b[2] = CRLF[2]
  BY <1>1, <1>2 DEF IsJoin, b
<1>4. b[2 + 1] = CRLF[1] /\ b[2 + 2] = CRLF[2]
  BY <1>1, <1>2 DEF IsJoin, b
<1>5. DOMAIN b = {1, 2, 3, 4}
  BY <1>3 DEF Tokens
<1> QED
  BY <1>1, <1>3, <1>4, <1>5 DEF b

\* async_read_until() is done when what it reads holds the delimiter.
LEMMA UntilHolds ==
  ASSUME Types, NEW d, NEW k \in Until(d)
  PROVE  Holds(buf \o SubSeq(wire, 1, k), d)
<1>1. CASE Holds(buf, d)
  <2>1. k = 0
    BY <1>1 DEF Until
  <2>2. buf \o SubSeq(wire, 1, 0) = buf
    BY DEF Types, Tokens
  <2> QED
    BY <1>1, <2>1, <2>2
<1>2. CASE ~Holds(buf, d)
  BY <1>2 DEF Until
<1> QED
  BY <1>1, <1>2

\* The header and the empty line hold that delimiter.
LEMMA HeadersHold ==
  ASSUME NEW m \in Messages, NEW e \in Nat, NEW L \in Leftovers, NEW i \in Int, NEW j \in Int,
         NEW b, Window(b, m, e, L, i, j), i <= 4, j >= 8
  PROVE  Holds(b, CRLF \o CRLF)
<1> DEFINE y == 4 - i
           r == Render(m, e)
<1>1. Len(b) = j - i
  BY DEF Window
<1>2. /\ b[5 - i] = r[5] /\ b[6 - i] = r[6] /\ b[7 - i] = r[7] /\ b[8 - i] = r[8]
  BY InWindow
<1>3. /\ y \in 0..(Len(b) - 4) /\ 5 - i = y + 1 /\ 6 - i = y + 2 /\ 7 - i = y + 3
      /\ 8 - i = y + 4
  BY <1>1
<1> HIDE DEF y
<1>4. b[y + 1] = Sign("CR") /\ b[y + 2] = Sign("LF") /\ b[y + 3] = Sign("CR") /\ b[y + 4] = Sign("LF")
  BY <1>2, <1>3, HeadIs
<1> DEFINE d == CRLF \o CRLF
<1>5. /\ Len(d) = 4 /\ DOMAIN d = {1, 2, 3, 4} /\ d[1] = Sign("CR") /\ d[2] = Sign("LF")
      /\ d[3] = Sign("CR") /\ d[4] = Sign("LF")
  BY BlankIs
<1> HIDE DEF d
<1>6. \A k \in DOMAIN d : b[y + k] = d[k]
  BY <1>4, <1>5
<1>7. Holds(b, d)
  BY <1>3, <1>5, <1>6 DEF Holds
<1> QED
  BY <1>7 DEF d

\* What is held is as long as the delimiter, and begins with its first token.
LEMMA HeldIs ==
  ASSUME NEW b \in Tokens
  PROVE  /\ Holds(b, CRLF) => Len(b) >= 2
         /\ Holds(b, CRLF \o CRLF) => \E y \in Nat : y + 4 <= Len(b) /\ b[y + 1].kind = "CR"
<1>1. Len(b) \in Nat
  BY Pieces
<1>2. ASSUME Holds(b, CRLF) PROVE Len(b) >= 2
  <2>1. Len(CRLF) = 2
    BY TokenTypes
  <2>2. PICK y \in 0..(Len(b) - 2) : TRUE
    BY <1>2, <2>1 DEF Holds
  <2> QED
    BY <1>1, <2>2
<1>3. ASSUME Holds(b, CRLF \o CRLF) PROVE \E y \in Nat : y + 4 <= Len(b) /\ b[y + 1].kind = "CR"
  <2> DEFINE d == CRLF \o CRLF
  <2>1. Len(d) = 4 /\ 1 \in DOMAIN d /\ d[1] = Sign("CR")
    BY BlankIs
  <2> HIDE DEF d
  <2>2. Holds(b, d)
    BY <1>3 DEF d
  <2>3. PICK y \in 0..(Len(b) - 4) : \A k \in DOMAIN d : b[y + k] = d[k]
    BY <2>1, <2>2 DEF Holds
  <2>4. b[y + 1].kind = "CR"
    BY <2>1, <2>3, SignIs
  <2>5. y \in Nat /\ y + 4 <= Len(b)
    BY <1>1, <2>3
  <2> QED
    BY <2>4, <2>5
<1> QED
  BY <1>2, <1>3

\* Behind the headers of an answer that is all there, or behind a chunk, there is
\* a line end.
LEMMA ChunkLineHolds ==
  ASSUME NEW m \in Messages, NEW e \in Nat, NEW L \in Leftovers, NEW i \in Int,
         NEW b, Window(b, m, e, L, i, End(m, e)), m.framing = "chunked",
         NEW p \in Parsers, Follows(p, m, e, i), p.at \in {"headers", "chunk_lf"}
  PROVE  Holds(b, CRLF)
<1> DEFINE N == Len(m.parts)
           o == Offset(m, N + 1)
<1>1. N \in Nat /\ N + 1 \in 1..(N + 1)
  BY PartsType
<1>2. /\ o \in Nat /\ o >= 8 /\ End(m, e) = o + 5
      /\ Render(m, e)[o + 2] = Sign("CR") /\ Render(m, e)[o + 3] = Sign("LF")
  <2>1. /\ End(m, e) = Offset(m, N + 1) + 5
        /\ \A c \in 1..(N + 1) :
             /\ Offset(m, c) \in Nat /\ Offset(m, c) >= 8
             /\ Render(m, e)[Offset(m, c) + 2] = Sign("CR")
             /\ Render(m, e)[Offset(m, c) + 3] = Sign("LF")
    BY ChunkedIs
  <2> HIDE DEF N
  <2> QED
    BY <1>1, <2>1
<1>3. i <= o
  <2>1. CASE p.at = "headers"
    <3>1. i <= 7
      BY <2>1, PositionIs DEF HeadStates
    <3> QED
      BY <1>2, <3>1
  <2>2. CASE p.at = "chunk_lf"
    <3>1. PICK c \in 1..(N + 1) : InChunk(p, m, e, i, c)
      BY <2>2 DEF Follows, AtEnd, HeadStates, BodyStates
    <3>2. c <= N /\ i = Offset(m, c) + 4 + m.parts[c]
      BY <2>2, <3>1 DEF InChunk
    <3>3. /\ Offset(m, c) \in Nat /\ Announced(m, c) = m.parts[c] /\ m.parts[c] \in Nat
          /\ c + 1 \in 1..(N + 1) /\ Offset(m, c + 1) = Offset(m, c) + m.parts[c] + 5
      BY <3>2, ChunkAt
    <3>4. Offset(m, c + 1) \in Nat /\ Offset(m, c + 1) + 5 <= End(m, e)
      BY <3>3, ChunkAt
    <3> DEFINE f == Offset(m, c)
               g == Offset(m, c + 1)
               a == m.parts[c]
    <3>5. i = f + 4 + a /\ g = f + a + 5 /\ f \in Nat /\ a \in Nat /\ g \in Nat /\ g + 5 <= End(m, e)
      BY <3>2, <3>3, <3>4
    <3> HIDE DEF f, g, a, o
    <3> QED
      BY <1>2, <3>5
  <2> QED
    BY <2>1, <2>2
<1> HIDE DEF o, N
<1>4. o + 1 \in Nat /\ i <= o + 1 /\ (o + 1) + 2 <= End(m, e) /\ (o + 1) + 1 = o + 2 /\ (o + 1) + 2 = o + 3
      /\ End(m, e) \in Int
  BY <1>2, <1>3
<1> QED
  BY <1>2, <1>4, HoldsLine

\* An answer that is all in response_buf has what its reads ask for.
LEMMA HasEnough ==
  ASSUME Types, NEW L \in Leftovers, NEW i \in Int, NEW j \in Int, NEW k \in Int,
         Located(message, asked, rx, buf, wire, L, i, j, k), Ends(k), Doing(L, i), Whole,
         First, whole, intact, op \notin {"none", "read_until_eof"}
  PROVE  Amounts # {}
<1> DEFINE m == message
           e == asked
           n == End(m, e)
<1>1. m \in Messages /\ e \in Nat
  BY MessagesAssumption DEF Types, TypeOK
<1>2. n \in Nat /\ n >= 8 /\ k = n /\ L = <<>> /\ Len(L) = 0
  BY <1>1, HeadIs DEF Ends, Located, First
<1>3. /\ 0 <= i /\ i <= j /\ j <= k /\ Window(buf, m, e, L, i, j) /\ Window(wire, m, e, L, j, k)
      /\ Follows(rx, m, e, i)
  BY <1>2 DEF Located
<1>4. /\ Len(buf) = j - i /\ Len(wire) = k - j /\ rx \in Parsers /\ buf \in Tokens /\ wire \in Tokens
      /\ rx.length \in Nat
  BY <1>3 DEF Window, Types, Parsers, ParserType
<1> HIDE DEF m, e, n
<1>5. ASSUME op # "read_status" PROVE j = n
  <2>1. wire = <<>>
    BY <1>5 DEF Whole
  <2>2. Len(wire) = 0
    BY <2>1
  <2> QED
    BY <1>2, <1>3, <1>4, <2>2
<1>6. ASSUME op # "read_status" PROVE Window(buf, m, e, L, i, n)
  BY <1>3, <1>5, <1>6
<1>7. CASE op = "read_status"
  <2>a. i = 0 - Len(L) /\ buf = <<>>
    BY <1>7, Zenon DEF Doing
  <2>1. i = 0 /\ buf = <<>>
    BY <1>2, <2>a
  <2>2. Len(buf) = 0
    BY <2>1
  <2>3. j = 0 /\ 3 \in 0..Len(wire) /\ 3 \in 1..Len(wire)
    BY <1>2, <1>3, <1>4, <2>1, <2>2
  <2>4. Window(buf \o SubSeq(wire, 1, 3), m, e, L, 0, 0 + 3)
    BY <1>1, <1>3, <1>4, <2>1, <2>3, Extended
  <2>5. Holds(buf \o SubSeq(wire, 1, 3), CRLF)
    <3>1. Window(buf \o SubSeq(wire, 1, 3), m, e, L, 0, 3)
      BY <2>4
    <3>2. Render(m, e)[1 + 1] = Sign("CR") /\ Render(m, e)[1 + 2] = Sign("LF")
      BY <1>1, HeadIs
    <3> DEFINE b == buf \o SubSeq(wire, 1, 3)
    <3> HIDE DEF b
    <3>3. Holds(b, CRLF)
      BY <1>1, <3>1, <3>2, HoldsLine DEF b
    <3> QED
      BY <3>3 DEF b
  <2>6. Until(CRLF) # {}
    BY <2>3, <2>5 DEF Until
  <2> QED
    BY <1>7, <2>6 DEF Amounts
<1>8. CASE op = "read_headers"
  <2>1. i <= 2
    <3>1. rx.at = "line"
      BY <1>8 DEF Doing
    <3>2. InHead(rx, m, i)
      BY <1>1, <1>3, <1>4, <3>1, PositionIs DEF HeadStates
    <3> QED
      BY <3>1, <3>2 DEF InHead
  <2>2. Holds(buf, CRLF \o CRLF)
    BY <1>1, <1>2, <1>6, <1>8, <2>1, HeadersHold
  <2> QED
    BY <1>8, <2>2 DEF Amounts, Until
<1>9. CASE op = "read_chunk_header"
  <2>1. rx.headers = "chunked" /\ rx.at \in {"headers", "chunk_lf"}
    BY <1>9 DEF Doing, Whole
  <2>2. m.framing = "chunked"
    BY <1>1, <1>3, <1>4, <2>1, HeadersAre
  <2>3. Holds(buf, CRLF)
    BY <1>1, <1>3, <1>4, <1>6, <1>9, <2>1, <2>2, ChunkLineHolds DEF n
  <2> QED
    BY <1>9, <2>3 DEF Amounts, Until
<1>10. CASE op = "read_content_length"
  <2>1. rx.headers = "length" /\ rx.at = "headers"
    BY <1>10 DEF Doing
  <2>2. m.framing = "length"
    BY <1>1, <1>3, <1>4, <2>1, HeadersAre
  <2>3. InHead(rx, m, i)
    BY <1>1, <1>3, <1>4, <2>1, PositionIs DEF HeadStates
  <2>4. i = 7 /\ rx.length = Size(m)
    BY <2>1, <2>2, <2>3 DEF InHead
  <2>5. n = 8 + Size(m) /\ Size(m) \in Nat
    BY <1>1, <2>2, PlainIs DEF n
  <2>6. Missing <= 0
    BY <1>4, <1>5, <1>10, <2>4, <2>5 DEF Missing
  <2> QED
    BY <1>10, <2>6 DEF Amounts, AtLeast
<1>11. CASE op = "read_chunk_data"
  <2>1. rx.headers = "chunked" /\ rx.at = "chunk" /\ rx.left = rx.length
    BY <1>11 DEF Doing, Whole
  <2> DEFINE N == Len(m.parts)
  <2>2. PICK c \in 1..(N + 1) : InChunk(rx, m, e, i, c)
    BY <1>3, <2>1 DEF Follows, AtEnd, HeadStates, BodyStates
  <2>3. /\ c <= N /\ rx.length = m.parts[c] /\ i = Offset(m, c) + 3 + m.parts[c] - rx.left
        /\ m.framing = "chunked"
    BY <2>1, <2>2 DEF InChunk
  <2>4. /\ Offset(m, c) \in Nat /\ m.parts[c] \in Nat /\ Offset(m, c + 1) = Offset(m, c) + m.parts[c] + 5
        /\ c + 1 \in 1..(N + 1)
    BY <1>1, <2>3, ChunkAt
  <2>5. Offset(m, c + 1) + 5 <= n
    BY <1>1, <2>3, <2>4, ChunkAt DEF n
  <2> DEFINE o == Offset(m, c)
             a == m.parts[c]
  <2>6. o \in Nat /\ a \in Nat /\ i = o + 3 + a - a /\ rx.length = a /\ o + a + 5 + 5 <= n
    BY <2>1, <2>3, <2>4, <2>5
  <2> HIDE DEF o, a, N
  <2>7. Missing <= 0
    BY <1>2, <1>4, <1>5, <1>11, <2>6 DEF Missing
  <2> QED
    BY <1>11, <2>7 DEF Amounts, AtLeast
<1> QED
  BY <1>7, <1>8, <1>9, <1>10, <1>11 DEF Types, TypeOK

-----------------------------------------------------------------------------
(* The handlers.                                                           *)

\* The read c completes with all there is up to position y.
Reaches(L, i, j, k, c, y) ==
  /\ y = j + c.took /\ j <= y /\ y <= k /\ k <= End(message, asked)
  /\ Window(Filled(c), message, asked, L, i, y) /\ Window(wire', message, asked, L, y, k)
  /\ Len(Filled(c)) = y - i /\ Len(wire') = k - y /\ Filled(c) \in Tokens
  /\ c.ec = "eof" => y = k /\ closed /\ cutoff'
  /\ c.ec = "eof" /\ First /\ whole' /\ intact => op = "read_until_eof"
  /\ whole' => whole
  /\ whole' /\ intact => y = End(message, asked) /\ wire' = <<>>
  /\ IsPrefix(rx.raw, Body(message, asked))

\* What every handler may assume of the read,
LEMMA ReadsOn ==
  ASSUME Types, op # "none", NEW L \in Leftovers, NEW i \in Int, NEW j \in Int, NEW k \in Int,
         Located(message, asked, rx, buf, wire, L, i, j, k), Ends(k), Doing(L, i), Whole,
         NEW c \in Completions, Receive(c)
  PROVE  \E y \in Int : Reaches(L, i, j, k, c, y)
<1> DEFINE m == message
           e == asked
           y == j + c.took
<1>1. m \in Messages /\ e \in Nat /\ rx \in Parsers
  BY MessagesAssumption DEF Types, TypeOK
<1>2. /\ i <= j /\ j <= k /\ k <= End(m, e) /\ Follows(rx, m, e, i)
      /\ Window(buf, m, e, L, i, j) /\ Window(wire, m, e, L, j, k)
  BY DEF Located
<1>3. End(m, e) \in Nat
  BY <1>1, HeadIs
<1> HIDE DEF m, e, y
<1>4. /\ y \in Int /\ j <= y /\ y <= k
      /\ Window(Filled(c), m, e, L, i, y) /\ Window(wire', m, e, L, y, k)
      /\ c.ec = "eof" => y = k
  BY <1>1, <1>2, Received DEF y
<1>5. Len(Filled(c)) = y - i /\ Len(wire') = k - y /\ Filled(c) \in Tokens
  BY <1>4 DEF Window
<1>6. c.ec = "eof" => closed /\ cutoff' /\ Amounts = {}
  BY CompletionIs DEF Receive
<1>7. whole' => whole /\ wire' = <<>>
  BY DEF Receive
<1>8. whole' /\ intact => y = End(m, e) /\ wire' = <<>>
  <2>1. SUFFICES ASSUME whole', intact PROVE y = End(m, e)
    BY <1>7
  <2>2. Len(wire') = 0
    BY <1>7, <2>1
  <2>3. k = End(m, e)
    BY <2>1 DEF Ends, m, e
  <2> QED
    BY <1>3, <1>4, <1>5, <2>2, <2>3
<1>9. c.ec = "eof" /\ First /\ whole' /\ intact => op = "read_until_eof"
  BY <1>6, <1>7, HasEnough
<1>10. IsPrefix(rx.raw, Body(m, e))
  <2>1. i <= End(m, e)
    BY <1>2, <1>3
  <2> QED
    BY <1>1, <1>2, <2>1, FollowsPrefix
<1> QED
  BY <1>2, <1>4, <1>5, <1>6, <1>7, <1>8, <1>9, <1>10 DEF Reaches, m, e, y

\* The parser is given what response_buf holds then, and is q, at position x.
Parses(L, i, k, c, y, q, x) ==
  /\ q = Execute(Filled(c)) /\ Ran(rx, q, message, asked, i, y - i)
  /\ x = i + q.taken /\ i <= x /\ x <= y
  /\ rx' \in Parsers
  /\ rx'.at = q.at /\ rx'.raw = q.raw /\ SameHead(q, rx') /\ SameSize(q, rx')
  /\ TookNothing(Filled(c)) = (x = i)
  /\ IsPrefix(rx'.raw, Body(message, asked))
  /\ asked = 1 \/ x # i => /\ Located(message, asked, rx', buf', wire', L, x, y, k)
                           /\ Follows(rx', message, asked, x) /\ Follows(q, message, asked, x)
  /\ x # i => q.taken # 0 /\ ~Failed(q)
  /\ ~q.halted => x = y
  /\ y - i > 0 /\ rx.at \notin {"start", "blank", "body"} => x # i
  /\ q.halted => q.at \in {"line", "headers", "done", "trailer", "chunk", "chunk_lf", "error"}

\* and of the call of execute() that follows.
LEMMA ParsesOn ==
  ASSUME Types, NEW L \in Leftovers, NEW i \in Int, NEW j \in Int, NEW k \in Int,
         Located(message, asked, rx, buf, wire, L, i, j, k),
         NEW c \in Completions, NEW y \in Int, Reaches(L, i, j, k, c, y), Parse(Filled(c))
  PROVE  \E q \in Parsers, x \in Int : Parses(L, i, k, c, y, q, x)
<1> DEFINE m == message
           e == asked
           b == Filled(c)
           q == Execute(b)
           x == i + q.taken
<1>1. m \in Messages /\ e \in Nat /\ rx \in Parsers
  BY MessagesAssumption DEF Types, TypeOK
<1>2. /\ 0 - Len(L) <= i /\ i <= j /\ j <= y /\ y <= k /\ 0 <= k /\ k <= End(m, e)
      /\ Follows(rx, m, e, i) /\ Window(b, m, e, L, i, y) /\ Window(wire', m, e, L, y, k)
      /\ (e = 1 => L = <<>>) /\ Len(b) = y - i
  BY DEF Located, Reaches
<1>3. End(m, e) \in Nat /\ Len(L) \in Nat
  BY <1>1, HeadIs, LeftoverIs
<1> HIDE DEF m, e, b
<1>4. i <= y /\ y <= End(m, e) /\ Parse(b)
  BY <1>2, <1>3 DEF b
<1>5. /\ Ran(rx, q, m, e, i, Len(b)) /\ q \in Parsers /\ rx' \in Parsers
      /\ q.taken \in 0..Len(b) /\ i + q.taken <= y
      /\ Window(buf', m, e, L, i + q.taken, y)
      /\ TookNothing(b) = (q.taken = 0)
      /\ rx'.at = q.at /\ rx'.raw = q.raw /\ SameHead(q, rx') /\ SameSize(q, rx')
      /\ Follows(rx', m, e, i + q.taken) \/ (Failed(q) /\ i < 0)
  BY <1>1, <1>2, <1>4, Parsed
<1> HIDE DEF q
<1>6. Placed(rx, q, m, e, i, y - i)
  BY <1>2, <1>5 DEF Ran
<1>7. /\ x \in Int /\ i <= x /\ x <= y /\ (x = i) = (q.taken = 0)
  BY <1>2, <1>5
<1>8. ASSUME e = 1 \/ x # i
      PROVE  Follows(rx', m, e, x) /\ Located(m, e, rx', buf', wire', L, x, y, k) /\ Follows(q, m, e, x)
  <2>1. ~(Failed(q) /\ i < 0)
    <3>1. CASE e = 1
      <4>1. Len(L) = 0
        BY <1>2, <3>1
      <4> QED
        BY <1>2, <4>1
    <3>2. CASE x # i
      BY <1>7, <3>2 DEF Failed
    <3> QED
      BY <1>8, <3>1, <3>2
  <2>2. Follows(rx', m, e, x)
    BY <1>5, <2>1
  <2>3. 0 - Len(L) <= x
    BY <1>2, <1>3, <1>7
  <2>4. Follows(q, m, e, x)
    <3>1. q.at = rx'.at /\ q.raw = rx'.raw /\ SameHead(rx', q) /\ SameSize(rx', q)
      BY <1>5 DEF SameHead, SameSize
    <3> QED
      BY <1>1, <1>7, <2>2, <3>1, FollowsSame
  <2> QED
    BY <1>2, <1>5, <1>7, <2>2, <2>3, <2>4 DEF Located
<1>9. IsPrefix(rx'.raw, Body(m, e))
  <2>1. CASE Follows(rx', m, e, x)
    <3>1. x <= End(m, e)
      BY <1>3, <1>4, <1>7
    <3> QED
      BY <1>1, <1>5, <1>7, <2>1, <3>1, FollowsPrefix
  <2>2. CASE Failed(q)
    <3>1. RawIs(rx', e, 0) /\ 0 \in 0..Size(m)
      BY <1>1, <1>5, <2>2, RawEmpty, SizeBounds DEF Failed
    <3> QED
      BY <1>1, <1>5, <3>1, RawIsPrefix
  <2> QED
    BY <1>5, <2>1, <2>2
<1>10. /\ ~q.halted => x = y
       /\ y - i > 0 /\ rx.at \notin {"start", "blank", "body"} => x # i
       /\ q.halted => q.at \in {"line", "headers", "done", "trailer", "chunk", "chunk_lf", "error"}
  <2>1. /\ ~q.halted => q.taken = y - i
        /\ y - i > 0 /\ rx.at \notin {"start", "blank", "body"} => q.taken > 0
        /\ q.halted => q.at \in {"line", "headers", "done", "trailer", "chunk", "chunk_lf", "error"}
    BY <1>6 DEF Placed
  <2>2. y \in Int /\ q.taken \in Int
    BY <1>5
  <2> QED
    BY <1>7, <2>1, <2>2
<1>11. x # i => q.taken # 0 /\ ~Failed(q)
  BY <1>7 DEF Failed
<1>12. Ran(rx, q, m, e, i, y - i)
  BY <1>2, <1>5
<1> HIDE DEF x
<1>13. x = i + q.taken /\ q = Execute(b)
  BY DEF x, q
<1>14. Parses(L, i, k, c, y, q, x)
  BY <1>5, <1>7, <1>8, <1>9, <1>10, <1>11, <1>12, <1>13 DEF Parses, m, e, b
<1> QED
  BY <1>5, <1>7, <1>14

Goes == (op' = "none" => Over') /\ (op' # "none" => Underway')

\* What is known of the exchange from its place in the stream.
LEMMA PlaceIs ==
  ASSUME Types, NEW L \in Leftovers, NEW i \in Int, NEW j \in Int, NEW k \in Int,
         Located(message, asked, rx, buf, wire, L, i, j, k)
  PROVE  /\ message \in Messages /\ asked \in Nat /\ rx \in Parsers
         /\ Follows(rx, message, asked, i) /\ 0 - Len(L) <= i /\ Len(L) \in Nat
         /\ (First => L = <<>> /\ i >= 0)
         /\ End(message, asked) \in Nat /\ End(message, asked) >= 8
         /\ UNCHANGED exchangeVars => First' = First
<1>1. message \in Messages /\ asked \in Nat /\ rx \in Parsers
  BY MessagesAssumption DEF Types, TypeOK
<1>2. Follows(rx, message, asked, i) /\ 0 - Len(L) <= i /\ (asked = 1 => L = <<>>)
  BY DEF Located
<1>3. First => L = <<>>
  BY <1>2 DEF First
<1>4. L = <<>> => Len(L) = 0
  OBVIOUS
<1>5. Len(L) \in Nat
  BY LeftoverIs
<1>6. First => L = <<>> /\ i >= 0
  BY <1>2, <1>3, <1>4
<1>7. UNCHANGED exchangeVars => First' = First
  BY DEF First, exchangeVars
<1> QED
  BY <1>1, <1>2, <1>5, <1>6, <1>7, HeadIs

\* on_read_status() keeps the invariant: it leaves the LF of the status line.
LEMMA StatusRead ==
  ASSUME Types, Underway, OnReadStatus
  PROVE  Goes
<1> DEFINE m == message
           e == asked
<1>1. op = "read_status" /\ UNCHANGED exchangeVars
  BY DEF OnReadStatus
<1>2. PICK c \in Completions :
        /\ Receive(c)
        /\ IF c.ec = "eof" THEN Unparsed(Filled(c)) /\ Finish("READ_STATUS_ERROR")
           ELSE /\ Parse(Filled(c))
                /\ IF TookNothing(Filled(c)) THEN Finish("READ_STATUS_DATA_ERROR")
                   ELSE Read("read_headers")
  BY DEF OnReadStatus
<1>3. PICK L \in Leftovers, i \in Int, j \in Int, k \in Int :
        Located(message, asked, rx, buf, wire, L, i, j, k) /\ Ends(k) /\ Doing(L, i) /\ Whole
  BY DEF Underway
<1>4. PICK y \in Int : Reaches(L, i, j, k, c, y)
  BY <1>1, <1>2, <1>3, ReadsOn
<1>5. /\ m \in Messages /\ e \in Nat /\ rx \in Parsers /\ Follows(rx, m, e, i)
      /\ 0 - Len(L) <= i /\ Len(L) \in Nat /\ (First => L = <<>> /\ i >= 0)
      /\ End(m, e) \in Nat /\ End(m, e) >= 8 /\ First' = First
  BY <1>1, <1>3, PlaceIs
<1>6. rx = FreshRx /\ buf = <<>> /\ i = 0 - Len(L)
  BY <1>1, <1>3, Zenon DEF Doing
<1>7. i <= 0
  BY <1>5, <1>6
<1>8. CASE c.ec = "eof"
  <2>1. rx' = rx /\ op' = "none" /\ outcome' = "READ_STATUS_ERROR"
    BY <1>2, <1>8 DEF Unparsed, Finish
  <2>2. IsPrefix(rx'.raw, Body(message, asked)) /\ ~(First /\ whole' /\ intact)
    BY <1>1, <1>4, <1>8, <2>1 DEF Reaches
  <2> QED
    BY <1>1, <2>1, <2>2, GoesWrong DEF Goes
<1>9. CASE c.ec # "eof"
  <2>1. Parse(Filled(c))
    BY <1>2, <1>9
  <2>2. PICK q \in Parsers, x \in Int : Parses(L, i, k, c, y, q, x)
    BY <1>3, <1>4, <2>1, ParsesOn
  <2>3. Holds(Filled(c), CRLF)
    <3>1. c.took \in Amounts
      BY <1>9, CompletionIs
    <3> QED
      BY <1>1, <3>1, UntilHolds DEF Amounts, Filled
  <2>4. y - i >= 2
    BY <1>4, <2>3, HeldIs DEF Reaches
  <2>5. ASSUME First PROVE q.at = "line" /\ x # i /\ rx'.at = "line"
    <3>1. L = <<>> /\ i = 0
      BY <1>5, <1>7, <2>5
    <3>2. m.reason /\ y >= 2
      BY <2>4, <2>5, <3>1 DEF First
    <3>3. Window(Filled(c), m, e, <<>>, 0, y)
      BY <1>4, <3>1 DEF Reaches
    <3>4. q.at = "line" /\ q.taken = 2
      <4>1. q = Execute(Filled(c))
        BY <2>2 DEF Parses
      <4> QED
        BY <1>5, <1>6, <3>2, <3>3, <4>1, FirstLine
    <3>5. x = i + 2 /\ rx'.at = "line"
      BY <2>2, <3>4 DEF Parses
    <3> QED
      BY <3>1, <3>4, <3>5
  <2>6. CASE x = i
    <3>1. op' = "none" /\ outcome' = "READ_STATUS_DATA_ERROR"
      BY <1>2, <1>9, <2>2, <2>6 DEF Parses, Finish
    <3>2. IsPrefix(rx'.raw, Body(message, asked)) /\ ~First
      BY <2>2, <2>5, <2>6 DEF Parses
    <3> QED
      BY <1>1, <3>1, <3>2, GoesWrong DEF Goes
  <2>7. CASE x # i
    <3>1. op' = "read_headers"
      BY <1>2, <1>9, <2>2, <2>7 DEF Parses, Read
    <3>2. Located(m, e, rx', buf', wire', L, x, y, k)
      BY <2>2, <2>7 DEF Parses
    <3>3. x <= 7
      <4>1. rx.at = "start"
        BY <1>6, FreshType
      <4>2. q.at \in HeadStates /\ InHead(q, m, i + q.taken)
        <5>1. PausesAtHeaders(rx, q, m, e, i) /\ ~Failed(q)
          BY <2>2, <2>7 DEF Parses, Ran
        <5> QED
          BY <1>7, <4>1, <5>1 DEF PausesAtHeaders, HeadStates
      <4>3. x = i + q.taken
        BY <2>2 DEF Parses
      <4>4. q.at \in HeadStates /\ InHead(q, m, x)
        BY <4>2, <4>3
      <4> HIDE DEF m
      <4>5. x <= 0 \/ x \in {1, 2, 3, 4, 5, 6, 7}
        BY <4>4 DEF InHead, HeadStates
      <4> QED
        BY <4>5
    <3>4. Doing(L, x)'
      BY <1>5, <2>5, <3>1, <3>3 DEF Doing
    <3>5. Whole'
      <4>1. whole' /\ intact => wire' = <<>>
        BY <1>4 DEF Reaches
      <4>2. intact' = intact
        BY <1>1 DEF exchangeVars
      <4> QED
        BY <3>1, <4>1, <4>2 DEF Whole
    <3>6. Underway'
      BY <1>1, <1>3, <3>2, <3>4, <3>5, GoesOn
    <3> QED
      BY <3>1, <3>6 DEF Goes
  <2> QED
    BY <2>6, <2>7
<1> QED
  BY <1>8, <1>9

\* Nothing behind position 7 of an answer with a Content-Length is a line end.
LEMMA NoBlank ==
  ASSUME NEW m \in Messages, NEW e \in Nat, NEW L \in Leftovers, NEW y \in Int,
         y <= End(m, e), NEW b, Window(b, m, e, L, 7, y), m.framing = "length"
  PROVE  ~Holds(b, CRLF \o CRLF)
<1>1. b \in Tokens /\ Len(b) = y - 7
  BY DEF Window
<1>2. SUFFICES ASSUME NEW h \in Nat, h + 4 <= Len(b), b[h + 1].kind = "CR" PROVE FALSE
  BY <1>1, HeldIs
<1>3. End(m, e) = 8 + Size(m) /\ \A n \in 1..Size(m) : Render(m, e)[8 + n] = Token("byte", n, e)
  BY PlainIs
<1>4. Render(m, e)[8] = Sign("LF") /\ Size(m) \in Nat
  BY HeadIs, SizeBounds
<1> DEFINE z == h + 8
<1>5. z \in Nat /\ z > 0 /\ 7 < z /\ z <= y /\ z - 7 = h + 1
  BY <1>1, <1>2
<1>6. b[h + 1] = Render(m, e)[z]
  BY <1>5, InWindow
<1>7. CASE h = 0
  <2>1. Render(m, e)[z].kind = "LF"
    BY <1>4, <1>7, SignIs
  <2> QED
    BY <1>2, <1>6, <2>1
<1>8. CASE h # 0
  <2>1. h \in 1..Size(m) /\ z = 8 + h
    BY <1>1, <1>3, <1>4, <1>5, <1>8
  <2>2. Render(m, e)[z].kind = "byte"
    BY <1>3, <2>1, SignIs
  <2> QED
    BY <1>2, <1>6, <2>2
<1> QED
  BY <1>7, <1>8

\* From position 2 on, there is no empty line up to position 7.
LEMMA NoBlankYet ==
  ASSUME NEW m \in Messages, NEW e \in Nat, NEW L \in Leftovers, NEW y \in Int,
         y <= 7, NEW b, Window(b, m, e, L, 2, y)
  PROVE  ~Holds(b, CRLF \o CRLF)
<1>1. b \in Tokens /\ Len(b) = y - 2
  BY DEF Window
<1>2. SUFFICES ASSUME NEW h \in Nat, h + 4 <= Len(b), b[h + 1].kind = "CR" PROVE FALSE
  BY <1>1, HeldIs
<1>3. h \in {0, 1} /\ y >= h + 6
  BY <1>1, <1>2
<1>4. b[3 - 2] = Render(m, e)[3] /\ (h = 1 => b[4 - 2] = Render(m, e)[4])
  BY <1>3, InWindow
<1>5. Render(m, e)[3].kind = "LF" /\ Render(m, e)[4].kind = m.framing /\ m.framing \in Framing
  BY HeadIs, SignIs, PartsType
<1>6. CASE h = 0
  BY <1>2, <1>4, <1>5, <1>6
<1>7. CASE h = 1
  BY <1>2, <1>4, <1>5, <1>7 DEF Framing
<1> QED
  BY <1>3, <1>6, <1>7

\* on_read_headers() keeps the invariant: the parser is in front of the last LF of
\* the headers, or the stream ended within them.
LEMMA HeadersRead ==
  ASSUME Types, Underway, OnReadHeaders
  PROVE  Goes
<1> DEFINE m == message
           e == asked
<1>1. op = "read_headers" /\ UNCHANGED exchangeVars
  BY DEF OnReadHeaders
<1>2. PICK c \in Completions :
       /\ Receive(c) /\ Parse(Filled(c))
       /\ IF TookNothing(Filled(c)) THEN Finish("READ_HEADERS_ERROR")
          ELSE Read(ContentRead(rx'.headers))
  BY DEF OnReadHeaders
<1>3. PICK L \in Leftovers, i \in Int, j \in Int, k \in Int :
        Located(message, asked, rx, buf, wire, L, i, j, k) /\ Ends(k) /\ Doing(L, i) /\ Whole
  BY DEF Underway
<1>4. PICK y \in Int : Reaches(L, i, j, k, c, y)
  BY <1>1, <1>2, <1>3, ReadsOn
<1>5. /\ m \in Messages /\ e \in Nat /\ rx \in Parsers /\ Follows(rx, m, e, i)
      /\ 0 - Len(L) <= i /\ Len(L) \in Nat /\ (First => L = <<>> /\ i >= 0)
      /\ End(m, e) \in Nat /\ End(m, e) >= 8 /\ First' = First
  BY <1>1, <1>3, PlaceIs
<1>6. i <= 7 /\ (First => rx.at = "line")
  BY <1>1, <1>3 DEF Doing
<1>7. First => i = 2
  <2>1. SUFFICES ASSUME First PROVE i = 2
    OBVIOUS
  <2>2. InHead(rx, m, i)
    BY <1>5, <1>6, <2>1, PositionIs DEF HeadStates
  <2> QED
    BY <1>6, <2>1, <2>2 DEF InHead
<1>8. PICK q \in Parsers, x \in Int : Parses(L, i, k, c, y, q, x)
  BY <1>2, <1>3, <1>4, ParsesOn
<1>9. c.ec = "eof" \/ Holds(Filled(c), CRLF \o CRLF)
  <2>1. c.ec # "eof" => c.took \in Until(CRLF \o CRLF)
    BY <1>1, CompletionIs DEF Amounts
  <2> QED
    BY <2>1, UntilHolds DEF Filled
<1>10. c.ec = "eof" => closed /\ wire' = <<>>
  <2>1. c.ec = "eof" => closed /\ Len(wire') = 0 /\ wire' \in Tokens
    BY <1>4 DEF Reaches, Window
  <2> QED
    BY <2>1 DEF Tokens
<1>11. CASE x = i
  <2>1. op' = "none" /\ outcome' = "READ_HEADERS_ERROR"
    BY <1>2, <1>8, <1>11 DEF Parses, Finish
  <2>2. ~(First /\ whole' /\ intact)
    <3>1. SUFFICES ASSUME First, whole', intact PROVE FALSE
      OBVIOUS
    <3>2. y - i > 0
      <4>1. y = End(m, e)
        BY <1>4, <3>1 DEF Reaches
      <4> QED
        BY <1>5, <1>7, <3>1, <4>1
    <3> QED
      BY <1>6, <1>8, <1>11, <3>1, <3>2 DEF Parses
  <2>3. IsPrefix(rx'.raw, Body(message, asked))
    BY <1>8 DEF Parses
  <2> QED
    BY <1>1, <2>1, <2>2, <2>3, GoesWrong DEF Goes
<1>12. CASE x # i
  <2>1. op' = ContentRead(rx'.headers)
    BY <1>2, <1>8, <1>12 DEF Parses, Read
  <2>2. op' # "none" /\ op' \notin {"read_status", "read_headers", "read_chunk_data"}
    BY <2>1 DEF ContentRead
  <2>3. /\ op' = "read_content_length" => rx'.headers = "length"
        /\ op' = "read_chunk_header" => rx'.headers = "chunked"
        /\ op' = "read_until_eof" => rx'.headers \in {"eof", "unread"}
    <3>1. rx'.headers \in Framing \cup {"unread"}
      BY <1>8 DEF Parses, Parsers, ParserType
    <3> QED
      BY <2>1, <3>1 DEF ContentRead, Framing
  <2>4. Located(m, e, rx', buf', wire', L, x, y, k)
    BY <1>8, <1>12 DEF Parses
  <2>5. ASSUME rx.at # "headers"
        PROVE  /\ q.at \in HeadStates /\ InHead(q, m, x) /\ rx'.at = q.at
               /\ rx'.headers # "unread" => rx'.at = "headers"
    <3>1. rx.at \in HeadStates
      <4>1. rx.at \notin BodyStates \cup ChunkStates
        BY <1>5, <1>6, PositionIs
      <4> QED
        BY <1>5, <4>1, PositionIs
    <3>2. PausesAtHeaders(rx, q, m, e, i) /\ ~Failed(q) /\ x = i + q.taken /\ rx'.at = q.at /\ SameHead(q, rx')
      BY <1>8, <1>12 DEF Parses, Ran
    <3>3. i < 8
      BY <1>6
    <3>4. q.at \in HeadStates /\ InHead(q, m, x)
      BY <2>5, <3>1, <3>2, <3>3 DEF PausesAtHeaders
    <3>5. q.headers # "unread" => q.at = "headers"
      BY <3>4 DEF InHead
    <3> QED
      BY <3>2, <3>4, <3>5 DEF SameHead
  <2>6. ASSUME First PROVE rx.at # "headers" /\ i = 2
    BY <1>6, <1>7, <2>6
  \* The end of the stream in the middle of the headers.
  <2>7. ASSUME First, rx'.headers = "unread"
        PROVE  buf' = <<>> /\ wire' = <<>> /\ y <= 7
    <3>1. q.at \in HeadStates /\ InHead(q, m, x) /\ q.headers = "unread"
      BY <1>8, <2>5, <2>6, <2>7 DEF Parses, SameHead
    <3>2. ~q.halted
      <4>1. SUFFICES ASSUME q.halted PROVE FALSE
        OBVIOUS
      <4>2. q.at \in {"line", "headers"}
        BY <1>8, <3>1, <4>1 DEF Parses, HeadStates
      <4>3. q.at = "line"
        <5>1. m.framing # "unread"
          BY <1>5, PartsType DEF Framing
        <5> QED
          BY <3>1, <4>2, <5>1 DEF InHead
      <4>4. x = 2
        BY <3>1, <4>3 DEF InHead
      <4> QED
        BY <1>12, <2>6, <2>7, <4>4
    <3>3. x = y
      BY <1>8, <3>2 DEF Parses
    <3>4. x <= 7
      <4> HIDE DEF m
      <4>1. x <= 0 \/ x \in {1, 2, 3, 4, 5, 6, 7}
        BY <3>1 DEF InHead, HeadStates
      <4> QED
        BY <4>1
    <3>5. Window(Filled(c), m, e, L, 2, y)
      BY <1>4, <2>6, <2>7 DEF Reaches
    <3>6. ~Holds(Filled(c), CRLF \o CRLF)
      BY <1>5, <3>3, <3>4, <3>5, NoBlankYet
    <3>7. buf' \in Tokens /\ Len(buf') = 0
      BY <2>4, <3>3 DEF Located, Window
    <3>8. buf' = <<>>
      BY <3>7 DEF Tokens
    <3> QED
      BY <1>9, <1>10, <3>3, <3>4, <3>6, <3>8
  \* Only a parser that has paused behind the headers before is anywhere else.
  <2>8. ASSUME rx'.headers = "length"
        PROVE  (closed /\ ~First) \/ rx'.at = "headers"
    <3>1. CASE rx.at # "headers"
      BY <2>5, <2>8, <3>1, PartsType DEF Framing
    <3>2. CASE rx.at = "headers"
      <4>1. InHead(rx, m, i)
        BY <1>5, <3>2, PositionIs DEF HeadStates
      <4>2. i = 7
        BY <3>2, <4>1 DEF InHead
      <4>3. m.framing = "length"
        <5>1. Follows(rx', m, e, x) /\ rx' \in Parsers
          BY <1>8, <1>12 DEF Parses
        <5> QED
          BY <1>5, <2>8, <5>1, HeadersAre
      <4>4. Window(Filled(c), m, e, L, 7, y) /\ y <= k /\ k <= End(m, e)
        BY <1>4, <4>2 DEF Reaches
      <4>5. y <= End(m, e)
        BY <1>5, <4>4
      <4>6. ~Holds(Filled(c), CRLF \o CRLF)
        BY <1>5, <4>3, <4>4, <4>5, NoBlank
      <4> QED
        BY <1>6, <1>9, <1>10, <3>2, <4>6
    <3> QED
      BY <3>1, <3>2
  <2>9. Doing(L, x)'
    <3>1. closed' = closed
      BY <1>1 DEF exchangeVars
    <3> QED
      BY <1>5, <2>2, <2>3, <2>7, <2>8, <3>1 DEF Doing
  <2>10. Whole'
    <3>1. intact' = intact
      BY <1>1 DEF exchangeVars
    <3>2. SUFFICES ASSUME First, whole', intact
                   PROVE  /\ wire' = <<>>
                          /\ op' = "read_chunk_header" => rx'.at \in {"headers", "chunk_lf"}
                          /\ op' = "read_until_eof" => rx'.at = "headers" /\ rx'.headers = "eof"
      BY <1>5, <2>2, <3>1 DEF Whole
    <3>3. y = End(m, e) /\ wire' = <<>>
      BY <1>4, <3>2 DEF Reaches
    <3>4. rx'.headers # "unread"
      BY <1>5, <2>7, <3>2, <3>3
    <3>5. rx'.at = "headers"
      BY <2>5, <2>6, <3>2, <3>4
    <3> QED
      BY <2>3, <3>3, <3>4, <3>5
  <2>11. Underway'
    BY <1>1, <1>3, <1>8, <2>4, <2>9, <2>10, GoesOn
  <2> QED
    BY <2>2, <2>11 DEF Goes
<1> QED
  BY <1>11, <1>12

\* A parser that has all but the last token of an answer with a Content-Length has
\* all but the last byte of its body.
LEMMA LengthAlmost ==
  ASSUME NEW m \in Messages, NEW e \in Nat, m.framing = "length", NEW x \in Int, x >= 8,
         NEW p \in Parsers, Follows(p, m, e, x), p.at = "done" \/ x >= 7 + Size(m)
  PROVE  /\ Len(p.raw) >= Size(m) - 1
         /\ p.at = "done" \/ x = End(m, e) => p.raw = Body(m, e)
<1>1. Size(m) \in Nat /\ Size(m) \in 0..Size(m)
  BY SizeBounds
<1>2. p.at \notin HeadStates \ {"start"}
  BY HeadersAre
<1>3. p.at \notin ChunkStates
  BY DEF Follows, InChunk, AtEnd, HeadStates, BodyStates, ChunkStates
<1>4. CASE p.at = "start"
  <2>1. AtEnd(p, m, e, x)
    BY <1>4, PositionIs
  <2>2. RawIs(p, e, Size(m))
    BY <2>1 DEF AtEnd
  <2>3. p.raw = Body(m, e)
    BY <1>1, <2>2, RawIsPrefix
  <2> QED
    BY <1>1, <2>2, <2>3 DEF RawIs
<1>5. CASE p.at \in BodyStates
  <2>1. InBody(p, m, e, x)
    BY <1>5 DEF Follows, AtEnd, HeadStates, BodyStates, ChunkStates
  <2>2. CASE p.at = "done"
    <3>1. RawIs(p, e, Size(m))
      BY <2>1, <2>2 DEF InBody
    <3>2. p.raw = Body(m, e)
      BY <1>1, <3>1, RawIsPrefix
    <3> QED
      BY <1>1, <3>1, <3>2 DEF RawIs
  <2>3. CASE p.at = "body"
    <3>1. p.left \in 1..Size(m) /\ x = 8 + Size(m) - p.left /\ RawIs(p, e, Size(m) - p.left)
      BY <2>1, <2>3 DEF InBody
    <3>2. x >= 7 + Size(m)
      BY <2>3
    <3>3. p.left = 1
      BY <1>1, <3>1, <3>2
    <3>4. Len(p.raw) = Size(m) - 1
      BY <3>1, <3>3 DEF RawIs
    <3>5. x # End(m, e)
      <4>1. End(m, e) = 8 + Size(m)
        BY PlainIs
      <4> QED
        BY <1>1, <3>1, <3>3, <4>1
    <3> QED
      BY <1>1, <2>3, <3>4, <3>5
  <2>4. p.at # "rest"
    BY <2>1 DEF InBody
  <2> QED
    BY <1>5, <2>2, <2>3, <2>4 DEF BodyStates
<1> QED
  BY <1>2, <1>3, <1>4, <1>5, PositionIs

\* on_read_content_length() keeps the invariant, and delivers all but the last byte.
LEMMA LengthRead ==
  ASSUME Types, Underway, OnReadContentLength
  PROVE  Goes /\ (outcome' = "SUCCESS" => Len(rx'.raw) >= Size(message) - 1)
<1> DEFINE m == message
           e == asked
<1>1. op = "read_content_length" /\ UNCHANGED exchangeVars
  BY DEF OnReadContentLength
<1>2. PICK c \in Completions :
       /\ Receive(c)
       /\ IF c.ec = "eof" /\ Len(Filled(c)) < rx.length
          THEN Unparsed(Filled(c)) /\ Finish("READ_CONTENT_LENGTH_ERROR")
          ELSE /\ Parse(Filled(c))
               /\ Finish(IF TookNothing(Filled(c)) THEN "READ_CONTENT_LENGTH_ERROR"
                                                   ELSE "SUCCESS")
  BY DEF OnReadContentLength
<1>3. PICK L \in Leftovers, i \in Int, j \in Int, k \in Int :
        Located(message, asked, rx, buf, wire, L, i, j, k) /\ Ends(k) /\ Doing(L, i) /\ Whole
  BY DEF Underway
<1>4. PICK y \in Int : Reaches(L, i, j, k, c, y)
  BY <1>1, <1>2, <1>3, ReadsOn
<1>5. /\ m \in Messages /\ e \in Nat /\ rx \in Parsers /\ Follows(rx, m, e, i)
      /\ 0 - Len(L) <= i /\ Len(L) \in Nat /\ (First => L = <<>> /\ i >= 0)
      /\ End(m, e) \in Nat /\ End(m, e) >= 8 /\ First' = First
  BY <1>1, <1>3, PlaceIs
<1>6. rx.headers = "length" /\ ((closed /\ ~First) \/ rx.at = "headers")
  BY <1>1, <1>3 DEF Doing
<1>7. m.framing = "length" /\ i >= 7
  BY <1>5, <1>6, HeadersAre
<1>8. End(m, e) = 8 + Size(m) /\ Size(m) \in Nat
  BY <1>5, <1>7, PlainIs
<1>9. rx.length = Size(m) /\ (rx.at = "headers" => i = 7)
  <2>1. rx.at = "headers" => InHead(rx, m, i)
    BY <1>5, PositionIs DEF HeadStates
  <2> QED
    BY <1>5, <1>6, <1>7, <2>1, HeadersAre DEF InHead
<1>10. CASE c.ec = "eof" /\ Len(Filled(c)) < rx.length
  <2>1. rx' = rx /\ op' = "none" /\ outcome' = "READ_CONTENT_LENGTH_ERROR"
    BY <1>2, <1>10 DEF Unparsed, Finish
  <2>2. IsPrefix(rx'.raw, Body(message, asked)) /\ ~(First /\ whole' /\ intact)
    BY <1>1, <1>4, <1>10, <2>1 DEF Reaches
  <2> QED
    BY <1>1, <2>1, <2>2, GoesWrong DEF Goes
<1>11. CASE ~(c.ec = "eof" /\ Len(Filled(c)) < rx.length)
  <2>1. Parse(Filled(c)) /\ op' = "none"
        /\ outcome' = (IF TookNothing(Filled(c)) THEN "READ_CONTENT_LENGTH_ERROR" ELSE "SUCCESS")
    BY <1>2, <1>11 DEF Finish
  <2>2. PICK q \in Parsers, x \in Int : Parses(L, i, k, c, y, q, x)
    BY <1>3, <1>4, <2>1, ParsesOn
  <2>3. IsPrefix(rx'.raw, Body(message, asked)) /\ TookNothing(Filled(c)) = (x = i) /\ rx' \in Parsers
    BY <2>2 DEF Parses
  <2>4. CASE x = i
    <3>1. ~(First /\ whole' /\ intact)
      <4>1. SUFFICES ASSUME First, whole', intact PROVE FALSE
        OBVIOUS
      <4>2. rx.at = "headers" /\ i = 7
        BY <1>6, <1>9, <4>1
      <4>3. y = End(m, e)
        BY <1>4, <4>1 DEF Reaches
      <4>4. y - i > 0
        BY <1>5, <4>2, <4>3
      <4> QED
        BY <2>2, <2>4, <4>2, <4>4 DEF Parses
    <3> QED
      BY <1>1, <2>1, <2>3, <2>4, <3>1, GoesWrong DEF Goes
  <2>5. CASE x # i
    <3>0. outcome' = "SUCCESS"
      BY <2>1, <2>3, <2>5
    <3>1. /\ y = j + c.took /\ Len(Filled(c)) = y - i /\ Len(wire') = k - y /\ y <= k /\ k <= End(m, e)
          /\ Window(wire', m, e, L, y, k)
      BY <1>4 DEF Reaches
    <3>2. Len(buf) = j - i /\ buf \in Tokens
      BY <1>3 DEF Located, Window
    \* What the read asked for is there.
    <3>3. Len(Filled(c)) >= Size(m)
      <4>1. CASE c.ec = "eof"
        <5>1. ~(Len(Filled(c)) < Size(m))
          BY <1>11, <1>9, <4>1
        <5> QED
          BY <1>8, <1>9, <3>1, <5>1
      <4>2. CASE c.ec # "eof"
        <5>1. c.took \in AtLeast(Missing) /\ Missing = Size(m) - Len(buf)
          BY <1>1, <1>9, <4>2, CompletionIs DEF Amounts, Missing
        <5>2. c.took >= 0 /\ c.took >= Size(m) - Len(buf) /\ c.took \in Int
          <6>1. Len(wire) \in Nat /\ Len(buf) \in Nat
            BY Pieces DEF Types
          <6> QED
            BY <1>8, <5>1, <6>1 DEF AtLeast
        <5>3. y = j + c.took /\ Len(Filled(c)) = y - i /\ Len(buf) = j - i
          BY <3>1, <3>2
        <5> DEFINE t == c.took
                   S == Size(m)
                   f == Len(Filled(c))
                   h == Len(buf)
        <5>4. t \in Int /\ t >= S - h /\ S \in Nat /\ y = j + t /\ f = y - i /\ h = j - i
          BY <1>8, <5>2, <5>3
        <5> HIDE DEF t, S, f, h
        <5>5. f >= S
          BY <5>4
        <5> QED
          BY <5>5 DEF f, S
      <4> QED
        BY <4>1, <4>2
    <3>4. y >= 7 + Size(m)
      BY <1>7, <1>8, <3>1, <3>3
    <3>5. x >= 8 /\ x <= y /\ Follows(rx', m, e, x) /\ rx'.at = q.at
      <4>1. i <= x /\ x <= y /\ Follows(rx', m, e, x) /\ rx'.at = q.at
        BY <2>2, <2>5 DEF Parses
      <4> QED
        BY <1>7, <2>5, <4>1
    <3>6. q.halted => rx'.at = "done"
      <4>1. rx'.at \notin HeadStates \ {"start"}
        BY <1>5, <2>3, <3>5, HeadersAre
      <4>2. rx'.at \notin ChunkStates /\ rx'.at # "error"
        BY <1>7, <3>5 DEF Follows, InChunk, AtEnd, HeadStates, BodyStates, ChunkStates
      <4>3. q.halted => rx'.at \in {"line", "headers", "done", "trailer", "chunk", "chunk_lf", "error"}
        BY <2>2, <3>5 DEF Parses
      <4> QED
        BY <4>1, <4>2, <4>3 DEF HeadStates, ChunkStates
    <3>7. ~q.halted => x = y
      BY <2>2 DEF Parses
    <3>8. /\ Len(rx'.raw) >= Size(m) - 1
          /\ rx'.at = "done" \/ x = End(m, e) => rx'.raw = Body(m, e)
      <4>1. rx'.at = "done" \/ x >= 7 + Size(m)
        BY <3>4, <3>6, <3>7
      <4> QED
        BY <1>5, <1>7, <2>3, <3>5, <4>1, LengthAlmost
    <3>9. whole' /\ intact => rx'.raw = Body(m, e)
      <4>1. whole' /\ intact => y = End(m, e)
        BY <1>4 DEF Reaches
      <4> QED
        BY <3>6, <3>7, <3>8, <4>1
    <3>10. rx'.headers = "length"
      BY <1>5, <1>7, <2>3, <3>5, HeadersAre
    \* Its last token may stay behind.
    <3>11. ~closed => wire' \in Leftovers
      <4>1. SUFFICES ASSUME ~closed PROVE wire' \in Leftovers
        OBVIOUS
      <4>2. k = End(m, e)
        BY <1>3, <4>1 DEF Ends
      <4>3. Len(wire') \in {0, 1} /\ wire' \in Tokens /\ (Len(wire') = 1 => y + 1 = End(m, e))
        BY <1>8, <3>1, <3>4, <4>2 DEF Window
      <4>4. CASE Len(wire') = 0
        <5>1. wire' = <<>>
          BY <4>3, <4>4 DEF Tokens
        <5> QED
          BY <5>1 DEF Leftovers
      <4>5. CASE Len(wire') = 1
        <5>1. wire'[1] = Render(m, e)[End(m, e)]
          <6>1. End(m, e) > 0 /\ y < End(m, e) /\ End(m, e) <= k /\ End(m, e) - y = 1
            BY <1>5, <4>2, <4>3, <4>5
          <6>2. k \in Int /\ y \in Int
            OBVIOUS
          <6> DEFINE z == End(m, e)
          <6>3. z \in Nat /\ z > 0 /\ y < z /\ z <= k /\ z - y = 1
            BY <1>5, <6>1
          <6> DEFINE w == wire'
          <6>4. m \in Messages /\ e \in Nat /\ Window(w, m, e, L, y, k)
            BY <1>5, <3>1
          <6> HIDE DEF z, m, e, w
          <6>5. w[z - y] = Render(m, e)[z]
            BY <6>3, <6>4, InWindow
          <6> QED
            BY <6>3, <6>5 DEF z, w
        <5>2. wire' = <<wire'[1]>>
          BY <4>3, <4>5 DEF Tokens
        <5>3. CASE Size(m) = 0
          <6>1. Render(m, e)[End(m, e)] = Sign("LF")
            BY <1>5, <1>8, <5>3, HeadIs
          <6> QED
            BY <5>1, <5>2, <6>1 DEF Leftovers
        <5>4. CASE Size(m) # 0
          <6>1. Size(m) \in 1..Size(m)
            BY <1>8, <5>4
          <6>2. Render(m, e)[End(m, e)] = Token("byte", Size(m), e)
            BY <1>5, <1>7, <1>8, <6>1, PlainIs
          <6>3. wire' = <<Token("byte", Size(m), e)>>
            BY <5>1, <5>2, <6>2
          <6> QED
            BY <1>5, <1>8, <6>3 DEF Leftovers
        <5> QED
          BY <5>3, <5>4
      <4> QED
        BY <4>3, <4>4, <4>5
    <3>12. rx'.headers # "chunked"
      BY <3>10
    <3>13. Over'
      BY <1>1, <2>1, <2>3, <3>0, <3>8, <3>9, <3>11, <3>12, GoesWell
    <3> QED
      BY <2>1, <3>8, <3>13 DEF Goes
  <2> QED
    BY <2>4, <2>5
<1> QED
  BY <1>10, <1>11

\* A parser behind the last chunk has the whole body, and what it has not taken of
\* the answer is left of the line end behind that chunk.
LEMMA LastChunk ==
  ASSUME NEW m \in Messages, NEW e \in Nat, m.framing = "chunked", NEW x \in Int, x >= 8,
         NEW p \in Parsers, Follows(p, m, e, x), p.length = 0
  PROVE  p.raw = Body(m, e) /\ x >= End(m, e) - 2
<1> DEFINE N == Len(m.parts)
           o == Offset(m, N + 1)
<1>1. Size(m) \in 0..Size(m) /\ N \in Nat /\ SizeUpTo(m, N) = Size(m)
  BY SizeBounds, PartsType DEF Size
<1>2. o \in Nat /\ End(m, e) = o + 5
  <2>1. /\ End(m, e) = Offset(m, N + 1) + 5
        /\ \A c \in 1..(N + 1) : Offset(m, c) \in Nat
    BY ChunkedIs
  <2> HIDE DEF N
  <2> QED
    BY <1>1, <2>1
<1>3. p.at \notin HeadStates \ {"start"}
  BY HeadersAre
<1>4. p.at \notin BodyStates
  BY DEF Follows, InBody, AtEnd, HeadStates, BodyStates, ChunkStates
<1>5. CASE p.at = "start"
  <2>1. AtEnd(p, m, e, x)
    BY <1>5, PositionIs
  <2>2. RawIs(p, e, Size(m)) /\ x = End(m, e)
    BY <2>1 DEF AtEnd
  <2> QED
    BY <1>1, <1>2, <2>2, RawIsPrefix
<1>6. CASE p.at \in ChunkStates
  <2>1. PICK c \in 1..(N + 1) : InChunk(p, m, e, x, c)
    BY <1>6 DEF Follows, AtEnd, HeadStates, BodyStates, ChunkStates
  <2>2. p.at \in {"trailer", "trailer_lf"}
    BY <2>1 DEF InChunk
  <2>3. c = N + 1 /\ RawIs(p, e, SizeUpTo(m, c - 1)) /\ x \in {o + 3, o + 4}
    BY <2>1, <2>2 DEF InChunk
  <2>4. c - 1 = N
    <3> HIDE DEF N
    <3> QED
      BY <1>1, <2>3
  <2>5. RawIs(p, e, Size(m))
    BY <1>1, <2>3, <2>4
  <2>6. x >= End(m, e) - 2
    <3> HIDE DEF o
    <3> QED
      BY <1>2, <2>3
  <2> QED
    BY <1>1, <2>5, <2>6, RawIsPrefix
<1> QED
  BY <1>3, <1>4, <1>5, <1>6, PositionIs

\* Sequences of two tokens and less.
LEMMA ShortIs ==
  ASSUME NEW w \in Tokens
  PROVE  /\ Len(w) = 0 => w = <<>>
         /\ Len(w) = 1 => w = <<w[1]>>
         /\ Len(w) = 2 => w = <<w[1], w[2]>>
  BY DEF Tokens

\* What is left of an answer in chunks when at most two tokens are.
LEMMA ChunkLeftover ==
  ASSUME NEW m \in Messages, NEW e \in Nat, m.framing = "chunked", NEW L \in Leftovers,
         NEW y \in Int, y >= End(m, e) - 2,
         NEW w, Window(w, m, e, L, y, End(m, e))
  PROVE  w \in Leftovers
<1> DEFINE n == End(m, e)
           r == Render(m, e)
<1>1. n \in Nat /\ n >= 8
  BY HeadIs
<1>2. r[n - 1] = Sign("CR") /\ r[n] = Sign("LF")
  <2> DEFINE o == Offset(m, Len(m.parts) + 1)
  <2>1. n = o + 5 /\ r[o + 4] = Sign("CR") /\ r[o + 5] = Sign("LF")
    BY ChunkedIs
  <2>2. o \in Nat
    <3> DEFINE N == Len(m.parts)
    <3>1. \A c \in 1..(N + 1) : Offset(m, c) \in Nat
      BY ChunkedIs
    <3>2. N \in Nat
      BY PartsType
    <3> HIDE DEF N
    <3>3. Offset(m, N + 1) \in Nat
      BY <3>1, <3>2
    <3> QED
      BY <3>3 DEF N
  <2> HIDE DEF o, n, r
  <2>3. n - 1 = o + 4
    BY <2>1, <2>2
  <2> QED
    BY <2>1, <2>3
<1>3. w \in Tokens /\ Len(w) = n - y
  BY DEF Window
<1> HIDE DEF n, r
<1>4. Len(w) \in {0, 1, 2} /\ y = n - Len(w)
  <2>1. y >= n - 2
    BY DEF n
  <2>2. Len(w) \in Nat
    BY <1>3, Pieces
  <2> QED
    BY <1>1, <1>3, <2>1, <2>2
<1>5. \A z \in Nat : z > 0 /\ y < z /\ z <= n => w[z - y] = r[z]
  BY <1>1, InWindow DEF n, r
<1>6. CASE Len(w) = 0
  <2>1. w = <<>>
    BY <1>3, <1>6, ShortIs
  <2> QED
    BY <2>1 DEF Leftovers
<1>7. CASE Len(w) = 1
  <2>1. n \in Nat /\ n > 0 /\ y < n /\ n <= n /\ n - y = 1
    BY <1>1, <1>4, <1>7
  <2>2. w[1] = Sign("LF")
    BY <1>2, <1>5, <2>1
  <2>3. w = <<w[1]>>
    BY <1>3, <1>7, ShortIs
  <2> QED
    BY <2>2, <2>3 DEF Leftovers
<1>8. CASE Len(w) = 2
  <2>1. n \in Nat /\ n > 0 /\ y < n /\ n <= n /\ n - y = 2
    BY <1>1, <1>4, <1>8
  <2>2. n - 1 \in Nat /\ n - 1 > 0 /\ y < n - 1 /\ n - 1 <= n /\ (n - 1) - y = 1
    BY <1>1, <1>4, <1>8
  <2>3. w[1] = Sign("CR") /\ w[2] = Sign("LF")
    BY <1>2, <1>5, <2>1, <2>2
  <2>4. w = <<w[1], w[2]>>
    BY <1>3, <1>8, ShortIs
  <2> QED
    BY <2>3, <2>4 DEF Leftovers, CRLF
<1> QED
  BY <1>4, <1>6, <1>7, <1>8

\* on_read_chunk_header() keeps the invariant: the parser is in front of the data of
\* the chunk, or behind the last chunk.
LEMMA ChunkHeaderRead ==
  ASSUME Types, Underway, OnReadChunkHeader
  PROVE  Goes
<1> DEFINE m == message
           e == asked
<1>1. op = "read_chunk_header" /\ UNCHANGED exchangeVars
  BY DEF OnReadChunkHeader
<1>2. PICK c \in Completions :
       /\ Receive(c)
       /\ IF c.ec = "eof" THEN Unparsed(Filled(c)) /\ Finish("SUCCESS")
          ELSE /\ Parse(Filled(c))
               /\ IF TookNothing(Filled(c)) THEN Finish("READ_CHUNK_HEADER_ERROR")
                  ELSE IF rx'.length > 0 THEN Read("read_chunk_data")
                  ELSE Finish("SUCCESS")
  BY DEF OnReadChunkHeader
<1>3. PICK L \in Leftovers, i \in Int, j \in Int, k \in Int :
        Located(message, asked, rx, buf, wire, L, i, j, k) /\ Ends(k) /\ Doing(L, i) /\ Whole
  BY DEF Underway
<1>4. PICK y \in Int : Reaches(L, i, j, k, c, y)
  BY <1>1, <1>2, <1>3, ReadsOn
<1>5. /\ m \in Messages /\ e \in Nat /\ rx \in Parsers /\ Follows(rx, m, e, i)
      /\ 0 - Len(L) <= i /\ Len(L) \in Nat /\ (First => L = <<>> /\ i >= 0)
      /\ End(m, e) \in Nat /\ End(m, e) >= 8 /\ First' = First
  BY <1>1, <1>3, PlaceIs
<1>6. rx.headers = "chunked" /\ (First /\ whole /\ intact => rx.at \in {"headers", "chunk_lf"})
  BY <1>1, <1>3 DEF Doing, Whole
<1>7. m.framing = "chunked" /\ i >= 7
  BY <1>5, <1>6, HeadersAre
<1>8. CASE c.ec = "eof"
  <2>1. rx' = rx /\ op' = "none" /\ outcome' = "SUCCESS"
    BY <1>2, <1>8 DEF Unparsed, Finish
  <2>2. /\ IsPrefix(rx'.raw, Body(message, asked)) /\ ~(First /\ whole' /\ intact)
        /\ closed /\ cutoff' /\ rx'.headers # "length"
    BY <1>1, <1>4, <1>6, <1>8, <2>1 DEF Reaches
  <2>3. Over'
    BY <1>1, <2>1, <2>2, GoesWell
  <2> QED
    BY <2>1, <2>3 DEF Goes
<1>9. CASE c.ec # "eof"
  <2>1. Parse(Filled(c))
    BY <1>2, <1>9
  <2>2. PICK q \in Parsers, x \in Int : Parses(L, i, k, c, y, q, x)
    BY <1>3, <1>4, <2>1, ParsesOn
  <2>3. /\ IsPrefix(rx'.raw, Body(message, asked)) /\ TookNothing(Filled(c)) = (x = i)
        /\ rx' \in Parsers /\ rx'.length \in Nat /\ i <= x /\ x <= y
    BY <2>2 DEF Parses, Parsers, ParserType
  <2>4. y - i >= 2
    <3>1. c.took \in Amounts
      BY <1>9, CompletionIs
    <3>2. Holds(Filled(c), CRLF)
      BY <1>1, <3>1, UntilHolds DEF Amounts, Filled
    <3> QED
      BY <1>4, <3>2, HeldIs DEF Reaches
  <2>5. CASE x = i
    <3>1. op' = "none" /\ outcome' = "READ_CHUNK_HEADER_ERROR"
      BY <1>2, <1>9, <2>3, <2>5 DEF Finish
    <3>2. ~(First /\ whole' /\ intact)
      <4>1. SUFFICES ASSUME First, whole', intact PROVE FALSE
        OBVIOUS
      <4>2. rx.at \notin {"start", "blank", "body"}
        BY <1>4, <1>6, <4>1 DEF Reaches
      <4>3. y - i > 0
        BY <2>4
      <4> QED
        BY <2>2, <2>5, <4>2, <4>3 DEF Parses
    <3> QED
      BY <1>1, <2>3, <3>1, <3>2, GoesWrong DEF Goes
  <2>6. CASE x # i
    <3>1. /\ Located(m, e, rx', buf', wire', L, x, y, k) /\ Follows(rx', m, e, x) /\ Follows(q, m, e, x)
          /\ SameSize(q, rx') /\ rx'.at = q.at
      BY <2>2, <2>6 DEF Parses
    <3>2. x >= 8
      BY <1>7, <2>3, <2>6
    <3>3. rx'.headers = "chunked"
      BY <1>5, <1>7, <2>3, <3>1, <3>2, HeadersAre
    <3>4. CASE rx'.length > 0
      <4>1. op' = "read_chunk_data"
        BY <1>2, <1>9, <2>3, <2>6, <3>4 DEF Read
      <4>2. Doing(L, x)'
        BY <3>3, <4>1 DEF Doing
      <4>3. Whole'
        <5>1. intact' = intact
          BY <1>1 DEF exchangeVars
        <5>2. SUFFICES ASSUME First, whole', intact
                       PROVE  wire' = <<>> /\ rx'.at = "chunk" /\ rx'.left = rx'.length
          BY <1>5, <4>1, <5>1 DEF Whole
        <5>3. y = End(m, e) /\ wire' = <<>> /\ whole
          BY <1>4, <5>2 DEF Reaches
        <5>4. PausesAtSize(rx, q, m) /\ (~q.halted => x = y)
          BY <2>2 DEF Parses, Ran
        <5>5. \/ ~q.halted /\ q.at \in {"headers", "chunk_lf", "size", "size_cr", "size_lf"}
              \/ q.halted /\ q.at = "trailer"
              \/ q.halted /\ q.at = "chunk" /\ q.left = q.length
          BY <1>6, <1>7, <5>2, <5>3, <5>4 DEF PausesAtSize
        <5>6. q.halted
          <6>1. SUFFICES ASSUME ~q.halted PROVE FALSE
            OBVIOUS
          <6>2. Follows(q, m, e, End(m, e))
            BY <3>1, <5>3, <5>4, <6>1
          <6>3. q.at \in {"start", "rest"}
            BY <1>5, <6>2, EndIs
          <6> QED
            BY <5>5, <6>1, <6>3
        <5>7. q.at # "trailer"
          <6>1. SUFFICES ASSUME q.at = "trailer" PROVE FALSE
            OBVIOUS
          <6>2. q.length = 0
            BY <3>1, <6>1 DEF Follows, InChunk, AtEnd, HeadStates, BodyStates
          <6> QED
            BY <2>3, <3>1, <3>4, <6>2 DEF SameSize
        <5> QED
          BY <3>1, <5>3, <5>5, <5>6, <5>7 DEF SameSize
      <4>4. Underway'
        BY <1>1, <1>3, <3>1, <4>2, <4>3, GoesOn
      <4> QED
        BY <4>1, <4>4 DEF Goes
    <3>5. CASE ~(rx'.length > 0)
      <4>1. op' = "none" /\ outcome' = "SUCCESS"
        BY <1>2, <1>9, <2>3, <2>6, <3>5 DEF Finish
      <4>2. rx'.length = 0
        BY <2>3, <3>5
      <4>3. rx'.raw = Body(m, e) /\ x >= End(m, e) - 2
        BY <1>5, <1>7, <2>3, <3>1, <3>2, <4>2, LastChunk
      <4>4. ~closed => wire' \in Leftovers
        <5>1. SUFFICES ASSUME ~closed PROVE wire' \in Leftovers
          OBVIOUS
        <5>2. k = End(m, e)
          BY <1>3, <5>1 DEF Ends
        <5>3. Window(wire', m, e, L, y, End(m, e)) /\ y >= End(m, e) - 2
          BY <1>4, <1>5, <2>3, <4>3, <5>2 DEF Reaches
        <5> DEFINE w == wire'
        <5>4. Window(w, m, e, L, y, End(m, e))
          BY <5>3
        <5> HIDE DEF w
        <5>5. w \in Leftovers
          BY <1>5, <1>7, <5>3, <5>4, ChunkLeftover
        <5> QED
          BY <5>5 DEF w
      <4>5. rx'.headers # "length"
        BY <3>3
      <4>6. Over'
        BY <1>1, <2>3, <4>1, <4>3, <4>4, <4>5, GoesWell
      <4> QED
        BY <4>1, <4>6 DEF Goes
    <3> QED
      BY <3>4, <3>5
  <2> QED
    BY <2>5, <2>6
<1> QED
  BY <1>8, <1>9

\* on_read_chunk_data() keeps the invariant: the parser is behind the data.
LEMMA ChunkDataRead ==
  ASSUME Types, Underway, OnReadChunkData
  PROVE  Goes
<1> DEFINE m == message
           e == asked
<1>1. op = "read_chunk_data" /\ UNCHANGED exchangeVars
  BY DEF OnReadChunkData
<1>2. PICK c \in Completions :
       /\ Receive(c)
       /\ IF c.ec = "eof" /\ Len(Filled(c)) < rx.length
          THEN Unparsed(Filled(c)) /\ Finish("READ_CHUNK_DATA_ERROR")
          ELSE /\ Parse(Filled(c))
               /\ IF TookNothing(Filled(c)) THEN Finish("READ_CHUNK_DATA_ERROR")
                  ELSE Read("read_chunk_header")
  BY DEF OnReadChunkData
<1>3. PICK L \in Leftovers, i \in Int, j \in Int, k \in Int :
        Located(message, asked, rx, buf, wire, L, i, j, k) /\ Ends(k) /\ Doing(L, i) /\ Whole
  BY DEF Underway
<1>4. PICK y \in Int : Reaches(L, i, j, k, c, y)
  BY <1>1, <1>2, <1>3, ReadsOn
<1>5. /\ m \in Messages /\ e \in Nat /\ rx \in Parsers /\ Follows(rx, m, e, i)
      /\ 0 - Len(L) <= i /\ Len(L) \in Nat /\ (First => L = <<>> /\ i >= 0)
      /\ End(m, e) \in Nat /\ End(m, e) >= 8 /\ First' = First
  BY <1>1, <1>3, PlaceIs
<1>6. rx.headers = "chunked" /\ (First /\ whole /\ intact => rx.at = "chunk")
  BY <1>1, <1>3 DEF Doing, Whole
<1>7. m.framing = "chunked" /\ i >= 7
  BY <1>5, <1>6, HeadersAre
<1>8. CASE c.ec = "eof" /\ Len(Filled(c)) < rx.length
  <2>1. rx' = rx /\ op' = "none" /\ outcome' = "READ_CHUNK_DATA_ERROR"
    BY <1>2, <1>8 DEF Unparsed, Finish
  <2>2. IsPrefix(rx'.raw, Body(message, asked)) /\ ~(First /\ whole' /\ intact)
    BY <1>1, <1>4, <1>8, <2>1 DEF Reaches
  <2> QED
    BY <1>1, <2>1, <2>2, GoesWrong DEF Goes
<1>9. CASE ~(c.ec = "eof" /\ Len(Filled(c)) < rx.length)
  <2>1. Parse(Filled(c))
    BY <1>2, <1>9
  <2>2. PICK q \in Parsers, x \in Int : Parses(L, i, k, c, y, q, x)
    BY <1>3, <1>4, <2>1, ParsesOn
  <2>3. /\ IsPrefix(rx'.raw, Body(message, asked)) /\ TookNothing(Filled(c)) = (x = i)
        /\ rx' \in Parsers /\ i <= x /\ x <= y
    BY <2>2 DEF Parses
  <2>4. CASE x = i
    <3>1. op' = "none" /\ outcome' = "READ_CHUNK_DATA_ERROR"
      BY <1>2, <1>9, <2>3, <2>4 DEF Finish
    <3>2. ~(First /\ whole' /\ intact)
      <4>1. SUFFICES ASSUME First, whole', intact PROVE FALSE
        OBVIOUS
      <4>2. rx.at = "chunk" /\ y = End(m, e)
        BY <1>4, <1>6, <4>1 DEF Reaches
      <4>3. i # End(m, e)
        <5>1. SUFFICES ASSUME i = End(m, e) PROVE FALSE
          OBVIOUS
        <5>2. Follows(rx, m, e, End(m, e))
          BY <1>5, <5>1
        <5>3. rx.at \in {"start", "rest"}
          BY <1>5, <5>2, EndIs
        <5> QED
          BY <4>2, <5>3
      <4>4. y - i > 0
        BY <1>5, <2>3, <4>2, <4>3
      <4> QED
        BY <2>2, <2>4, <4>2, <4>4 DEF Parses
    <3> QED
      BY <1>1, <2>3, <3>1, <3>2, GoesWrong DEF Goes
  <2>5. CASE x # i
    <3>1. op' = "read_chunk_header"
      BY <1>2, <1>9, <2>3, <2>5 DEF Read
    <3>2. /\ Located(m, e, rx', buf', wire', L, x, y, k) /\ Follows(rx', m, e, x) /\ Follows(q, m, e, x)
          /\ rx'.at = q.at
      BY <2>2, <2>5 DEF Parses
    <3>3. x >= 8
      BY <1>7, <2>3, <2>5
    <3>4. rx'.headers = "chunked"
      BY <1>5, <1>7, <2>3, <3>2, <3>3, HeadersAre
    <3>5. Doing(L, x)'
      BY <3>1, <3>4 DEF Doing
    <3>6. Whole'
      <4>1. intact' = intact
        BY <1>1 DEF exchangeVars
      <4>2. SUFFICES ASSUME First, whole', intact
                     PROVE  wire' = <<>> /\ rx'.at = "chunk_lf"
        BY <1>5, <3>1, <4>1 DEF Whole
      <4>3. y = End(m, e) /\ wire' = <<>> /\ rx.at = "chunk"
        BY <1>4, <1>6, <4>2 DEF Reaches
      <4>4. PausesAtData(rx, q) /\ (~q.halted => x = y)
        BY <2>2 DEF Parses, Ran
      <4>5. \/ ~q.halted /\ q.at \in {"chunk", "chunk_cr"}
            \/ q.halted /\ q.at = "chunk_lf"
        BY <4>3, <4>4 DEF PausesAtData
      <4>6. q.halted
        <5>1. SUFFICES ASSUME ~q.halted PROVE FALSE
          OBVIOUS
        <5>2. Follows(q, m, e, End(m, e))
          BY <3>2, <4>3, <4>4, <5>1
        <5>3. q.at \in {"start", "rest"}
          BY <1>5, <5>2, EndIs
        <5> QED
          BY <4>5, <5>1, <5>3
      <4> QED
        BY <3>2, <4>3, <4>5, <4>6
    <3>7. Underway'
      BY <1>1, <1>3, <3>2, <3>5, <3>6, GoesOn
    <3> QED
      BY <3>1, <3>7 DEF Goes
  <2> QED
    BY <2>4, <2>5
<1> QED
  BY <1>8, <1>9

\* on_read_until_eof() keeps the invariant: the rest of the stream is the body.
LEMMA UntilEofRead ==
  ASSUME Types, Underway, OnReadUntilEof
  PROVE  Goes
<1> DEFINE m == message
           e == asked
<1>1. op = "read_until_eof" /\ UNCHANGED exchangeVars
  BY DEF OnReadUntilEof
<1>2. PICK c \in Completions :
       /\ Receive(c)
       /\ IF c.ec = "ok" THEN Unparsed(Filled(c)) /\ Read("read_until_eof")
          ELSE /\ Parse(Filled(c))
               /\ Finish(IF TookNothing(Filled(c)) THEN "READ_UNTIL_EOF_ERROR" ELSE "SUCCESS")
  BY DEF OnReadUntilEof
<1>3. PICK L \in Leftovers, i \in Int, j \in Int, k \in Int :
        Located(message, asked, rx, buf, wire, L, i, j, k) /\ Ends(k) /\ Doing(L, i) /\ Whole
  BY DEF Underway
<1>4. PICK y \in Int : Reaches(L, i, j, k, c, y)
  BY <1>1, <1>2, <1>3, ReadsOn
<1>5. /\ m \in Messages /\ e \in Nat /\ rx \in Parsers /\ Follows(rx, m, e, i)
      /\ 0 - Len(L) <= i /\ Len(L) \in Nat /\ (First => L = <<>> /\ i >= 0)
      /\ End(m, e) \in Nat /\ End(m, e) >= 8 /\ First' = First
  BY <1>1, <1>3, PlaceIs
<1>6. /\ First => rx.headers = "eof" \/ (rx.headers = "unread" /\ buf = <<>> /\ wire = <<>>)
      /\ First /\ whole /\ intact => rx.at = "headers" /\ rx.headers = "eof"
  BY <1>1, <1>3 DEF Doing, Whole
<1>7. CASE c.ec = "ok"
  <2>1. rx' = rx /\ buf' = Filled(c) /\ op' = "read_until_eof"
    BY <1>2, <1>7 DEF Unparsed, Read
  <2>2. Located(m, e, rx', buf', wire', L, i, y, k)
    <3>1. /\ 0 - Len(L) <= i /\ i <= j /\ j <= k /\ 0 <= k /\ k <= End(m, e)
          /\ (e = 1 => L = <<>>) /\ Follows(rx, m, e, i)
      BY <1>3 DEF Located
    <3>2. j <= y /\ y <= k /\ Window(Filled(c), m, e, L, i, y) /\ Window(wire', m, e, L, y, k)
      BY <1>4 DEF Reaches
    <3>3. i <= y
      BY <3>1, <3>2
    <3> QED
      BY <2>1, <3>1, <3>2, <3>3 DEF Located
  \* There was something to read.
  <2>3. First => rx.headers = "eof"
    <3>1. wire # <<>>
      <4>1. c.took \in AtLeast(1)
        BY <1>1, <1>7, CompletionIs DEF Amounts
      <4>2. c.took \in 1..Len(wire)
        BY <4>1 DEF AtLeast
      <4>3. Len(<<>>) = 0
        OBVIOUS
      <4> QED
        BY <4>2, <4>3
    <3> QED
      BY <1>6, <3>1
  <2>4. Doing(L, i)'
    BY <1>5, <2>1, <2>3 DEF Doing
  <2>5. Whole'
    <3>1. intact' = intact
      BY <1>1 DEF exchangeVars
    <3>2. whole' /\ intact => wire' = <<>> /\ whole
      BY <1>4 DEF Reaches
    <3> QED
      BY <1>5, <1>6, <2>1, <3>1, <3>2 DEF Whole
  <2>6. Underway'
    BY <1>1, <1>3, <2>2, <2>4, <2>5, GoesOn
  <2> QED
    BY <2>1, <2>6 DEF Goes
<1>8. CASE c.ec # "ok"
  <2>1. /\ Parse(Filled(c)) /\ op' = "none"
        /\ outcome' = (IF TookNothing(Filled(c)) THEN "READ_UNTIL_EOF_ERROR" ELSE "SUCCESS")
    BY <1>2, <1>8 DEF Finish
  <2>2. c.ec = "eof"
    BY <1>8, CompletionIs
  <2>3. closed
    BY <1>4, <2>2 DEF Reaches
  <2>4. PICK q \in Parsers, x \in Int : Parses(L, i, k, c, y, q, x)
    BY <1>3, <1>4, <2>1, ParsesOn
  <2>5. /\ IsPrefix(rx'.raw, Body(message, asked)) /\ TookNothing(Filled(c)) = (x = i)
        /\ rx' \in Parsers /\ i <= x /\ x <= y
    BY <2>4 DEF Parses
  <2>6. ASSUME First, whole', intact
        PROVE  rx.at = "headers" /\ m.framing = "eof" /\ i = 7 /\ y = End(m, e)
    <3>1. rx.at = "headers" /\ rx.headers = "eof" /\ y = End(m, e)
      BY <1>4, <1>6, <2>6 DEF Reaches
    <3>2. m.framing = "eof"
      BY <1>5, <3>1, HeadersAre
    <3>3. InHead(rx, m, i)
      BY <1>5, <3>1, PositionIs DEF HeadStates
    <3> QED
      BY <3>1, <3>2, <3>3 DEF InHead
  <2>7. CASE x = i
    <3>1. ~(First /\ whole' /\ intact)
      <4>1. SUFFICES ASSUME First, whole', intact PROVE FALSE
        OBVIOUS
      <4>2. rx.at = "headers" /\ i = 7 /\ y = End(m, e)
        BY <2>6, <4>1
      <4>3. y - i > 0
        BY <1>5, <4>2
      <4> QED
        BY <2>4, <2>7, <4>2, <4>3 DEF Parses
    <3> QED
      BY <1>1, <2>1, <2>5, <2>7, <3>1, GoesWrong DEF Goes
  <2>8. CASE x # i
    <3>1. Follows(rx', m, e, x) /\ Follows(q, m, e, x) /\ rx'.at = q.at /\ (~q.halted => x = y)
      BY <2>4, <2>8 DEF Parses
    <3>2. ASSUME First, whole', intact PROVE rx'.raw = Body(message, asked)
      <4>1. m.framing = "eof" /\ i = 7 /\ y = End(m, e)
        BY <2>6, <3>2
      <4>2. x >= 8
        BY <2>5, <2>8, <4>1
      <4>3. q.at \notin {"line", "headers"}
        BY <1>5, <3>1, <4>2, HeadersAre DEF HeadStates
      <4>4. q.at \notin {"done", "trailer", "chunk", "chunk_lf", "error"}
        BY <3>1, <4>1 DEF Follows, InBody, InChunk, AtEnd, HeadStates, BodyStates, ChunkStates
      <4>5. ~q.halted
        BY <2>4, <4>3, <4>4 DEF Parses
      <4>6. Follows(rx', m, e, End(m, e))
        BY <3>1, <4>1, <4>5
      <4> QED
        BY <1>5, <2>5, <4>6, EndIs
    <3>3. ASSUME First PROVE rx'.headers \notin {"length", "chunked"}
      <4>1. CASE rx.headers = "eof"
        <5>1. m.framing = "eof" /\ i >= 7
          BY <1>5, <4>1, HeadersAre
        <5>2. x >= 8
          BY <2>5, <2>8, <5>1
        <5>3. rx'.headers = "eof"
          BY <1>5, <2>5, <3>1, <5>1, <5>2, HeadersAre
        <5> QED
          BY <5>3
      <4>2. CASE buf = <<>> /\ wire = <<>>
        <5>1. Len(Filled(c)) = 0
          <6>1. c.took \in 0..Len(wire)
            BY CompletionIs
          <6>2. c.took = 0
            BY <4>2, <6>1
          <6>3. Filled(c) = <<>> \o SubSeq(<<>>, 1, 0)
            BY <4>2, <6>2 DEF Filled
          <6> QED
            BY <6>3
        <5>2. y - i = 0
          BY <1>4, <5>1 DEF Reaches
        <5> QED
          BY <2>5, <2>8, <5>2
      <4> QED
        BY <1>6, <3>3, <4>1, <4>2
    <3>4. outcome' = "SUCCESS"
      BY <2>1, <2>5, <2>8
    <3>5. Over'
      BY <1>1, <2>1, <2>3, <2>5, <3>2, <3>3, <3>4, GoesWell
    <3> QED
      BY <2>1, <3>5 DEF Goes
  <2> QED
    BY <2>7, <2>8
<1> QED
  BY <1>7, <1>8

-----------------------------------------------------------------------------
(* An exchange begins.                                                     *)

\* Where the parser of a new exchange is: in front of what the last one left.
LEMMA Begins ==
  ASSUME NEW m \in Messages, NEW e \in Nat, NEW L \in Leftovers, e = 1 => L = <<>>,
         NEW s \in Sendings(m, e)
  PROVE  \E i \in Int, k \in Int :
           /\ i = 0 - Len(L)
           /\ Located(m, e, FreshRx, <<>>, L \o s.tokens, L, i, i, k)
           /\ s.intact = (k = End(m, e)) /\ s.closed = (~s.intact \/ m.framing = "eof")
<1> DEFINE i == 0 - Len(L)
           w == L \o s.tokens
           r == Render(m, e)
<1>1. PICK k \in 0..End(m, e) :
        /\ s.tokens = SubSeq(r, 1, k) /\ s.tokens \in Tokens
        /\ s.intact = (k = End(m, e)) /\ s.intact \in BOOLEAN
        /\ s.closed = (k < End(m, e) \/ m.framing = "eof")
  BY SendingsType
<1>2. End(m, e) \in Nat /\ r \in Tokens /\ Len(r) = End(m, e) /\ L \in Tokens /\ Len(L) \in Nat
  BY HeadIs, LeftoverIs DEF End
<1>3. Len(s.tokens) = k /\ \A x \in 1..k : s.tokens[x] = r[x]
  <2>1. \A j \in 0..Len(r) : /\ Len(SubSeq(r, 1, j)) = j
                              /\ \A x \in 1..j : SubSeq(r, 1, j)[x] = r[x]
    <3>1. r \in Tokens
      BY <1>2
    <3> HIDE DEF r
    <3> QED
      BY <3>1, Pieces
  <2>2. k \in 0..Len(r) /\ s.tokens = SubSeq(r, 1, k)
    BY <1>1, <1>2
  <2> HIDE DEF r
  <2> QED
    BY <2>1, <2>2
<1>4. IsJoin(w, L, s.tokens)
  BY <1>1, <1>2, Joined
<1> HIDE DEF w, r
<1>5. /\ w \in Tokens /\ Len(w) = Len(L) + k
      /\ \A x \in 1..Len(L) : w[x] = L[x]
      /\ \A x \in 1..k : w[Len(L) + x] = r[x]
  BY <1>3, <1>4 DEF IsJoin
<1>6. i \in Int /\ k \in Int /\ i <= 0 /\ i <= k /\ 0 <= k /\ k <= End(m, e) /\ Len(w) = k - i
  BY <1>1, <1>2, <1>5
<1>7. ASSUME NEW x \in 1..Len(w) PROVE w[x] = TokenAt(m, e, L, i + x)
  <2>1. CASE x <= Len(L)
    <3>1. x \in 1..Len(L) /\ ~(i + x > 0) /\ Len(L) + (i + x) = x
      BY <1>2, <2>1
    <3>2. TokenAt(m, e, L, i + x) = L[Len(L) + (i + x)]
      BY <3>1 DEF TokenAt
    <3> QED
      BY <1>5, <3>1, <3>2
  <2>2. CASE ~(x <= Len(L))
    <3> DEFINE z == i + x
    <3>1. z \in 1..k /\ z > 0 /\ Len(L) + z = x
      BY <1>2, <1>5, <1>6, <2>2
    <3> HIDE DEF z
    <3>2. TokenAt(m, e, L, z) = r[z]
      BY <3>1 DEF TokenAt, r
    <3>3. w[Len(L) + z] = r[z]
      BY <1>5, <3>1
    <3> QED
      BY <3>1, <3>2, <3>3 DEF z
  <2> QED
    BY <2>1, <2>2
<1> HIDE DEF i
<1>8. Window(w, m, e, L, i, k)
  BY <1>5, <1>6, <1>7 DEF Window
<1>9. Window(<<>>, m, e, L, i, i)
  <2>1. Len(<<>>) = 0 /\ i - i = 0 /\ 1..0 = {}
    BY <1>6
  <2> QED
    BY <2>1, FreshType DEF Window
<1>10. Follows(FreshRx, m, e, i)
  <2>1. FreshRx.at = "start" /\ FreshRx.raw = <<>> /\ FreshRx.headers = "unread"
    BY DEF FreshRx
  <2>2. ~(i > 3)
    BY <1>6
  <2>3. InHead(FreshRx, m, i)
    BY <1>6, <2>1, <2>2 DEF InHead
  <2> QED
    BY <2>1, <2>3 DEF Follows, HeadStates
<1>11. i = 0 - Len(L)
  BY DEF i
<1>12. 0 - Len(L) <= i
  BY <1>6, <1>11
<1>13. Located(m, e, FreshRx, <<>>, w, L, i, i, k)
  <2>1. i <= i
    BY <1>6
  <2> QED
    BY <1>6, <1>8, <1>9, <1>10, <1>12, <2>1 DEF Located
<1>14. s.closed = (~s.intact \/ m.framing = "eof")
  <2>1. (k < End(m, e)) = (k # End(m, e))
    BY <1>2, <1>6
  <2> QED
    BY <1>1, <2>1
<1> QED
  BY <1>1, <1>6, <1>11, <1>13, <1>14 DEF w

\* The invariant holds at first,
LEMMA InvInit == Init => IInv
<1> SUFFICES ASSUME Init PROVE IInv
  OBVIOUS
<1>1. /\ asked = 1 /\ clean = TRUE /\ message \in Messages
      /\ op = "read_status" /\ buf = <<>> /\ rx = FreshRx
  BY DEF Init
<1>2. PICK s \in Sendings(message, 1) : intact = s.intact /\ wire = s.tokens /\ closed = s.closed
  BY <1>1 DEF Init
<1>3. <<>> \in Leftovers /\ Len(<<>>) = 0 /\ 1 \in Nat
  BY DEF Leftovers
<1>4. PICK i \in Int, k \in Int :
        /\ i = 0 - Len(<<>>)
        /\ Located(message, 1, FreshRx, <<>>, <<>> \o s.tokens, <<>>, i, i, k)
        /\ s.intact = (k = End(message, 1)) /\ s.closed = (~s.intact \/ message.framing = "eof")
  BY <1>1, <1>3, Begins
<1>5. <<>> \o s.tokens = wire
  <2>1. s.tokens \in Tokens
    BY <1>1, <1>3, SendingsType
  <2> QED
    BY <1>2, <2>1 DEF Tokens
<1>6. Located(message, asked, rx, buf, wire, <<>>, i, i, k)
  BY <1>1, <1>4, <1>5
<1>7. Ends(k)
  BY <1>1, <1>2, <1>4 DEF Ends
<1>8. Doing(<<>>, i)
  BY <1>1, <1>4 DEF Doing
<1>9. Whole
  BY <1>1 DEF Whole
<1>10. Underway
  BY <1>3, <1>6, <1>7, <1>8, <1>9 DEF Underway
<1> QED
  BY <1>1, <1>10 DEF IInv

\* when the next exchange takes the stream over,
LEMMA InvExchange ==
  ASSUME Types, IInv, NextExchange
  PROVE  IInv'
<1>1. /\ asked' = asked + 1 /\ clean' = (clean /\ outcome = "SUCCESS")
      /\ message' \in Messages /\ Answer(message', asked', wire)
      /\ op' = "read_status" /\ buf' = <<>> /\ rx' = FreshRx
      /\ outcome # "none" /\ ~closed
  BY DEF NextExchange
<1>2. asked \in Nat /\ asked > 0
  BY MessagesAssumption DEF Types, TypeOK
<1>3. asked' \in Nat /\ asked' # 1
  BY <1>1, <1>2
<1>4. ASSUME clean' PROVE Underway'
  <2>1. op = "none" /\ clean /\ outcome = "SUCCESS"
    BY <1>1, <1>4 DEF Types, TypeOK
  <2>2. wire \in Leftovers
    BY <1>1, <2>1 DEF IInv, Over
  <2>3. PICK s \in Sendings(message', asked') :
          intact' = s.intact /\ wire' = wire \o s.tokens /\ closed' = s.closed
    BY <1>1 DEF Answer
  <2> DEFINE L == wire
             m == message'
             e == asked'
  <2>4. L \in Leftovers /\ m \in Messages /\ e \in Nat /\ (e = 1 => L = <<>>) /\ s \in Sendings(m, e)
    BY <1>1, <1>3, <2>2
  <2> HIDE DEF L, m, e
  <2>5. PICK i \in Int, k \in Int :
          /\ i = 0 - Len(L)
          /\ Located(m, e, FreshRx, <<>>, L \o s.tokens, L, i, i, k)
          /\ s.intact = (k = End(m, e)) /\ s.closed = (~s.intact \/ m.framing = "eof")
    BY <2>4, Begins
  <2>6. PICK l \in Leftovers : l = L
    BY <2>4
  <2>7. Located(m, e, rx', buf', wire', l, i, i, k)
    BY <1>1, <2>3, <2>5, <2>6 DEF L
  <2>8. Located(message, asked, rx, buf, wire, l, i, i, k)'
    BY <2>7 DEF m, e
  <2>9. Ends(k)'
    BY <2>3, <2>5 DEF Ends, m, e
  <2>10. Doing(l, i)'
    BY <1>1, <2>5, <2>6 DEF Doing
  <2>11. Whole'
    BY <1>1 DEF Whole
  <2> QED
    BY <2>8, <2>9, <2>10, <2>11 DEF Underway
<1> QED
  BY <1>1, <1>3, <1>4 DEF IInv

\* and after every step.
LEMMA InvNext ==
  ASSUME Types, IInv, [Next]_vars
  PROVE  IInv'
<1>1. ASSUME UNCHANGED exchangeVars, op # "none", Underway => Goes PROVE IInv'
  <2>1. asked' = asked /\ clean' = clean
    BY <1>1 DEF exchangeVars
  <2> QED
    BY <1>1, <2>1 DEF IInv, Goes
<1>2. CASE OnReadStatus
  BY <1>1, <1>2, StatusRead DEF OnReadStatus
<1>3. CASE OnReadHeaders
  BY <1>1, <1>3, HeadersRead DEF OnReadHeaders
<1>4. CASE OnReadContentLength
  BY <1>1, <1>4, LengthRead DEF OnReadContentLength
<1>5. CASE OnReadChunkHeader
  BY <1>1, <1>5, ChunkHeaderRead DEF OnReadChunkHeader
<1>6. CASE OnReadChunkData
  BY <1>1, <1>6, ChunkDataRead DEF OnReadChunkData
<1>7. CASE OnReadUntilEof
  BY <1>1, <1>7, UntilEofRead DEF OnReadUntilEof
<1>8. CASE NextExchange
  BY <1>8, InvExchange
<1>9. CASE UNCHANGED vars
  <2>1. /\ message' = message /\ asked' = asked /\ clean' = clean /\ intact' = intact
        /\ closed' = closed /\ wire' = wire /\ op' = op /\ outcome' = outcome /\ buf' = buf
        /\ rx' = rx /\ cutoff' = cutoff /\ whole' = whole
    BY <1>9 DEF vars, exchangeVars
  <2>2. First' = First /\ Sent' = Sent /\ Stuck' = Stuck
    BY <2>1 DEF First, Sent, Stuck, Amounts, Missing, Until, AtLeast
  <2>3. Over' = Over
    BY <2>1, <2>2 DEF Over, OnePiece, ChunksComplete, Succeeds
  <2>4. \A k \in Int : Ends(k)' = Ends(k)
    BY <2>1 DEF Ends
  <2>5. \A L \in Leftovers, i \in Int : Doing(L, i)' = Doing(L, i)
    BY <2>1, <2>2 DEF Doing
  <2>6. Whole' = Whole
    BY <2>1, <2>2 DEF Whole
  <2>7. \A L \in Leftovers, i \in Int, j \in Int, k \in Int :
          Located(message, asked, rx, buf, wire, L, i, j, k)'
            = Located(message, asked, rx, buf, wire, L, i, j, k)
    BY <2>1
  <2> HIDE DEF Located, Ends, Doing, Whole
  <2>8. Underway => Underway'
    BY <2>4, <2>5, <2>6, <2>7 DEF Underway
  <2> QED
    BY <2>1, <2>3, <2>8 DEF IInv
<1> QED
  BY <1>2, <1>3, <1>4, <1>5, <1>6, <1>7, <1>8, <1>9 DEF Next, Reads

\* It always holds.
LEMMA Inductive == Spec => [](Types /\ IInv)
<1>1. Init => Types /\ IInv
  BY TypesInit, InvInit
<1>2. Types /\ IInv /\ [Next]_vars => (Types /\ IInv)'
  BY TypesNext, InvNext
<1> QED
  BY <1>1, <1>2, PTL DEF Spec

-----------------------------------------------------------------------------
(* The theorems.                                                           *)

\* What it says of the body while the exchange is under way, and behind it,
LEMMA GivesPrefix ==
  ASSUME Types, IInv
  PROVE  BodyIsPrefix
<1> SUFFICES ASSUME clean PROVE IsPrefix(rx.raw, Sent)
  BY DEF BodyIsPrefix
<1>1. CASE op = "none"
  BY <1>1 DEF IInv, Over
<1>2. CASE op # "none"
  <2>1. PICK L \in Leftovers, i \in Int, j \in Int, k \in Int :
          Located(message, asked, rx, buf, wire, L, i, j, k)
    BY <1>2 DEF IInv, Underway
  <2>2. /\ message \in Messages /\ asked \in Nat /\ rx \in Parsers
        /\ Follows(rx, message, asked, i) /\ End(message, asked) \in Nat
    BY <2>1, PlaceIs
  <2>3. i <= End(message, asked)
    BY <2>1, <2>2 DEF Located
  <2> QED
    BY <2>2, <2>3, FollowsPrefix DEF Sent
<1> QED
  BY <1>1, <1>2

\* of an answer in one piece,
LEMMA GivesPiece ==
  ASSUME Types, IInv
  PROVE  OnePiece
<1> SUFFICES ASSUME First, whole, intact
             PROVE  ~Stuck /\ (outcome # "none" => Succeeds /\ rx.raw = Sent)
  BY DEF OnePiece
<1>1. clean
  BY DEF IInv, First
<1>2. CASE op = "none"
  BY <1>1, <1>2 DEF IInv, Over, OnePiece
<1>3. CASE op # "none"
  <2>1. outcome = "none"
    BY <1>3 DEF Types, TypeOK
  <2>2. PICK L \in Leftovers, i \in Int, j \in Int, k \in Int :
          Located(message, asked, rx, buf, wire, L, i, j, k) /\ Ends(k) /\ Doing(L, i) /\ Whole
    BY <1>1, <1>3 DEF IInv, Underway
  <2>3. CASE op # "read_until_eof"
    <3>1. Amounts # {}
      BY <1>3, <2>2, <2>3, HasEnough
    <3> QED
      BY <2>1, <3>1 DEF Stuck
  \* Without a length, the server closes the stream.
  <2>4. CASE op = "read_until_eof"
    <3>1. rx.headers = "eof"
      BY <2>2, <2>4 DEF Whole
    <3>2. message.framing = "eof"
      <4>1. /\ message \in Messages /\ asked \in Nat /\ rx \in Parsers
            /\ Follows(rx, message, asked, i)
        BY <2>2, PlaceIs
      <4> QED
        BY <3>1, <4>1, HeadersAre
    <3>3. closed
      BY <2>2, <3>2 DEF Ends
    <3> QED
      BY <2>1, <3>3 DEF Stuck
  <2> QED
    BY <2>3, <2>4
<1> QED
  BY <1>2, <1>3

\* and of an exchange that succeeded.
LEMMA GivesEnds ==
  ASSUME Types, IInv
  PROVE  ChunksComplete
<1>1. CASE clean /\ op = "none"
  BY <1>1 DEF IInv, Over
<1>2. CASE ~clean
  BY <1>2 DEF IInv, ChunksComplete, First
<1>3. CASE op # "none"
  <2>1. ~Succeeds
    BY <1>3 DEF Types, TypeOK, Succeeds
  <2> QED
    BY <2>1 DEF ChunksComplete
<1> QED
  BY <1>1, <1>2, <1>3

\* However the stream is cut into pieces, and as long as every exchange before it
\* succeeded, what body_fn has collected is the beginning of the body sent.
THEOREM BodyDelivered == Spec => []BodyIsPrefix
<1>1. Types /\ IInv => BodyIsPrefix
  BY GivesPrefix
<1> QED
  BY <1>1, Inductive, PTL

\* An answer every read finds complete is delivered, whole: no handler waits for bytes
\* response_buf already holds, and none fails.
THEOREM OnePieceDelivered == Spec => []OnePiece
<1>1. Types /\ IInv => OnePiece
  BY GivesPiece
<1> QED
  BY <1>1, Inductive, PTL

\* A success of read_content_length() has all the body but its last byte, on whichever
\* exchange of a clean stream.
THEOREM LengthAlmostDelivered == Spec => LengthLosesOne
<1>1. Types /\ IInv /\ [Next]_vars
        => (clean /\ op = "read_content_length" /\ outcome' = "SUCCESS"
              => Len(rx'.raw) >= Size(message) - 1) \/ UNCHANGED vars
  <2> SUFFICES ASSUME Types, IInv, Next, clean, op = "read_content_length", outcome' = "SUCCESS"
               PROVE  Len(rx'.raw) >= Size(message) - 1
    OBVIOUS
  <2>1. OnReadContentLength
    BY DEF Next, Reads, OnReadStatus, OnReadHeaders, OnReadChunkHeader, OnReadChunkData,
           OnReadUntilEof, NextExchange
  <2>2. Underway
    BY DEF IInv
  <2> QED
    BY <2>1, <2>2, LengthRead
<1> QED
  BY <1>1, Inductive, PTL DEF Spec, LengthLosesOne

\* A success of the chunk handlers has the whole body, unless the stream ended.
THEOREM ChunksDelivered == Spec => []ChunksComplete
<1>1. Types /\ IInv => ChunksComplete
  BY GivesEnds
<1> QED
  BY <1>1, Inductive, PTL
=============================================================================
