------------------------------ MODULE Erasure ------------------------------
(***************************************************************************)
(* Erasure coding of a content (crates/erasure/src): segments are encoded  *)
(* into coded pieces (segmenter.rs, lib.rs), nodes pass pieces on after    *)
(* verify_piece (homomorphic.rs), recombine them, and repair a segment     *)
(* with create_orthogonal_piece from a possibly stale piece map.           *)
(*                                                                         *)
(* Segment indices count from 0 as in the code, positions in sequences     *)
(* from 1.  Random bytes are drawn from the set RandomBytes.  Which node   *)
(* holds what, who leaves and when the piece map is refreshed belongs to   *)
(* the storage network that uses this crate and is external.               *)
(***************************************************************************)
EXTENDS GaloisField, SortedKeys, FiniteSets, Sequences, FiniteSetsExt, SequencesExt

CONSTANTS Nodes,
          Contents,         \* the contents a run publishes
          PieceSize,        \* ErasureConfig::piece_size
          SegmentSize,      \* ErasureConfig::segment_size
          DefaultPieceSize, \* DEFAULT_PIECE_SIZE
          DefaultSegmentSize, \* DEFAULT_SEGMENT_SIZE
          InitialParity,    \* ErasureConfig::initial_parity, a percentage
          RandomBytes,      \* what rng.gen() may return
          Projections,      \* the projection vectors of generate_projection
          MaxMoves          \* bound: transfers, recombinations and repairs

ASSUME SizeAssumption ==
  /\ IsFiniteSet(Nodes)
  /\ PieceSize \in Nat \ {0}
  /\ SegmentSize \in Nat \ {0}
  /\ DefaultPieceSize \in Nat \ {0}
  /\ DefaultSegmentSize \in Nat \ {0}
  /\ InitialParity \in Nat
  /\ RandomBytes \subseteq Elements
  /\ \A c \in Contents : c \in Seq(Elements)
  /\ Projections \in Seq([1 .. PieceSize -> Elements])

VARIABLES content,     \* what is published
          hashes,      \* segment_hashes of its verification record, by segment
          held,        \* the coded pieces each node holds
          pieceMap,    \* coefficient vectors the nodes know of, by segment
          moves        \* transfers, recombinations and repairs so far

vars == <<content, hashes, held, pieceMap, moves>>

-----------------------------------------------------------------------------
(* Vectors over the field. *)

\* The elements of a finite set in some order (SetToSeq by recursion).
Listed(S) ==
  LET list[n \in 0 .. Cardinality(S)] ==
        IF n = 0 THEN <<>>
        ELSE LET before == list[n - 1]
             IN  Append(before, CHOOSE x \in S : x \notin ToSet(before))
  IN  list[Cardinality(S)]

\* The sequence of n entries, as a tuple rather than a function to evaluate.
Tabulate(n, Entry(_)) == SubSeq([i \in 1 .. n |-> Entry(i)], 1, n)

DivCeil(a, b) == (a + b - 1) \div b

\* XOR-accumulation of products, as in linear_combine and gf256_dot.
Dot(a, b) ==
  LET sum[i \in 0 .. Len(a)] == IF i = 0 THEN 0 ELSE Add(sum[i - 1], Mul(a[i], b[i]))
  IN  sum[Len(a)]

LinearCombine(vectors, coeffs, size) ==
  Tabulate(size, LAMBDA j : Dot(coeffs, [i \in DOMAIN vectors |-> vectors[i][j]]))

Unit(k, i) == Tabulate(k, LAMBDA j : IF j = i THEN 1 ELSE 0)

\* Faulty variant: rows above the pivot keep their entries.
ReduceColumn_BelowOnly(m, col, limit) ==
  LET below == {r \in m.rank + 1 .. Len(m.rows) : m.rows[r][col] # 0}
      next  == m.rank + 1
  IN  IF m.rank = limit \/ below = {} THEN m
      ELSE LET pivot   == Min(below)
               swapped == [m.rows EXCEPT ![next] = m.rows[pivot], ![pivot] = m.rows[next]]
               inverse == Inv(swapped[next][col])
               top     == Tabulate(Len(swapped[next]), LAMBDA j : Mul(inverse, swapped[next][j]))
               cleared(row) == Tabulate(Len(row), LAMBDA j : Add(row[j], Mul(row[col], top[j])))
           IN  [rows   |-> Tabulate(Len(swapped), LAMBDA r :
                             IF r = next THEN top ELSE
                             IF r > next THEN cleared(swapped[r]) ELSE swapped[r]),
                rank   |-> next,
                pivots |-> Append(m.pivots, col)]

(* One column of Gaussian elimination: the first row below the rank with a *)
(* nonzero entry is swapped up and scaled, and the column is cleared in    *)
(* all other rows.  A column without pivot, or a full rank, changes        *)
(* nothing.                                                                *)
ReduceColumn(m, col, limit) ==
  LET below == {r \in m.rank + 1 .. Len(m.rows) : m.rows[r][col] # 0}
      next  == m.rank + 1
  IN  IF m.rank = limit \/ below = {} THEN m
      ELSE LET pivot   == Min(below)
               swapped == [m.rows EXCEPT ![next] = m.rows[pivot], ![pivot] = m.rows[next]]
               inverse == Inv(swapped[next][col])
               top     == Tabulate(Len(swapped[next]), LAMBDA j : Mul(inverse, swapped[next][j]))
               cleared(row) == Tabulate(Len(row), LAMBDA j : Add(row[j], Mul(row[col], top[j])))
           IN  [rows   |-> Tabulate(Len(swapped), LAMBDA r :
                             IF r = next THEN top ELSE cleared(swapped[r])),
                rank   |-> next,
                pivots |-> Append(m.pivots, col)]

Reduce(rows, cols, limit) ==
  LET after[col \in 0 .. cols] ==
        IF col = 0 THEN [rows |-> rows, rank |-> 0, pivots |-> <<>>]
        ELSE ReduceColumn(after[col - 1], col, limit)
  IN  after[cols]

CheckIndependence(vectors) ==
  IF vectors = <<>> THEN 0
  ELSE LET k == Len(vectors[1]) IN Reduce(vectors, k, k).rank

-----------------------------------------------------------------------------
(* Segments and their encoding. *)

SegmentCount(len) == DivCeil(len, SegmentSize)

SegmentIds == 0 .. SegmentCount(Len(content)) - 1

SegmentOf(c, s) == SubSeq(c, s * SegmentSize + 1, Min({(s + 1) * SegmentSize, Len(c)}))

SegmentData(s) == SegmentOf(content, s)

\* RlncEncoder::new: the source pieces, the last one padded with zeros.
SourcePieces(segment) ==
  Tabulate(Max({DivCeil(Len(segment), PieceSize), 1}), LAMBDA i :
    Tabulate(PieceSize, LAMBDA j :
      LET at == (i - 1) * PieceSize + j
      IN  IF at <= Len(segment) THEN segment[at] ELSE 0))

K(s) == Len(SourcePieces(SegmentData(s)))

ParityCount(k) == (k * InitialParity) \div 100

Piece(s, coefficients, data) == [seg |-> s, coefficients |-> coefficients, data |-> data]

\* The piece with these coefficients as the encoder computes it.
CodedPiece(s, coefficients) ==
  Piece(s, coefficients, LinearCombine(SourcePieces(SegmentData(s)), coefficients, PieceSize))

\* RlncEncoder::encode: the source pieces, then the random ones.
Encode(s, random) ==
  LET k == K(s)
  IN  [i \in 1 .. k |-> Piece(s, Unit(k, i), SourcePieces(SegmentData(s))[i])]
        \o [i \in DOMAIN random |-> CodedPiece(s, random[i])]

-----------------------------------------------------------------------------
(* Homomorphic hashes. *)

Hash(data) == Tabulate(Len(Projections), LAMBDA p : Dot(data, Projections[p]))

(* The projections see every place of a piece, and every source piece that *)
(* is not zero.  A hash is shorter than a piece, so many pieces share one; *)
(* that 16 projections of random bytes fail to see a given place or piece  *)
(* has a probability of 1 in 2^128.                                        *)
ASSUME ProjectionsSee ==
  /\ \A i \in 1 .. PieceSize : \E p \in DOMAIN Projections : Projections[p][i] # 0
  /\ \A c \in Contents : \A s \in 0 .. SegmentCount(Len(c)) - 1 :
       \A d \in ToSet(SourcePieces(SegmentOf(c, s))) :
         (\E i \in 1 .. PieceSize : d[i] # 0) => \E p \in DOMAIN Projections : Hash(d)[p] # 0

GenerateSegmentHashes(originals) == [i \in DOMAIN originals |-> Hash(originals[i].data)]

\* Faulty variant: only the first projection is compared.
VerifyPiece_FirstOnly(piece, pieceHashes) ==
  /\ Len(piece.coefficients) = Len(pieceHashes)
  /\ Hash(piece.data)[1] = LinearCombine(pieceHashes, piece.coefficients, Len(Projections))[1]

VerifyPiece(piece, pieceHashes) ==
  /\ Len(piece.coefficients) = Len(pieceHashes)
  /\ IF pieceHashes = <<>> THEN piece.data = <<>>
     ELSE Hash(piece.data) = LinearCombine(pieceHashes, piece.coefficients, Len(Projections))

\* ContentVerificationRecord: segment_count and k_for_segment, from the file
\* size and the default sizes alone.
KForSegment(fileSize, s) ==
  LET count == DivCeil(fileSize, DefaultSegmentSize)
  IN  IF count = 0 THEN 0
      ELSE IF s + 1 < count THEN DefaultSegmentSize \div DefaultPieceSize
      ELSE Max({DivCeil(fileSize - s * DefaultSegmentSize, DefaultPieceSize), 1})

\* ErasureConfig::default
DefaultConfig == PieceSize = DefaultPieceSize /\ SegmentSize = DefaultSegmentSize

-----------------------------------------------------------------------------
(* Decoding. *)

Failure(error) == [status |-> error, data |-> <<>>]

\* RlncDecoder::decode: only the first k pieces are looked at.
Decode(pieces, k, size) ==
  IF Len(pieces) < k THEN Failure("insufficient")
  ELSE LET m == Reduce([i \in 1 .. k |-> pieces[i].coefficients \o pieces[i].data], k, k)
       IN  IF m.rank < k THEN Failure("dependent")
           ELSE [status |-> "ok",
                 data   |-> SubSeq(FlattenSeq([i \in 1 .. k |-> SubSeq(m.rows[i], k + 1, Len(m.rows[i]))]),
                                   1, size)]

\* decode_and_reassemble, of the pieces a reader has collected by segment.
DecodeAndReassemble(segments, total, len) ==
  LET size(s)    == Min({(s + 1) * SegmentSize, len}) - s * SegmentSize
      k(s)       == Max({DivCeil(size(s), PieceSize), 1})
      decoded(s) == IF s \notin DOMAIN segments THEN Failure("missing")
                    ELSE Decode(segments[s], k(s), size(s))
      results    == [i \in 1 .. total |-> decoded(i - 1)]
      failed     == {i \in 1 .. total : results[i].status # "ok"}
  IN  IF failed # {} THEN results[Min(failed)]
      ELSE [status |-> "ok", data |-> FlattenSeq([i \in 1 .. total |-> results[i].data])]

-----------------------------------------------------------------------------
(* Recombination and repair. *)

\* The combination of pieces of one segment.
Combination(pieces, alphas) ==
  Piece(pieces[1].seg,
        LinearCombine([i \in DOMAIN pieces |-> pieces[i].coefficients], alphas,
                      Len(pieces[1].coefficients)),
        LinearCombine([i \in DOMAIN pieces |-> pieces[i].data], alphas,
                      Len(pieces[1].data)))

\* The columns without pivot, ascending.
FreeCols(existing, k) ==
  LET m == Reduce(existing, k, k)
  IN  Ascending((1 .. k) \ ToSet(m.pivots))

\* Faulty variant: always the first free column.
GenerateOrthogonalVector_FirstFree(existing, k, offset) ==
  IF k = 0 THEN {}
  ELSE IF existing = <<>> THEN {Unit(k, 1)}
  ELSE LET free == FreeCols(existing, k)
       IN  IF free = <<>> THEN {} ELSE {Unit(k, free[1])}

\* The result as a set, empty where the code answers None.
GenerateOrthogonalVector(existing, k, offset) ==
  IF k = 0 THEN {}
  ELSE IF existing = <<>> THEN {Unit(k, 1)}
  ELSE LET free == FreeCols(existing, k)
       IN  IF free = <<>> THEN {}
           ELSE {Unit(k, free[(offset % Len(free)) + 1])}

\* The linear system over the local pieces that the target must solve.
Solve(localPieces, k, target) ==
  LET n == Len(localPieces)
  IN  Reduce(Tabulate(k, LAMBDA j : Tabulate(n + 1, LAMBDA i :
                IF i <= n THEN localPieces[i].coefficients[j] ELSE target[j])), n, k)

\* Faulty variant: the consistency check is missing.
Solvable_Always(m, n) == TRUE

Solvable(m, n) == \A r \in m.rank + 1 .. Len(m.rows) : m.rows[r][n + 1] = 0

\* The unknowns without pivot are zero.
Alphas(m, n) ==
  Tabulate(n, LAMBDA i : IF \E r \in DOMAIN m.pivots : m.pivots[r] = i
                         THEN m.rows[CHOOSE r \in DOMAIN m.pivots : m.pivots[r] = i][n + 1]
                         ELSE 0)

CreateOrthogonalPiece(localPieces, existing, k, offset) ==
  LET n == Len(localPieces)
  IN  IF n = 0 \/ k = 0 THEN {}
      ELSE {Combination(localPieces, Alphas(Solve(localPieces, k, target), n)) :
              target \in {t \in GenerateOrthogonalVector(existing, k, offset) :
                             Solvable(Solve(localPieces, k, t), n)}}

-----------------------------------------------------------------------------
(* The network of nodes. *)

Local(n, s) == {p \in held[n] : p.seg = s}

InNetwork(s) == UNION {Local(n, s) : n \in Nodes}

Init ==
  /\ content \in Contents
  /\ hashes = [s \in {} |-> <<>>]
  /\ held = [n \in Nodes |-> {}]
  /\ pieceMap = [s \in SegmentIds |-> {}]
  /\ moves = 0

(* segment_and_encode does the segments in parallel, each on its own; the  *)
(* pieces then go to the nodes in any way.                                 *)
Publish(s) ==
  /\ s \notin DOMAIN hashes
  /\ \E random \in [1 .. ParityCount(K(s)) -> [1 .. K(s) -> RandomBytes]] :
       LET pieces == Encode(s, random)
       IN  \E place \in [DOMAIN pieces -> Nodes] :
             held' = [n \in Nodes |->
                        held[n] \cup {pieces[i] : i \in {j \in DOMAIN pieces : place[j] = n}}]
  /\ hashes' = [t \in DOMAIN hashes \cup {s} |->
                  IF t = s THEN GenerateSegmentHashes(Encode(s, <<>>)) ELSE hashes[t]]
  /\ UNCHANGED <<content, pieceMap, moves>>

Published == DOMAIN hashes = SegmentIds

\* A piece as it arrives: whole, or with one symbol changed.
Arrivals(p) ==
  {p} \cup {[p EXCEPT !.data[i] = x] : i \in DOMAIN p.data, x \in Elements}
      \cup {[p EXCEPT !.coefficients[i] = x] : i \in DOMAIN p.coefficients, x \in Elements}

Transfer(from, to, p) ==
  /\ Published /\ moves < MaxMoves
  /\ p \in held[from]
  /\ \E q \in Arrivals(p) :
       /\ VerifyPiece(q, hashes[q.seg])
       /\ held' = [held EXCEPT ![to] = @ \cup {q}]
  /\ moves' = moves + 1
  /\ UNCHANGED <<content, hashes, pieceMap>>

\* create_piece_from_existing of at least two pieces, no coefficient zero.
CreatePieceFromExisting(n, s) ==
  /\ Published /\ moves < MaxMoves
  /\ \E P \in SUBSET Local(n, s) :
       /\ Cardinality(P) >= 2
       /\ \E alphas \in [1 .. Cardinality(P) -> RandomBytes \ {0}] :
            held' = [held EXCEPT ![n] = @ \cup {Combination(Listed(P), alphas)}]
  /\ moves' = moves + 1
  /\ UNCHANGED <<content, hashes, pieceMap>>

Repaired(n, s, offset) ==
  CreateOrthogonalPiece(Listed(Local(n, s)), Listed(pieceMap[s]), K(s), offset)

Repair(n, s) ==
  /\ Published /\ moves < MaxMoves
  /\ \E offset \in 0 .. K(s) : \E p \in Repaired(n, s, offset) :
       held' = [held EXCEPT ![n] = @ \cup {p}]
  /\ moves' = moves + 1
  /\ UNCHANGED <<content, hashes, pieceMap>>

(* The piece map is refreshed with what some nodes have announced; it lacks *)
(* the pieces of the others and goes stale from then on.                   *)
Scan(announced) ==
  /\ Published
  /\ pieceMap' = [s \in SegmentIds |->
                    {p.coefficients : p \in UNION {Local(n, s) : n \in announced}}]
  /\ UNCHANGED <<content, hashes, held, moves>>

Leave(n) ==
  /\ Published
  /\ held[n] # {}
  /\ held' = [held EXCEPT ![n] = {}]
  /\ UNCHANGED <<content, hashes, pieceMap, moves>>

Next ==
  \/ \E s \in SegmentIds : Publish(s)
  \/ \E from, to \in Nodes : \E p \in held[from] : Transfer(from, to, p)
  \/ \E n \in Nodes, s \in SegmentIds : CreatePieceFromExisting(n, s)
  \/ \E n \in Nodes, s \in SegmentIds : Repair(n, s)
  \/ \E announced \in SUBSET Nodes : Scan(announced)
  \/ \E n \in Nodes : Leave(n)

Spec == Init /\ [][Next]_vars

-----------------------------------------------------------------------------
(* Properties. *)

\* All combinations of a set of vectors of length k: from the zero vector on,
\* each u + a * v for one vector v after the other.
Span(vectors, k) ==
  LET list == Listed(vectors)
      span[i \in 0 .. Len(list)] ==
        IF i = 0 THEN {Tabulate(k, LAMBDA j : 0)}
        ELSE {Tabulate(k, LAMBDA j : Add(u[j], Mul(a, list[i][j]))) :
                u \in span[i - 1], a \in Elements}
  IN  span[Len(list)]

(* Every piece any node holds, however often it was recombined, repaired   *)
(* or passed on over a channel that changes symbols, is the combination of *)
(* the source pieces that its coefficient vector claims, and no node that  *)
(* receives it will refuse it (verify_piece, create_piece_from_existing,   *)
(* create_orthogonal_piece).                                               *)
PiecesConsistent ==
  \A n \in Nodes : \A p \in held[n] :
    /\ p = CodedPiece(p.seg, p.coefficients)
    /\ VerifyPiece(p, hashes[p.seg])

(* A reader that collects as many pieces of a segment as the record says,  *)
(* from any nodes and in either order, gets the content back from          *)
(* decode_and_reassemble, padding removed, unless their coefficients do    *)
(* not span: then the error is LinearlyDependent, never wrong data, and    *)
(* check_independence has counted fewer than k.                            *)
ReadReturnsContent ==
  \A s \in SegmentIds : \A P \in kSubset(KForSegment(Len(content), s), InNetwork(s)) :
    LET vectors  == {p.coefficients : p \in P}
        spanning == Cardinality(Span(vectors, K(s))) = Power(Size, K(s))
    IN  /\ spanning <=> CheckIndependence(Listed(vectors)) = K(s)
        /\ \A pieces \in {Listed(P), Reverse(Listed(P))} :
             DecodeAndReassemble([t \in SegmentIds |-> IF t = s THEN pieces ELSE Encode(t, <<>>)],
                                 Cardinality(SegmentIds), Len(content))
               = IF spanning THEN [status |-> "ok", data |-> content]
                 ELSE Failure("dependent")

(* A piece create_orthogonal_piece makes is independent of every vector of *)
(* the piece map it was given, however stale the map is.                   *)
RepairIndependent ==
  \A n \in Nodes, s \in SegmentIds : \A offset \in 0 .. K(s) :
    \A p \in Repaired(n, s, offset) : p.coefficients \notin Span(pieceMap[s], K(s))

(* Nodes that repair at the same time from the same nonempty piece map     *)
(* with different offsets below the number of free columns target vectors  *)
(* independent of the map and of each other ("zero collisions even with    *)
(* simultaneous repair", lib.rs).  With an empty map the code ignores the  *)
(* offset.                                                                 *)
RepairsDoNotCollide ==
  \A s \in SegmentIds :
    LET existing == Listed(pieceMap[s])
        free     == Len(FreeCols(existing, K(s)))
        target(offset) == GenerateOrthogonalVector(existing, K(s), offset)
    IN  existing # <<>> =>
          \A a, b \in 0 .. free - 1 : a # b =>
            Cardinality(Span(pieceMap[s] \cup target(a) \cup target(b), K(s)))
              = Power(Size, K(s) - free + 2)
=============================================================================
