----------------------------- MODULE MCErasure -----------------------------
(* Instances of Erasure for TLC: GF(4), pieces of three symbols. *)
EXTENDS Erasure

\* A full segment of three pieces and a last one of a third of a piece; one
\* piece; two, of which one is zero.
MCContents == {<<1, 2, 3, 0, 2, 2, 3, 1, 1, 3>>, <<2>>, <<0, 0, 0, 1, 3>>}

\* Two projections of three symbols, each blind to one: a hash is shared by
\* four pieces.
MCProjections == <<<<1, 0, 2>>, <<0, 1, 1>>>>

\* The field of the code: GF(2^8) with POLYNOMIAL 0x11D.
Code == INSTANCE GaloisPowers WITH Width <- 8, Polynomial <- 285

\* What the proofs assume of the field holds of the code's too.
ASSUME CodeAssumption == Code!Primitive

NodeSymmetry == Permutations(Nodes)
=============================================================================
