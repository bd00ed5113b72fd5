------------------------------- MODULE Streams -------------------------------
(***************************************************************************)
(* drng.c and commitments.c: what is read from, or fed to, a hash piece by *)
(* piece.  A hash is what it was given: two inputs have two hashes.        *)
(***************************************************************************)
EXTENDS Naturals, Sequences

CONSTANTS BlockSize   \* bytes of a half of SHA512's output

-----------------------------------------------------------------------------
(* drng.  The state after n hashes of the seed; data and seed are the two   *)
(* halves of the same hash.                                                 *)

drng_new == [block |-> 1, pos |-> 0]

\* A mutant of Data: every read begins at the start of the block.
DataFromStart(rng, first, count) == [i \in 1..count |-> <<rng.block, i>>]

Data(rng, first, count) == [i \in 1..count |-> <<rng.block, first + i>>]

\* Reads of more than the rest of the block go on with the next one.
RECURSIVE Read(_, _)
Read(rng, length) ==
  LET size == BlockSize - rng.pos IN
  IF length > size
  THEN LET rest == Read([block |-> rng.block + 1, pos |-> 0], length - size)
       IN [rng |-> rest.rng, bytes |-> Data(rng, rng.pos, size) \o rest.bytes]
  ELSE [rng |-> [rng EXCEPT !.pos = @ + length], bytes |-> Data(rng, rng.pos, length)]

-----------------------------------------------------------------------------
(* Commitments: data is a nonempty sequence of bytes.                       *)

Hashed(salt, data) == <<salt>> \o data

CreateCommitment(salt, data) == [salt |-> salt, commitment |-> Hashed(salt, data)]

VerifyCommitment(data, commitment) ==
  Hashed(commitment.salt, data) = commitment.commitment

\* The context of one that is built, or checked, from pieces.  kept is the
\* salt for the one and the commitment for the other.
CtxNew(salt) == [verifier |-> FALSE, kept |-> <<salt>>, hashed |-> <<salt>>]
CtxVerifyNew(commitment) ==
  [verifier |-> TRUE, kept |-> commitment.commitment, hashed |-> <<commitment.salt>>]

\* A piece of no bytes, or for the other kind of context, is refused.
CtxUpdate(ctx, verifier, piece) ==
  IF piece = <<>> \/ ctx.verifier # verifier THEN ctx
  ELSE [ctx EXCEPT !.hashed = @ \o piece]

CtxFinal(ctx) == [salt |-> ctx.kept[1], commitment |-> ctx.hashed]
CtxVerifyFinal(ctx) == ctx.hashed = ctx.kept

RECURSIVE Feed(_, _, _)
Feed(ctx, verifier, pieces) ==
  IF pieces = <<>> THEN ctx
  ELSE Feed(CtxUpdate(ctx, verifier, Head(pieces)), verifier, Tail(pieces))
=============================================================================
