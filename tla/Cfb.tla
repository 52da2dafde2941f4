-------------------------------- MODULE Cfb ---------------------------------
(* cast128_cfb_decrypt (cast128.c): bytes are decrypted as they are read, in  *)
(* pieces of any length.  The context keeps the last ciphertext bytes (fr),   *)
(* what they were encrypted to (fre), and how much of that is used (n).       *)
(*                                                                            *)
(* A byte of ciphertext is known by its place in the file.  The block cipher  *)
(* is symbolic: a block encrypted is known by the block.  A decrypted byte is *)
(* the ciphertext byte, the block it was combined with, and where in it.      *)
EXTENDS Integers, Sequences

CONSTANT BLOCK          \* CAST128_BLOCK_SIZE, 8

ASSUME BlockAssumption == BLOCK \in Nat \ {0, 1}

Offsets == 0..BLOCK - 1

(* The bytes of c that start behind the first at. *)
BlockAt(c, at) == [k \in Offsets |-> c[at + k + 1]]

(* cast128_cfb_reinit: nothing of fre is used before it is made. *)
Reinit(ctx, iv) == [fr |-> iv, fre |-> ctx.fre, n |-> BLOCK]

ZeroIv == [k \in Offsets |-> 0]

CfbInit == [fr |-> ZeroIv, fre |-> ZeroIv, n |-> BLOCK]

(* cast128_cfb_decrypt: what is left of fre is used up, then whole blocks are *)
(* decrypted, and the last bytes with a block of which the rest is kept.      *)
(* Register(0) is fr when that begins, Register(b) is fr after b blocks.    *)
Old(ctx, c) == IF BLOCK - ctx.n < Len(c) THEN BLOCK - ctx.n ELSE Len(c)

Shifted(ctx, c) ==
  [k \in Offsets |->
     IF k \in ctx.n..ctx.n + Old(ctx, c) - 1 THEN c[k - ctx.n + 1] ELSE ctx.fr[k]]

Register(ctx, c, b) ==
  IF b = 0 THEN Shifted(ctx, c) ELSE BlockAt(c, Old(ctx, c) + (b - 1) * BLOCK)

Whole(ctx, c) == (Len(c) - Old(ctx, c)) \div BLOCK

Left(ctx, c) == (Len(c) - Old(ctx, c)) % BLOCK

Clear(c, under, at) == [byte |-> c, under |-> under, at |-> at]

Decrypted(ctx, c) ==
  [i \in 1..Len(c) |->
     LET j == i - 1 - Old(ctx, c) IN
     IF j < 0 THEN Clear(c[i], ctx.fre, ctx.n + i - 1)
     ELSE Clear(c[i], Register(ctx, c, j \div BLOCK), j % BLOCK)]

PositionForgetting(ctx, c) ==   \* mutant: n is not set for the last bytes
  ctx.n + Old(ctx, c)

Position(ctx, c) == IF Left(ctx, c) > 0 THEN Left(ctx, c) ELSE ctx.n + Old(ctx, c)

Afterwards(ctx, c) ==
  LET whole == Whole(ctx, c)
      past  == Old(ctx, c) + whole * BLOCK
  IN [fr  |-> [k \in Offsets |-> IF k < Left(ctx, c) THEN c[past + k + 1]
                                 ELSE Register(ctx, c, whole)[k]],
      fre |-> IF Left(ctx, c) > 0 THEN Register(ctx, c, whole)
              ELSE IF whole > 0 THEN Register(ctx, c, whole - 1) ELSE ctx.fre,
      n   |-> Position(ctx, c)]

-----------------------------------------------------------------------------
(* What CFB mode means: the bytes behind place base come in blocks, and each  *)
(* block is combined with the encrypted block before it.  The first one       *)
(* follows the BLOCK bytes that end at base.                                  *)
BlockStart(base, p) == base + ((p - base - 1) \div BLOCK) * BLOCK

Plain(base, p) ==
  Clear(p, [k \in Offsets |-> BlockStart(base, p) - BLOCK + k + 1],
        p - BlockStart(base, p) - 1)
=============================================================================
