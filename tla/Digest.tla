------------------------------- MODULE Digest -------------------------------
(***************************************************************************)
(* lib/ed25519/sha512.c: how SHA-512 takes a message piece by piece.  The  *)
(* compression of a block is ideal: a state is the sequence of the blocks  *)
(* compressed into it.  An element of a message stands for a byte.         *)
(***************************************************************************)
EXTENDS Integers, SequencesExt

CONSTANTS HashBlock,     \* 128, the bytes of a block
          LengthAt,      \* 112, where the 16 bytes of the length begin
          LengthBytes    \* 8, those of them that are ever used

ASSUME DigestAssumption ==
    /\ HashBlock \in Nat /\ LengthAt \in 1..(HashBlock - 1)
    /\ LengthBytes \in 1..(HashBlock - LengthAt)

Compress(state, block) == Append(state, block)

\* sha512_init()
HashStart == [state |-> <<>>, buf |-> <<>>, length |-> 0]

\* A faulty turn that does not count the bits of a block filled in the buffer.
HashTurnUncounted(s) ==
    LET n == IF Len(s.in) < HashBlock - Len(s.md.buf) THEN Len(s.in) ELSE HashBlock - Len(s.md.buf)
        filled == s.md.buf \o SubSeq(s.in, 1, n)
    IN [md |-> IF Len(filled) = HashBlock
               THEN [s.md EXCEPT !.state = Compress(@, filled), !.buf = <<>>]
               ELSE [s.md EXCEPT !.buf = filled],
        in |-> SubSeq(s.in, n + 1, Len(s.in))]

\* A turn of sha512_update(): a whole block as it is, or what goes into the buffer.
HashTurn(s) ==
    IF s.in = <<>> THEN s
    ELSE IF s.md.buf = <<>> /\ Len(s.in) >= HashBlock
    THEN [md |-> [s.md EXCEPT !.state = Compress(@, SubSeq(s.in, 1, HashBlock)),
                              !.length = @ + 8 * HashBlock],
          in |-> SubSeq(s.in, HashBlock + 1, Len(s.in))]
    ELSE LET room == HashBlock - Len(s.md.buf)
             n == IF Len(s.in) < room THEN Len(s.in) ELSE room
             filled == s.md.buf \o SubSeq(s.in, 1, n)
         IN [md |-> IF Len(filled) = HashBlock
                    THEN [state |-> Compress(s.md.state, filled), buf |-> <<>>,
                          length |-> s.md.length + 8 * HashBlock]
                    ELSE [s.md EXCEPT !.buf = filled],
             in |-> SubSeq(s.in, n + 1, Len(s.in))]

\* sha512_update(): a turn takes an element at least.
HashUpdate(md, in) ==
    LET turn[k \in 0..Len(in)] == IF k = 0 THEN [md |-> md, in |-> in]
                                           ELSE HashTurn(turn[k - 1])
    IN turn[Len(in)].md

Zeros(n) == [i \in 1..n |-> 0]

\* sha512_final(): a one bit, zeros, and the length in bits in a block's end.
HashFinal(md) ==
    LET length == md.length + 8 * Len(md.buf)
        marked == Append(md.buf, 128)
        spill == Len(marked) > LengthAt
        state == IF spill THEN Compress(md.state, marked \o Zeros(HashBlock - Len(marked)))
                          ELSE md.state
        last == IF spill THEN <<>> ELSE marked
    IN Compress(state, last \o Zeros(HashBlock - LengthBytes - Len(last)) \o <<length>>)

\* The digest of a message given in pieces.
Digested(pieces) ==
    LET after[k \in 0..Len(pieces)] == IF k = 0 THEN HashStart
                                               ELSE HashUpdate(after[k - 1], pieces[k])
    IN HashFinal(after[Len(pieces)])

----------------------------------------------------------------------------
\* What SHA-512 says: the message, a one bit, as few zeros as fill the block
\* with the length, cut into blocks.
PaddedBlocks(m) ==
    LET blocks == (Len(m) + 1 + HashBlock - LengthAt + HashBlock - 1) \div HashBlock
        whole == m \o <<128>> \o Zeros(blocks * HashBlock - LengthBytes - Len(m) - 1)
                   \o <<8 * Len(m)>>
    IN [b \in 1..blocks |->
           SubSeq(whole, HashBlock * (b - 1) + 1,
                  IF b = blocks THEN Len(whole) ELSE HashBlock * b)]
============================================================================
