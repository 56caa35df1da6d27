----------------------------- MODULE Consensus -----------------------------
(***************************************************************************)
(* The arithmetic that all nodes must agree on: compact targets            *)
(* (utils.rs), the next bits of a chain (chain.rs) and the merkle root of  *)
(* a block (tx.rs).                                                        *)
(*                                                                         *)
(* A compact target is an exponent and a mantissa of three digits to the   *)
(* base Radix, which is 256 in the code; everything else about it is       *)
(* scaled with the radix.  sha256d is taken to be injective: the hash of   *)
(* a transaction is a tuple of one element, that of two hashes the pair of *)
(* them.                                                                   *)
(***************************************************************************)
EXTENDS Integers, Sequences, FiniteSets, FiniteSetsExt

CONSTANTS
    Radix,           \* values of a digit (256, a byte)
    MaxTargetSize,   \* digits of the largest target that is encoded (80)
    GenesisExp,      \* the exponent of the genesis bits (0x1d)
    Expected,        \* EXPECTED_TIME
    TimeMod,         \* timestamps are counted modulo this (2^32)
    Ends,            \* timestamps at the end of a period, relative to its start
    BlockTxs,        \* transactions of which blocks are made
    MaxTxs           \* bound on the transactions of a block

ASSUME ConsensusAssumption ==
    /\ {MaxTargetSize, GenesisExp, MaxTxs} \subseteq Nat
    /\ 3 <= GenesisExp /\ GenesisExp <= MaxTargetSize
    /\ Radix \in Nat /\ Radix >= 8 /\ Radix % 2 = 0
    /\ Expected \in Nat /\ Expected >= 4 /\ TimeMod \in Nat \ {0}
    /\ Ends \subseteq -TimeMod .. TimeMod

Power(base, n) ==
    LET power[k \in Nat] == IF k = 0 THEN 1 ELSE base * power[k - 1]
    IN power[n]

SignBit == (Radix * Radix * Radix) \div 2   \* 0x00800000

\* The bits of the genesis block and the limit of calculate_next_bits
\* (0x1d00ffff).
GenesisBits == [exp |-> GenesisExp, mant |-> Radix * Radix - 1]

\* compact_to_target: the sign bit is taken out of the mantissa and added
\* again.
CompactToTarget(bits) ==
    IF bits.exp >= 3 THEN bits.mant * Power(Radix, bits.exp - 3)
                     ELSE bits.mant \div Power(Radix, 3 - bits.exp)

\* (target.bits() + 7) / 8
SizeOf(target) ==
    Min({n \in 0 .. MaxTargetSize + 1 : target < Power(Radix, n) \/ n = MaxTargetSize + 1})

\* Slip: the leading digits are cut off and not limited.
TargetToCompactOverflows(target) ==
    LET size == SizeOf(target)
        top  == IF size <= 3 THEN target ELSE target \div Power(Radix, size - 3)
        mant == IF size <= 3 THEN top * Power(Radix, 3 - size) ELSE top
    IN IF target = 0 \/ size > MaxTargetSize THEN GenesisBits
       ELSE [exp |-> size, mant |-> mant % SignBit]

\* target_to_compact.  A leading digit with the sign bit does not raise the
\* exponent when there are three digits: the mantissa is cut off at the
\* largest one without it.
TargetToCompact(target) ==
    LET size == SizeOf(target)
        top  == Min({IF size <= 3 THEN target ELSE target \div Power(Radix, size - 3),
                     SignBit - 1})
        mant == IF size <= 3 THEN top * Power(Radix, 3 - size) ELSE top
    IN IF target = 0 \/ size > MaxTargetSize THEN GenesisBits
       ELSE IF mant >= SignBit
            THEN [exp |-> size + 1, mant |-> mant \div Radix]
            ELSE [exp |-> size, mant |-> mant]

\* The subtraction of two u32 timestamps, and its clamp.
ActualTime(start, end) ==
    Max({Expected \div 4, Min({Expected * 4, (end - start) % TimeMod})})

\* calculate_next_bits at a multiple of DIFFICULTY_ADJUST_INTERVAL; late: the
\* last timestamp is not above the median.
NextBits(bits, start, end, late) ==
    LET old == CompactToTarget(bits)
        new == Min({Max({(old * ActualTime(start, end)) \div Expected, old \div 4}),
                    old * 4, CompactToTarget(GenesisBits)})
    IN TargetToCompact(IF late THEN old ELSE new)

-----------------------------------------------------------------------------
(* Merkle root *)

\* Slip: a hash without a partner moves up as it is.
PairUpBare(hashes) ==
    [i \in 1 .. (Len(hashes) + 1) \div 2 |->
       IF 2 * i > Len(hashes) THEN hashes[2 * i - 1]
       ELSE <<hashes[2 * i - 1], hashes[2 * i]>>]

\* One level of compute_merkle_root: a last hash without a partner is paired
\* with itself.
PairUp(hashes) ==
    [i \in 1 .. (Len(hashes) + 1) \div 2 |->
       <<hashes[2 * i - 1], hashes[Min({2 * i, Len(hashes)})]>>]

\* The loop of compute_merkle_root.  It ends after at most as many rounds as
\* there are hashes.
Rounds(hashes) ==
    LET round[k \in 0 .. Len(hashes)] ==
          IF k = 0 THEN hashes
          ELSE LET before == round[k - 1]
               IN IF Len(before) > 1 THEN PairUp(before) ELSE before
    IN round

TxHash(tx) == <<tx>>   \* t.hash()

Zeros == <<>>   \* [0u8; 32]

MerkleRoot(txs) ==
    LET hashes == [i \in DOMAIN txs |-> TxHash(txs[i])]
    IN IF txs = <<>> THEN Zeros ELSE Rounds(hashes)[Len(hashes)][1]

-----------------------------------------------------------------------------
(* A chain at its adjustments, and a block of which the root is computed *)

VARIABLES
    bits,        \* the bits in force
    last_bits,   \* those of the period before
    block_txs    \* the transactions of the block that is hashed

consensus_vars == <<bits, last_bits, block_txs>>

\* The two share no state: one block of any transactions stands for all.
ConsensusInit ==
    /\ bits = GenesisBits /\ last_bits = GenesisBits
    /\ block_txs \in UNION {[1 .. n -> BlockTxs] : n \in 0 .. MaxTxs}

Retarget ==
    \E end \in Ends, late \in BOOLEAN :
      /\ bits' = NextBits(bits, 0, end, late)
      /\ last_bits' = bits
      /\ block_txs' = <<>>

ConsensusNext == Retarget
ConsensusSpec == ConsensusInit /\ [][ConsensusNext]_consensus_vars

-----------------------------------------------------------------------------
(* Properties *)

\* No sequence of adjustments makes the target larger than that of the
\* genesis block (1007, and the way through target_to_compact).
NeverEasier == CompactToTarget(bits) <= CompactToTarget(GenesisBits)

\* Between two periods the target that is written to the headers grows at
\* most by 4, and shrinks at most by 4 and the half and the digit that the
\* mantissa may lose, unless it was so small that a quarter of it is zero.
StepBounded ==
    LET old == CompactToTarget(last_bits)
        new == CompactToTarget(bits)
    IN old >= 4 => (new <= 4 * old /\ 2 * new + 2 >= old \div 4)

\* Bits that an adjustment has produced are a fixed point: decoding and
\* encoding them again gives the same bits.  The bits of the genesis block are
\* none (GenesisBitsSurvive).
EncodingStable ==
    bits # GenesisBits => TargetToCompact(CompactToTarget(bits)) = bits

\* Targets stay below the limit, change by bounded steps and, once adjusted,
\* survive their encoding, along every sequence of adjustments.
TargetsSound == NeverEasier /\ StepBounded /\ EncodingStable

\* While the bits of the genesis block are in force, an adjustment that leaves
\* the target alone writes them again: decoding and encoding gives them back,
\* as test_compact_target_vectors asserts (chain.rs 1047).
GenesisBitsSurvive ==
    bits = GenesisBits => TargetToCompact(CompactToTarget(bits)) = bits

\* The leaf of the full tree at the end of a path from the root, which turns
\* left (0) or right (1) at each level: a missing right half is the left one
\* again.
Levels(n) == Min({k \in 0 .. n : Power(2, k) >= n})
Width(n, l) == (n + Power(2, l) - 1) \div Power(2, l)
Descent(n, path) ==
    LET k == Levels(n)
        at[d \in 0 .. k] ==
          IF d = 0 THEN 0 ELSE Min({2 * at[d - 1] + path[d], Width(n, k - d) - 1})
    IN at
Leaves(s) ==
    LET k == Levels(Len(s))
    IN [path \in [1 .. k -> {0, 1}] |-> s[Descent(Len(s), path)[k] + 1]]

\* Two lists of transactions have the same merkle root exactly when they fill
\* the same tree, and two lists of the same length only when they are equal.
RootIdentifies ==
    block_txs # <<>> =>
      \A n \in 1 .. MaxTxs : \A other \in [1 .. n -> BlockTxs] :
        /\ (MerkleRoot(block_txs) = MerkleRoot(other)) <=> (Leaves(block_txs) = Leaves(other))
        /\ (n = Len(block_txs) /\ MerkleRoot(block_txs) = MerkleRoot(other)) => block_txs = other
=============================================================================
