------------------------------ MODULE Bitsets ------------------------------
(***************************************************************************)
(* utils/dynamic_bitset and utils/large_bitset: bits kept in words, and for  *)
(* the second one in blocks of words.  A word is the set of its bits that    *)
(* are 1.  `ref` and `large_ref` are the sets of indexes that the two stand  *)
(* for.  Words of 3 bits and blocks of 2 words show every alignment.         *)
(***************************************************************************)
EXTENDS Integers, Sequences, SequencesExt, FiniteSetsExt

CONSTANTS
    bits_per_int, ints_per_block,
    MaxBits,        \* of a dynamic bitset
    nr_bits         \* of the large one

VARIABLES bits, bits_count, ref, storage, large_ref
bitsVars == <<bits, bits_count, ref, storage, large_ref>>

W == bits_per_int
Bit == 0..W - 1
npos == -1
align_up(n) == ((n + W - 1) \div W) * W
mask_lower_bits(n) == 0..n - 1
mask_higher_bits(n) == Bit \ mask_lower_bits(W - n)
count_trailing_zeros(v) == Min(v)
count_leading_zeros(v) == W - 1 - Max(v)

(***************************************************************************)
(* dynamic_bitset                                                           *)
(***************************************************************************)
(* The words as they are, or with all bits flipped *)
Transform(flip) == [i \in DOMAIN bits |-> IF flip THEN Bit \ bits[i] ELSE bits[i]]

InSize(pos) == IF pos < bits_count THEN pos ELSE npos

(* The first word of ws from i on, or the last one up to i, that is not 0; 0 if there is none *)
Up(ws, i) == LET s == {j \in DOMAIN ws : j >= i /\ ws[j] # {}} IN IF s = {} THEN 0 ELSE Min(s)
Down(ws, i) == LET s == {j \in DOMAIN ws : j <= i /\ ws[j] # {}} IN IF s = {} THEN 0 ELSE Max(s)

do_find_first(flip) ==
    LET ws == Transform(flip)
        i == Up(ws, 1)
    IN IF i = 0 THEN npos ELSE InSize((i - 1) * W + count_trailing_zeros(ws[i]))

do_find_next(n, flip) ==
    LET m == n + 1
        at == m \div W + 1
        ws == [Transform(flip) EXCEPT ![at] = @ \ mask_lower_bits(m % W)]
        i == Up(ws, at)
    IN IF i = 0 THEN npos ELSE InSize((i - 1) * W + count_trailing_zeros(ws[i]))

do_find_last(flip) ==
    LET d == align_up(bits_count) - bits_count
        ws == [Transform(flip) EXCEPT ![Len(bits)] = @ \ mask_higher_bits(d)]
        i == Down(ws, Len(bits))
    IN IF i = 0 THEN npos ELSE (i - 1) * W + W - count_leading_zeros(ws[i]) - 1

do_find_previous(n, flip) ==
    LET at == n \div W + 1
        ws == [Transform(flip) EXCEPT ![at] = @ \cap mask_lower_bits(n % W)]
        i == Down(ws, at)
    IN IF n = 0 \/ i = 0 THEN npos ELSE (i - 1) * W + W - count_leading_zeros(ws[i]) - 1

Put(n, on) ==
    /\ bits' = [bits EXCEPT ![n \div W + 1] = IF on THEN @ \cup {n % W} ELSE @ \ {n % W}]
    /\ ref' = IF on THEN ref \cup {n} ELSE ref \ {n}
    /\ UNCHANGED <<bits_count, storage, large_ref>>

Words(n, on, old) ==
    [i \in 1..align_up(n) \div W |-> IF i <= Len(old) THEN old[i] ELSE IF on THEN Bit ELSE {}]

(* Bits behind the end of the last word are set or cleared before they become visible *)
resize(n, on) ==
    LET d == align_up(bits_count) - bits_count
        back == IF bits_count # 0 /\ bits_count < n
                THEN [bits EXCEPT ![Len(bits)] = IF on THEN @ \cup mask_higher_bits(d) ELSE @ \ mask_higher_bits(d)]
                ELSE bits
    IN /\ bits' = Words(n, on, back)
       /\ bits_count' = n /\ ref' = {i \in ref : i < n} \cup (IF on THEN bits_count..n - 1 ELSE {})
       /\ UNCHANGED <<storage, large_ref>>

(***************************************************************************)
(* large_bitset                                                             *)
(***************************************************************************)
bits_per_block == ints_per_block * W
Place(idx) == [block |-> idx \div bits_per_block, int |-> (idx % bits_per_block) \div W, bit |-> (idx % bits_per_block) % W]

test(st, idx) == LET at == Place(idx) IN at.bit \in st[at.block][at.int]
PutBit(st, idx, on) ==
    LET at == Place(idx) IN [st EXCEPT ![at.block][at.int] = IF on THEN @ \cup {at.bit} ELSE @ \ {at.bit}]

(* The words of the storage from `position` on, block after block *)
Run(position, n) == [k \in 1..n |-> LET q == position \div W + k - 1 IN <<q \div ints_per_block, q % ints_per_block>>]

(* load: whole words when it can, else bit by bit *)
load(ints, position) ==
    IF position % W = 0
    THEN LET at == Run(position, Len(ints))
         IN [b \in DOMAIN storage |-> [i \in DOMAIN storage[b] |->
                IF \E k \in DOMAIN at : at[k] = <<b, i>> THEN ints[CHOOSE k \in DOMAIN at : at[k] = <<b, i>>] ELSE storage[b][i]]]
    ELSE FoldLeft(LAMBDA st, q : PutBit(st, position + q, q % W \in ints[q \div W + 1]), storage, [q \in 1..Len(ints) * W |-> q - 1])

(* save: the same; a last word that is not full is padded with 0 *)
save(position, n) ==
    LET m == Min({n, nr_bits - position})
    IN IF position % W = 0 /\ m % W = 0
       THEN [k \in 1..m \div W |-> LET at == Run(position, m \div W)[k] IN storage[at[1]][at[2]]]
       ELSE [k \in 1..align_up(m) \div W |-> {b \in Bit : (k - 1) * W + b < m /\ test(storage, position + (k - 1) * W + b)}]

LargeOp(st, new) == storage' = st /\ large_ref' = new /\ UNCHANGED <<bits, bits_count, ref>>

BitsInit ==
    /\ bits = <<>> /\ bits_count = 0 /\ ref = {}
    /\ storage = [b \in 0..(nr_bits - 1) \div bits_per_block |-> [i \in 0..ints_per_block - 1 |-> {}]]
    /\ large_ref = {}

(* The two classes are independent: one of them at a time *)
BitsNext ==
    \/ /\ large_ref = {}
       /\ \/ \E n \in 0..bits_count - 1, on \in BOOLEAN : Put(n, on)
          \/ \E n \in 0..MaxBits, on \in BOOLEAN : resize(n, on)
    \/ /\ bits_count = 0
       /\ \/ \E i \in 0..nr_bits - 1, on \in BOOLEAN :
                LargeOp(PutBit(storage, i, on), IF on THEN large_ref \cup {i} ELSE large_ref \ {i})
          \/ \E p \in 0..nr_bits - 1 : \E a, b \in {{}, {0}, {0, W - 1}} :
                /\ p + 2 * W <= nr_bits
                /\ LargeOp(load(<<a, b>>, p), {i \in large_ref : i < p \/ i >= p + 2 * W} \cup {p + x : x \in a} \cup {p + W + x : x \in b})

(***************************************************************************)
(* Properties                                                               *)
(***************************************************************************)
Least(s) == IF s = {} THEN npos ELSE Min(s)
Greatest(s) == IF s = {} THEN npos ELSE Max(s)

(* The searches find the bit that is asked for, or none, whatever is left behind the end of  *)
(* the last word by a shrink and a growth (dynamic_bitset).  A search from the last bit of a   *)
(* last word that is full reads behind the words, and is left out.                             *)
FindExact ==
    \A flip \in BOOLEAN :
        LET s == IF flip THEN (0..bits_count - 1) \ ref ELSE ref
        IN /\ do_find_first(flip) = Least(s)
           /\ bits_count > 0 => do_find_last(flip) = Greatest(s)
           /\ \A n \in 0..bits_count - 1 :
                /\ n + 1 < align_up(bits_count) => do_find_next(n, flip) = Least({i \in s : i > n})
                /\ do_find_previous(n, flip) = Greatest({i \in s : i < n})

(* Single bits, loads of whole words at any position, and saves agree on what is in the set   *)
(* (large_bitset::load, save), across words and blocks.                                       *)
LargeExact ==
    /\ \A i \in 0..nr_bits - 1 : test(storage, i) = (i \in large_ref)
    /\ \A p \in 0..nr_bits - 1 : \A n \in {1, W, W + 1, 2 * W, nr_bits} :
          LET m == Min({n, nr_bits - p})
          IN save(p, n) = [k \in 1..align_up(m) \div W |-> {b \in Bit : (k - 1) * W + b < m /\ p + (k - 1) * W + b \in large_ref}]
=============================================================================
