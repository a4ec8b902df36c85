------------------------------- MODULE Bitmap -------------------------------
(***************************************************************************)
(* The bitmap of base/bitmap.hpp: bit_count bits in words of W bits, the   *)
(* last of them padded.  A word is the set of the positions of its ones.   *)
(***************************************************************************)
EXTENDS Integers, FiniteSetsExt

CONSTANT W   \* bits of a word: 32 in the code

ASSUME WordAssumption == W \in Nat \ {0}

npos == -1
Positions == 0 .. W - 1

\* Words that n bits take, and an empty map of them.
WORDS(n) == (n + W - 1) \div W
Zeroes(n) == [w \in 0 .. WORDS(n) - 1 |-> {}]
IsBitmap(m, n) == m \in [0 .. WORDS(n) - 1 -> SUBSET Positions]

Word(i) == i \div W

set(m, i) == [m EXCEPT ![Word(i)] = @ \cup {i % W}]
clear(m, i) == [m EXCEPT ![Word(i)] = @ \ {i % W}]
test(m, i) == i % W \in m[Word(i)]

tail_mask_bare(n) == 0 .. (n % W) - 1

\* The real bits of the last word; n % W = 0 leaves it whole.
tail_mask(n) == IF n % W # 0 THEN 0 .. (n % W) - 1 ELSE Positions

valid_mask(n, w) == IF w + 1 = WORDS(n) THEN tail_mask(n) ELSE Positions

word_full(m, n, w) == m[w] = valid_mask(n, w)

\* ctz: the lowest one of a word that has any.
ctz(word) == Min(word)

first_zero_in_word(m, n, w) ==
  LET free_bits == valid_mask(n, w) \ m[w]
  IN  IF free_bits # {} THEN w * W + ctz(free_bits) ELSE npos

\* The loops over the words stop at the first that has what they look for.
FirstWord(S) == IF S = {} THEN npos ELSE Min(S)

find_first_zero(m, n) ==
  LET w == FirstWord({x \in DOMAIN m : first_zero_in_word(m, n, x) # npos})
  IN  IF w = npos THEN npos ELSE first_zero_in_word(m, n, w)

find_first_set(m) ==
  LET w == FirstWord({x \in DOMAIN m : m[x] # {}})
  IN  IF w = npos THEN npos ELSE w * W + ctz(m[w])

=============================================================================
