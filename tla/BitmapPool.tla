----------------------------- MODULE BitmapPool -----------------------------
(***************************************************************************)
(* The block pool of kernel/mem/bitmap_allocate.hpp with the Make and      *)
(* Destroy of typeable.hpp.  One bit per block, one summary bit per word   *)
(* of them, and poison in the blocks that were freed.  The pool takes no   *)
(* lock: raw_allocate looks for a block in one step and marks it in        *)
(* another; its callers are one at a time.                                 *)
(*                                                                         *)
(* owners is not state of the program: how many hold each block.           *)
(***************************************************************************)
EXTENDS Bitmap

CONSTANT block_cnt

ASSUME PoolAssumption == block_cnt \in Nat \ {0}

Blocks == 0 .. block_cnt - 1
L1 == WORDS(block_cnt)     \* BITMAP_L2_SIZE, the bits of the summary
Idle == -2                 \* no allocation under way

VARIABLES l2, l1,       \* bitmap_l2_, bitmap_l1_
          ever,         \* ever_poisoned_
          content,      \* of each block: "zero", "data", "poison" or "tampered"
          used,         \* used_
          index,        \* the block raw_allocate found, or Idle
          answer,       \* what the last call returned
          owners

mapvars == << l2, l1, ever, used >>
vars == << mapvars, content, index, answer, owners >>

Init ==
  /\ l2 = Zeroes(block_cnt) /\ l1 = Zeroes(L1) /\ ever = Zeroes(block_cnt)
  /\ content = [b \in Blocks |-> "zero"]
  /\ used = 0
  /\ index = Idle
  /\ answer = "Ok"
  /\ owners = [b \in Blocks |-> 0]

-----------------------------------------------------------------------------
(* Allocation.                                                             *)

\* Through the summary to a word that is not full, and there to a free bit.
available_block_index ==
  LET word == find_first_zero(l1, L1)
  IN  IF word = npos THEN npos ELSE first_zero_in_word(l2, block_cnt, word)

detected_poison(i) == content[i] # "poison"

set_as_in_used(i) ==
  /\ l2' = set(l2, i)
  /\ l1' = IF word_full(l2', block_cnt, Word(i)) THEN set(l1, Word(i)) ELSE l1
  /\ used' = used + 1

\* What raw_allocate does with the index it found.
finish(i) ==
  \/ /\ i = npos
     /\ answer' = "OutOfMemory"
     /\ UNCHANGED << mapvars, content, owners >>
  \/ /\ i # npos /\ test(ever, i) /\ detected_poison(i)
     /\ answer' = "Poisoned"
     /\ UNCHANGED << mapvars, content, owners >>
  \/ /\ i # npos /\ ~(test(ever, i) /\ detected_poison(i))
     /\ set_as_in_used(i)
     /\ owners' = [owners EXCEPT ![i] = @ + 1]
     /\ answer' = "Ok"
     /\ UNCHANGED << ever, content >>

raw_allocate_looks ==
  /\ index = Idle
  /\ index' = available_block_index
  /\ UNCHANGED << mapvars, content, answer, owners >>

raw_allocate_marks ==
  /\ index # Idle
  /\ finish(index)
  /\ index' = Idle

-----------------------------------------------------------------------------
(* Release.                                                                *)

\* Only of a block in use; its word is not full any more.
release_block(i) ==
  /\ test(l2, i)
  /\ l2' = clear(l2, i) /\ l1' = clear(l1, Word(i))
  /\ used' = used - 1

poison_block_unrecorded(i) ==
  content' = [content EXCEPT ![i] = "poison"] /\ UNCHANGED ever

poison_block(i) ==
  /\ content' = [content EXCEPT ![i] = "poison"]
  /\ ever' = set(ever, i)

refuse ==
  /\ answer' = "NotOwned"
  /\ UNCHANGED << mapvars, content, index, owners >>

\* An owner, or one who freed the block before, gives the start of a block.
raw_deallocate(i) ==
  /\ index = Idle
  /\ \/ /\ release_block(i)
        /\ poison_block(i)
        /\ answer' = "Ok"
        /\ owners' = [owners EXCEPT ![i] = IF @ > 0 THEN @ - 1 ELSE @]
        /\ UNCHANGED index
     \/ ~test(l2, i) /\ refuse

\* index_of_given_ptr finds no block: a foreign pointer, or into a block.
raw_deallocate_wild == index = Idle /\ refuse

-----------------------------------------------------------------------------
\* Make's placement new, or the owner later.
Write(i) ==
  /\ owners[i] > 0
  /\ content' = [content EXCEPT ![i] = "data"]
  /\ UNCHANGED << mapvars, index, answer, owners >>

\* A pointer kept too long writes into a freed block.
WriteAfterFree(i) ==
  /\ content[i] = "poison"
  /\ content' = [content EXCEPT ![i] = "tampered"]
  /\ UNCHANGED << mapvars, index, answer, owners >>

Next ==
  \/ raw_allocate_looks \/ raw_allocate_marks
  \/ raw_deallocate_wild
  \/ \E i \in Blocks : raw_deallocate(i) \/ Write(i) \/ WriteAfterFree(i)

Spec == Init /\ [][Next]_vars

-----------------------------------------------------------------------------
(* Properties.                                                             *)

InUse == {i \in Blocks : test(l2, i)}

\* Every variable holds a value of its type.
TypeOK ==
  /\ IsBitmap(l2, block_cnt) /\ IsBitmap(l1, L1) /\ IsBitmap(ever, block_cnt)
  /\ content \in [Blocks -> {"zero", "data", "poison", "tampered"}]
  /\ used \in 0 .. block_cnt
  /\ index \in Blocks \cup {npos, Idle}
  /\ answer \in {"Ok", "OutOfMemory", "Poisoned", "NotOwned"}
  /\ owners \in [Blocks -> 0 .. 2]

\* The books agree: the summary bit of a word says whether it is full, padding
\* stays zero, and the count is that of the blocks in use, each of which has
\* one owner.
BooksAgree ==
  /\ \A w \in DOMAIN l2 : l2[w] \subseteq valid_mask(block_cnt, w)
  /\ \A w \in DOMAIN l2 : test(l1, w) <=> word_full(l2, block_cnt, w)
  /\ used = Cardinality(InUse)
  /\ \A i \in Blocks : owners[i] = IF i \in InUse THEN 1 ELSE 0

\* The lookup by way of the summary finds what a search of all blocks finds,
\* on every tail, and so does the plain one.
LookupsAgree ==
  LET free == Blocks \ InUse
      lowest == IF free = {} THEN npos ELSE Min(free)
  IN  /\ available_block_index = lowest
      /\ find_first_zero(l2, block_cnt) = lowest
      /\ find_first_set(l2) = IF InUse = {} THEN npos ELSE Min(InUse)

\* A freed block that was written to since is not handed out; memory is denied
\* for such a block, or when there really is none.
TamperedIsHeldBack ==
  [][ /\ \A i \in Blocks : owners'[i] > owners[i] => content[i] # "tampered"
      /\ raw_allocate_marks =>
           /\ answer' = "Poisoned" => content[index] = "tampered"
           /\ answer' = "OutOfMemory" => InUse = Blocks ]_vars

=============================================================================
