------------------------------ MODULE Bitset ------------------------------
(***************************************************************************)
(* kernel/bitset.c.  A bitset of "size" bits is kept in whole elements of  *)
(* BIT_PER_ELEMENT bits, so the last element may have bits past the size;  *)
(* "bits" is the set of bits that are 1, over all the elements.            *)
(***************************************************************************)
EXTENDS Integers, FiniteSets

CONSTANT BIT_PER_ELEMENT    \* 32

ASSUME BitsetAssumption == BIT_PER_ELEMENT \in Nat \ {0}

BITSET_INVALID_INDEX == -1

(* assert(offset < bitset->size) failed. *)
BITSET_ASSERT == -2

LeastOf(S) == CHOOSE x \in S : \A y \in S : x <= y

(* ALIGN(size, BIT_PER_ELEMENT) / BIT_PER_ELEMENT *)
element_count(size) == (size + BIT_PER_ELEMENT - 1) \div BIT_PER_ELEMENT

bitset_init(size) == [size |-> size, bits |-> {}]

(* The bits of all the elements. *)
AllBits(bitset) == 0 .. element_count(bitset.size) * BIT_PER_ELEMENT - 1

bitset_test(bitset, offset) == offset \in bitset.bits
bitset_set(bitset, offset) == [bitset EXCEPT !.bits = @ \cup {offset}]
bitset_clear(bitset, offset) == [bitset EXCEPT !.bits = @ \ {offset}]
bitset_set_all(bitset) == [bitset EXCEPT !.bits = AllBits(bitset)]
bitset_clear_all(bitset) == [bitset EXCEPT !.bits = {}]

(* The bits that read as value. *)
Matching(bitset, value) ==
    IF value = 1 THEN bitset.bits ELSE AllBits(bitset) \ bitset.bits

(* Faulty: the last bit is never looked at. *)
find_skips_last(bitset, value) ==
    LET match == Matching(bitset, value) \ {bitset.size - 1}
    IN  IF match = {} THEN BITSET_INVALID_INDEX
        ELSE IF LeastOf(match) < bitset.size THEN LeastOf(match) ELSE BITSET_ASSERT

(* The first element with a matching bit, then the first such bit in it:   *)
(* the first matching bit of all.  The second loop calls bitset_test on    *)
(* every bit up to the one it finds, and bitset_test asserts that the bit  *)
(* is inside the size, which the elements are not.                         *)
bitset_find(bitset, value) ==
    LET match == Matching(bitset, value)
    IN  IF match = {} THEN BITSET_INVALID_INDEX
        ELSE IF LeastOf(match) < bitset.size THEN LeastOf(match) ELSE BITSET_ASSERT
=============================================================================
