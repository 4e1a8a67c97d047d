----------------------------- MODULE PackedVector -----------------------------
(* util::PackedVector: values of a few bits one behind the other in words; a  *)
(* value that does not fit into the rest of a word goes on in the next one.   *)
(* Words are numbers here; a value is a number below 2^Bits.                  *)
EXTENDS Integers, Sequences, FiniteSets, Iteration

CONSTANTS WordBits,            \* WORD_BITS
          Bits                 \* bits of a value

ASSUME BitsAssumption == WordBits \in Nat \ {0} /\ Bits \in 1..WordBits

BlockElements == WordBits
BlockWords == (Bits * BlockElements) \div WordBits

\* The bits of an element in its first word, from lower_offset on, and in the next one.
lower_offset(e) == (e * Bits) % WordBits
word_offset(e) == (e * Bits) \div WordBits
UpperBits(e) == IF lower_offset(e) + Bits > WordBits THEN lower_offset(e) + Bits - WordBits ELSE 0
LowerBits(e) == Bits - UpperBits(e)

get_internal_index(index) ==
    [lower_word |-> BlockWords * (index \div BlockElements) + word_offset(index % BlockElements),
     element |-> index % BlockElements]

\* What shifts and masks are made of.
Power[n \in 0..WordBits] == IF n = 0 THEN 1 ELSE 2 * Power[n - 1]

\* The `width` bits of a word from `offset` on, and the word with others in their place.
Field(word, offset, width) == (word \div Power[offset]) % Power[width]
Replaced(word, offset, width, bits) ==
    word - Field(word, offset, width) * Power[offset] + (bits % Power[width]) * Power[offset]

set_lower_value(word, e, value) == Replaced(word, lower_offset(e), LowerBits(e), value)
set_upper_value(word, e, value) == Replaced(word, 0, UpperBits(e), value \div Power[LowerBits(e)])

get_value(words, at) ==
    Field(words[at.lower_word], lower_offset(at.element), LowerBits(at.element))
    + Field(words[at.lower_word + 1], 0, UpperBits(at.element)) * Power[LowerBits(at.element)]

\* set_value without other writers.
set_value(words, at, value) ==
    LET lower == [words EXCEPT ![at.lower_word] = set_lower_value(@, at.element, value)]
    IN [lower EXCEPT ![at.lower_word + 1] = set_upper_value(@, at.element, value)]

\* allocate_blocks until the word behind the element is there, too.
Allocated(words, at) ==
    LET size == Cardinality(DOMAIN words)
        missing == IF at.lower_word + 1 < size THEN 0 ELSE ((at.lower_word + 1 - size) \div BlockWords) + 1
    IN Computed([w \in 0..size + missing * BlockWords - 1 |-> IF w < size THEN words[w] ELSE 0])

\* Values pushed behind each other into an empty vector.
Packed(values) ==
    LET Pushed(words, at, value) == set_value(Allocated(words, at), at, value)
    IN Iterate(LAMBDA words, i : Pushed(words, get_internal_index(i - 1), values[i]), <<>>, Len(values))
=============================================================================
