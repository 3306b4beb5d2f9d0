---------------------------- MODULE PackedVector ----------------------------
(***************************************************************************)
(* util::PackedVector: elements of Bits bits stored without gaps in words  *)
(* of WORD_BITS bits, so that neighbours share a word and an element may   *)
(* lie in two.  Several threads write different elements at the same time  *)
(* (the updater's parallel loops); set_value updates the two words one     *)
(* after the other, each with a compare-and-swap loop.  A word and a value *)
(* are functions from bit positions to BOOLEAN, a mask is the set of the   *)
(* positions it has.                                                       *)
(***************************************************************************)
EXTENDS Integers, FiniteSets

CONSTANTS WORD_BITS,    \* 64 in the code
          Bits,         \* bits of an element
          Values,       \* the values that are stored
          Workers,      \* the threads that write in parallel
          MaxElements   \* bound on the size

ASSUME BitsAssumption == WORD_BITS \in Nat /\ Bits \in 1 .. WORD_BITS - 1
ASSUME ValuesAssumption == Values \subseteq [0 .. Bits - 1 -> BOOLEAN]

VARIABLES vec, num_elements,
          stage,      \* where a thread is in set_value, or in a read
          job,        \* the element and the value it works on
          seen,       \* the words it has read
          content,    \* what has been stored: the vector as its users see it
          outside     \* whether a word outside of vec was accessed

vectorVars == <<vec, num_elements, stage, job, seen, content, outside>>

BLOCK_ELEMENTS == WORD_BITS
BLOCK_WORDS == (Bits * BLOCK_ELEMENTS) \div WORD_BITS

Positions == 0 .. WORD_BITS - 1
Word == [Positions -> BOOLEAN]
Value == [0 .. Bits - 1 -> BOOLEAN]
ZeroWord == [i \in Positions |-> FALSE]

(* The tables, for the element e of a block *)
word_offset(e) == (e * Bits) \div WORD_BITS
lower_offset(e) == (e * Bits) % WORD_BITS
Sliced(e) == lower_offset(e) + Bits > WORD_BITS
lower_mask(e) == {i \in Positions : i - lower_offset(e) \in 0 .. Bits - 1}
upper_offset(e) == IF Sliced(e) THEN WORD_BITS - lower_offset(e) ELSE Bits
upper_mask(e) == IF Sliced(e)
                 THEN {i \in Positions : i + upper_offset(e) \in 0 .. Bits - 1}
                 ELSE {}

(* get_internal_index *)
element(index) == index % BLOCK_ELEMENTS
lower_word(index) == BLOCK_WORDS * (index \div BLOCK_ELEMENTS) + word_offset(element(index))
upper_word(index) == lower_word(index) + 1

set_lower_value(word, e, value) ==
    [i \in Positions |-> IF i \in lower_mask(e) THEN value[i - lower_offset(e)] ELSE word[i]]

(* Mutant: the old bits of the upper word are not cleared. *)
set_upper_value_ored(word, e, value) ==
    [i \in Positions |-> (i \in upper_mask(e) /\ value[i + upper_offset(e)]) \/ word[i]]

set_upper_value(word, e, value) ==
    [i \in Positions |-> IF i \in upper_mask(e) THEN value[i + upper_offset(e)] ELSE word[i]]

(* get_value, from the two words it reads *)
Combine(e, lower, upper) ==
    [b \in 0 .. Bits - 1 |->
        \/ b + lower_offset(e) \in lower_mask(e) /\ lower[b + lower_offset(e)]
        \/ b - upper_offset(e) \in upper_mask(e) /\ upper[b - upper_offset(e)]]

(* Memory outside of the vector holds anything; FALSE bits stand for it.    *)
WordAt(v, w) == IF w \in DOMAIN v THEN v[w] ELSE ZeroWord
get_value(v, index) == Combine(element(index), WordAt(v, lower_word(index)),
                               WordAt(v, upper_word(index)))

VectorSize == Cardinality(DOMAIN vec)
Resized(v, size) == [w \in 0 .. size - 1 |-> WordAt(v, w)]

(* set_value by one thread alone *)
Set(v, index, value) ==
    LET e == element(index)
    IN  [w \in DOMAIN v |-> CASE w = lower_word(index) -> set_lower_value(v[w], e, value)
                              [] w = upper_word(index) -> set_upper_value(v[w], e, value)
                              [] OTHER -> v[w]]

LeavesVector(index, size) == upper_word(index) >= size

NoJob == [index |-> -1, value |-> [b \in 0 .. Bits - 1 |-> FALSE]]
Indices == 0 .. num_elements - 1

(* PackedVector() *)
VectorInit == /\ vec = [w \in {} |-> ZeroWord]
              /\ num_elements = 0
              /\ stage = [t \in Workers |-> "idle"]
              /\ job = [t \in Workers |-> NoJob]
              /\ seen = [t \in Workers |-> ZeroWord]
              /\ content = [i \in {} |-> NoJob.value]
              /\ outside = FALSE

-----------------------------------------------------------------------------
(* Operations that one thread runs alone *)

Quiet == \A t \in Workers : stage[t] = "idle"
threadVars == <<stage, job, seen>>

(* allocate_blocks(1) as often as it takes for both words to be there *)
Sizes(index) == {size \in {VectorSize + n * BLOCK_WORDS : n \in 0 .. index + 2} : upper_word(index) < size}
Allocated(index) == CHOOSE size \in Sizes(index) : \A other \in Sizes(index) : size <= other

push_back(value) ==
    /\ Quiet
    /\ num_elements < MaxElements
    /\ LET size == Allocated(num_elements)
       IN  /\ vec' = Set(Resized(vec, size), num_elements, value)
           /\ outside' = (outside \/ LeavesVector(num_elements, size))
    /\ num_elements' = num_elements + 1
    /\ content' = [i \in 0 .. num_elements |-> IF i = num_elements THEN value ELSE content[i]]
    /\ UNCHANGED threadVars

SizeFor(elements) == ((elements + BLOCK_ELEMENTS - 1) \div BLOCK_ELEMENTS) * BLOCK_WORDS + 1

(* resize: elements that come in have whatever their bits say *)
resize(elements) ==
    /\ Quiet
    /\ vec' = Resized(vec, SizeFor(elements))
    /\ num_elements' = elements
    /\ content' = [i \in 0 .. elements - 1 |->
                      IF i \in Indices THEN content[i] ELSE get_value(vec', i)]
    /\ UNCHANGED <<threadVars, outside>>

(* fill goes over the whole blocks of vec, whether they are in use or not. *)
FilledElements(size) == (size \div BLOCK_WORDS) * BLOCK_ELEMENTS
Filled(v, size, value) ==
    LET fill[k \in 0 .. FilledElements(size)] ==
            IF k = 0 THEN v ELSE Set(fill[k - 1], k - 1, value)
    IN  fill[FilledElements(size)]

(* PackedVector(size, initial_value) *)
Construct(elements, value) ==
    /\ Quiet
    /\ VectorSize = 0
    /\ LET size == SizeFor(elements)
       IN  /\ vec' = Filled(Resized(vec, size), size, value)
           /\ outside' = \E k \in 0 .. FilledElements(size) - 1 : LeavesVector(k, size)
    /\ num_elements' = elements
    /\ content' = [i \in 0 .. elements - 1 |-> value]
    /\ UNCHANGED threadVars

-----------------------------------------------------------------------------
(* Assignments and reads through operator[] by several threads, each of an  *)
(* element of its own                                                       *)

IsAt(t, place) == stage[t] = place
GoesTo(t, place) == stage' = [stage EXCEPT ![t] = place]
Own(t, index) == \A u \in Workers \ {t} : job[u].index # index

Assign(t, index, value) ==
    /\ IsAt(t, "idle")
    /\ Own(t, index)
    /\ job' = [job EXCEPT ![t] = [index |-> index, value |-> value]]
    /\ GoesTo(t, "lower")
    /\ UNCHANGED <<vec, num_elements, seen, content, outside>>

(* local_lower_word = lower_word, or the same for the upper one *)
Load(t, w, place) ==
    /\ seen' = [seen EXCEPT ![t] = vec[w]]
    /\ GoesTo(t, place)
    /\ UNCHANGED <<vec, num_elements, job, content, outside>>

LoadLower(t) == IsAt(t, "lower") /\ Load(t, lower_word(job[t].index), "casLower")
LoadUpper(t) == IsAt(t, "upper") /\ Load(t, upper_word(job[t].index), "casUpper")

(* Mutant: the word is stored without comparing. *)
SwapBlind(t, w, new) == vec' = [vec EXCEPT ![w] = new]

(* compare_and_swap: the word is stored if it is still the one seen.        *)
Swap(t, w, new) == vec[w] = seen[t] /\ vec' = [vec EXCEPT ![w] = new]

CasLower(t) ==
    /\ IsAt(t, "casLower")
    /\ Swap(t, lower_word(job[t].index),
            set_lower_value(seen[t], element(job[t].index), job[t].value))
    /\ GoesTo(t, "upper")
    /\ UNCHANGED <<num_elements, job, seen, content, outside>>

CasUpper(t) ==
    /\ IsAt(t, "casUpper")
    /\ Swap(t, upper_word(job[t].index),
            set_upper_value(seen[t], element(job[t].index), job[t].value))
    /\ content' = [content EXCEPT ![job[t].index] = job[t].value]
    /\ job' = [job EXCEPT ![t] = NoJob]
    /\ seen' = [seen EXCEPT ![t] = ZeroWord]
    /\ GoesTo(t, "idle")
    /\ UNCHANGED <<num_elements, outside>>

(* The word has changed: load it again. *)
CasFails(t) ==
    /\ \/ /\ IsAt(t, "casLower")
          /\ vec[lower_word(job[t].index)] # seen[t]
          /\ GoesTo(t, "lower")
       \/ /\ IsAt(t, "casUpper")
          /\ vec[upper_word(job[t].index)] # seen[t]
          /\ GoesTo(t, "upper")
    /\ UNCHANGED <<vec, num_elements, job, seen, content, outside>>

(* get_value reads the two words one after the other. *)
ReadLower(t, index) ==
    /\ IsAt(t, "idle")
    /\ Own(t, index)
    /\ job' = [job EXCEPT ![t] = [NoJob EXCEPT !.index = index]]
    /\ seen' = [seen EXCEPT ![t] = vec[lower_word(index)]]
    /\ GoesTo(t, "readUpper")
    /\ UNCHANGED <<vec, num_elements, content, outside>>

ReadUpper(t) ==
    /\ IsAt(t, "readUpper")
    /\ job' = [job EXCEPT ![t] = NoJob]
    /\ seen' = [seen EXCEPT ![t] = ZeroWord]
    /\ GoesTo(t, "idle")
    /\ UNCHANGED <<vec, num_elements, content, outside>>

-----------------------------------------------------------------------------
Alone == \/ \E value \in Values : push_back(value)
         \/ \E elements \in 0 .. MaxElements : resize(elements)
         \/ \E elements \in 0 .. MaxElements, value \in Values : Construct(elements, value)

ThreadStep(t) == LoadLower(t) \/ CasLower(t) \/ LoadUpper(t) \/ CasUpper(t) \/ CasFails(t) \/ ReadUpper(t)

Parallel == \E t \in Workers :
                \/ \E index \in Indices : ReadLower(t, index)
                \/ \E index \in Indices, value \in Values : Assign(t, index, value)
                \/ ThreadStep(t)

VectorNext == Alone \/ Parallel

VectorSpec == VectorInit /\ [][VectorNext]_vectorVars

-----------------------------------------------------------------------------
InFlight(index) == \E t \in Workers : job[t].index = index /\ ~IsAt(t, "readUpper")

(* An element that nobody is assigning to has the value it was last given,  *)
(* whatever its neighbours in the same two words are going through          *)
(* (set_value's compare-and-swap loops, push_back, resize and fill).  No     *)
(* operation leaves vec, because of the sentinel that the upper word of the *)
(* last element may be (get_value's comment: "we make sure to have a        *)
(* sentinel element to avoid out-of-bounds errors").                        *)
StoredAsWritten ==
    /\ ~outside
    /\ \A index \in Indices :
           /\ upper_word(index) < VectorSize
           /\ ~InFlight(index) => get_value(vec, index) = content[index]

(* A thread that reads its own element word by word gets that element's     *)
(* value although others write to the same words (updater.cpp reads a       *)
(* weight it is about to replace inside the parallel loop).                 *)
ReadsOwnValue ==
    \A t \in Workers : IsAt(t, "readUpper") =>
        LET index == job[t].index
        IN  Combine(element(index), seen[t], vec[upper_word(index)]) = content[index]
=============================================================================
