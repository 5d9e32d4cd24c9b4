------------------------------ MODULE Buffers ------------------------------
(***************************************************************************)
(* The buffers a program of the library works with: create_buffer() and    *)
(* malloc_4k_aligned_buffer() get them from the C heap, set_data() and     *)
(* dump_data() write and read one byte, free_buffer() gives them back.     *)
(* The block has the length the library computed in a uint32_t; the        *)
(* program remembers the length it meant, and passes it on as an int.      *)
(*                                                                         *)
(* A call may reach outside the block: what it writes there changes        *)
(* whatever is in the heap, another buffer perhaps, and nothing the model  *)
(* knows beyond the heap.  Of the programs it is only assumed that they    *)
(* use no pointer that is NULL or freed (free_buffer() clears only its own *)
(* copy).                                                                  *)
(***************************************************************************)
EXTENDS Integers

CONSTANTS
    Names,           \* the program's pointer variables
    Requests,        \* <<element_size, elements>> it asks for
    Indices,         \* the indices it passes
    MemorySize,      \* bytes of the heap
    Alignment,       \* 4096
    UintRange,       \* values of a uint32_t: 2^32
    Bytes            \* values of a byte that occur

ASSUME BuffersAssumption ==
    /\ MemorySize \in Nat
    /\ Alignment \in Nat \ {0}
    /\ UintRange \in Nat \ {0}
    /\ 0 \in Bytes
    /\ Indices \subseteq Int
    /\ \A r \in Requests : r[1] \in Nat /\ r[2] \in Nat

VARIABLES
    memory,          \* the bytes of the heap
    block,           \* the block each pointer points to
    asked,           \* the length the program meant
    touched          \* history: where the last step of a call went, through
                     \* which pointer, by a helper or by the driver

bufferVars == <<memory, block, asked, touched>>

-----------------------------------------------------------------------------
Addresses == 0..(MemorySize - 1)
NULL == [base |-> -1, size |-> 0]
Untouched == [by |-> "nobody", name |-> "none", at |-> {}]

(* element_size*elements, a uint32_t *)
Product(elementSize, elements) == (elementSize * elements) % UintRange

(* A length as the int it becomes when it is passed. *)
AsInt(length) ==
    LET low == length % UintRange
    IN  IF 2 * low < UintRange THEN low ELSE low - UintRange

Live(n) == block[n] # NULL

Extent(b) == b.base..(b.base + b.size - 1)

(* Blocks posix_memalign() may return: aligned, on no other block. *)
Available(size) ==
    {b \in {[base |-> a, size |-> size] :
                a \in {i \in Addresses : i % Alignment = 0}} :
        /\ b.base + size <= MemorySize
        /\ \A n \in Names : Live(n) =>
              /\ b.base # block[n].base
              /\ Extent(b) \cap Extent(block[n]) = {}}

BuffersInit ==
    /\ memory = [a \in Addresses |-> 0]
    /\ block = [n \in Names |-> NULL]
    /\ asked = [n \in Names |-> 0]
    /\ touched = Untouched

-----------------------------------------------------------------------------
(* create_buffer(): the caller sees a NULL pointer when there is no room,  *)
(* and a short block when the product wraps.                               *)
CreateBuffer(n, r) ==
    /\ ~Live(n)
    /\ \/ /\ \E b \in Available(Product(r[1], r[2])) :
                block' = [block EXCEPT ![n] = b]
          /\ asked' = [asked EXCEPT ![n] = r[1] * r[2]]
       \/ UNCHANGED <<block, asked>>
    /\ touched' = Untouched
    /\ UNCHANGED memory

Address(n, index) == block[n].base + index

(* Mutant of WithinLength: off by one. *)
UpToLength(index, length) == index <= length

(* index < buffer_len, the only check: not from below *)
WithinLength(index, length) == index < length

Helped(n, index) == [by |-> "helper", name |-> n, at |-> {Address(n, index)}]

(* set_data(): refused with "Memory overlap" beyond the length. *)
SetData(n, index, value) ==
    /\ Live(n)
    /\ IF WithinLength(index, AsInt(asked[n]))
       THEN /\ memory' = [a \in Addresses |->
                             IF a = Address(n, index) THEN value ELSE memory[a]]
            /\ touched' = Helped(n, index)
       ELSE touched' = Untouched /\ UNCHANGED memory
    /\ UNCHANGED <<block, asked>>

(* dump_data(): the byte, or 0xFFFF with "Memory overlap". *)
DumpData(n, index) ==
    /\ Live(n)
    /\ touched' = IF WithinLength(index, AsInt(asked[n])) THEN Helped(n, index)
                  ELSE Untouched
    /\ UNCHANGED <<memory, block, asked>>

(* free_buffer(); what a freed block held is not looked at, and is 0 here. *)
FreeBuffer(n) ==
    /\ Live(n)
    /\ block' = [block EXCEPT ![n] = NULL]
    /\ asked' = [asked EXCEPT ![n] = 0]
    /\ memory' = [a \in Addresses |->
                     IF a \in Extent(block[n]) THEN 0 ELSE memory[a]]
    /\ touched' = Untouched

BufferCall ==
    \E n \in Names :
        \/ \E r \in Requests : CreateBuffer(n, r)
        \/ \E index \in Indices :
              DumpData(n, index) \/ \E v \in Bytes : SetData(n, index, v)
        \/ FreeBuffer(n)

-----------------------------------------------------------------------------
(* Every byte and every block is in the heap.                              *)
BuffersTypeOK ==
    /\ memory \in [Addresses -> Bytes]
    /\ \A n \in Names : Live(n) => Extent(block[n]) \subseteq Addresses
    /\ asked \in [Names -> Nat]
=============================================================================
