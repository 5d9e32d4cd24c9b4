----------------------------- MODULE BitFields -----------------------------
(***************************************************************************)
(* What a C compiler does with the bit-fields and the 8-, 16- and 32-bit   *)
(* members of a 64-byte NVMe command.  A value is the set of its bits that *)
(* are one, a command the set of its <<dword, bit>> pairs that are one.    *)
(***************************************************************************)
EXTENDS Integers

(* len bits of dword dw, from bit lo up. *)
Field(dw, lo, len) == [dw |-> dw, lo |-> lo, len |-> len]

(* The assignment field = arg >> from; bits beyond the field are dropped. *)
Put(arg, from, field) == [arg |-> arg, from |-> from, field |-> field]

Index(f) == 0..(f.len - 1)
Cell(f, k) == <<f.dw, f.lo + k>>
Cells(f) == {Cell(f, k) : k \in Index(f)}

(* The bits of its argument that an assignment stores. *)
Slice(p, value) == {k \in Index(p.field) : p.from + k \in value[p.arg]}

(* A zeroed command after all the assignments of puts. *)
Store(puts, value) ==
    UNION {{Cell(p.field, k) : k \in Slice(p, value)} : p \in puts}

Load(bits, f) == {k \in Index(f) : Cell(f, k) \in bits}

Disjoint(puts) ==
    \A p, q \in puts : p # q => Cells(p.field) \cap Cells(q.field) = {}
=============================================================================
