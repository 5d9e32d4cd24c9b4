-------------------------- MODULE BitFieldsProofs --------------------------
(***************************************************************************)
(* Stores into fields that do not overlap do not disturb each other.       *)
(***************************************************************************)
EXTENDS BitFields, TLAPS

FieldSet == [dw : Nat, lo : Nat, len : Nat]

(* Within one field, two bits never share a place in the command.          *)
LEMMA CellInjective ==
    ASSUME NEW f \in FieldSet, NEW j \in Index(f), NEW k \in Index(f),
           Cell(f, j) = Cell(f, k)
    PROVE  j = k
  <1>1. f.lo + j = f.lo + k
    BY DEF Cell
  <1>2. f.lo \in Nat /\ j \in Int /\ k \in Int
    BY DEF FieldSet, Index
  <1> QED
    BY <1>1, <1>2

(* Whatever the arguments: when the fields a command function assigns do   *)
(* not overlap, each one holds exactly the bits of its own argument, as if *)
(* the others had not been assigned.                                       *)
THEOREM FieldRoundTrip ==
    ASSUME NEW puts, NEW value, NEW p \in puts,
           \A q \in puts : q.field \in FieldSet,
           Disjoint(puts)
    PROVE  Load(Store(puts, value), p.field) = Slice(p, value)
  <1>1. ASSUME NEW k \in Slice(p, value)
        PROVE  k \in Load(Store(puts, value), p.field)
    BY <1>1 DEF Load, Store, Slice
  <1>2. ASSUME NEW k \in Load(Store(puts, value), p.field)
        PROVE  k \in Slice(p, value)
    <2>1. k \in Index(p.field) /\ Cell(p.field, k) \in Store(puts, value)
      BY <1>2 DEF Load
    <2>2. PICK q \in puts :
                 \E j \in Slice(q, value) : Cell(p.field, k) = Cell(q.field, j)
      BY <2>1 DEF Store
    <2>3. PICK j \in Slice(q, value) : Cell(p.field, k) = Cell(q.field, j)
      BY <2>2
    <2>4. Cell(p.field, k) \in Cells(p.field) \cap Cells(q.field)
      BY <2>1, <2>3 DEF Cells, Slice
    <2>5. q = p
      BY <2>4 DEF Disjoint
    <2>6. j = k
      BY <2>1, <2>3, <2>5, CellInjective DEF Slice
    <2> QED
      BY <2>3, <2>5, <2>6
  <1>3. /\ Slice(p, value) \subseteq Load(Store(puts, value), p.field)
        /\ Load(Store(puts, value), p.field) \subseteq Slice(p, value)
    BY <1>1, <1>2
  <1> QED
    BY <1>3
=============================================================================
