---------------------------- MODULE FormatProofs ----------------------------
(***************************************************************************)
(* What a request looks like to those who read the command after the       *)
(* function returned from assembling it, for all parameters at once: the   *)
(* layouts do not overlap, every parameter has room of its own, and the    *)
(* rest of the call changes nothing of that.                               *)
(***************************************************************************)
EXTENDS CommandFormat, BitFieldsProofs, WellFoundedInduction

-----------------------------------------------------------------------------
(* The number in a 16-bit field.                                           *)

(* Induction on the natural numbers, with a set for the property. *)
LEMMA NatSetInduction ==
    ASSUME NEW T, 0 \in T, \A n \in Nat : n \in T => n + 1 \in T
    PROVE  Nat \subseteq T
  <1> DEFINE Rest == Nat \ T
             smaller == OpToRel(<, Nat)
  <1> SUFFICES ASSUME Rest # {} PROVE FALSE
    OBVIOUS
  <1>1. IsWellFoundedOn(smaller, Nat)
    BY NatLessThanWellFounded, Zenon
  <1>2. \A m, n \in Nat : m < n => <<m, n>> \in smaller
    BY Zenon DEF OpToRel
  <1> HIDE DEF smaller
  <1>3. PICK m \in Rest : \A n \in Rest : <<n, m>> \notin smaller
    <2> HIDE DEF Rest
    <2>1. Rest \subseteq Nat
      BY DEF Rest
    <2> QED
      BY <1>1, <2>1, WFMin
  <1>4. m \in Nat /\ m # 0 /\ m - 1 \in Nat /\ m - 1 < m
    OBVIOUS
  <1>5. m - 1 \in T
    BY <1>2, <1>3, <1>4
  <1>6. (m - 1) + 1 \in T
    BY <1>4, <1>5
  <1> QED
    BY <1>4, <1>6

(* One step of Number. *)
Doubled(bits, high, n) ==
    IF n = 0 THEN 0
    ELSE 2 * high[n - 1] + (IF 16 - n \in bits THEN 1 ELSE 0)

(* The recursion of Number defines a function. *)
LEMMA HighExists ==
    ASSUME NEW bits
    PROVE  \A n \in Nat : \E high \in [0..n -> Nat] :
                \A m \in 0..n : high[m] = Doubled(bits, high, m)
  <1> DEFINE T == {n \in Nat : \E high \in [0..n -> Nat] :
                      \A m \in 0..n : high[m] = Doubled(bits, high, m)}
  <1>1. 0 \in T
    <2> DEFINE high == [m \in 0..0 |-> 0]
    <2>1. /\ high \in [0..0 -> Nat]
          /\ \A m \in 0..0 : high[m] = Doubled(bits, high, m)
      BY DEF Doubled
    <2> QED
      BY <2>1
  <1>2. ASSUME NEW n \in Nat, n \in T
        PROVE  n + 1 \in T
    <2>1. PICK low \in [0..n -> Nat] :
                 \A m \in 0..n : low[m] = Doubled(bits, low, m)
      BY <1>2
    <2> DEFINE last == 2 * low[n] + (IF 16 - (n + 1) \in bits THEN 1 ELSE 0)
               high == [m \in 0..(n + 1) |-> IF m = n + 1 THEN last ELSE low[m]]
    <2>2. last \in Nat
      BY <2>1
    <2>3. high \in [0..(n + 1) -> Nat]
      BY <2>1, <2>2
    <2>4. ASSUME NEW m \in 0..(n + 1)
          PROVE  high[m] = Doubled(bits, high, m)
      <3>1. CASE m = n + 1
        <4>1. high[m] = last /\ m # 0 /\ high[m - 1] = low[n]
          BY <3>1
        <4> HIDE DEF high
        <4> QED
          BY <3>1, <4>1 DEF Doubled
      <3>2. CASE m \in 0..n
        <4>1. high[m] = low[m] /\ low[m] = Doubled(bits, low, m)
          BY <2>1, <3>2
        <4>2. m # 0 => high[m - 1] = low[m - 1]
          BY <3>2
        <4> HIDE DEF high
        <4> QED
          BY <4>1, <4>2 DEF Doubled
      <3> QED
        BY <3>1, <3>2
    <2> HIDE DEF high
    <2> QED
      BY <2>3, <2>4
  <1>3. Nat \subseteq T
    <2> HIDE DEF T
    <2> QED
      BY <1>1, <1>2, NatSetInduction
  <1> QED
    BY <1>3
(* So Number is the last value of one. *)
LEMMA NumberDefined ==
    ASSUME NEW bits
    PROVE  \E high :
              /\ Number(bits) = high[16]
              /\ \A m \in 0..16 : high[m] \in Nat
              /\ \A m \in 0..16 : high[m] = Doubled(bits, high, m)
  <1> DEFINE Rule(g) == [n \in 0..16 |->
                            IF n = 0 THEN 0
                            ELSE 2 * g[n - 1] +
                                 (IF 16 - n \in bits THEN 1 ELSE 0)]
             chosen == CHOOSE g : g = Rule(g)
  <1>1. PICK low \in [0..16 -> Nat] :
               \A m \in 0..16 : low[m] = Doubled(bits, low, m)
    BY HighExists
  <1>2. low = Rule(low)
    BY <1>1 DEF Doubled
  <1>3. chosen = Rule(chosen)
    <2> HIDE DEF Rule
    <2> QED
      BY <1>2
  <1>4. Number(bits) = chosen[16]
    BY DEF Number
  <1>5. \A m \in 0..16 : chosen[m] = Doubled(bits, chosen, m)
    <2> HIDE DEF chosen
    <2> QED
      BY <1>3 DEF Doubled
  <1> HIDE DEF chosen
  <1> DEFINE T == {n \in Nat : n <= 16 => chosen[n] \in Nat}
  <1>6. 0 \in T
    BY <1>5 DEF Doubled
  <1>7. ASSUME NEW n \in Nat, n \in T
        PROVE  n + 1 \in T
    <2> SUFFICES ASSUME n + 1 <= 16 PROVE chosen[n + 1] \in Nat
      OBVIOUS
    <2>1. chosen[n + 1] =
              2 * chosen[n] + (IF 16 - (n + 1) \in bits THEN 1 ELSE 0)
      BY <1>5 DEF Doubled
    <2> QED
      BY <1>7, <2>1
  <1>8. Nat \subseteq T
    <2> HIDE DEF T
    <2> QED
      BY <1>6, <1>7, NatSetInduction
  <1>9. \A m \in 0..16 : chosen[m] \in Nat
    BY <1>8
  <1> QED
    BY <1>4, <1>5, <1>9

(* Sixteen bits are at most 65535. *)
LEMMA NumberBound ==
    ASSUME NEW bits
    PROVE  Number(bits) \in Nat /\ Number(bits) <= 65535
  <1>1. PICK high : /\ Number(bits) = high[16]
                    /\ \A m \in 0..16 : high[m] \in Nat
                    /\ \A m \in 0..16 : high[m] = Doubled(bits, high, m)
    BY NumberDefined
  <1> DEFINE Below(n, bound) == high[n] \in Nat /\ high[n] < bound
  <1>2. ASSUME NEW n \in 0..15, NEW bound \in Nat, Below(n, bound)
        PROVE  Below(n + 1, 2 * bound)
    <2>1. n + 1 \in 0..16 /\ n + 1 # 0 /\ (n + 1) - 1 = n
      OBVIOUS
    <2>2. high[n + 1] = Doubled(bits, high, n + 1)
      BY <1>1, <2>1
    <2>3. high[n + 1] = 2 * high[n] + (IF 16 - (n + 1) \in bits THEN 1 ELSE 0)
      BY <2>1, <2>2 DEF Doubled
    <2> QED
      BY <1>2, <2>3
  <1>3. Below(0, 1)
    BY <1>1 DEF Doubled
  <1> HIDE DEF Below
  <1>4. Below(1, 2)
    BY <1>2, <1>3
  <1>5. Below(2, 4)
    BY <1>2, <1>4
  <1>6. Below(3, 8)
    BY <1>2, <1>5
  <1>7. Below(4, 16)
    BY <1>2, <1>6
  <1>8. Below(5, 32)
    BY <1>2, <1>7
  <1>9. Below(6, 64)
    BY <1>2, <1>8
  <1>10. Below(7, 128)
    BY <1>2, <1>9
  <1>11. Below(8, 256)
    BY <1>2, <1>10
  <1>12. Below(9, 512)
    BY <1>2, <1>11
  <1>13. Below(10, 1024)
    BY <1>2, <1>12
  <1>14. Below(11, 2048)
    BY <1>2, <1>13
  <1>15. Below(12, 4096)
    BY <1>2, <1>14
  <1>16. Below(13, 8192)
    BY <1>2, <1>15
  <1>17. Below(14, 16384)
    BY <1>2, <1>16
  <1>18. Below(15, 32768)
    BY <1>2, <1>17
  <1>19. Below(16, 65536)
    BY <1>2, <1>18
  <1> QED
    BY <1>1, <1>19 DEF Below

-----------------------------------------------------------------------------
(* The layouts.                                                            *)

Apart(f, g) ==
    f.dw # g.dw \/ f.lo + f.len <= g.lo \/ g.lo + g.len <= f.lo

(* What a function may count on: its parameters are C integers and not     *)
(* what it fixes itself, and its assignments go to members of the command  *)
(* that do not overlap.                                                    *)
WellLaid(F) ==
    /\ \A a \in DOMAIN F.args :
          F.args[a] \in {8, 16, 32, 64} /\ a \notin DOMAIN F.fixed
    /\ \A p \in F.puts :
          /\ p.field \in FieldSet /\ p.field.dw <= 15
          /\ p.field.lo + p.field.len <= 32
          /\ p.from \in Nat
          /\ p.arg \in DOMAIN F.args \cup DOMAIN F.fixed
    /\ \A p, q \in F.puts : p # q => Apart(p.field, q.field)

(* Fields that lie apart share no bit of the command. *)
LEMMA ApartCells ==
    ASSUME NEW f \in FieldSet, NEW g \in FieldSet, Apart(f, g)
    PROVE  Cells(f) \cap Cells(g) = {}
  <1> SUFFICES ASSUME NEW j \in Index(f), NEW k \in Index(g),
                      Cell(f, j) = Cell(g, k)
               PROVE  FALSE
    BY DEF Cells
  <1>1. f.dw = g.dw /\ f.lo + j = g.lo + k
    BY DEF Cell
  <1>2. /\ f.lo \in Nat /\ f.len \in Nat /\ g.lo \in Nat /\ g.len \in Nat
        /\ j \in Nat /\ j < f.len /\ k \in Nat /\ k < g.len
    BY DEF FieldSet, Index
  <1> QED
    BY <1>1, <1>2 DEF Apart

(* Such a layout is what FieldRoundTrip asks for. *)
LEMMA WellLaidRoundTrip ==
    ASSUME NEW F, WellLaid(F), NEW v, NEW p \in F.puts
    PROVE  Load(Store(F.puts, v), p.field) = Slice(p, v)
  <1>1. \A q \in F.puts : q.field \in FieldSet
    BY DEF WellLaid
  <1>2. Disjoint(F.puts)
    BY <1>1, ApartCells DEF Disjoint, WellLaid
  <1> QED
    BY <1>1, <1>2, FieldRoundTrip

(* A member that is the lower part of an assigned one. *)
LEMMA LowerPart ==
    ASSUME NEW F, WellLaid(F), NEW v, NEW p \in F.puts,
           NEW f \in FieldSet, f.dw = p.field.dw, f.lo = p.field.lo,
           f.len <= p.field.len
    PROVE  Load(Store(F.puts, v), f) =
               {k \in Index(f) : p.from + k \in v[p.arg]}
  <1>1. Index(f) \subseteq Index(p.field)
    BY DEF Index, FieldSet, WellLaid
  <1>2. \A k : Cell(f, k) = Cell(p.field, k)
    BY DEF Cell
  <1>3. Load(Store(F.puts, v), f) = Index(f) \cap Slice(p, v)
    BY <1>1, <1>2, WellLaidRoundTrip DEF Load
  <1> QED
    BY <1>1, <1>3 DEF Slice

(* The command has sixteen dwords of 32 bits. *)
LEMMA CommandShape ==
    ASSUME NEW F, WellLaid(F), NEW v
    PROVE  Store(F.puts, v) \subseteq (0..15) \X (0..31)
  <1> SUFFICES ASSUME NEW p \in F.puts, NEW k \in Index(p.field)
               PROVE  Cell(p.field, k) \in (0..15) \X (0..31)
    BY DEF Store, Slice
  <1>1. /\ p.field.dw \in 0..15
        /\ p.field.lo \in Nat /\ p.field.len \in Nat
        /\ p.field.lo + p.field.len <= 32
    <2>1. p.field \in FieldSet /\ p.field.dw <= 15
      BY DEF WellLaid
    <2>2. p.field.lo + p.field.len <= 32
      BY DEF WellLaid
    <2>3. p.field.dw \in Nat /\ p.field.lo \in Nat /\ p.field.len \in Nat
      BY <2>1 DEF FieldSet
    <2>4. p.field.dw \in 0..15
      BY <2>1, <2>3
    <2> QED
      BY <2>2, <2>3, <2>4
  <1>2. p.field.lo + k \in 0..31
    BY <1>1 DEF Index
  <1> QED
    BY <1>1, <1>2 DEF Cell

-----------------------------------------------------------------------------
(* Every parameter has room.                                               *)

WidthOf(F, a) == IF a \in DOMAIN Usable THEN Usable[a] ELSE F.args[a]

Pieces(F, a) == {p \in F.puts : p.arg = a}

(* One assignment carries all of a that can be used. *)
Carries(F, a, field) ==
    /\ Whole(a, field) \in F.puts
    /\ field.len = WidthOf(F, a)
    /\ \A p \in F.puts : p.arg = a => p = Whole(a, field)

(* Two assignments do, the second from bit len up. *)
Splits(F, a, low, len, high) ==
    /\ Whole(a, low) \in F.puts /\ Put(a, len, high) \in F.puts
    /\ low.len = len /\ len + high.len = WidthOf(F, a)
    /\ \A p \in F.puts : p.arg = a => p \in {Whole(a, low), Put(a, len, high)}

Covered(F, a) ==
    /\ \A p \in Pieces(F, a) : p.from + p.field.len <= WidthOf(F, a)
    /\ \A b \in 0..(WidthOf(F, a) - 1) :
          \E p \in Pieces(F, a) : p.from <= b /\ b < p.from + p.field.len

(* One assignment of the usable bits gives the parameter its room. *)
LEMMA CarriedIsCovered ==
    ASSUME NEW F, WellLaid(F), NEW a, NEW field, Carries(F, a, field)
    PROVE  Covered(F, a)
  <1>1. /\ Whole(a, field) \in Pieces(F, a)
        /\ Whole(a, field).from = 0 /\ Whole(a, field).field = field
    BY DEF Carries, Pieces, Whole, Put
  <1>2. field.len \in Nat
    BY <1>1 DEF WellLaid, Pieces, FieldSet
  <1>3. \A p \in Pieces(F, a) : p = Whole(a, field)
    BY DEF Carries, Pieces
  <1> QED
    BY <1>1, <1>2, <1>3 DEF Covered, Carries

(* So do two assignments, of the lower and of the upper bits. *)
LEMMA SplitIsCovered ==
    ASSUME NEW F, WellLaid(F), NEW a, NEW low, NEW len, NEW high,
           Splits(F, a, low, len, high)
    PROVE  Covered(F, a)
  <1> DEFINE lower == Whole(a, low)
             upper == Put(a, len, high)
  <1>1. /\ lower \in Pieces(F, a) /\ lower.from = 0 /\ lower.field = low
        /\ upper \in Pieces(F, a) /\ upper.from = len /\ upper.field = high
    BY DEF Splits, Pieces, Whole, Put
  <1>2. low.len \in Nat /\ high.len \in Nat
    BY <1>1 DEF WellLaid, Pieces, FieldSet
  <1>3. low.len = len /\ len + high.len = WidthOf(F, a)
    BY DEF Splits
  <1>4. \A p \in Pieces(F, a) : p \in {lower, upper}
    BY DEF Splits, Pieces
  <1> HIDE DEF lower, upper
  <1>5. \A p \in Pieces(F, a) : p.from + p.field.len <= WidthOf(F, a)
    BY <1>1, <1>2, <1>3, <1>4
  <1>6. ASSUME NEW b \in 0..(WidthOf(F, a) - 1)
        PROVE  \E p \in Pieces(F, a) : p.from <= b /\ b < p.from + p.field.len
    <2>1. CASE b < len
      BY <1>1, <1>2, <1>3, <2>1
    <2>2. CASE len <= b
      BY <1>1, <1>2, <1>3, <2>2
    <2> QED
      BY <1>2, <1>3, <2>1, <2>2
  <1> QED
    BY <1>5, <1>6 DEF Covered

(* home says where each value of the function F goes: every assignment is  *)
(* the one it says, to members that are as wide as the values and apart.   *)
Placed(F, home) ==
    /\ \A a \in DOMAIN home : Whole(a, home[a]) \in F.puts
    /\ \A p \in F.puts : p.arg \in DOMAIN home /\ p = Whole(p.arg, home[p.arg])

Fit(F, home) ==
    /\ \A a \in DOMAIN F.args :
          /\ F.args[a] \in {8, 16, 32, 64} /\ a \notin DOMAIN F.fixed
          /\ a \in DOMAIN home /\ home[a].len = WidthOf(F, a)
    /\ \A a \in DOMAIN home :
          /\ home[a] \in FieldSet /\ home[a].dw <= 15
          /\ home[a].lo + home[a].len <= 32
          /\ a \in DOMAIN F.args \cup DOMAIN F.fixed
    /\ \A a, b \in DOMAIN home : a # b => Apart(home[a], home[b])

OnePiece(F) == \E home : Placed(F, home) /\ Fit(F, home)

(* A function with such a home for every value overlaps nothing and      *)
(* gives every parameter its room.                                       *)
LEMMA OnePieceLaid ==
    ASSUME NEW F, OnePiece(F)
    PROVE  WellLaid(F) /\ \A a \in DOMAIN F.args : Covered(F, a)
  <1>1. PICK home : Placed(F, home) /\ Fit(F, home)
    BY DEF OnePiece
  <1>2. ASSUME NEW p \in F.puts
        PROVE  /\ p.arg \in DOMAIN home /\ p = Whole(p.arg, home[p.arg])
               /\ p.field = home[p.arg] /\ p.from = 0
    BY <1>1 DEF Placed, Whole, Put
  <1>3. ASSUME NEW p \in F.puts
        PROVE  /\ p.field \in FieldSet /\ p.field.dw <= 15
               /\ p.field.lo + p.field.len <= 32
               /\ p.from \in Nat
               /\ p.arg \in DOMAIN F.args \cup DOMAIN F.fixed
    BY <1>1, <1>2 DEF Fit
  <1>4. ASSUME NEW p \in F.puts, NEW q \in F.puts, p # q
        PROVE  Apart(p.field, q.field)
    <2>1. p.arg # q.arg
      BY <1>2, <1>4
    <2> QED
      BY <1>1, <1>2, <2>1 DEF Fit
  <1>5. WellLaid(F)
    BY <1>1, <1>3, <1>4 DEF WellLaid, Fit
  <1>6. ASSUME NEW a \in DOMAIN F.args
        PROVE  Carries(F, a, home[a])
    <2>1. a \in DOMAIN home /\ home[a].len = WidthOf(F, a)
      BY <1>1 DEF Fit
    <2>2. Whole(a, home[a]) \in F.puts
      BY <1>1, <2>1 DEF Placed
    <2>3. \A p \in F.puts : p.arg = a => p = Whole(a, home[a])
      BY <1>2
    <2> QED
      BY <2>1, <2>2, <2>3 DEF Carries
  <1> QED
    BY <1>5, <1>6, CarriedIsCovered

(* All functions but three put every parameter in one piece. *)
LEMMA OnePieceFunctions ==
    ASSUME NEW f \in DOMAIN Functions \
                     {"get_log_page", "nvm_read", "async_event_request"}
    PROVE  OnePiece(Functions[f])
  <1>1. CASE f = "create_iocq"
    <2>1. Functions[f] = CreateIocq
      BY <1>1 DEF Functions
    <2> DEFINE home == [nsid |-> Field(1, 0, 32), opcode |-> Field(0, 0, 8),
                   cq_id |-> Field(10, 0, 16), qsize |-> Field(10, 16, 16),
                   contig |-> Field(11, 0, 1), int_en |-> Field(11, 1, 1),
                   int_no |-> Field(11, 16, 16)]
    <2>2. CreateIocq.puts =
              {Whole("nsid", Field(1, 0, 32)),
              Whole("opcode", Field(0, 0, 8)),
              Whole("cq_id", Field(10, 0, 16)),
              Whole("qsize", Field(10, 16, 16)),
              Whole("contig", Field(11, 0, 1)),
              Whole("int_en", Field(11, 1, 1)),
              Whole("int_no", Field(11, 16, 16))}
      BY DEF CreateIocq, Header, OpcodeField, NsidField, Dw10, Dw11
    <2>3. \A a \in DOMAIN home : Whole(a, home[a]) \in CreateIocq.puts
      BY <2>2
    <2>4. \A p \in CreateIocq.puts :
             p.arg \in DOMAIN home /\ p = Whole(p.arg, home[p.arg])
      BY <2>2 DEF Whole, Put
    <2>5. Fit(CreateIocq, home)
      BY DEF CreateIocq, Fit, WidthOf, Usable, Apart, FieldSet, Field
    <2> HIDE DEF home
    <2> QED
      BY <2>1, <2>3, <2>4, <2>5 DEF OnePiece, Placed
  <1>2. CASE f = "create_iosq"
    <2>1. Functions[f] = CreateIosq
      BY <1>2 DEF Functions
    <2> DEFINE home == [opcode |-> Field(0, 0, 8), nsid |-> Field(1, 0, 32),
                   sq_id |-> Field(10, 0, 16), qsize |-> Field(10, 16, 16),
                   contig |-> Field(11, 0, 1), qprio |-> Field(11, 1, 2),
                   cq_id |-> Field(11, 16, 16), nvmsetid |-> Field(12, 0, 16)]
    <2>2. CreateIosq.puts =
              {Whole("opcode", Field(0, 0, 8)),
              Whole("nsid", Field(1, 0, 32)),
              Whole("sq_id", Field(10, 0, 16)),
              Whole("qsize", Field(10, 16, 16)),
              Whole("contig", Field(11, 0, 1)),
              Whole("qprio", Field(11, 1, 2)),
              Whole("cq_id", Field(11, 16, 16)),
              Whole("nvmsetid", Field(12, 0, 16))}
      BY DEF CreateIosq, Header, OpcodeField, NsidField, Dw10, Dw11, Dw12
    <2>3. \A a \in DOMAIN home : Whole(a, home[a]) \in CreateIosq.puts
      BY <2>2
    <2>4. \A p \in CreateIosq.puts :
             p.arg \in DOMAIN home /\ p = Whole(p.arg, home[p.arg])
      BY <2>2 DEF Whole, Put
    <2>5. Fit(CreateIosq, home)
      BY DEF CreateIosq, Fit, WidthOf, Usable, Apart, FieldSet, Field
    <2> HIDE DEF home
    <2> QED
      BY <2>1, <2>3, <2>4, <2>5 DEF OnePiece, Placed
  <1>3. CASE f = "delete_iosq"
    <2>1. Functions[f] = DeleteIosq
      BY <1>3 DEF Functions
    <2> DEFINE home == [opcode |-> Field(0, 0, 8), nsid |-> Field(1, 0, 32),
                   sq_id |-> Field(10, 0, 16)]
    <2>2. DeleteIosq.puts =
              {Whole("opcode", Field(0, 0, 8)),
              Whole("nsid", Field(1, 0, 32)),
              Whole("sq_id", Field(10, 0, 16))}
      BY DEF DeleteIosq, Header, OpcodeField, NsidField, Dw10
    <2>3. \A a \in DOMAIN home : Whole(a, home[a]) \in DeleteIosq.puts
      BY <2>2
    <2>4. \A p \in DeleteIosq.puts :
             p.arg \in DOMAIN home /\ p = Whole(p.arg, home[p.arg])
      BY <2>2 DEF Whole, Put
    <2>5. Fit(DeleteIosq, home)
      BY DEF DeleteIosq, Fit, WidthOf, Usable, Apart, FieldSet, Field
    <2> HIDE DEF home
    <2> QED
      BY <2>1, <2>3, <2>4, <2>5 DEF OnePiece, Placed
  <1>4. CASE f = "delete_iocq"
    <2>1. Functions[f] = DeleteIocq
      BY <1>4 DEF Functions
    <2> DEFINE home == [opcode |-> Field(0, 0, 8), nsid |-> Field(1, 0, 32),
                   cq_id |-> Field(10, 0, 16)]
    <2>2. DeleteIocq.puts =
              {Whole("opcode", Field(0, 0, 8)),
              Whole("nsid", Field(1, 0, 32)),
              Whole("cq_id", Field(10, 0, 16))}
      BY DEF DeleteIocq, Header, OpcodeField, NsidField, Dw10
    <2>3. \A a \in DOMAIN home : Whole(a, home[a]) \in DeleteIocq.puts
      BY <2>2
    <2>4. \A p \in DeleteIocq.puts :
             p.arg \in DOMAIN home /\ p = Whole(p.arg, home[p.arg])
      BY <2>2 DEF Whole, Put
    <2>5. Fit(DeleteIocq, home)
      BY DEF DeleteIocq, Fit, WidthOf, Usable, Apart, FieldSet, Field
    <2> HIDE DEF home
    <2> QED
      BY <2>1, <2>3, <2>4, <2>5 DEF OnePiece, Placed
  <1>5. CASE f = "identify"
    <2>1. Functions[f] = Identify
      BY <1>5 DEF Functions
    <2> DEFINE home == [opcode |-> Field(0, 0, 8), nsid |-> Field(1, 0, 32),
                   cns |-> Field(10, 0, 8), ctrl_id |-> Field(10, 16, 16),
                   uuid_idx |-> Field(14, 0, 7)]
    <2>2. Identify.puts =
              {Whole("opcode", Field(0, 0, 8)),
              Whole("nsid", Field(1, 0, 32)), Whole("cns", Field(10, 0, 8)),
              Whole("ctrl_id", Field(10, 16, 16)),
              Whole("uuid_idx", Field(14, 0, 7))}
      BY DEF Identify, Header, OpcodeField, NsidField, IdentifyPuts, Dw10,
             Dw14
    <2>3. \A a \in DOMAIN home : Whole(a, home[a]) \in Identify.puts
      BY <2>2
    <2>4. \A p \in Identify.puts :
             p.arg \in DOMAIN home /\ p = Whole(p.arg, home[p.arg])
      BY <2>2 DEF Whole, Put
    <2>5. Fit(Identify, home)
      BY DEF Identify, Fit, WidthOf, Usable, Apart, FieldSet, Field
    <2> HIDE DEF home
    <2> QED
      BY <2>1, <2>3, <2>4, <2>5 DEF OnePiece, Placed
  <1>6. CASE f \in {"identify_ns", "identify_ctrl"}
    <2>1. PICK cns : Functions[f] = IdentifyAs(cns)
      BY <1>6 DEF Functions
    <2> DEFINE home == [opcode |-> Field(0, 0, 8), nsid |-> Field(1, 0, 32),
                   cns |-> Field(10, 0, 8), ctrl_id |-> Field(10, 16, 16),
                   uuid_idx |-> Field(14, 0, 7)]
    <2>2. IdentifyAs(cns).puts =
              {Whole("opcode", Field(0, 0, 8)),
              Whole("nsid", Field(1, 0, 32)), Whole("cns", Field(10, 0, 8)),
              Whole("ctrl_id", Field(10, 16, 16)),
              Whole("uuid_idx", Field(14, 0, 7))}
      BY DEF IdentifyAs, Header, OpcodeField, NsidField, IdentifyPuts, Dw10,
             Dw14
    <2>3. \A a \in DOMAIN home : Whole(a, home[a]) \in IdentifyAs(cns).puts
      BY <2>2
    <2>4. \A p \in IdentifyAs(cns).puts :
             p.arg \in DOMAIN home /\ p = Whole(p.arg, home[p.arg])
      BY <2>2 DEF Whole, Put
    <2>5. Fit(IdentifyAs(cns), home)
      BY DEF IdentifyAs, Fit, WidthOf, Usable, Apart, FieldSet, Field
    <2> HIDE DEF home
    <2> QED
      BY <2>1, <2>3, <2>4, <2>5 DEF OnePiece, Placed
  <1>7. CASE f = "abort"
    <2>1. Functions[f] = Abort
      BY <1>7 DEF Functions
    <2> DEFINE home == [opcode |-> Field(0, 0, 8), nsid |-> Field(1, 0, 32),
                   sq_id |-> Field(10, 0, 16), cmd_id |-> Field(10, 16, 16)]
    <2>2. Abort.puts =
              {Whole("opcode", Field(0, 0, 8)),
              Whole("nsid", Field(1, 0, 32)),
              Whole("sq_id", Field(10, 0, 16)),
              Whole("cmd_id", Field(10, 16, 16))}
      BY DEF Abort, Header, OpcodeField, NsidField, Dw10
    <2>3. \A a \in DOMAIN home : Whole(a, home[a]) \in Abort.puts
      BY <2>2
    <2>4. \A p \in Abort.puts :
             p.arg \in DOMAIN home /\ p = Whole(p.arg, home[p.arg])
      BY <2>2 DEF Whole, Put
    <2>5. Fit(Abort, home)
      BY DEF Abort, Fit, WidthOf, Usable, Apart, FieldSet, Field
    <2> HIDE DEF home
    <2> QED
      BY <2>1, <2>3, <2>4, <2>5 DEF OnePiece, Placed
  <1>8. CASE f = "set_feature"
    <2>1. Functions[f] = SetFeature
      BY <1>8 DEF Functions
    <2> DEFINE home == [opcode |-> Field(0, 0, 8), nsid |-> Field(1, 0, 32),
                   feature_id |-> Field(10, 0, 8), save |-> Field(10, 31, 1),
                   dw11 |-> Field(11, 0, 32), dw12 |-> Field(12, 0, 32),
                   dw13 |-> Field(13, 0, 32), dw14 |-> Field(14, 0, 32),
                   dw15 |-> Field(15, 0, 32)]
    <2>2. SetFeature.puts =
              {Whole("opcode", Field(0, 0, 8)),
              Whole("nsid", Field(1, 0, 32)),
              Whole("feature_id", Field(10, 0, 8)),
              Whole("save", Field(10, 31, 1)),
              Whole("dw11", Field(11, 0, 32)),
              Whole("dw12", Field(12, 0, 32)),
              Whole("dw13", Field(13, 0, 32)),
              Whole("dw14", Field(14, 0, 32)),
              Whole("dw15", Field(15, 0, 32))}
      BY DEF SetFeature, Header, OpcodeField, NsidField, DwordPuts, Word, Dw10
    <2>3. \A a \in DOMAIN home : Whole(a, home[a]) \in SetFeature.puts
      BY <2>2
    <2>4. \A p \in SetFeature.puts :
             p.arg \in DOMAIN home /\ p = Whole(p.arg, home[p.arg])
      BY <2>2 DEF Whole, Put
    <2>5. Fit(SetFeature, home)
      BY DEF SetFeature, Fit, WidthOf, Usable, Apart, FieldSet, Field
    <2> HIDE DEF home
    <2> QED
      BY <2>1, <2>3, <2>4, <2>5 DEF OnePiece, Placed
  <1>9. CASE f = "set_power_state"
    <2>1. Functions[f] = SetPowerState
      BY <1>9 DEF Functions
    <2> DEFINE home == [opcode |-> Field(0, 0, 8), nsid |-> Field(1, 0, 32),
                   feature_id |-> Field(10, 0, 8), save |-> Field(10, 31, 1),
                   ps |-> Field(11, 0, 5), wh |-> Field(11, 5, 3)]
    <2>2. SetPowerState.puts =
              {Whole("opcode", Field(0, 0, 8)),
              Whole("nsid", Field(1, 0, 32)),
              Whole("feature_id", Field(10, 0, 8)),
              Whole("save", Field(10, 31, 1)), Whole("ps", Field(11, 0, 5)),
              Whole("wh", Field(11, 5, 3))}
      BY DEF SetPowerState, Header, OpcodeField, NsidField, Dw10, Dw11
    <2>3. \A a \in DOMAIN home : Whole(a, home[a]) \in SetPowerState.puts
      BY <2>2
    <2>4. \A p \in SetPowerState.puts :
             p.arg \in DOMAIN home /\ p = Whole(p.arg, home[p.arg])
      BY <2>2 DEF Whole, Put
    <2>5. Fit(SetPowerState, home)
      BY DEF SetPowerState, Fit, WidthOf, Usable, Apart, FieldSet, Field
    <2> HIDE DEF home
    <2> QED
      BY <2>1, <2>3, <2>4, <2>5 DEF OnePiece, Placed
  <1>10. CASE f = "get_feature"
    <2>1. Functions[f] = GetFeature
      BY <1>10 DEF Functions
    <2> DEFINE home == [opcode |-> Field(0, 0, 8), nsid |-> Field(1, 0, 32),
                   feature_id |-> Field(10, 0, 8), select |-> Field(10, 8, 3),
                   dw11 |-> Field(11, 0, 32), dw12 |-> Field(12, 0, 32),
                   dw13 |-> Field(13, 0, 32), dw14 |-> Field(14, 0, 32),
                   dw15 |-> Field(15, 0, 32)]
    <2>2. GetFeature.puts =
              {Whole("opcode", Field(0, 0, 8)),
              Whole("nsid", Field(1, 0, 32)),
              Whole("feature_id", Field(10, 0, 8)),
              Whole("select", Field(10, 8, 3)),
              Whole("dw11", Field(11, 0, 32)),
              Whole("dw12", Field(12, 0, 32)),
              Whole("dw13", Field(13, 0, 32)),
              Whole("dw14", Field(14, 0, 32)),
              Whole("dw15", Field(15, 0, 32))}
      BY DEF GetFeature, Header, OpcodeField, NsidField, DwordPuts, Word, Dw10
    <2>3. \A a \in DOMAIN home : Whole(a, home[a]) \in GetFeature.puts
      BY <2>2
    <2>4. \A p \in GetFeature.puts :
             p.arg \in DOMAIN home /\ p = Whole(p.arg, home[p.arg])
      BY <2>2 DEF Whole, Put
    <2>5. Fit(GetFeature, home)
      BY DEF GetFeature, Fit, WidthOf, Usable, Apart, FieldSet, Field
    <2> HIDE DEF home
    <2> QED
      BY <2>1, <2>3, <2>4, <2>5 DEF OnePiece, Placed
  <1>11. CASE f = "get_power_state"
    <2>1. Functions[f] = GetPowerState
      BY <1>11 DEF Functions
    <2> DEFINE home == [opcode |-> Field(0, 0, 8), nsid |-> Field(1, 0, 32),
                   feature_id |-> Field(10, 0, 8), select |-> Field(10, 8, 3)]
    <2>2. GetPowerState.puts =
              {Whole("opcode", Field(0, 0, 8)),
              Whole("nsid", Field(1, 0, 32)),
              Whole("feature_id", Field(10, 0, 8)),
              Whole("select", Field(10, 8, 3))}
      BY DEF GetPowerState, Header, OpcodeField, NsidField, Dw10
    <2>3. \A a \in DOMAIN home : Whole(a, home[a]) \in GetPowerState.puts
      BY <2>2
    <2>4. \A p \in GetPowerState.puts :
             p.arg \in DOMAIN home /\ p = Whole(p.arg, home[p.arg])
      BY <2>2 DEF Whole, Put
    <2>5. Fit(GetPowerState, home)
      BY DEF GetPowerState, Fit, WidthOf, Usable, Apart, FieldSet, Field
    <2> HIDE DEF home
    <2> QED
      BY <2>1, <2>3, <2>4, <2>5 DEF OnePiece, Placed
  <1>12. CASE f = "firmware_commit"
    <2>1. Functions[f] = FirmwareCommit
      BY <1>12 DEF Functions
    <2> DEFINE home == [opcode |-> Field(0, 0, 8), nsid |-> Field(1, 0, 32),
                   fs |-> Field(10, 0, 3), ca |-> Field(10, 3, 3),
                   bpid |-> Field(10, 31, 1)]
    <2>2. FirmwareCommit.puts =
              {Whole("opcode", Field(0, 0, 8)),
              Whole("nsid", Field(1, 0, 32)), Whole("fs", Field(10, 0, 3)),
              Whole("ca", Field(10, 3, 3)), Whole("bpid", Field(10, 31, 1))}
      BY DEF FirmwareCommit, Header, OpcodeField, NsidField, Dw10
    <2>3. \A a \in DOMAIN home : Whole(a, home[a]) \in FirmwareCommit.puts
      BY <2>2
    <2>4. \A p \in FirmwareCommit.puts :
             p.arg \in DOMAIN home /\ p = Whole(p.arg, home[p.arg])
      BY <2>2 DEF Whole, Put
    <2>5. Fit(FirmwareCommit, home)
      BY DEF FirmwareCommit, Fit, WidthOf, Usable, Apart, FieldSet, Field
    <2> HIDE DEF home
    <2> QED
      BY <2>1, <2>3, <2>4, <2>5 DEF OnePiece, Placed
  <1>13. CASE f = "firmware_image_download"
    <2>1. Functions[f] = FirmwareImageDownload
      BY <1>13 DEF Functions
    <2> DEFINE home == [opcode |-> Field(0, 0, 8), nsid |-> Field(1, 0, 32),
                   numdw |-> Field(10, 0, 32), ofst |-> Field(11, 0, 32)]
    <2>2. FirmwareImageDownload.puts =
              {Whole("opcode", Field(0, 0, 8)),
              Whole("nsid", Field(1, 0, 32)),
              Whole("numdw", Field(10, 0, 32)),
              Whole("ofst", Field(11, 0, 32))}
      BY DEF FirmwareImageDownload, Header, OpcodeField, NsidField, Dw10, Dw11
    <2>3. \A a \in DOMAIN home :
             Whole(a, home[a]) \in FirmwareImageDownload.puts
      BY <2>2
    <2>4. \A p \in FirmwareImageDownload.puts :
             p.arg \in DOMAIN home /\ p = Whole(p.arg, home[p.arg])
      BY <2>2 DEF Whole, Put
    <2>5. Fit(FirmwareImageDownload, home)
      BY DEF FirmwareImageDownload, Fit, WidthOf, Usable, Apart, FieldSet,
             Field
    <2> HIDE DEF home
    <2> QED
      BY <2>1, <2>3, <2>4, <2>5 DEF OnePiece, Placed
  <1>14. CASE f = "device_self_test"
    <2>1. Functions[f] = DeviceSelfTest
      BY <1>14 DEF Functions
    <2> DEFINE home == [opcode |-> Field(0, 0, 8), nsid |-> Field(1, 0, 32),
                   stc |-> Field(10, 0, 3)]
    <2>2. DeviceSelfTest.puts =
              {Whole("opcode", Field(0, 0, 8)),
              Whole("nsid", Field(1, 0, 32)), Whole("stc", Field(10, 0, 3))}
      BY DEF DeviceSelfTest, Header, OpcodeField, NsidField, Dw10
    <2>3. \A a \in DOMAIN home : Whole(a, home[a]) \in DeviceSelfTest.puts
      BY <2>2
    <2>4. \A p \in DeviceSelfTest.puts :
             p.arg \in DOMAIN home /\ p = Whole(p.arg, home[p.arg])
      BY <2>2 DEF Whole, Put
    <2>5. Fit(DeviceSelfTest, home)
      BY DEF DeviceSelfTest, Fit, WidthOf, Usable, Apart, FieldSet, Field
    <2> HIDE DEF home
    <2> QED
      BY <2>1, <2>3, <2>4, <2>5 DEF OnePiece, Placed
  <1>15. CASE f = "format_nvm"
    <2>1. Functions[f] = FormatNvm
      BY <1>15 DEF Functions
    <2> DEFINE home == [opcode |-> Field(0, 0, 8), nsid |-> Field(1, 0, 32),
                   lbaf |-> Field(10, 0, 4), mset |-> Field(10, 4, 1),
                   pi |-> Field(10, 5, 3), pil |-> Field(10, 8, 1),
                   ses |-> Field(10, 9, 3)]
    <2>2. FormatNvm.puts =
              {Whole("opcode", Field(0, 0, 8)),
              Whole("nsid", Field(1, 0, 32)), Whole("lbaf", Field(10, 0, 4)),
              Whole("mset", Field(10, 4, 1)), Whole("pi", Field(10, 5, 3)),
              Whole("pil", Field(10, 8, 1)), Whole("ses", Field(10, 9, 3))}
      BY DEF FormatNvm, Header, OpcodeField, NsidField, Dw10
    <2>3. \A a \in DOMAIN home : Whole(a, home[a]) \in FormatNvm.puts
      BY <2>2
    <2>4. \A p \in FormatNvm.puts :
             p.arg \in DOMAIN home /\ p = Whole(p.arg, home[p.arg])
      BY <2>2 DEF Whole, Put
    <2>5. Fit(FormatNvm, home)
      BY DEF FormatNvm, Fit, WidthOf, Usable, Apart, FieldSet, Field
    <2> HIDE DEF home
    <2> QED
      BY <2>1, <2>3, <2>4, <2>5 DEF OnePiece, Placed
  <1>16. CASE f = "sanitize"
    <2>1. Functions[f] = Sanitize
      BY <1>16 DEF Functions
    <2> DEFINE home == [opcode |-> Field(0, 0, 8), nsid |-> Field(1, 0, 32),
                   action |-> Field(10, 0, 3), ause |-> Field(10, 3, 1),
                   owpass |-> Field(10, 4, 4), owipbp |-> Field(10, 8, 1),
                   ndas |-> Field(10, 9, 1), ovrpat |-> Field(11, 0, 32)]
    <2>2. Sanitize.puts =
              {Whole("opcode", Field(0, 0, 8)),
              Whole("nsid", Field(1, 0, 32)),
              Whole("action", Field(10, 0, 3)),
              Whole("ause", Field(10, 3, 1)),
              Whole("owpass", Field(10, 4, 4)),
              Whole("owipbp", Field(10, 8, 1)),
              Whole("ndas", Field(10, 9, 1)),
              Whole("ovrpat", Field(11, 0, 32))}
      BY DEF Sanitize, Header, OpcodeField, NsidField, Dw10, Dw11
    <2>3. \A a \in DOMAIN home : Whole(a, home[a]) \in Sanitize.puts
      BY <2>2
    <2>4. \A p \in Sanitize.puts :
             p.arg \in DOMAIN home /\ p = Whole(p.arg, home[p.arg])
      BY <2>2 DEF Whole, Put
    <2>5. Fit(Sanitize, home)
      BY DEF Sanitize, Fit, WidthOf, Usable, Apart, FieldSet, Field
    <2> HIDE DEF home
    <2> QED
      BY <2>1, <2>3, <2>4, <2>5 DEF OnePiece, Placed
  <1>17. CASE f \in {"own_log_page", "own_flush", "own_write",
                     "own_compare", "own_write_uc", "own_write_zeros",
                     "own_dsm", "own_verify"}
    <2>1. PICK wrapper, opcode : Functions[f] = OwnCommand(wrapper, opcode)
      BY <1>17 DEF Functions
    <2> DEFINE home == [opcode |-> Field(0, 0, 8), nsid |-> Field(1, 0, 32),
                   dw10 |-> Field(10, 0, 32), dw11 |-> Field(11, 0, 32),
                   dw12 |-> Field(12, 0, 32), dw13 |-> Field(13, 0, 32),
                   dw14 |-> Field(14, 0, 32), dw15 |-> Field(15, 0, 32)]
    <2>2. OwnCommand(wrapper, opcode).puts =
              {Whole("opcode", Field(0, 0, 8)),
              Whole("nsid", Field(1, 0, 32)), Whole("dw10", Field(10, 0, 32)),
              Whole("dw11", Field(11, 0, 32)),
              Whole("dw12", Field(12, 0, 32)),
              Whole("dw13", Field(13, 0, 32)),
              Whole("dw14", Field(14, 0, 32)),
              Whole("dw15", Field(15, 0, 32))}
      BY DEF OwnCommand, Header, OpcodeField, NsidField, DwordPuts, Word
    <2>3. \A a \in DOMAIN home :
             Whole(a, home[a]) \in OwnCommand(wrapper, opcode).puts
      BY <2>2
    <2>4. \A p \in OwnCommand(wrapper, opcode).puts :
             p.arg \in DOMAIN home /\ p = Whole(p.arg, home[p.arg])
      BY <2>2 DEF Whole, Put
    <2>5. Fit(OwnCommand(wrapper, opcode), home)
      BY DEF OwnCommand, Fit, WidthOf, Usable, Apart, FieldSet, Field
    <2> HIDE DEF home
    <2> QED
      BY <2>1, <2>3, <2>4, <2>5 DEF OnePiece, Placed
  <1> QED
    BY <1>1, <1>2, <1>3, <1>4, <1>5, <1>6, <1>7, <1>8, <1>9, <1>10, <1>11,
       <1>12, <1>13, <1>14, <1>15, <1>16, <1>17
    DEF Functions

(* get_log_page() and nvm_read() cut one parameter in two. *)
LEMMA GetLogPageLaid ==
    /\ WellLaid(GetLogPage)
    /\ \A a \in DOMAIN GetLogPage.args \ {"lsid"} : Covered(GetLogPage, a)
  <1> DEFINE home == [nsid |-> Field(1, 0, 32), pid |-> Field(10, 0, 8),
                     lsf |-> Field(10, 8, 4), rae |-> Field(10, 15, 1),
                     offset_low |-> Field(12, 0, 32),
                     offset_up |-> Field(13, 0, 32),
                     uuid_idx |-> Field(14, 0, 7)]
  <1>1. GetLogPage.puts =
            {Whole("opcode", Field(0, 0, 8)), Whole("nsid", Field(1, 0, 32)),
             Whole("pid", Field(10, 0, 8)), Whole("lsf", Field(10, 8, 4)),
             Whole("rae", Field(10, 15, 1)), Whole("numdw", Field(10, 16, 16)),
             Put("numdw", 16, Field(11, 0, 16)),
             Whole("offset_low", Field(12, 0, 32)),
             Whole("offset_up", Field(13, 0, 32)),
             Whole("uuid_idx", Field(14, 0, 7))}
    BY DEF GetLogPage, Header, OpcodeField, NsidField, Dw10, Dw11, Dw12, Dw13,
           Dw14
  <1>2. /\ DOMAIN GetLogPage.args = 
                {"nsid", "pid", "lsf", "rae", "numdw", "lsid", "offset_low",
                 "offset_up", "uuid_idx"}
        /\ DOMAIN GetLogPage.fixed = {"opcode"}
    BY DEF GetLogPage
  <1>3. \A p \in GetLogPage.puts :
          /\ p.field \in FieldSet /\ p.field.dw <= 15
          /\ p.field.lo + p.field.len <= 32
          /\ p.from \in Nat
          /\ p.arg \in DOMAIN GetLogPage.args \cup DOMAIN GetLogPage.fixed
    BY <1>1, <1>2 DEF FieldSet, Whole, Put, Field
  <1>4. \A p, q \in GetLogPage.puts : p # q => Apart(p.field, q.field)
    BY <1>1 DEF Whole, Put, Field, Apart
  <1>5. WellLaid(GetLogPage)
    BY <1>3, <1>4 DEF WellLaid, GetLogPage
  <1>6. \A a \in DOMAIN home :
           /\ Whole(a, home[a]) \in GetLogPage.puts
           /\ home[a].len = WidthOf(GetLogPage, a)
    BY <1>1 DEF Field, WidthOf, Usable, GetLogPage
  <1>7. \A a \in DOMAIN home : \A p \in GetLogPage.puts :
           p.arg = a => p = Whole(a, home[a])
    BY <1>1 DEF Whole, Put
  <1>8. DOMAIN GetLogPage.args \ {"lsid", "numdw"} = DOMAIN home
    BY <1>2
  <1>9. \A a \in DOMAIN home : Covered(GetLogPage, a)
    <2> HIDE DEF home
    <2> QED
      BY <1>5, <1>6, <1>7, CarriedIsCovered DEF Carries
  <1>10. Splits(GetLogPage, "numdw", Field(10, 16, 16), 16, Field(11, 0, 16))
    BY <1>1 DEF Splits, Whole, Put, Field, WidthOf, Usable, GetLogPage
  <1>11. Covered(GetLogPage, "numdw")
    BY <1>5, <1>10, SplitIsCovered
  <1> QED
    BY <1>5, <1>8, <1>9, <1>11

(* nvm_read() cuts the start LBA in two and puts the rest in one piece.  *)
LEMMA NvmReadLaid ==
    WellLaid(NvmRead) /\ \A a \in DOMAIN NvmRead.args : Covered(NvmRead, a)
  <1> DEFINE home == [nsid |-> Field(1, 0, 32), n_lba |-> Field(12, 0, 16),
                     protect_info |-> Field(12, 26, 4),
                     fua |-> Field(12, 30, 1), limit_retry |-> Field(12, 31, 1),
                     dsm |-> Field(13, 0, 8), init_ref_tag |-> Field(14, 0, 32),
                     app_tag |-> Field(15, 0, 16),
                     app_tag_mask |-> Field(15, 16, 16)]
  <1>1. NvmRead.puts =
            {Whole("opcode", Field(0, 0, 8)), Whole("nsid", Field(1, 0, 32)),
             Whole("start_lba", Field(10, 0, 32)),
             Put("start_lba", 32, Field(11, 0, 32)),
             Whole("n_lba", Field(12, 0, 16)),
             Whole("protect_info", Field(12, 26, 4)),
             Whole("fua", Field(12, 30, 1)),
             Whole("limit_retry", Field(12, 31, 1)),
             Whole("dsm", Field(13, 0, 8)),
             Whole("init_ref_tag", Field(14, 0, 32)),
             Whole("app_tag", Field(15, 0, 16)),
             Whole("app_tag_mask", Field(15, 16, 16))}
    BY DEF NvmRead, Header, OpcodeField, NsidField, DwRead
  <1>2. /\ DOMAIN NvmRead.args = {"nsid", "start_lba", "n_lba", "protect_info",
                                 "fua", "limit_retry", "dsm", "init_ref_tag",
                                 "app_tag", "app_tag_mask"}
        /\ DOMAIN NvmRead.fixed = {"opcode"}
    BY DEF NvmRead
  <1>3. \A p \in NvmRead.puts :
          /\ p.field \in FieldSet /\ p.field.dw <= 15
          /\ p.field.lo + p.field.len <= 32
          /\ p.from \in Nat
          /\ p.arg \in DOMAIN NvmRead.args \cup DOMAIN NvmRead.fixed
    BY <1>1, <1>2 DEF FieldSet, Whole, Put, Field
  <1>4. \A p, q \in NvmRead.puts : p # q => Apart(p.field, q.field)
    BY <1>1 DEF Whole, Put, Field, Apart
  <1>5. WellLaid(NvmRead)
    BY <1>3, <1>4 DEF WellLaid, NvmRead
  <1>6. \A a \in DOMAIN home :
           /\ Whole(a, home[a]) \in NvmRead.puts
           /\ home[a].len = WidthOf(NvmRead, a)
    BY <1>1 DEF Field, WidthOf, Usable, NvmRead
  <1>7. \A a \in DOMAIN home : \A p \in NvmRead.puts :
           p.arg = a => p = Whole(a, home[a])
    BY <1>1 DEF Whole, Put
  <1>8. DOMAIN NvmRead.args \ {"start_lba"} = DOMAIN home
    BY <1>2
  <1>9. \A a \in DOMAIN home : Covered(NvmRead, a)
    <2> HIDE DEF home
    <2> QED
      BY <1>5, <1>6, <1>7, CarriedIsCovered DEF Carries
  <1>10. Splits(NvmRead, "start_lba", Field(10, 0, 32), 32, Field(11, 0, 32))
    BY <1>1 DEF Splits, Whole, Put, Field, WidthOf, Usable, NvmRead
  <1>11. Covered(NvmRead, "start_lba")
    BY <1>5, <1>10, SplitIsCovered
  <1> QED
    BY <1>5, <1>8, <1>9, <1>11

(* No function assigns a bit of the command twice. *)
LEMMA Layouts == \A f \in DOMAIN Functions : WellLaid(Functions[f])
  <1> SUFFICES ASSUME NEW f \in DOMAIN Functions PROVE WellLaid(Functions[f])
    OBVIOUS
  <1>1. CASE f = "get_log_page"
    BY <1>1, GetLogPageLaid DEF Functions
  <1>2. CASE f = "nvm_read"
    BY <1>2, NvmReadLaid DEF Functions
  <1>3. CASE f = "async_event_request"
    <2>1. WellLaid(AsyncEventRequest)
      BY DEF AsyncEventRequest, WellLaid, Apart, FieldSet, Field, Put, Whole,
             OpcodeField
    <2> QED
      BY <1>3, <2>1 DEF Functions
  <1>4. CASE f \notin {"get_log_page", "nvm_read", "async_event_request"}
    BY <1>4, OnePieceFunctions, OnePieceLaid
  <1> QED
    BY <1>1, <1>2, <1>3, <1>4

(* Every parameter of every function has room, but for the two that are    *)
(* dropped: numdw of a log page and the start LBA of a read in two pieces, *)
(* all others in one.                                                      *)
LEMMA ParametersCovered ==
    ASSUME NEW f \in DOMAIN Functions, NEW a \in DOMAIN Functions[f].args,
           <<f, a>> \notin Dropped
    PROVE  Covered(Functions[f], a)
  <1>1. CASE f = "get_log_page"
    <2>1. Functions[f] = GetLogPage /\ a # "lsid"
      BY <1>1 DEF Functions, Dropped
    <2> QED
      BY <2>1, GetLogPageLaid
  <1>2. CASE f = "nvm_read"
    <2>1. Functions[f] = NvmRead
      BY <1>2 DEF Functions
    <2> QED
      BY <2>1, NvmReadLaid
  <1>3. CASE f = "async_event_request"
    BY <1>3 DEF Functions, Dropped, AsyncEventRequest
  <1>4. CASE f \notin {"get_log_page", "nvm_read", "async_event_request"}
    BY <1>4, OnePieceFunctions, OnePieceLaid
  <1> QED
    BY <1>1, <1>2, <1>3, <1>4

-----------------------------------------------------------------------------
(* Requests.                                                               *)

(* A parameter is an integer of its C type, whatever its value. *)
IsRequest(f, v) ==
    /\ DOMAIN v = DOMAIN Functions[f].args
    /\ \A a \in DOMAIN v : v[a] \subseteq 0..(Functions[f].args[a] - 1)

Command(f, v) == Store(Functions[f].puts, Assigned(f, v))

(* What the pieces of a parameter hold, put together again. *)
Joined(f, bits, a) ==
    UNION {{p.from + k : k \in Load(bits, p.field)} :
           p \in Pieces(Functions[f], a)}

(* The calls of the specification are requests. *)
LEMMA CallsAreRequests ==
    ASSUME NEW f \in DOMAIN Functions, NEW v \in Calls(f)
    PROVE  IsRequest(f, v)
  <1> DEFINE args == Functions[f].args
             Zero == [a \in DOMAIN args |-> {}]
             Ones == [a \in DOMAIN args |-> 0..(args[a] - 1)]
             Values(a) == Samples(args[a], UsableWidth(f, a)) \cup NamedFor(a)
  <1>1. \/ v \in {Zero, Ones}
        \/ \E a \in DOMAIN args : \E s \in Values(a) :
              v = [Zero EXCEPT ![a] = s]
    <2>1. Calls(f) = {Zero, Ones} \cup
                     UNION {{[Zero EXCEPT ![a] = s] : s \in Values(a)} :
                            a \in DOMAIN args}
      BY DEF Calls
    <2> HIDE DEF Zero, Ones, Values, args
    <2> QED
      BY <2>1
  <1>2. CASE v \in {Zero, Ones}
    BY <1>2 DEF IsRequest
  <1>3. CASE \E a \in DOMAIN args : \E s \in Values(a) :
                v = [Zero EXCEPT ![a] = s]
    <2>1. PICK a \in DOMAIN args : \E s \in Values(a) :
                 v = [Zero EXCEPT ![a] = s]
      BY <1>3
    <2>2. PICK s \in Values(a) : v = [Zero EXCEPT ![a] = s]
      BY <2>1
    <2>3. args[a] \in {8, 16, 32, 64}
      BY Layouts DEF WellLaid
    <2>4. UsableWidth(f, a) \in 1..args[a]
      <3>1. a \in DOMAIN Usable => Usable[a] \in 1..8
        BY DEF Usable
      <3> QED
        BY <2>3, <3>1 DEF UsableWidth
    <2>5. s \in Samples(args[a], UsableWidth(f, a)) =>
             s \subseteq 0..(args[a] - 1)
      BY <2>3, <2>4, SamplesAssumption
    <2>6. s \in NamedFor(a) => s \subseteq 0..(args[a] - 1)
      <3>1. s \in NamedFor(a) => s \subseteq 0..7
        BY DEF NamedFor, Named, BitsOf
      <3> QED
        BY <2>3, <3>1
    <2>7. s \subseteq 0..(args[a] - 1)
      BY <2>2, <2>5, <2>6
    <2> HIDE DEF args, Values
    <2>8. /\ DOMAIN v = DOMAIN args
          /\ \A b \in DOMAIN args : v[b] = IF b = a THEN s ELSE {}
      BY <2>1, <2>2
    <2>9. \A b \in DOMAIN args : v[b] \subseteq 0..(args[b] - 1)
      BY <2>7, <2>8
    <2> QED
      BY <2>8, <2>9 DEF IsRequest, args
  <1> QED
    BY <1>1, <1>2, <1>3

(* A parameter is assigned as it is. *)
LEMMA AssignedParameter ==
    ASSUME NEW f \in DOMAIN Functions, NEW v,
           DOMAIN v = DOMAIN Functions[f].args, NEW a \in DOMAIN v
    PROVE  Assigned(f, v)[a] = v[a]
  BY Layouts DEF Assigned, WellLaid

(* For every function and all values of its parameters at once: reading    *)
(* back the pieces of a parameter and joining them gives the parameter,    *)
(* but for the bits that the command has no room for.                      *)
THEOREM EveryParameterArrives ==
    ASSUME NEW f \in DOMAIN Functions, NEW v,
           DOMAIN v = DOMAIN Functions[f].args,
           NEW a \in DOMAIN v, <<f, a>> \notin Dropped
    PROVE  Joined(f, Command(f, v), a) = v[a] \cap 0..(UsableWidth(f, a) - 1)
  <1> DEFINE F == Functions[f]
             width == UsableWidth(f, a)
  <1>1. WellLaid(F) /\ Covered(F, a)
    BY Layouts, ParametersCovered
  <1>2. width = WidthOf(F, a)
    BY DEF UsableWidth, WidthOf
  <1>3. ASSUME NEW p \in Pieces(F, a)
        PROVE  /\ Load(Command(f, v), p.field) =
                      {k \in Index(p.field) : p.from + k \in v[a]}
               /\ p.from \in Nat /\ p.field.len \in Nat
               /\ p.from + p.field.len <= width
    <2>1. p \in F.puts /\ p.arg = a
      BY DEF Pieces
    <2>2. Load(Command(f, v), p.field) = Slice(p, Assigned(f, v))
      BY <1>1, <2>1, WellLaidRoundTrip DEF Command
    <2>3. p.from \in Nat /\ p.field \in FieldSet
      BY <1>1, <2>1 DEF WellLaid
    <2>4. p.field.len \in Nat
      BY <2>3 DEF FieldSet
    <2> QED
      BY <1>1, <1>2, <2>1, <2>2, <2>3, <2>4, AssignedParameter
      DEF Slice, Covered
  <1>4. ASSUME NEW b \in Joined(f, Command(f, v), a)
        PROVE  b \in v[a] /\ b \in 0..(width - 1)
    <2>1. PICK p \in Pieces(F, a) :
                 \E k \in Load(Command(f, v), p.field) : b = p.from + k
      BY DEF Joined
    <2>2. PICK k \in Load(Command(f, v), p.field) : b = p.from + k
      BY <2>1
    <2>3. k \in Index(p.field) /\ p.from + k \in v[a]
      BY <1>3, <2>2
    <2>4. k \in 0..(p.field.len - 1)
      BY <2>3 DEF Index
    <2>5. width \in Int
      <3>1. a \in DOMAIN Usable => Usable[a] \in Int
        BY DEF Usable
      <3>2. F.args[a] \in Int
        BY <1>1 DEF WellLaid
      <3> QED
        BY <3>1, <3>2 DEF UsableWidth
    <2> HIDE DEF width
    <2> QED
      BY <1>3, <2>2, <2>3, <2>4, <2>5
  <1>5. ASSUME NEW b \in v[a], b \in 0..(width - 1)
        PROVE  b \in Joined(f, Command(f, v), a)
    <2>1. PICK p \in Pieces(F, a) : p.from <= b /\ b < p.from + p.field.len
      BY <1>1, <1>2, <1>5 DEF Covered
    <2>2. b \in Int /\ p.from \in Nat /\ p.field.len \in Nat
      BY <1>3, <1>5
    <2>3. b - p.from \in Index(p.field) /\ p.from + (b - p.from) = b
      BY <2>1, <2>2 DEF Index
    <2>4. b - p.from \in Load(Command(f, v), p.field)
      BY <1>3, <2>3
    <2> QED
      BY <2>3, <2>4 DEF Joined
  <1> QED
    BY <1>4, <1>5

-----------------------------------------------------------------------------
(* The second description of the commands.                                 *)

Reads(p, f, v) == Load(Command(f, v), p.field) = Slice(p, Assigned(f, v))

(* An assignment of the function is read as it was written. *)
LEMMA SamePut ==
    ASSUME NEW f \in DOMAIN Functions, NEW v, NEW p \in Functions[f].puts
    PROVE  Reads(p, f, v)
  BY Layouts, WellLaidRoundTrip DEF Reads, Command

(* So is the lower part of one. *)
LEMMA LowerPut ==
    ASSUME NEW f \in DOMAIN Functions, NEW v, NEW p \in Functions[f].puts,
           NEW q, q.arg = p.arg, q.from = p.from, q.field \in FieldSet,
           q.field.dw = p.field.dw, q.field.lo = p.field.lo,
           q.field.len <= p.field.len
    PROVE  Reads(q, f, v)
  <1> DEFINE field == q.field
  <1>1. WellLaid(Functions[f])
    BY Layouts
  <1>2. Load(Command(f, v), field) =
            {k \in Index(field) : p.from + k \in Assigned(f, v)[p.arg]}
    <2> HIDE DEF field
    <2>1. field \in FieldSet /\ field.dw = p.field.dw
          /\ field.lo = p.field.lo /\ field.len <= p.field.len
      BY DEF field
    <2> QED
      BY <1>1, <2>1, LowerPart DEF Command
  <1> QED
    BY <1>2 DEF Reads, Slice

(* cns has a byte of its own in the union and two in the structure: the    *)
(* second one is zero in both.                                             *)
LEMMA IdentifyCns ==
    ASSUME NEW f \in DOMAIN Functions, Functions[f].puts = IdentifyPuts,
           NEW v, Assigned(f, v)["cns"] \subseteq 0..7
    PROVE  Reads(Whole("cns", Bytes(40, 2)), f, v)
  <1> DEFINE byte == Dw10.identify.cns
             word == Bytes(40, 2)
             cns == Assigned(f, v)["cns"]
  <1>1. byte = Field(10, 0, 8) /\ word = Field(10, 0, 16)
    BY DEF Dw10, Bytes
  <1>2. Index(byte) = 0..7 /\ Index(word) = 0..15
    BY <1>1 DEF Index, Field
  <1>3. /\ Whole("cns", byte) \in Functions[f].puts
        /\ Whole("cns", byte).field = byte
        /\ Whole("cns", byte).arg = "cns" /\ Whole("cns", byte).from = 0
    BY DEF IdentifyPuts, Whole, Put
  <1>4. Load(Command(f, v), byte) = {k \in 0..7 : 0 + k \in cns}
    BY <1>2, <1>3, SamePut DEF Reads, Slice
  <1>5. \A k : Cell(byte, k) = Cell(word, k)
    BY <1>1 DEF Cell, Field
  <1>6. ASSUME NEW k \in 8..15
        PROVE  Cell(word, k) \notin Command(f, v)
    <2>1. SUFFICES ASSUME NEW p \in IdentifyPuts, NEW j \in Index(p.field),
                          Cell(word, k) = Cell(p.field, j)
                   PROVE  FALSE
      BY DEF Command, Store, Slice
    <2>2. Cell(word, k) = <<10, k>>
      BY <1>1 DEF Cell, Field
    <2>3. p.field.dw = 10 /\ p.field.lo + j = k
      BY <2>1, <2>2 DEF Cell
    <2>4. p.field \in {Dw10.identify.cns, Dw10.identify.ctrl_id}
      BY <2>3 DEF IdentifyPuts, Header, Whole, Put, Field, OpcodeField,
                  NsidField, Dw10, Dw14
    <2>5. CASE p.field = byte
      BY <1>1, <1>2, <2>3, <2>5 DEF Field
    <2>6. CASE p.field = Dw10.identify.ctrl_id
      BY <2>3, <2>6 DEF Field, Dw10, Index
    <2> QED
      BY <2>4, <2>5, <2>6
  <1> HIDE DEF byte, word, cns
  <1>7. Load(Command(f, v), word) = {k \in Index(word) : 0 + k \in cns}
    <2>1. ASSUME NEW k \in 0..15
          PROVE  Cell(word, k) \in Command(f, v) <=> 0 + k \in cns
      <3>1. CASE k \in 0..7
        BY <1>2, <1>4, <1>5, <3>1 DEF Load
      <3>2. CASE k \in 8..15
        BY <1>6, <3>2 DEF cns
      <3> QED
        BY <3>1, <3>2
    <2> QED
      BY <1>2, <2>1 DEF Load
  <1> QED
    BY <1>7 DEF Reads, Slice, Whole, Put, word, cns

(* What the function fixes is a byte. *)
LEMMA AssignedCns ==
    ASSUME NEW f \in {"identify", "identify_ns", "identify_ctrl"},
           NEW v, IsRequest(f, v)
    PROVE  Assigned(f, v)["cns"] \subseteq 0..7
  <1>1. CASE f = "identify"
    <2>1. /\ DOMAIN v = DOMAIN Identify.args /\ Identify.args["cns"] = 8
          /\ "cns" \in DOMAIN Identify.args
          /\ Functions[f] = Identify /\ f \in DOMAIN Functions
      BY <1>1 DEF IsRequest, Functions, Identify
    <2>2. v["cns"] \subseteq 0..(8 - 1)
      BY <2>1 DEF IsRequest
    <2> QED
      BY <2>1, <2>2, AssignedParameter
  <1>2. CASE f \in {"identify_ns", "identify_ctrl"}
    <2>1. PICK cns : Functions[f] = IdentifyAs(cns)
      BY <1>2 DEF Functions
    <2>2. Assigned(f, v)["cns"] = BitsOf(cns)
      BY <2>1 DEF Assigned, IdentifyAs
    <2> QED
      BY <2>2 DEF BitsOf
  <1> QED
    BY <1>1, <1>2

(* Whatever member the structure of a command has, it reads the parameter  *)
(* from where the function assigned it through the unions.                 *)
LEMMA StructsRead ==
    ASSUME fn \in DOMAIN Functions, NEW v, IsRequest(fn, v),
           NEW p \in StructPuts
    PROVE  Reads(p, fn, v)
  <1> USE DEF Functions
  <1>1. CASE fn = "create_iocq"
    <2>1. p \in CreateIocq.puts
      BY <1>1 DEF StructPuts, CreateCqStruct, CreateIocq, Bytes, Whole, Put,
                  Field, Dw10, Dw11
    <2> QED
      BY <1>1, <2>1, SamePut
  <1>2. CASE fn = "delete_iosq"
    <2>1. p \in DeleteIosq.puts
      BY <1>2 DEF StructPuts, DelQStruct, DeleteIosq, Bytes, Whole, Put,
                  Field, Dw10
    <2> QED
      BY <1>2, <2>1, SamePut
  <1>3. CASE fn = "delete_iocq"
    <2>1. p \in DeleteIocq.puts
      BY <1>3 DEF StructPuts, DelQStruct, DeleteIocq, Bytes, Whole, Put,
                  Field, Dw10
    <2> QED
      BY <1>3, <2>1, SamePut
  <1>4. CASE fn = "get_log_page"
    <2>1. p \in GetLogPage.puts
      BY <1>4 DEF StructPuts, GetLogPageStruct, GetLogPage, Header, NsidField,
                  Bytes, Whole, Put, Field, Dw10, Dw11, Dw12, Dw13
    <2> QED
      BY <1>4, <2>1, SamePut
  <1>5. CASE fn \in {"identify", "identify_ns", "identify_ctrl"}
    <2>1. Functions[fn].puts = IdentifyPuts
      BY <1>5 DEF Identify, IdentifyAs
    <2>2. p = Whole("cns", Bytes(40, 2)) \/ p \in IdentifyPuts
      BY <1>5 DEF StructPuts, IdentifyStruct, IdentifyPuts, Header, NsidField,
                  Bytes, Whole, Put, Field, Dw10
    <2> QED
      BY <1>5, <2>1, <2>2, SamePut, AssignedCns, IdentifyCns
  <1>6. CASE fn = "abort"
    <2>1. p \in Abort.puts
      BY <1>6 DEF StructPuts, AbortStruct, Abort, Header, NsidField, Bytes,
                  Whole, Put, Field, Dw10
    <2> QED
      BY <1>6, <2>1, SamePut
  <1>7. CASE fn = "get_feature"
    <2>1. p = Whole("dw14", Field(14, 0, 7)) \/ p \in GetFeature.puts
      BY <1>7 DEF StructPuts, GetFeatureStruct, GetFeature, DwordPuts, Word,
                  Header, NsidField, Bytes, Whole, Put, Field, Dw10
    <2>2. Whole("dw14", Word(14)) \in GetFeature.puts
      BY DEF GetFeature, DwordPuts
    <2> QED
      BY <1>7, <2>1, <2>2, SamePut, LowerPut
      DEF Whole, Put, Word, Field, FieldSet
  <1>8. CASE fn = "set_feature"
    <2>1. p = Whole("dw14", Field(14, 0, 7)) \/ p \in SetFeature.puts
      BY <1>8 DEF StructPuts, SetFeatureStruct, SetFeature, DwordPuts, Word,
                  Header, NsidField, Bytes, Whole, Put, Field, Dw10
    <2>2. Whole("dw14", Word(14)) \in SetFeature.puts
      BY DEF SetFeature, DwordPuts
    <2> QED
      BY <1>8, <2>1, <2>2, SamePut, LowerPut
      DEF Whole, Put, Word, Field, FieldSet
  <1> QED
    BY <1>1, <1>2, <1>3, <1>4, <1>5, <1>6, <1>7, <1>8 DEF StructPuts

-----------------------------------------------------------------------------
(* Queues and buffers.                                                     *)

QueueIdArg(f) == IF f = "create_iocq" THEN "cq_id" ELSE "sq_id"

(* What the wrappers of the queue creations read back from the command is  *)
(* what the caller asked for, though they read both through the members of *)
(* create_iosq.                                                            *)
LEMMA QueueMembers ==
    ASSUME NEW f \in {"create_iocq", "create_iosq"}, NEW v, IsRequest(f, v)
    PROVE  /\ Load(Command(f, v), Dw10.create_iosq.qid) = v[QueueIdArg(f)]
           /\ Load(Command(f, v), Dw10.create_iosq.qsize) = v["qsize"]
           /\ Load(Command(f, v), Dw11.create_iosq.contig) =
                v["contig"] \cap {0}
           /\ f = "create_iosq" =>
                Load(Command(f, v), Dw11.create_iosq.cq_id) = v["cq_id"]
  <1> DEFINE id == Whole(QueueIdArg(f), Dw10.create_iosq.qid)
             size == Whole("qsize", Dw10.create_iosq.qsize)
             contig == Whole("contig", Dw11.create_iosq.contig)
             cq == Whole("cq_id", Dw11.create_iosq.cq_id)
  <1>1. f \in DOMAIN Functions
    BY DEF Functions
  <1>2. /\ {id, size, contig} \subseteq Functions[f].puts
        /\ f = "create_iosq" => cq \in Functions[f].puts
    <2>1. CASE f = "create_iocq"
      BY <2>1 DEF Functions, CreateIocq, QueueIdArg, Dw10, Dw11
    <2>2. CASE f = "create_iosq"
      BY <2>2 DEF Functions, CreateIosq, QueueIdArg, Dw10, Dw11
    <2> QED
      BY <2>1, <2>2
  <1>3. /\ {QueueIdArg(f), "qsize", "contig"} \subseteq DOMAIN v
        /\ v[QueueIdArg(f)] \subseteq 0..15 /\ v["qsize"] \subseteq 0..15
        /\ f = "create_iosq" =>
             "cq_id" \in DOMAIN v /\ v["cq_id"] \subseteq 0..15
    <2>1. CASE f = "create_iocq"
      BY <2>1 DEF IsRequest, Functions, CreateIocq, QueueIdArg
    <2>2. CASE f = "create_iosq"
      BY <2>2 DEF IsRequest, Functions, CreateIosq, QueueIdArg
    <2> QED
      BY <2>1, <2>2
  <1>4. ASSUME NEW p \in Functions[f].puts, p.from = 0, p.arg \in DOMAIN v
        PROVE  Load(Command(f, v), p.field) =
                   {k \in Index(p.field) : 0 + k \in v[p.arg]}
    BY <1>1, <1>4, SamePut, AssignedParameter DEF Reads, Slice, IsRequest
  <1>5. /\ id.from = 0 /\ id.arg = QueueIdArg(f)
        /\ id.field = Dw10.create_iosq.qid
        /\ size.from = 0 /\ size.arg = "qsize"
        /\ size.field = Dw10.create_iosq.qsize
        /\ contig.from = 0 /\ contig.arg = "contig"
        /\ contig.field = Dw11.create_iosq.contig
        /\ cq.from = 0 /\ cq.arg = "cq_id"
        /\ cq.field = Dw11.create_iosq.cq_id
    BY DEF Whole, Put
  <1>6. /\ Index(Dw10.create_iosq.qid) = 0..15
        /\ Index(Dw10.create_iosq.qsize) = 0..15
        /\ Index(Dw11.create_iosq.contig) = 0..0
        /\ Index(Dw11.create_iosq.cq_id) = 0..15
    BY DEF Index, Dw10, Dw11, Field
  <1> HIDE DEF id, size, contig, cq
  <1>7. Load(Command(f, v), Dw10.create_iosq.qid) = v[QueueIdArg(f)]
    <2>1. Load(Command(f, v), Dw10.create_iosq.qid) =
              {k \in 0..15 : 0 + k \in v[QueueIdArg(f)]}
      BY <1>2, <1>3, <1>4, <1>5, <1>6
    <2> QED
      BY <1>3, <2>1
  <1>8. Load(Command(f, v), Dw10.create_iosq.qsize) = v["qsize"]
    <2>1. Load(Command(f, v), Dw10.create_iosq.qsize) =
              {k \in 0..15 : 0 + k \in v["qsize"]}
      BY <1>2, <1>3, <1>4, <1>5, <1>6
    <2> QED
      BY <1>3, <2>1
  <1>9. Load(Command(f, v), Dw11.create_iosq.contig) = v["contig"] \cap {0}
    <2>1. Load(Command(f, v), Dw11.create_iosq.contig) =
              {k \in 0..0 : 0 + k \in v["contig"]}
      BY <1>2, <1>3, <1>4, <1>5, <1>6
    <2> QED
      BY <2>1
  <1>10. ASSUME f = "create_iosq"
         PROVE  Load(Command(f, v), Dw11.create_iosq.cq_id) = v["cq_id"]
    <2>1. Load(Command(f, v), Dw11.create_iosq.cq_id) =
              {k \in 0..15 : 0 + k \in v["cq_id"]}
      BY <1>2, <1>3, <1>4, <1>5, <1>6, <1>10
    <2> QED
      BY <1>3, <1>10, <2>1
  <1> QED
    BY <1>7, <1>8, <1>9, <1>10

(* struct nvme_64b_send has the shape of its C type. *)
EnvelopeOK(e) ==
    /\ e.size = CallerSize \/ e.size \in 0..MaxQueueMemory
    /\ e.dir \in {DATA_DIR_NONE, DATA_DIR_TO_DEVICE, DATA_DIR_FROM_DEVICE}

(* What the wrapper of a queue creation sends has the shape of a         *)
(* request, whatever size the command asks for.                          *)
LEMMA QueueMemoryShape ==
    ASSUME NEW bits, NEW elementSize \in {16, 64}, NEW pointer,
           NEW dir \in {DATA_DIR_NONE, DATA_DIR_FROM_DEVICE}
    PROVE  EnvelopeOK(QueueMemory(bits, elementSize, pointer, dir))
  <1> DEFINE number == Number(Load(bits, Dw10.create_iosq.qsize))
  <1>1. number \in Nat /\ number <= 65535
    BY NumberBound
  <1> HIDE DEF number
  <1>2. number * elementSize \in Nat /\ number * elementSize <= MaxQueueMemory
    <2>1. CASE elementSize = 16
      BY <1>1, <2>1 DEF MaxQueueMemory
    <2>2. CASE elementSize = 64
      BY <1>1, <2>2 DEF MaxQueueMemory
    <2> QED
      BY <2>1, <2>2
  <1>3. MaxQueueMemory \in Nat
    BY DEF MaxQueueMemory
  <1>4. number * elementSize \in 0..MaxQueueMemory /\ 0 \in 0..MaxQueueMemory
    BY <1>2, <1>3
  <1>5. CASE Load(bits, Dw11.create_iosq.contig) = {}
    <2>1. QueueMemory(bits, elementSize, pointer, dir) =
              Send({"PRP1_LIST"}, pointer, number * elementSize, dir)
      BY <1>5 DEF QueueMemory, number
    <2> QED
      BY <1>4, <2>1 DEF EnvelopeOK, Send
  <1>6. CASE Load(bits, Dw11.create_iosq.contig) # {}
    <2>1. QueueMemory(bits, elementSize, pointer, dir) =
             Send({"PRP1_PAGE"}, FALSE, 0, dir)
      BY <1>6 DEF QueueMemory
    <2> QED
      BY <1>4, <2>1 DEF EnvelopeOK, Send
  <1> QED
    BY <1>5, <1>6

(* So has what every other wrapper sends. *)
LEMMA EnvelopeShape ==
    ASSUME NEW wrapper, NEW pointer \in BOOLEAN, NEW bits
    PROVE  EnvelopeOK(Envelope(wrapper, pointer, bits))
  <1> DEFINE dir == Direction(wrapper)
             envl == Envelope(wrapper, pointer, bits)
  <1>1. dir \in {DATA_DIR_NONE, DATA_DIR_TO_DEVICE, DATA_DIR_FROM_DEVICE}
    BY DEF Direction
  <1>2. wrapper \in {"identify", "get_log_page", "read"} => dir # DATA_DIR_NONE
    BY DEF Direction, AdminFromDevice, IoFromDevice, DATA_DIR_NONE,
           DATA_DIR_FROM_DEVICE
  <1>3. \A size \in {CallerSize, IdentifySize, 0} :
           size = CallerSize \/ size \in 0..MaxQueueMemory
    <2>1. MaxQueueMemory \in Nat /\ 4096 <= MaxQueueMemory
      BY DEF MaxQueueMemory
    <2> QED
      BY <2>1 DEF IdentifySize
  <1> HIDE DEF dir, envl
  <1>4. CASE wrapper = "create_iocq"
    <2>1. envl = QueueMemory(bits, 16, pointer, DATA_DIR_NONE)
      BY <1>4 DEF Envelope, envl, Creations, NVME_IOCQ_ELEMENT_SIZE
    <2>2. EnvelopeOK(QueueMemory(bits, 16, pointer, DATA_DIR_NONE))
      BY QueueMemoryShape
    <2> QED
      BY <2>1, <2>2 DEF envl
  <1>5. CASE wrapper = "create_iosq"
    <2>1. envl = QueueMemory(bits, 64, pointer, DATA_DIR_FROM_DEVICE)
      BY <1>5 DEF Envelope, envl, Creations, NVME_IOSQ_ELEMENT_SIZE
    <2>2. EnvelopeOK(QueueMemory(bits, 64, pointer, DATA_DIR_FROM_DEVICE))
      BY QueueMemoryShape
    <2> QED
      BY <2>1, <2>2 DEF envl
  <1>6. CASE wrapper = "identify"
    <2>1. envl = Send({"PRP1_PAGE"}, pointer, IdentifySize, dir)
      BY <1>6, <1>2 DEF Envelope, envl, dir
    <2> QED
      BY <1>1, <1>3, <2>1 DEF EnvelopeOK, Send, envl
  <1>7. CASE wrapper = "get_log_page"
    <2>1. envl = Send({"PRP1_PAGE"}, FALSE, 0, dir)
      BY <1>7, <1>2 DEF Envelope, envl, dir
    <2> QED
      BY <1>1, <1>3, <2>1 DEF EnvelopeOK, Send, envl
  <1>8. CASE wrapper = "read"
    <2> DEFINE prps == {"PRP1_PAGE", "PRP1_LIST", "PRP2_PAGE", "PRP2_LIST"}
    <2>1. envl = Send(prps, pointer, CallerSize, dir)
      BY <1>8, <1>2 DEF Envelope, envl, dir
    <2>2. prps # {}
      OBVIOUS
    <2> HIDE DEF prps
    <2> QED
      BY <1>1, <1>3, <2>1, <2>2 DEF EnvelopeOK, Send, envl
  <1>9. CASE /\ wrapper \notin {"create_iocq", "create_iosq", "identify",
                              "get_log_page", "read"}
             /\ dir = DATA_DIR_NONE
    <2>1. envl = Send({}, FALSE, 0, DATA_DIR_NONE)
      BY <1>9 DEF Envelope, envl, CommandOnly, dir, Creations
    <2> QED
      BY <1>1, <1>3, <2>1 DEF EnvelopeOK, Send, envl
  <1>10. CASE /\ wrapper \notin {"create_iocq", "create_iosq", "identify",
                              "get_log_page", "read"}
             /\ dir # DATA_DIR_NONE
    <2>1. envl = Send({"PRP1_PAGE"}, pointer, CallerSize, dir)
      BY <1>10 DEF Envelope, envl, dir, Creations
    <2> QED
      BY <1>1, <1>3, <2>1 DEF EnvelopeOK, Send, envl
  <1> QED
    BY <1>4, <1>5, <1>6, <1>7, <1>8, <1>9, <1>10

-----------------------------------------------------------------------------
(* The call.                                                               *)

PrepOf(f, bits) == IF f = "create_iocq" THEN PrepCq(bits) ELSE PrepSq(bits)

Idle ==
    /\ fn = NoFunction
    /\ value = Nothing
    /\ wire = {}
    /\ envelope = CommandOnly
    /\ prepared = Nothing

Calling ==
    /\ fn \in DOMAIN Functions
    /\ IsRequest(fn, value)
    /\ wire = Command(fn, value)
    /\ \E pointer \in BOOLEAN :
          envelope = Envelope(Functions[fn].wrapper, pointer, wire)

Prepared ==
    /\ prepared = Nothing \/ (IsCreation(fn) /\ prepared = PrepOf(fn, wire))
    /\ phase = "prepare" => IsCreation(fn)
    /\ IsCreation(fn) /\ phase \in {"send", "queued"} =>
          prepared = PrepOf(fn, wire)

(* From the first ioctl to the last, the structures on the stack are those *)
(* the parameters make, and a creation past its PREPARE has what it asked  *)
(* for.                                                                    *)
FormatInv ==
    /\ phase \in {"idle", "prepare", "send", "queued", "failed"}
    /\ Idle \/ Calling
    /\ Prepared

(* No function runs in the state between two calls. *)
LEMMA NoFunctionIsNone ==
    NoFunction \notin DOMAIN Functions /\ ~IsCreation(NoFunction)
  BY DEF NoFunction, Functions, IsCreation, Creations

(* The two functions that prepare a queue are functions of the library.  *)
LEMMA CreationsAreFunctions ==
    ASSUME NEW f, IsCreation(f)
    PROVE  f \in {"create_iocq", "create_iosq"} /\ f \in DOMAIN Functions
  BY DEF IsCreation, Creations, Functions

(* A prepared queue differs from no prepared queue. *)
LEMMA PrepareAnswers == \A f, bits : PrepOf(f, bits) # Nothing
  <1> SUFFICES ASSUME NEW f, NEW bits PROVE PrepOf(f, bits) # Nothing
    OBVIOUS
  <1>1. "id" \in DOMAIN PrepOf(f, bits)
    BY DEF PrepOf, PrepCq, PrepSq
  <1>2. "id" \notin DOMAIN Nothing
    BY DEF Nothing
  <1> QED
    BY <1>1, <1>2

(* FormatInv holds before the first call. *)
LEMMA InitInv == FormatInit => FormatInv
  BY NoFunctionIsNone DEF FormatInit, FormatInv, Idle, Prepared

(* Every step of a call preserves FormatInv: assembling the command, the *)
(* preparation of a queue, its failure, the ioctl and the return.        *)
LEMMA NextInv == FormatInv /\ [FormatNext]_formatVars => FormatInv'
  <1> SUFFICES ASSUME FormatInv, [FormatNext]_formatVars PROVE FormatInv'
    OBVIOUS
  <1>1. ASSUME NEW f \in DOMAIN Functions, NEW v \in Calls(f),
               NEW given \in BOOLEAN, Assemble(f, v, given)
        PROVE  FormatInv'
    <2>1. /\ phase' \in {"prepare", "send"}
          /\ phase' = "prepare" <=> IsCreation(f)
      BY <1>1 DEF Assemble
    <2>2. fn' = f /\ value' = v /\ prepared' = Nothing
      BY <1>1 DEF Assemble
    <2>3. Calling'
      <3>1. IsRequest(f, v)
        BY CallsAreRequests
      <3>2. wire' = Command(f, v)
        BY <1>1 DEF Assemble, Command
      <3>3. PICK pointer \in BOOLEAN :
               envelope' = Envelope(Functions[f].wrapper, pointer, wire')
        <4>1. (given /\ Functions[f].buffer # "none") \in BOOLEAN
          OBVIOUS
        <4> QED
          BY <1>1, <4>1, Zenon DEF Assemble
      <3> QED
        BY <2>2, <3>1, <3>2, <3>3 DEF Calling, Command, IsRequest
    <2>4. Prepared'
      BY <2>1, <2>2 DEF Prepared, IsCreation
    <2> QED
      BY <2>1, <2>3, <2>4 DEF FormatInv
  <1>2. CASE PrepareQueue
    <2>1. /\ phase' \in {"send", "failed"}
          /\ UNCHANGED <<fn, value, wire, envelope>>
      BY <1>2 DEF PrepareQueue
    <2>2. IsCreation(fn)
      BY <1>2 DEF PrepareQueue, FormatInv, Prepared
    <2>3. Calling'
      BY <2>1, <2>2, NoFunctionIsNone
      DEF FormatInv, Idle, Calling, IsRequest, Command
    <2>4. Prepared'
      <3>1. CASE phase' = "send"
        <4>1. prepared' = PrepOf(fn, wire)
          BY <1>2, <3>1 DEF PrepareQueue, PrepOf
        <4> QED
          BY <2>1, <2>2, <3>1, <4>1
          DEF Prepared, IsCreation, PrepOf, PrepCq, PrepSq
      <3>2. CASE phase' = "failed"
        <4>1. UNCHANGED prepared
          BY <1>2, <3>2 DEF PrepareQueue
        <4> QED
          BY <2>1, <3>2, <4>1
          DEF FormatInv, Prepared, IsCreation, PrepOf, PrepCq, PrepSq
      <3> QED
        BY <2>1, <3>1, <3>2
    <2> QED
      BY <2>1, <2>3, <2>4 DEF FormatInv
  <1>3. CASE SendCommand
    <2>1. /\ phase = "send" /\ phase' \in {"queued", "failed"}
          /\ UNCHANGED <<fn, value, wire, envelope, prepared>>
      BY <1>3 DEF SendCommand
    <2>2. Idle' \/ Calling'
      BY <2>1 DEF FormatInv, Idle, Calling, IsRequest, Command
    <2>3. Prepared'
      BY <2>1 DEF FormatInv, Prepared, IsCreation, PrepOf, PrepCq, PrepSq
    <2> QED
      BY <2>1, <2>2, <2>3 DEF FormatInv
  <1>4. CASE Leave
    <2>1. phase' = "idle" /\ Idle'
      BY <1>4 DEF Leave, Idle
    <2>2. Prepared'
      BY <2>1, NoFunctionIsNone DEF Prepared, Idle, IsCreation
    <2> QED
      BY <2>1, <2>2 DEF FormatInv
  <1>5. CASE UNCHANGED formatVars
    BY <1>5 DEF FormatInv, Idle, Calling, Prepared, formatVars, IsRequest,
                Command, IsCreation, PrepOf, PrepCq, PrepSq
  <1> QED
    BY <1>1, <1>2, <1>3, <1>4, <1>5 DEF FormatNext

(* The invariant holds in every state of every call. *)
THEOREM FormatInvHolds == FormatSpec => []FormatInv
  BY InitInv, NextInv, PTL DEF FormatSpec

-----------------------------------------------------------------------------
(* The shapes: a command of 64 bytes, a length that is the caller's or at  *)
(* most that of the largest queue, queue parameters of sixteen bits.       *)
THEOREM FormatTypeOKHolds == FormatSpec => []FormatTypeOK
  <1>1. FormatInv => FormatTypeOK
    <2> SUFFICES ASSUME FormatInv PROVE FormatTypeOK
      OBVIOUS
    <2>1. fn \in DOMAIN Functions \cup {NoFunction}
      BY DEF FormatInv, Idle, Calling
    <2>2. wire \subseteq (0..15) \X (0..31)
      <3>1. CASE Idle
        BY <3>1 DEF Idle
      <3>2. CASE Calling
        BY <3>2, Layouts, CommandShape DEF Calling, Command
      <3> QED
        BY <3>1, <3>2 DEF FormatInv
    <2>3. EnvelopeOK(envelope)
      <3>1. CASE Idle
        <4>1. MaxQueueMemory \in Nat
          BY DEF MaxQueueMemory
        <4> QED
          BY <3>1, <4>1 DEF Idle, CommandOnly, Send, EnvelopeOK
      <3>2. CASE Calling
        BY <3>2, EnvelopeShape DEF Calling
      <3> QED
        BY <3>1, <3>2 DEF FormatInv
    <2>4. prepared # Nothing =>
             \A a \in DOMAIN prepared : prepared[a] \subseteq 0..15
      <3>1. SUFFICES ASSUME prepared = PrepOf(fn, wire),
                            NEW a \in DOMAIN prepared
                     PROVE  prepared[a] \subseteq 0..15
        BY DEF FormatInv, Prepared
      <3>2. PICK field : /\ field.len \in {1, 16}
                         /\ prepared[a] = Load(wire, field)
        BY <3>1 DEF PrepOf, PrepCq, PrepSq, Dw10, Dw11, Field
      <3>3. Index(field) \subseteq 0..15
        BY <3>2 DEF Index
      <3> QED
        BY <3>2, <3>3 DEF Load
    <2> QED
      BY <2>1, <2>2, <2>3, <2>4 DEF FormatTypeOK, FormatInv, EnvelopeOK
  <1> QED
    BY <1>1, FormatInvHolds, PTL

(* Every parameter of a call can be read back from its command.            *)
THEOREM RequestRecoverableHolds == FormatSpec => []RequestRecoverable
  <1>1. FormatInv => RequestRecoverable
    <2> SUFFICES ASSUME FormatInv, fn # NoFunction,
                        NEW a \in DOMAIN value, <<fn, a>> \notin Dropped
                 PROVE  Recovered(a) = value[a] \cap 0..(UsableWidth(fn, a) - 1)
      BY DEF RequestRecoverable
    <2>1. Calling
      BY DEF FormatInv, Idle
    <2>2. Recovered(a) = Joined(fn, wire, a)
      BY DEF Recovered, Joined, Pieces
    <2>3. Joined(fn, Command(fn, value), a) =
              value[a] \cap 0..(UsableWidth(fn, a) - 1)
      BY <2>1, EveryParameterArrives DEF Calling, IsRequest
    <2> QED
      BY <2>1, <2>2, <2>3 DEF Calling
  <1> QED
    BY <1>1, FormatInvHolds, PTL

(* The named members of the structures of the interface and its unions     *)
(* describe one command.                                                   *)
THEOREM StructMembersAgreeHolds == FormatSpec => []StructMembersAgree
  <1>1. FormatInv => StructMembersAgree
    <2> SUFFICES ASSUME FormatInv, fn # NoFunction, NEW p \in StructPuts
                 PROVE  Load(wire, p.field) = Slice(p, Assigned(fn, value))
      BY DEF StructMembersAgree
    <2>1. Calling
      BY DEF FormatInv, Idle
    <2>2. Reads(p, fn, value)
      BY <2>1, StructsRead DEF Calling
    <2> QED
      BY <2>1, <2>2 DEF Calling, Reads
  <1> QED
    BY <1>1, FormatInvHolds, PTL

(* A creation is queued only with memory prepared under the same id, size  *)
(* and layout.                                                             *)
THEOREM PreparedAsCommandedHolds == FormatSpec => []PreparedAsCommanded
  <1>1. FormatInv => PreparedAsCommanded
    <2> SUFFICES ASSUME FormatInv, IsCreation(fn), phase = "queued"
                 PROVE  /\ prepared # Nothing
                        /\ prepared.id = value[QueueIdArg(fn)]
                        /\ prepared.elements = value["qsize"]
                        /\ prepared.contig = value["contig"] \cap {0}
                        /\ fn = "create_iosq" => prepared.cq_id = value["cq_id"]
      BY DEF PreparedAsCommanded, QueueIdArg
    <2>1. Calling
      BY NoFunctionIsNone DEF FormatInv, Idle
    <2>2. prepared = PrepOf(fn, wire) /\ prepared # Nothing
      BY PrepareAnswers DEF FormatInv, Prepared
    <2>3. /\ prepared.id = Load(wire, Dw10.create_iosq.qid)
          /\ prepared.elements = Load(wire, Dw10.create_iosq.qsize)
          /\ prepared.contig = Load(wire, Dw11.create_iosq.contig)
          /\ fn = "create_iosq" =>
                prepared.cq_id = Load(wire, Dw11.create_iosq.cq_id)
      BY <2>2 DEF PrepOf, PrepCq, PrepSq
    <2>4. fn \in {"create_iocq", "create_iosq"}
      BY CreationsAreFunctions
    <2>5. wire = Command(fn, value) /\ IsRequest(fn, value)
      BY <2>1 DEF Calling
    <2> QED
      BY <2>2, <2>3, <2>4, <2>5, QueueMembers
  <1> QED
    BY <1>1, FormatInvHolds, PTL
=============================================================================
