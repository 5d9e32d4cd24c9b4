---------------------------- MODULE SharedProofs ----------------------------
(***************************************************************************)
(* Proofs about programs that share a queue pair, for every number of      *)
(* programs, commands and slots, and every number of resets.               *)
(* First the ring: the slots between two pointers, and how far a pointer   *)
(* is ahead of head_ptr.  Then the invariant, then the properties, then    *)
(* the refinement of CommandLifecycle.                                     *)
(***************************************************************************)
EXTENDS SharedQueues, FiniteSetTheorems, TLAPS

(* How many slots b is ahead of a.                                         *)
Ahead(a, b) == IF a <= b THEN b - a ELSE b - a + Elements

(* From head on, the pointers come in the order fetch, tail, tailVirt.     *)
RingOrder ==
    /\ head \in Slots /\ fetch \in Slots /\ tail \in Slots /\ tailVirt \in Slots
    /\ Ahead(head, fetch) <= Ahead(head, tail)
    /\ Ahead(head, tail) <= Ahead(head, tailVirt)

(* A slot that is not free is held by a command taken and not reaped.      *)
Occupied ==
    /\ IsFiniteSet(inFlight) /\ IsFiniteSet(cq)
    /\ Ahead(head, fetch) = Cardinality(inFlight) + Cardinality(cq)

AllIssued == UNION {issued[p] : p \in Programs}

(* Every command is in one place.                                          *)
OnePlace ==
    /\ \A i \in Window(fetch, tailVirt) : slot[i] \in AllIssued
    /\ \A i, j \in Window(fetch, tailVirt) : slot[i] = slot[j] => i = j
    /\ inFlight \cup cq \cup reaped \cup lost \subseteq AllIssued
    /\ Held(fetch, tailVirt) \cap (inFlight \cup cq \cup reaped \cup lost) = {}
    /\ inFlight \cap (cq \cup reaped \cup lost) = {}
    /\ cq \cap (reaped \cup lost) = {}
    /\ reaped \cap lost = {}

(* An inquiry's completions are still there until somebody disturbs them.  *)
Counted ==
    \A p \in Programs :
        /\ pc[p] = "reap_io" /\ inquiryOk[p] /\ ~disturbed[p] =>
              \E n \in Nat : /\ n <= Cardinality(cq)
                             /\ remaining[p] = Uint16(n)
                             /\ size[p] = Uint16(remaining[p] * EntrySize)

SharedInv ==
    /\ SharedTypeOK
    /\ RingOrder
    /\ Occupied
    /\ OnePlace
    /\ OwnCommandsShown
    /\ Counted
    /\ ShortReapMeansInterference

-----------------------------------------------------------------------------
(* Bringing a pointer back to the ring.                                    *)
LEMMA AfterFacts ==
    ASSUME NEW i \in Slots, NEW k \in 0..Elements
    PROVE  /\ After(i, k) = IF i + k < Elements THEN i + k ELSE i + k - Elements
           /\ After(i, k) \in Slots
  BY SharedAssumption DEF After, Slots

(* A ring has at least two slots, and 0 is one of them. *)
LEMMA ElementsFacts == Elements \in Nat /\ Elements > 1 /\ 0 \in Slots
  BY SharedAssumption DEF Slots

(* One slot more at the end of a window.                                   *)
LEMMA WindowGrows ==
    ASSUME NEW a \in Slots, NEW b \in Slots, After(b, 1) # a
    PROVE  /\ Window(a, After(b, 1)) = Window(a, b) \cup {b}
           /\ b \notin Window(a, b)
           /\ Ahead(a, After(b, 1)) = Ahead(a, b) + 1
  <1>1. After(b, 1) = IF b + 1 < Elements THEN b + 1 ELSE b + 1 - Elements
    BY AfterFacts, ElementsFacts
  <1>2. /\ b \notin Window(a, b)
        /\ Ahead(a, After(b, 1)) = Ahead(a, b) + 1
    BY <1>1, ElementsFacts DEF Window, Slots, Ahead
  <1>3. Window(a, After(b, 1)) = Window(a, b) \cup {b}
    <2>1. CASE b + 1 < Elements
      BY <1>1, <2>1, ElementsFacts DEF Window, Slots
    <2>2. CASE b = Elements - 1
      BY <1>1, <2>2, ElementsFacts DEF Window, Slots
    <2> QED
      BY <2>1, <2>2, ElementsFacts DEF Slots
  <1> QED
    BY <1>2, <1>3

(* One slot less at its beginning.                                         *)
LEMMA WindowShrinks ==
    ASSUME NEW a \in Slots, NEW b \in Slots, a # b
    PROVE  /\ Window(a, b) = Window(After(a, 1), b) \cup {a}
           /\ a \notin Window(After(a, 1), b)
  <1>1. After(a, 1) = IF a + 1 < Elements THEN a + 1 ELSE a + 1 - Elements
    BY AfterFacts, ElementsFacts
  <1>2. CASE a + 1 < Elements
    BY <1>1, <1>2, ElementsFacts DEF Window, Slots
  <1>3. CASE a = Elements - 1
    BY <1>1, <1>3, ElementsFacts DEF Window, Slots
  <1> QED
    BY <1>2, <1>3, ElementsFacts DEF Slots

(* What lies between two pointers of the ring is in the ring. *)
LEMMA WindowFacts ==
    ASSUME NEW a \in Slots, NEW b \in Slots
    PROVE  /\ Window(a, a) = {}
           /\ Window(a, b) \subseteq Slots
           /\ Ahead(a, a) = 0 /\ Ahead(a, b) \in 0..(Elements - 1)
  BY ElementsFacts DEF Window, Slots, Ahead

(* Two windows that follow each other make one.                            *)
LEMMA WindowSplits ==
    ASSUME NEW h \in Slots, NEW a \in Slots, NEW b \in Slots, NEW c \in Slots,
           Ahead(h, a) <= Ahead(h, b), Ahead(h, b) <= Ahead(h, c)
    PROVE  /\ Window(a, c) = Window(a, b) \cup Window(b, c)
           /\ Window(a, b) \cap Window(b, c) = {}
  <1>1. CASE a <= b /\ b <= c
    BY <1>1, ElementsFacts DEF Window, Slots, Ahead
  <1>2. CASE a <= b /\ c < b
    BY <1>2, ElementsFacts DEF Window, Slots, Ahead
  <1>3. CASE b < a /\ b <= c
    BY <1>3, ElementsFacts DEF Window, Slots, Ahead
  <1>4. CASE b < a /\ c < b
    BY <1>4, ElementsFacts DEF Window, Slots, Ahead
  <1> QED
    BY <1>1, <1>2, <1>3, <1>4 DEF Slots

-----------------------------------------------------------------------------
(* What the ring and the sets of commands satisfy.                         *)
RingInv == SharedTypeOK /\ RingOrder /\ Occupied /\ OnePlace

placeVars == <<head, tail, tailVirt, fetch, slot, issued, inFlight, cq, reaped,
               lost>>

(* A step that leaves the ring alone keeps the order of its pointers. *)
LEMMA RingStutter ==
    ASSUME RingOrder, Occupied, OnePlace, UNCHANGED placeVars
    PROVE  RingOrder' /\ Occupied' /\ OnePlace'
  <1>1. /\ head' = head /\ tail' = tail /\ tailVirt' = tailVirt
        /\ fetch' = fetch /\ slot' = slot /\ issued' = issued
        /\ inFlight' = inFlight /\ cq' = cq /\ reaped' = reaped /\ lost' = lost
    BY DEF placeVars
  <1>2. RingOrder'
    BY <1>1 DEF RingOrder, Ahead
  <1>3. Occupied'
    BY <1>1 DEF Occupied, Ahead
  <1>4. OnePlace'
    BY <1>1 DEF OnePlace, AllIssued, Held, Window
  <1> QED
    BY <1>2, <1>3, <1>4

(* A free slot at the end of the ring is in none of its windows.           *)
LEMMA FreeSlot ==
    ASSUME RingOrder, ~Full, NEW b \in {head, fetch, tail}
    PROVE  After(tailVirt, 1) # b
  <1>1. Ahead(head, After(tailVirt, 1)) = Ahead(head, tailVirt) + 1
    BY WindowGrows DEF RingOrder, Full
  <1>2. /\ Ahead(head, b) \in Nat /\ Ahead(head, tailVirt) \in Nat
        /\ Ahead(head, b) <= Ahead(head, tailVirt)
    <2>1. /\ Ahead(head, head) = 0 /\ Ahead(head, fetch) \in Nat
          /\ Ahead(head, tail) \in Nat /\ Ahead(head, tailVirt) \in Nat
      BY WindowFacts DEF RingOrder
    <2> QED
      BY <2>1 DEF RingOrder
  <1> QED
    BY <1>1, <1>2

(* A command copied to a ring that is not full is the last one in it. *)
LEMMA QueueRing ==
    ASSUME RingInv, ~Full, NEW p \in Programs, NEW c \in Unissued, Queue(p, c)
    PROVE  /\ RingOrder' /\ Occupied' /\ OnePlace'
           /\ Queued' = Queued \cup {c}
           /\ Visible' = Visible
  <1>1. /\ slot' = [slot EXCEPT ![tailVirt] = c]
        /\ tailVirt' = After(tailVirt, 1)
        /\ issued' = [issued EXCEPT ![p] = @ \cup {c}]
        /\ head' = head /\ tail' = tail /\ fetch' = fetch
        /\ inFlight' = inFlight /\ cq' = cq /\ reaped' = reaped /\ lost' = lost
    BY DEF Queue, controllerVars
  <1>2. /\ head \in Slots /\ fetch \in Slots /\ tail \in Slots /\ tailVirt \in Slots
        /\ c \in Commands /\ c \notin AllIssued
        /\ slot \in [Slots -> Commands \cup {NoCommand}]
        /\ issued \in [Programs -> SUBSET Commands]
    BY DEF RingInv, SharedTypeOK, Unissued, AllIssued
  <1>3. /\ After(tailVirt, 1) \in Slots
        /\ After(tailVirt, 1) # head /\ After(tailVirt, 1) # fetch
        /\ After(tailVirt, 1) # tail
    BY <1>2, FreeSlot, AfterFacts, ElementsFacts DEF RingInv
  <1>4. /\ Window(fetch, tailVirt') = Window(fetch, tailVirt) \cup {tailVirt}
        /\ tailVirt \notin Window(fetch, tailVirt)
        /\ Window(tail, tailVirt') = Window(tail, tailVirt) \cup {tailVirt}
        /\ tailVirt \notin Window(tail, tailVirt)
        /\ Ahead(head, tailVirt') = Ahead(head, tailVirt) + 1
    BY <1>1, <1>2, <1>3, WindowGrows
  <1>5. /\ Window(fetch, tailVirt) \subseteq Slots
        /\ Window(tail, tailVirt) \subseteq Slots
        /\ Window(fetch, tail) \subseteq Slots
        /\ Ahead(head, tailVirt) \in Nat /\ Ahead(head, tail) \in Nat
    BY <1>2, WindowFacts
  <1>6. RingOrder'
    <2>1. Ahead(head, tail) <= Ahead(head, tailVirt')
      BY <1>4, <1>5 DEF RingInv, RingOrder
    <2> QED
      BY <1>1, <1>2, <1>3, <2>1 DEF RingInv, RingOrder, Ahead
  <1>7. Occupied'
    BY <1>1 DEF RingInv, Occupied, Ahead
  <1>8. AllIssued' = AllIssued \cup {c}
    BY <1>1, <1>2 DEF AllIssued
  <1>9. /\ slot'[tailVirt] = c
        /\ \A i \in Slots \ {tailVirt} : slot'[i] = slot[i]
    BY <1>1, <1>2
  <1>10. \A i \in Window(fetch, tailVirt) : slot'[i] = slot[i]
    BY <1>4, <1>5, <1>9
  <1>11. Held(fetch, tailVirt)' = Held(fetch, tailVirt) \cup {c}
    BY <1>1, <1>4, <1>9, <1>10 DEF Held, Window
  <1>12. OnePlace'
    <2>1. \A i \in Window(fetch, tailVirt') : slot'[i] \in AllIssued'
      BY <1>4, <1>8, <1>9, <1>10 DEF RingInv, OnePlace
    <2>2. \A i, j \in Window(fetch, tailVirt') : slot'[i] = slot'[j] => i = j
      BY <1>2, <1>4, <1>9, <1>10 DEF RingInv, OnePlace
    <2>3. c \notin inFlight \cup cq \cup reaped \cup lost
      BY <1>2 DEF RingInv, OnePlace
    <2>4. Held(fetch, tailVirt)' \cap (inFlight \cup cq \cup reaped \cup lost) = {}
      BY <1>11, <2>3 DEF RingInv, OnePlace
    <2> QED
      BY <1>1, <1>8, <2>1, <2>2, <2>4 DEF RingInv, OnePlace, Window
  <1>13. Queued' = Queued \cup {c}
    <2>1. \A i \in Window(tail, tailVirt) : slot'[i] = slot[i]
      BY <1>4, <1>5, <1>9
    <2> QED
      BY <1>1, <1>4, <1>9, <2>1 DEF Queued, Held, Window
  <1>14. Visible' = Visible
    <2>1. tailVirt \notin Window(fetch, tail)
      <3>1. Window(fetch, tail) \subseteq Window(fetch, tailVirt)
        BY <1>2, WindowSplits DEF RingInv, RingOrder
      <3> QED
        BY <1>4, <3>1
    <2>2. \A i \in Window(fetch, tail) : slot'[i] = slot[i]
      BY <1>5, <1>9, <2>1
    <2> QED
      BY <1>1, <2>2 DEF Visible, Held, Window
  <1> QED
    BY <1>6, <1>7, <1>12, <1>13, <1>14

(* The doorbell was rung: the controller sees all there is. *)
Shows ==
    /\ tail' = tailVirt
    /\ UNCHANGED <<head, tailVirt, fetch, slot, issued, inFlight, cq, reaped,
                   lost>>

(* The doorbell empties the queue into what is visible.                    *)
LEMMA RingRing ==
    ASSUME RingInv, Shows
    PROVE  /\ RingOrder' /\ Occupied' /\ OnePlace'
           /\ Queued' = {} /\ Visible' = Visible \cup Queued
  <1>1. /\ head' = head /\ tailVirt' = tailVirt /\ fetch' = fetch
        /\ slot' = slot /\ issued' = issued /\ inFlight' = inFlight
        /\ cq' = cq /\ reaped' = reaped /\ lost' = lost /\ tail' = tailVirt
    BY DEF Shows
  <1>2. head \in Slots /\ fetch \in Slots /\ tail \in Slots /\ tailVirt \in Slots
    BY DEF RingInv, RingOrder
  <1>3. Occupied' /\ OnePlace'
    BY <1>1 DEF RingInv, Occupied, OnePlace, Ahead, AllIssued, Held, Window
  <1>4. /\ Ahead(head, tailVirt) \in Nat /\ Ahead(head, fetch) \in Nat
        /\ Ahead(head, tail) \in Nat
    BY <1>2, WindowFacts
  <1>5. RingOrder'
    BY <1>1, <1>2, <1>4 DEF RingInv, RingOrder, Ahead
  <1>6. Window(tail, tailVirt)' = {}
    BY <1>1, <1>2, WindowFacts DEF Window
  <1>7. Window(fetch, tailVirt) = Window(fetch, tail) \cup Window(tail, tailVirt)
    BY <1>2, WindowSplits DEF RingInv, RingOrder
  <1>8. Queued' = {}
    BY <1>6 DEF Queued, Held
  <1>9. Visible' = Visible \cup Queued
    BY <1>1, <1>7 DEF Visible, Queued, Held, Window
  <1> QED
    BY <1>3, <1>5, <1>8, <1>9

(* The controller takes the oldest command it has been shown.              *)
LEMMA FetchRing ==
    ASSUME RingInv, Fetch
    PROVE  /\ RingOrder' /\ Occupied' /\ OnePlace'
           /\ Queued' = Queued /\ Visible' = Visible
  <1>1. /\ fetch # tail /\ inFlight' = inFlight \cup {slot[fetch]}
        /\ fetch' = After(fetch, 1)
        /\ head' = head /\ tail' = tail /\ tailVirt' = tailVirt
        /\ slot' = slot /\ issued' = issued
        /\ cq' = cq /\ reaped' = reaped /\ lost' = lost
    BY DEF Fetch, Fetchable, ringVars
  <1>2. head \in Slots /\ fetch \in Slots /\ tail \in Slots /\ tailVirt \in Slots
    BY DEF RingInv, RingOrder
  <1>3. /\ Ahead(head, fetch) \in 0..(Elements - 1)
        /\ Ahead(head, tail) \in 0..(Elements - 1)
        /\ Ahead(head, tailVirt) \in 0..(Elements - 1)
    BY <1>2, WindowFacts
  <1>4. Ahead(head, fetch) < Ahead(head, tail)
    BY <1>1, <1>2, <1>3, ElementsFacts DEF RingInv, RingOrder, Ahead, Slots
  <1>5. /\ fetch' = IF fetch + 1 < Elements THEN fetch + 1 ELSE fetch + 1 - Elements
        /\ fetch' \in Slots
    BY <1>1, <1>2, AfterFacts, ElementsFacts
  <1>6. Ahead(head, fetch') = Ahead(head, fetch) + 1
    BY <1>2, <1>3, <1>4, <1>5, ElementsFacts DEF Ahead, Slots
  <1>7. fetch # tailVirt
    BY <1>3, <1>4 DEF RingInv, RingOrder
  <1>8. /\ Window(fetch, tail) = Window(fetch', tail) \cup {fetch}
        /\ Window(fetch, tailVirt) = Window(fetch', tailVirt) \cup {fetch}
        /\ fetch \notin Window(fetch', tailVirt)
    BY <1>1, <1>2, <1>7, WindowShrinks
  <1>9. RingOrder'
    <2>1. Ahead(head, fetch') <= Ahead(head, tail)
      BY <1>3, <1>4, <1>6
    <2> QED
      BY <1>1, <1>2, <1>5, <2>1 DEF RingInv, RingOrder, Ahead
  <1>10. /\ slot[fetch] \notin inFlight \cup cq \cup reaped \cup lost
         /\ slot[fetch] \in AllIssued
    BY <1>8 DEF RingInv, OnePlace, Held
  <1>11. Occupied'
    <2>1. /\ IsFiniteSet(inFlight')
          /\ Cardinality(inFlight') = Cardinality(inFlight) + 1
      BY <1>1, <1>10, FS_AddElement DEF RingInv, Occupied
    <2>2. Cardinality(inFlight) \in Nat /\ Cardinality(cq) \in Nat
      BY FS_CardinalityType DEF RingInv, Occupied
    <2>3. Ahead(head, fetch') = Cardinality(inFlight') + Cardinality(cq)
      BY <1>3, <1>6, <2>1, <2>2 DEF RingInv, Occupied
    <2> QED
      BY <1>1, <2>1, <2>3 DEF RingInv, Occupied, Ahead
  <1>12. OnePlace'
    <2>1. AllIssued' = AllIssued
      BY <1>1 DEF AllIssued
    <2>2. \A i \in Window(fetch', tailVirt) : slot[i] # slot[fetch]
      BY <1>8 DEF RingInv, OnePlace
    <2>3. /\ Held(fetch, tailVirt)' \subseteq Held(fetch, tailVirt)
          /\ slot[fetch] \notin Held(fetch, tailVirt)'
      BY <1>1, <1>8, <2>2 DEF Held, Window
    <2> QED
      BY <1>1, <1>8, <1>10, <2>1, <2>3 DEF RingInv, OnePlace, Window
  <1>13. Queued' = Queued
    BY <1>1 DEF Queued, Held, Window
  <1>14. Visible' = Visible
    <2>1. Held(fetch, tail)' = {slot[i] : i \in Window(fetch', tail)}
      BY <1>1 DEF Held, Window
    <2>2. Held(fetch, tail) = Held(fetch, tail)' \cup {slot[fetch]}
      BY <1>8, <2>1 DEF Held
    <2> QED
      BY <1>1, <2>2 DEF Visible
  <1> QED
    BY <1>9, <1>11, <1>12, <1>13, <1>14

(* A completion is where the command was, as far as room goes.             *)
LEMMA CompleteRing ==
    ASSUME RingInv, NEW c \in inFlight,
           inFlight' = inFlight \ {c}, cq' = cq \cup {c},
           UNCHANGED <<ringVars, fetch, reaped, lost>>
    PROVE  /\ RingOrder' /\ Occupied' /\ OnePlace'
           /\ Queued' = Queued /\ Visible' = Visible \ {c}
           /\ Cardinality(cq') = Cardinality(cq) + 1
  <1>1. /\ head' = head /\ tail' = tail /\ tailVirt' = tailVirt
        /\ fetch' = fetch /\ slot' = slot /\ issued' = issued
        /\ reaped' = reaped /\ lost' = lost
    BY DEF ringVars
  <1>2. RingOrder'
    BY <1>1 DEF RingInv, RingOrder, Ahead
  <1>3. c \notin cq
    BY DEF RingInv, OnePlace
  <1>4. /\ IsFiniteSet(inFlight') /\ IsFiniteSet(cq')
        /\ Cardinality(inFlight') = Cardinality(inFlight) - 1
        /\ Cardinality(cq') = Cardinality(cq) + 1
    BY <1>3, FS_AddElement, FS_RemoveElement DEF RingInv, Occupied
  <1>5. Occupied'
    <2>1. Cardinality(inFlight) \in Nat /\ Cardinality(cq) \in Nat
      BY FS_CardinalityType DEF RingInv, Occupied
    <2>2. Ahead(head, fetch) = Cardinality(inFlight') + Cardinality(cq')
      BY <1>4, <2>1 DEF RingInv, Occupied
    <2> QED
      BY <1>1, <1>4, <2>2 DEF Occupied, Ahead
  <1>6. Held(fetch, tailVirt)' = Held(fetch, tailVirt)
    BY <1>1 DEF Held, Window
  <1>7. OnePlace'
    BY <1>1, <1>6 DEF RingInv, OnePlace, AllIssued, Window
  <1>8. Queued' = Queued
    BY <1>1 DEF Queued, Held, Window
  <1>9. c \notin Held(fetch, tail)
    <2>1. Window(fetch, tail) \subseteq Window(fetch, tailVirt)
      BY WindowSplits DEF RingInv, RingOrder
    <2> QED
      BY <2>1 DEF RingInv, OnePlace, Held
  <1>10. Held(fetch, tail)' = Held(fetch, tail)
    BY <1>1 DEF Held, Window
  <1>11. Visible' = Visible \ {c}
    BY <1>9, <1>10 DEF Visible
  <1> QED
    BY <1>2, <1>4, <1>5, <1>7, <1>8, <1>11

(* As many of the oldest slots are free again as completions are reaped.   *)
LEMMA ReapRing ==
    ASSUME RingInv, NEW S \in SUBSET cq,
           cq' = cq \ S, reaped' = reaped \cup S,
           head' = After(head, Cardinality(S)),
           UNCHANGED <<tail, tailVirt, fetch, slot, issued, inFlight, lost>>
    PROVE  /\ RingOrder' /\ Occupied' /\ OnePlace'
           /\ Queued' = Queued /\ Visible' = Visible
  <1> DEFINE k == Cardinality(S)
  <1>1. /\ tail' = tail /\ tailVirt' = tailVirt
        /\ fetch' = fetch /\ slot' = slot /\ issued' = issued
        /\ inFlight' = inFlight /\ lost' = lost
    OBVIOUS
  <1>2. /\ head \in Slots /\ fetch \in Slots /\ tail \in Slots /\ tailVirt \in Slots
        /\ Ahead(head, fetch) <= Ahead(head, tail)
        /\ Ahead(head, tail) <= Ahead(head, tailVirt)
    BY DEF RingInv, RingOrder
  <1>3. /\ Ahead(head, fetch) \in 0..(Elements - 1)
        /\ Ahead(head, tail) \in 0..(Elements - 1)
        /\ Ahead(head, tailVirt) \in 0..(Elements - 1)
    BY <1>2, WindowFacts
  <1>4. /\ k \in Nat /\ k <= Cardinality(cq)
        /\ IsFiniteSet(cq') /\ Cardinality(cq') = Cardinality(cq) - k
        /\ Cardinality(inFlight) \in Nat /\ Cardinality(cq) \in Nat
    <2>1. IsFiniteSet(cq) /\ IsFiniteSet(inFlight)
      BY DEF RingInv, Occupied
    <2>2. IsFiniteSet(S) /\ Cardinality(S) <= Cardinality(cq) /\ cq \cap S = S
      BY <2>1, FS_Subset
    <2>3. IsFiniteSet(cq \ S) /\ Cardinality(cq \ S) = Cardinality(cq) - Cardinality(S)
      BY <2>1, <2>2, FS_Difference
    <2> QED
      BY <2>1, <2>2, <2>3, FS_CardinalityType
  <1>5. Ahead(head, fetch) = Cardinality(inFlight) + Cardinality(cq)
    BY DEF RingInv, Occupied
  <1>6. head' = After(head, k)
    OBVIOUS
  <1> HIDE DEF k
  <1>7. k <= Ahead(head, fetch) /\ k \in 0..Elements
    BY <1>3, <1>4, <1>5, ElementsFacts
  <1>8. /\ head' = IF head + k < Elements THEN head + k ELSE head + k - Elements
        /\ head' \in Slots
    BY <1>2, <1>6, <1>7, AfterFacts
  <1>9. ASSUME NEW b \in Slots, k <= Ahead(head, b)
        PROVE  Ahead(head', b) = Ahead(head, b) - k
    BY <1>2, <1>4, <1>7, <1>8, <1>9, ElementsFacts DEF Ahead, Slots
  <1>10. /\ Ahead(head', fetch) = Ahead(head, fetch) - k
         /\ Ahead(head', tail) = Ahead(head, tail) - k
         /\ Ahead(head', tailVirt) = Ahead(head, tailVirt) - k
    BY <1>2, <1>3, <1>4, <1>7, <1>9
  <1>11. RingOrder'
    <2>1. /\ Ahead(head', fetch) <= Ahead(head', tail)
          /\ Ahead(head', tail) <= Ahead(head', tailVirt)
      BY <1>2, <1>3, <1>4, <1>10
    <2> QED
      BY <1>1, <1>2, <1>8, <2>1 DEF RingOrder, Ahead
  <1>12. Occupied'
    <2>1. Ahead(head', fetch) = Cardinality(inFlight) + Cardinality(cq')
      BY <1>4, <1>5, <1>10
    <2> QED
      BY <1>1, <1>4, <2>1 DEF RingInv, Occupied, Ahead
  <1>13. Held(fetch, tailVirt)' = Held(fetch, tailVirt)
    BY <1>1 DEF Held, Window
  <1>14. OnePlace'
    BY <1>1, <1>13 DEF RingInv, OnePlace, AllIssued, Window
  <1>15. Queued' = Queued /\ Visible' = Visible
    BY <1>1 DEF Queued, Visible, Held, Window
  <1> QED
    BY <1>11, <1>12, <1>14, <1>15

(* A reset leaves an empty ring.                                           *)
LEMMA ResetRing ==
    ASSUME RingInv, Reset
    PROVE  /\ RingOrder' /\ Occupied' /\ OnePlace'
           /\ Queued' = {} /\ Visible' = {}
           /\ lost' = lost \cup cq \cup Queued \cup Visible
  <1>1. /\ head' = 0 /\ tail' = 0 /\ tailVirt' = 0 /\ fetch' = 0
        /\ lost' = lost \cup inFlight \cup cq \cup Held(fetch, tailVirt)
        /\ inFlight' = {} /\ cq' = {} /\ issued' = issued /\ reaped' = reaped
    BY DEF Reset
  <1>2. Window(0, 0) = {} /\ Ahead(0, 0) = 0
    BY WindowFacts, ElementsFacts
  <1>3. RingOrder'
    BY <1>1, <1>2, ElementsFacts DEF RingOrder, Ahead
  <1>4. Occupied'
    BY <1>1, <1>2, FS_EmptySet DEF Occupied, Ahead
  <1>5. Window(fetch, tailVirt)' = {} /\ Window(tail, tailVirt)' = {}
        /\ Window(fetch, tail)' = {}
    BY <1>1, <1>2 DEF Window
  <1>6. Held(fetch, tailVirt) \subseteq AllIssued
    BY DEF RingInv, OnePlace, Held
  <1>7. OnePlace'
    BY <1>1, <1>5, <1>6 DEF RingInv, OnePlace, Held, AllIssued
  <1>8. Queued' = {} /\ Visible' = {}
    BY <1>1, <1>5 DEF Queued, Visible, Held
  <1>9. Window(fetch, tailVirt) = Window(fetch, tail) \cup Window(tail, tailVirt)
    BY WindowSplits DEF RingInv, RingOrder
  <1>10. lost' = lost \cup cq \cup Queued \cup Visible
    BY <1>1, <1>9 DEF Queued, Visible, Held
  <1> QED
    BY <1>3, <1>4, <1>7, <1>8, <1>10

-----------------------------------------------------------------------------
(* What a cut to sixteen bits leaves. *)
LEMMA Uint16Facts ==
    ASSUME NEW n \in Int
    PROVE  Uint16(n) \in Nat /\ Uint16(n) < 65536
  BY DEF Uint16

(* A count and a size cut to sixteen bits still fit each other, and the    *)
(* count is no larger than what it was cut from.                           *)
LEMMA SizeFacts ==
    ASSUME NEW n \in Nat
    PROVE  LET r == Uint16(n)
               z == Uint16(r * EntrySize)
           IN  /\ r <= n
               /\ z \div EntrySize \in Nat
               /\ z \div EntrySize <= r
               /\ (z \div EntrySize) * EntrySize = z
  BY DEF Uint16, EntrySize

Waiting == {"inquire_io", "reap_io", "show_io"}

Pcs == {"ended", "disable", "enable", "prepare_iocq", "send_iocq",
        "prepare_iosq", "send_iosq", "ring", "read", "ring_io"} \cup Waiting

(* What a step may do: it moves one program and leaves the queues and its  *)
(* variables alone, ends one program, resets the controller, queues a      *)
(* read, rings, counts or reaps.                                           *)
Moves(p) ==
    /\ \E to \in Pcs \ Waiting : pc' = [pc EXCEPT ![p] = to]
    /\ UNCHANGED <<localVars, placeVars>>

Ends(p) ==
    /\ pc' = [pc EXCEPT ![p] = "ended"]
    /\ Forget(p)

Resets(p) ==
    /\ pc[p] = "disable"
    /\ \E to \in Pcs \ Waiting : pc' = [pc EXCEPT ![p] = to]
    /\ Reset

Reads(p, c) ==
    /\ Goto(p, "read", "ring_io")
    /\ ~Full /\ c \in Unissued /\ Queue(p, c)

Rings(p) ==
    /\ Goto(p, "ring_io", "inquire_io")
    /\ UNCHANGED localVars
    /\ Shows

Reaps(p, S) ==
    /\ Goto(p, "reap_io", "show_io")
    /\ Cardinality(S) = ReapCount(p)
    /\ cq' = cq \ S
    /\ reaped' = reaped \cup S
    /\ head' = After(head, Cardinality(S))
    /\ filled' = [filled EXCEPT ![p] = Cardinality(S)]
    /\ disturbed' = [r \in Programs |->
                        disturbed[r] \/ /\ pc[r] = "reap_io" /\ r # p
                                        /\ S # {}]
    /\ UNCHANGED <<remaining, size, inquiryOk, tail, tailVirt, slot, issued,
                   fetch, inFlight, lost>>

(* Every step of a program, and its death, is one of these. *)
LEMMA ProgramKinds ==
    ASSUME NEW p \in Programs, ProgramStep(p) \/ Kill(p)
    PROVE  \/ Moves(p) \/ Ends(p) \/ Resets(p)
           \/ \E c \in Unissued : Reads(p, c)
           \/ Rings(p) \/ InquireIo(p)
           \/ \E S \in SUBSET cq : Reaps(p, S)
  <1> USE DEF Goto
  <1>a. ASSUME NEW from, Return(p, from)
        PROVE  Ends(p)
    BY <1>a DEF Return, Ends
  <1>b. ASSUME NEW to \in Pcs \ Waiting, pc' = [pc EXCEPT ![p] = to],
               UNCHANGED <<localVars, ringVars, controllerVars>>
        PROVE  Moves(p)
    BY <1>b DEF Moves, ringVars, controllerVars, placeVars
  <1>c. {"disable", "enable", "prepare_iocq", "send_iocq", "prepare_iosq",
         "send_iosq", "ring", "read", "ring_io", "ended"} \subseteq Pcs \ Waiting
    BY DEF Pcs, Waiting
  <1>1. CASE Start(p)
    BY <1>1, <1>b, <1>c DEF Start, Unmoved
  <1>2. CASE Disable(p)
    <2>1. CASE Goto(p, "disable", "enable") /\ Reset
      BY <2>1, <1>c DEF Resets
    <2>2. CASE Goto(p, "disable", "prepare_iocq") /\ Reset
      BY <2>2, <1>c DEF Resets
    <2>3. CASE Goto(p, "disable", "prepare_iocq") /\ Unmoved
      BY <2>3, <1>b, <1>c DEF Unmoved
    <2> QED
      BY <1>2, <2>1, <2>2, <2>3 DEF Disable
  <1>3. CASE Enable(p)
    BY <1>3, <1>a, <1>b, <1>c DEF Enable
  <1>4. ASSUME NEW queue, NEW from, NEW to \in Pcs \ Waiting,
               Prepare(p, queue, from, to)
        PROVE  Moves(p) \/ Ends(p)
    BY <1>4, <1>a, <1>b DEF Prepare
  <1>5. ASSUME NEW queue, NEW from, NEW to \in Pcs \ Waiting,
               SendCreate(p, queue, from, to)
        PROVE  Moves(p) \/ Ends(p)
    BY <1>5, <1>a, <1>b DEF SendCreate
  <1>6. CASE CreateQueues(p)
    BY <1>6, <1>4, <1>5, <1>c DEF CreateQueues
  <1>7. CASE RingAdmin(p)
    BY <1>7, <1>a, <1>b, <1>c DEF RingAdmin
  <1>8. CASE SendRead(p)
    <2>1. CASE Unmoved
      BY <1>8, <2>1, <1>b, <1>c DEF SendRead, Unmoved
    <2>2. ASSUME ~Full, NEW c \in Unissued, Queue(p, c)
          PROVE  Reads(p, c)
      BY <1>8, <2>2 DEF SendRead, Reads
    <2> QED
      BY <1>8, <2>1, <2>2 DEF SendRead
  <1>9. CASE RingIo(p)
    <2>1. CASE Return(p, "ring_io")
      BY <2>1, <1>a
    <2>2. CASE ~Return(p, "ring_io")
      BY <1>9, <2>2 DEF RingIo, Rings, Shows, controllerVars
    <2> QED
      BY <2>1, <2>2
  <1>10. CASE ReapIo(p)
    <2>1. CASE Return(p, "reap_io")
      BY <2>1, <1>a
    <2>2. CASE ~Return(p, "reap_io")
      BY <1>10, <2>2 DEF ReapIo, Reaps
    <2> QED
      BY <2>1, <2>2
  <1>11. CASE ShowIo(p)
    BY <1>11, <1>a DEF ShowIo
  <1>12. CASE Kill(p)
    BY <1>12 DEF Kill, Ends
  <1> QED
    BY <1>1, <1>2, <1>3, <1>6, <1>7, <1>8, <1>9, <1>10, <1>11, <1>12
    DEF ProgramStep

(* The steps of the controller, and no step, leave the programs alone.     *)
LEMMA ControllerFacts ==
    ASSUME ExecuteCreate \/ Fetch \/ Complete \/ UNCHANGED sharedVars
    PROVE  UNCHANGED programVars
  BY DEF ExecuteCreate, Fetch, Complete, sharedVars

(* The controller's creation of a queue moves no command. *)
LEMMA CreateFacts ==
    ASSUME ExecuteCreate \/ UNCHANGED sharedVars
    PROVE  UNCHANGED placeVars
  BY DEF ExecuteCreate, sharedVars, ringVars, controllerVars, placeVars

(* The places and the variables of the programs. *)
ProgramTypeOK ==
    /\ pc \in [Programs -> Pcs]
    /\ remaining \in [Programs -> Nat] /\ size \in [Programs -> Nat]
    /\ \A q \in Programs : remaining[q] < 65536 /\ size[q] < 65536
    /\ inquiryOk \in [Programs -> BOOLEAN]
    /\ filled \in [Programs -> Nat]
    /\ disturbed \in [Programs -> BOOLEAN]

(* A step of one program leaves the places and counts of the others, and   *)
(* may disturb them.                                                       *)
LEMMA OthersStand ==
    ASSUME ProgramTypeOK, NEW p \in Programs, ProgramStep(p) \/ Kill(p),
           NEW q \in Programs, q # p
    PROVE  /\ pc'[q] = pc[q] /\ remaining'[q] = remaining[q]
           /\ size'[q] = size[q] /\ inquiryOk'[q] = inquiryOk[q]
           /\ filled'[q] = filled[q]
           /\ disturbed[q] => disturbed'[q]
  <1> USE DEF ProgramTypeOK, Goto
  <1>1. CASE Moves(p)
    BY <1>1 DEF Moves, localVars
  <1>2. CASE Ends(p)
    BY <1>2 DEF Ends, Forget
  <1>3. CASE Resets(p)
    BY <1>3 DEF Resets, Reset
  <1>4. ASSUME NEW c \in Unissued, Reads(p, c)
        PROVE  /\ pc'[q] = pc[q] /\ UNCHANGED localVars
    BY <1>4 DEF Reads, Queue
  <1>5. CASE Rings(p)
    BY <1>5 DEF Rings, localVars
  <1>6. CASE InquireIo(p)
    BY <1>6 DEF InquireIo, Counts
  <1>7. ASSUME NEW S \in SUBSET cq, Reaps(p, S)
        PROVE  /\ pc'[q] = pc[q] /\ filled'[q] = filled[q]
               /\ disturbed[q] => disturbed'[q]
               /\ UNCHANGED <<remaining, size, inquiryOk>>
    BY <1>7 DEF Reaps
  <1> QED
    BY <1>1, <1>2, <1>3, <1>4, <1>5, <1>6, <1>7, ProgramKinds DEF localVars

(* What an inquiry leaves: sixteen bits of a count, and of its bytes.      *)
LEMMA InquiryTypes ==
    ASSUME RingInv, ProgramTypeOK, NEW p \in Programs, InquireIo(p)
    PROVE  /\ remaining' \in [Programs -> Nat] /\ size' \in [Programs -> Nat]
           /\ \A q \in Programs : remaining'[q] < 65536 /\ size'[q] < 65536
           /\ inquiryOk' \in [Programs -> BOOLEAN]
  <1>1. IsFiniteSet(cq) /\ Cardinality(cq) \in Int
    BY FS_CardinalityType DEF RingInv, Occupied
  <1>2. PICK r \in {Uint16(Cardinality(cq)), InquiryFailure} :
            remaining' = [remaining EXCEPT ![p] = r]
    BY DEF InquireIo, Counts
  <1>3. r \in Nat /\ r < 65536
    BY <1>1, Uint16Facts DEF InquiryFailure
  <1>4. remaining'[p] = r /\ r * EntrySize \in Int
    BY <1>2, <1>3 DEF EntrySize, ProgramTypeOK
  <1>5. Uint16(r * EntrySize) \in Nat /\ Uint16(r * EntrySize) < 65536
    BY <1>4, Uint16Facts
  <1>6. size' = [size EXCEPT ![p] = Uint16(r * EntrySize)]
    BY <1>4 DEF InquireIo
  <1>7. inquiryOk' \in [Programs -> BOOLEAN]
    <2>1. PICK b \in BOOLEAN : inquiryOk' = [inquiryOk EXCEPT ![p] = b]
      BY DEF InquireIo, Counts
    <2> QED
      BY <2>1 DEF ProgramTypeOK
  <1> DEFINE z == Uint16(r * EntrySize)
  <1>8. z \in Nat /\ z < 65536 /\ size' = [size EXCEPT ![p] = z]
    BY <1>5, <1>6
  <1> HIDE DEF z
  <1>9. remaining' \in [Programs -> Nat] /\ size' \in [Programs -> Nat]
    BY <1>2, <1>3, <1>8 DEF ProgramTypeOK
  <1>10. ASSUME NEW q \in Programs
         PROVE  remaining'[q] < 65536 /\ size'[q] < 65536
    BY <1>2, <1>3, <1>8 DEF ProgramTypeOK
  <1> QED
    BY <1>7, <1>9, <1>10

(* What a program's step may do to its own variables.                      *)
LEMMA ProgramTypes ==
    ASSUME RingInv, ProgramTypeOK, NEW p \in Programs, ProgramStep(p) \/ Kill(p)
    PROVE  ProgramTypeOK'
  <1> USE DEF Goto
  <1>0. Waiting \subseteq Pcs /\ "ended" \in Pcs /\ "ring_io" \in Pcs
        /\ "inquire_io" \in Pcs /\ "reap_io" \in Pcs /\ "show_io" \in Pcs
    BY DEF Pcs, Waiting
  <1>1. CASE Moves(p)
    BY <1>1 DEF Moves, localVars, ProgramTypeOK
  <1>2. CASE Ends(p)
    BY <1>0, <1>2 DEF Ends, Forget, ProgramTypeOK
  <1>3. CASE Resets(p)
    <2>1. disturbed' \in [Programs -> BOOLEAN]
      BY <1>3 DEF Resets, Reset, ProgramTypeOK
    <2> QED
      BY <1>3, <2>1 DEF Resets, Reset, ProgramTypeOK
  <1>4. ASSUME NEW c \in Unissued, Reads(p, c)
        PROVE  ProgramTypeOK'
    BY <1>0, <1>4 DEF Reads, Queue, localVars, ProgramTypeOK
  <1>5. CASE Rings(p)
    BY <1>0, <1>5 DEF Rings, localVars, ProgramTypeOK
  <1>6. CASE InquireIo(p)
    <2>1. /\ pc' \in [Programs -> Pcs] /\ filled' \in [Programs -> Nat]
          /\ disturbed' \in [Programs -> BOOLEAN]
      BY <1>0, <1>6 DEF InquireIo, ProgramTypeOK
    <2> QED
      BY <1>6, <2>1, InquiryTypes DEF ProgramTypeOK
  <1>7. ASSUME NEW S \in SUBSET cq, Reaps(p, S)
        PROVE  ProgramTypeOK'
    <2>1. Cardinality(S) \in Nat
      BY FS_Subset, FS_CardinalityType DEF RingInv, Occupied
    <2>2. filled' \in [Programs -> Nat]
      BY <1>7, <2>1 DEF Reaps, ProgramTypeOK
    <2>3. disturbed' \in [Programs -> BOOLEAN]
      BY <1>7 DEF Reaps, ProgramTypeOK
    <2> QED
      BY <1>0, <1>7, <2>2, <2>3 DEF Reaps, ProgramTypeOK
  <1> QED
    BY <1>1, <1>2, <1>3, <1>4, <1>5, <1>6, <1>7, ProgramKinds

(* What the driver and the controller know of the queues. *)
CreationTypeOK ==
    /\ enabled \in BOOLEAN
    /\ memory \subseteq IoQueues /\ sent \subseteq IoQueues
    /\ shown \subseteq IoQueues /\ live \subseteq IoQueues

(* No step names a queue that main() does not have. *)
LEMMA CreationTypes ==
    ASSUME CreationTypeOK, [SharedNext]_sharedVars
    PROVE  CreationTypeOK'
  <1>1. ASSUME UNCHANGED creationVars
        PROVE  CreationTypeOK'
    BY <1>1 DEF creationVars, CreationTypeOK
  <1>2. ASSUME NEW p \in Programs, NEW from, Return(p, from)
        PROVE  UNCHANGED creationVars
    BY <1>2 DEF Return, Forget
  <1>3. ASSUME Reset
        PROVE  CreationTypeOK'
    BY <1>3 DEF Reset, CreationTypeOK
  <1>4. ASSUME NEW p \in Programs, ProgramStep(p) \/ Kill(p)
        PROVE  CreationTypeOK'
    <2>1. CASE Start(p) \/ SendRead(p) \/ InquireIo(p) \/ ShowIo(p) \/ Kill(p)
      <3>1. UNCHANGED creationVars
        BY <2>1, <1>2 DEF Start, SendRead, InquireIo, ShowIo, Kill, Unmoved,
                          Queue, Forget
      <3> QED
        BY <3>1, <1>1
    <2>2. CASE RingIo(p) \/ ReapIo(p)
      <3>1. UNCHANGED creationVars
        BY <2>2, <1>2 DEF RingIo, ReapIo
      <3> QED
        BY <3>1, <1>1
    <2>3. CASE Disable(p)
      BY <2>3, <1>1, <1>3 DEF Disable, Unmoved
    <2>4. CASE Enable(p)
      <3>1. CASE UNCHANGED <<memory, sent, shown, live>> /\ enabled' \in {enabled, TRUE}
        BY <3>1 DEF CreationTypeOK
      <3> QED
        BY <2>4, <3>1, <1>1, <1>2 DEF Enable
    <2>5. ASSUME NEW queue \in IoQueues, NEW from, NEW to,
                 Prepare(p, queue, from, to)
          PROVE  CreationTypeOK'
      <3>1. CASE /\ memory' = memory \cup {queue}
                 /\ UNCHANGED <<enabled, sent, shown, live>>
        BY <3>1 DEF CreationTypeOK
      <3> QED
        BY <2>5, <3>1, <1>1, <1>2 DEF Prepare
    <2>6. ASSUME NEW queue \in IoQueues, NEW from, NEW to,
                 SendCreate(p, queue, from, to)
          PROVE  CreationTypeOK'
      <3>1. CASE /\ sent' = sent \cup ({queue} \cap memory)
                 /\ UNCHANGED <<enabled, memory, shown, live>>
        BY <3>1 DEF CreationTypeOK
      <3> QED
        BY <2>6, <3>1, <1>1, <1>2 DEF SendCreate
    <2>7. CASE CreateQueues(p)
      <3>1. "IOCQ" \in IoQueues /\ "IOSQ" \in IoQueues
        BY DEF IoQueues
      <3> QED
        BY <2>5, <2>6, <2>7, <3>1 DEF CreateQueues
    <2>8. CASE RingAdmin(p)
      <3>1. CASE /\ shown' = shown \cup sent /\ sent' = {}
                 /\ UNCHANGED <<enabled, memory, live>>
        BY <3>1 DEF CreationTypeOK
      <3> QED
        BY <2>8, <3>1, <1>1, <1>2 DEF RingAdmin
    <2> QED
      BY <1>4, <2>1, <2>2, <2>3, <2>4, <2>7, <2>8 DEF ProgramStep
  <1>5. CASE ExecuteCreate
    BY <1>5 DEF ExecuteCreate, CreationTypeOK
  <1>6. CASE Fetch \/ Complete \/ UNCHANGED sharedVars
    BY <1>6, <1>1 DEF Fetch, Complete, sharedVars
  <1> QED
    BY <1>4, <1>5, <1>6 DEF SharedNext

(* The entries of the ring and the sets of commands hold commands only. *)
PlaceTypeOK ==
    /\ issued \in [Programs -> SUBSET Commands]
    /\ slot \in [Slots -> Commands \cup {NoCommand}]
    /\ inFlight \subseteq Commands /\ cq \subseteq Commands
    /\ reaped \subseteq Commands /\ lost \subseteq Commands

(* No step brings anything else there. *)
LEMMA PlaceTypes ==
    ASSUME RingInv, [SharedNext]_sharedVars
    PROVE  PlaceTypeOK'
  <1>0. /\ PlaceTypeOK
        /\ tail \in Slots /\ fetch \in Slots
    BY DEF RingInv, SharedTypeOK, PlaceTypeOK
  <1>1. ASSUME UNCHANGED placeVars
        PROVE  PlaceTypeOK'
    BY <1>0, <1>1 DEF placeVars, PlaceTypeOK
  <1>2. ASSUME Reset
        PROVE  PlaceTypeOK'
    <2>1. Held(fetch, tailVirt) \subseteq Commands
      <3>1. \A i \in Window(fetch, tailVirt) : slot[i] \in Commands
        BY <1>0 DEF RingInv, OnePlace, AllIssued, PlaceTypeOK
      <3> QED
        BY <3>1 DEF Held
    <2>2. /\ issued' = issued /\ inFlight' = {} /\ cq' = {} /\ reaped' = reaped
          /\ lost' = lost \cup inFlight \cup cq \cup Held(fetch, tailVirt)
          /\ slot' = [i \in Slots |-> NoCommand]
      BY <1>2 DEF Reset
    <2>3. slot' \in [Slots -> Commands \cup {NoCommand}]
      BY <2>2
    <2>4. lost' \subseteq Commands
      BY <1>0, <2>1, <2>2 DEF PlaceTypeOK
    <2> QED
      BY <1>0, <2>2, <2>3, <2>4 DEF PlaceTypeOK
  <1>3. ASSUME NEW p \in Programs, ProgramStep(p) \/ Kill(p)
        PROVE  PlaceTypeOK'
    <2>1. CASE Moves(p)
      BY <2>1, <1>1 DEF Moves
    <2>2. CASE Ends(p)
      BY <2>2, <1>1 DEF Ends, Forget, ringVars, controllerVars, placeVars
    <2>3. CASE Resets(p)
      BY <2>3, <1>2 DEF Resets
    <2>4. ASSUME NEW c \in Unissued, Reads(p, c)
          PROVE  PlaceTypeOK'
      BY <1>0, <2>4 DEF Reads, Queue, Unissued, controllerVars, PlaceTypeOK
    <2>5. CASE Rings(p)
      BY <1>0, <2>5 DEF Rings, Shows, PlaceTypeOK
    <2>6. CASE InquireIo(p)
      BY <2>6, <1>1 DEF InquireIo, ringVars, controllerVars, placeVars
    <2>7. ASSUME NEW S \in SUBSET cq, Reaps(p, S)
          PROVE  PlaceTypeOK'
      BY <1>0, <2>7 DEF Reaps, PlaceTypeOK
    <2> QED
      BY <1>3, <2>1, <2>2, <2>3, <2>4, <2>5, <2>6, <2>7, ProgramKinds
  <1>4. CASE Fetch
    <2>1. slot[fetch] \in Commands
      <3>1. Window(fetch, tailVirt) = Window(fetch, tail) \cup Window(tail, tailVirt)
        BY WindowSplits DEF RingInv, RingOrder
      <3>2. fetch \in Window(fetch, tail)
        BY <1>0, <1>4, WindowShrinks DEF Fetch, Fetchable
      <3>3. slot[fetch] \in AllIssued
        BY <3>1, <3>2 DEF RingInv, OnePlace
      <3> QED
        BY <1>0, <3>3 DEF AllIssued, PlaceTypeOK
    <2> QED
      BY <1>0, <1>4, <2>1 DEF Fetch, ringVars, PlaceTypeOK
  <1>5. CASE Complete
    BY <1>0, <1>5 DEF Complete, ringVars, PlaceTypeOK
  <1>6. CASE ExecuteCreate \/ UNCHANGED sharedVars
    BY <1>1, <1>6, CreateFacts
  <1> QED
    BY <1>3, <1>4, <1>5, <1>6 DEF SharedNext

(* Resets are counted up to their bound. *)
LEMMA ResetCount ==
    ASSUME resets \in 0..MaxResets, [SharedNext]_sharedVars
    PROVE  resets' \in 0..MaxResets
  <1>1. ASSUME NEW p \in Programs, NEW from, Return(p, from)
        PROVE  resets' = resets
    BY <1>1 DEF Return, Forget
  <1>2. ASSUME Reset
        PROVE  resets' \in 0..MaxResets
    BY <1>2, SharedAssumption DEF Reset
  <1>3. ASSUME NEW p \in Programs, ProgramStep(p), ~Disable(p)
        PROVE  resets' = resets
    BY <1>1, <1>3 DEF ProgramStep, Start, Enable, CreateQueues, Prepare,
                      SendCreate, RingAdmin, SendRead, RingIo, InquireIo,
                      ReapIo, ShowIo, Queue, Unmoved
  <1>4. ASSUME NEW p \in Programs, Disable(p)
        PROVE  resets' \in 0..MaxResets
    BY <1>2, <1>4 DEF Disable, Unmoved
  <1>5. ASSUME \/ \E p \in Programs : Kill(p)
               \/ ExecuteCreate \/ Fetch \/ Complete \/ UNCHANGED sharedVars
        PROVE  resets' = resets
    BY <1>5 DEF Kill, Forget, ExecuteCreate, Fetch, Complete, sharedVars
  <1> QED
    BY <1>3, <1>4, <1>5 DEF SharedNext

(* The type invariant is these and the pointers that RingOrder keeps. *)
LEMMA TypeParts ==
    SharedTypeOK <=>
        /\ ProgramTypeOK /\ CreationTypeOK /\ PlaceTypeOK
        /\ head \in Slots /\ tail \in Slots /\ tailVirt \in Slots
        /\ fetch \in Slots
        /\ resets \in 0..MaxResets
  <1>1. Pcs = {"ended", "disable", "enable", "prepare_iocq", "send_iocq",
               "prepare_iosq", "send_iosq", "ring", "read", "ring_io",
               "inquire_io", "reap_io", "show_io"}
    BY DEF Pcs, Waiting
  <1> QED
    BY <1>1 DEF SharedTypeOK, ProgramTypeOK, CreationTypeOK, PlaceTypeOK

(* The other variables, whose pointers RingOrder keeps in the ring.        *)
LEMMA SharedTypes ==
    ASSUME RingInv, [SharedNext]_sharedVars, RingOrder'
    PROVE  SharedTypeOK'
  <1>0. ProgramTypeOK /\ CreationTypeOK /\ resets \in 0..MaxResets
    BY TypeParts DEF RingInv
  <1>1. head' \in Slots /\ tail' \in Slots /\ tailVirt' \in Slots /\ fetch' \in Slots
    BY DEF RingOrder
  <1>2. ProgramTypeOK'
    <2>1. ASSUME UNCHANGED programVars
          PROVE  ProgramTypeOK'
      BY <1>0, <2>1 DEF programVars, ProgramTypeOK
    <2> QED
      BY <1>0, <2>1, ProgramTypes, ControllerFacts DEF SharedNext
  <1>3. CreationTypeOK' /\ PlaceTypeOK' /\ resets' \in 0..MaxResets
    BY <1>0, CreationTypes, PlaceTypes, ResetCount
  <1>4. Pcs = {"ended", "disable", "enable", "prepare_iocq", "send_iocq",
               "prepare_iosq", "send_iosq", "ring", "read", "ring_io",
               "inquire_io", "reap_io", "show_io"}
    BY DEF Pcs, Waiting
  <1> QED
    BY <1>1, <1>2, <1>3, <1>4
    DEF SharedTypeOK, ProgramTypeOK, CreationTypeOK, PlaceTypeOK

-----------------------------------------------------------------------------
(* A step leaves the ring in order, and changes what is queued and what is *)
(* visible as a command's life allows.  The six outcomes are also those    *)
(* that the refinement maps to the steps of CommandLifecycle.              *)
SameStages ==
    Queued' = Queued /\ Visible' = Visible /\ UNCHANGED <<cq, reaped, lost>>

SubmitStep(c) ==
    /\ c \in Commands /\ c \notin AllIssued
    /\ Queued' = Queued \cup {c} /\ Visible' = Visible
    /\ UNCHANGED <<cq, reaped, lost>>

DoorbellStep ==
    /\ Queued' = {} /\ Visible' = Visible \cup Queued
    /\ UNCHANGED <<cq, reaped, lost>>

CompleteStep(c) ==
    /\ c \in Commands /\ c \in inFlight
    /\ Queued' = Queued /\ Visible' = Visible \ {c}
    /\ cq' = cq \cup {c} /\ UNCHANGED <<reaped, lost>>

ReapStep(S) ==
    /\ S \in SUBSET cq
    /\ Queued' = Queued /\ Visible' = Visible
    /\ cq' = cq \ S /\ reaped' = reaped \cup S /\ lost' = lost

ResetStep ==
    /\ Queued' = {} /\ Visible' = {} /\ cq' = {} /\ reaped' = reaped
    /\ lost' = lost \cup cq \cup Queued \cup Visible

StageStep ==
    \/ SameStages
    \/ \E c \in Commands : SubmitStep(c) \/ CompleteStep(c)
    \/ DoorbellStep
    \/ \E S \in SUBSET cq : ReapStep(S)
    \/ ResetStep

(* A step that leaves ring and completions alone moves no command. *)
LEMMA PlacesStand ==
    ASSUME UNCHANGED placeVars
    PROVE  SameStages
  BY DEF placeVars, SameStages, Queued, Visible, Held, Window

(* What a step may do to the places of the commands: one of six outcomes. *)
LEMMA RingStep ==
    ASSUME RingInv, [SharedNext]_sharedVars
    PROVE  RingOrder' /\ Occupied' /\ OnePlace' /\ StageStep
  <1>1. ASSUME UNCHANGED placeVars
        PROVE  RingOrder' /\ Occupied' /\ OnePlace' /\ StageStep
    BY <1>1, RingStutter, PlacesStand DEF RingInv, StageStep
  <1>2. ASSUME NEW p \in Programs, Moves(p) \/ Ends(p) \/ InquireIo(p)
        PROVE  UNCHANGED placeVars
    BY <1>2 DEF Moves, Ends, Forget, InquireIo, placeVars, ringVars,
                controllerVars
  <1>3. ASSUME NEW p \in Programs, Resets(p)
        PROVE  RingOrder' /\ Occupied' /\ OnePlace' /\ StageStep
    <2>1. Reset /\ cq' = {} /\ reaped' = reaped
      BY <1>3 DEF Resets, Reset
    <2>2. ResetStep
      BY <2>1, ResetRing DEF ResetStep
    <2> QED
      BY <2>1, <2>2, ResetRing DEF StageStep
  <1>4. ASSUME NEW p \in Programs, NEW c \in Unissued, Reads(p, c)
        PROVE  RingOrder' /\ Occupied' /\ OnePlace' /\ StageStep
    <2>1. ~Full /\ Queue(p, c)
      BY <1>4 DEF Reads
    <2>2. SubmitStep(c)
      BY <2>1, QueueRing DEF SubmitStep, Queue, Unissued, AllIssued,
                             controllerVars
    <2> QED
      BY <2>1, <2>2, QueueRing DEF StageStep, SubmitStep
  <1>5. ASSUME NEW p \in Programs, Rings(p)
        PROVE  RingOrder' /\ Occupied' /\ OnePlace' /\ StageStep
    <2>1. Shows
      BY <1>5 DEF Rings
    <2>2. DoorbellStep
      BY <2>1, RingRing DEF DoorbellStep, Shows
    <2> QED
      BY <2>1, <2>2, RingRing DEF StageStep
  <1>6. ASSUME NEW p \in Programs, NEW S \in SUBSET cq, Reaps(p, S)
        PROVE  RingOrder' /\ Occupied' /\ OnePlace' /\ StageStep
    <2>1. /\ cq' = cq \ S /\ reaped' = reaped \cup S
          /\ head' = After(head, Cardinality(S))
          /\ UNCHANGED <<tail, tailVirt, fetch, slot, issued, inFlight, lost>>
      BY <1>6 DEF Reaps
    <2>2. RingOrder' /\ Occupied' /\ OnePlace' /\ Queued' = Queued /\ Visible' = Visible
      BY <2>1, ReapRing
    <2>3. ReapStep(S)
      BY <2>1, <2>2 DEF ReapStep
    <2> QED
      BY <2>2, <2>3 DEF StageStep
  <1>7. CASE Fetch
    <2>1. SameStages
      BY <1>7, FetchRing DEF SameStages, Fetch
    <2> QED
      BY <1>7, <2>1, FetchRing DEF StageStep
  <1>8. CASE Complete
    <2>1. PICK c \in inFlight : inFlight' = inFlight \ {c} /\ cq' = cq \cup {c}
      BY <1>8 DEF Complete
    <2>2. UNCHANGED <<ringVars, fetch, reaped, lost>>
      BY <1>8 DEF Complete
    <2>3. RingOrder' /\ Occupied' /\ OnePlace'
          /\ Queued' = Queued /\ Visible' = Visible \ {c}
      BY <2>1, <2>2, CompleteRing
    <2>4. CompleteStep(c)
      BY <2>1, <2>2, <2>3 DEF CompleteStep, RingInv, SharedTypeOK
    <2> QED
      BY <2>3, <2>4 DEF StageStep, CompleteStep
  <1>9. CASE ExecuteCreate \/ UNCHANGED sharedVars
    BY <1>1, <1>9, CreateFacts
  <1>10. ASSUME NEW p \in Programs, ProgramStep(p) \/ Kill(p)
         PROVE  RingOrder' /\ Occupied' /\ OnePlace' /\ StageStep
    BY <1>1, <1>2, <1>3, <1>4, <1>5, <1>6, <1>10, ProgramKinds
  <1> QED
    BY <1>7, <1>8, <1>9, <1>10 DEF SharedNext

-----------------------------------------------------------------------------
(* What others queue after a program's doorbell is not the program's.      *)
LEMMA OwnStep ==
    ASSUME RingInv, OwnCommandsShown, [SharedNext]_sharedVars
    PROVE  OwnCommandsShown'
  <1> SUFFICES ASSUME NEW q \in Programs, pc'[q] \in Waiting
               PROVE  issued'[q] \cap Queued' = {}
    BY DEF OwnCommandsShown, Waiting
  <1>0. /\ ProgramTypeOK
        /\ pc[q] \in Waiting => issued[q] \cap Queued = {}
        /\ issued \in [Programs -> SUBSET Commands]
    BY TypeParts DEF RingInv, OwnCommandsShown, Waiting, PlaceTypeOK
  <1>1. ASSUME Queued' = Queued, issued' = issued, pc[q] \in Waiting
        PROVE  issued'[q] \cap Queued' = {}
    BY <1>0, <1>1
  <1>2. ASSUME Queued' = {}
        PROVE  issued'[q] \cap Queued' = {}
    BY <1>2
  <1>3. ASSUME UNCHANGED placeVars
        PROVE  Queued' = Queued /\ issued' = issued
    BY <1>3 DEF placeVars, Queued, Held, Window
  <1>4. ASSUME NEW p \in Programs, ProgramStep(p) \/ Kill(p)
        PROVE  issued'[q] \cap Queued' = {}
    <2>a. q # p => pc[q] \in Waiting
      BY <1>0, <1>4, OthersStand
    <2>1. CASE Moves(p) \/ Ends(p)
      <3>1. UNCHANGED placeVars
        BY <2>1 DEF Moves, Ends, Forget, ringVars, controllerVars, placeVars
      <3>2. q # p
        BY <1>0, <2>1 DEF Moves, Ends, Waiting, ProgramTypeOK
      <3> QED
        BY <1>1, <1>3, <2>a, <3>1, <3>2
    <2>2. CASE Resets(p)
      BY <1>2, <2>2, ResetRing DEF Resets
    <2>3. ASSUME NEW c \in Unissued, Reads(p, c)
          PROVE  issued'[q] \cap Queued' = {}
      <3>1. ~Full /\ Queue(p, c)
        BY <2>3 DEF Reads
      <3>2. q # p
        BY <1>0, <2>3 DEF Reads, Goto, Waiting, ProgramTypeOK
      <3>3. Queued' = Queued \cup {c} /\ issued'[q] = issued[q]
        BY <1>0, <3>1, <3>2, QueueRing DEF Queue
      <3>4. c \notin issued[q]
        BY DEF Unissued
      <3> QED
        BY <1>0, <2>a, <3>2, <3>3, <3>4
    <2>4. CASE Rings(p)
      BY <1>2, <2>4, RingRing DEF Rings
    <2>5. CASE InquireIo(p)
      <3>1. UNCHANGED placeVars
        BY <2>5 DEF InquireIo, ringVars, controllerVars, placeVars
      <3>2. pc[q] \in Waiting
        BY <2>a, <2>5 DEF InquireIo, Goto, Waiting
      <3> QED
        BY <1>1, <1>3, <3>1, <3>2
    <2>6. ASSUME NEW S \in SUBSET cq, Reaps(p, S)
          PROVE  issued'[q] \cap Queued' = {}
      <3>1. Queued' = Queued /\ issued' = issued
        BY <2>6 DEF Reaps, Queued, Held, Window
      <3>2. pc[q] \in Waiting
        BY <2>a, <2>6 DEF Reaps, Goto, Waiting
      <3> QED
        BY <1>1, <3>1, <3>2
    <2> QED
      BY <1>4, <2>1, <2>2, <2>3, <2>4, <2>5, <2>6, ProgramKinds
  <1>5. CASE ExecuteCreate \/ Fetch \/ Complete \/ UNCHANGED sharedVars
    <2>1. pc' = pc
      BY <1>5, ControllerFacts DEF programVars
    <2>2. Queued' = Queued /\ issued' = issued
      BY <1>5 DEF ExecuteCreate, Fetch, Complete, sharedVars, ringVars, Queued,
                  Held, Window
    <2> QED
      BY <1>1, <2>1, <2>2
  <1> QED
    BY <1>4, <1>5 DEF SharedNext

-----------------------------------------------------------------------------
(* The inquiry of p still holds.                                           *)
StillCounted(p) ==
    \E n \in Nat : /\ n <= Cardinality(cq)
                   /\ remaining[p] = Uint16(n)
                   /\ size[p] = Uint16(remaining[p] * EntrySize)

(* A program's own variables, and whether it is disturbed, stand; the      *)
(* completions that wait do not become fewer.                              *)
LEMMA CountedStands ==
    ASSUME RingInv, NEW q \in Programs, StillCounted(q),
           remaining'[q] = remaining[q], size'[q] = size[q],
           Cardinality(cq') \in Nat, Cardinality(cq) <= Cardinality(cq')
    PROVE  StillCounted(q)'
  <1>1. PICK n \in Nat : /\ n <= Cardinality(cq)
                         /\ remaining[q] = Uint16(n)
                         /\ size[q] = Uint16(remaining[q] * EntrySize)
    BY DEF StillCounted
  <1>2. Cardinality(cq) \in Nat
    BY FS_CardinalityType DEF RingInv, Occupied
  <1>3. n <= Cardinality(cq')
    BY <1>1, <1>2
  <1>4. remaining'[q] = Uint16(n) /\ size'[q] = Uint16(remaining'[q] * EntrySize)
    BY <1>1
  <1> QED
    BY <1>3, <1>4 DEF StillCounted

(* Every step keeps the completions of an undisturbed inquiry waiting. *)
LEMMA CountedStep ==
    ASSUME RingInv, Counted, [SharedNext]_sharedVars
    PROVE  Counted'
  <1> SUFFICES ASSUME NEW q \in Programs,
                      pc'[q] = "reap_io", inquiryOk'[q], ~disturbed'[q]
               PROVE  StillCounted(q)'
    BY DEF Counted, StillCounted
  <1>0. ProgramTypeOK /\ Cardinality(cq) \in Nat
    BY TypeParts, FS_CardinalityType DEF RingInv, Occupied
  <1>a. pc[q] = "reap_io" /\ inquiryOk[q] /\ ~disturbed[q] => StillCounted(q)
    BY DEF Counted, StillCounted
  <1>1. ASSUME pc[q] = "reap_io", inquiryOk[q], ~disturbed[q],
               remaining'[q] = remaining[q], size'[q] = size[q], cq' = cq
        PROVE  StillCounted(q)'
    BY <1>0, <1>a, <1>1, CountedStands
  <1>2. ASSUME NEW p \in Programs, ProgramStep(p) \/ Kill(p), q # p
        PROVE  StillCounted(q)'
    <2>1. /\ pc[q] = "reap_io" /\ inquiryOk[q] /\ ~disturbed[q]
          /\ remaining'[q] = remaining[q] /\ size'[q] = size[q]
      BY <1>0, <1>2, OthersStand
    <2>2. CASE Moves(p) \/ Ends(p) \/ InquireIo(p) \/ Rings(p)
      <3>1. cq' = cq
        BY <2>2 DEF Moves, Ends, Forget, InquireIo, Rings, Shows,
                    controllerVars, placeVars
      <3> QED
        BY <1>1, <2>1, <3>1
    <2>3. ~Resets(p)
      BY <2>1 DEF Resets, Reset
    <2>4. ASSUME NEW c \in Unissued, Reads(p, c)
          PROVE  StillCounted(q)'
      <3>1. cq' = cq
        BY <2>4 DEF Reads, Queue, controllerVars
      <3> QED
        BY <1>1, <2>1, <3>1
    <2>5. ASSUME NEW S \in SUBSET cq, Reaps(p, S)
          PROVE  StillCounted(q)'
      <3>1. S = {}
        BY <1>2, <2>1, <2>5 DEF Reaps
      <3>2. cq' = cq
        BY <2>5, <3>1 DEF Reaps
      <3> QED
        BY <1>1, <2>1, <3>2
    <2> QED
      BY <1>2, <2>2, <2>3, <2>4, <2>5, ProgramKinds
  <1>3. ASSUME ProgramStep(q) \/ Kill(q)
        PROVE  StillCounted(q)'
    <2>1. InquireIo(q)
      <3>1. ~Moves(q) /\ ~Ends(q) /\ ~Resets(q) /\ ~Rings(q)
        BY <1>0 DEF Moves, Ends, Resets, Rings, Goto, Waiting, ProgramTypeOK
      <3>2. \A c \in Unissued : ~Reads(q, c)
        BY <1>0 DEF Reads, Goto, ProgramTypeOK
      <3>3. \A S \in SUBSET cq : ~Reaps(q, S)
        BY <1>0 DEF Reaps, Goto, ProgramTypeOK
      <3> QED
        BY <1>3, <3>1, <3>2, <3>3, ProgramKinds
    <2>2. cq' = cq
      BY <2>1 DEF InquireIo, controllerVars
    <2>3. remaining'[q] = Uint16(Cardinality(cq))
      BY <1>0, <2>1 DEF InquireIo, Counts, ProgramTypeOK
    <2>4. size'[q] = Uint16(remaining'[q] * EntrySize)
      BY <1>0, <2>1 DEF InquireIo, ProgramTypeOK
    <2> QED
      BY <1>0, <2>2, <2>3, <2>4 DEF StillCounted
  <1>4. CASE ExecuteCreate \/ Fetch \/ UNCHANGED sharedVars
    <2>1. UNCHANGED <<programVars, cq>>
      BY <1>4, ControllerFacts DEF ExecuteCreate, Fetch, sharedVars,
                                   controllerVars
    <2> QED
      BY <1>1, <2>1 DEF programVars
  <1>5. CASE Complete
    <2>1. PICK c \in inFlight : inFlight' = inFlight \ {c} /\ cq' = cq \cup {c}
      BY <1>5 DEF Complete
    <2>2. UNCHANGED <<ringVars, fetch, reaped, lost, programVars>>
      BY <1>5 DEF Complete
    <2>3. Cardinality(cq') = Cardinality(cq) + 1
      BY <2>1, <2>2, CompleteRing
    <2>4. /\ pc[q] = "reap_io" /\ inquiryOk[q] /\ ~disturbed[q]
          /\ remaining'[q] = remaining[q] /\ size'[q] = size[q]
      BY <2>2 DEF programVars
    <2> QED
      BY <1>0, <1>a, <2>3, <2>4, CountedStands
  <1> QED
    BY <1>2, <1>3, <1>4, <1>5 DEF SharedNext

(* An undisturbed reap fills its buffer.                                   *)
LEMMA ReapFills ==
    ASSUME RingInv, NEW p \in Programs, StillCounted(p)
    PROVE  ReapCount(p) * EntrySize = size[p]
  <1>1. PICK n \in Nat : /\ n <= Cardinality(cq)
                         /\ remaining[p] = Uint16(n)
                         /\ size[p] = Uint16(remaining[p] * EntrySize)
    BY DEF StillCounted
  <1>2. Cardinality(cq) \in Nat /\ remaining[p] \in Nat
    BY FS_CardinalityType DEF RingInv, Occupied, SharedTypeOK
  <1>3. /\ remaining[p] <= n
        /\ size[p] \div EntrySize \in Nat
        /\ size[p] \div EntrySize <= remaining[p]
        /\ (size[p] \div EntrySize) * EntrySize = size[p]
    BY <1>1, SizeFacts
  <1>4. ReapCount(p) = size[p] \div EntrySize
    BY <1>1, <1>2, <1>3 DEF ReapCount, Least
  <1> QED
    BY <1>3, <1>4

(* Every step preserves ShortReapMeansInterference. *)
LEMMA ShortReapStep ==
    ASSUME RingInv, Counted, ShortReapMeansInterference, [SharedNext]_sharedVars
    PROVE  ShortReapMeansInterference'
  <1> SUFFICES ASSUME NEW q \in Programs,
                      pc'[q] = "show_io", inquiryOk'[q], ~disturbed'[q]
               PROVE  filled'[q] * EntrySize = size'[q]
    BY DEF ShortReapMeansInterference
  <1>0. ProgramTypeOK
    BY TypeParts DEF RingInv
  <1>1. ASSUME pc[q] = "show_io", inquiryOk[q], ~disturbed[q],
               filled'[q] = filled[q], size'[q] = size[q]
        PROVE  filled'[q] * EntrySize = size'[q]
    BY <1>1 DEF ShortReapMeansInterference
  <1>2. ASSUME NEW p \in Programs, ProgramStep(p) \/ Kill(p), q # p
        PROVE  filled'[q] * EntrySize = size'[q]
    BY <1>0, <1>1, <1>2, OthersStand
  <1>3. ASSUME ProgramStep(q) \/ Kill(q)
        PROVE  filled'[q] * EntrySize = size'[q]
    <2>1. PICK S \in SUBSET cq : Reaps(q, S)
      <3>1. ~Moves(q) /\ ~Ends(q) /\ ~Resets(q) /\ ~Rings(q) /\ ~InquireIo(q)
        BY <1>0 DEF Moves, Ends, Resets, Rings, InquireIo, Goto, Waiting,
                    ProgramTypeOK
      <3>2. \A c \in Unissued : ~Reads(q, c)
        BY <1>0 DEF Reads, Goto, ProgramTypeOK
      <3> QED
        BY <1>3, <3>1, <3>2, ProgramKinds
    <2>2. /\ pc[q] = "reap_io" /\ filled'[q] = ReapCount(q)
          /\ size'[q] = size[q] /\ inquiryOk[q] /\ ~disturbed[q]
      BY <1>0, <2>1 DEF Reaps, Goto, ProgramTypeOK
    <2>3. StillCounted(q)
      BY <2>2 DEF Counted, StillCounted
    <2> QED
      BY <2>2, <2>3, ReapFills
  <1>4. CASE ExecuteCreate \/ Fetch \/ Complete \/ UNCHANGED sharedVars
    BY <1>1, <1>4, ControllerFacts DEF programVars
  <1> QED
    BY <1>2, <1>3, <1>4 DEF SharedNext

-----------------------------------------------------------------------------
(* Before anything runs the ring is empty.                                 *)
LEMMA SharedInitInv == SharedInit => SharedInv
  <1> SUFFICES ASSUME SharedInit
               PROVE  SharedInv
    OBVIOUS
  <1>0. 0 \in Slots /\ Window(0, 0) = {} /\ Ahead(0, 0) = 0
    BY ElementsFacts, WindowFacts
  <1>1. SharedTypeOK
    <2>1. /\ enabled \in BOOLEAN
          /\ memory \subseteq IoQueues /\ sent \subseteq IoQueues
          /\ shown \subseteq IoQueues /\ live \subseteq IoQueues
      BY DEF SharedInit
    <2>2. resets \in 0..MaxResets
      BY SharedAssumption DEF SharedInit
    <2>3. \A p \in Programs : remaining[p] < 65536 /\ size[p] < 65536
      BY DEF SharedInit
    <2> QED
      BY <1>0, <2>1, <2>2, <2>3 DEF SharedInit, SharedTypeOK
  <1>2. RingOrder
    BY <1>0 DEF SharedInit, RingOrder
  <1>3. Occupied
    BY <1>0, FS_EmptySet DEF SharedInit, Occupied
  <1>4. OnePlace
    BY <1>0 DEF SharedInit, OnePlace, Held
  <1>5. OwnCommandsShown
    BY DEF SharedInit, OwnCommandsShown
  <1>6. Counted
    BY DEF SharedInit, Counted
  <1>7. ShortReapMeansInterference
    BY DEF SharedInit, ShortReapMeansInterference
  <1> QED
    BY <1>1, <1>2, <1>3, <1>4, <1>5, <1>6, <1>7 DEF SharedInv

(* Every step of a program or of the controller preserves SharedInv. *)
LEMMA SharedNextInv == SharedInv /\ [SharedNext]_sharedVars => SharedInv'
  <1> SUFFICES ASSUME SharedInv, [SharedNext]_sharedVars
               PROVE  SharedInv'
    OBVIOUS
  <1>1. RingInv
    BY DEF SharedInv, RingInv
  <1>2. RingOrder' /\ Occupied' /\ OnePlace'
    BY <1>1, RingStep
  <1>3. SharedTypeOK'
    BY <1>1, <1>2, SharedTypes
  <1>4. OwnCommandsShown'
    BY <1>1, OwnStep DEF SharedInv
  <1>5. Counted'
    BY <1>1, CountedStep DEF SharedInv
  <1>6. ShortReapMeansInterference'
    BY <1>1, ShortReapStep DEF SharedInv
  <1> QED
    BY <1>2, <1>3, <1>4, <1>5, <1>6 DEF SharedInv

(* SharedInv holds of every state the programs can reach.                  *)
THEOREM SharedInvariance == SharedSpec => []SharedInv
  BY SharedInitInv, SharedNextInv, PTL DEF SharedSpec

(* The driver's pointers stay in the ring, and every variable in its       *)
(* range.                                                                  *)
THEOREM SharedTypeCorrect == SharedSpec => []SharedTypeOK
  <1>1. SharedInv => SharedTypeOK
    BY DEF SharedInv
  <1> QED
    BY <1>1, SharedInvariance, PTL

(* However many programs queue and ring, a program that has rung has none  *)
(* of its own commands left unseen.                                        *)
THEOREM OwnCommandsShownHolds == SharedSpec => []OwnCommandsShown
  <1>1. SharedInv => OwnCommandsShown
    BY DEF SharedInv
  <1> QED
    BY <1>1, SharedInvariance, PTL

(* However many completions wait, and whatever their count loses in        *)
(* sixteen bits, main() prints what no reap wrote only when others reaped  *)
(* or reset the controller after its inquiry.                              *)
THEOREM ShortReapMeansInterferenceHolds ==
    SharedSpec => []ShortReapMeansInterference
  <1>1. SharedInv => ShortReapMeansInterference
    BY DEF SharedInv
  <1> QED
    BY <1>1, SharedInvariance, PTL

(* For a ring of any length: its slots are given back only by reaps, so    *)
(* the completion queue of the same length always has room.                *)
THEOREM CompletionQueueHoldsHolds == SharedSpec => []CompletionQueueHolds
  <1>1. SharedInv => CompletionQueueHolds
    <2> SUFFICES ASSUME SharedInv
                 PROVE  CompletionQueueHolds
      OBVIOUS
    <2>1. Ahead(head, fetch) \in 0..(Elements - 1)
      BY WindowFacts DEF SharedInv, RingOrder
    <2>2. Cardinality(inFlight) + Cardinality(cq) = Ahead(head, fetch)
      BY DEF SharedInv, Occupied
    <2> QED
      BY <2>1, <2>2, ElementsFacts DEF CompletionQueueHolds
  <1> QED
    BY <1>1, SharedInvariance, PTL

-----------------------------------------------------------------------------
(* The places of OnePlace, as the refinement names them.                   *)
LEMMA Places ==
    ASSUME RingInv
    PROVE  /\ AllIssued \subseteq Commands
           /\ Queued \cup Visible \cup cq \cup reaped \cup lost \subseteq AllIssued
           /\ Queued \cap (Visible \cup cq \cup reaped \cup lost) = {}
           /\ Visible \cap (cq \cup reaped \cup lost) = {}
           /\ cq \cap (reaped \cup lost) = {}
           /\ reaped \cap lost = {}
  <1>1. /\ Window(fetch, tailVirt) = Window(fetch, tail) \cup Window(tail, tailVirt)
        /\ Window(fetch, tail) \cap Window(tail, tailVirt) = {}
    BY WindowSplits DEF RingInv, RingOrder
  <1>2. Held(fetch, tailVirt) = Held(fetch, tail) \cup Queued
    BY <1>1 DEF Held, Queued
  <1>3. Held(fetch, tail) \cap Queued = {}
    <2> SUFFICES ASSUME NEW i \in Window(fetch, tail),
                        NEW j \in Window(tail, tailVirt), slot[i] = slot[j]
                 PROVE  FALSE
      BY DEF Held, Queued
    <2>1. i = j
      BY <1>1 DEF RingInv, OnePlace
    <2> QED
      BY <1>1, <2>1
  <1>4. Held(fetch, tailVirt) \subseteq AllIssued
    BY DEF Held, RingInv, OnePlace
  <1>5. AllIssued \subseteq Commands
    BY DEF AllIssued, RingInv, SharedTypeOK
  <1> QED
    BY <1>2, <1>3, <1>4, <1>5 DEF Visible, RingInv, OnePlace

(* A command is at the stage whose place it is in.                         *)
LEMMA StageFacts ==
    ASSUME RingInv, NEW c \in Commands
    PROVE  /\ c \in reaped => StageOf(c) = "reaped"
           /\ c \in lost => StageOf(c) = "lost"
           /\ c \in cq => StageOf(c) = "completed"
           /\ c \in Visible => StageOf(c) = "visible"
           /\ c \in Queued => StageOf(c) = "queued"
           /\ c \notin Queued \cup Visible \cup cq \cup reaped \cup lost =>
                 StageOf(c) = "unsent"
  BY Places DEF StageOf

(* The sets of CommandLifecycle's steps are places.                        *)
LEMMA OfQueueFacts ==
    ASSUME RingInv
    PROVE  /\ Lifecycle!OfQueue(1, "queued") = Queued
           /\ Lifecycle!OfQueue(1, "visible") = Visible
           /\ Lifecycle!OfQueue(1, "completed") = cq
  <1>1. /\ Queued \subseteq Commands /\ Visible \subseteq Commands
        /\ cq \subseteq Commands
    BY Places
  <1>2. \A c \in Commands : /\ (StageOf(c) = "queued") = (c \in Queued)
                            /\ (StageOf(c) = "visible") = (c \in Visible)
                            /\ (StageOf(c) = "completed") = (c \in cq)
    BY StageFacts
  <1> QED
    BY <1>1, <1>2 DEF Lifecycle!OfQueue

(* Only the commands of S change their stage.                              *)
LEMMA AdvanceFacts ==
    ASSUME NEW S, NEW stage,
           \A c \in Commands :
               StageOf(c)' = IF c \in S THEN stage ELSE StageOf(c)
    PROVE  Lifecycle!Advance(S, stage)
  BY DEF Lifecycle!Advance

(* Every step is one of CommandLifecycle or a stutter. *)
LEMMA LifecycleStep ==
    ASSUME RingInv, StageStep
    PROVE  \/ Lifecycle!LifeNext
           \/ UNCHANGED [c \in Commands |-> StageOf(c)]
  <1>1. CASE SameStages
    <2>1. \A c \in Commands : StageOf(c)' = StageOf(c)
      BY <1>1 DEF SameStages, StageOf
    <2> QED
      BY <2>1
  <1>2. ASSUME NEW c \in Commands, SubmitStep(c)
        PROVE  Lifecycle!Submit(c)
    <2>1. c \notin Queued \cup Visible \cup cq \cup reaped \cup lost
      BY <1>2, Places DEF SubmitStep
    <2>2. StageOf(c) = "unsent"
      BY <2>1, StageFacts
    <2>3. \A d \in Commands :
              StageOf(d)' = IF d \in {c} THEN "queued" ELSE StageOf(d)
      BY <1>2, <2>1 DEF SubmitStep, StageOf
    <2>4. Lifecycle!Advance({c}, "queued")
      BY <2>3, AdvanceFacts
    <2> QED
      BY <2>2, <2>4 DEF Lifecycle!Submit
  <1>3. ASSUME NEW c \in Commands, CompleteStep(c)
        PROVE  Lifecycle!Complete(c)
    <2>1. c \in Visible
      BY <1>3 DEF CompleteStep, Visible
    <2>2. StageOf(c) = "visible"
      BY <2>1, StageFacts
    <2>3. \A d \in Commands :
              StageOf(d)' = IF d \in {c} THEN "completed" ELSE StageOf(d)
      BY <1>3, <2>1, Places DEF CompleteStep, StageOf
    <2>4. Lifecycle!Advance({c}, "completed")
      BY <2>3, AdvanceFacts
    <2> QED
      BY <2>2, <2>4 DEF Lifecycle!Complete
  <1>4. CASE DoorbellStep
    <2>1. \A c \in Commands :
              StageOf(c)' = IF c \in Queued THEN "visible" ELSE StageOf(c)
      BY <1>4, Places DEF DoorbellStep, StageOf
    <2>2. Lifecycle!Advance(Queued, "visible")
      BY <2>1, AdvanceFacts
    <2>3. Lifecycle!Doorbell(1)
      BY <2>2, OfQueueFacts DEF Lifecycle!Doorbell
    <2> QED
      BY <2>3 DEF Lifecycle!LifeNext
  <1>5. ASSUME NEW S \in SUBSET cq, ReapStep(S)
        PROVE  Lifecycle!Reap(1)
    <2>1. \A c \in Commands :
              StageOf(c)' = IF c \in S THEN "reaped" ELSE StageOf(c)
      BY <1>5, Places DEF ReapStep, StageOf
    <2>2. Lifecycle!Advance(S, "reaped")
      BY <2>1, AdvanceFacts
    <2> QED
      BY <2>2, OfQueueFacts DEF Lifecycle!Reap
  <1>6. CASE ResetStep
    <2>1. \A c \in Commands :
              StageOf(c)' = IF c \in Queued \cup Visible \cup cq
                            THEN "lost" ELSE StageOf(c)
      BY <1>6, Places DEF ResetStep, StageOf
    <2>2. Lifecycle!Advance(Queued \cup Visible \cup cq, "lost")
      BY <2>1, AdvanceFacts
    <2>3. Lifecycle!Reset(1)
      BY <2>2, OfQueueFacts DEF Lifecycle!Reset
    <2> QED
      BY <2>3 DEF Lifecycle!LifeNext
  <1> QED
    BY <1>1, <1>2, <1>3, <1>4, <1>5, <1>6 DEF StageStep, Lifecycle!LifeNext

(* Whatever several programs do, and whichever of them are killed, each    *)
(* command goes through its life as CommandLifecycle promises: every step  *)
(* of the shared queue is a step of that life or leaves every stage.       *)
THEOREM SharedImplementsLifecycleHolds == SharedSpec => SharedImplementsLifecycle
  <1>1. SharedInit => Lifecycle!LifeInit
    <2> SUFFICES ASSUME SharedInit
                 PROVE  Lifecycle!LifeInit
      OBVIOUS
    <2>1. Window(0, 0) = {}
      BY ElementsFacts, WindowFacts
    <2>2. /\ Queued = {} /\ Visible = {}
          /\ cq = {} /\ reaped = {} /\ lost = {}
      BY <2>1 DEF SharedInit, Queued, Visible, Held
    <2>3. \A c \in Commands : StageOf(c) = "unsent"
      BY <2>2 DEF StageOf
    <2> QED
      BY <2>3 DEF Lifecycle!LifeInit
  <1>2. SharedInv /\ [SharedNext]_sharedVars
            => [Lifecycle!LifeNext]_([c \in Commands |-> StageOf(c)])
    BY RingStep, LifecycleStep DEF SharedInv, RingInv
  <1> QED
    BY <1>1, <1>2, SharedInvariance, PTL
    DEF SharedSpec, SharedImplementsLifecycle, Lifecycle!LifeSpec
=============================================================================
