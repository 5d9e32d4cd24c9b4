-------------------------- MODULE LifecycleProofs --------------------------
(***************************************************************************)
(* main(), the driver's queues and the controller implement                *)
(* CommandLifecycle, for every length of the batch and whatever earlier    *)
(* programs left in the queues: every step is mapped to a step of the life *)
(* of a command of this program, or to a stutter.                          *)
(***************************************************************************)
EXTENDS MainProofs

(* How many commands a queue is ever sent. *)
Sent(q) == IF q = 0 THEN NAdmin ELSE 1

(* Where main() has sent no read yet. *)
BeforeRead ==
    BeforeRing \cup {"sleep", "inquire", "malloc_cq", "reap", "show_cq",
                     "malloc_data", "read"}

(* No queue is sent more than main() has, the I/O queue one read.          *)
Numbered ==
    /\ \A q \in QueueIds : tailVirt[q] <= Sent(q)
    /\ pc \in BeforeRead => tailVirt[1] = 0

PlaceInv == MainInv /\ Numbered

placeVars == <<tailVirt, tail, cq, reaped>>

-----------------------------------------------------------------------------
(* What a step does to the places of the commands.                         *)
QueueStep(q) ==
    /\ tailVirt[q] < Sent(q)
    /\ tailVirt' = [tailVirt EXCEPT ![q] = @ + 1]
    /\ UNCHANGED <<tail, cq, reaped>>

RingStep(q) ==
    /\ tail' = [tail EXCEPT ![q] = tailVirt[q]]
    /\ UNCHANGED <<tailVirt, cq, reaped>>

CompleteStep(q, i) ==
    /\ i \in Unfinished(q)
    /\ cq' = [cq EXCEPT ![q] = @ \cup {i}]
    /\ UNCHANGED <<tailVirt, tail, reaped>>

ReapStep(q, S) ==
    /\ S \in SUBSET cq[q]
    /\ cq' = [cq EXCEPT ![q] = @ \ S]
    /\ reaped' = [reaped EXCEPT ![q] = @ \cup S]
    /\ UNCHANGED <<tailVirt, tail>>

ResetStep ==
    /\ \A q \in QueueIds : tailVirt[q] = 0
    /\ ControllerReset

PlaceStep ==
    \/ UNCHANGED placeVars
    \/ ResetStep
    \/ \E q \in QueueIds : \/ QueueStep(q) \/ RingStep(q)
                           \/ \E i \in Unfinished(q) : CompleteStep(q, i)
                           \/ \E S \in SUBSET cq[q] : ReapStep(q, S)

(* What the order of the queues says of the places of the commands. *)
LEMMA PlaceFacts ==
    ASSUME PlaceInv, NEW q \in QueueIds
    PROVE  /\ tail[q] \in Int /\ tailVirt[q] \in Nat /\ Sent(q) \in Nat
           /\ tail[q] <= tailVirt[q] /\ tailVirt[q] <= Sent(q)
           /\ cq[q] \subseteq Int /\ reaped[q] \subseteq Int
           /\ \A i \in cq[q] \cup reaped[q] : i <= tail[q]
           /\ cq[q] \cap reaped[q] = {}
  <1>1. QueueInOrder(q) /\ tailVirt[q] <= Sent(q)
    BY PlaceTypes DEF PlaceInv, Numbered
  <1>2. Sent(q) \in Nat
    BY NAdminAssumption DEF Sent
  <1>3. /\ tail[q] \in Int /\ tailVirt[q] \in Nat
        /\ cq[q] \subseteq Int /\ reaped[q] \subseteq Int
    BY PlaceTypes DEF PlaceInv
  <1> QED
    BY <1>1, <1>2, <1>3 DEF QueueInOrder

(* Every action, the many that leave the queues alone included.            *)
LEMMA PlaceStepHolds ==
    ASSUME PlaceInv, [Next]_vars
    PROVE  PlaceStep
  <1>0. 0 \in QueueIds /\ 1 \in QueueIds
    BY DEF QueueIds
  <1>1. CASE UNCHANGED <<submitVars, completeVars>>
    BY <1>1 DEF PlaceStep, placeVars, submitVars, completeVars
  <1>2. CASE Moves
    BY <1>1, <1>2, MovesFacts
  <1>3. CASE CallInitDrive \/ RunInitDrive
    <2>1. pc = "init" /\ (ControllerReset \/ UNCHANGED <<submitVars, completeVars>>)
      BY <1>3, InitStepFacts
    <2>2. tailVirt[0] = 0 /\ tailVirt[1] = 0
      BY <2>1 DEF PlaceInv, MainInv, Submitted, BeforeRing, BeforeSend
    <2>3. ControllerReset => PlaceStep
      BY <2>2 DEF PlaceStep, ResetStep, QueueIds
    <2> QED
      BY <1>1, <2>1, <2>3
  <1>0a. CASE UNCHANGED vars
    BY <1>0a, <1>1 DEF vars, mainVars
  <1>4. CASE PrepareIocq \/ PrepareIosq
    BY <1>4 DEF PrepareIocq, PrepareIosq, Prepare, ReturnError, submitVars,
                completeVars, PlaceStep, placeVars
  <1>5. CASE SendCreateIocq \/ SendCreateIosq \/ SendBatch
    <2>1. CASE UNCHANGED <<submitVars, completeVars>>
      BY <1>1, <2>1
    <2>2. CASE Enqueue(0) /\ pc \in {"send_iocq", "send_iosq", "batch"}
      <3>1. tailVirt[0] < Sent(0)
        BY <2>2, NAdminAssumption
        DEF PlaceInv, MainInv, Submitted, BeforeSend, Sent
      <3>2. QueueStep(0)
        BY <2>2, <3>1 DEF QueueStep, Enqueue, completeVars
      <3> QED
        BY <1>0, <3>2 DEF PlaceStep
    <2> QED
      BY <1>5, <2>1, <2>2 DEF SendCreateIocq, SendCreateIosq, SendBatch,
                              SendAdmin, Continue, ReturnError
  <1>6. CASE SendRead
    <2>1. CASE Enqueue(1)
      <3>1. tailVirt[1] < Sent(1)
        BY <1>6 DEF PlaceInv, Numbered, BeforeRead, Sent, SendRead,
                    Continue
      <3>2. QueueStep(1)
        BY <2>1, <3>1 DEF QueueStep, Enqueue, completeVars
      <3> QED
        BY <1>0, <3>2 DEF PlaceStep
    <2> QED
      BY <1>1, <1>6, <2>1 DEF SendRead
  <1>7. ASSUME NEW q \in QueueIds, NEW from, NEW to, Ring(q, from, to)
        PROVE  PlaceStep
    BY <1>1, <1>7 DEF Ring, ReturnError, PlaceStep, RingStep, completeVars
  <1>8. ASSUME NEW q \in QueueIds, NEW from, NEW to, Inquire(q, from, to)
        PROVE  PlaceStep
    BY <1>1, <1>8 DEF Inquire
  <1>9. CASE MallocCqBuffer
    BY <1>1, <1>9 DEF MallocCqBuffer, ReturnError
  <1>10. ASSUME NEW q \in QueueIds, NEW from, NEW to, ReapQueue(q, from, to)
         PROVE  PlaceStep
    <2>1. CASE UNCHANGED <<submitVars, completeVars>>
      BY <1>1, <2>1
    <2>2. ASSUME NEW S \in SUBSET cq[q],
                 cq' = [cq EXCEPT ![q] = @ \ S],
                 reaped' = [reaped EXCEPT ![q] = @ \cup S],
                 UNCHANGED submitVars
          PROVE  PlaceStep
      <3>1. ReapStep(q, S)
        BY <2>2 DEF ReapStep, submitVars
      <3> QED
        BY <3>1 DEF PlaceStep
    <2> QED
      BY <1>10, <2>1, <2>2 DEF ReapQueue, ReturnError
  <1>11. CASE Execute
    <2>1. PICK q \in QueueIds :
             \E i \in Unfinished(q) : cq' = [cq EXCEPT ![q] = @ \cup {i}]
      BY <1>11 DEF Execute, Executable
    <2>2. PICK i \in Unfinished(q) :
             cq' = [cq EXCEPT ![q] = @ \cup {i}]
      BY <2>1
    <2>3. CompleteStep(q, i)
      BY <1>11, <2>2 DEF CompleteStep, Execute, submitVars
    <2> QED
      BY <2>2, <2>3 DEF PlaceStep
  <1>12. CASE Kill
    BY <1>1, <1>12 DEF Kill
  <1>13. CASE RingAdmin \/ RingIo
    BY <1>0, <1>7, <1>13 DEF RingAdmin, RingIo
  <1>14. CASE InquireAdmin \/ InquireIo
    BY <1>0, <1>8, <1>14 DEF InquireAdmin, InquireIo
  <1>15. CASE ReapAdmin \/ ReapIo
    BY <1>0, <1>10, <1>15 DEF ReapAdmin, ReapIo
  <1> QED
    BY <1>0a, <1>2, <1>3, <1>4, <1>5, <1>6, <1>9, <1>11, <1>12, <1>13, <1>14,
       <1>15 DEF Next, MainStep, Moves

(* A read is sent on the way out of BeforeRead, and no way leads back.     *)
LEMMA BeforeReadInv ==
    ASSUME PlaceInv, [Next]_vars, pc' \in BeforeRead
    PROVE  tailVirt'[1] = 0
  <1> USE DEF BeforeRead, BeforeRing, BeforeSend
  <1>0. /\ tailVirt \in [QueueIds -> Nat] /\ 0 \in QueueIds /\ 1 \in QueueIds
        /\ pc \in BeforeRead => tailVirt[1] = 0
    BY PlaceTypes DEF PlaceInv, Numbered
  <1>1. ASSUME pc \in BeforeRead, tailVirt'[1] = tailVirt[1]
        PROVE  tailVirt'[1] = 0
    BY <1>0, <1>1
  <1>2. CASE Moves
    BY <1>0, <1>2, MovesFacts
    DEF Moves, Open, MallocBuffers, InitDriveDone, ShowRegisters, SleepAdmin,
        ShowCq, MallocData, SleepIo, ShowIo, Sleep, Continue, End, submitVars
  <1>3. CASE CallInitDrive \/ RunInitDrive
    BY <1>1, <1>3, InitStepFacts
  <1>12. CASE UNCHANGED vars
    BY <1>1, <1>12 DEF vars, mainVars, submitVars
  <1>4. CASE PrepareIocq \/ PrepareIosq \/ MallocCqBuffer
    BY <1>1, <1>4 DEF PrepareIocq, PrepareIosq, Prepare, MallocCqBuffer,
                      ReturnError, Continue, End, submitVars
  <1>5. CASE SendCreateIocq \/ SendCreateIosq \/ SendBatch
    BY <1>0, <1>1, <1>5 DEF SendCreateIocq, SendCreateIosq, SendBatch, SendAdmin,
                            Enqueue, ReturnError, Continue, End, submitVars
  <1>6. CASE SendRead
    BY <1>6 DEF SendRead, Continue
  <1>7. CASE RingAdmin \/ RingIo
    BY <1>1, <1>7 DEF RingAdmin, RingIo, Ring, ReturnError, Continue, End,
                      submitVars
  <1>8. CASE InquireAdmin \/ InquireIo
    BY <1>1, <1>8 DEF InquireAdmin, InquireIo, Inquire, Continue, submitVars
  <1>9. CASE ReapAdmin \/ ReapIo
    BY <1>1, <1>9 DEF ReapAdmin, ReapIo, ReapQueue, ReturnError, Continue, End,
                      submitVars
  <1>10. CASE Execute
    BY <1>1, <1>10 DEF Execute, submitVars
  <1>11. CASE Kill
    BY <1>11 DEF Kill, End
  <1> QED
    BY <1>2, <1>3, <1>4, <1>5, <1>6, <1>7, <1>8, <1>9, <1>10, <1>11, <1>12
    DEF Next, MainStep, Moves

(* Every step preserves Numbered. *)
LEMMA NumberedInv ==
    ASSUME PlaceInv, [Next]_vars
    PROVE  Numbered'
  <1>1. ASSUME NEW r \in QueueIds
        PROVE  tailVirt'[r] <= Sent(r)
    <2>0. /\ tailVirt \in [QueueIds -> Nat] /\ Sent(r) \in Nat
          /\ tailVirt[r] <= Sent(r)
      BY PlaceTypes, PlaceFacts DEF PlaceInv
    <2>1. CASE tailVirt' = tailVirt
      BY <2>0, <2>1
    <2>2. ASSUME NEW q \in QueueIds, QueueStep(q)
          PROVE  tailVirt'[r] <= Sent(r)
      BY <2>0, <2>2 DEF QueueStep
    <2> QED
      BY <2>1, <2>2, PlaceStepHolds
      DEF PlaceStep, placeVars, ResetStep, ControllerReset, RingStep,
          CompleteStep, ReapStep
  <1>2. pc' \in BeforeRead => tailVirt'[1] = 0
    BY BeforeReadInv
  <1> QED
    BY <1>1, <1>2 DEF Numbered

(* The places of the commands, beside what MainInv says.                   *)
THEOREM PlaceInvariance == Spec => []PlaceInv
  <1>1. Init => PlaceInv
    BY MainInitInv, NAdminAssumption DEF Init, PlaceInv, Numbered, Sent, QueueIds
  <1>2. PlaceInv /\ [Next]_vars => PlaceInv'
    BY MainNextInv, NumberedInv DEF PlaceInv
  <1> QED
    BY <1>1, <1>2, PTL DEF Spec

-----------------------------------------------------------------------------
(* A command is a queue and a number. *)
LEMMA CommandFacts ==
    /\ \A c \in LifeCommands : /\ c[1] \in QueueIds /\ c[2] \in 1..Sent(c[1])
                               /\ c = <<c[1], c[2]>>
    /\ \A q \in QueueIds : \A i \in 1..Sent(q) : <<q, i>> \in LifeCommands
  BY NAdminAssumption DEF LifeCommands, Sent, QueueIds

(* A command is at the stage whose place it is in.                         *)
LEMMA StageFacts ==
    ASSUME PlaceInv, NEW q \in QueueIds, NEW i \in 1..Sent(q)
    PROVE  /\ (StageOf(q, i) = "reaped") = (i \in reaped[q])
           /\ (StageOf(q, i) = "completed") = (i \in cq[q])
           /\ (StageOf(q, i) = "visible")
                 = (i <= tail[q] /\ i \notin cq[q] \cup reaped[q])
           /\ (StageOf(q, i) = "queued") = (i > tail[q] /\ i <= tailVirt[q])
           /\ (StageOf(q, i) = "unsent") = (i > tailVirt[q])
  <1>1. /\ i \in Int /\ tail[q] \in Int /\ tailVirt[q] \in Int
        /\ tail[q] <= tailVirt[q]
        /\ \A j \in cq[q] \cup reaped[q] : j <= tail[q]
        /\ cq[q] \cap reaped[q] = {}
    BY PlaceFacts
  <1> QED
    BY <1>1 DEF StageOf

(* The sets of CommandLifecycle's steps, by queue.                         *)
LEMMA OfQueueFacts ==
    ASSUME NEW q \in QueueIds, NEW stage
    PROVE  Lifecycle!OfQueue(q, stage)
               = {c \in LifeCommands : c[1] = q /\ StageOf(c[1], c[2]) = stage}
  BY DEF Lifecycle!OfQueue

(* Only the commands of S change their stage.                              *)
LEMMA AdvanceFacts ==
    ASSUME NEW S, NEW stage,
           \A q \in QueueIds : \A i \in 1..Sent(q) :
               StageOf(q, i)' = IF <<q, i>> \in S THEN stage ELSE StageOf(q, i)
    PROVE  Lifecycle!Advance(S, stage)
  <1>1. \A c \in LifeCommands :
           StageOf(c[1], c[2])' = IF c \in S THEN stage ELSE StageOf(c[1], c[2])
    BY CommandFacts
  <1> QED
    BY <1>1 DEF Lifecycle!Advance

(* A command copied to a queue is a Submit. *)
LEMMA SubmitStep ==
    ASSUME PlaceInv, NEW q \in QueueIds, QueueStep(q)
    PROVE  \E c \in LifeCommands : Lifecycle!Submit(c)
  <1> DEFINE i == tailVirt[q] + 1
  <1>0. /\ tailVirt \in [QueueIds -> Nat] /\ Sent(q) \in Nat
        /\ tail[q] \in Int /\ tail[q] <= tailVirt[q]
    BY PlaceTypes, PlaceFacts DEF PlaceInv
  <1>1. i \in 1..Sent(q) /\ i > tailVirt[q] /\ <<q, i>> \in LifeCommands
    BY <1>0, CommandFacts DEF QueueStep
  <1>2. StageOf(q, i) = "unsent"
    BY <1>1, StageFacts
  <1>3. ASSUME NEW r \in QueueIds, NEW j \in 1..Sent(r)
        PROVE  StageOf(r, j)' = IF <<r, j>> \in {<<q, i>>} THEN "queued"
                                ELSE StageOf(r, j)
    <2>0. /\ tail[r] \in Int /\ tailVirt[r] \in Nat /\ j \in Int
          /\ \A k \in cq[r] \cup reaped[r] : k <= tail[r]
      BY PlaceFacts
    <2>1. CASE r = q /\ j = i
      <3>1. j \notin reaped[r] \cup cq[r]
        BY <1>0, <2>0, <2>1
      <3>2. tailVirt'[r] = j /\ j > tail[r]
        BY <1>0, <2>1 DEF QueueStep
      <3> QED
        BY <1>1, <2>0, <2>1, <3>1, <3>2 DEF QueueStep, StageOf
    <2>2. CASE r = q /\ j # i
      <3>1. tailVirt'[r] = i /\ (j <= tailVirt'[r]) = (j <= tailVirt[r])
        BY <1>0, <2>0, <2>2 DEF QueueStep
      <3> QED
        BY <2>2, <3>1 DEF QueueStep, StageOf
    <2>3. CASE r # q
      BY <1>0, <2>3 DEF QueueStep, StageOf
    <2> QED
      BY <2>1, <2>2, <2>3
  <1>4. Lifecycle!Advance({<<q, i>>}, "queued")
    BY <1>3, AdvanceFacts
  <1> QED
    BY <1>1, <1>2, <1>4 DEF Lifecycle!Submit

(* A doorbell of main() is a Doorbell of its queue. *)
LEMMA DoorbellStep ==
    ASSUME PlaceInv, NEW q \in QueueIds, RingStep(q)
    PROVE  Lifecycle!Doorbell(q)
  <1> DEFINE S == {c \in LifeCommands : c[1] = q /\ StageOf(c[1], c[2]) = "queued"}
  <1>0. tail \in [QueueIds -> Int]
    BY PlaceTypes DEF PlaceInv
  <1>1. ASSUME NEW r \in QueueIds, NEW j \in 1..Sent(r)
        PROVE  StageOf(r, j)' = IF <<r, j>> \in S THEN "visible" ELSE StageOf(r, j)
    <2>1. (<<r, j>> \in S) = (r = q /\ StageOf(r, j) = "queued")
      BY CommandFacts
    <2> HIDE DEF S
    <2>2. /\ (StageOf(r, j) = "queued") = (j > tail[r] /\ j <= tailVirt[r])
          /\ tail[r] \in Int /\ tailVirt[r] \in Nat /\ j \in Int
          /\ tail[r] <= tailVirt[r]
          /\ \A k \in cq[r] \cup reaped[r] : k <= tail[r]
      BY StageFacts, PlaceFacts
    <2>3. CASE r = q
      <3>1. tail'[r] = tailVirt[r]
        BY <1>0, <2>3 DEF RingStep
      <3>2. cq' = cq /\ reaped' = reaped /\ tailVirt' = tailVirt
        BY DEF RingStep
      <3> QED
        BY <2>1, <2>2, <2>3, <3>1, <3>2 DEF StageOf
    <2>4. CASE r # q
      <3>1. tail'[r] = tail[r]
        BY <1>0, <2>4 DEF RingStep
      <3> QED
        BY <2>1, <2>4, <3>1 DEF RingStep, StageOf
    <2> QED
      BY <2>3, <2>4
  <1>2. Lifecycle!Advance(S, "visible")
    BY <1>1, AdvanceFacts
  <1> QED
    BY <1>2, OfQueueFacts DEF Lifecycle!Doorbell

(* What the controller executes of this program is a Complete. *)
LEMMA CompletionStep ==
    ASSUME PlaceInv, NEW q \in QueueIds, NEW i \in Unfinished(q),
           CompleteStep(q, i), i > 0
    PROVE  \E c \in LifeCommands : Lifecycle!Complete(c)
  <1>0. cq \in [QueueIds -> SUBSET Int]
    BY PlaceTypes DEF PlaceInv
  <1>1. /\ i \in 1..Sent(q) /\ <<q, i>> \in LifeCommands
        /\ i \notin cq[q] \cup reaped[q] /\ i <= tail[q]
    <2>1. /\ i \in Int /\ i <= tail[q] /\ i \notin cq[q] \cup reaped[q]
      BY PlaceFacts, PlaceTypes DEF PlaceInv, Unfinished
    <2>2. i \in 1..Sent(q)
      BY <2>1, PlaceFacts
    <2> QED
      BY <2>1, <2>2, CommandFacts
  <1>2. StageOf(q, i) = "visible"
    BY <1>1, StageFacts
  <1>3. ASSUME NEW r \in QueueIds, NEW j \in 1..Sent(r)
        PROVE  StageOf(r, j)' = IF <<r, j>> \in {<<q, i>>} THEN "completed"
                                ELSE StageOf(r, j)
    <2>1. CASE r = q /\ j = i
      <3>1. cq'[r] = cq[r] \cup {i} /\ reaped' = reaped
        BY <1>0, <2>1 DEF CompleteStep
      <3>2. j \in cq'[r] /\ j \notin reaped'[r] /\ ~(j > tail'[r])
        BY <1>1, <2>1, <3>1, PlaceFacts DEF CompleteStep
      <3>3. StageOf(r, j)' = "completed"
        BY <3>2 DEF StageOf
      <3> QED
        BY <2>1, <3>3
    <2>2. CASE r = q /\ j # i
      <3>1. (j \in cq'[r]) = (j \in cq[r])
        BY <1>0, <2>2 DEF CompleteStep
      <3> QED
        BY <2>2, <3>1 DEF CompleteStep, StageOf
    <2>3. CASE r # q
      BY <1>0, <2>3 DEF CompleteStep, StageOf
    <2> QED
      BY <2>1, <2>2, <2>3
  <1>4. Lifecycle!Advance({<<q, i>>}, "completed")
    BY <1>3, AdvanceFacts
  <1> QED
    BY <1>1, <1>2, <1>4 DEF Lifecycle!Complete

(* Nothing changes for this program's commands when none of them moves.    *)
LEMMA Stutters ==
    ASSUME \A q \in QueueIds : \A i \in 1..Sent(q) : StageOf(q, i)' = StageOf(q, i)
    PROVE  UNCHANGED [c \in LifeCommands |-> StageOf(c[1], c[2])]
  <1>1. \A c \in LifeCommands : StageOf(c[1], c[2])' = StageOf(c[1], c[2])
    BY CommandFacts
  <1> QED
    BY <1>1

(* The completion of a command of an earlier program. *)
LEMMA OldCompletionStutters ==
    ASSUME PlaceInv, NEW q \in QueueIds, NEW i \in Unfinished(q),
           CompleteStep(q, i), ~(i > 0)
    PROVE  UNCHANGED [c \in LifeCommands |-> StageOf(c[1], c[2])]
  <1>1. ASSUME NEW r \in QueueIds, NEW j \in 1..Sent(r)
        PROVE  StageOf(r, j)' = StageOf(r, j)
    <2>1. (j \in cq'[r]) = (j \in cq[r])
      <3>1. j # i
        OBVIOUS
      <3>2. cq'[r] = cq[r] \/ cq'[r] = cq[r] \cup {i}
        BY PlaceTypes DEF CompleteStep, PlaceInv
      <3> QED
        BY <3>1, <3>2
    <2> QED
      BY <2>1 DEF CompleteStep, StageOf
  <1> QED
    BY <1>1, Stutters

(* A reset comes before this program has sent anything. *)
LEMMA ResetStutters ==
    ASSUME PlaceInv, ResetStep
    PROVE  UNCHANGED [c \in LifeCommands |-> StageOf(c[1], c[2])]
  <1>1. ASSUME NEW r \in QueueIds, NEW j \in 1..Sent(r)
        PROVE  StageOf(r, j)' = StageOf(r, j)
    <2>0. /\ j \in Int /\ j > 0
          /\ tailVirt[r] = 0 /\ tailVirt' = tailVirt
          /\ tail[r] \in Int /\ tail[r] <= 0
          /\ \A k \in cq[r] \cup reaped[r] : k \in Int /\ k <= tail[r]
      BY PlaceFacts DEF ResetStep, ControllerReset
    <2>1. /\ tail'[r] \in {tail[r], 0} /\ cq'[r] \in {cq[r], {}}
          /\ reaped'[r] \in {reaped[r] \cup Unfinished(r), Oldest..0}
      BY PlaceTypes DEF ResetStep, ControllerReset, QueueIds, PlaceInv
    <2>2. j \notin cq[r] \cup reaped[r] /\ j \notin cq'[r] \cup reaped'[r]
      <3>1. \A k \in Unfinished(r) \cup (Oldest..0) : k \in Int /\ k <= 0
        BY <2>0, PlaceTypes DEF Unfinished, PlaceInv
      <3>2. \A k \in cq[r] \cup reaped[r] : k <= 0
        BY <2>0
      <3>3. \A k \in cq'[r] \cup reaped'[r] : k <= 0
        BY <2>1, <3>1, <3>2
      <3>4. ~(j <= 0)
        BY <2>0
      <3> QED
        BY <3>2, <3>3, <3>4
    <2>3. ~(j <= tail[r]) /\ ~(j <= tail'[r]) /\ ~(j <= tailVirt'[r])
      BY <2>0, <2>1
    <2> QED
      BY <2>0, <2>2, <2>3 DEF StageOf
  <1> QED
    BY <1>1, Stutters

(* A reap of main() is a Reap of its queue. *)
LEMMA ReapingStep ==
    ASSUME PlaceInv, NEW q \in QueueIds, NEW S \in SUBSET cq[q], ReapStep(q, S)
    PROVE  Lifecycle!Reap(q)
  <1> DEFINE C == {<<q, i>> : i \in {k \in S : k > 0}}
  <1>0. /\ tail[q] \in Int /\ tailVirt[q] \in Nat /\ Sent(q) \in Nat
        /\ tail[q] <= tailVirt[q] /\ tailVirt[q] <= Sent(q)
        /\ cq \in [QueueIds -> SUBSET Int] /\ reaped \in [QueueIds -> SUBSET Int]
        /\ \A i \in cq[q] : i \in Int /\ i <= tail[q]
        /\ cq[q] \cap reaped[q] = {}
    BY PlaceTypes, PlaceFacts DEF PlaceInv
  <1>1. \A i \in S : i > 0 => /\ i \in 1..Sent(q) /\ <<q, i>> \in LifeCommands
                              /\ StageOf(q, i) = "completed"
    <2>1. \A i \in S : i > 0 => i \in 1..Sent(q) /\ i \in cq[q]
      BY <1>0
    <2> QED
      BY <2>1, CommandFacts, StageFacts
  <1>2. C \in SUBSET {c \in LifeCommands :
                          c[1] = q /\ StageOf(c[1], c[2]) = "completed"}
    BY <1>1
  <1>3. ASSUME NEW r \in QueueIds, NEW j \in 1..Sent(r)
        PROVE  StageOf(r, j)' = IF <<r, j>> \in C THEN "reaped" ELSE StageOf(r, j)
    <2>1. (<<r, j>> \in C) = (r = q /\ j \in S)
      <3>1. j > 0
        OBVIOUS
      <3> QED
        BY <3>1
    <2> HIDE DEF C
    <2>2. CASE r = q
      <3>1. cq'[r] = cq[r] \ S /\ reaped'[r] = reaped[r] \cup S
        BY <1>0, <2>2 DEF ReapStep
      <3>2. cq[r] \cap reaped[r] = {}
        BY <1>0, <2>2
      <3>3. CASE j \in S
        <4>1. j \in reaped'[r]
          BY <3>1, <3>3
        <4>2. j \notin cq'[r] /\ ~(j > tail'[r])
          BY <1>0, <2>2, <3>1, <3>3 DEF ReapStep
        <4>3. StageOf(r, j)' = "reaped"
          BY <4>1, <4>2 DEF StageOf
        <4> QED
          BY <2>1, <2>2, <3>3, <4>3
      <3>4. CASE j \notin S
        <4>1. (j \in cq'[r]) = (j \in cq[r]) /\ (j \in reaped'[r]) = (j \in reaped[r])
          BY <3>1, <3>4
        <4> QED
          BY <2>1, <3>4, <4>1 DEF ReapStep, StageOf
      <3> QED
        BY <3>3, <3>4
    <2>3. CASE r # q
      BY <1>0, <2>1, <2>3 DEF ReapStep, StageOf
    <2> QED
      BY <2>2, <2>3
  <1>4. Lifecycle!Advance(C, "reaped")
    BY <1>3, AdvanceFacts
  <1>5. C \in SUBSET Lifecycle!OfQueue(q, "completed")
    BY <1>2, OfQueueFacts
  <1> QED
    BY <1>4, <1>5 DEF Lifecycle!Reap

(* main(), with init_drive() failing or not, errors ignored or not, and a  *)
(* kill anywhere, takes each command through its life as CommandLifecycle  *)
(* promises: no command is executed before its doorbell, reaped before it  *)
(* completes, or completed or reaped twice, for every length of the batch. *)
THEOREM ImplementsLifecycleHolds == Spec => ImplementsLifecycle
  <1>1. Init => Lifecycle!LifeInit
    <2> SUFFICES ASSUME Init
                 PROVE  Lifecycle!LifeInit
      OBVIOUS
    <2>1. \A c \in LifeCommands : c[1] \in QueueIds /\ c[2] \in Nat /\ c[2] > 0
      BY CommandFacts, NAdminAssumption DEF Sent
    <2>2. \A q \in QueueIds : /\ tail[q] \in Int /\ tail[q] <= 0
                              /\ tailVirt[q] = 0
                              /\ \A i \in cq[q] \cup reaped[q] : i \in Int /\ i <= 0
      BY MaxLeftAssumption DEF Init, Oldest
    <2>3. \A c \in LifeCommands : StageOf(c[1], c[2]) = "unsent"
      BY <2>1, <2>2 DEF StageOf
    <2> QED
      BY <2>3 DEF Lifecycle!LifeInit
  <1>2. PlaceInv /\ [Next]_vars
            => [Lifecycle!LifeNext]_([c \in LifeCommands |-> StageOf(c[1], c[2])])
    <2> SUFFICES ASSUME PlaceInv, [Next]_vars
                 PROVE  \/ Lifecycle!LifeNext
                        \/ UNCHANGED [c \in LifeCommands |-> StageOf(c[1], c[2])]
      OBVIOUS
    <2>1. CASE UNCHANGED placeVars
      BY <2>1 DEF placeVars, StageOf
    <2>2. ASSUME NEW q \in QueueIds, QueueStep(q)
          PROVE  Lifecycle!LifeNext
      BY <2>2, SubmitStep DEF Lifecycle!LifeNext
    <2>3. ASSUME NEW q \in QueueIds, RingStep(q)
          PROVE  Lifecycle!LifeNext
      BY <2>3, DoorbellStep DEF Lifecycle!LifeNext
    <2>4. ASSUME NEW q \in QueueIds, NEW i \in Unfinished(q), CompleteStep(q, i)
          PROVE  \/ Lifecycle!LifeNext
                 \/ UNCHANGED [c \in LifeCommands |-> StageOf(c[1], c[2])]
      <3>1. CASE i > 0
        BY <2>4, <3>1, CompletionStep DEF Lifecycle!LifeNext
      <3>2. CASE ~(i > 0)
        BY <2>4, <3>2, OldCompletionStutters
      <3> QED
        BY <3>1, <3>2
    <2>5. ASSUME NEW q \in QueueIds, NEW S \in SUBSET cq[q], ReapStep(q, S)
          PROVE  Lifecycle!LifeNext
      BY <2>5, ReapingStep DEF Lifecycle!LifeNext
    <2>6. CASE ResetStep
      BY <2>6, ResetStutters
    <2> QED
      BY <2>1, <2>2, <2>3, <2>4, <2>5, <2>6, PlaceStepHolds DEF PlaceStep
  <1> QED
    BY <1>1, <1>2, PlaceInvariance, PTL
    DEF Spec, ImplementsLifecycle, Lifecycle!LifeSpec
=============================================================================
