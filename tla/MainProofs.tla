----------------------------- MODULE MainProofs -----------------------------
(***************************************************************************)
(* Proofs about main() and its controller, for every batch of more than    *)
(* two commands, every set of control words and of error numbers.          *)
(***************************************************************************)
EXTENDS MainProgram, InitDriveProofs, FiniteSetTheorems

(* Steps of main() that move on, or leave, and touch nothing else.         *)
Moves ==
    \/ Open \/ MallocBuffers \/ InitDriveDone \/ ShowRegisters \/ SleepAdmin
    \/ ShowCq \/ MallocData \/ SleepIo \/ ShowIo

(* Such a step leaves drive, buffers and queues alone. *)
LEMMA MovesFacts ==
    ASSUME Moves
    PROVE  UNCHANGED <<driveVars, bufferVars, submitVars, completeVars>>
  BY DEF Moves, Open, MallocBuffers, InitDriveDone, ShowRegisters, SleepAdmin,
         ShowCq, MallocData, SleepIo, ShowIo, Sleep

(* Outside init_drive() the drive's variables stand still.                 *)
LEMMA NextDrive == [Next]_vars => [DriveNext]_driveVars
  <1> SUFFICES ASSUME [Next]_vars
               PROVE  [DriveNext]_driveVars
    OBVIOUS
  <1>1. CASE CallInitDrive \/ RunInitDrive
    BY <1>1 DEF CallInitDrive, RunInitDrive, DriveNext
  <1>2. CASE Kill
    BY <1>2 DEF Kill, DriveNext
  <1>3. CASE Moves
    BY <1>3, MovesFacts
  <1>4. CASE PrepareIocq \/ SendCreateIocq \/ PrepareIosq \/ SendCreateIosq
    BY <1>4 DEF PrepareIocq, SendCreateIocq, PrepareIosq, SendCreateIosq,
                Prepare, SendAdmin
  <1>5. CASE SendBatch \/ RingAdmin \/ InquireAdmin \/ MallocCqBuffer \/ ReapAdmin
    BY <1>5 DEF SendBatch, RingAdmin, InquireAdmin, MallocCqBuffer, ReapAdmin,
                SendAdmin, Ring, Inquire, ReapQueue
  <1>6. CASE SendRead \/ RingIo \/ InquireIo \/ ReapIo \/ Execute
    BY <1>6 DEF SendRead, RingIo, InquireIo, ReapIo, Execute,
                Ring, Inquire, ReapQueue
  <1>7. CASE UNCHANGED vars
    BY <1>7 DEF vars
  <1> QED
    BY <1>1, <1>2, <1>3, <1>4, <1>5, <1>6, <1>7 DEF Next, MainStep, Moves

(* Within main(), init_drive() is what module InitDrive says, called once, *)
(* whatever the controller executes meanwhile; so all that is proved there *)
(* holds here: the meaning of its status, that the drive is enabled only   *)
(* when set up, and that MSI-X stays on.                                   *)
THEOREM DriveWithinMain ==
    Spec => /\ DriveSpec
            /\ [](InitOutcome /\ ExitLeavesDriveRunning /\ IrqsFitTable)
            /\ EnableAfterSetup
            /\ MsixStaysOn
  <1>1. Init => DriveInit
    BY DEF Init
  <1>2. Spec => DriveSpec
    BY <1>1, NextDrive, PTL DEF Spec, DriveSpec
  <1> QED
    BY <1>2, InitOutcomeHolds, ExitLeavesDriveRunningHolds, IrqsFitTableHolds,
       EnableAfterSetupHolds, MsixStaysOnHolds, PTL

-----------------------------------------------------------------------------
(* A step of init_drive() keeps main() where it is; but for a reset it     *)
(* leaves the queues alone.                                                *)
LEMMA InitStepFacts ==
    ASSUME CallInitDrive \/ RunInitDrive
    PROVE  /\ pc = "init" /\ UNCHANGED <<pc, outcome, bufferVars, tailVirt>>
           /\ \/ UNCHANGED <<submitVars, completeVars>>
              \/ ControllerReset
           /\ tail \in [QueueIds -> Int] => tail'[0] = tail[0]
  <1>1. CASE CallInitDrive
    BY <1>1 DEF CallInitDrive, mainVars, submitVars
  <1>2. CASE RunInitDrive
    BY <1>2 DEF RunInitDrive, ControllerReset, submitVars, QueueIds
  <1> QED
    BY <1>1, <1>2

(* How many commands are queued and shown, at each point of main().        *)
LEMMA SubmittedInv == MainInv /\ [Next]_vars => Submitted'
  <1> SUFFICES ASSUME MainInv, [Next]_vars
               PROVE  Submitted'
    OBVIOUS
  <1> USE DEF BeforeSend, BeforeRing, AfterRing
  <1>a. /\ Submitted
        /\ tail \in [QueueIds -> Int] /\ tailVirt \in [QueueIds -> Nat]
        /\ NAdmin \in Nat /\ NAdmin > 2
    BY NAdminAssumption DEF MainInv, MainTypeOK
  <1>1. CASE CallInitDrive \/ RunInitDrive
    <2>1. /\ pc = "init" /\ pc' = "init" /\ outcome' = outcome
          /\ tailVirt' = tailVirt /\ tail'[0] = tail[0]
      BY <1>1, <1>a, InitStepFacts
    <2>2. tail'[1] \in {tail[1], 0}
      BY <1>1, <1>a, InitStepFacts DEF ControllerReset, submitVars, QueueIds
    <2> QED
      BY <1>a, <2>1, <2>2 DEF Submitted
  <1>2. CASE Kill
    BY <1>2, <1>a DEF Kill, End, submitVars, Submitted
  <1>3. CASE Moves
    <2>1. tail' = tail /\ tailVirt' = tailVirt
      BY <1>3, MovesFacts DEF submitVars
    <2> QED
      BY <1>3, <1>a, <2>1
      DEF Moves, Open, MallocBuffers, InitDriveDone, ShowRegisters, SleepAdmin,
          ShowCq, MallocData, SleepIo, ShowIo, Sleep, Continue, End, Submitted
  <1>4. CASE PrepareIocq \/ PrepareIosq
    BY <1>4, <1>a
    DEF PrepareIocq, PrepareIosq, Prepare, ReturnError, Continue, End,
        submitVars, Submitted
  <1>5. CASE SendCreateIocq \/ SendCreateIosq
    BY <1>5, <1>a
    DEF SendCreateIocq, SendCreateIosq, SendAdmin, Enqueue, ReturnError,
        Continue, End, submitVars, Submitted, QueueIds
  <1>6. CASE SendBatch
    BY <1>6, <1>a
    DEF SendBatch, SendAdmin, Enqueue, ReturnError, Continue, End,
        submitVars, Submitted, QueueIds
  <1>7. CASE RingAdmin \/ RingIo
    BY <1>7, <1>a
    DEF RingAdmin, RingIo, Ring, ReturnError, Continue, End, submitVars,
        Submitted, QueueIds
  <1>8. CASE InquireAdmin \/ InquireIo
    BY <1>8, <1>a
    DEF InquireAdmin, InquireIo, Inquire, Continue, submitVars, Submitted
  <1>9. CASE MallocCqBuffer \/ ReapAdmin \/ ReapIo
    BY <1>9, <1>a
    DEF MallocCqBuffer, ReapAdmin, ReapIo, ReapQueue, ReturnError, Continue,
        End, submitVars, Submitted
  <1>10. CASE SendRead
    BY <1>10, <1>a
    DEF SendRead, Enqueue, Continue, submitVars, Submitted, QueueIds
  <1>11. CASE Execute
    BY <1>11, <1>a DEF Execute, submitVars, Submitted
  <1>12. CASE UNCHANGED vars
    BY <1>12, <1>a DEF vars, mainVars, submitVars, Submitted
  <1> QED
    BY <1>1, <1>2, <1>3, <1>4, <1>5, <1>6, <1>7, <1>8, <1>9, <1>10, <1>11, <1>12
    DEF Next, MainStep, Moves

(* Which queues have memory, at each point of main().                      *)
LEMMA BackedInv == MainInv /\ [Next]_vars => Backed'
  <1> SUFFICES ASSUME MainInv, [Next]_vars
               PROVE  Backed'
    OBVIOUS
  <1> USE DEF BeforeSend, BeforeRing, AfterRing
  <1>a. /\ Submitted /\ Backed
        /\ tail \in [QueueIds -> Int] /\ tailVirt \in [QueueIds -> Nat]
        /\ prepared \in SUBSET IoQueues
        /\ NAdmin \in Nat /\ NAdmin > 2
    BY NAdminAssumption DEF MainInv, MainTypeOK
  <1>1. CASE CallInitDrive \/ RunInitDrive
    BY <1>1, <1>a, InitStepFacts DEF Backed, Submitted, QueueIds
  <1>2. CASE Kill
    BY <1>2, <1>a DEF Kill, End, submitVars, Backed
  <1>3. CASE Moves
    <2>1. tail' = tail /\ prepared' = prepared
      BY <1>3, MovesFacts DEF submitVars
    <2> QED
      BY <1>3, <1>a, <2>1
      DEF Moves, Open, MallocBuffers, InitDriveDone, ShowRegisters, SleepAdmin,
          ShowCq, MallocData, SleepIo, ShowIo, Sleep, Continue, End, Backed
  <1>4. CASE PrepareIocq \/ PrepareIosq
    BY <1>4, <1>a
    DEF PrepareIocq, PrepareIosq, Prepare, ReturnError, Continue, End,
        submitVars, Backed, IoQueues
  <1>5. CASE SendCreateIocq \/ SendCreateIosq \/ SendBatch \/ SendRead
    BY <1>5, <1>a
    DEF SendCreateIocq, SendCreateIosq, SendBatch, SendRead, SendAdmin, Enqueue,
        ReturnError, Continue, End, submitVars, Backed
  <1>6. CASE RingAdmin \/ RingIo
    BY <1>6, <1>a
    DEF RingAdmin, RingIo, Ring, ReturnError, Continue, End, submitVars,
        Submitted, Backed, QueueIds
  <1>7. CASE InquireAdmin \/ InquireIo
    BY <1>7, <1>a
    DEF InquireAdmin, InquireIo, Inquire, Continue, submitVars, Backed
  <1>8. CASE MallocCqBuffer \/ ReapAdmin \/ ReapIo
    BY <1>8, <1>a
    DEF MallocCqBuffer, ReapAdmin, ReapIo, ReapQueue, ReturnError, Continue,
        End, submitVars, Backed
  <1>9. CASE Execute
    BY <1>9, <1>a DEF Execute, submitVars, Backed
  <1>10. CASE UNCHANGED vars
    BY <1>10, <1>a DEF vars, mainVars, submitVars, Backed
  <1> QED
    BY <1>1, <1>2, <1>3, <1>4, <1>5, <1>6, <1>7, <1>8, <1>9, <1>10
    DEF Next, MainStep, Moves

(* No step takes an admin queue away.                                      *)
LEMMA AdminQueuesStay == [Next]_vars => adminQ \subseteq adminQ'
  <1>1. DriveNext => adminQ \subseteq adminQ'
    BY DEF DriveNext, Call, InitDriveStep, GetEntryCount, Disable, SetIrq,
           CreateAdminCq, CreateAdminSq, Enable, MsixRead, MsixWrite,
           DeviceMetrics, Crash, driverVars
  <1> QED
    BY <1>1, NextDrive DEF driveVars, driverVars

(* The types that the order of the queues needs. *)
LEMMA PlaceTypes ==
    ASSUME MainInv
    PROVE  /\ tailVirt \in [QueueIds -> Nat] /\ tail \in [QueueIds -> Int]
           /\ cq \in [QueueIds -> SUBSET Int] /\ reaped \in [QueueIds -> SUBSET Int]
           /\ 0 \in QueueIds /\ 1 \in QueueIds /\ Oldest \in Int /\ Oldest <= 1
           /\ \A q \in QueueIds : QueueInOrder(q)
           /\ CreateFollowsPrepare
           /\ prepared \in SUBSET IoQueues
  BY MaxLeftAssumption
  DEF MainInv, MainTypeOK, QueueIds, Oldest, LeavesWhatItFinds

(* When no command moves and no memory goes, the queues stay in order.     *)
LEMMA NothingMovesInv ==
    ASSUME MainInv, [Next]_vars, UNCHANGED <<tailVirt, tail, completeVars>>,
           prepared \subseteq prepared', prepared' \in SUBSET IoQueues
    PROVE  LeavesWhatItFinds'
  <1>1. adminQ \subseteq adminQ'
    BY AdminQueuesStay
  <1>2. ASSUME NEW q \in QueueIds
        PROVE  QueueInOrder(q)'
    BY <1>1, PlaceTypes DEF QueueInOrder, SubmissionQueueExists, completeVars
  <1>3. CreateFollowsPrepare'
    BY PlaceTypes DEF CreateFollowsPrepare, Unfinished, completeVars
  <1> QED
    BY <1>2, <1>3 DEF LeavesWhatItFinds

(* A command more in a queue that exists. *)
LEMMA EnqueueInv ==
    ASSUME MainInv, NEW q \in QueueIds, Enqueue(q), UNCHANGED adminQ
    PROVE  LeavesWhatItFinds'
  <1>1. ASSUME NEW r \in QueueIds
        PROVE  QueueInOrder(r)'
    <2>1. SubmissionQueueExists(r)' = SubmissionQueueExists(r)
      BY DEF Enqueue, SubmissionQueueExists
    <2>2. CASE r = q
      <3>1. tailVirt'[r] = tailVirt[r] + 1 /\ SubmissionQueueExists(r)'
        BY <2>1, <2>2, PlaceTypes DEF Enqueue
      <3> QED
        BY <3>1, PlaceTypes DEF Enqueue, QueueInOrder, completeVars
    <2>3. CASE r # q
      <3>1. tailVirt'[r] = tailVirt[r]
        BY <2>3, PlaceTypes DEF Enqueue
      <3> QED
        BY <2>1, <3>1, PlaceTypes DEF Enqueue, QueueInOrder, completeVars
    <2> QED
      BY <2>2, <2>3
  <1>2. CreateFollowsPrepare'
    BY PlaceTypes DEF Enqueue, CreateFollowsPrepare, Unfinished, completeVars
  <1> QED
    BY <1>1, <1>2 DEF LeavesWhatItFinds

(* A doorbell; that of the admin queue comes after both PREPAREs. *)
LEMMA RingInv ==
    ASSUME MainInv, NEW q \in QueueIds, q = 0 => prepared = IoQueues,
           tail' = [tail EXCEPT ![q] = tailVirt[q]],
           UNCHANGED <<adminQ, prepared, tailVirt, completeVars>>
    PROVE  LeavesWhatItFinds'
  <1>1. ASSUME NEW r \in QueueIds
        PROVE  QueueInOrder(r)'
    <2>1. SubmissionQueueExists(r)' = SubmissionQueueExists(r)
      BY DEF SubmissionQueueExists
    <2>2. /\ tail'[r] \in Int /\ tail[r] <= tail'[r] /\ tail'[r] <= tailVirt[r]
          /\ tail[r] \in Int /\ tailVirt[r] \in Int
      BY PlaceTypes DEF QueueInOrder
    <2>3. Oldest..tail[r] \subseteq Oldest..tail'[r]
      BY <2>2, PlaceTypes
    <2>4. QueueInOrder(r)
      BY PlaceTypes
    <2>5. Oldest <= tail'[r] + 1
      BY <2>2, <2>4, PlaceTypes DEF QueueInOrder
    <2> QED
      BY <2>1, <2>2, <2>3, <2>4, <2>5 DEF QueueInOrder, completeVars
  <1>2. CreateFollowsPrepare'
    <2>1. CASE q = 0
      BY <2>1, PlaceTypes DEF CreateFollowsPrepare, completeVars
    <2>2. CASE q # 0
      <3>1. tail'[0] = tail[0]
        BY <2>2, PlaceTypes
      <3> QED
        BY <3>1, PlaceTypes DEF CreateFollowsPrepare, Unfinished, completeVars
    <2> QED
      BY <2>1, <2>2
  <1> QED
    BY <1>1, <1>2 DEF LeavesWhatItFinds

(* Completions handed out. *)
LEMMA HandOutInv ==
    ASSUME MainInv, NEW q \in QueueIds, NEW S \in SUBSET cq[q],
           cq' = [cq EXCEPT ![q] = @ \ S],
           reaped' = [reaped EXCEPT ![q] = @ \cup S],
           UNCHANGED <<adminQ, submitVars, live>>
    PROVE  LeavesWhatItFinds'
  <1>0. \A r \in QueueIds : /\ cq'[r] \cup reaped'[r] = cq[r] \cup reaped[r]
                            /\ reaped[r] \subseteq reaped'[r]
                            /\ cq[r] \cap reaped[r] = {}
                                 => cq'[r] \cap reaped'[r] = {}
    <2> TAKE r \in QueueIds
    <2>1. CASE r = q
      <3>1. cq'[r] = cq[r] \ S /\ reaped'[r] = reaped[r] \cup S
        BY <2>1, PlaceTypes
      <3> QED
        BY <2>1, <3>1
    <2>2. CASE r # q
      <3>1. cq'[r] = cq[r] /\ reaped'[r] = reaped[r]
        BY <2>2, PlaceTypes
      <3> QED
        BY <3>1
    <2> QED
      BY <2>1, <2>2
  <1>1. ASSUME NEW r \in QueueIds
        PROVE  QueueInOrder(r)'
    <2>1. QueueInOrder(r) /\ SubmissionQueueExists(r)' = SubmissionQueueExists(r)
      BY PlaceTypes DEF SubmissionQueueExists, submitVars
    <2> QED
      BY <1>0, <2>1 DEF QueueInOrder, submitVars
  <1>2. CreateFollowsPrepare'
    <2>1. Unfinished(0)' = Unfinished(0)
      BY <1>0, PlaceTypes DEF Unfinished, submitVars
    <2> QED
      BY <2>1, PlaceTypes DEF CreateFollowsPrepare, submitVars
  <1> QED
    BY <1>1, <1>2 DEF LeavesWhatItFinds

(* What the controller executes was shown, and what it creates has memory. *)
LEMMA ExecuteInv ==
    ASSUME MainInv, Execute
    PROVE  LeavesWhatItFinds'
  <1>0. UNCHANGED <<adminQ, submitVars, reaped>>
    BY DEF Execute, driveVars, driverVars
  <1>a. PICK q \in QueueIds : \E i \in Executable(q) :
               /\ cq' = [cq EXCEPT ![q] = @ \cup {i}]
               /\ live' \in {live} \cup {live \cup {k} : k \in Created(q, i)}
    BY DEF Execute
  <1>b. PICK i \in Unfinished(q) :
               /\ cq' = [cq EXCEPT ![q] = @ \cup {i}]
               /\ live' \in {live} \cup {live \cup {k} : k \in Created(q, i)}
    BY <1>a DEF Executable
  <1>1. ASSUME NEW r \in QueueIds
        PROVE  QueueInOrder(r)'
    <2>1. QueueInOrder(r) /\ SubmissionQueueExists(r)' = SubmissionQueueExists(r)
      BY <1>0, PlaceTypes DEF SubmissionQueueExists, submitVars
    <2>2. CASE r = q
      <3>1. cq'[r] = cq[r] \cup {i}
        BY <1>b, <2>2, PlaceTypes
      <3>2. i \in Oldest..tail[r] /\ i \notin reaped[r]
        BY <1>b, <2>2 DEF Unfinished
      <3> QED
        BY <1>0, <2>1, <3>1, <3>2 DEF QueueInOrder, submitVars
    <2>3. CASE r # q
      <3>1. cq'[r] = cq[r]
        BY <1>b, <2>3, PlaceTypes
      <3> QED
        BY <1>0, <2>1, <3>1 DEF QueueInOrder, submitVars
    <2> QED
      BY <2>2, <2>3
  <1>2. Unfinished(0)' \subseteq Unfinished(0)
    <2>1. cq[0] \subseteq cq'[0]
      BY <1>b, PlaceTypes
    <2> QED
      BY <1>0, <2>1 DEF Unfinished, submitVars
  <1>3. live' \subseteq prepared
    <2>1. CASE q = 0
      <3>1. prepared = IoQueues
        BY <1>b, <2>1, PlaceTypes DEF CreateFollowsPrepare
      <3> QED
        BY <1>b, <3>1, PlaceTypes DEF CreateFollowsPrepare, Created
    <2>2. CASE q # 0
      BY <1>b, <2>2, PlaceTypes DEF CreateFollowsPrepare, Created
    <2> QED
      BY <2>1, <2>2
  <1>4. CreateFollowsPrepare'
    BY <1>0, <1>2, <1>3, PlaceTypes DEF CreateFollowsPrepare, submitVars
  <1> QED
    BY <1>1, <1>4 DEF LeavesWhatItFinds

(* A reset ends what the controller was executing, so it owes no creation  *)
(* when the memory of the I/O queues goes.                                 *)
LEMMA ResetInv ==
    ASSUME MainInv, [Next]_vars, pc = "init", ControllerReset
    PROVE  LeavesWhatItFinds'
  <1>0. tailVirt[1] = 0
    BY DEF MainInv, Submitted, BeforeRing, BeforeSend
  <1>1. /\ tail'[0] = tail[0] /\ cq'[0] = cq[0]
        /\ reaped'[0] = reaped[0] \cup Unfinished(0)
        /\ tail'[1] = 0 /\ cq'[1] = {} /\ reaped'[1] = Oldest..0
        /\ prepared' = {} /\ live' = {} /\ tailVirt' = tailVirt
    BY PlaceTypes DEF ControllerReset
  <1>2. QueueInOrder(0)'
    <2>1. QueueInOrder(0)
      BY PlaceTypes
    <2>2. SubmissionQueueExists(0) => SubmissionQueueExists(0)'
      BY AdminQueuesStay DEF SubmissionQueueExists
    <2> QED
      BY <1>1, <2>1, <2>2 DEF QueueInOrder, Unfinished
  <1>3. QueueInOrder(1)'
    BY <1>0, <1>1, PlaceTypes DEF QueueInOrder
  <1>4. CreateFollowsPrepare'
    BY <1>1 DEF CreateFollowsPrepare, Unfinished
  <1> QED
    BY <1>2, <1>3, <1>4 DEF LeavesWhatItFinds, QueueIds

(* Every step leaves the queues in the order in which it found them.       *)
LEMMA LeavesInv == MainInv /\ [Next]_vars => LeavesWhatItFinds'
  <1> SUFFICES ASSUME MainInv, [Next]_vars
               PROVE  LeavesWhatItFinds'
    OBVIOUS
  <1>0. 0 \in QueueIds /\ 1 \in QueueIds /\ prepared \in SUBSET IoQueues
    BY PlaceTypes
  <1>a. ASSUME UNCHANGED <<submitVars, completeVars>>
        PROVE  LeavesWhatItFinds'
    BY <1>0, <1>a, NothingMovesInv DEF submitVars
  <1>1. CASE CallInitDrive \/ RunInitDrive
    BY <1>1, <1>a, InitStepFacts, ResetInv
  <1>2. CASE Kill \/ Moves \/ UNCHANGED vars
    BY <1>2, <1>a, MovesFacts DEF Kill, vars, mainVars
  <1>3. CASE PrepareIocq \/ PrepareIosq
    <2>1. \/ UNCHANGED <<submitVars, completeVars>>
          \/ /\ UNCHANGED <<tailVirt, tail, completeVars>>
             /\ prepared' \in {prepared \cup {"IOCQ"}, prepared \cup {"IOSQ"}}
      BY <1>3 DEF PrepareIocq, PrepareIosq, Prepare, ReturnError
    <2> QED
      BY <1>0, <1>a, <2>1, NothingMovesInv DEF IoQueues
  <1>4. CASE SendCreateIocq \/ SendCreateIosq \/ SendBatch \/ SendRead
    <2>1. \/ UNCHANGED <<submitVars, completeVars>>
          \/ Enqueue(0) /\ UNCHANGED adminQ
          \/ Enqueue(1) /\ UNCHANGED adminQ
      BY <1>4 DEF SendCreateIocq, SendCreateIosq, SendBatch, SendAdmin, SendRead,
                  ReturnError, driveVars, driverVars
    <2> QED
      BY <1>0, <1>a, <2>1, EnqueueInv
  <1>5. CASE RingAdmin
    <2>1. \/ UNCHANGED <<submitVars, completeVars>>
          \/ /\ pc = "ring"
             /\ tail' = [tail EXCEPT ![0] = tailVirt[0]]
             /\ UNCHANGED <<adminQ, prepared, tailVirt, completeVars>>
      BY <1>5 DEF RingAdmin, Ring, Continue, ReturnError, driveVars, driverVars
    <2>2. pc = "ring" => prepared = IoQueues
      BY DEF MainInv, Backed
    <2> QED
      BY <1>0, <1>a, <2>1, <2>2, RingInv
  <1>6. CASE RingIo
    <2>1. \/ UNCHANGED <<submitVars, completeVars>>
          \/ /\ tail' = [tail EXCEPT ![1] = tailVirt[1]]
             /\ UNCHANGED <<adminQ, prepared, tailVirt, completeVars>>
      BY <1>6 DEF RingIo, Ring, Continue, ReturnError, driveVars, driverVars
    <2> QED
      BY <1>0, <1>a, <2>1, RingInv
  <1>7. CASE InquireAdmin \/ InquireIo \/ MallocCqBuffer
    BY <1>7, <1>a
    DEF InquireAdmin, InquireIo, Inquire, MallocCqBuffer, ReturnError
  <1>8. ASSUME NEW q \in QueueIds, NEW from, NEW to, ReapQueue(q, from, to)
        PROVE  LeavesWhatItFinds'
    BY <1>8, <1>a, HandOutInv
    DEF ReapQueue, ReturnError, driveVars, driverVars
  <1>9. CASE ReapAdmin \/ ReapIo
    BY <1>0, <1>8, <1>9 DEF ReapAdmin, ReapIo
  <1>10. CASE Execute
    BY <1>10, ExecuteInv
  <1> QED
    BY <1>1, <1>2, <1>3, <1>4, <1>5, <1>6, <1>7, <1>9, <1>10
    DEF Next, MainStep, Moves
-----------------------------------------------------------------------------
(* Cutting to sixteen bits.                                                *)
LEMMA Uint16Facts ==
    ASSUME NEW n \in Int
    PROVE  Uint16(n) \in ControlWords /\ (n \in Nat => Uint16(n) <= n)
  BY DEF Uint16, ControlWords

(* The byte count of a set of entries, cut to sixteen bits, is that of no  *)
(* more entries.                                                           *)
LEMMA SizeFacts ==
    ASSUME NEW n \in ControlWords, NEW size, size = Uint16(n * EntrySize)
    PROVE  /\ size \in Nat
           /\ size \div EntrySize <= n
           /\ (size \div EntrySize) * EntrySize = size
  BY DEF Uint16, ControlWords, EntrySize

(* A reap moves no more than fits in the size it is given; all of that     *)
(* when the entries were counted before.                                   *)
LEMMA ReapCountFacts ==
    ASSUME cqRemaining \in ControlWords, cqBufferSize \in ControlWords,
           NEW q, IsFiniteSet(cq[q])
    PROVE  /\ ReapCount(q) \in Nat
           /\ ReapCount(q) * EntrySize <= cqBufferSize
           /\ Counted(q) => ReapCount(q) * EntrySize = cqBufferSize
  <1> DEFINE n == Cardinality(cq[q])
             k == cqBufferSize \div EntrySize
  <1>1. n \in Nat
    BY FS_CardinalityType
  <1>2. cqRemaining \in Nat /\ k \in Nat /\ k * EntrySize <= cqBufferSize
        /\ cqBufferSize \in Nat
    BY DEF ControlWords, EntrySize
  <1>3. ReapCount(q) \in Nat /\ ReapCount(q) <= k
    <2> HIDE DEF n, k
    <2>1. ReapCount(q) = Least(cqRemaining, Least(k, n))
      BY DEF ReapCount, n, k
    <2> QED
      BY <1>1, <1>2, <2>1 DEF Least
  <1>4. ReapCount(q) * EntrySize <= cqBufferSize
    <2> HIDE DEF k
    <2> QED
      BY <1>2, <1>3 DEF EntrySize
  <1>5. ASSUME Counted(q)
        PROVE  ReapCount(q) * EntrySize = cqBufferSize
    <2>1. k <= cqRemaining /\ k * EntrySize = cqBufferSize
      BY <1>5, SizeFacts DEF Counted
    <2>2. k <= n
      BY <1>1, <1>2, <1>5, <2>1 DEF Counted
    <2>3. ReapCount(q) = k
      <3> HIDE DEF n, k
      <3>1. ReapCount(q) = Least(cqRemaining, Least(k, n))
        BY DEF ReapCount, n, k
      <3> QED
        BY <1>1, <1>2, <2>1, <2>2, <3>1 DEF Least
    <2> QED
      BY <2>1, <2>3
  <1> QED
    BY <1>3, <1>4, <1>5
-----------------------------------------------------------------------------
(* A function changed at one place keeps its range. *)
LEMMA ExceptTyped ==
    ASSUME NEW S, NEW T, NEW f \in [S -> T], NEW x, NEW v \in T
    PROVE  [f EXCEPT ![x] = v] \in [S -> T]
  OBVIOUS

(* Every step keeps every variable in its range. *)
LEMMA TypeInv == MainInv /\ [Next]_vars => MainTypeOK'
  <1> SUFFICES ASSUME MainInv, [Next]_vars
               PROVE  MainTypeOK'
    OBVIOUS
  <1>a. MainTypeOK /\ Reaping
    BY DEF MainInv
  <1>b. DriveTypeOK'
    BY NextDrive, DriveNextInv DEF MainInv, DriveInv
  <1>0. CASE UNCHANGED vars
    BY <1>0, <1>a, <1>b
    DEF vars, mainVars, bufferVars, submitVars, completeVars, MainTypeOK
  <1>1. CASE CallInitDrive \/ RunInitDrive
    <2>1. UNCHANGED <<pc, outcome, bufferVars, tailVirt>>
      BY <1>1, InitStepFacts
    <2>2. CASE UNCHANGED <<submitVars, completeVars>>
      BY <1>a, <1>b, <2>1, <2>2
      DEF bufferVars, submitVars, completeVars, MainTypeOK
    <2>3. CASE ControllerReset
      <3>1. tail' \in [QueueIds -> Int] /\ cq' \in [QueueIds -> SUBSET Int]
        <4>1. tail \in [QueueIds -> Int] /\ cq \in [QueueIds -> SUBSET Int]
          BY <1>a DEF MainTypeOK
        <4>2. tail' = [tail EXCEPT ![1] = 0] /\ cq' = [cq EXCEPT ![1] = {}]
          BY <2>3 DEF ControllerReset
        <4>3. 0 \in Int /\ {} \in SUBSET Int
          OBVIOUS
        <4> QED
          BY <4>1, <4>2, <4>3, ExceptTyped
      <3>2. reaped' \in [QueueIds -> SUBSET Int]
        <4>1. reaped[0] \in SUBSET Int /\ Unfinished(0) \in SUBSET Int
              /\ Oldest..0 \in SUBSET Int
          BY <1>a DEF MainTypeOK, QueueIds, Unfinished
        <4> QED
          BY <2>3, <4>1 DEF ControllerReset
      <3> QED
        BY <1>a, <1>b, <2>1, <2>3, <3>1, <3>2
        DEF ControllerReset, bufferVars, MainTypeOK
    <2> QED
      BY <1>1, <2>2, <2>3, InitStepFacts
  <1>2. CASE Kill
    BY <1>2, <1>a, <1>b
    DEF Kill, End, bufferVars, submitVars, completeVars, MainTypeOK
  <1>3. CASE Moves
    <2>1. UNCHANGED <<bufferVars, submitVars, completeVars>>
      BY <1>3, MovesFacts
    <2>2. /\ pc' \in MainSteps \cup {"ended"}
          /\ outcome' \in {"running", "ok", "error", "killed"}
      BY <1>3, <1>a
      DEF Moves, Open, MallocBuffers, InitDriveDone, ShowRegisters, SleepAdmin,
          ShowCq, MallocData, SleepIo, ShowIo, Sleep, Continue, End, MainTypeOK,
          MainSteps
    <2> QED
      BY <1>a, <1>b, <2>1, <2>2
      DEF bufferVars, submitVars, completeVars, MainTypeOK
  <1>4. CASE PrepareIocq \/ PrepareIosq
    BY <1>4, <1>a, <1>b
    DEF PrepareIocq, PrepareIosq, Prepare, ReturnError, Continue, End,
        bufferVars, submitVars, completeVars, MainTypeOK, MainSteps, IoQueues
  <1>5. CASE SendCreateIocq \/ SendCreateIosq \/ SendBatch \/ SendRead
    BY <1>5, <1>a, <1>b
    DEF SendCreateIocq, SendCreateIosq, SendBatch, SendRead, SendAdmin, Enqueue,
        ReturnError, Continue, End, bufferVars, submitVars, completeVars,
        MainTypeOK, MainSteps, QueueIds
  <1>6. CASE RingAdmin \/ RingIo
    BY <1>6, <1>a, <1>b
    DEF RingAdmin, RingIo, Ring, ReturnError, Continue, End, bufferVars,
        submitVars, completeVars, MainTypeOK, MainSteps, QueueIds
  <1>7. CASE InquireAdmin \/ InquireIo
    <2>1. /\ UNCHANGED <<outcome, cqCap, filled, submitVars, completeVars>>
          /\ pc' \in MainSteps
          /\ inquiryOk' \in BOOLEAN
      BY <1>7 DEF InquireAdmin, InquireIo, Inquire, Continue, MainSteps
    <2>2. cqRemaining' \in ControlWords
      <3>1. \E q \in QueueIds : \/ cqRemaining' = Uint16(Cardinality(cq[q]))
                                \/ cqRemaining' = InquiryFailure
        BY <1>7 DEF InquireAdmin, InquireIo, Inquire, QueueIds
      <3>2. \A q \in QueueIds : Cardinality(cq[q]) \in Nat
        BY <1>a, FS_CardinalityType DEF Reaping
      <3> QED
        BY <3>1, <3>2, Uint16Facts DEF InquiryFailure
    <2>3. cqBufferSize' \in ControlWords
      <3>1. cqBufferSize' = Uint16(cqRemaining' * EntrySize)
        BY <1>7 DEF InquireAdmin, InquireIo, Inquire
      <3>2. cqRemaining' * EntrySize \in Int
        BY <2>2 DEF ControlWords, EntrySize
      <3> QED
        BY <3>1, <3>2, Uint16Facts
    <2> QED
      BY <1>a, <1>b, <2>1, <2>2, <2>3 DEF submitVars, completeVars, MainTypeOK
  <1>8. CASE MallocCqBuffer
    BY <1>8, <1>a, <1>b
    DEF MallocCqBuffer, ReturnError, Continue, End, bufferVars, submitVars,
        completeVars, MainTypeOK, MainSteps
  <1>9. CASE ReapAdmin \/ ReapIo
    <2>1. /\ UNCHANGED <<cqRemaining, cqBufferSize, inquiryOk, cqCap,
                         submitVars, live>>
          /\ pc' \in MainSteps \cup {"ended"}
          /\ outcome' \in {"running", "ok", "error", "killed"}
      BY <1>9, <1>a
      DEF ReapAdmin, ReapIo, ReapQueue, ReturnError, Continue, End, bufferVars,
          completeVars, MainTypeOK, MainSteps
    <2>2. /\ cq' \in [QueueIds -> SUBSET Int]
          /\ reaped' \in [QueueIds -> SUBSET Int]
      BY <1>9, <1>a
      DEF ReapAdmin, ReapIo, ReapQueue, ReturnError, completeVars, MainTypeOK
    <2>3. filled' \in Nat
      <3>1. CASE filled' = filled
        BY <3>1, <1>a DEF MainTypeOK
      <3>2. CASE \E q \in QueueIds : \E S \in SUBSET cq[q] :
                   filled' = Cardinality(S)
        <4>1. \A q \in QueueIds : \A S \in SUBSET cq[q] : Cardinality(S) \in Nat
          BY <1>a, FS_Subset, FS_CardinalityType DEF Reaping
        <4> QED
          BY <3>2, <4>1
      <3> QED
        BY <1>9, <3>1, <3>2
        DEF ReapAdmin, ReapIo, ReapQueue, ReturnError, bufferVars, QueueIds
    <2> QED
      BY <1>a, <1>b, <2>1, <2>2, <2>3 DEF submitVars, MainTypeOK
  <1>10. CASE Execute
    <2>1. UNCHANGED <<pc, outcome, bufferVars, submitVars, reaped>>
      BY <1>10 DEF Execute
    <2>2. PICK q \in QueueIds : \E i \in Executable(q) :
                 /\ cq' = [cq EXCEPT ![q] = @ \cup {i}]
                 /\ live' \in {live} \cup {live \cup {k} : k \in Created(q, i)}
      BY <1>10 DEF Execute
    <2>3. PICK i \in Executable(q) :
                 /\ cq' = [cq EXCEPT ![q] = @ \cup {i}]
                 /\ live' \in {live} \cup {live \cup {k} : k \in Created(q, i)}
      BY <2>2
    <2>4. i \in Int
      BY <1>a, <2>3 DEF Executable, Unfinished
    <2>5. cq' \in [QueueIds -> SUBSET Int]
      BY <1>a, <2>3, <2>4 DEF MainTypeOK
    <2>6. live' \in SUBSET IoQueues
      BY <1>a, <2>3 DEF MainTypeOK, Created, IoQueues
    <2> QED
      BY <1>a, <1>b, <2>1, <2>5, <2>6 DEF bufferVars, submitVars, MainTypeOK
  <1> QED
    BY <1>0, <1>1, <1>2, <1>3, <1>4, <1>5, <1>6, <1>7, <1>8, <1>9, <1>10
    DEF Next, MainStep, Moves

(* What an inquiry counted is still there when the reap comes, and a reap  *)
(* moves just that.                                                        *)
LEMMA ReapingInv == MainInv /\ [Next]_vars => Reaping'
  <1> SUFFICES ASSUME MainInv, [Next]_vars
               PROVE  Reaping'
    OBVIOUS
  <1>a. /\ Reaping
        /\ cqRemaining \in ControlWords /\ cqBufferSize \in ControlWords
        /\ cq \in [QueueIds -> SUBSET Int]
    BY DEF MainInv, MainTypeOK
  <1> USE DEF Continue, End
  <1>0. CASE UNCHANGED vars
    BY <1>0, <1>a
    DEF vars, mainVars, bufferVars, completeVars, Reaping, Counted,
        AdminReapFits, ShownEntriesWereReaped
  <1>1. CASE CallInitDrive \/ RunInitDrive
    <2>1. pc' = "init"
      BY <1>1, InitStepFacts
    <2>2. \A q \in QueueIds : cq'[q] \in {cq[q], {}}
      BY <1>1, <1>a, InitStepFacts DEF ControllerReset, completeVars
    <2>3. \A q \in QueueIds : IsFiniteSet(cq'[q])
      BY <1>a, <2>2, FS_EmptySet DEF Reaping
    <2> QED
      BY <2>1, <2>3 DEF Reaping, AdminReapFits, ShownEntriesWereReaped
  <1>2. CASE Kill
    <2>1. pc' = "ended" /\ cq' = cq
      BY <1>2 DEF Kill, completeVars
    <2> QED
      BY <1>a, <2>1 DEF Reaping, AdminReapFits, ShownEntriesWereReaped
  <1>3. CASE Moves
    <2>1. UNCHANGED <<bufferVars, completeVars>>
      BY <1>3, MovesFacts
    <2>2. \/ pc' \in {"malloc", "init", "show_registers", "prepare_iocq",
                      "inquire", "inquire_io", "ended"}
          \/ pc \in AfterReap /\ pc' \in {"malloc_data", "read", "inquire_io"}
      BY <1>3
      DEF Moves, Open, MallocBuffers, InitDriveDone, ShowRegisters, SleepAdmin,
          ShowCq, MallocData, SleepIo, ShowIo, Sleep, AfterReap
    <2>3. pc' = "inquire_io" => pc = "sleep_io"
      BY <1>3
      DEF Moves, Open, MallocBuffers, InitDriveDone, ShowRegisters, SleepAdmin,
          ShowCq, MallocData, SleepIo, ShowIo, Sleep
    <2> QED
      BY <1>a, <2>1, <2>2, <2>3
      DEF bufferVars, completeVars, Reaping, AdminReapFits,
          ShownEntriesWereReaped, AfterReap
  <1>4. CASE PrepareIocq \/ PrepareIosq
    BY <1>4, <1>a
    DEF PrepareIocq, PrepareIosq, Prepare, ReturnError, bufferVars,
        completeVars, Reaping, AdminReapFits, ShownEntriesWereReaped
  <1>5. CASE SendCreateIocq \/ SendCreateIosq \/ SendBatch \/ SendRead
    BY <1>5, <1>a
    DEF SendCreateIocq, SendCreateIosq, SendBatch, SendRead, SendAdmin, Enqueue,
        ReturnError, bufferVars, completeVars, Reaping, AdminReapFits,
        ShownEntriesWereReaped
  <1>6. CASE RingAdmin \/ RingIo
    BY <1>6, <1>a
    DEF RingAdmin, RingIo, Ring, ReturnError, bufferVars, completeVars,
        Reaping, AdminReapFits, ShownEntriesWereReaped
  <1>7. ASSUME NEW q \in QueueIds, NEW from, NEW to, Inquire(q, from, to)
        PROVE  /\ cq' = cq /\ cqCap' = cqCap /\ filled' = filled
               /\ pc = from /\ pc' = to
               /\ inquiryOk' => Counted(q)'
    <2>1. cq' = cq /\ cqCap' = cqCap /\ filled' = filled
      BY <1>7 DEF Inquire, completeVars
    <2>2. ASSUME inquiryOk'
          PROVE  Counted(q)'
      <3>1. cqRemaining' = Uint16(Cardinality(cq[q]))
        BY <1>7, <2>2 DEF Inquire
      <3>2. Cardinality(cq[q]) \in Nat
        BY <1>a, FS_CardinalityType DEF Reaping
      <3>3. cqRemaining' <= Cardinality(cq'[q])
        BY <2>1, <3>1, <3>2, Uint16Facts
      <3> QED
        BY <1>7, <3>3 DEF Inquire, Counted
    <2> QED
      BY <1>7, <2>1, <2>2 DEF Inquire
  <1>8. CASE InquireAdmin
    <2>1. Inquire(0, "inquire", "malloc_cq") /\ 0 \in QueueIds
      BY <1>8 DEF InquireAdmin, QueueIds
    <2> QED
      BY <1>7, <1>a, <2>1 DEF Reaping, AdminReapFits, ShownEntriesWereReaped
  <1>9. CASE InquireIo
    <2>1. Inquire(1, "inquire_io", "reap_io") /\ 1 \in QueueIds
      BY <1>9 DEF InquireIo, QueueIds
    <2> QED
      BY <1>7, <1>a, <2>1 DEF Reaping, AdminReapFits, ShownEntriesWereReaped
  <1>10. CASE MallocCqBuffer
    BY <1>10, <1>a
    DEF MallocCqBuffer, ReturnError, bufferVars, completeVars, Reaping,
        Counted, AdminReapFits, ShownEntriesWereReaped
  <1>11. ASSUME NEW q \in QueueIds, NEW from, NEW to, ReapQueue(q, from, to),
                pc' # "ended"
         PROVE  /\ UNCHANGED <<cqRemaining, cqBufferSize, inquiryOk, cqCap>>
                /\ pc = from /\ pc' = to
                /\ \A p \in QueueIds : IsFiniteSet(cq'[p])
                /\ filled' * EntrySize <= cqBufferSize
                /\ Counted(q) => filled' * EntrySize = cqBufferSize
    <2>1. PICK S \in SUBSET cq[q] :
                /\ Cardinality(S) = ReapCount(q)
                /\ cq' = [cq EXCEPT ![q] = @ \ S]
                /\ filled' = Cardinality(S)
      BY <1>11 DEF ReapQueue, ReturnError
    <2>2. \A p \in QueueIds : IsFiniteSet(cq'[p])
      BY <1>a, <2>1, FS_Subset DEF Reaping
    <2>3. IsFiniteSet(cq[q])
      BY <1>a DEF Reaping
    <2>4. /\ filled' * EntrySize <= cqBufferSize
          /\ Counted(q) => filled' * EntrySize = cqBufferSize
      BY <1>a, <2>1, <2>3, ReapCountFacts
    <2> QED
      BY <1>11, <2>2, <2>4 DEF ReapQueue, ReturnError
  <1>12. CASE ReapAdmin
    <2>1. ReapQueue(0, "reap", "show_cq") /\ 0 \in QueueIds
      BY <1>12 DEF ReapAdmin, QueueIds
    <2>2. CASE pc' = "ended"
      <3>1. cq' = cq
        BY <2>1, <2>2 DEF ReapQueue, ReturnError, completeVars
      <3> QED
        BY <1>a, <2>2, <3>1 DEF Reaping, AdminReapFits, ShownEntriesWereReaped
    <2>3. CASE pc' # "ended"
      BY <1>11, <1>a, <2>1, <2>3
      DEF Reaping, AdminReapFits, ShownEntriesWereReaped
    <2> QED
      BY <2>2, <2>3
  <1>13. CASE ReapIo
    <2>1. ReapQueue(1, "reap_io", "show_io") /\ 1 \in QueueIds
      BY <1>13 DEF ReapIo, QueueIds
    <2>2. CASE pc' = "ended"
      <3>1. cq' = cq
        BY <2>1, <2>2 DEF ReapQueue, ReturnError, completeVars
      <3> QED
        BY <1>a, <2>2, <3>1 DEF Reaping, AdminReapFits, ShownEntriesWereReaped
    <2>3. CASE pc' # "ended"
      BY <1>11, <1>a, <2>1, <2>3
      DEF Reaping, AdminReapFits, ShownEntriesWereReaped
    <2> QED
      BY <2>2, <2>3
  <1>14. CASE Execute
    <2>1. UNCHANGED <<pc, outcome, bufferVars>>
      BY <1>14 DEF Execute
    <2>2. PICK q \in QueueIds : \E i \in Executable(q) :
                 cq' = [cq EXCEPT ![q] = @ \cup {i}]
      BY <1>14 DEF Execute
    <2>3. PICK i : cq' = [cq EXCEPT ![q] = @ \cup {i}]
      BY <2>2
    <2>4. \A p \in QueueIds : cq[p] \subseteq cq'[p]
      BY <1>a, <2>3
    <2>5. \A p \in QueueIds : IsFiniteSet(cq'[p])
      <3>1. IsFiniteSet(cq[q]) /\ IsFiniteSet(cq[q] \cup {i})
        BY <1>a, FS_AddElement DEF Reaping
      <3> QED
        BY <1>a, <2>3, <3>1 DEF Reaping
    <2>6. \A p \in QueueIds : /\ Cardinality(cq[p]) <= Cardinality(cq'[p])
                              /\ Cardinality(cq[p]) \in Nat
                              /\ Cardinality(cq'[p]) \in Nat
      BY <1>a, <2>4, <2>5, FS_Subset, FS_CardinalityType DEF Reaping
    <2>7. ASSUME NEW p \in QueueIds, Counted(p)
          PROVE  Counted(p)'
      <3>1. cqRemaining' = cqRemaining /\ cqBufferSize' = cqBufferSize
        BY <2>1 DEF bufferVars
      <3>2. cqRemaining \in Nat
        BY <1>a DEF ControlWords
      <3> QED
        BY <2>6, <2>7, <3>1, <3>2 DEF Counted
    <2> QED
      BY <1>a, <2>1, <2>5, <2>7
      DEF bufferVars, QueueIds, Reaping, AdminReapFits, ShownEntriesWereReaped
  <1> QED
    BY <1>0, <1>1, <1>2, <1>3, <1>4, <1>5, <1>6, <1>8, <1>9, <1>10, <1>12,
       <1>13, <1>14 DEF Next, MainStep, Moves

-----------------------------------------------------------------------------
(* MainInv holds when main() starts. *)
LEMMA MainInitInv == Init => MainInv
  <1> SUFFICES ASSUME Init
               PROVE  MainInv
    OBVIOUS
  <1>1. DriveInv
    BY DriveInitInv DEF Init
  <1>a. /\ tail \in [QueueIds -> -MaxLeft..0] /\ MaxLeft \in Nat
        /\ cq \in [QueueIds -> SUBSET (Oldest..0)]
        /\ reaped \in [QueueIds -> SUBSET (Oldest..0)]
        /\ Oldest \in Int /\ LeavesWhatItFinds
    BY MaxLeftAssumption DEF Init, Oldest
  <1>2. MainTypeOK
    <2>1. /\ tail \in [QueueIds -> Int] /\ cq \in [QueueIds -> SUBSET Int]
          /\ reaped \in [QueueIds -> SUBSET Int]
      BY <1>a
    <2> QED
      BY <1>1, <2>1, ZeroFacts
      DEF Init, DriveInv, MainTypeOK, MainSteps, QueueIds
  <1>3. Submitted /\ Backed
    <2>1. tail[0] <= 0 /\ tail[1] <= 0 /\ tail[0] \in Int /\ tail[1] \in Int
      BY <1>a DEF QueueIds
    <2> QED
      BY <2>1, NAdminAssumption
      DEF Init, Submitted, Backed, QueueIds, BeforeSend, BeforeRing, AfterRing
  <1>4. Reaping
    <2>1. IsFiniteSet(Oldest..0)
      BY <1>a, FS_Interval
    <2>2. \A q \in QueueIds : cq[q] \subseteq Oldest..0
      BY <1>a
    <2>3. \A q \in QueueIds : IsFiniteSet(cq[q])
      BY <2>1, <2>2, FS_Subset
    <2> QED
      BY <2>3 DEF Init, Reaping, AdminReapFits, ShownEntriesWereReaped
  <1> QED
    BY <1>1, <1>2, <1>3, <1>4, <1>a DEF MainInv

(* Every step of main(), of the controller and every kill preserves it. *)
LEMMA MainNextInv == MainInv /\ [Next]_vars => MainInv'
  <1>1. MainInv /\ [Next]_vars => DriveInv'
    BY NextDrive, DriveNextInv DEF MainInv
  <1> QED
    BY <1>1, TypeInv, SubmittedInv, BackedInv, LeavesInv, ReapingInv DEF MainInv

(* The inductive invariant of main() and the controller: where main()      *)
(* stands fixes how many commands are queued and shown and which queues    *)
(* have memory, and no completion an inquiry counted is lost to the reap,  *)
(* whatever earlier programs have left.                                    *)
THEOREM MainInvariance == Spec => []MainInv
  BY MainInitInv, MainNextInv, PTL DEF Spec

(* Every variable keeps its range.                                         *)
THEOREM MainTypeCorrect == Spec => []MainTypeOK
  <1>1. MainInv => MainTypeOK
    BY DEF MainInv
  <1> QED
    BY <1>1, MainInvariance, PTL

(* The doorbell shows the whole admin batch or nothing of it, for every    *)
(* length of the batch and every number of commands left over.             *)
THEOREM BatchAllOrNothingHolds == Spec => BatchAllOrNothing
  <1>1. MainInv /\ [Next]_vars
           => [tail'[0] # tail[0] => tail[0] <= 0 /\ tail'[0] = NAdmin]_vars
    <2> SUFFICES ASSUME MainInv, [Next]_vars, tail'[0] # tail[0]
                 PROVE  tail[0] <= 0 /\ tail'[0] = NAdmin
      OBVIOUS
    <2>0. tail \in [QueueIds -> Int] /\ 0 \in QueueIds /\ 1 \in QueueIds
      BY PlaceTypes
    <2>1. CASE RingAdmin
      <3>1. pc = "ring" /\ tail'[0] = tailVirt[0]
        BY <2>0, <2>1 DEF RingAdmin, Ring, Continue, ReturnError, submitVars
      <3> QED
        BY <3>1 DEF MainInv, Submitted, BeforeRing
    <2>2. CASE RingIo
      BY <2>0, <2>2 DEF RingIo, Ring, ReturnError, submitVars
    <2>3. CASE CallInitDrive \/ RunInitDrive
      BY <2>0, <2>3, InitStepFacts
    <2>4. CASE Kill \/ Moves \/ Execute \/ UNCHANGED vars
      BY <2>4, MovesFacts DEF Kill, Execute, vars, mainVars, submitVars
    <2>5. CASE \/ PrepareIocq \/ SendCreateIocq \/ PrepareIosq
               \/ SendCreateIosq \/ SendBatch \/ SendRead
      BY <2>5 DEF PrepareIocq, SendCreateIocq, PrepareIosq, SendCreateIosq,
                  SendBatch, SendRead, Prepare, SendAdmin, Enqueue, ReturnError,
                  submitVars
    <2>6. CASE InquireAdmin \/ MallocCqBuffer \/ ReapAdmin \/ InquireIo \/ ReapIo
      BY <2>6 DEF InquireAdmin, MallocCqBuffer, ReapAdmin, InquireIo, ReapIo,
                  Inquire, ReapQueue, ReturnError, submitVars
    <2> QED
      BY <2>1, <2>2, <2>3, <2>4, <2>5, <2>6 DEF Next, MainStep, Moves
  <1> QED
    BY <1>1, MainInvariance, PTL DEF Spec, BatchAllOrNothing

(* Whatever a run of main() leaves behind has the shape Init allows: what  *)
(* is proved of one run holds of every run in a sequence of them.          *)
THEOREM LeavesWhatItFindsHolds == Spec => []LeavesWhatItFinds
  <1>1. MainInv => LeavesWhatItFinds
    BY DEF MainInv
  <1> QED
    BY <1>1, MainInvariance, PTL

(* No read is queued before the whole batch was shown and both I/O queues  *)
(* have driver memory.                                                     *)
THEOREM ReadAfterBatchHolds == Spec => []ReadAfterBatch
  <1>1. MainInv => ReadAfterBatch
    BY DEF MainInv, MainTypeOK, MainSteps, Submitted, Backed, ReadAfterBatch,
           BeforeSend, BeforeRing, AfterRing
  <1> QED
    BY <1>1, MainInvariance, PTL

(* When main() returns 0, it has rung for every command it queued.         *)
THEOREM NothingStrandedHolds == Spec => []NothingStranded
  <1>1. MainInv => NothingStranded
    BY DEF MainInv, MainTypeOK, QueueIds, Submitted, NothingStranded
  <1> QED
    BY <1>1, MainInvariance, PTL

(* The first reap stays within cq_buffer, whatever the inquiry answered    *)
(* and for every number of waiting completions, the sixteen-bit products   *)
(* that wrap included.                                                     *)
THEOREM AdminReapFitsHolds == Spec => []AdminReapFits
  <1>1. MainInv => AdminReapFits
    BY DEF MainInv, Reaping
  <1> QED
    BY <1>1, MainInvariance, PTL

(* What main() prints as "CQ data" after a good inquiry was written by the *)
(* reap before it, for every number of waiting completions.                *)
THEOREM ShownEntriesWereReapedHolds == Spec => []ShownEntriesWereReaped
  <1>1. MainInv => ShownEntriesWereReaped
    BY DEF MainInv, Reaping
  <1> QED
    BY <1>1, MainInvariance, PTL

(* The controller never holds an I/O queue without driver memory, and has  *)
(* no visible command left to create one.                                  *)
THEOREM CreateFollowsPrepareHolds == Spec => []CreateFollowsPrepare
  <1>1. MainInv => CreateFollowsPrepare
    BY DEF MainInv, LeavesWhatItFinds
  <1> QED
    BY <1>1, MainInvariance, PTL

-----------------------------------------------------------------------------
(* Termination without fairness: main() cannot go on for ever.             *)

(* What StepsLeft counts is a number, and there is a step left until main()*)
(* has ended.                                                              *)
LEMMA StepsLeftFacts ==
    ASSUME MainInv
    PROVE  /\ StepsLeft \in Nat /\ StepsLeft <= NAdmin + 29
           /\ pc # "ended" => StepsLeft > 0
           /\ tailVirt[0] \in Nat /\ NAdmin \in Nat
           /\ pc # "ended" => tailVirt[0] <= NAdmin
  <1>1. tailVirt[0] \in Nat /\ NAdmin \in Nat
    BY NAdminAssumption DEF MainInv, MainTypeOK, QueueIds
  <1>2. pc \in MainSteps \cup {"ended"}
    BY DEF MainInv, MainTypeOK
  <1>3. ipc \in Steps \cup Ended
    BY DEF MainInv, DriveInv, DriveTypeOK
  <1>4. pc # "ended" => tailVirt[0] <= NAdmin
    BY <1>1, <1>2, NAdminAssumption
    DEF MainInv, Submitted, MainSteps, BeforeSend, AfterRing
  <1>5. /\ pc # "ended" => MainStepsLeft[pc] \in 1..29
        /\ pc = "init" => MainStepsLeft[pc] = 17
    BY <1>2 DEF MainSteps, MainStepsLeft
  <1>6. InitStepsLeft[ipc] \in 0..10
    BY <1>3 DEF Steps, Ended, InitStepsLeft
  <1> QED
    BY <1>1, <1>4, <1>5, <1>6 DEF StepsLeft

(* Every step of main() uses up a step, in init_drive() and outside. *)
LEMMA StepsLeftFalls ==
    ASSUME MainInv, MainStep
    PROVE  StepsLeft' < StepsLeft
  <1>1. /\ tailVirt[0] \in Nat /\ NAdmin \in Nat
        /\ StepsLeft \in Nat
        /\ pc # "ended" => StepsLeft > 0 /\ tailVirt[0] <= NAdmin
    BY StepsLeftFacts
  <1>2. CASE pc # "ended" /\ pc' = "ended"
    BY <1>1, <1>2 DEF StepsLeft
  <1>3. ASSUME NEW from, NEW to, Continue(from, to), UNCHANGED tailVirt,
               from \notin {"init", "ended"}, to \notin {"init", "ended"},
               MainStepsLeft[from] \in Nat, MainStepsLeft[to] \in Nat,
               MainStepsLeft[to] < MainStepsLeft[from]
        PROVE  StepsLeft' < StepsLeft
    BY <1>1, <1>3 DEF StepsLeft, Continue
  <1>4. ASSUME NEW from, NEW to, Continue(from, to), Enqueue(0),
               from \notin {"init", "ended"}, to \notin {"init", "ended"},
               MainStepsLeft[from] \in Nat, MainStepsLeft[to] \in Nat,
               MainStepsLeft[to] <= MainStepsLeft[from]
        PROVE  StepsLeft' < StepsLeft
    <2>1. tailVirt'[0] = tailVirt[0] + 1
      BY <1>4 DEF Enqueue, MainInv, MainTypeOK, QueueIds
    <2> QED
      BY <1>1, <1>4, <2>1 DEF StepsLeft, Continue
  <1>5. CASE Open
    BY <1>2, <1>3, <1>5 DEF Open, End, MainStepsLeft, submitVars, Continue
  <1>6. CASE MallocBuffers
    <2>1. CASE Continue("malloc", "init")
      <3>1. UNCHANGED <<tailVirt, ipc>>
        BY <1>6 DEF MallocBuffers, submitVars, driveVars, processVars
      <3>2. InitStepsLeft[ipc] \in 0..10
        BY DEF MainInv, DriveInv, DriveTypeOK, Steps, Ended, InitStepsLeft
      <3> QED
        BY <1>1, <2>1, <3>1, <3>2 DEF Continue, StepsLeft, MainStepsLeft
    <2>2. CASE End("malloc", "error")
      BY <1>2, <2>2 DEF End
    <2> QED
      BY <1>6, <2>1, <2>2 DEF MallocBuffers
  <1>7. CASE CallInitDrive \/ RunInitDrive
    <2>1. pc = "init" /\ pc' = "init" /\ UNCHANGED tailVirt
      BY <1>7, InitStepFacts
    <2>2. InitStepsLeft[ipc] \in Nat /\ InitStepsLeft[ipc'] \in Nat
          /\ InitStepsLeft[ipc'] < InitStepsLeft[ipc]
      <3>1. CASE CallInitDrive
        BY <3>1 DEF CallInitDrive, Call, InitStepsLeft
      <3>2. CASE RunInitDrive
        <4>1. ASSUME NEW from \in Steps, NEW to, Goto(from, to),
                     InitStepsLeft[to] \in Nat,
                     InitStepsLeft[to] < InitStepsLeft[from]
              PROVE  /\ InitStepsLeft[ipc] \in Nat
                     /\ InitStepsLeft[ipc'] \in Nat
                     /\ InitStepsLeft[ipc'] < InitStepsLeft[ipc]
          BY <4>1 DEF Goto, Steps, InitStepsLeft
        <4>2. \/ Goto("get_entry_count", "disable")
              \/ Goto("disable", "set_irq") \/ Goto("disable", "returned")
              \/ Goto("set_irq", "create_acq") \/ Goto("set_irq", "returned")
              \/ Goto("create_acq", "create_asq")
              \/ Goto("create_acq", "returned")
              \/ Goto("create_asq", "enable") \/ Goto("create_asq", "returned")
              \/ Goto("enable", "msix_read") \/ Goto("enable", "returned")
              \/ Goto("msix_read", "msix_write")
              \/ Goto("msix_write", "metrics") \/ Goto("msix_write", "exited")
              \/ Goto("metrics", "returned")
          BY <3>2 DEF RunInitDrive, InitDriveStep, GetEntryCount, Disable,
                      SetIrq, CreateAdminCq, CreateAdminSq, Enable, MsixRead,
                      MsixWrite, DeviceMetrics, Return
        <4> QED
          BY <4>1, <4>2 DEF Steps, InitStepsLeft
      <3> QED
        BY <1>7, <3>1, <3>2
    <2> QED
      BY <1>1, <2>1, <2>2 DEF StepsLeft, MainStepsLeft
  <1>8. CASE InitDriveDone
    <2>1. CASE ipc = "returned" /\ Continue("init", "show_registers")
      <3>1. UNCHANGED tailVirt
        BY <1>8 DEF InitDriveDone, submitVars
      <3> QED
        BY <1>1, <2>1, <3>1
        DEF Continue, StepsLeft, MainStepsLeft, InitStepsLeft
    <2>2. CASE End("init", "error")
      BY <1>2, <2>2 DEF End
    <2> QED
      BY <1>8, <2>1, <2>2 DEF InitDriveDone
  <1>9. CASE PrepareIocq \/ PrepareIosq
    BY <1>2, <1>3, <1>9
    DEF PrepareIocq, PrepareIosq, Prepare, ReturnError, End, MainStepsLeft,
        Continue
  <1>10. CASE SendCreateIocq \/ SendCreateIosq
    BY <1>2, <1>4, <1>10
    DEF SendCreateIocq, SendCreateIosq, SendAdmin, ReturnError, End,
        MainStepsLeft, Continue
  <1>11. CASE SendBatch
    <2>1. CASE \E to \in {"batch", "ring"} : Continue("batch", to) /\ Enqueue(0)
      BY <1>4, <2>1 DEF MainStepsLeft
    <2>2. CASE ReturnError("batch")
      BY <1>2, <2>2 DEF ReturnError, End
    <2> QED
      BY <1>11, <2>1, <2>2 DEF SendBatch, SendAdmin
  <1>12. CASE RingAdmin \/ RingIo
    BY <1>2, <1>3, <1>12
    DEF RingAdmin, RingIo, Ring, ReturnError, End, MainStepsLeft, Continue
  <1>13. CASE InquireAdmin \/ InquireIo
    BY <1>3, <1>13
    DEF InquireAdmin, InquireIo, Inquire, submitVars, MainStepsLeft
  <1>14. CASE MallocCqBuffer
    BY <1>2, <1>3, <1>14
    DEF MallocCqBuffer, ReturnError, End, submitVars, MainStepsLeft, Continue
  <1>15. CASE ReapAdmin \/ ReapIo
    BY <1>2, <1>3, <1>15
    DEF ReapAdmin, ReapIo, ReapQueue, ReturnError, End, submitVars,
        MainStepsLeft, Continue
  <1>16. CASE SendRead
    <2>1. CASE Enqueue(1)
      <3>1. tailVirt'[0] = tailVirt[0]
        BY <2>1 DEF Enqueue, MainInv, MainTypeOK, QueueIds
      <3> QED
        BY <1>1, <1>16, <3>1 DEF SendRead, Continue, StepsLeft, MainStepsLeft
    <2>2. CASE UNCHANGED submitVars
      BY <1>3, <1>16, <2>2 DEF SendRead, submitVars, MainStepsLeft
    <2> QED
      BY <1>16, <2>1, <2>2 DEF SendRead
  <1>17. CASE ShowRegisters \/ MallocData
    BY <1>2, <1>3, <1>17
    DEF ShowRegisters, MallocData, End, submitVars, MainStepsLeft, Continue
  <1>18. CASE SleepAdmin \/ SleepIo \/ ShowCq
    BY <1>3, <1>18
    DEF SleepAdmin, SleepIo, ShowCq, Sleep, submitVars, MainStepsLeft
  <1>19. CASE ShowIo
    BY <1>2, <1>19 DEF ShowIo, End
  <1> QED
    BY <1>5, <1>6, <1>7, <1>8, <1>9, <1>10, <1>11, <1>12, <1>13, <1>14, <1>15,
       <1>16, <1>17, <1>18, <1>19 DEF MainStep

(* Neither the controller nor a kill gives main() a step more. *)
LEMMA StepsLeftNeverGrows ==
    ASSUME MainInv, [Next]_vars, StepsLeft' \in Nat
    PROVE  StepsLeft' <= StepsLeft /\ (MainStep => StepsLeft' < StepsLeft)
  <1>1. StepsLeft \in Nat
    BY StepsLeftFacts
  <1>2. MainStep => StepsLeft' < StepsLeft
    BY StepsLeftFalls
  <1>3. StepsLeft' <= StepsLeft
    <2>1. CASE MainStep
      BY <1>1, <1>2, <2>1
    <2>2. CASE Kill
      <3>1. StepsLeft' = 0
        BY <2>2 DEF Kill, End, StepsLeft
      <3> QED
        BY <1>1, <3>1
    <2>3. CASE Execute \/ UNCHANGED vars
      <3>1. UNCHANGED <<pc, ipc, tailVirt>>
        BY <2>3 DEF Execute, vars, driveVars, processVars, mainVars, submitVars
      <3>2. StepsLeft' = StepsLeft
        BY <3>1 DEF StepsLeft
      <3> QED
        BY <1>1, <3>2
    <2> QED
      BY <2>1, <2>2, <2>3 DEF Next
  <1> QED
    BY <1>2, <1>3

(* main() takes at most NAdmin + 29 steps, for every length of the batch   *)
(* and whatever fails: it repeats no call, retries none and polls for      *)
(* nothing, so only a call that does not return can keep it from ending.   *)
THEOREM StepsRunOutHolds == Spec => StepsRunOut
  <1>1. MainInv => StepsLeft \in Nat /\ StepsLeft <= NAdmin + 29
    BY StepsLeftFacts
  <1>2. MainInv => StepsLeft \in Nat
    BY StepsLeftFacts
  <1>3. MainInv /\ [Next]_vars /\ (StepsLeft \in Nat)' =>
            [/\ StepsLeft' <= StepsLeft
             /\ MainStep => StepsLeft' < StepsLeft]_vars
    BY StepsLeftNeverGrows
  <1> QED
    BY <1>1, <1>2, <1>3, MainInvariance, PTL DEF Spec, StepsRunOut
=============================================================================
