---------------------------- MODULE MainProgram ----------------------------
(***************************************************************************)
(* main() of main.c, from open_dev() to the end, running beside the        *)
(* controller.  main() first calls init_drive() (module InitDrive), then   *)
(* queues the admin commands (the two queue creations first), rings the    *)
(* doorbell, sleeps, asks how many completions wait, reaps them, and does  *)
(* the same for one read on the I/O queue it created.                      *)
(*                                                                         *)
(* The driver's queues and the controller are not in the repository; they  *)
(* are what struct nvme_gen_sq, nvme_prep_sq, nvme_reap_inquiry and        *)
(* nvme_reap say of them.  Completions come in any order and at any time:  *)
(* sleep(2) promises nothing about them.                                   *)
(*                                                                         *)
(* The driver outlives the process.  Commands are numbered from 1, the     *)
(* first of this program; those of the programs before it, killed or       *)
(* stopped by an error at any point, are numbered Oldest to 0, and a       *)
(* number in reaped needs no more: it was reaped, or ended by a reset.     *)
(***************************************************************************)
EXTENDS InitDrive, FiniteSets

CONSTANTS
    NAdmin,          \* admin commands in the batch: 14 in main.c
    MaxLeft          \* the most commands earlier programs left in a queue

ASSUME NAdminAssumption == NAdmin \in Nat /\ NAdmin > 2
ASSUME MaxLeftAssumption == MaxLeft \in Nat

VARIABLES
    pc,              \* where main() is
    outcome,         \* how the process ended, "running" until it did
    cqRemaining,     \* local cq_remaining
    cqBufferSize,    \* local cq_buffer_size
    inquiryOk,       \* history: the inquiry behind them succeeded
    cqCap,           \* bytes behind cq_buffer
    filled,          \* completions the last reap wrote to cq_buffer
    prepared,        \* driver: I/O queues it has memory for
    tailVirt,        \* driver: commands copied to a queue
    tail,            \* driver: commands shown to the controller
    cq,              \* completions waiting, by queue
    reaped,          \* completions handed to a program, or given up
    live             \* controller: I/O queues it has created

bufferVars == <<cqRemaining, cqBufferSize, inquiryOk, cqCap, filled>>
submitVars == <<prepared, tailVirt, tail>>
completeVars == <<cq, reaped, live>>
mainVars == <<pc, outcome, bufferVars, submitVars, completeVars>>
vars == <<driveVars, mainVars>>

-----------------------------------------------------------------------------
QueueIds == {0, 1}
IoQueues == {"IOCQ", "IOSQ"}

(* The first two commands of the batch. *)
CreateIocq == 1
CreateIosq == 2

(* The oldest of the commands that earlier programs left. *)
Oldest == 1 - MaxLeft

EntrySize == 16

(* Mutant of Uint16: cq_remaining and cq_buffer_size as wide as an int. *)
Untruncated(n) == n

Uint16(n) == n % 65536

(* What dnvme_cq_remain() becomes in a uint16_t when the inquiry fails. *)
InquiryFailure == Uint16(-1)

Least(m, n) == IF m <= n THEN m ELSE n

(* Entries a reap moves: no more than asked for, than fit, than wait. *)
ReapCount(q) ==
    Least(cqRemaining, Least(cqBufferSize \div EntrySize, Cardinality(cq[q])))

SubmissionQueueExists(q) ==
    IF q = 0 THEN "ASQ" \in adminQ ELSE "IOSQ" \in prepared

CompletionQueueExists(q) ==
    IF q = 0 THEN "ACQ" \in adminQ ELSE "IOCQ" \in prepared

(* What the controller has been shown and has not completed. *)
Unfinished(q) == (Oldest..tail[q]) \ (cq[q] \cup reaped[q])

-----------------------------------------------------------------------------
(* The controller never holds an I/O queue the driver has no memory for,   *)
(* and is never left a visible command that may create one: whatever it    *)
(* executes of the admin queue, and in whatever order, both PREPAREs have  *)
(* succeeded before.                                                       *)
CreateFollowsPrepare ==
    /\ live \subseteq prepared
    /\ Unfinished(0) # {} => prepared = IoQueues

(* Commands are shown in order, a completion waits or was handed out but   *)
(* not both, and commands are in a queue that exists.                      *)
QueueInOrder(q) ==
    /\ Oldest <= tail[q] + 1 /\ tail[q] <= tailVirt[q]
    /\ cq[q] \cup reaped[q] \subseteq Oldest..tail[q]
    /\ cq[q] \cap reaped[q] = {}
    /\ (Oldest..tailVirt[q]) \ reaped[q] # {} => SubmissionQueueExists(q)

(* Wherever main() fails, exits or is killed, it leaves the driver and the *)
(* controller in a state it can start from: nothing a run strands is out   *)
(* of what the next one copes with.                                        *)
LeavesWhatItFinds ==
    /\ \A q \in QueueIds : QueueInOrder(q)
    /\ CreateFollowsPrepare

-----------------------------------------------------------------------------
(* main() starts after any programs that ended in any way. *)
Init ==
    /\ DriveInit
    /\ pc = "open"
    /\ outcome = "running"
    /\ cqRemaining = 0
    /\ cqBufferSize = 0
    /\ inquiryOk = FALSE
    /\ cqCap = 0
    /\ filled = 0
    /\ prepared \in SUBSET IoQueues
    /\ tailVirt = [q \in QueueIds |-> 0]
    /\ tail \in [QueueIds -> -MaxLeft..0]
    /\ cq \in [QueueIds -> SUBSET (Oldest..0)]
    /\ reaped \in [QueueIds -> SUBSET (Oldest..0)]
    /\ live \in SUBSET prepared
    /\ LeavesWhatItFinds

Continue(from, to) ==
    /\ pc = from
    /\ pc' = to
    /\ UNCHANGED outcome

End(from, how) ==
    /\ pc = from
    /\ pc' = "ended"
    /\ outcome' = how

(* if (ret) return ret; *)
ReturnError(from) ==
    /\ End(from, "error")
    /\ UNCHANGED <<bufferVars, submitVars, completeVars>>

-----------------------------------------------------------------------------
Open ==
    /\ \/ Continue("open", "malloc")
       \/ End("open", "error")
    /\ UNCHANGED <<driveVars, bufferVars, submitVars, completeVars>>

MallocBuffers ==
    /\ \/ Continue("malloc", "init")
       \/ End("malloc", "error")
    /\ UNCHANGED <<driveVars, bufferVars, submitVars, completeVars>>

CallInitDrive ==
    /\ pc = "init"
    /\ ipc = "idle"
    /\ Call
    /\ UNCHANGED mainVars

(* "Controller reset without affecting Admin Q": the commands that were    *)
(* copied to the admin queue and not shown stay there, and so do its       *)
(* completions; what the controller was executing is over, and the I/O     *)
(* queues are gone with all they held.                                     *)
ControllerReset ==
    /\ prepared' = {}
    /\ live' = {}
    /\ tail' = [tail EXCEPT ![1] = 0]
    /\ cq' = [cq EXCEPT ![1] = {}]
    /\ reaped' = [q \in QueueIds |-> IF q = 0 THEN reaped[0] \cup Unfinished(0)
                                     ELSE Oldest..0]
    /\ UNCHANGED tailVirt

(* A failing ST_DISABLE may have reset the controller. *)
RunInitDrive ==
    /\ pc = "init"
    /\ InitDriveStep
    /\ \/ ipc = "disable" /\ ~enabled' /\ ControllerReset
       \/ ipc # "disable" /\ UNCHANGED <<submitVars, completeVars>>
       \/ ipc' = "returned" /\ UNCHANGED <<submitVars, completeVars>>
    /\ UNCHANGED <<pc, outcome, bufferVars>>

(* ret = init_drive(fd) is overwritten on the next line: main() goes on    *)
(* whatever the result; only exit() inside the library stops it.           *)
InitDriveDone ==
    /\ \/ ipc = "returned" /\ Continue("init", "show_registers")
       \/ ipc = "exited" /\ End("init", "error")
    /\ UNCHANGED <<driveVars, bufferVars, submitVars, completeVars>>

ShowRegisters ==
    /\ \/ Continue("show_registers", "prepare_iocq")
       \/ End("show_registers", "error")
    /\ UNCHANGED <<driveVars, bufferVars, submitVars, completeVars>>

(* Mutant of Prepare: the command is sent whatever PREPARE answers. *)
PrepareUnchecked(queue, from, to) ==
    /\ Continue(from, to)
    /\ prepared' \in {prepared, prepared \cup {queue}}
    /\ UNCHANGED <<driveVars, bufferVars, tailVirt, tail, completeVars>>

(* The two ioctls of ioctl_create_iocq() and of ioctl_create_iosq(): memory *)
(* for the queue first, then the command that names it.                     *)
Prepare(queue, from, to) ==
    /\ \/ /\ Continue(from, to)
          /\ prepared' = prepared \cup {queue}
          /\ UNCHANGED <<bufferVars, tailVirt, tail, completeVars>>
       \/ ReturnError(from)
    /\ UNCHANGED driveVars

PrepareIocq == Prepare("IOCQ", "prepare_iocq", "send_iocq")
PrepareIosq == Prepare("IOSQ", "prepare_iosq", "send_iosq")

(* Mutant of Enqueue: the command is shown to the controller at once. *)
EnqueueAndRing(q) ==
    /\ SubmissionQueueExists(q)
    /\ tailVirt' = [tailVirt EXCEPT ![q] = @ + 1]
    /\ tail' = [tail EXCEPT ![q] = tailVirt'[q]]
    /\ UNCHANGED <<bufferVars, prepared, completeVars>>

(* NVME_IOCTL_SEND_64B_CMD: one more command in submission queue q. *)
Enqueue(q) ==
    /\ SubmissionQueueExists(q)
    /\ tailVirt' = [tailVirt EXCEPT ![q] = @ + 1]
    /\ UNCHANGED <<bufferVars, prepared, tail, completeVars>>

(* Mutant of SendAdmin: an error leads to the doorbell, not out of main(). *)
SendAdminThenRing(from, to) ==
    /\ \/ Continue(from, to) /\ Enqueue(0)
       \/ Continue(from, "ring") /\ UNCHANGED <<bufferVars, submitVars, completeVars>>
    /\ UNCHANGED driveVars

SendAdmin(from, to) ==
    /\ \/ Continue(from, to) /\ Enqueue(0)
       \/ ReturnError(from)
    /\ UNCHANGED driveVars

SendCreateIocq == SendAdmin("send_iocq", "prepare_iosq")
SendCreateIosq == SendAdmin("send_iosq", "batch")

(* Identify and the power states; every failure returns before the ring. *)
SendBatch ==
    SendAdmin("batch", IF tailVirt[0] + 1 < NAdmin THEN "batch" ELSE "ring")

(* NVME_IOCTL_RING_SQ_DOORBELL *)
Ring(q, from, to) ==
    /\ \/ /\ Continue(from, to)
          /\ SubmissionQueueExists(q)
          /\ tail' = [tail EXCEPT ![q] = tailVirt[q]]
          /\ UNCHANGED <<bufferVars, prepared, tailVirt, completeVars>>
       \/ ReturnError(from)
    /\ UNCHANGED driveVars

(* Mutant of Sleep: it waits until every command shown has completed. *)
SleepUntilCompleted(from, to) ==
    /\ \A q \in QueueIds : Cardinality(cq[q] \cup reaped[q]) = tail[q]
    /\ Continue(from, to)
    /\ UNCHANGED <<driveVars, bufferVars, submitVars, completeVars>>

Sleep(from, to) ==
    /\ Continue(from, to)
    /\ UNCHANGED <<driveVars, bufferVars, submitVars, completeVars>>

(* Mutant of Inquire: room for one entry more than there are. *)
InquireOneMore(q, from, to) ==
    /\ Continue(from, to)
    /\ CompletionQueueExists(q)
    /\ inquiryOk' = TRUE
    /\ cqRemaining' = Cardinality(cq[q])
    /\ cqBufferSize' = (cqRemaining' + 1) * EntrySize
    /\ UNCHANGED <<driveVars, cqCap, filled, submitVars, completeVars>>

(* cq_remaining = dnvme_cq_remain(); cq_buffer_size = cq_remaining * 16, in *)
(* sixteen bits each; a failing inquiry is not looked at.                   *)
Inquire(q, from, to) ==
    /\ Continue(from, to)
    /\ \/ /\ CompletionQueueExists(q)
          /\ inquiryOk' = TRUE
          /\ cqRemaining' = Uint16(Cardinality(cq[q]))
       \/ /\ inquiryOk' = FALSE
          /\ cqRemaining' = InquiryFailure
    /\ cqBufferSize' = Uint16(cqRemaining' * EntrySize)
    /\ UNCHANGED <<driveVars, cqCap, filled, submitVars, completeVars>>

(* Mutant of MallocCqBuffer: bytes for as many entries. *)
MallocCqEntries ==
    /\ Continue("malloc_cq", "reap")
    /\ cqCap' = cqRemaining
    /\ UNCHANGED <<driveVars, cqRemaining, cqBufferSize, inquiryOk, filled,
                   submitVars, completeVars>>

(* posix_memalign() gives a buffer for 0 bytes, too. *)
MallocCqBuffer ==
    /\ \/ /\ Continue("malloc_cq", "reap")
          /\ cqCap' = cqBufferSize
          /\ UNCHANGED <<cqRemaining, cqBufferSize, inquiryOk, filled,
                         submitVars, completeVars>>
       \/ ReturnError("malloc_cq")
    /\ UNCHANGED driveVars

(* NVME_IOCTL_REAP; num_reaped is dropped by ioctl_cq_reap(). *)
ReapQueue(q, from, to) ==
    /\ \/ /\ Continue(from, to)
          /\ CompletionQueueExists(q)
          /\ \E S \in SUBSET cq[q] :
                /\ Cardinality(S) = ReapCount(q)
                /\ cq' = [cq EXCEPT ![q] = @ \ S]
                /\ reaped' = [reaped EXCEPT ![q] = @ \cup S]
                /\ filled' = Cardinality(S)
          /\ UNCHANGED <<cqRemaining, cqBufferSize, inquiryOk, cqCap,
                         submitVars, live>>
       \/ ReturnError(from)
    /\ UNCHANGED driveVars

(* Mutants of RingAdmin and RingIo: the result is not looked at. *)
RingAdminUnchecked ==
    \/ Ring(0, "ring", "sleep")
    \/ Sleep("ring", "sleep")

RingIoUnchecked ==
    \/ Ring(1, "ring_io", "sleep_io")
    \/ Sleep("ring_io", "sleep_io")

RingAdmin == Ring(0, "ring", "sleep")
SleepAdmin == Sleep("sleep", "inquire")
InquireAdmin == Inquire(0, "inquire", "malloc_cq")
ReapAdmin == ReapQueue(0, "reap", "show_cq")

(* show_raw_data(cq_buffer, cq_buffer_size), then the buffer of the read. *)
ShowCq ==
    /\ Continue("show_cq", "malloc_data")
    /\ UNCHANGED <<driveVars, bufferVars, submitVars, completeVars>>

MallocData ==
    /\ \/ Continue("malloc_data", "read")
       \/ End("malloc_data", "error")
    /\ UNCHANGED <<driveVars, bufferVars, submitVars, completeVars>>

(* The result of dnvme_nvm_read() is not looked at. *)
SendRead ==
    /\ Continue("read", "ring_io")
    /\ \/ Enqueue(1)
       \/ UNCHANGED <<bufferVars, submitVars, completeVars>>
    /\ UNCHANGED driveVars

(* Mutant of ReapIo: nothing there yet, ask again. *)
ReapIoPolling ==
    \/ cqRemaining > 0 /\ ReapQueue(1, "reap_io", "show_io")
    \/ cqRemaining = 0 /\ Sleep("reap_io", "inquire_io")

RingIo == Ring(1, "ring_io", "sleep_io")
SleepIo == Sleep("sleep_io", "inquire_io")
InquireIo == Inquire(1, "inquire_io", "reap_io")   \* no new cq_buffer
ReapIo == ReapQueue(1, "reap_io", "show_io")

ShowIo ==
    /\ End("show_io", "ok")
    /\ UNCHANGED <<driveVars, bufferVars, submitVars, completeVars>>

MainStep ==
    \/ Open \/ MallocBuffers
    \/ CallInitDrive \/ RunInitDrive \/ InitDriveDone
    \/ ShowRegisters
    \/ PrepareIocq \/ SendCreateIocq \/ PrepareIosq \/ SendCreateIosq
    \/ SendBatch \/ RingAdmin \/ SleepAdmin \/ InquireAdmin
    \/ MallocCqBuffer \/ ReapAdmin \/ ShowCq
    \/ MallocData \/ SendRead \/ RingIo \/ SleepIo \/ InquireIo \/ ReapIo
    \/ ShowIo

-----------------------------------------------------------------------------
(* The controller takes any visible command of a queue it knows.           *)
Executable(q) ==
    IF enabled /\ (q = 0 \/ "IOSQ" \in live) THEN Unfinished(q) ELSE {}

(* The queue an admin command may create; one of an earlier program may be *)
(* either creation.  The creation of the submission queue is refused when  *)
(* its completion queue does not exist.                                    *)
Created(q, i) ==
    {k \in IoQueues :
        /\ q = 0
        /\ i <= 0 \/ i = (IF k = "IOCQ" THEN CreateIocq ELSE CreateIosq)
        /\ k = "IOSQ" => "IOCQ" \in live}

(* Any command may be refused. *)
Execute ==
    \E q \in QueueIds : \E i \in Executable(q) :
        /\ cq' = [cq EXCEPT ![q] = @ \cup {i}]
        /\ live' \in {live} \cup {live \cup {k} : k \in Created(q, i)}
        /\ UNCHANGED <<driveVars, pc, outcome, bufferVars, submitVars, reaped>>

(* The process is killed, inside init_drive() or outside. *)
Kill ==
    /\ pc # "ended"
    /\ End(pc, "killed")
    /\ \/ Crash
       \/ ipc \notin Steps /\ UNCHANGED driveVars
    /\ UNCHANGED <<bufferVars, submitVars, completeVars>>

Next == MainStep \/ Execute \/ Kill

(* Every call main() makes returns; the controller owes nothing. *)
Spec == Init /\ [][Next]_vars
FairSpec == Spec /\ WF_vars(MainStep)

-----------------------------------------------------------------------------
MainSteps == {"open", "malloc", "init", "show_registers", "prepare_iocq",
              "send_iocq", "prepare_iosq", "send_iosq", "batch", "ring",
              "sleep", "inquire", "malloc_cq", "reap", "show_cq",
              "malloc_data", "read", "ring_io", "sleep_io", "inquire_io",
              "reap_io", "show_io"}

(* Every variable keeps its range.                                         *)
MainTypeOK ==
    /\ DriveTypeOK
    /\ pc \in MainSteps \cup {"ended"}
    /\ outcome \in {"running", "ok", "error", "killed"}
    /\ cqRemaining \in ControlWords
    /\ cqBufferSize \in ControlWords
    /\ inquiryOk \in BOOLEAN
    /\ cqCap \in ControlWords
    /\ filled \in Nat
    /\ prepared \in SUBSET IoQueues
    /\ tailVirt \in [QueueIds -> Nat]
    /\ tail \in [QueueIds -> Int]
    /\ cq \in [QueueIds -> SUBSET Int]
    /\ reaped \in [QueueIds -> SUBSET Int]
    /\ live \in SUBSET IoQueues

(* The doorbell shows the controller this program's whole admin batch or   *)
(* nothing.  What an earlier program copied and never rang for goes with   *)
(* it, for ST_DISABLE leaves the admin queue as it is: a part of a batch   *)
(* that a failure or a kill leaves behind is shown by the next doorbell,   *)
(* but never without the creations that the program ringing it has queued. *)
BatchAllOrNothing ==
    [][tail'[0] # tail[0] => tail[0] <= 0 /\ tail'[0] = NAdmin]_vars

(* The read reaches the I/O queue only after the whole admin batch was     *)
(* shown to the controller, and with driver memory behind both of its      *)
(* queues: no error on the way leads main() to the I/O phase.              *)
ReadAfterBatch ==
    tailVirt[1] > 0 => tail[0] = NAdmin /\ prepared = IoQueues

(* Every entry main() prints as "CQ data" was written by the reap before:  *)
(* completions that arrive between the inquiry and the reap are left for   *)
(* later, and none can have gone.                                          *)
ShownEntriesWereReaped ==
    pc \in {"show_cq", "show_io"} /\ inquiryOk => filled * EntrySize = cqBufferSize

(* The first reap never writes past cq_buffer, even when the inquiry that  *)
(* sized it failed.                                                        *)
AdminReapFits ==
    pc \in {"show_cq", "malloc_data", "read", "ring_io", "sleep_io",
            "inquire_io", "reap_io"} => filled * EntrySize <= cqCap

(* When main() returns 0, every command that was queued has been shown to  *)
(* the controller, though the results of init_drive() and of the read are  *)
(* ignored.                                                                *)
NothingStranded ==
    outcome = "ok" => tail = tailVirt /\ tail[0] = NAdmin

(* main() ends, however little the controller does: it sleeps, it does not *)
(* wait.                                                                   *)
Termination == <>(pc = "ended")

(* The steps that main() can still take, from each place on.  A command of *)
(* the batch that is not queued yet is one step more.                      *)
MainStepsLeft ==
    [open |-> 29, malloc |-> 28, init |-> 17, show_registers |-> 16,
     prepare_iocq |-> 15, send_iocq |-> 14, prepare_iosq |-> 14,
     send_iosq |-> 13, batch |-> 13, ring |-> 13, sleep |-> 12, inquire |-> 11,
     malloc_cq |-> 10, reap |-> 9, show_cq |-> 8, malloc_data |-> 7, read |-> 6,
     ring_io |-> 5, sleep_io |-> 4, inquire_io |-> 3, reap_io |-> 2,
     show_io |-> 1]

InitStepsLeft ==
    [idle |-> 10, get_entry_count |-> 9, disable |-> 8, set_irq |-> 7,
     create_acq |-> 6, create_asq |-> 5, enable |-> 4, msix_read |-> 3,
     msix_write |-> 2, metrics |-> 1, returned |-> 0, exited |-> 0,
     killed |-> 0]

StepsLeft ==
    IF pc = "ended" THEN 0
    ELSE MainStepsLeft[pc] + (NAdmin - tailVirt[0]) +
         (IF pc = "init" THEN InitStepsLeft[ipc] ELSE 0)

(* main() repeats no call and asks nothing twice, whatever fails and       *)
(* whatever the controller does or leaves undone: each step uses up one of *)
(* those it has left, NAdmin + 29 when it starts.                          *)
StepsRunOut ==
    /\ [](StepsLeft \in Nat /\ StepsLeft <= NAdmin + 29)
    /\ [][StepsLeft' <= StepsLeft /\ (MainStep => StepsLeft' < StepsLeft)]_vars

-----------------------------------------------------------------------------
(* The stage of each command, as module CommandLifecycle has it.           *)
LifeCommands == ({0} \X (1..NAdmin)) \cup {<<1, 1>>}

StageOf(q, i) ==
    CASE i \in reaped[q] -> "reaped"
      [] i \in cq[q] -> "completed"
      [] i \notin reaped[q] \cup cq[q] /\ i <= tail[q] -> "visible"
      [] i > tail[q] /\ i <= tailVirt[q] -> "queued"
      [] OTHER -> "unsent"

Lifecycle == INSTANCE CommandLifecycle WITH
    Commands <- LifeCommands,
    Queues <- QueueIds,
    queueOf <- [c \in LifeCommands |-> c[1]],
    life <- [c \in LifeCommands |-> StageOf(c[1], c[2])]

(* main(), the driver's queues and the controller together implement the   *)
(* promise: no command is executed before its doorbell, reaped before it   *)
(* completes, or completed or reaped twice.                                *)
ImplementsLifecycle == Lifecycle!LifeSpec

-----------------------------------------------------------------------------
(* Inductive invariant.  Where main() stands says how many commands it has *)
(* queued and shown, and which queues have memory; nothing of what earlier *)
(* programs left is out of the shape Init allows; and what an inquiry      *)
(* counted is still there when the reap comes.                             *)
BeforeSend == {"open", "malloc", "init", "show_registers", "prepare_iocq",
               "send_iocq"}
BeforeRing == BeforeSend \cup {"prepare_iosq", "send_iosq", "batch", "ring"}
AfterRing == {"sleep", "inquire", "malloc_cq", "reap", "show_cq",
              "malloc_data", "read", "ring_io", "sleep_io", "inquire_io",
              "reap_io", "show_io"}
AfterReap == {"show_cq", "malloc_data", "read", "ring_io", "sleep_io",
              "inquire_io", "reap_io"}

Submitted ==
    /\ pc \in BeforeSend => tailVirt[0] = 0
    /\ pc \in {"prepare_iosq", "send_iosq"} => tailVirt[0] = 1
    /\ pc = "batch" => tailVirt[0] < NAdmin
    /\ pc = "ring" => tailVirt[0] = NAdmin
    /\ pc \in BeforeRing => tail[0] <= 0 /\ tailVirt[1] = 0
    /\ pc \in AfterRing => tail[0] = NAdmin /\ tailVirt[0] = NAdmin
    /\ pc \in {"sleep_io", "inquire_io", "reap_io", "show_io"} =>
          tail[1] = tailVirt[1]
    /\ tail[0] <= 0 \/ tail[0] = NAdmin
    /\ tail[1] > 0 \/ tailVirt[1] > 0 => tail[0] = NAdmin
    /\ outcome = "ok" =>
          pc = "ended" /\ tail[0] = NAdmin /\ tailVirt[0] = NAdmin
                      /\ tail[1] = tailVirt[1]

Backed ==
    /\ pc \in {"send_iocq", "prepare_iosq"} => "IOCQ" \in prepared
    /\ pc \in {"send_iosq", "batch", "ring"} \cup AfterRing => prepared = IoQueues
    /\ tail[0] = NAdmin => prepared = IoQueues

(* The inquiry of pc is on queue q and nothing has been reaped since.      *)
Counted(q) ==
    /\ cqBufferSize = Uint16(cqRemaining * EntrySize)
    /\ cqRemaining <= Cardinality(cq[q])

Reaping ==
    /\ \A q \in QueueIds : IsFiniteSet(cq[q])
    /\ pc = "reap" => cqCap = cqBufferSize
    /\ pc \in {"malloc_cq", "reap"} /\ inquiryOk => Counted(0)
    /\ pc = "reap_io" /\ inquiryOk => Counted(1)
    /\ AdminReapFits
    /\ ShownEntriesWereReaped

MainInv ==
    /\ DriveInv
    /\ MainTypeOK
    /\ Submitted
    /\ Backed
    /\ LeavesWhatItFinds
    /\ Reaping

-----------------------------------------------------------------------------
(* dnvme_interface.h describes nvme_reap.size as "Size of buffer to fill   *)
(* data to": what main() passes is the size of the buffer it passes.       *)
ReapSizeIsBufferSize ==
    pc \in {"reap", "reap_io"} => cqBufferSize <= cqCap
=============================================================================
