---------------------------- MODULE SharedQueues ----------------------------
(***************************************************************************)
(* Several programs on one drive.  Each runs main(): it resets and enables *)
(* the controller, asks for the I/O queue pair and has it created, queues  *)
(* a read, rings, counts the completions, reaps them and shows them.  They *)
(* share the queue pair the driver keeps, so one program's doorbell shows  *)
(* the commands of all, one's reap takes the completions of all, and one's *)
(* init_drive() takes the queues from under the others.  Every call may    *)
(* fail, and a program may be killed anywhere; what it queued stays in the *)
(* driver.                                                                 *)
(*                                                                         *)
(* The driver's queue is struct nvme_gen_sq: a ring of Elements slots with *)
(* the pointers head_ptr, tail_ptr and tail_ptr_virt.  Of the admin queue  *)
(* only the two creations are kept.  One assumption is made on the driver: *)
(* it refuses a command when the ring is full.                             *)
(***************************************************************************)
EXTENDS Integers, FiniteSets

CONSTANTS
    Programs,
    Commands,        \* reads the programs may queue, each of them once
    Elements,        \* slots of the queue: qsize in main.c
    MaxResets        \* bound: controller resets in a behaviour

ASSUME SharedAssumption ==
    /\ IsFiniteSet(Commands)
    /\ Elements \in Nat /\ Elements > 1
    /\ MaxResets \in Nat

VARIABLES
    pc,              \* where each program is
    remaining,       \* its cq_remaining
    size,            \* its cq_buffer_size
    inquiryOk,       \* history: the inquiry behind them succeeded
    filled,          \* completions its last reap wrote
    disturbed,       \* history: others reaped or reset between its
                     \* inquiry and its reap
    issued,          \* history: commands it has queued
    enabled,         \* the controller is enabled
    memory,          \* driver: the queues PREPARE has given memory
    sent,            \* creations in the admin queue, not shown
    shown,           \* creations shown to the controller
    live,            \* controller: the queues it has created
    head,            \* driver: head_ptr
    tail,            \* driver: tail_ptr
    tailVirt,        \* driver: tail_ptr_virt
    slot,            \* driver: the entries of the submission queue
    fetch,           \* controller: the entry it takes next
    inFlight,        \* controller: commands taken and not completed
    cq,              \* completions waiting
    reaped,          \* commands whose completion a program was handed
    lost,            \* commands a reset discarded
    resets

programVars == <<pc, remaining, size, inquiryOk, filled, disturbed>>
localVars == <<remaining, size, inquiryOk, filled, disturbed>>
creationVars == <<enabled, memory, sent, shown, live>>
ringVars == <<head, tail, tailVirt, slot, issued>>
controllerVars == <<fetch, inFlight, cq, reaped, lost>>
sharedVars == <<programVars, creationVars, ringVars, controllerVars, resets>>

-----------------------------------------------------------------------------
NoCommand == "none"
IoQueues == {"IOCQ", "IOSQ"}
Slots == 0..(Elements - 1)
EntrySize == 16

Uint16(n) == n % 65536

(* What dnvme_cq_remain() becomes in a uint16_t when the inquiry fails. *)
InquiryFailure == Uint16(-1)

Least(m, n) == IF m <= n THEN m ELSE n

(* Mutant of After: the pointer is not brought back to the ring. *)
AfterUnwrapped(i, k) == i + k

(* The slot k further on in the ring. *)
After(i, k) == (i + k) % Elements

(* The slots from a up to, not including, b. *)
Window(a, b) ==
    IF a <= b THEN a..(b - 1) ELSE (a..(Elements - 1)) \cup (0..(b - 1))

Held(a, b) == {slot[i] : i \in Window(a, b)}

Full == After(tailVirt, 1) = head

Unissued == Commands \ UNION {issued[p] : p \in Programs}

(* Entries a reap moves: no more than asked for, than fit, than wait. *)
ReapCount(p) ==
    Least(remaining[p], Least(size[p] \div EntrySize, Cardinality(cq)))

(* No I/O queues yet; an earlier program may have enabled the controller. *)
SharedInit ==
    /\ pc = [p \in Programs |-> "ended"]
    /\ remaining = [p \in Programs |-> 0]
    /\ size = [p \in Programs |-> 0]
    /\ inquiryOk = [p \in Programs |-> FALSE]
    /\ filled = [p \in Programs |-> 0]
    /\ disturbed = [p \in Programs |-> FALSE]
    /\ issued = [p \in Programs |-> {}]
    /\ enabled \in BOOLEAN
    /\ memory = {}
    /\ sent = {}
    /\ shown = {}
    /\ live = {}
    /\ head = 0
    /\ tail = 0
    /\ tailVirt = 0
    /\ slot = [i \in Slots |-> NoCommand]
    /\ fetch = 0
    /\ inFlight = {}
    /\ cq = {}
    /\ reaped = {}
    /\ lost = {}
    /\ resets = 0

Goto(p, from, to) ==
    /\ pc[p] = from
    /\ pc' = [pc EXCEPT ![p] = to]

-----------------------------------------------------------------------------
Unmoved ==
    UNCHANGED <<localVars, creationVars, ringVars, controllerVars, resets>>

(* The variables of a process end with it. *)
Forget(p) ==
    /\ remaining' = [remaining EXCEPT ![p] = 0]
    /\ size' = [size EXCEPT ![p] = 0]
    /\ inquiryOk' = [inquiryOk EXCEPT ![p] = FALSE]
    /\ filled' = [filled EXCEPT ![p] = 0]
    /\ disturbed' = [disturbed EXCEPT ![p] = FALSE]
    /\ UNCHANGED <<creationVars, ringVars, controllerVars, resets>>

Return(p, from) == Goto(p, from, "ended") /\ Forget(p)

(* A program is started; init_drive() begins with the reset. *)
Start(p) == Goto(p, "ended", "disable") /\ Unmoved

(* The reset affects every queue but the admin queues: the I/O queues go,  *)
(* with all they hold.  A creation still in the admin queue names memory   *)
(* that is gone, and makes no queue that holds a command.                  *)
Reset ==
    /\ resets < MaxResets
    /\ resets' = resets + 1
    /\ enabled' = FALSE
    /\ memory' = {} /\ sent' = {} /\ shown' = {} /\ live' = {}
    /\ head' = 0 /\ tail' = 0 /\ tailVirt' = 0 /\ fetch' = 0
    /\ slot' = [i \in Slots |-> NoCommand]
    /\ lost' = lost \cup inFlight \cup cq \cup Held(fetch, tailVirt)
    /\ inFlight' = {}
    /\ cq' = {}
    /\ disturbed' = [r \in Programs |-> disturbed[r] \/ pc[r] = "reap_io"]
    /\ UNCHANGED <<remaining, size, inquiryOk, filled, issued, reaped>>

(* dnvme_controller_disable(); when it fails, the controller has been      *)
(* reset or has not, init_drive() returns, and main() goes on.             *)
Disable(p) ==
    \/ Goto(p, "disable", "enable") /\ Reset
    \/ Goto(p, "disable", "prepare_iocq") /\ (Reset \/ Unmoved)

(* The rest of init_drive(): it enables the controller, or fails somewhere *)
(* and main() goes on, or leaves the program by exit().                    *)
Enable(p) ==
    \/ /\ Goto(p, "enable", "prepare_iocq")
       /\ enabled' \in {enabled, TRUE}
       /\ UNCHANGED <<localVars, memory, sent, shown, live, ringVars,
                      controllerVars, resets>>
    \/ Return(p, "enable")

(* PREPARE_*_CREATION: memory for a queue.  Where there is some it stays,  *)
(* whatever the call answers.                                              *)
Prepare(p, queue, from, to) ==
    \/ /\ Goto(p, from, to)
       /\ memory' = memory \cup {queue}
       /\ UNCHANGED <<localVars, enabled, sent, shown, live, ringVars,
                      controllerVars, resets>>
    \/ Return(p, from)

(* The creation is put in the admin queue; it names the queue's memory, if *)
(* no reset has taken that since.                                          *)
SendCreate(p, queue, from, to) ==
    \/ /\ Goto(p, from, to)
       /\ sent' = sent \cup ({queue} \cap memory)
       /\ UNCHANGED <<localVars, enabled, memory, shown, live, ringVars,
                      controllerVars, resets>>
    \/ Return(p, from)

CreateQueues(p) ==
    \/ Prepare(p, "IOCQ", "prepare_iocq", "send_iocq")
    \/ SendCreate(p, "IOCQ", "send_iocq", "prepare_iosq")
    \/ Prepare(p, "IOSQ", "prepare_iosq", "send_iosq")
    \/ SendCreate(p, "IOSQ", "send_iosq", "ring")

(* The doorbell of the admin queue, after the rest of the batch.  What     *)
(* follows up to the read touches no I/O queue and may return, too.        *)
RingAdmin(p) ==
    \/ /\ \E to \in {"read", "ended"} : Goto(p, "ring", to)
       /\ shown' = shown \cup sent
       /\ sent' = {}
       /\ UNCHANGED <<localVars, enabled, memory, live, ringVars,
                      controllerVars, resets>>
    \/ Return(p, "ring")

Queue(p, c) ==
    /\ slot' = [slot EXCEPT ![tailVirt] = c]
    /\ tailVirt' = After(tailVirt, 1)
    /\ issued' = [issued EXCEPT ![p] = @ \cup {c}]
    /\ UNCHANGED <<localVars, creationVars, head, tail, controllerVars, resets>>

(* Mutant of SendRead: room is not looked for. *)
SendReadOverfull(p) ==
    /\ Goto(p, "read", "ring_io")
    /\ \/ "IOSQ" \in memory /\ \E c \in Unissued : Queue(p, c)
       \/ Unmoved

(* dnvme_nvm_read(): refused when the queue is full, or for any other      *)
(* cause; main() does not look at the result.                              *)
SendRead(p) ==
    /\ Goto(p, "read", "ring_io")
    /\ \/ "IOSQ" \in memory /\ ~Full /\ \E c \in Unissued : Queue(p, c)
       \/ Unmoved

(* Mutant of RingIo: its failure is not looked at. *)
RingIoUnchecked(p) ==
    /\ Goto(p, "ring_io", "inquire_io")
    /\ tail' \in {tail} \cup {tailVirt : q \in memory \cap {"IOSQ"}}
    /\ UNCHANGED <<localVars, creationVars, head, tailVirt, slot, issued,
                   controllerVars, resets>>

(* dnvme_ring_doorbell(): every command copied to the queue is shown. *)
RingIo(p) ==
    \/ /\ "IOSQ" \in memory
       /\ Goto(p, "ring_io", "inquire_io")
       /\ tail' = tailVirt
       /\ UNCHANGED <<localVars, creationVars, head, tailVirt, slot, issued,
                      controllerVars, resets>>
    \/ Return(p, "ring_io")

(* The two results of an inquiry: a count of completions, or a failure     *)
(* that nobody looks at.                                                   *)
Counts(p, n) ==
    \/ /\ "IOCQ" \in memory
       /\ inquiryOk' = [inquiryOk EXCEPT ![p] = TRUE]
       /\ remaining' = [remaining EXCEPT ![p] = Uint16(n)]
    \/ /\ inquiryOk' = [inquiryOk EXCEPT ![p] = FALSE]
       /\ remaining' = [remaining EXCEPT ![p] = InquiryFailure]

(* Mutant of InquireIo: commands that have not completed are counted. *)
InquireOutstanding(p) ==
    /\ Goto(p, "inquire_io", "reap_io")
    /\ Counts(p, Cardinality(cq \cup inFlight))
    /\ size' = [size EXCEPT ![p] = Uint16(remaining'[p] * EntrySize)]
    /\ disturbed' = [disturbed EXCEPT ![p] = FALSE]
    /\ UNCHANGED <<filled, creationVars, ringVars, controllerVars, resets>>

(* sleep(2), then dnvme_cq_remain(). *)
InquireIo(p) ==
    /\ Goto(p, "inquire_io", "reap_io")
    /\ Counts(p, Cardinality(cq))
    /\ size' = [size EXCEPT ![p] = Uint16(remaining'[p] * EntrySize)]
    /\ disturbed' = [disturbed EXCEPT ![p] = FALSE]
    /\ UNCHANGED <<filled, creationVars, ringVars, controllerVars, resets>>

(* dnvme_cq_reap(): the oldest slots are free again, one for each command. *)
ReapIo(p) ==
    \/ /\ "IOCQ" \in memory
       /\ Goto(p, "reap_io", "show_io")
       /\ \E S \in SUBSET cq :
             /\ Cardinality(S) = ReapCount(p)
             /\ cq' = cq \ S
             /\ reaped' = reaped \cup S
             /\ head' = After(head, Cardinality(S))
             /\ filled' = [filled EXCEPT ![p] = Cardinality(S)]
             /\ disturbed' = [r \in Programs |->
                                 disturbed[r] \/ /\ pc[r] = "reap_io" /\ r # p
                                                 /\ S # {}]
       /\ UNCHANGED <<remaining, size, inquiryOk, creationVars, tail, tailVirt,
                      slot, issued, fetch, inFlight, lost, resets>>
    \/ Return(p, "reap_io")

(* show_raw_data() and the end of main() *)
ShowIo(p) == Return(p, "show_io")

ProgramStep(p) ==
    \/ Start(p) \/ Disable(p) \/ Enable(p) \/ CreateQueues(p) \/ RingAdmin(p)
    \/ SendRead(p) \/ RingIo(p) \/ InquireIo(p) \/ ReapIo(p) \/ ShowIo(p)

Kill(p) ==
    /\ pc[p] # "ended"
    /\ pc' = [pc EXCEPT ![p] = "ended"]
    /\ Forget(p)

-----------------------------------------------------------------------------
(* The controller executes a creation or refuses it, and has to refuse a   *)
(* submission queue without its completion queue.                          *)
ExecuteCreate ==
    /\ enabled
    /\ \E k \in shown :
          /\ shown' = shown \ {k}
          /\ \/ live' = live
             \/ /\ k = "IOSQ" => "IOCQ" \in live
                /\ live' = live \cup {k}
    /\ UNCHANGED <<programVars, enabled, memory, sent, ringVars,
                   controllerVars, resets>>

Fetchable == enabled /\ "IOSQ" \in live /\ fetch # tail

(* Mutant of Fetch: a slot is free once the controller has taken it. *)
FetchFrees ==
    /\ Fetchable
    /\ inFlight' = inFlight \cup {slot[fetch]}
    /\ fetch' = After(fetch, 1)
    /\ head' = fetch'
    /\ UNCHANGED <<programVars, creationVars, tail, tailVirt, slot, issued, cq,
                   reaped, lost, resets>>

(* The controller takes commands in order and completes them in any order. *)
Fetch ==
    /\ Fetchable
    /\ inFlight' = inFlight \cup {slot[fetch]}
    /\ fetch' = After(fetch, 1)
    /\ UNCHANGED <<programVars, creationVars, ringVars, cq, reaped, lost, resets>>

Complete ==
    /\ \E c \in inFlight :
          /\ inFlight' = inFlight \ {c}
          /\ cq' = cq \cup {c}
    /\ UNCHANGED <<programVars, creationVars, ringVars, fetch, reaped, lost, resets>>

SharedNext ==
    \/ \E p \in Programs : ProgramStep(p) \/ Kill(p)
    \/ ExecuteCreate
    \/ Fetch
    \/ Complete

SharedSpec == SharedInit /\ [][SharedNext]_sharedVars

-----------------------------------------------------------------------------
(* Every variable keeps its range.                                         *)
SharedTypeOK ==
    /\ pc \in [Programs -> {"ended", "disable", "enable", "prepare_iocq",
                           "send_iocq", "prepare_iosq", "send_iosq", "ring",
                           "read", "ring_io", "inquire_io", "reap_io",
                           "show_io"}]
    /\ remaining \in [Programs -> Nat] /\ size \in [Programs -> Nat]
    /\ \A p \in Programs : remaining[p] < 65536 /\ size[p] < 65536
    /\ inquiryOk \in [Programs -> BOOLEAN]
    /\ filled \in [Programs -> Nat]
    /\ disturbed \in [Programs -> BOOLEAN]
    /\ issued \in [Programs -> SUBSET Commands]
    /\ enabled \in BOOLEAN
    /\ memory \subseteq IoQueues /\ sent \subseteq IoQueues
    /\ shown \subseteq IoQueues /\ live \subseteq IoQueues
    /\ head \in Slots /\ tail \in Slots /\ tailVirt \in Slots
    /\ fetch \in Slots
    /\ slot \in [Slots -> Commands \cup {NoCommand}]
    /\ inFlight \subseteq Commands
    /\ cq \subseteq Commands
    /\ reaped \subseteq Commands
    /\ lost \subseteq Commands
    /\ resets \in 0..MaxResets

Queued == Held(tail, tailVirt)
Visible == Held(fetch, tail) \cup inFlight

(* After a program's doorbell none of its own commands is left unseen, not *)
(* even one of an earlier run that was killed before its doorbell, though  *)
(* others queue theirs before and after.                                   *)
OwnCommandsShown ==
    \A p \in Programs :
        pc[p] \in {"inquire_io", "reap_io", "show_io"} =>
            issued[p] \cap Queued = {}

(* A program prints entries that no reap wrote only when its inquiry       *)
(* failed, or another program reaped completions or reset the controller   *)
(* between its inquiry and its reap.                                       *)
ShortReapMeansInterference ==
    \A p \in Programs :
        pc[p] = "show_io" /\ inquiryOk[p] /\ ~disturbed[p] =>
            filled[p] * EntrySize = size[p]

(* The completion queue, as long as the submission queue, is never asked   *)
(* to hold more than it can, though nobody waits for completions before    *)
(* queueing more: it is the full ring that refuses, and only a reap makes  *)
(* room in it (head_ptr: "calculate this value based on cmds reaped").     *)
CompletionQueueHolds == Cardinality(inFlight) + Cardinality(cq) < Elements

-----------------------------------------------------------------------------
(* The stage of each command, as module CommandLifecycle has it.           *)
StageOf(c) ==
    CASE c \in reaped -> "reaped"
      [] c \in lost -> "lost"
      [] c \in cq -> "completed"
      [] c \in Visible -> "visible"
      [] c \in Queued -> "queued"
      [] OTHER -> "unsent"

Lifecycle == INSTANCE CommandLifecycle WITH
    Queues <- {1},
    queueOf <- [c \in Commands |-> 1],
    life <- [c \in Commands |-> StageOf(c)]

(* The shared queue keeps the promise of one: whatever the programs do in  *)
(* whatever order, no command is overwritten in the ring before it is      *)
(* taken, shown before a doorbell, completed twice or handed out twice.    *)
SharedImplementsLifecycle == Lifecycle!LifeSpec
=============================================================================
