# A TLA+ model of dnvme-interface

`dnvme-interface` is a small user-space library, with one demonstration program,
that drives an NVMe controller through the character device of the `dnvme`
kernel driver. Every operation is an `ioctl`; the library keeps no state. The
state is in the driver (queues, doorbells, interrupt scheme), in the controller
(CC.EN, the I/O queues it has created) and in the local variables of the
sequences that use them. What can go wrong is therefore in the sequences: a
step that fails or is ignored, a process that dies between two steps, a
controller that completes commands when it likes, an error code that is
mistaken for data, a command whose bytes are described in three places, what an
earlier program left in the queues, and a second program on the same device.

This directory holds modules for those sequences and for the bytes of the
commands, TLC configurations that check them on small instances, and proofs
of the main results for every value of the constants.

## Inventory

| Part | Source | State | Operations | Module |
|---|---|---|---|---|
| Drive bring-up | `dnvme_commands.c:119-141`, 276-310 | locals of one call; CC.EN, admin queues, interrupt scheme and MSI-X message control on the other side | `init_drive`, `dnvme_pcie_msix_*`, `dnvme_controller_enable/disable`, `dnvme_set_irq`, `dnvme_create_admin_*` | `InitDrive`, `InitDriveProofs` |
| Main program | `main.c` | position, `cq_remaining`, `cq_buffer_size`, `cq_buffer` | open, bring up, queue a batch, ring, sleep, inquire, reap, and once more for a read | `MainProgram`, `MainProofs`, `LifecycleProofs` |
| Programs that share a device | `main.c:63-243`, `inc/dnvme_interface.h:96-104, 155-180` | the driver's ring: `head_ptr`, `tail_ptr`, `tail_ptr_virt`, its entries; completions; queue memory and creations | bring up, create, queue, ring, inquire and reap by each; reset; kill | `SharedQueues`, `SharedProofs` |
| Life of a command | `inc/dnvme_interface.h:96-104, 124-180, 240-266` | stage of each command | submit, doorbell, complete, reap, reset | `CommandLifecycle` |
| Command functions and layout | `dnvme_commands.c:312-660`, `inc/dnvme_interface.h:281-1130` | parameters, the 64 bytes | one function per command | `CommandFormat`, `BitFields`, `BitFieldsProofs`, `FormatProofs` |
| ioctl wrappers | `dnvme_ioctrl.c` | `nvme_64b_send`, `nvme_prep_cq/sq` | one wrapper per command, queue creation, doorbell, inquiry, reap | `CommandFormat`, `MainProgram` |
| Register and PCI access | `dnvme_commands.c:159-274` | the registers; a buffer or a variable | read and write of 1, 2, 4 bytes and of blocks, `get_ctrl_status` | `DeviceAccess`, `DeviceProofs` |
| Buffer helpers | `dnvme_commands.c:66-117` | blocks of the heap | allocate, read, write, free | `Buffers`, `DeviceProofs` |
| `open_dev` | `dnvme_commands.c:22-45` | descriptors | open, check the kind | `DeviceAccess`; success or failure in `MainProgram` |
| Output | `dnvme_show.c`, `show_*` of `main.c` | none | printing | not modelled: no state |
| Stubs | ten functions of `dnvme_commands.c` | none | return 0 | not modelled: they send nothing |
| Driver, controller | not in the repository | queues, registers | answers to the ioctls | external definitions |
| Build | `Makefile`, `dnvme`, `dnvme.so` | | | not modelled |

How they interact: `main()` calls the command functions; these fill a command
and call an ioctl wrapper; the wrapper describes the data buffer and hands both
to the driver, which copies the command to a queue. `ring` shows what is in
the queue to the controller. `inquire` and `reap` fetch completions. All of it
is synchronous except the controller, which runs beside the program, the
operating system, which may end the program between any two calls, and other
programs that have the device open: they use the same queues and registers.

What makes it hard, and what makes each part correct:

- **Bring-up.** Five checked calls, three unchecked ones and an `exit()`, on a
  device in whatever state the last process left it. Correct when the returned
  status tells which steps are in force and the controller is never running
  without its queues and interrupts. Numeric edges: six bits are read of an
  eleven-bit table size, an error code becomes a register value, bit 7 is set
  in a read-only field.
- **Main program.** The batch of admin commands becomes visible at one
  doorbell; before it any failure leaves commands behind, which ST_DISABLE does
  not remove and the next program's doorbell shows. The controller executes the batch in any order, the two queue creations among it. The reap
  is sized by an inquiry, and both are 16-bit variables that take an error code
  as well as a count. Correct when nothing is half shown, nothing reaped that
  was not completed, nothing written past the buffer, and every end of `main()`
  one that the next `main()` can start from.
- **Commands.** A parameter must reach its field, its neighbours must not
  notice when it is too wide, two descriptions of the layout in the header must
  agree (they do in what they name, not in what they reserve), and a queue's
  memory must be the queue the command names.
- **Shared device.** Nothing in the library or in the structures it passes says
  whose a queue is. A doorbell shows everybody's commands, a reap takes
  everybody's completions, and `init_drive()` of one program resets the
  controller under the others. A full queue refuses the command, and `main()`
  does not look. Correct when the ring never overwrites a command, each command
  goes once through its life, and a program's doorbell leaves none of its own
  commands behind.
- **Registers, buffers, descriptor.** Every access is announced as `BYTE_LEN`,
  a dword too, so a register that changes meanwhile is read in two parts. The
  buffers' functions check an index from above only, the length of a buffer is a
  product that may wrap, and no register function knows how long its buffer is.
  The path may be replaced between `open()` and the check of the file's kind.
  Correct when an access moves all its bytes and no other, works on a device,
  and leaves its buffer in no way but those its caller asked for.

`PROJECT.json` lists each hazard at its line with the property that watches it.

## Modules

**`InitDrive`** has one action per call of `init_drive()` into the driver:
`GetEntryCount`, `Disable`, `SetIrq`, `CreateAdminCq`, `CreateAdminSq`,
`Enable`, `MsixRead`, `MsixWrite`, `DeviceMetrics`, with the failing and the
succeeding alternative of each, plus `Call` (a process enters the function)
and `Crash` (it is killed between two calls). `ipc` is the place in the code,
`result`, `msixEntryCount` and `msixValue` are the locals; `countRead` and
`valueRead` are history variables that say whether the value was read or is an
error code. `enabled`, `adminQ`, `irqs` and `msgCtrl` are the other side of the
ioctls. Where the sources do not say how much a *failing* ioctl has done, both
outcomes are allowed (a failed ST_ENABLE may leave the controller enabled, a
failed SET_IRQ may have torn the old scheme down, a failed write may have
reached the register). Words are 16 bits wide; `msix_ctrl & 0x3F` and
`msix_ctrl | 0x80` are arithmetic on them.

**`MainProgram`** EXTENDS `InitDrive` and adds `main()`: `pc` is the place,
`cqRemaining`, `cqBufferSize` the two `uint16_t`, `cqCap` the bytes that were
really allocated, `filled` the entries the last reap wrote. `prepared`,
`tailVirt` and `tail` are the driver's submission side (memory for I/O queues,
commands copied, commands shown), `cq` and `reaped` its completion side, `live`
what the controller has created. Each statement of `main()` that calls
something is an action; `if (ret) return ret;` is the `ReturnError`
alternative, and results the code ignores (`init_drive`, `dnvme_nvm_read`, the
inquiry) have none. A queue creation is two actions, PREPARE and the command,
as in `ioctl_create_iocq()`. `Execute` is the controller: it takes any visible
command of a queue it knows, in any order, and may refuse a creation. `Kill`
may come anywhere. The driver outlives the process, so `Init` is not an empty
driver: the commands of earlier programs have the numbers from `Oldest` to 0
and may be queued and not shown, visible, completed or reaped; `tailVirt` and
`tail` are counted from them. `ControllerReset` is ST_DISABLE as the header
describes it: commands copied to the admin queue stay there with the
completions, what the controller was executing is over, the I/O queues are
gone. `LeavesWhatItFinds` is both a conjunct of `Init` and an invariant, so
one run of `main()` stands for any number of them in a row.

**`CommandLifecycle`** is the abstract specification: unsent, queued,
visible, completed, reaped, never back; a reset makes everything of a queue
that was not reaped `lost`. `MainProgram` and `SharedQueues` instantiate it
with the stage of each command computed from the queues (`StageOf`), and the
properties `ImplementsLifecycle` and `SharedImplementsLifecycle` say that every
behaviour of the programs, driver and controller is one of the abstract
specification.

**`SharedQueues`** has a set of programs, each running `main()` from
`init_drive()` on: `Start`, `Disable` and `Enable` are the bring-up as far as
it touches the controller and the I/O queues (it may fail anywhere, and
`main()` goes on; or leave the program), `Prepare` and `SendCreate` the two
ioctls of each creation, `RingAdmin` the doorbell of the batch, then `SendRead`,
`RingIo`, `InquireIo`, `ReapIo`, `ShowIo`. Every call whose result `main()`
looks at may fail and ends the program; the others may fail and do not. `pc`,
`remaining`, `size` and `filled` are each program's place and locals. The rest
is shared: `enabled`; `memory`, `sent`, `shown` and `live`, which follow a queue
from its PREPARE to the controller that creates or refuses it
(`ExecuteCreate`); `slot`, the ring, with `head`, `tail` and `tailVirt`, the
pointers of `struct nvme_gen_sq`; `fetch`, the entry the controller takes next,
`inFlight`, what it has taken, and `cq`, the completions. `SendRead` is refused
when the ring is `Full`; `ReapIo` moves `head` by as many slots as it reaped, as
the comment on `head_ptr` says ("Calculate this value based on cmds reaped").
`Kill` ends a program anywhere; any program may start again, and need not.
`inquiryOk`, `disturbed` and `issued` are history variables.

**`Buffers`** is a heap of bytes, the block of each pointer variable, and the
length the program meant when it asked for the block: `CreateBuffer` (with the
32-bit product, which may wrap), `SetData`, `DumpData` (with any index, compared
with the length as an `int`), `FreeBuffer`. `touched` remembers where the last
step reached and through which pointer. **`DeviceAccess`** EXTENDS it and adds
the file table with `Open` and `CheckDevice`, and the register functions:
`Begin` fills `struct rw_generic` with the width of the function's name or the
caller's `nBytes`, for a buffer of any length; `Transfer` moves the next
`BYTE_LEN` byte into the buffer, the variable on the stack or the register,
`TransferFails` ends it early, and `StatusFails` does so for
`dnvme_controller_get_ctrl_status()`, which returns the error as if it were the
value. `Change` is the controller or the driver, `ReplacePath` another process.
`before` and `changes` remember the registers when the access began and how
often they changed since.

**`BitFields`** has sets of bits, fields, and assignment to and reading of
fields, as a C compiler lays out the bit-fields of the header. **`CommandFormat`**
gives every command function as a table entry (parameters with their C widths,
fixed values, assignments, the wrapper it calls) and every wrapper as the
`nvme_64b_send` it fills; a call runs through `Assemble`, `PrepareQueue`,
`SendCommand` and `Leave`. A caller may pass NULL for a buffer. The structures
of the header are tables of named members (`StructPuts`) and of reserved ones
(`Reserved`). `OwnCommand` stands for wrappers that no command
function calls but a program may. The enumerations of `dnvme.h` that name
opcodes, identify structures and features are tables in it, and those that name
values of a parameter (`Named`) are among the values the calls are made with.

## Runs

| Run | Module, cfg | Question | States |
|---|---|---|---|
| `init_drive` | `MCInitDrive` | does the status of `init_drive()` tell the truth after any failure, kill and repetition? | 3 169 |
| `main_safety` | `MCMainProgram` | are batch, queue creation, reap and life cycle right under every failure, completion order and leftover? | 522 784 |
| `main_termination` | `MCMainTermination.cfg` | does `main()` end, in a bounded number of steps, although the controller owes nothing? | 522 784 |
| `command_format` | `MCCommandFormat` | does each parameter reach its field, and do the descriptions agree? | 2 812 |
| `shared_queues` | `MCSharedQueues` | does one ring serve two programs that start, fail and are killed, a reset and more commands than slots? | 840 774 |
| `device_access` | `MCDeviceAccess` | do open, register access and buffers keep to what they were given? | 728 640 |
| `reap_size` | `MCMainReapSize.cfg` | violation: second reap, see Findings | |
| `write_direction` | `MCFormatDirection.cfg` | violation: direction of a write | |
| `ctrl_status` | `MCDeviceStatus.cfg` | violation: the register of the status | |
| `named_values` | `MCFormatNamed.cfg` | violation: constants shifted twice | |
| `msix_enable` | `MCMsixEnable.cfg` | violation: MSI-X is not enabled | |
| `reserved_members` | `MCFormatReserved.cfg` | violation: reserved members assigned | |

Properties of the passing runs:

- `InitOutcome`: each status of `init_drive()` names the first step that
  failed, and all the steps before it are in force. `ExitLeavesDriveRunning`:
  the `exit()` in `dnvme_pcie_msix_set_ctrl()` leaves a running, set-up drive.
  `IrqsFitTable`: six of eleven bits never ask for more vectors than there are.
  `EnableAfterSetup`: the controller goes on only with queues and interrupts of
  the same call. `MsixStaysOn`: the word that `dnvme_pcie_msix_enable()` writes
  back never switches off the MSI-X that SET_IRQ may have switched on, and masks
  the vectors only when the read before failed and an error code is written
  (bits 15 and 14 of a small negative number are set). That the function does
  not *enable* MSI-X is a finding.
- `BatchAllOrNothing`: the doorbell shows all of this program's admin batch or
  none of it. It may show more, namely what an earlier program copied and did
  not ring for. `LeavesWhatItFinds`: wherever `main()` ends, each queue is in
  order and the controller has nothing to execute that could create an I/O
  queue without memory, so the next `main()` copes. `CreateFollowsPrepare`: the
  controller never holds an I/O queue without driver memory, whichever
  program's creation it executes; that it refuses a submission queue without
  its completion queue is assumed, not shown. `ReadAfterBatch`,
  `NothingStranded`: no error leads into the I/O phase, and a return of 0 means
  that everything queued was shown. `AdminReapFits`: the reap of the batch
  stays in `cq_buffer`, also after a failed inquiry, when 65535 * 16 wraps to
  65520 and the buffer has that size. `ShownEntriesWereReaped`: completions
  that arrive between inquiry and reap do not disturb what is printed. It is
  stated for a successful inquiry; after a failed one `main()` prints 65520
  bytes of which the reap may have written few. `ImplementsLifecycle`: the
  refinement above. `Termination`: liveness. `StepsRunOut`: every step of
  `main()` lowers `StepsLeft`, which counts the steps it can still take, so it
  retries and polls nothing and only a call that does not return can stop it.
- `RequestRecoverable`: a parameter comes back out of the command whole, and
  one too wide for its field loses its upper bits without touching a neighbour.
  `StructMembersAgree`: the named members of the structures of
  `dnvme_interface.h` read what the unions wrote; the members they hold
  reserved are a finding. `PreparedAsCommanded`: the PREPARE ioctl succeeded and
  asked for the id, the size number and the layout that the command carries,
  read back through the unions as the wrapper does. The header counts the
  elements of a PREPARE from 1 and NVMe the size of a command from 0, so the
  same number is one entry less to the driver; the property does not claim more.
- `OwnCommandsShown`: after its doorbell a program has none of its own commands
  left unseen, not even one of an earlier run killed before the doorbell.
  `ShortReapMeansInterference`: a program prints entries that no reap wrote
  only if another program reaped, or reset the controller, between its inquiry
  and its reap; this is where the programs do disturb each other.
  `CompletionQueueHolds`: a completion queue as long as the submission queue
  never overflows, because slots come back by reaps alone.
  It rests on the driver refusing when the ring is full. `SharedImplementsLifecycle`:
  no command is overwritten in the ring, shown before a doorbell, completed or
  handed out twice.
- `OnlyDevicesReturned`: the descriptor `open_dev()` returns is a device though
  the path changes, because it asks the descriptor. `AccessInBlock`: a call
  leaves the block it was given in two ways only: `set_data()` and `dump_data()`
  below it, by a negative index, and the driver beyond it, when more bytes are
  asked of it than the block has. A wrapped product is no third way for the
  helpers: the block is short, but the length they are passed is an `int`, and
  wraps as well. `TransferFaithful`: a finished access has moved the bytes its
  name says; undisturbed, buffer and register agree, and after one change a
  read has old bytes first and new ones after them.

Each property has at least one mutant of the code that violates it
(`PROJECT.json`, `mutants`; the mutated operators stand next to the originals,
with a comment saying what bug they are).

### Bounds

- `MsixValues`. `init_drive` uses 0, 63, 64, 32768+128 and 49152+2047: tables
  of 1, 64, 65, 129 and 2048 vectors, below, at and above what six bits say,
  with bit 7 clear and set and the upper two bits clear, half set and set.
  `MainProgram` looks at none of these and uses {63}. The theorems hold for
  every 16-bit word.
- `Errors`. 1 (libc returns -1) and 22 (a driver's number returned as it is) in
  `init_drive`; {1} for `main()`.
- `NAdmin`. 3 for the 14 commands of `main.c`: the two creations, which the
  controller tells apart, and one that stands for the rest and may come before,
  between and after them. The theorems hold for every NAdmin > 2.
- `MaxLeft`. One command that earlier programs left in each queue, in any stage,
  with any queues prepared and created. The theorems hold for any number.
- The number of calls of `init_drive()` in `InitDrive` is not bounded; its
  states are finite.
- `Samples`. A parameter is 0, all ones, its lowest bit, the highest bit its
  field has room for, the highest of its C type, or all that fit: a mask or a
  shift that is off by one moves one of those bits. The other parameters are
  zero, except in the all-ones call, where everything collides if anything does.
  The theorems hold for all values of all parameters.
- `SharedQueues`: two programs, which are one and "the others"; three commands
  on a ring of two slots, one of them usable, so that the ring is full, wraps
  and is refilled; one reset (`MaxResets`), which a program of either kind may
  make at any place of the other. Starts and kills are not bounded. The theorem
  `SharedInvariance` holds for every number of programs, commands, slots and
  resets. A count of completions wraps sixteen bits only in the theorems; in TLC
  the size wraps only after a failed inquiry.
- `DeviceAccess`: two buffers of one or two bytes in a heap of three, aligned to
  two, so that buffers touch, fill the heap, and are allocated where another was
  freed; a `uint32_t` of eight values, in which 3 * 3 is 1; indices from -1 to
  2, below, in and beyond every block; bytes 0 and 1; one descriptor, so that a
  failed check leaves none. The accesses are of each width, of blocks of two and
  three bytes (more than some buffers have), and in both
  spaces and directions. `changes` counts to 2, for "more than one".

Deadlock is off (`CHECK_DEADLOCK FALSE`) for `main()`, which ends, and for
`DeviceAccess`, where a program whose only descriptor leaked in `open_dev()` has
nothing more to do; the other runs check it.

### Fairness

`FairSpec` has weak fairness of `MainStep` alone: every call `main()` makes
returns, with a result or an error. That is what the code relies on: all its
calls are synchronous ioctls, allocations and a `sleep(2)`. The controller has
no fairness. `main()` waits for time, not for completions, and the property
holds for that reason; the mutant that waits for completions violates it.

`SharedQueues` has no fairness and no liveness property: nothing in the code
makes a later program start, and without one the commands of a killed program
stay where they are.

### Findings

1. `main.c:236`: the second `dnvme_cq_reap()` passes a size from the inquiry
   of queue 1 with the buffer sized by the inquiry of queue 0; the allocation
   between them is commented out. The header describes the field as "Size of
   buffer to fill data to" (`inc/dnvme_interface.h:265`). Run `reap_size`.
2. `dnvme_ioctrl.c:313`: `ioctl_write()` announces a transfer from the device,
   against the definition of the field (`inc/dnvme_interface.h:133`). Run
   `write_direction`.
3. `dnvme_commands.c:216`: `dnvme_controller_get_ctrl_status()` reads CC, the
   configuration, and not CSTS, "Controller Status" (`dnvme.h:22`). Run
   `ctrl_status`.
4. `dnvme_commands.c:540` and 357: `enum firmware_commit_action` and
   `enum queue_arbitration` name values that are already shifted to their place
   in the dword (`dnvme.h:249`, 198); assigned to bit-fields they are shifted
   again, or cut off. The header does not say in words that these names are meant
   for these functions, and `main()` passes a plain 1. Run `named_values`.
5. `dnvme_commands.c:308`: `dnvme_pcie_msix_enable()` sets bit 7 of message
   control, which is part of the read-only table size; MSI-X Enable is bit 15.
   Read and write succeed and MSI-X is still off. It is on after `init_drive()`
   only where SET_IRQ has done it. Run `msix_enable`.
6. `dnvme_commands.c:326` and others: parameters are assigned to bits that the
   structure of the same command holds reserved: the namespace of a completion
   queue's creation and of both deletions (`inc/dnvme_interface.h:697, 731`),
   `uuid_idx` of get log page (755), dwords 11 to 13 and 15 and the upper bits of
   14 of get feature (955-960), dwords 12, 13 and 15 and the upper bits of 14 of
   set feature (980-985). Run `reserved_members`, which stops at the first.

Remarks that contradict no text of the repository and so have no run:
`main.c:129` overwrites the result of `init_drive()`, so `main()` goes on with a
drive that is not set up (what follows from that is in `NothingStranded` and
`LeavesWhatItFinds`). `qsize` is passed both as the number of elements to
allocate and as the queue size of the command, which NVMe counts from 0.
`struct nvme_identify` ends before dword 14 (`rsvd11` is an array of `uint16_t`,
`inc/dnvme_interface.h:797`), so it is 56 bytes long and has no place for the
`uuid_idx` that `dnvme_admin_identify()` assigns. The identify buffers are
printed whether or not the completions of the identify commands were reaped. A
descriptor leaks when `open_dev()` refuses a file. A negative index reaches
below a buffer, and `free_buffer()` leaves the caller's pointer as it was.

## Proofs

All proofs are checked by TLAPS, in modules of their own.

**`InitDriveProofs`** proves, from `MsixValuesAssumption` and
`ErrorsAssumption`, all six properties of the run `init_drive`. First come
lemmas on the bit operations: a word is its low fourteen and upper two bits
(`SplitWord`), a write keeps the table size (`RegWriteFacts`), `| 0x80` keeps
the upper two bits (`OrBit7Facts`), an error number made negative has both of
them set (`UpperBits`, `GetCtrlFacts`), `& 0x3F` plus one fits the table
(`EntryCountFacts`). `InitOutcome` is not inductive: it speaks of the end of
the call. `DriveInv` adds `InForce` (what is in force at each place),
`CountFits` (the count fits the table *now*, which needs that no write changes
the size) and `WriteBack` (the word about to be written has the register's
upper bits, which needs that the driver does not touch it in between, or, after
a failed read, both set). The
proof has one step per action and one step per conjunct.

**`MainProofs`** proves, adding `NAdminAssumption` and `MaxLeftAssumption`, all
properties of the run `main_safety` but the refinement. `NextDrive` shows that
every step of `MainProgram` is a step or a stutter of `InitDrive`, so
`DriveInv` carries over. `MainInv` adds `Submitted` (the place of `main()` fixes
how many of its commands are queued and shown), `Backed` (and which queues have
memory), `LeavesWhatItFinds` (the shape that `Init` allows is never lost, which
is what lets commands of earlier programs be there) and `Reaping` (an
inquiry's count is still there when the reap comes: completions only arrive in
between). The lemmas `EnqueueInv`, `RingInv`, `HandOutInv`, `ExecuteInv` and
`ResetInv` show for each way of moving commands that it keeps that shape. The
numeric part is in `SizeFacts` and `ReapCountFacts`: a byte count cut to 16
bits is that of no more entries, and a multiple of 16 still. Each of the
properties is a consequence; none of the two that speak of reaping holds by
itself from step to step, since the step that reaps relies on the count of an
earlier step. `DriveWithinMain` puts `NextDrive` to use: `main()` implements
the specification of `init_drive()`, so all the theorems about it hold of
`main()` too. `StepsRunOutHolds` proves the part of termination that needs no
fairness, with `Submitted` for the commands of the batch not yet queued:
`main()` takes at most NAdmin + 29 steps.

**`LifecycleProofs`** proves, for every length of the batch, that `MainProgram`
implements `CommandLifecycle`. `PlaceInv` adds to `MainInv` what it need not
know: that no more is queued than the batch and one read, and no read before the
statement that sends it (`Numbered`). `PlaceStepHolds` reduces the actions to
five ways of moving commands, the reset among them, and one lemma for each maps
it to a step of the abstract specification; what happens to commands of earlier
programs maps to a stutter (`OldCompletionStutters`, `ResetStutters`).

**`BitFieldsProofs`** proves that a cell of a command belongs to one bit of one
field and that assignments to disjoint fields do not disturb each other
(`FieldRoundTrip`), for every layout.

**`FormatProofs`** proves, from `SamplesAssumption` (a sample fits the C type
of its parameter), all four invariants of the run `command_format`. TLC sets
one parameter at a time to a few values; the proofs speak of every value of all
parameters at once. `Layouts` shows that no function assigns a bit of the
command twice, so that `FieldRoundTrip` applies; a function is described by the
place of each of its values (`Placed`, `Fit`), and the two that cut a parameter
in two pieces, `get_log_page()` and `nvm_read()`, by hand. `ParametersCovered`
shows that the pieces of a parameter are all the bits it has room for, but for
the two parameters in `Dropped`, which the code accepts and leaves out.
`EveryParameterArrives` follows: joining the pieces gives the parameter back.
A change in one of the tables (a field one bit too wide, two values in one
place, a forgotten assignment) makes one of these fail. The invariants need
`FormatInv`, since none of them mentions how the command came about: while a
call runs, the command is what the function stores for its parameters and the
envelope what the wrapper makes of it (`Calling`), and a queue creation past
its PREPARE has in `prepared` what the command says (`Prepared`). `StructsRead`
compares the named members of the header's structures with the unions, with
`IdentifyCns` for the one place where they differ in width (the structure's
16-bit `cns` spans the reserved byte, which is zero). `QueueMembers` does so
for the PREPARE structures, which the wrapper of a completion queue fills
through the members of a submission queue. The size of a queue is a number:
`Number` is a recursive function, and its bound is proved by induction over a
set of natural numbers with the theorem on well-founded relations
(`NatSetInduction`, `NumberBound`).

**`DeviceProofs`** proves, from `BuffersAssumption` and `DeviceAssumption`
(every access is of registers that are there), all four invariants of the run
`device_access`, for every heap, number of buffers, request, index, descriptor
table and set of accesses. `DeviceInv` adds to them `HeapShape` (a live block is
in the heap and as long as the product that was computed for it, which is the
length meant modulo 2^32), `Progress` (a running access has its target alive:
nothing frees it meanwhile) and `Moving`: the bytes moved so far are the
register's if nothing changed, and after one change there is a point up to which
they are old ones. `TransferFaithful` is `Moving` at the last byte. That a
wrapped product does no harm to the helpers is `IntNotLonger`: a length that
goes through an `int` is not longer than the `uint32_t` it was.

**`SharedProofs`** proves, from `SharedAssumption` alone, the four invariants
of the run `shared_queues` and the refinement, for every number of programs,
commands, slots and resets, with programs started and killed without end. First
come the slots between two pointers of a ring (`Window`) and how far one is
ahead of another (`Ahead`): `WindowGrows`, `WindowShrinks`, `WindowSplits`.
`SharedInv` then says that from
`head` on the pointers come in the order `fetch`, `tail`, `tailVirt`
(`RingOrder`), that `fetch` is ahead of `head` by exactly the commands taken and
not reaped (`Occupied`: this is what makes it right to free the *oldest* slots
when *any* completions are reaped), that every command is in one place
(`OnePlace`), and that an undisturbed inquiry's completions are still waiting
(`Counted`). `RingStep` shows once what a step may do to the places, as one of
six outcomes; `LifecycleStep` maps each to a step of `CommandLifecycle` or to
a stutter, and `SharedImplementsLifecycleHolds` puts them together.

Only model-checked: `Termination`, a liveness property under fairness and so
beyond this prover. `StepsRunOutHolds` proves that the steps are bounded, and
what is left to TLC is that fairness makes `main()` take them. All other properties of the passing
runs are theorems.

## Assumptions on what is not in the repository

- Driver: a call on a queue it does not have fails; SEND_64B_CMD appends one
  command; RING_SQ_DOORBELL shows all of a queue's commands; REAP copies
  no more than the entries asked for, the entries that fit in `size`, and the
  entries that wait, and may pick any of these; creating an admin queue that is there
  succeeds or fails without harm; ST_DISABLE leaves the admin queues; an ioctl
  that fails returns a negative value, or, in `init_drive()`, which tests
  `if (ret)`, any non-zero one.
- ST_DISABLE ("Controller reset without affecting Admin Q",
  `inc/dnvme_interface.h:102`): commands copied to the admin queue and not shown
  stay in it, completions that wait there stay, commands the controller was
  executing are over, the I/O queues go with all they hold. The driver keeps
  everything when a process ends.
- Shared queue: the driver refuses a command for a full ring or a missing
  queue; `head_ptr` advances by the number of completions reaped; a PREPARE for
  a queue that has memory leaves that memory as it is, whatever it answers; the
  creation of a queue whose memory a reset took makes no usable queue.
- Registers: the driver moves an access byte by byte, as `BYTE_LEN` says;
  a register changes as a whole.
- Programs that use buffers use no pointer that is NULL or freed. What a call
  writes outside the heap's bytes changes nothing the model has, what it reads
  there is any byte.
- Controller: fetches only what a doorbell has shown, completes each command
  once, and refuses a submission queue whose completion queue it does not have.
- PCI: of message control, software can write bits 15 and 14 only.

## Not modelled

- Output: `dnvme_show.c` and the `show_*` functions of `main.c` print and keep
  no state; in `MainProgram` each is a step with its error return.
- The functions of `dnvme_commands.c` that return 0 and send nothing.
- The metrics wrappers, which print; `ioctl_drive_metrics()` is never called,
  so the check of versions that `inc/dnvme_interface.h:143-148` speaks of has no
  code to model.
- The structures of `inc/dnvme_interface.h` that no code uses (`nvme_id_ctrl`
  and the like) other than by their size, and the ioctl numbers.
- Build rules and build products.

## Plan

Done: the modules above in the order of the inventory, and the proofs of every
property of the passing runs but `Termination`. What could follow: the buffers of
the identify commands, with the time at which the controller fills them, and the
tables of `CommandFormat` for the commands the library has only stubs for, once
they have code.
