---------------------------- MODULE DeviceAccess ----------------------------
(***************************************************************************)
(* open_dev() and the register functions of dnvme_commands.c.  A program   *)
(* opens the device file, which another process may replace meanwhile, and *)
(* then reads and writes controller registers and PCI configuration space, *)
(* into and from buffers (module Buffers) or a variable on its stack.      *)
(*                                                                         *)
(* Every function describes its access with acc_type BYTE_LEN, whatever    *)
(* the width in its name, so the driver moves one byte after another and   *)
(* the registers may change between two of them.                           *)
(***************************************************************************)
EXTENDS Buffers, FiniteSets

CONSTANTS
    Descriptors,     \* the process's descriptor table
    Accesses,        \* the calls made: [op, space, offset, bytes], bytes
                     \* being those the caller means
    TopByte          \* 0xFF

VARIABLES
    path,            \* the kind of file at the device's path
    table,           \* the kind of file behind each descriptor
    fd,              \* the descriptor the program works with
    opening,         \* the descriptor open_dev() is about to check
    device,          \* the bytes of the registers, by space and offset
    call,            \* the register call under way, or the last one
    done,            \* bytes the driver has moved
    local,           \* the variable on the stack
    failed,          \* history: it is over because the ioctl failed
    before,          \* history: the registers when it began
    changes          \* history: changes by others since then, 2 for more

openVars == <<path, table, fd, opening>>
accessVars == <<device, call, done, local, failed, before, changes>>
deviceVars == <<bufferVars, openVars, accessVars>>

-----------------------------------------------------------------------------
(* S_ISCHR or S_ISBLK holds of the first. *)
FileKinds == {"device", "regular"}
Closed == "closed"
NoFd == -1

(* enum nvme_io_space *)
Spaces == {"NVMEIO_PCI_HDR", "NVMEIO_BAR01"}

(* enum controller_reg *)
NVME_REG_CC == 20
NVME_REG_CSTS == 28

(* Message control: the word at capability offset 0x50, plus 2. *)
MsixCtrl == 82

Dword(r) == r..(r + 3)

Offsets(space) ==
    IF space = "NVMEIO_BAR01" THEN Dword(NVME_REG_CC) \cup Dword(NVME_REG_CSTS)
    ELSE MsixCtrl..(MsixCtrl + 1)

(* What changes at once. *)
Registers(space) ==
    IF space = "NVMEIO_BAR01" THEN {Dword(NVME_REG_CC), Dword(NVME_REG_CSTS)}
    ELSE {Offsets(space)}

(* Mutant of BYTE_LEN *)
WORD_LEN == 2

(* Bytes one step of the driver moves: enum nvme_acc_type *)
BYTE_LEN == 1

(* Mutant of WidthOf: the bytes of a word are those of a byte. *)
WidthNarrow(a) ==
    CASE a.op \in {"read_byte", "write_byte", "read_word", "write_word"} -> 1
      [] a.op \in {"read_dword", "write_dword", "get_ctrl_status"} -> 4
      [] a.op \in {"read_block", "write_block"} -> a.bytes

(* The nBytes that each function fills in. *)
WidthOf(a) ==
    CASE a.op \in {"read_byte", "write_byte"} -> 1
      [] a.op \in {"read_word", "write_word"} -> 2
      [] a.op \in {"read_dword", "write_dword", "get_ctrl_status"} -> 4
      [] a.op \in {"read_block", "write_block"} -> a.bytes

BlockOps == {"read_block", "write_block"}
Reads == {"read_byte", "read_word", "read_dword", "get_ctrl_status", "read_block"}
Writes == {"write_byte", "write_word", "write_dword", "write_block"}

(* The width each of the other functions has in its name. *)
NamedWidth ==
    [read_byte |-> 1, write_byte |-> 1, read_word |-> 2, write_word |-> 2,
     read_dword |-> 4, write_dword |-> 4, get_ctrl_status |-> 4]

(* Every access is of registers that are there; who calls a function with  *)
(* a width in its name means that width.                                   *)
ASSUME DeviceAssumption ==
    /\ NoFd \notin Descriptors
    /\ TopByte \in Bytes
    /\ \A a \in Accesses :
          /\ a.op \in Reads \cup Writes
          /\ a.space \in Spaces
          /\ a.offset \in Nat
          /\ a.bytes \in Nat \ {0}
          /\ a.op \notin BlockOps => a.bytes = NamedWidth[a.op]
          /\ \A i \in 0..(a.bytes - 1) : a.offset + i \in Offsets(a.space)

NoCall == [op |-> "none", space |-> "NVMEIO_BAR01", offset |-> 0, bytes |-> 0,
           meant |-> 0, target |-> "none", state |-> "idle"]
Running == call.state = "running"

Least(m, n) == IF m <= n THEN m ELSE n

Zeros == [i \in 0..3 |-> 0]

(* The -1 of a failing ioctl, in a uint32_t. *)
ErrorValue == [i \in 0..3 |-> TopByte]

DeviceInit ==
    /\ BuffersInit
    /\ path \in FileKinds
    /\ table = [d \in Descriptors |-> Closed]
    /\ fd = NoFd
    /\ opening = NoFd
    /\ device = [s \in Spaces |-> [o \in Offsets(s) |-> 0]]
    /\ call = NoCall
    /\ done = 0
    /\ local = Zeros
    /\ failed = FALSE
    /\ before = Zeros
    /\ changes = 0

-----------------------------------------------------------------------------
(* Another process puts a file of another kind in the place of the device. *)
(* Nothing looks at the path once the program has its descriptor.          *)
ReplacePath ==
    /\ fd = NoFd
    /\ path' \in FileKinds
    /\ UNCHANGED <<bufferVars, table, fd, opening, accessVars>>

(* open(dev, O_RDONLY) takes the lowest free descriptor. *)
Open ==
    LET free == {d \in Descriptors : table[d] = Closed}
    IN  /\ opening = NoFd /\ fd = NoFd
        /\ \E d \in free :
              /\ \A e \in free : d <= e
              /\ table' = [table EXCEPT ![d] = path]
              /\ opening' = d
        /\ UNCHANGED <<bufferVars, path, fd, accessVars>>

(* Mutant of CheckDevice: what is at the path now is asked. *)
CheckPath ==
    /\ opening # NoFd
    /\ opening' = NoFd
    /\ \/ path = "device" /\ fd' = opening
       \/ UNCHANGED fd
    /\ UNCHANGED <<bufferVars, path, table, accessVars>>

(* fstat(fd) fails, or the file is no device: the descriptor stays open.   *)
CheckDevice ==
    /\ opening # NoFd
    /\ opening' = NoFd
    /\ \/ table[opening] = "device" /\ fd' = opening
       \/ UNCHANGED fd
    /\ UNCHANGED <<bufferVars, path, table, accessVars>>

-----------------------------------------------------------------------------
(* A register function fills struct rw_generic and enters the driver; it   *)
(* does not know how long the buffer is.  get_ctrl_status(), show_cc() and *)
(* show_csts() read into a zeroed variable of their own, the block         *)
(* functions have a buffer of their caller's.                              *)
Begin(a, target) ==
    /\ fd # NoFd /\ ~Running
    /\ target # "local" => Live(target)
    /\ a.op = "get_ctrl_status" => target = "local"
    /\ a.op \in BlockOps => target # "local"
    /\ call' = [op |-> a.op, space |-> a.space, offset |-> a.offset,
                bytes |-> WidthOf(a), meant |-> a.bytes, target |-> target,
                state |-> "running"]
    /\ done' = 0
    /\ local' = Zeros
    /\ failed' = FALSE
    /\ before' = device[a.space]
    /\ changes' = 0
    /\ touched' = Untouched
    /\ UNCHANGED <<openVars, memory, block, asked, device>>

(* The bytes the driver moves next, counted from the start of the access. *)
Moved == done..(done + BYTE_LEN - 1)

(* The place of a byte on the program's side is one the model knows. *)
Known(i) == call.target = "local" \/ Address(call.target, i) \in Addresses

InBuffer(i) ==
    IF call.target = "local" THEN local[i] ELSE memory[Address(call.target, i)]

Driven ==
    IF call.target = "local" THEN Untouched
    ELSE [by |-> "driver", name |-> call.target,
          at |-> {Address(call.target, i) : i \in Moved}]

(* NVME_IOCTL_READ_GENERIC: a byte that goes elsewhere than in the heap    *)
(* changes nothing the model knows.                                        *)
DriverReads ==
    /\ call.op \in Reads
    /\ IF call.target = "local"
       THEN /\ local' = [i \in 0..3 |->
                   IF i \in Moved THEN device[call.space][call.offset + i]
                   ELSE local[i]]
            /\ UNCHANGED memory
       ELSE /\ memory' = [a \in Addresses |->
                   LET i == a - block[call.target].base
                   IN  IF i \in Moved THEN device[call.space][call.offset + i]
                       ELSE memory[a]]
            /\ UNCHANGED local
    /\ UNCHANGED device

(* NVME_IOCTL_WRITE_GENERIC: a byte from outside the heap may be any. *)
DriverWrites ==
    /\ call.op \notin Reads
    /\ \E source \in [Moved -> Bytes] :
          /\ \A i \in Moved : Known(i) => source[i] = InBuffer(i)
          /\ device' = [device EXCEPT ![call.space] =
                           [o \in Offsets(call.space) |->
                               LET i == o - call.offset
                               IN  IF i \in Moved THEN source[i] ELSE @[o]]]
    /\ UNCHANGED <<memory, local>>

(* One step of the driver's loop; the last one returns 0. *)
Transfer ==
    /\ Running
    /\ DriverReads \/ DriverWrites
    /\ touched' = Driven
    /\ done' = done + BYTE_LEN
    /\ call' = IF done' = call.bytes THEN [call EXCEPT !.state = "ok"] ELSE call
    /\ UNCHANGED <<openVars, block, asked, failed, before, changes>>

(* The ioctl fails at some byte, and the function returns the error, ... *)
TransferFails ==
    /\ Running
    /\ call.op # "get_ctrl_status"
    /\ call' = NoCall
    /\ done' = 0
    /\ before' = Zeros
    /\ changes' = 0
    /\ touched' = Untouched
    /\ local' = Zeros
    /\ UNCHANGED <<openVars, memory, block, asked, device, failed>>

(* ... except that get_ctrl_status() returns it in the place of the value. *)
StatusFails ==
    /\ Running
    /\ call.op = "get_ctrl_status"
    /\ call' = [call EXCEPT !.state = "ok"]
    /\ local' = ErrorValue
    /\ failed' = TRUE
    /\ touched' = Untouched
    /\ UNCHANGED <<openVars, memory, block, asked, device, done, before, changes>>

(* The controller or the driver changes a register, all bytes at once. *)
Change(space, register) ==
    /\ \E v \in Bytes :
          device' = [device EXCEPT ![space] =
                        [o \in Offsets(space) |-> IF o \in register THEN v ELSE @[o]]]
    /\ device' # device
    /\ changes' = IF call = NoCall THEN 0 ELSE Least(changes + 1, 2)
    /\ UNCHANGED <<bufferVars, openVars, call, done, local, failed, before>>

(* The program works on its buffers between two register calls. *)
UseBuffers ==
    /\ ~Running
    /\ BufferCall
    /\ call' = NoCall /\ done' = 0 /\ local' = Zeros
    /\ failed' = FALSE /\ before' = Zeros /\ changes' = 0
    /\ UNCHANGED <<openVars, device>>

DeviceNext ==
    \/ ReplacePath \/ Open \/ CheckDevice
    \/ \E a \in Accesses : \E t \in Names \cup {"local"} : Begin(a, t)
    \/ Transfer \/ TransferFails \/ StatusFails
    \/ \E s \in Spaces : \E r \in Registers(s) : Change(s, r)
    \/ UseBuffers

DeviceSpec == DeviceInit /\ [][DeviceNext]_deviceVars

-----------------------------------------------------------------------------
(* Every variable keeps its range.                                         *)
DeviceTypeOK ==
    /\ BuffersTypeOK
    /\ path \in FileKinds
    /\ table \in [Descriptors -> FileKinds \cup {Closed}]
    /\ fd \in Descriptors \cup {NoFd}
    /\ opening \in Descriptors \cup {NoFd}
    /\ \A s \in Spaces : device[s] \in [Offsets(s) -> Bytes]
    /\ call.state \in {"idle", "running", "ok"}
    /\ done \in 0..call.bytes
    /\ local \in [0..3 -> Bytes]
    /\ failed \in BOOLEAN
    /\ changes \in 0..2

(* A descriptor open_dev() returns is a device, though the file at the     *)
(* path may be replaced between open() and the check: what was opened is   *)
(* asked, not what is there now.                                           *)
OnlyDevicesReturned == fd # NoFd => table[fd] = "device"

(* No call leaves the buffer it was given, with these exceptions only: a   *)
(* helper with a negative index goes below it, and the driver goes beyond  *)
(* it when more bytes are asked of it than the buffer has.  A product that *)
(* wraps makes no exception of its own for the helpers: the length wraps   *)
(* as well when it is passed.                                              *)
AccessInBlock ==
    touched.name \in Names =>
        LET b == block[touched.name]
        IN  \A a \in touched.at :
                \/ a \in Extent(b)
                \/ touched.by = "helper" /\ a < b.base
                \/ touched.by = "driver" /\ call.bytes > b.size

(* A finished access has moved as many bytes as its name or its caller     *)
(* says, all of them: when nobody else changed the register, buffer and    *)
(* register agree; a read torn by one change has the old bytes first and   *)
(* the new ones after them.                                                *)
TransferFaithful ==
    call.state = "ok" /\ ~failed =>
        LET Now(i) == device[call.space][call.offset + i]
            Old(i) == before[call.offset + i]
            whole == {i \in 0..(call.meant - 1) : Known(i)}
        IN  /\ changes = 0 => \A i \in whole : InBuffer(i) = Now(i)
            /\ changes = 1 /\ call.op \in Reads =>
                  \E k \in 0..call.meant : \A i \in whole :
                      InBuffer(i) = IF i < k THEN Old(i) ELSE Now(i)

-----------------------------------------------------------------------------
(* dnvme.h: NVME_REG_CSTS is "Controller Status", and the function that    *)
(* returns the controller's status returns its value, unless it fails.     *)
StatusIsCsts ==
    call.state = "ok" /\ ~failed /\ call.op = "get_ctrl_status" /\ changes = 0 =>
        \A i \in 0..3 : local[i] = device["NVMEIO_BAR01"][NVME_REG_CSTS + i]
=============================================================================
