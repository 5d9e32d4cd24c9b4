---------------------------- MODULE DeviceProofs ----------------------------
(***************************************************************************)
(* Proofs about open_dev(), the register functions and the buffers they    *)
(* fill, for every set of accesses, every heap and every number of         *)
(* buffers.                                                                *)
(***************************************************************************)
EXTENDS DeviceAccess, TLAPS

Blocks == [base : Int, size : Nat]

(* A block is in the heap and as long as the uint32_t made of the length   *)
(* the program meant.                                                      *)
HeapShape ==
    /\ memory \in [Addresses -> Bytes]
    /\ block \in [Names -> Blocks]
    /\ asked \in [Names -> Nat]
    /\ \A n \in Names : Live(n) =>
          /\ block[n].size = asked[n] % UintRange
          /\ block[n].base \in Nat
          /\ block[n].base + block[n].size <= MemorySize

HeapInv == HeapShape /\ AccessInBlock

(* What a register call works on, from its beginning to its end.           *)
CallShape ==
    /\ call.op \in Reads \cup Writes
    /\ call.space \in Spaces
    /\ call.offset \in Nat
    /\ call.bytes \in Nat
    /\ call.meant = call.bytes
    /\ \A i \in 0..(call.bytes - 1) : call.offset + i \in Offsets(call.space)
    /\ call.target = "local" => call.bytes <= 4
    /\ call.target # "local" => call.target \in Names /\ Live(call.target)

Progress ==
    /\ done \in Nat
    /\ call.state \in {"idle", "running", "ok"}
    /\ call.state = "idle" => call = NoCall /\ done = 0 /\ changes = 0
    /\ call.state = "running" => CallShape /\ done < call.bytes
    /\ call.state = "ok" =>
          CallShape /\ done <= call.bytes /\ (failed \/ done = call.bytes)

DeviceShape ==
    /\ device = [s \in Spaces |-> device[s]]
    /\ \A s \in Spaces : device[s] \in [Offsets(s) -> Bytes]
    /\ local \in [0..3 -> Bytes]
    /\ failed \in BOOLEAN
    /\ changes \in 0..2

OpenShape ==
    /\ path \in FileKinds
    /\ table \in [Descriptors -> FileKinds \cup {Closed}]
    /\ fd \in Descriptors \cup {NoFd}
    /\ opening \in Descriptors \cup {NoFd}

Current(i) == device[call.space][call.offset + i]
Earlier(i) == before[call.offset + i]

(* What has been moved so far is what the register held before or holds    *)
(* now, where the model knows the place it was moved to or from.           *)
Moving ==
    call.state # "idle" /\ ~failed =>
        /\ changes = 0 /\ call.op \in Reads => before = device[call.space]
        /\ changes = 0 =>
              \A i \in 0..(done - 1) : Known(i) => InBuffer(i) = Current(i)
        /\ changes = 1 /\ call.op \in Reads =>
              \E k \in 0..done : \A i \in 0..(done - 1) : Known(i) =>
                  InBuffer(i) = IF i < k THEN Earlier(i) ELSE Current(i)

DeviceInv ==
    OpenShape /\ OnlyDevicesReturned /\ HeapInv /\ Progress /\ DeviceShape /\ Moving

-----------------------------------------------------------------------------
(* An allocation puts a block of the length asked for, as a uint32_t, in   *)
(* the heap.                                                               *)
LEMMA CreateBufferInv ==
    ASSUME HeapInv, NEW n \in Names, NEW r \in Requests, CreateBuffer(n, r)
    PROVE  HeapInv'
  <1>1. touched' = Untouched /\ memory' = memory
    BY DEF CreateBuffer
  <1>2. AccessInBlock'
    BY <1>1 DEF AccessInBlock, Untouched
  <1>3. CASE UNCHANGED <<block, asked>>
    BY <1>1, <1>2, <1>3 DEF HeapInv, HeapShape, Live, Addresses
  <1>4. CASE ~UNCHANGED <<block, asked>>
    <2> DEFINE meant == r[1] * r[2]
               size == Product(r[1], r[2])
    <2>1. meant \in Nat /\ size \in Nat /\ size = meant % UintRange
      BY BuffersAssumption DEF Product
    <2> HIDE DEF meant, size
    <2>2. PICK b \in Available(size) :
             /\ block' = [block EXCEPT ![n] = b]
             /\ asked' = [asked EXCEPT ![n] = meant]
      BY <1>4 DEF CreateBuffer, size, meant
    <2>3. /\ b.base \in Nat /\ b.size = size /\ b \in Blocks
          /\ b.base + size <= MemorySize
      BY <2>1, BuffersAssumption DEF Available, Addresses, Blocks
    <2>4. /\ block' \in [Names -> Blocks] /\ block'[n] = b /\ asked'[n] = meant
          /\ \A m \in Names \ {n} : block'[m] = block[m] /\ asked'[m] = asked[m]
      BY <2>2, <2>3 DEF HeapInv, HeapShape
    <2>5. HeapShape'
      BY <1>1, <2>1, <2>2, <2>3, <2>4 DEF HeapInv, HeapShape, Live, Addresses
    <2> QED
      BY <1>2, <2>5 DEF HeapInv
  <1> QED
    BY <1>3, <1>4

(* A length that goes through an int does not become longer than the       *)
(* uint32_t it was.                                                        *)
LEMMA IntNotLonger ==
    ASSUME NEW length \in Nat
    PROVE  AsInt(length) \in Int /\ AsInt(length) <= length % UintRange
  BY BuffersAssumption DEF AsInt

(* An index below the length the helper is given is in the block or below  *)
(* it: it is not beyond.                                                   *)
LEMMA IndexInBlock ==
    ASSUME HeapShape, NEW n \in Names, Live(n), NEW i \in Int,
           WithinLength(i, AsInt(asked[n]))
    PROVE  \/ Address(n, i) \in Extent(block[n])
           \/ Address(n, i) < block[n].base
  <1>1. asked[n] \in Nat /\ block[n] \in Blocks
        /\ block[n].size = asked[n] % UintRange
    BY DEF HeapShape
  <1>2. i < block[n].size
    BY <1>1, IntNotLonger DEF WithinLength, Blocks
  <1> QED
    BY <1>1, <1>2 DEF Blocks, Address, Extent

(* A helper that reads or writes a buffer moves no block and does not      *)
(* reach beyond its own.                                                   *)
LEMMA UseBufferInv ==
    ASSUME HeapInv, NEW n \in Names, NEW i \in Indices,
           DumpData(n, i) \/ \E v \in Bytes : SetData(n, i, v)
    PROVE  HeapInv'
  <1>1. /\ Live(n) /\ block' = block /\ asked' = asked /\ i \in Int
        /\ \/ touched' = Untouched
           \/ touched' = Helped(n, i) /\ WithinLength(i, AsInt(asked[n]))
    BY BuffersAssumption DEF DumpData, SetData
  <1>2. memory' \in [Addresses -> Bytes]
    BY DEF DumpData, SetData, HeapInv, HeapShape
  <1>3. HeapShape'
    BY <1>1, <1>2 DEF HeapInv, HeapShape, Live, Addresses
  <1>4. ASSUME touched' = Untouched
        PROVE  AccessInBlock'
    BY <1>4 DEF AccessInBlock, Untouched
  <1>5. ASSUME touched' = Helped(n, i), WithinLength(i, AsInt(asked[n]))
        PROVE  AccessInBlock'
    <2>1. \/ Address(n, i) \in Extent(block'[n])
          \/ Address(n, i) < block'[n].base
      BY <1>1, <1>5, IndexInBlock DEF HeapInv
    <2>2. /\ touched'.by = "helper" /\ touched'.name = n
          /\ touched'.at = {Address(n, i)}
      BY <1>5 DEF Helped
    <2> QED
      BY <2>1, <2>2 DEF AccessInBlock
  <1> QED
    BY <1>1, <1>3, <1>4, <1>5 DEF HeapInv

(* A freed block leaves the others as they are. *)
LEMMA FreeBufferInv ==
    ASSUME HeapInv, NEW n \in Names, FreeBuffer(n)
    PROVE  HeapInv'
  <1>1. /\ block' = [block EXCEPT ![n] = NULL] /\ asked' = [asked EXCEPT ![n] = 0]
        /\ touched' = Untouched
    BY DEF FreeBuffer
  <1>2. memory' \in [Addresses -> Bytes]
    BY BuffersAssumption DEF FreeBuffer, HeapInv, HeapShape
  <1>3. HeapShape'
    BY <1>1, <1>2 DEF HeapInv, HeapShape, Live, Addresses, Blocks, NULL
  <1>4. AccessInBlock'
    BY <1>1 DEF AccessInBlock, Untouched
  <1> QED
    BY <1>3, <1>4 DEF HeapInv

(* Every call of the buffer helpers preserves HeapInv. *)
LEMMA BufferCallInv == HeapInv /\ BufferCall => HeapInv'
  BY CreateBufferInv, UseBufferInv, FreeBufferInv DEF BufferCall

-----------------------------------------------------------------------------
(* open_dev() checks the descriptor it opened, whatever is at the path.    *)
LEMMA OpenInv ==
    OpenShape /\ OnlyDevicesReturned /\ [DeviceNext]_deviceVars
        => OpenShape' /\ OnlyDevicesReturned'
  <1> SUFFICES ASSUME OpenShape, OnlyDevicesReturned, [DeviceNext]_deviceVars
               PROVE  OpenShape' /\ OnlyDevicesReturned'
    OBVIOUS
  <1>1. CASE ReplacePath
    BY <1>1 DEF ReplacePath, OpenShape, OnlyDevicesReturned
  <1>2. CASE Open
    BY <1>2 DEF Open, OpenShape, OnlyDevicesReturned
  <1>3. CASE CheckDevice
    BY <1>3 DEF CheckDevice, OpenShape, OnlyDevicesReturned
  <1>4. ASSUME UNCHANGED openVars
        PROVE  OpenShape' /\ OnlyDevicesReturned'
    BY <1>4 DEF openVars, OpenShape, OnlyDevicesReturned
  <1>5. ASSUME ~ReplacePath, ~Open, ~CheckDevice
        PROVE  UNCHANGED openVars
    BY <1>5 DEF DeviceNext, deviceVars, Begin, Transfer, TransferFails,
                StatusFails, Change, UseBuffers
  <1> QED
    BY <1>1, <1>2, <1>3, <1>4, <1>5

-----------------------------------------------------------------------------
(* Every function asks the driver for the bytes its caller means; those    *)
(* that have a variable of their own ask for four at most.                 *)
LEMMA WidthFacts ==
    ASSUME NEW a \in Accesses
    PROVE  /\ WidthOf(a) = a.bytes
           /\ a.op \notin BlockOps => a.bytes <= 4
  BY DeviceAssumption DEF WidthOf, NamedWidth, Reads, Writes, BlockOps

(* A call begins: nothing has been moved.                                  *)
LEMMA BeginInv ==
    ASSUME DeviceInv, NEW a \in Accesses, NEW t \in Names \cup {"local"},
           Begin(a, t)
    PROVE  HeapInv' /\ Progress' /\ DeviceShape' /\ Moving'
  <1>1. /\ memory' = memory /\ block' = block /\ asked' = asked
        /\ touched' = Untouched /\ device' = device /\ done' = 0
        /\ changes' = 0 /\ local' = Zeros /\ before' = device[a.space]
        /\ failed' = FALSE
        /\ call' = [op |-> a.op, space |-> a.space, offset |-> a.offset,
                    bytes |-> a.bytes, meant |-> a.bytes, target |-> t,
                    state |-> "running"]
    BY WidthFacts DEF Begin
  <1>2. /\ a.op \in Reads \cup Writes /\ a.space \in Spaces /\ a.offset \in Nat
        /\ \A i \in 0..(a.bytes - 1) : a.offset + i \in Offsets(a.space)
        /\ a.bytes \in Nat /\ 0 < a.bytes
    BY DeviceAssumption
  <1>3. AccessInBlock'
    BY <1>1 DEF AccessInBlock, Untouched
  <1>4. HeapInv'
    BY <1>1, <1>3 DEF DeviceInv, HeapInv, HeapShape, Live, Addresses
  <1>5. CallShape'
    <2>1. /\ t = "local" => a.bytes <= 4
          /\ t # "local" => t \in Names /\ Live(t)'
      BY <1>1, WidthFacts DEF Begin, Live
    <2> QED
      BY <1>1, <1>2, <2>1 DEF CallShape
  <1>6. Progress'
    BY <1>1, <1>2, <1>5 DEF Progress
  <1>7. DeviceShape'
    <2>1. failed' \in BOOLEAN
      BY <1>1 DEF DeviceInv, DeviceShape
    <2>2. local' \in [0..3 -> Bytes]
      BY <1>1, BuffersAssumption DEF Zeros
    <2> QED
      BY <1>1, <2>1, <2>2 DEF DeviceInv, DeviceShape
  <1>8. Moving'
    BY <1>1 DEF Moving
  <1> QED
    BY <1>4, <1>6, <1>7, <1>8

(* The ioctl fails: there is no call any more.                             *)
LEMMA FailInv ==
    ASSUME DeviceInv, TransferFails
    PROVE  HeapInv' /\ Progress' /\ DeviceShape' /\ Moving'
  <1>1. /\ memory' = memory /\ block' = block /\ asked' = asked
        /\ touched' = Untouched /\ device' = device /\ call' = NoCall
        /\ done' = 0 /\ changes' = 0 /\ local' = Zeros /\ failed' = failed
    BY DEF TransferFails
  <1>2. AccessInBlock'
    BY <1>1 DEF AccessInBlock, Untouched
  <1>3. HeapInv'
    BY <1>1, <1>2 DEF DeviceInv, HeapInv, HeapShape, Live, Addresses
  <1>4. Progress' /\ Moving'
    BY <1>1 DEF Progress, Moving, NoCall
  <1>5. DeviceShape'
    <2>1. failed' \in BOOLEAN
      BY <1>1 DEF DeviceInv, DeviceShape
    <2>2. local' \in [0..3 -> Bytes]
      BY <1>1, BuffersAssumption DEF Zeros
    <2> QED
      BY <1>1, <2>1, <2>2 DEF DeviceInv, DeviceShape
  <1> QED
    BY <1>3, <1>4, <1>5

(* The ioctl of get_ctrl_status() fails: there is a value all the same.    *)
LEMMA StatusFailInv ==
    ASSUME DeviceInv, StatusFails
    PROVE  HeapInv' /\ Progress' /\ DeviceShape' /\ Moving'
  <1>1. /\ memory' = memory /\ block' = block /\ asked' = asked
        /\ touched' = Untouched /\ device' = device
        /\ call' = [call EXCEPT !.state = "ok"] /\ call.state = "running"
        /\ done' = done /\ changes' = changes /\ local' = ErrorValue
        /\ failed' = TRUE
    BY DEF StatusFails, Running
  <1>2. AccessInBlock'
    BY <1>1 DEF AccessInBlock, Untouched
  <1>3. HeapInv'
    BY <1>1, <1>2 DEF DeviceInv, HeapInv, HeapShape, Live, Addresses
  <1>4. CallShape /\ done \in Nat /\ done < call.bytes
    BY <1>1 DEF DeviceInv, Progress
  <1>5. /\ call'.op = call.op /\ call'.space = call.space
        /\ call'.offset = call.offset /\ call'.bytes = call.bytes
        /\ call'.meant = call.meant
        /\ call'.target = call.target /\ call'.state = "ok"
    BY <1>1
  <1>6. CallShape'
    BY <1>1, <1>4, <1>5 DEF CallShape, Live
  <1>7. Progress'
    BY <1>1, <1>4, <1>5, <1>6 DEF Progress, CallShape
  <1>8. Moving'
    BY <1>1 DEF Moving
  <1>9. DeviceShape'
    BY <1>1, DeviceAssumption DEF DeviceInv, DeviceShape, ErrorValue
  <1> QED
    BY <1>3, <1>7, <1>8, <1>9

(* The program uses its buffers: the call is over.                         *)
LEMMA UseInv ==
    ASSUME DeviceInv, UseBuffers
    PROVE  HeapInv' /\ Progress' /\ DeviceShape' /\ Moving'
  <1>1. /\ device' = device /\ call' = NoCall /\ done' = 0 /\ changes' = 0
        /\ local' = Zeros /\ failed' = FALSE
    BY DEF UseBuffers
  <1>2. HeapInv'
    BY BufferCallInv DEF DeviceInv, UseBuffers
  <1>3. Progress' /\ Moving'
    BY <1>1 DEF Progress, Moving, NoCall
  <1>4. DeviceShape'
    <2>1. failed' \in BOOLEAN
      BY <1>1 DEF DeviceInv, DeviceShape
    <2>2. local' \in [0..3 -> Bytes]
      BY <1>1, BuffersAssumption DEF Zeros
    <2> QED
      BY <1>1, <2>1, <2>2 DEF DeviceInv, DeviceShape
  <1> QED
    BY <1>2, <1>3, <1>4

(* A register changes: a read that saw no change before has all its bytes  *)
(* from before this one.                                                   *)
LEMMA ChangeInv ==
    ASSUME DeviceInv, NEW s \in Spaces, NEW r \in Registers(s), Change(s, r)
    PROVE  HeapInv' /\ Progress' /\ DeviceShape' /\ Moving'
  <1>1. /\ memory' = memory /\ block' = block /\ asked' = asked
        /\ touched' = touched /\ call' = call /\ done' = done
        /\ local' = local /\ before' = before /\ failed' = failed
        /\ changes' = IF call = NoCall THEN 0 ELSE Least(changes + 1, 2)
    BY DEF Change, bufferVars
  <1>2. HeapInv'
    BY <1>1 DEF DeviceInv, HeapInv, HeapShape, AccessInBlock, Live, Extent,
                Addresses
  <1>3. Progress'
    BY <1>1 DEF DeviceInv, Progress, CallShape, Live, NoCall
  <1>4. PICK v \in Bytes :
           device' = [device EXCEPT ![s] =
                        [o \in Offsets(s) |-> IF o \in r THEN v ELSE @[o]]]
    BY DEF Change
  <1>5. /\ device' = [p \in Spaces |-> device'[p]]
        /\ \A p \in Spaces : device'[p] \in [Offsets(p) -> Bytes]
    BY <1>4 DEF DeviceInv, DeviceShape
  <1>6. DeviceShape'
    BY <1>1, <1>5 DEF DeviceInv, DeviceShape, Least
  <1>7. ASSUME call.state # "idle"
        PROVE  /\ changes' # 0
               /\ changes' = 1 => changes = 0
    BY <1>1, <1>7 DEF DeviceInv, DeviceShape, Least, NoCall
  <1>8. ASSUME call.state # "idle", ~failed, changes' = 1, call.op \in Reads
        PROVE  \A i \in 0..(done - 1) : Known(i) => InBuffer(i) = Earlier(i)
    BY <1>7, <1>8 DEF DeviceInv, Moving, Current, Earlier
  <1>9. \A i : /\ InBuffer(i)' = InBuffer(i) /\ Earlier(i)' = Earlier(i)
               /\ Known(i)' = Known(i)
    BY <1>1 DEF InBuffer, Earlier, Address, Known, Addresses
  <1>10. ASSUME call.state # "idle", ~failed, changes' = 1, call.op \in Reads
         PROVE  \E k \in 0..done : \A i \in 0..(done - 1) : Known(i)' =>
                   InBuffer(i)' = IF i < k THEN Earlier(i)' ELSE Current(i)'
    <2>1. done \in 0..done /\ done \in Nat
      BY DEF DeviceInv, Progress
    <2>2. \A i \in 0..(done - 1) : Known(i)' =>
             InBuffer(i)' = IF i < done THEN Earlier(i)' ELSE Current(i)'
      BY <1>8, <1>9, <1>10, <2>1
    <2> QED
      BY <2>1, <2>2
  <1>11. Moving'
    BY <1>1, <1>7, <1>10 DEF Moving
  <1> QED
    BY <1>2, <1>3, <1>6, <1>11

-----------------------------------------------------------------------------
(* One step of the driver's loop reaches one byte further, in the register *)
(* and in the block or variable of the call; beyond the block only if more *)
(* was asked for than it has.                                              *)
LEMMA TransferStep ==
    ASSUME DeviceInv, Transfer
    PROVE  /\ CallShape /\ done \in Nat /\ done < call.bytes
           /\ Moved = {done} /\ done' = done + 1
           /\ call.target # "local" =>
                 \/ Address(call.target, done) \in Extent(block[call.target])
                 \/ call.bytes > block[call.target].size
  <1>1. CallShape /\ done \in Nat /\ done < call.bytes
    BY DEF DeviceInv, Progress, Transfer, Running
  <1>2. Moved = {done} /\ done' = done + 1
    BY <1>1 DEF Moved, BYTE_LEN, Transfer
  <1>3. ASSUME call.target # "local", call.bytes <= block[call.target].size
        PROVE  Address(call.target, done) \in Extent(block[call.target])
    <2>1. block[call.target] \in Blocks /\ done < block[call.target].size
      BY <1>1, <1>3 DEF CallShape, DeviceInv, HeapInv, HeapShape, Blocks
    <2> QED
      BY <1>1, <2>1 DEF Blocks, Address, Extent
  <1>4. call.target # "local" =>
           call.bytes \in Nat /\ block[call.target].size \in Int
    BY <1>1 DEF CallShape, DeviceInv, HeapInv, HeapShape, Blocks
  <1> QED
    BY <1>1, <1>2, <1>3, <1>4

(* The variable on the stack has room for what is read into it.            *)
LEMMA LocalShort ==
    ASSUME CallShape, NEW i \in Int, i >= 0, i < call.bytes,
           call.target = "local"
    PROVE  i \in 0..3
  BY DEF CallShape

(* A byte read: it is the register's, and no byte moved earlier changes.   *)
LEMMA ReadStep ==
    ASSUME DeviceInv, Transfer, DriverReads
    PROVE  /\ device' = device
           /\ local' \in [0..3 -> Bytes]
           /\ memory' \in [Addresses -> Bytes]
           /\ \A i \in {done} : Known(i) =>
                 InBuffer(i)' = device[call.space][call.offset + i]
           /\ \A i \in 0..(done - 1) : Known(i) => InBuffer(i)' = InBuffer(i)
  <1>1. CallShape /\ done \in Nat /\ done < call.bytes /\ Moved = {done}
    BY TransferStep
  <1>2. call'.target = call.target /\ block' = block
    BY DEF Transfer, DeviceInv, Progress
  <1>3. device[call.space][call.offset + done] \in Bytes
    BY <1>1 DEF CallShape, DeviceInv, DeviceShape
  <1>4. device' = device
    BY DEF DriverReads
  <1>5. CASE call.target = "local"
    <2>1. /\ local' = [i \in 0..3 |->
                   IF i \in {done} THEN device[call.space][call.offset + i]
                   ELSE local[i]]
          /\ memory' = memory
      BY <1>1, <1>5 DEF DriverReads
    <2>2. local' \in [0..3 -> Bytes]
      BY <1>3, <2>1 DEF DeviceInv, DeviceShape
    <2>3. \A i : InBuffer(i) = local[i] /\ InBuffer(i)' = local'[i]
      BY <1>2, <1>5 DEF InBuffer
    <2>4. \A i \in {done} :
             InBuffer(i)' = device[call.space][call.offset + i]
      <3>1. done \in 0..3
        BY <1>1, <1>5, LocalShort
      <3>2. local'[done] = device[call.space][call.offset + done]
        BY <2>1, <3>1
      <3> QED
        BY <2>3, <3>2
    <2>5. \A i \in 0..(done - 1) : Known(i) => InBuffer(i)' = InBuffer(i)
      <3> SUFFICES ASSUME NEW i \in 0..(done - 1)
                   PROVE  local'[i] = local[i]
        BY <2>3
      <3>1. i \in 0..3 /\ i \notin {done}
        BY <1>1, <1>5, LocalShort
      <3> QED
        BY <2>1, <3>1
    <2> QED
      BY <1>4, <2>1, <2>2, <2>4, <2>5 DEF DeviceInv, HeapInv, HeapShape
  <1>6. CASE call.target # "local"
    <2> DEFINE base == block[call.target].base
    <2>1. /\ memory' = [a \in Addresses |->
                   IF a - base \in {done}
                   THEN device[call.space][call.offset + (a - base)]
                   ELSE memory[a]]
          /\ local' = local
      BY <1>1, <1>6 DEF DriverReads
    <2>2. base \in Nat
      BY <1>1, <1>6 DEF CallShape, DeviceInv, HeapInv, HeapShape
    <2>3. memory' \in [Addresses -> Bytes]
      BY <1>3, <2>1, <2>2 DEF DeviceInv, HeapInv, HeapShape, Addresses
    <2>4. \A i : /\ InBuffer(i) = memory[base + i]
                 /\ InBuffer(i)' = memory'[base + i]
                 /\ Known(i) <=> base + i \in Addresses
      BY <1>2, <1>6 DEF InBuffer, Address, Known
    <2>5. \A i \in {done} : Known(i) =>
             InBuffer(i)' = device[call.space][call.offset + i]
      <3> SUFFICES ASSUME NEW i \in {done}, Known(i)
                   PROVE  InBuffer(i)' = device[call.space][call.offset + i]
        OBVIOUS
      <3>1. base + i \in Addresses /\ (base + i) - base = i
        BY <1>1, <2>2, <2>4
      <3> QED
        BY <2>1, <2>4, <3>1
    <2>6. \A i \in 0..(done - 1) : Known(i) => InBuffer(i)' = InBuffer(i)
      <3> SUFFICES ASSUME NEW i \in 0..(done - 1), Known(i)
                   PROVE  InBuffer(i)' = InBuffer(i)
        OBVIOUS
      <3>1. base + i \in Addresses /\ (base + i) - base # done
        BY <1>1, <2>2, <2>4
      <3> QED
        BY <2>1, <2>4, <3>1
    <2> QED
      BY <1>4, <2>1, <2>3, <2>5, <2>6 DEF DeviceInv, DeviceShape
  <1> QED
    BY <1>5, <1>6

(* A byte written: the register has it, and no byte written earlier        *)
(* changes.                                                                *)
LEMMA WriteStep ==
    ASSUME DeviceInv, Transfer, DriverWrites
    PROVE  /\ memory' = memory /\ local' = local
           /\ device' = [s \in Spaces |-> device'[s]]
           /\ \A s \in Spaces : device'[s] \in [Offsets(s) -> Bytes]
           /\ Known(done) =>
                 device'[call.space][call.offset + done] = InBuffer(done)
           /\ \A i \in 0..(done - 1) :
                 device'[call.space][call.offset + i] = Current(i)
  <1>1. /\ CallShape /\ done \in Nat /\ done < call.bytes
        /\ Moved = {done}
        /\ call.space \in Spaces /\ call.offset \in Nat
        /\ \A i \in 0..done : call.offset + i \in Offsets(call.space)
    BY TransferStep DEF CallShape
  <1>2. memory' = memory /\ local' = local
    BY DEF DriverWrites
  <1>3. PICK source \in [{done} -> Bytes] :
           /\ Known(done) => source[done] = InBuffer(done)
           /\ device' = [device EXCEPT ![call.space] =
                     [o \in Offsets(call.space) |->
                         IF o - call.offset \in {done} THEN source[o - call.offset]
                         ELSE @[o]]]
    BY <1>1 DEF DriverWrites
  <1>4. \A o \in Offsets(call.space) : o \in Nat
    BY DEF Offsets, Dword, MsixCtrl, NVME_REG_CC, NVME_REG_CSTS
  <1>5. /\ device' = [s \in Spaces |-> device'[s]]
        /\ \A s \in Spaces \ {call.space} : device'[s] = device[s]
        /\ device'[call.space] =
              [o \in Offsets(call.space) |->
                  IF o - call.offset \in {done} THEN source[o - call.offset]
                  ELSE device[call.space][o]]
    BY <1>1, <1>3 DEF DeviceInv, DeviceShape
  <1>6. device'[call.space] \in [Offsets(call.space) -> Bytes]
    BY <1>1, <1>4, <1>5 DEF DeviceInv, DeviceShape
  <1>7. device'[call.space][call.offset + done] = source[done]
    BY <1>1, <1>5
  <1>8. \A i \in 0..(done - 1) :
           device'[call.space][call.offset + i] = Current(i)
    BY <1>1, <1>5 DEF Current
  <1> QED
    BY <1>2, <1>3, <1>5, <1>6, <1>7, <1>8 DEF DeviceInv, DeviceShape

(* Whichever way the byte went, buffer and register agree on it, and on    *)
(* the earlier ones nothing has changed.                                   *)
LEMMA TransferFacts ==
    ASSUME DeviceInv, Transfer
    PROVE  /\ memory' \in [Addresses -> Bytes]
           /\ local' \in [0..3 -> Bytes]
           /\ device' = [s \in Spaces |-> device'[s]]
           /\ \A s \in Spaces : device'[s] \in [Offsets(s) -> Bytes]
           /\ call.op \in Reads => device' = device
           /\ \A i \in {done} : Known(i) =>
                 InBuffer(i)' = device'[call.space][call.offset + i]
           /\ \A i \in 0..(done - 1) :
                 /\ Known(i) => InBuffer(i)' = InBuffer(i)
                 /\ device'[call.space][call.offset + i] = Current(i)
  <1>1. CASE DriverReads
    BY <1>1, ReadStep DEF Current, DeviceInv, DeviceShape
  <1>2. CASE DriverWrites
    <2>1. call'.target = call.target /\ block' = block
      BY DEF Transfer, DeviceInv, Progress
    <2>2. \A i : InBuffer(i)' = InBuffer(i)
      BY <1>2, <2>1, WriteStep DEF InBuffer, Address
    <2>3. call.op \notin Reads
      BY <1>2 DEF DriverWrites
    <2> QED
      BY <1>2, <2>2, <2>3, WriteStep DEF DeviceInv, DeviceShape, HeapInv, HeapShape
  <1> QED
    BY <1>1, <1>2 DEF Transfer

(* Moving one byte of an access preserves DeviceInv. *)
LEMMA TransferInv ==
    ASSUME DeviceInv, Transfer
    PROVE  HeapInv' /\ Progress' /\ DeviceShape' /\ Moving'
  <1>1. /\ CallShape /\ done \in Nat /\ done < call.bytes /\ done' = done + 1
        /\ Moved = {done}
        /\ call.target # "local" =>
              \/ Address(call.target, done) \in Extent(block[call.target])
              \/ call.bytes > block[call.target].size
    BY TransferStep
  <1>2. /\ block' = block /\ asked' = asked /\ before' = before
        /\ changes' = changes /\ failed' = failed
        /\ call' = IF done' = call.bytes THEN [call EXCEPT !.state = "ok"] ELSE call
        /\ call.state = "running" /\ touched' = Driven
    BY DEF Transfer, Running
  <1>3. /\ call'.op = call.op /\ call'.space = call.space
        /\ call'.offset = call.offset /\ call'.bytes = call.bytes
        /\ call'.meant = call.meant /\ call'.target = call.target
        /\ call'.state = IF done' = call.bytes THEN "ok" ELSE "running"
    BY <1>2 DEF NoCall
  <1>4. HeapShape'
    BY <1>2, TransferFacts DEF DeviceInv, HeapInv, HeapShape, Live, Addresses
  <1>5. AccessInBlock'
    <2>1. CASE call.target = "local"
      BY <1>2, <2>1 DEF Driven, AccessInBlock, Untouched
    <2>2. CASE call.target # "local"
      <3>1. /\ touched'.by = "driver" /\ touched'.name = call.target
            /\ touched'.at = {Address(call.target, done)}
        BY <1>1, <1>2, <2>2 DEF Driven
      <3> QED
        BY <1>1, <1>2, <1>3, <2>2, <3>1 DEF AccessInBlock, Extent
    <2> QED
      BY <2>1, <2>2
  <1>6. HeapInv'
    BY <1>4, <1>5 DEF HeapInv
  <1>7. Progress'
    <2>1. CallShape'
      BY <1>1, <1>2, <1>3 DEF CallShape, Live
    <2> QED
      BY <1>1, <1>3, <2>1 DEF Progress, CallShape
  <1>8. DeviceShape'
    BY <1>2, TransferFacts DEF DeviceInv, DeviceShape
  <1>9. 0..(done' - 1) = 0..(done - 1) \cup {done}
    BY <1>1
  <1>10. \A i : /\ Earlier(i)' = Earlier(i) /\ Known(i)' = Known(i)
                /\ Current(i)' = device'[call.space][call.offset + i]
    BY <1>2, <1>3 DEF Earlier, Current, Known, Address, Addresses
  <1>11. \A i \in {done} : Known(i)' => InBuffer(i)' = Current(i)'
    BY <1>10, TransferFacts
  <1>12. \A i \in 0..(done - 1) :
            /\ Known(i) => InBuffer(i)' = InBuffer(i)
            /\ Current(i)' = Current(i)
    BY <1>10, TransferFacts
  <1>13. ASSUME changes = 0, ~failed
         PROVE  \A i \in 0..(done' - 1) : Known(i)' => InBuffer(i)' = Current(i)'
    <2>1. \A i \in 0..(done - 1) : Known(i) => InBuffer(i) = Current(i)
      BY <1>2, <1>13 DEF DeviceInv, Moving
    <2> QED
      BY <1>9, <1>10, <1>11, <1>12, <2>1
  <1>14. ASSUME changes = 1, call.op \in Reads, ~failed
         PROVE  \E k \in 0..done' : \A i \in 0..(done' - 1) : Known(i)' =>
                   InBuffer(i)' = IF i < k THEN Earlier(i)' ELSE Current(i)'
    <2>1. PICK k \in 0..done : \A i \in 0..(done - 1) : Known(i) =>
                InBuffer(i) = IF i < k THEN Earlier(i) ELSE Current(i)
      BY <1>2, <1>14 DEF DeviceInv, Moving
    <2>2. k \in 0..done'
      BY <1>1
    <2>3. \A i \in 0..(done - 1) : Known(i)' =>
             InBuffer(i)' = IF i < k THEN Earlier(i)' ELSE Current(i)'
      BY <1>10, <1>12, <2>1
    <2>4. \A i \in {done} : Known(i)' =>
             InBuffer(i)' = IF i < k THEN Earlier(i)' ELSE Current(i)'
      BY <1>1, <1>11
    <2>5. \A i \in 0..(done' - 1) : Known(i)' =>
             InBuffer(i)' = IF i < k THEN Earlier(i)' ELSE Current(i)'
      BY <1>9, <2>3, <2>4
    <2> QED
      BY <2>2, <2>5
  <1>15. ASSUME changes = 0, call.op \in Reads, ~failed
         PROVE  before' = device'[call.space]
    BY <1>2, <1>15, TransferFacts DEF DeviceInv, Moving
  <1>16. Moving'
    BY <1>2, <1>3, <1>13, <1>14, <1>15 DEF Moving
  <1> QED
    BY <1>6, <1>7, <1>8, <1>16

-----------------------------------------------------------------------------
(* DeviceInv holds before the first call. *)
LEMMA DeviceInitInv == DeviceInit => DeviceInv
  <1> SUFFICES ASSUME DeviceInit
               PROVE  DeviceInv
    OBVIOUS
  <1>1. HeapInv
    BY BuffersAssumption
    DEF DeviceInit, BuffersInit, HeapInv, HeapShape, AccessInBlock, Live, NULL,
        Blocks, Untouched
  <1>2. OpenShape /\ OnlyDevicesReturned
    BY DEF DeviceInit, OpenShape, OnlyDevicesReturned
  <1>3. Progress /\ Moving
    BY DEF DeviceInit, Progress, Moving, NoCall
  <1>4. DeviceShape
    <2>1. failed \in BOOLEAN
      BY DEF DeviceInit
    <2>2. local \in [0..3 -> Bytes]
      BY BuffersAssumption DEF DeviceInit, Zeros
    <2>3. /\ device = [s \in Spaces |-> device[s]]
          /\ \A s \in Spaces : device[s] \in [Offsets(s) -> Bytes]
          /\ changes \in 0..2
      BY BuffersAssumption DEF DeviceInit
    <2> QED
      BY <2>1, <2>2, <2>3 DEF DeviceShape
  <1> QED
    BY <1>1, <1>2, <1>3, <1>4 DEF DeviceInv

(* A step that changes nothing preserves DeviceInv. *)
LEMMA DeviceStutter ==
    ASSUME DeviceInv, UNCHANGED <<bufferVars, accessVars>>
    PROVE  HeapInv' /\ Progress' /\ DeviceShape' /\ Moving'
  <1>1. /\ memory' = memory /\ block' = block /\ asked' = asked
        /\ touched' = touched /\ device' = device /\ call' = call
        /\ done' = done /\ local' = local /\ before' = before
        /\ changes' = changes /\ failed' = failed
    BY DEF bufferVars, accessVars
  <1>2. HeapInv'
    BY <1>1 DEF DeviceInv, HeapInv, HeapShape, AccessInBlock, Live, Extent,
                Addresses
  <1>3. Progress'
    BY <1>1 DEF DeviceInv, Progress, CallShape, Live
  <1>4. DeviceShape'
    BY <1>1 DEF DeviceInv, DeviceShape
  <1>5. Moving'
    BY <1>1 DEF DeviceInv, Moving, InBuffer, Current, Earlier, Address,
                Known, Addresses
  <1> QED
    BY <1>2, <1>3, <1>4, <1>5

(* Every step of a program or of the device preserves DeviceInv. *)
LEMMA DeviceNextInv == DeviceInv /\ [DeviceNext]_deviceVars => DeviceInv'
  <1> SUFFICES ASSUME DeviceInv, [DeviceNext]_deviceVars
               PROVE  DeviceInv'
    OBVIOUS
  <1>1. OpenShape' /\ OnlyDevicesReturned'
    BY OpenInv DEF DeviceInv
  <1>2. HeapInv' /\ Progress' /\ DeviceShape' /\ Moving'
    <2>1. CASE ReplacePath \/ Open \/ CheckDevice \/ UNCHANGED deviceVars
      BY <2>1, DeviceStutter
      DEF ReplacePath, Open, CheckDevice, deviceVars
    <2>2. CASE Transfer \/ TransferFails \/ StatusFails \/ UseBuffers
      BY <2>2, TransferInv, FailInv, StatusFailInv, UseInv
    <2>3. CASE \E a \in Accesses : \E t \in Names \cup {"local"} : Begin(a, t)
      BY <2>3, BeginInv
    <2>4. CASE \E s \in Spaces : \E r \in Registers(s) : Change(s, r)
      BY <2>4, ChangeInv
    <2> QED
      BY <2>1, <2>2, <2>3, <2>4 DEF DeviceNext
  <1> QED
    BY <1>1, <1>2 DEF DeviceInv

-----------------------------------------------------------------------------
(* The inductive invariant holds, for every set of accesses, every number  *)
(* of buffers and descriptors, and every heap.                             *)
THEOREM DeviceInvariance == DeviceSpec => []DeviceInv
  BY DeviceInitInv, DeviceNextInv, PTL DEF DeviceSpec

(* Type correctness: no byte leaves the heap, the registers or the stack   *)
(* variable.                                                               *)
THEOREM DeviceTypeCorrect == DeviceSpec => []DeviceTypeOK
  <1>1. DeviceInv => DeviceTypeOK
    <2> SUFFICES ASSUME DeviceInv
                 PROVE  DeviceTypeOK
      OBVIOUS
    <2>1. \A n \in Names : Live(n) => Extent(block[n]) \subseteq Addresses
      BY BuffersAssumption
      DEF DeviceInv, HeapInv, HeapShape, Blocks, Extent, Addresses
    <2>2. BuffersTypeOK
      BY <2>1 DEF DeviceInv, HeapInv, HeapShape, BuffersTypeOK
    <2>3. done \in 0..call.bytes
      BY DEF DeviceInv, Progress, CallShape, NoCall
    <2> QED
      BY <2>2, <2>3 DEF DeviceInv, OpenShape, Progress, DeviceShape, DeviceTypeOK
  <1> QED
    BY DeviceInvariance, <1>1, PTL

(* A descriptor open_dev() returns is a device, whatever happens to the    *)
(* path meanwhile.                                                         *)
THEOREM OnlyDevicesReturnedHolds == DeviceSpec => []OnlyDevicesReturned
  <1>1. DeviceInv => OnlyDevicesReturned
    BY DEF DeviceInv
  <1> QED
    BY DeviceInvariance, <1>1, PTL

(* Neither a buffer helper nor a register function reaches outside the     *)
(* buffer it was given, but with a negative index or more bytes than the   *)
(* buffer has: whatever was allocated and freed before, and also when the  *)
(* product of the sizes has wrapped.                                       *)
THEOREM AccessInBlockHolds == DeviceSpec => []AccessInBlock
  <1>1. DeviceInv => AccessInBlock
    BY DEF DeviceInv, HeapInv
  <1> QED
    BY DeviceInvariance, <1>1, PTL

(* A finished access has moved the bytes its name or its caller says; a    *)
(* read torn by one change is old bytes followed by new ones.              *)
THEOREM TransferFaithfulHolds == DeviceSpec => []TransferFaithful
  <1>1. DeviceInv => TransferFaithful
    <2> SUFFICES ASSUME DeviceInv, call.state = "ok", ~failed
                 PROVE  TransferFaithful
      BY DEF TransferFaithful
    <2>1. done = call.meant
      BY DEF DeviceInv, Progress, CallShape
    <2>2. changes = 0 =>
             \A i \in 0..(call.meant - 1) : Known(i) => InBuffer(i) = Current(i)
      BY <2>1 DEF DeviceInv, Moving
    <2>3. changes = 1 /\ call.op \in Reads =>
             \E k \in 0..call.meant : \A i \in 0..(call.meant - 1) :
                 Known(i) => InBuffer(i) = IF i < k THEN Earlier(i) ELSE Current(i)
      BY <2>1 DEF DeviceInv, Moving
    <2> QED
      BY <2>2, <2>3 DEF TransferFaithful, Current, Earlier
  <1> QED
    BY DeviceInvariance, <1>1, PTL
=============================================================================
