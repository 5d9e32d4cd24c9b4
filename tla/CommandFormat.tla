--------------------------- MODULE CommandFormat ---------------------------
(***************************************************************************)
(* How a call of dnvme_commands.c becomes a 64-byte command and the        *)
(* structures that go with it into the driver: the function assigns its    *)
(* parameters to members of the unions cdw10..cdw15, the ioctl wrapper of  *)
(* dnvme_ioctrl.c describes the data buffer in struct nvme_64b_send and,   *)
(* for a queue creation, asks the driver for queue memory first.           *)
(*                                                                         *)
(* Parameters are sets of bits (module BitFields).  flags, metadata and    *)
(* prp2 are always zero, command_id and prp1 are the driver's.             *)
(***************************************************************************)
EXTENDS BitFields

CONSTANT Samples(_, _)   \* the values of a parameter, by its two widths

(* The samples of a parameter fit its C type. *)
ASSUME SamplesAssumption ==
    \A width \in {8, 16, 32, 64} : \A usable \in 1..width :
        \A s \in Samples(width, usable) : s \subseteq 0..(width - 1)

-----------------------------------------------------------------------------
(* enum nvme_admin_opcode and enum nvme_io_opcode, as far as they are sent. *)
NVME_ADMIN ==
    [DELETE_IOSQ |-> 0, CREATE_IOSQ |-> 1, GET_LOG_PAGE |-> 2,
     DELETE_IOCQ |-> 4, CREATE_IOCQ |-> 5, IDENTIFY |-> 6, ABORT |-> 8,
     SET_FEATURE |-> 9, GET_FEATURE |-> 10, ASYNC_EVENT_REQUEST |-> 12,
     FIRMWARE_COMMIT |-> 16, FIRMWARE_IMAGE_DOWNLOAD |-> 17,
     DEVICE_SELF_TEST |-> 20, FORMAT_NVM |-> 128, SANITIZE |-> 132]

NVME_CMD ==
    [FLUSH |-> 0, WRITE |-> 1, READ |-> 2, WRITE_UNCORRECTABLE |-> 4,
     COMPARE |-> 5, WRITE_ZEROES |-> 8, DATASET_MANAGEMENT |-> 9]

NVME_CMD_VERIFY == 12      \* no name in the enumeration

(* enum identify_cns, enum feature_id *)
NVME_ID_CNS == [NS |-> 0, CTRL |-> 1]
NVME_FEATURE_POWER_MANAGEMENT == 2

(* enum queue_arbitration: urgent, high, medium, low *)
NVME_SQ_PRIO == {0, 1 * 2, 2 * 2, 3 * 2}

(* enum firmware_commit_action: replace, replace and activate, activate *)
NVME_FIRMWARE_COMMIT == {0, 1 * 8, 2 * 8}

-----------------------------------------------------------------------------
(* The members of the unions that the library assigns. *)
OpcodeField == Field(0, 0, 8)
NsidField == Field(1, 0, 32)
Word(dw) == Field(dw, 0, 32)

Dw10 ==
    [create_iocq |-> [qid |-> Field(10, 0, 16), qsize |-> Field(10, 16, 16)],
     create_iosq |-> [qid |-> Field(10, 0, 16), qsize |-> Field(10, 16, 16)],
     del_ioq |-> [qid |-> Field(10, 0, 16)],
     abort |-> [sq_id |-> Field(10, 0, 16), cmd_id |-> Field(10, 16, 16)],
     dst |-> [stc |-> Field(10, 0, 3)],
     fw_cmt |-> [fs |-> Field(10, 0, 3), ca |-> Field(10, 3, 3),
                 bpid |-> Field(10, 31, 1)],
     fw_dnld |-> [numdw |-> Field(10, 0, 32)],
     set_feature |-> [fid |-> Field(10, 0, 8), save |-> Field(10, 31, 1)],
     get_feature |-> [fid |-> Field(10, 0, 8), select |-> Field(10, 8, 3)],
     get_log_page |-> [pid |-> Field(10, 0, 8), lsf |-> Field(10, 8, 4),
                       rae |-> Field(10, 15, 1), numdw |-> Field(10, 16, 16)],
     identify |-> [cns |-> Field(10, 0, 8), ctrl_id |-> Field(10, 16, 16)],
     format_nvm |-> [lbaf |-> Field(10, 0, 4), mset |-> Field(10, 4, 1),
                     pi |-> Field(10, 5, 3), pil |-> Field(10, 8, 1),
                     ses |-> Field(10, 9, 3)],
     sanitize |-> [action |-> Field(10, 0, 3), ause |-> Field(10, 3, 1),
                   owpass |-> Field(10, 4, 4), owipbp |-> Field(10, 8, 1),
                   ndas |-> Field(10, 9, 1)]]

Dw11 ==
    [create_iocq |-> [contig |-> Field(11, 0, 1), int_en |-> Field(11, 1, 1),
                      int_no |-> Field(11, 16, 16)],
     create_iosq |-> [contig |-> Field(11, 0, 1), qprio |-> Field(11, 1, 2),
                      cq_id |-> Field(11, 16, 16)],
     fw_dnld |-> [ofst |-> Field(11, 0, 32)],
     get_log_page |-> [numdw |-> Field(11, 0, 16)],
     pm |-> [ps |-> Field(11, 0, 5), wh |-> Field(11, 5, 3)],
     sanitize |-> [ovrpat |-> Field(11, 0, 32)]]

Dw12 == [create_iosq |-> [nvm_set_id |-> Field(12, 0, 16)],
         get_log_page |-> [offset_low |-> Field(12, 0, 32)]]

Dw13 == [get_log_page |-> [offset_up |-> Field(13, 0, 32)]]

Dw14 == [get_log_page |-> [uuid_idx |-> Field(14, 0, 7)],
         identify |-> [uuid_idx |-> Field(14, 0, 7)]]

DwRead ==
    [start_lba_low |-> Field(10, 0, 32), start_lba_up |-> Field(11, 0, 32),
     nlb |-> Field(12, 0, 16), prinfo |-> Field(12, 26, 4),
     fua |-> Field(12, 30, 1), lr |-> Field(12, 31, 1),
     dsm |-> Field(13, 0, 8), eilbrt |-> Field(14, 0, 32),
     elbat |-> Field(15, 0, 16), elbatm |-> Field(15, 16, 16)]

-----------------------------------------------------------------------------
(* One definition per function: its parameters and their widths, the       *)
(* values it fixes itself, where it puts each of them, where it leaves its *)
(* buffer, and the wrapper it calls.                                       *)
Whole(arg, field) == Put(arg, 0, field)

Header == {Whole("opcode", OpcodeField), Whole("nsid", NsidField)}

CreateIocq ==
    [wrapper |-> "create_iocq", buffer |-> "argument",
     args |-> [nsid |-> 32, cq_id |-> 16, int_no |-> 16, qsize |-> 16,
               contig |-> 8],
     fixed |-> [opcode |-> NVME_ADMIN.CREATE_IOCQ, int_en |-> 1],
     puts |-> Header \cup {Whole("cq_id", Dw10.create_iocq.qid),
                           Whole("qsize", Dw10.create_iocq.qsize),
                           Whole("int_en", Dw11.create_iocq.int_en),
                           Whole("int_no", Dw11.create_iocq.int_no),
                           Whole("contig", Dw11.create_iocq.contig)}]

CreateIosq ==
    [wrapper |-> "create_iosq", buffer |-> "argument",
     args |-> [nsid |-> 32, sq_id |-> 16, cq_id |-> 16, qsize |-> 16,
               contig |-> 8, qprio |-> 8, nvmsetid |-> 16],
     fixed |-> [opcode |-> NVME_ADMIN.CREATE_IOSQ],
     puts |-> Header \cup {Whole("sq_id", Dw10.create_iosq.qid),
                           Whole("qsize", Dw10.create_iosq.qsize),
                           Whole("contig", Dw11.create_iosq.contig),
                           Whole("qprio", Dw11.create_iosq.qprio),
                           Whole("cq_id", Dw11.create_iosq.cq_id),
                           Whole("nvmsetid", Dw12.create_iosq.nvm_set_id)}]

DeleteIosq ==
    [wrapper |-> "delete_ioq", buffer |-> "none",
     args |-> [nsid |-> 32, sq_id |-> 16],
     fixed |-> [opcode |-> NVME_ADMIN.DELETE_IOSQ],
     puts |-> Header \cup {Whole("sq_id", Dw10.del_ioq.qid)}]

DeleteIocq ==
    [wrapper |-> "delete_ioq", buffer |-> "none",
     args |-> [nsid |-> 32, cq_id |-> 16],
     fixed |-> [opcode |-> NVME_ADMIN.DELETE_IOCQ],
     puts |-> Header \cup {Whole("cq_id", Dw10.del_ioq.qid)}]

(* lsid is a parameter that goes nowhere; the wrapper is that of identify. *)
GetLogPage ==
    [wrapper |-> "identify", buffer |-> "prp1",
     args |-> [nsid |-> 32, pid |-> 8, lsf |-> 8, rae |-> 8, numdw |-> 32,
               lsid |-> 16, offset_low |-> 32, offset_up |-> 32,
               uuid_idx |-> 8],
     fixed |-> [opcode |-> NVME_ADMIN.GET_LOG_PAGE],
     puts |-> Header \cup {Whole("pid", Dw10.get_log_page.pid),
                           Whole("lsf", Dw10.get_log_page.lsf),
                           Whole("rae", Dw10.get_log_page.rae),
                           Whole("numdw", Dw10.get_log_page.numdw),
                           Put("numdw", 16, Dw11.get_log_page.numdw),
                           Whole("offset_low", Dw12.get_log_page.offset_low),
                           Whole("offset_up", Dw13.get_log_page.offset_up),
                           Whole("uuid_idx", Dw14.get_log_page.uuid_idx)}]

IdentifyPuts ==
    Header \cup {Whole("cns", Dw10.identify.cns),
                 Whole("ctrl_id", Dw10.identify.ctrl_id),
                 Whole("uuid_idx", Dw14.identify.uuid_idx)}

Identify ==
    [wrapper |-> "identify", buffer |-> "prp1",
     args |-> [nsid |-> 32, ctrl_id |-> 16, cns |-> 8, uuid_idx |-> 8],
     fixed |-> [opcode |-> NVME_ADMIN.IDENTIFY],
     puts |-> IdentifyPuts]

IdentifyAs(cns) ==
    [wrapper |-> "identify", buffer |-> "prp1",
     args |-> [nsid |-> 32, ctrl_id |-> 16, uuid_idx |-> 8],
     fixed |-> [opcode |-> NVME_ADMIN.IDENTIFY, cns |-> cns],
     puts |-> IdentifyPuts]

Abort ==
    [wrapper |-> "abort", buffer |-> "none",
     args |-> [nsid |-> 32, sq_id |-> 16, cmd_id |-> 16],
     fixed |-> [opcode |-> NVME_ADMIN.ABORT],
     puts |-> Header \cup {Whole("sq_id", Dw10.abort.sq_id),
                           Whole("cmd_id", Dw10.abort.cmd_id)}]

(* Mutants of DwordPuts: one dword written twice, two exchanged. *)
DwordPutsRepeated == {Whole("dw11", Word(11)), Whole("dw12", Word(12)),
                      Whole("dw13", Word(13)), Whole("dw14", Word(14)),
                      Whole("dw15", Word(14))}

DwordPutsExchanged == {Whole("dw11", Word(12)), Whole("dw12", Word(11)),
                       Whole("dw13", Word(13)), Whole("dw14", Word(14)),
                       Whole("dw15", Word(15))}

DwordPuts == {Whole("dw11", Word(11)), Whole("dw12", Word(12)),
              Whole("dw13", Word(13)), Whole("dw14", Word(14)),
              Whole("dw15", Word(15))}

SetFeature ==
    [wrapper |-> "set_feature", buffer |-> "prp1",
     args |-> [nsid |-> 32, feature_id |-> 16, save |-> 8, dw11 |-> 32,
               dw12 |-> 32, dw13 |-> 32, dw14 |-> 32, dw15 |-> 32],
     fixed |-> [opcode |-> NVME_ADMIN.SET_FEATURE],
     puts |-> Header \cup DwordPuts \cup
              {Whole("feature_id", Dw10.set_feature.fid),
               Whole("save", Dw10.set_feature.save)}]

(* dw11 is put together in a union of its own; no buffer. *)
SetPowerState ==
    [wrapper |-> "set_feature", buffer |-> "none",
     args |-> [nsid |-> 32, save |-> 8, ps |-> 8, wh |-> 8],
     fixed |-> [opcode |-> NVME_ADMIN.SET_FEATURE,
                feature_id |-> NVME_FEATURE_POWER_MANAGEMENT],
     puts |-> Header \cup {Whole("feature_id", Dw10.set_feature.fid),
                           Whole("save", Dw10.set_feature.save),
                           Whole("ps", Dw11.pm.ps), Whole("wh", Dw11.pm.wh)}]

GetFeature ==
    [wrapper |-> "get_feature", buffer |-> "prp1",
     args |-> [nsid |-> 32, feature_id |-> 16, select |-> 8, dw11 |-> 32,
               dw12 |-> 32, dw13 |-> 32, dw14 |-> 32, dw15 |-> 32],
     fixed |-> [opcode |-> NVME_ADMIN.GET_FEATURE],
     puts |-> Header \cup DwordPuts \cup
              {Whole("feature_id", Dw10.get_feature.fid),
               Whole("select", Dw10.get_feature.select)}]

GetPowerState ==
    [wrapper |-> "get_feature", buffer |-> "none",
     args |-> [nsid |-> 32, select |-> 8],
     fixed |-> [opcode |-> NVME_ADMIN.GET_FEATURE,
                feature_id |-> NVME_FEATURE_POWER_MANAGEMENT],
     puts |-> Header \cup {Whole("feature_id", Dw10.get_feature.fid),
                           Whole("select", Dw10.get_feature.select)}]

(* .nsid = 0, whatever the parameter. *)
AsyncEventRequest ==
    [wrapper |-> "async_event_request", buffer |-> "none",
     args |-> [nsid |-> 32],
     fixed |-> [opcode |-> NVME_ADMIN.ASYNC_EVENT_REQUEST],
     puts |-> {Whole("opcode", OpcodeField)}]

FirmwareCommit ==
    [wrapper |-> "firmware_commit", buffer |-> "none",
     args |-> [nsid |-> 32, fs |-> 32, ca |-> 32, bpid |-> 32],
     fixed |-> [opcode |-> NVME_ADMIN.FIRMWARE_COMMIT],
     puts |-> Header \cup {Whole("fs", Dw10.fw_cmt.fs),
                           Whole("ca", Dw10.fw_cmt.ca),
                           Whole("bpid", Dw10.fw_cmt.bpid)}]

FirmwareImageDownload ==
    [wrapper |-> "firmware_download", buffer |-> "prp1",
     args |-> [nsid |-> 32, numdw |-> 32, ofst |-> 32],
     fixed |-> [opcode |-> NVME_ADMIN.FIRMWARE_IMAGE_DOWNLOAD],
     puts |-> Header \cup {Whole("numdw", Dw10.fw_dnld.numdw),
                           Whole("ofst", Dw11.fw_dnld.ofst)}]

DeviceSelfTest ==
    [wrapper |-> "device_self_test", buffer |-> "prp1",
     args |-> [nsid |-> 32, stc |-> 32],
     fixed |-> [opcode |-> NVME_ADMIN.DEVICE_SELF_TEST],
     puts |-> Header \cup {Whole("stc", Dw10.dst.stc)}]

FormatNvm ==
    [wrapper |-> "format_nvm", buffer |-> "none",
     args |-> [nsid |-> 32, lbaf |-> 8, mset |-> 8, pi |-> 8, pil |-> 8,
               ses |-> 8],
     fixed |-> [opcode |-> NVME_ADMIN.FORMAT_NVM],
     puts |-> Header \cup {Whole("lbaf", Dw10.format_nvm.lbaf),
                           Whole("mset", Dw10.format_nvm.mset),
                           Whole("pi", Dw10.format_nvm.pi),
                           Whole("pil", Dw10.format_nvm.pil),
                           Whole("ses", Dw10.format_nvm.ses)}]

Sanitize ==
    [wrapper |-> "sanitize", buffer |-> "prp1",
     args |-> [nsid |-> 32, action |-> 8, ause |-> 8, owpass |-> 8,
               owipbp |-> 8, ndas |-> 8, ovrpat |-> 32],
     fixed |-> [opcode |-> NVME_ADMIN.SANITIZE],
     puts |-> Header \cup {Whole("action", Dw10.sanitize.action),
                           Whole("ause", Dw10.sanitize.ause),
                           Whole("owpass", Dw10.sanitize.owpass),
                           Whole("owipbp", Dw10.sanitize.owipbp),
                           Whole("ndas", Dw10.sanitize.ndas),
                           Whole("ovrpat", Dw11.sanitize.ovrpat)}]

(* prp1 is left alone: the wrapper takes the buffer as an argument. *)
NvmRead ==
    [wrapper |-> "read", buffer |-> "argument",
     args |-> [nsid |-> 32, start_lba |-> 64, n_lba |-> 16, protect_info |-> 8,
               fua |-> 8, limit_retry |-> 8, dsm |-> 8, init_ref_tag |-> 32,
               app_tag |-> 16, app_tag_mask |-> 16],
     fixed |-> [opcode |-> NVME_CMD.READ],
     puts |-> Header \cup {Whole("start_lba", DwRead.start_lba_low),
                           Put("start_lba", 32, DwRead.start_lba_up),
                           Whole("n_lba", DwRead.nlb),
                           Whole("protect_info", DwRead.prinfo),
                           Whole("fua", DwRead.fua),
                           Whole("limit_retry", DwRead.lr),
                           Whole("dsm", DwRead.dsm),
                           Whole("init_ref_tag", DwRead.eilbrt),
                           Whole("app_tag", DwRead.elbat),
                           Whole("app_tag_mask", DwRead.elbatm)}]

(* A wrapper no function of the library calls: the program assembles the   *)
(* command itself, dword by dword, with its buffer in prp1.                *)
OwnCommand(wrapper, opcode) ==
    [wrapper |-> wrapper, buffer |-> "prp1",
     args |-> [nsid |-> 32, dw10 |-> 32, dw11 |-> 32, dw12 |-> 32, dw13 |-> 32,
               dw14 |-> 32, dw15 |-> 32],
     fixed |-> [opcode |-> opcode],
     puts |-> Header \cup DwordPuts \cup {Whole("dw10", Word(10))}]

Functions ==
    [create_iocq |-> CreateIocq, create_iosq |-> CreateIosq,
     delete_iosq |-> DeleteIosq, delete_iocq |-> DeleteIocq,
     get_log_page |-> GetLogPage, identify |-> Identify,
     identify_ns |-> IdentifyAs(NVME_ID_CNS.NS),
     identify_ctrl |-> IdentifyAs(NVME_ID_CNS.CTRL),
     abort |-> Abort, set_feature |-> SetFeature,
     set_power_state |-> SetPowerState, get_feature |-> GetFeature,
     get_power_state |-> GetPowerState,
     async_event_request |-> AsyncEventRequest,
     firmware_commit |-> FirmwareCommit,
     firmware_image_download |-> FirmwareImageDownload,
     device_self_test |-> DeviceSelfTest, format_nvm |-> FormatNvm,
     sanitize |-> Sanitize, nvm_read |-> NvmRead,
     own_log_page |-> OwnCommand("get_log_page", NVME_ADMIN.GET_LOG_PAGE),
     own_flush |-> OwnCommand("flush", NVME_CMD.FLUSH),
     own_write |-> OwnCommand("write", NVME_CMD.WRITE),
     own_compare |-> OwnCommand("compare", NVME_CMD.COMPARE),
     own_write_uc |-> OwnCommand("write_uncorrectable",
                                NVME_CMD.WRITE_UNCORRECTABLE),
     own_write_zeros |-> OwnCommand("write_zeros", NVME_CMD.WRITE_ZEROES),
     own_dsm |-> OwnCommand("dataset_management", NVME_CMD.DATASET_MANAGEMENT),
     own_verify |-> OwnCommand("verify", NVME_CMD_VERIFY)]

-----------------------------------------------------------------------------
(* enum data_direction *)
DATA_DIR_NONE == 0
DATA_DIR_TO_DEVICE == 1
DATA_DIR_FROM_DEVICE == 2

(* A buffer_size parameter, handed on as it is. *)
CallerSize == -1

IdentifySize == 4096          \* sizeof(struct nvme_id_ctrl)
(* Mutant of NVME_IOSQ_ELEMENT_SIZE: NVME_QUEUE_ELEMENTS in its place. *)
QueueElementsAsSize == 4096

NVME_IOSQ_ELEMENT_SIZE == 64
NVME_IOCQ_ELEMENT_SIZE == 16
(* The 16-bit number that has these bits, the highest first. *)
Number(bits) ==
    LET high[n \in 0..16] ==
            IF n = 0 THEN 0
            ELSE 2 * high[n - 1] + (IF 16 - n \in bits THEN 1 ELSE 0)
    IN  high[16]

BitsOf(n) == {k \in 0..7 : (n \div 2^k) % 2 = 1}

(* struct nvme_64b_send: the PRPs the driver may fill, the buffer (present *)
(* or NULL), its size and the direction of the transfer.                   *)
Send(mask, buffer, size, dir) ==
    [mask |-> mask, buffer |-> buffer, size |-> size, dir |-> dir]

CommandOnly == Send({}, FALSE, 0, DATA_DIR_NONE)

(* A queue made of one block is the driver's; one made of pages is the     *)
(* caller's buffer, whatever its pointer.                                  *)
QueueMemory(wire, elementSize, pointer, dir) ==
    IF Load(wire, Dw11.create_iosq.contig) = {}
    THEN Send({"PRP1_LIST"}, pointer,
              Number(Load(wire, Dw10.create_iosq.qsize)) * elementSize, dir)
    ELSE Send({"PRP1_PAGE"}, FALSE, 0, dir)

Creations == {"create_iocq", "create_iosq"}
AdminFromDevice == {"identify", "get_log_page", "get_feature",
                    "device_self_test"}
IoFromDevice == {"compare", "read", "verify", "write", "write_uncorrectable",
                 "write_zeros"}
ToDevice == {"set_feature", "firmware_download", "sanitize",
             "dataset_management"}

Direction(wrapper) ==
    IF wrapper \in AdminFromDevice \cup IoFromDevice THEN DATA_DIR_FROM_DEVICE
    ELSE IF wrapper \in ToDevice THEN DATA_DIR_TO_DEVICE
    ELSE DATA_DIR_NONE

(* pointer is the caller's, NULL or not: read and the creations get it as  *)
(* an argument, the other wrappers take it from prp1.                      *)
Envelope(wrapper, pointer, wire) ==
    CASE wrapper = "create_iocq" ->
            QueueMemory(wire, NVME_IOCQ_ELEMENT_SIZE, pointer, DATA_DIR_NONE)
      [] wrapper = "create_iosq" ->
            QueueMemory(wire, NVME_IOSQ_ELEMENT_SIZE, pointer,
                        DATA_DIR_FROM_DEVICE)
      [] wrapper = "identify" ->
            Send({"PRP1_PAGE"}, pointer, IdentifySize, Direction(wrapper))
      [] wrapper = "get_log_page" ->
            Send({"PRP1_PAGE"}, FALSE, 0, Direction(wrapper))
      [] wrapper = "read" ->
            Send({"PRP1_PAGE", "PRP1_LIST", "PRP2_PAGE", "PRP2_LIST"}, pointer,
                 CallerSize, Direction(wrapper))
      [] wrapper \notin Creations /\ Direction(wrapper) = DATA_DIR_NONE ->
            CommandOnly
      [] OTHER ->
            Send({"PRP1_PAGE"}, pointer, CallerSize, Direction(wrapper))

(* struct nvme_prep_cq and nvme_prep_sq; the first is read through the     *)
(* members of create_iosq, too.                                            *)
PrepCq(wire) ==
    [elements |-> Load(wire, Dw10.create_iosq.qsize),
     id |-> Load(wire, Dw10.create_iosq.qid),
     contig |-> Load(wire, Dw11.create_iosq.contig)]

PrepSq(wire) ==
    [elements |-> Load(wire, Dw10.create_iosq.qsize),
     id |-> Load(wire, Dw10.create_iosq.qid),
     cq_id |-> Load(wire, Dw11.create_iosq.cq_id),
     contig |-> Load(wire, Dw11.create_iosq.contig)]

-----------------------------------------------------------------------------
VARIABLES
    phase,        \* where the call is
    fn,           \* the function called
    value,        \* its parameters
    wire,         \* struct nvme_admin_cmd or nvme_io_cmd, as bits
    envelope,     \* struct nvme_64b_send
    prepared      \* driver: what the last PREPARE ioctl asked for

formatVars == <<phase, fn, value, wire, envelope, prepared>>

NoFunction == "none"
Nothing == [none |-> {}]
IsCreation(f) == f \in Creations

FormatInit ==
    /\ phase = "idle"
    /\ fn = NoFunction
    /\ value = Nothing
    /\ wire = {}
    /\ envelope = CommandOnly
    /\ prepared = Nothing

Assigned(f, v) ==
    LET fixed == Functions[f].fixed
    IN  [a \in DOMAIN v \cup DOMAIN fixed |->
            IF a \in DOMAIN fixed THEN BitsOf(fixed[a]) ELSE v[a]]

(* The structures on the stack, before the first ioctl; a caller that has  *)
(* a buffer to give may give NULL.                                         *)
Assemble(f, v, given) ==
    /\ phase = "idle"
    /\ phase' = IF IsCreation(f) THEN "prepare" ELSE "send"
    /\ fn' = f
    /\ value' = v
    /\ wire' = Store(Functions[f].puts, Assigned(f, v))
    /\ envelope' = Envelope(Functions[f].wrapper,
                            given /\ Functions[f].buffer # "none", wire')
    /\ prepared' = Nothing

(* Mutant of PrepareQueue: the command is sent whatever PREPARE answers. *)
PrepareQueueUnchecked ==
    /\ phase = "prepare"
    /\ phase' = "send"
    /\ \/ prepared' = IF fn = "create_iocq" THEN PrepCq(wire) ELSE PrepSq(wire)
       \/ UNCHANGED prepared
    /\ UNCHANGED <<fn, value, wire, envelope>>

(* NVME_IOCTL_PREPARE_CQ_CREATION or NVME_IOCTL_PREPARE_SQ_CREATION *)
PrepareQueue ==
    /\ phase = "prepare"
    /\ \/ /\ phase' = "send"
          /\ prepared' = IF fn = "create_iocq" THEN PrepCq(wire) ELSE PrepSq(wire)
       \/ /\ phase' = "failed"
          /\ UNCHANGED prepared
    /\ UNCHANGED <<fn, value, wire, envelope>>

(* NVME_IOCTL_SEND_64B_CMD *)
SendCommand ==
    /\ phase = "send"
    /\ phase' \in {"queued", "failed"}
    /\ UNCHANGED <<fn, value, wire, envelope, prepared>>

Leave ==
    /\ phase \in {"queued", "failed"}
    /\ phase' = "idle"
    /\ fn' = NoFunction
    /\ value' = Nothing
    /\ wire' = {}
    /\ envelope' = CommandOnly
    /\ prepared' = Nothing

(* Parameters that are wider in C than what the command has room for.      *)
Usable ==
    [contig |-> 1, qprio |-> 2, lsf |-> 4, rae |-> 1, uuid_idx |-> 7,
     feature_id |-> 8, save |-> 1, select |-> 3, ps |-> 5, wh |-> 3,
     fs |-> 3, ca |-> 3, bpid |-> 1, stc |-> 3, lbaf |-> 4, mset |-> 1,
     pi |-> 3, pil |-> 1, ses |-> 3, action |-> 3, ause |-> 1, owpass |-> 4,
     owipbp |-> 1, ndas |-> 1, protect_info |-> 4, fua |-> 1,
     limit_retry |-> 1]

UsableWidth(f, a) ==
    IF a \in DOMAIN Usable THEN Usable[a] ELSE Functions[f].args[a]

(* Parameters whose values dnvme.h has names for. *)
Named == [qprio |-> {BitsOf(n) : n \in NVME_SQ_PRIO},
          ca |-> {BitsOf(n) : n \in NVME_FIRMWARE_COMMIT}]

NamedFor(a) == IF a \in DOMAIN Named THEN Named[a] ELSE {}

(* All parameters zero, all ones, or one of them a sample or a named value. *)
Calls(f) ==
    LET args == Functions[f].args
        Zero == [a \in DOMAIN args |-> {}]
        Ones == [a \in DOMAIN args |-> 0..(args[a] - 1)]
    IN  {Zero, Ones} \cup
        UNION {{[Zero EXCEPT ![a] = s] :
                    s \in Samples(args[a], UsableWidth(f, a))
                          \cup NamedFor(a)} :
               a \in DOMAIN args}

FormatNext ==
    \/ \E f \in DOMAIN Functions : \E v \in Calls(f) :
          \E given \in BOOLEAN : Assemble(f, v, given)
    \/ PrepareQueue
    \/ SendCommand
    \/ Leave

FormatSpec == FormatInit /\ [][FormatNext]_formatVars

-----------------------------------------------------------------------------
(* The largest memory of a queue: 16-bit size, 64-byte commands.           *)
MaxQueueMemory == 65535 * 64

(* The command is 64 bytes, and the structures have the shape of theirs.   *)
FormatTypeOK ==
    /\ phase \in {"idle", "prepare", "send", "queued", "failed"}
    /\ fn \in DOMAIN Functions \cup {NoFunction}
    /\ wire \subseteq (0..15) \X (0..31)
    /\ \/ envelope.size = CallerSize
       \/ envelope.size \in 0..MaxQueueMemory
    /\ envelope.dir \in {DATA_DIR_NONE, DATA_DIR_TO_DEVICE, DATA_DIR_FROM_DEVICE}
    /\ prepared # Nothing =>
          \A a \in DOMAIN prepared : prepared[a] \subseteq 0..15

(* Parameters the functions accept and drop. *)
Dropped == {<<"get_log_page", "lsid">>, <<"async_event_request", "nsid">>}

Fits(a) == value[a] \subseteq 0..(UsableWidth(fn, a) - 1)

(* What a reader of the command gets for a parameter, its pieces joined.   *)
Recovered(a) ==
    UNION {{p.from + k : k \in Load(wire, p.field)} :
           p \in {q \in Functions[fn].puts : q.arg = a}}

(* Every parameter reaches the command whole, apart from the two that the  *)
(* functions drop, and a parameter too large for its field loses its upper *)
(* bits without touching another: numdw and the start LBA, which are cut   *)
(* in two, keep all their bits.                                            *)
RequestRecoverable ==
    fn # NoFunction =>
        \A a \in {b \in DOMAIN value : <<fn, b>> \notin Dropped} :
            Recovered(a) = value[a] \cap 0..(UsableWidth(fn, a) - 1)

(* The second description of some commands in dnvme_interface.h, a         *)
(* structure for each: where its named members have the parameters, ...    *)
Bytes(offset, len) == Field(offset \div 4, 8 * (offset % 4), 8 * len)

CreateCqStruct ==
    {Whole("cq_id", Bytes(40, 2)), Whole("qsize", Bytes(42, 2)),
     Whole("contig", Field(11, 0, 1)),       \* cq_flags
     Whole("int_en", Field(11, 1, 1)), Whole("int_no", Bytes(46, 2))}

DelQStruct(id) == {Whole(id, Bytes(40, 2))}

GetLogPageStruct ==
    {Whole("nsid", Bytes(4, 4)), Whole("pid", Bytes(40, 1)),
     Whole("lsf", Field(10, 8, 4)),          \* log_field
     Whole("rae", Field(10, 15, 1)),
     Whole("numdw", Bytes(42, 2)), Put("numdw", 16, Bytes(44, 2)),
     Whole("offset_low", Bytes(48, 4)), Whole("offset_up", Bytes(52, 4))}

IdentifyStruct ==
    {Whole("nsid", Bytes(4, 4)), Whole("cns", Bytes(40, 2)),
     Whole("ctrl_id", Bytes(42, 2))}

AbortStruct ==
    {Whole("nsid", Bytes(4, 4)), Whole("sq_id", Bytes(40, 2)),
     Whole("cmd_id", Bytes(42, 2))}

GetFeatureStruct ==
    {Whole("nsid", Bytes(4, 4)), Whole("feature_id", Field(10, 0, 8)),
     Whole("select", Field(10, 8, 3)), Whole("dw14", Field(14, 0, 7))}

SetFeatureStruct ==
    {Whole("nsid", Bytes(4, 4)), Whole("feature_id", Field(10, 0, 8)),
     Whole("save", Field(10, 31, 1)), Whole("dw11", Bytes(44, 4)),
     Whole("dw14", Field(14, 0, 7))}

StructPuts ==
    CASE fn = "create_iocq" -> CreateCqStruct
      [] fn = "delete_iosq" -> DelQStruct("sq_id")
      [] fn = "delete_iocq" -> DelQStruct("cq_id")
      [] fn = "get_log_page" -> GetLogPageStruct
      [] fn \in {"identify", "identify_ns", "identify_ctrl"} -> IdentifyStruct
      [] fn = "abort" -> AbortStruct
      [] fn = "get_feature" -> GetFeatureStruct
      [] fn = "set_feature" -> SetFeatureStruct
      [] OTHER -> {}

(* ... and which of its members are reserved.  nvme_identify ends before   *)
(* dword 14.                                                               *)
Dwords(first, last) == {Word(d) : d \in first..last}

Reserved ==
    CASE fn = "create_iocq" -> Dwords(1, 5) \cup Dwords(8, 9) \cup Dwords(12, 15)
      [] fn \in {"delete_iosq", "delete_iocq"} ->
            Dwords(1, 9) \cup {Bytes(42, 2)} \cup Dwords(11, 15)
      [] fn = "get_log_page" -> Dwords(2, 5) \cup {Bytes(46, 2)} \cup Dwords(14, 15)
      [] fn \in {"identify", "identify_ns", "identify_ctrl"} ->
            Dwords(2, 5) \cup Dwords(8, 9) \cup Dwords(11, 12) \cup {Bytes(52, 2)}
      [] fn = "abort" -> Dwords(2, 9) \cup Dwords(11, 15)
      [] fn = "get_feature" ->
            Dwords(2, 5) \cup {Field(10, 11, 21)} \cup Dwords(11, 13)
            \cup {Field(14, 7, 25), Word(15)}
      [] fn = "set_feature" ->
            Dwords(2, 5) \cup {Field(10, 8, 23)} \cup Dwords(12, 13)
            \cup {Field(14, 7, 25), Word(15)}
      [] OTHER -> {}

(* A driver that reads a command through the structure made for it, and    *)
(* not through the unions it was written with, finds in each named member  *)
(* what the caller passed for it.  What the functions put where the        *)
(* structure has no name is not seen there: ReservedStayZero.              *)
StructMembersAgree ==
    fn # NoFunction =>
        \A p \in StructPuts : Load(wire, p.field) = Slice(p, Assigned(fn, value))

(* A creation is queued only after a PREPARE that succeeded and that named *)
(* the same id, the same number for the size and the same layout, though   *)
(* the wrapper reads them back from the command, and for a completion      *)
(* queue through the members of a submission queue.  The number means less *)
(* to the driver than to the controller: dnvme_interface.h has 1-based     *)
(* elements, and the command a size from 0.                                *)
PreparedAsCommanded ==
    IsCreation(fn) /\ phase = "queued" =>
        /\ prepared # Nothing
        /\ prepared.id = value[IF fn = "create_iocq" THEN "cq_id" ELSE "sq_id"]
        /\ prepared.elements = value["qsize"]
        /\ prepared.contig = value["contig"] \cap {0}
        /\ fn = "create_iosq" => prepared.cq_id = value["cq_id"]

-----------------------------------------------------------------------------
(* dnvme_interface.h: "0=none; 1=to_device, 2=from_device": the data of a  *)
(* write go to the device.                                                 *)
WriteGoesToDevice ==
    phase = "queued" /\ fn = "own_write" => envelope.dir = DATA_DIR_TO_DEVICE

(* dnvme_interface.h has reserved members in the structures for the same   *)
(* commands: what is reserved stays zero.                                  *)
ReservedStayZero ==
    phase = "queued" => \A f \in Reserved : Load(wire, f) = {}

(* dnvme.h gives the priorities of a queue and the actions of a firmware   *)
(* commit as (n << 1) and (n << 3), where they stand in dwords 11 and 10:  *)
(* the command has there the value that was named.                         *)
NamedValuesInPlace ==
    /\ fn = "create_iosq" /\ value["qprio"] \in Named.qprio =>
          {k \in 1..2 : <<11, k>> \in wire} = value["qprio"]
    /\ fn = "firmware_commit" /\ value["ca"] \in Named.ca =>
          {k \in 3..5 : <<10, k>> \in wire} = value["ca"]
=============================================================================
