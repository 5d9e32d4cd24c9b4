----------------------------- MODULE InitDrive -----------------------------
(***************************************************************************)
(* init_drive() of dnvme_commands.c: the sequence that brings a drive up,  *)
(* one action per call it makes into the kernel driver.                    *)
(*                                                                         *)
(* The calls are synchronous, so between two of them nothing but the       *)
(* process itself can fail: an ioctl may be refused, and the process may   *)
(* be killed.  The driver and the controller keep their state when that    *)
(* happens, and the next process calls init_drive() on whatever it finds.  *)
(*                                                                         *)
(* The driver is not part of the repository: enabled, adminQ, irqs and     *)
(* msgCtrl are what the code and the comments of inc/dnvme_interface.h     *)
(* say about it, and everything they leave open is a choice.               *)
(***************************************************************************)
EXTENDS Integers

CONSTANTS
    MsixValues,   \* message control words a controller may show at 0x52
    Errors        \* absolute values a failing ioctl() may return

(* What sixteen bits hold. *)
ControlWords == {n \in Nat : n < 65536}

(* Error numbers of the kernel: MAX_ERRNO is 4095. *)
ErrorNumbers == {n \in Nat : 0 < n /\ n < 4096}

ASSUME MsixValuesAssumption == MsixValues \subseteq ControlWords
ASSUME ErrorsAssumption == Errors \subseteq ErrorNumbers

VARIABLES
    ipc,              \* where init_drive() is
    result,           \* the status_type it returned
    msixEntryCount,   \* local msix_entry_count
    msixValue,        \* local value of dnvme_pcie_msix_enable()
    countRead,        \* history: the read behind msixEntryCount succeeded
    valueRead,        \* history: the read behind msixValue succeeded
    enabled,          \* controller: CC.EN
    adminQ,           \* driver: which admin queues exist
    irqs,             \* driver: vectors of the scheme in force, 0 if none
    msgCtrl           \* function: the MSI-X message control register

processVars == <<ipc, result, msixEntryCount, msixValue, countRead, valueRead>>
driverVars == <<enabled, adminQ, irqs, msgCtrl>>
driveVars == <<processVars, driverVars>>

-----------------------------------------------------------------------------
(* status_type *)
SUCCESS == 0
DISABLE_CONTROLLER_ERROR == 4
ENABLE_IRQ_ERROR == 5
CREATE_ADMIN_CQ_ERROR == 6
CREATE_ADMIN_SQ_ERROR == 7
ENABLE_CONTROLLER_ERROR == 8

Results == {SUCCESS, DISABLE_CONTROLLER_ERROR, ENABLE_IRQ_ERROR,
            CREATE_ADMIN_CQ_ERROR, CREATE_ADMIN_SQ_ERROR,
            ENABLE_CONTROLLER_ERROR}
NoResult == -1

AdminQueues == {"ACQ", "ASQ"}

(* Mutants of EntryCount: the mask forgotten, one vector too many. *)
EntryCountUnmasked(ctrl) == ctrl + 1
EntryCountOneMore(ctrl) == (ctrl % 64) + 2

(* msix_ctrl & 0x3F, plus one *)
EntryCount(ctrl) == (ctrl % 64) + 1

(* Mutant of OrBit7: the bit alone, the word that was read forgotten. *)
Bit7Alone(ctrl) == 128

(* msix_ctrl | 0x80 *)
OrBit7(ctrl) == IF (ctrl \div 128) % 2 = 1 THEN ctrl ELSE ctrl + 128

(* What dnvme_pcie_msix_get_ctrl() returns: the word, or the error code    *)
(* made negative and cut to 16 bits; the caller cannot tell them apart.    *)
GetCtrl(read, e) == IF read THEN msgCtrl ELSE 65536 - e

(* A write to message control: bits 15 (enable) and 14 (function mask) are *)
(* the only ones PCI lets software write; 10..0 is the table size less 1.  *)
RegWrite(old, value) == (old % 16384) + 16384 * (value \div 16384)
TableSize(ctrl) == (ctrl % 2048) + 1
MsixEnabled(ctrl) == (ctrl % 32768) + 32768
MsixOn(ctrl) == ctrl \div 32768 = 1
MsixMasked(ctrl) == (ctrl \div 16384) % 2 = 1

Steps == {"get_entry_count", "disable", "set_irq", "create_acq", "create_asq",
          "enable", "msix_read", "msix_write", "metrics"}

Ended == {"idle", "returned", "exited", "killed"}

-----------------------------------------------------------------------------
DriveInit ==
    /\ ipc = "idle"
    /\ result = NoResult
    /\ msixEntryCount = 0
    /\ msixValue = 0
    /\ countRead = FALSE
    /\ valueRead = FALSE
    /\ enabled \in BOOLEAN          \* whatever the last session left
    /\ adminQ \in {{}, {"ACQ"}, AdminQueues}
    /\ irqs = 0
    /\ msgCtrl \in MsixValues

(* A call; the locals of an earlier one are gone. *)
Call ==
    /\ ipc \in Ended
    /\ ipc' = "get_entry_count"
    /\ result' = NoResult
    /\ msixEntryCount' = 0
    /\ msixValue' = 0
    /\ countRead' = FALSE
    /\ valueRead' = FALSE
    /\ UNCHANGED driverVars

Goto(from, to) ==
    /\ ipc = from
    /\ ipc' = to

Return(from, code) ==
    /\ Goto(from, "returned")
    /\ result' = code

GetEntryCount ==
    /\ Goto("get_entry_count", "disable")
    /\ \E read \in BOOLEAN, e \in Errors :
          /\ msixEntryCount' = EntryCount(GetCtrl(read, e))
          /\ countRead' = read
    /\ UNCHANGED <<result, msixValue, valueRead, driverVars>>

(* Mutant of Disable: its result is not looked at. *)
DisableUnchecked ==
    /\ Goto("disable", "set_irq")
    /\ enabled' \in {enabled, FALSE}
    /\ UNCHANGED <<result, msixEntryCount, msixValue, countRead, valueRead,
                   adminQ, irqs, msgCtrl>>

(* ST_DISABLE resets the controller and leaves the admin queues; when the  *)
(* call fails the reset may have happened all the same.                    *)
Disable ==
    /\ \/ /\ Goto("disable", "set_irq")
          /\ enabled' = FALSE
          /\ UNCHANGED result
       \/ /\ Return("disable", DISABLE_CONTROLLER_ERROR)
          /\ enabled' \in {enabled, FALSE}
    /\ UNCHANGED <<msixEntryCount, msixValue, countRead, valueRead,
                   adminQ, irqs, msgCtrl>>

(* The driver may arm MSI-X while it installs the scheme; a failed call    *)
(* may have torn the old scheme down.                                      *)
SetIrq ==
    /\ \/ /\ Goto("set_irq", "create_acq")
          /\ irqs' = msixEntryCount
          /\ msgCtrl' \in {msgCtrl, MsixEnabled(msgCtrl)}
          /\ UNCHANGED result
       \/ /\ Return("set_irq", ENABLE_IRQ_ERROR)
          /\ irqs' \in {irqs, 0}
          /\ UNCHANGED msgCtrl
    /\ UNCHANGED <<msixEntryCount, msixValue, countRead, valueRead,
                   enabled, adminQ>>

CreateAdminCq ==
    /\ \/ /\ Goto("create_acq", "create_asq")
          /\ adminQ' = adminQ \cup {"ACQ"}
          /\ UNCHANGED result
       \/ /\ Return("create_acq", CREATE_ADMIN_CQ_ERROR)
          /\ UNCHANGED adminQ
    /\ UNCHANGED <<msixEntryCount, msixValue, countRead, valueRead,
                   enabled, irqs, msgCtrl>>

(* Mutant of CreateAdminSq: its result is not looked at. *)
CreateAdminSqUnchecked ==
    /\ Goto("create_asq", "enable")
    /\ adminQ' \in {adminQ, adminQ \cup {"ASQ"}}
    /\ UNCHANGED <<result, msixEntryCount, msixValue, countRead, valueRead,
                   enabled, irqs, msgCtrl>>

CreateAdminSq ==
    /\ \/ /\ Goto("create_asq", "enable")
          /\ adminQ' = adminQ \cup {"ASQ"}
          /\ UNCHANGED result
       \/ /\ Return("create_asq", CREATE_ADMIN_SQ_ERROR)
          /\ UNCHANGED adminQ
    /\ UNCHANGED <<msixEntryCount, msixValue, countRead, valueRead,
                   enabled, irqs, msgCtrl>>

(* Mutant of Enable: its result is not looked at. *)
EnableUnchecked ==
    /\ Goto("enable", "msix_read")
    /\ enabled' \in {enabled, TRUE}
    /\ UNCHANGED <<result, msixEntryCount, msixValue, countRead, valueRead,
                   adminQ, irqs, msgCtrl>>

(* A failing ST_ENABLE may come after CC.EN was set (a time-out on ready). *)
Enable ==
    /\ \/ /\ Goto("enable", "msix_read")
          /\ enabled' = TRUE
          /\ UNCHANGED result
       \/ /\ Return("enable", ENABLE_CONTROLLER_ERROR)
          /\ enabled' \in {enabled, TRUE}
    /\ UNCHANGED <<msixEntryCount, msixValue, countRead, valueRead,
                   adminQ, irqs, msgCtrl>>

(* dnvme_pcie_msix_enable(): read the word, set bit 7, write it back; a    *)
(* failing write ends the process from inside the library.                 *)
MsixRead ==
    /\ Goto("msix_read", "msix_write")
    /\ \E read \in BOOLEAN, e \in Errors :
          /\ msixValue' = OrBit7(GetCtrl(read, e))
          /\ valueRead' = read
    /\ UNCHANGED <<result, msixEntryCount, countRead, driverVars>>

MsixWrite ==
    /\ \/ /\ Goto("msix_write", "metrics")
          /\ msgCtrl' = RegWrite(msgCtrl, msixValue)
       \/ /\ Goto("msix_write", "exited")
          /\ msgCtrl' \in {msgCtrl, RegWrite(msgCtrl, msixValue)}
    /\ UNCHANGED <<result, msixEntryCount, msixValue, countRead, valueRead,
                   enabled, adminQ, irqs>>

(* ioctl_device_metrics() only prints, and its failure is ignored. *)
DeviceMetrics ==
    /\ Return("metrics", SUCCESS)
    /\ UNCHANGED <<msixEntryCount, msixValue, countRead, valueRead, driverVars>>

InitDriveStep ==
    \/ GetEntryCount \/ Disable \/ SetIrq \/ CreateAdminCq \/ CreateAdminSq
    \/ Enable \/ MsixRead \/ MsixWrite \/ DeviceMetrics

(* The process is killed between two calls. *)
Crash ==
    /\ ipc \in Steps
    /\ ipc' = "killed"
    /\ UNCHANGED <<result, msixEntryCount, msixValue, countRead, valueRead,
                   driverVars>>

DriveNext == Call \/ InitDriveStep \/ Crash

DriveSpec == DriveInit /\ [][DriveNext]_driveVars

-----------------------------------------------------------------------------
VectorCounts == {n \in Nat : n <= 64}

(* Every variable keeps its range; 64 vectors is the most msix_entry_count *)
(* can ask for, whether its read succeeded or not.                         *)
DriveTypeOK ==
    /\ ipc \in Steps \cup Ended
    /\ result \in Results \cup {NoResult}
    /\ msixEntryCount \in VectorCounts
    /\ msixValue \in ControlWords
    /\ countRead \in BOOLEAN
    /\ valueRead \in BOOLEAN
    /\ enabled \in BOOLEAN
    /\ adminQ \in SUBSET AdminQueues
    /\ irqs \in VectorCounts
    /\ msgCtrl \in ControlWords

IrqSchemeSet == irqs = msixEntryCount

(* What the status of init_drive() tells its caller: each code names the   *)
(* first step that failed, so all the steps before it are in force, on a   *)
(* device an earlier process may have left in any state.                   *)
InitOutcome ==
    ipc = "returned" =>
        /\ result \in {ENABLE_IRQ_ERROR, CREATE_ADMIN_CQ_ERROR,
                       CREATE_ADMIN_SQ_ERROR} => ~enabled
        /\ result \in {CREATE_ADMIN_CQ_ERROR, CREATE_ADMIN_SQ_ERROR,
                       ENABLE_CONTROLLER_ERROR, SUCCESS} => IrqSchemeSet
        /\ result = CREATE_ADMIN_SQ_ERROR => "ACQ" \in adminQ
        /\ result \in {ENABLE_CONTROLLER_ERROR, SUCCESS} => adminQ = AdminQueues
        /\ result = SUCCESS => enabled

(* exit() in dnvme_pcie_msix_set_ctrl() gives the caller no chance to undo *)
(* anything: it leaves a running controller with both of its admin queues  *)
(* and the interrupt scheme of this call.                                  *)
ExitLeavesDriveRunning ==
    ipc = "exited" => enabled /\ adminQ = AdminQueues /\ IrqSchemeSet

(* After the read of message control succeeded, init_drive() asks for at   *)
(* least one vector and for no more than the table holds, though it looks  *)
(* at six bits of the eleven of the table size.                            *)
IrqsFitTable ==
    /\ countRead
    /\ \/ ipc \in {"create_acq", "create_asq", "enable", "msix_read",
                   "msix_write", "metrics", "exited"}
       \/ ipc = "returned" /\ result = SUCCESS
    => irqs \in 1..TableSize(msgCtrl)

(* The controller is switched on only when the call that does so has given *)
(* it both admin queues and its interrupt scheme.                          *)
EnableAfterSetup ==
    [][~enabled /\ enabled' => adminQ = AdminQueues /\ IrqSchemeSet]_driveVars

(* dnvme_pcie_msix_enable() never switches off the MSI-X that SET_IRQ may  *)
(* have switched on, though it writes back a word it cannot tell from an   *)
(* error code; only when its read failed may its write mask or unmask the  *)
(* vectors of the function, and then it masks them: an error number made   *)
(* negative has bits 15 and 14 set.                                        *)
MsixStaysOn ==
    [][ipc = "msix_write" =>
          /\ MsixOn(msgCtrl) => MsixOn(msgCtrl')
          /\ MsixMasked(msgCtrl) => MsixMasked(msgCtrl')
          /\ valueRead /\ MsixMasked(msgCtrl') => MsixMasked(msgCtrl)]_driveVars

-----------------------------------------------------------------------------
(* Inductive invariant: what is in force at each point of the sequence.    *)
AfterDisable == {"set_irq", "create_acq", "create_asq", "enable"}
AfterSetIrq == {"create_acq", "create_asq", "enable", "msix_read",
                "msix_write", "metrics", "exited"}
AfterCreateAcq == AfterSetIrq \ {"create_acq"}
AfterCreateAsq == AfterCreateAcq \ {"create_asq"}
AfterEnable == AfterCreateAsq \ {"enable"}

InForce ==
    /\ ipc \in AfterDisable => ~enabled
    /\ ipc \in AfterSetIrq => IrqSchemeSet
    /\ ipc \in AfterCreateAcq => "ACQ" \in adminQ
    /\ ipc \in AfterCreateAsq => adminQ = AdminQueues
    /\ ipc \in AfterEnable => enabled

(* Table size survives every write, so a count taken from it stays valid.  *)
CountFits ==
    countRead => msixEntryCount \in 1..TableSize(msgCtrl)

(* Bits 15 and 14 of the value about to be written are those of the        *)
(* register, or both set after a failed read.                              *)
WriteBack ==
    ipc = "msix_write" =>
        msixValue \div 16384 = IF valueRead THEN msgCtrl \div 16384 ELSE 3

DriveInv ==
    /\ DriveTypeOK
    /\ InForce
    /\ InitOutcome
    /\ CountFits
    /\ WriteBack

-----------------------------------------------------------------------------
(* dnvme_commands.h declares dnvme_pcie_msix_enable(): when it has read and *)
(* written message control, MSI-X is enabled.                              *)
MsixEnableEnables == ipc = "metrics" /\ valueRead => MsixOn(msgCtrl)
=============================================================================
