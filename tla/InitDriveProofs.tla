-------------------------- MODULE InitDriveProofs --------------------------
(***************************************************************************)
(* Proofs about init_drive(), for every set of control words and of error  *)
(* numbers.  First what the bit operations of the code do to a control     *)
(* word, then the inductive invariant DriveInv, then the properties.       *)
(***************************************************************************)
EXTENDS InitDrive, TLAPS

(* A word is its low fourteen bits and its upper two.                      *)
LEMMA SplitWord ==
    ASSUME NEW w \in ControlWords
    PROVE  /\ w \in Nat /\ w < 65536
           /\ w % 16384 \in Nat /\ w % 16384 < 16384
           /\ w \div 16384 \in Nat /\ w \div 16384 < 4
           /\ w = (w % 16384) + 16384 * (w \div 16384)
           /\ (w % 16384) % 2048 = w % 2048
  BY DEF ControlWords

(* Bits 15 and 14 do not reach the table size.                             *)
LEMMA TableSizeLow ==
    ASSUME NEW low \in Nat, NEW high \in Nat
    PROVE  (low + 16384 * high) % 2048 = low % 2048
  OBVIOUS

(* The upper two bits of a word put together from both.                    *)
LEMMA UpperBitsBack ==
    ASSUME NEW low \in Nat, low < 16384, NEW high \in Nat
    PROVE  (low + 16384 * high) \div 16384 = high
  OBVIOUS

(* A write to message control yields a control word with the table size of *)
(* the old one and the upper two bits of the value.                        *)
LEMMA RegWriteFacts ==
    ASSUME NEW old \in ControlWords, NEW value \in ControlWords
    PROVE  /\ RegWrite(old, value) \in ControlWords
           /\ TableSize(RegWrite(old, value)) = TableSize(old)
           /\ RegWrite(old, value) \div 16384 = value \div 16384
  <1>1. RegWrite(old, value) \in ControlWords
    BY SplitWord DEF RegWrite, ControlWords
  <1>2. TableSize(RegWrite(old, value)) = TableSize(old)
    BY SplitWord, TableSizeLow DEF RegWrite, TableSize
  <1>3. RegWrite(old, value) \div 16384 = value \div 16384
    <2> DEFINE low == old % 16384
               high == value \div 16384
    <2>1. low \in Nat /\ low < 16384 /\ high \in Nat
      BY SplitWord
    <2> HIDE DEF low, high
    <2>2. (low + 16384 * high) \div 16384 = high
      BY <2>1, UpperBitsBack
    <2> USE DEF low, high
    <2> QED
      BY <2>2 DEF RegWrite
  <1> QED
    BY <1>1, <1>2, <1>3

(* Arming MSI-X sets bit 15 and keeps the table size.                      *)
LEMMA MsixEnabledFacts ==
    ASSUME NEW ctrl \in ControlWords
    PROVE  /\ MsixEnabled(ctrl) \in ControlWords
           /\ TableSize(MsixEnabled(ctrl)) = TableSize(ctrl)
  BY DEF MsixEnabled, TableSize, ControlWords

(* Or-ing 0x80 into a control word keeps it 16 bits wide and leaves bits   *)
(* 15 and 14 alone.                                                        *)
LEMMA OrBit7Facts ==
    ASSUME NEW ctrl \in ControlWords
    PROVE  /\ OrBit7(ctrl) \in ControlWords
           /\ OrBit7(ctrl) \div 16384 = ctrl \div 16384
  BY DEF OrBit7, ControlWords

(* Masking with 0x3F asks for 1 to 64 vectors, never more than the table   *)
(* size in bits 10..0 allows.                                              *)
LEMMA EntryCountFacts ==
    ASSUME NEW ctrl \in ControlWords
    PROVE  /\ EntryCount(ctrl) \in VectorCounts
           /\ EntryCount(ctrl) \in 1..TableSize(ctrl)
  BY DEF EntryCount, TableSize, ControlWords, VectorCounts

(* What bits 15 and 14 say is in the word's upper two bits.                *)
LEMMA UpperBits ==
    ASSUME NEW w \in ControlWords
    PROVE  /\ MsixOn(w) <=> w \div 16384 \in {2, 3}
           /\ MsixMasked(w) <=> w \div 16384 \in {1, 3}
  BY DEF MsixOn, MsixMasked, ControlWords

(* Whether the read succeeds or not, the caller gets sixteen bits; those of *)
(* an error code have the upper two set.                                   *)
LEMMA GetCtrlFacts ==
    ASSUME msgCtrl \in ControlWords, NEW read \in BOOLEAN, NEW e \in Errors
    PROVE  /\ GetCtrl(read, e) \in ControlWords
           /\ read => GetCtrl(read, e) = msgCtrl
           /\ ~read => GetCtrl(read, e) \div 16384 = 3
  BY ErrorsAssumption DEF GetCtrl, ControlWords, ErrorNumbers
-----------------------------------------------------------------------------
(* What the locals start with is in range. *)
LEMMA ZeroFacts == 0 \in ControlWords /\ 0 \in VectorCounts
  BY DEF ControlWords, VectorCounts

(* DriveInv holds whatever the last session left. *)
LEMMA DriveInitInv == DriveInit => DriveInv
  <1> SUFFICES ASSUME DriveInit
               PROVE  DriveInv
    OBVIOUS
  <1>1. DriveTypeOK
    BY ZeroFacts, MsixValuesAssumption
    DEF DriveInit, DriveTypeOK, Ended, AdminQueues
  <1>2. InForce /\ InitOutcome /\ CountFits /\ WriteBack
    BY DEF DriveInit, InForce, InitOutcome, CountFits, WriteBack, AfterDisable,
           AfterSetIrq, AfterCreateAcq, AfterCreateAsq, AfterEnable
  <1> QED
    BY <1>1, <1>2 DEF DriveInv

(* A new call of init_drive() preserves DriveInv. *)
LEMMA CallInv == DriveInv /\ Call => DriveInv'
  <1> SUFFICES ASSUME DriveInv, Call
               PROVE  DriveInv'
    OBVIOUS
  <1>1. DriveTypeOK'
    BY ZeroFacts DEF Call, DriveInv, DriveTypeOK, driverVars, Steps
  <1>2. InForce' /\ InitOutcome' /\ CountFits' /\ WriteBack'
    BY DEF Call, InForce, InitOutcome, CountFits, WriteBack, AfterDisable,
           AfterSetIrq, AfterCreateAcq, AfterCreateAsq, AfterEnable
  <1> QED
    BY <1>1, <1>2 DEF DriveInv

(* So does a kill between two calls. *)
LEMMA CrashInv == DriveInv /\ Crash => DriveInv'
  <1> SUFFICES ASSUME DriveInv, Crash
               PROVE  DriveInv'
    OBVIOUS
  <1>1. DriveTypeOK'
    BY DEF Crash, DriveInv, DriveTypeOK, driverVars, Ended
  <1>2. InForce' /\ InitOutcome' /\ WriteBack'
    BY DEF Crash, InForce, InitOutcome, WriteBack, AfterDisable,
           AfterSetIrq, AfterCreateAcq, AfterCreateAsq, AfterEnable
  <1>3. CountFits'
    BY DEF Crash, DriveInv, CountFits, driverVars, TableSize
  <1> QED
    BY <1>1, <1>2, <1>3 DEF DriveInv

(* One call of init_drive() into the driver, refused or not.               *)
LEMMA StepInv == DriveInv /\ InitDriveStep => DriveInv'
  <1> SUFFICES ASSUME DriveInv, InitDriveStep
               PROVE  DriveInv'
    OBVIOUS
  <1> USE DEF Goto, Return, driverVars, IrqSchemeSet, AfterDisable, AfterSetIrq,
              AfterCreateAcq, AfterCreateAsq, AfterEnable
  <1>0. DriveTypeOK /\ InForce /\ InitOutcome /\ CountFits /\ WriteBack
    BY DEF DriveInv
  <1>1. CASE GetEntryCount
    <2>a. PICK read \in BOOLEAN, e \in Errors :
                 /\ msixEntryCount' = EntryCount(GetCtrl(read, e))
                 /\ countRead' = read
      BY <1>1 DEF GetEntryCount
    <2>b. /\ msixEntryCount' \in VectorCounts
          /\ countRead' => msixEntryCount' \in 1..TableSize(msgCtrl)
      BY <1>0, <2>a, GetCtrlFacts, EntryCountFacts DEF DriveTypeOK
    <2>c. msgCtrl' = msgCtrl
      BY <1>1 DEF GetEntryCount
    <2>1. DriveTypeOK'
      BY <1>0, <1>1, <2>a, <2>b
      DEF GetEntryCount, DriveTypeOK, Steps, Ended, Results
    <2>2. InForce'
      BY <1>0, <1>1 DEF GetEntryCount, InForce
    <2>3. InitOutcome'
      BY <1>0, <1>1
      DEF GetEntryCount, InForce, InitOutcome, SUCCESS, DISABLE_CONTROLLER_ERROR,
          ENABLE_IRQ_ERROR, CREATE_ADMIN_CQ_ERROR, CREATE_ADMIN_SQ_ERROR,
          ENABLE_CONTROLLER_ERROR
    <2>4. CountFits'
      BY <2>b, <2>c DEF CountFits, TableSize
    <2>5. WriteBack'
      BY <1>1 DEF GetEntryCount, WriteBack
    <2> QED
      BY <2>1, <2>2, <2>3, <2>4, <2>5 DEF DriveInv
  <1>2. CASE Disable
    <2>1. DriveTypeOK'
      BY <1>0, <1>2
      DEF Disable, DriveTypeOK, Steps, Ended, Results
    <2>2. InForce'
      BY <1>0, <1>2 DEF Disable, InForce
    <2>3. InitOutcome'
      BY <1>0, <1>2
      DEF Disable, InForce, InitOutcome, SUCCESS, DISABLE_CONTROLLER_ERROR,
          ENABLE_IRQ_ERROR, CREATE_ADMIN_CQ_ERROR, CREATE_ADMIN_SQ_ERROR,
          ENABLE_CONTROLLER_ERROR
    <2>4. CountFits'
      BY <1>0, <1>2 DEF Disable, CountFits, TableSize
    <2>5. WriteBack'
      BY <1>2 DEF Disable, WriteBack
    <2> QED
      BY <2>1, <2>2, <2>3, <2>4, <2>5 DEF DriveInv
  <1>3. CASE SetIrq
    <2>a. msgCtrl' \in ControlWords /\ TableSize(msgCtrl') = TableSize(msgCtrl)
      BY <1>0, <1>3, MsixEnabledFacts DEF SetIrq, DriveTypeOK
    <2>b. irqs' \in VectorCounts
      BY <1>0, <1>3, ZeroFacts DEF SetIrq, DriveTypeOK
    <2>1. DriveTypeOK'
      BY <1>0, <1>3, <2>a, <2>b
      DEF SetIrq, DriveTypeOK, Steps, Ended, Results
    <2>2. InForce'
      BY <1>0, <1>3 DEF SetIrq, InForce
    <2>3. InitOutcome'
      BY <1>0, <1>3
      DEF SetIrq, InForce, InitOutcome, SUCCESS, DISABLE_CONTROLLER_ERROR,
          ENABLE_IRQ_ERROR, CREATE_ADMIN_CQ_ERROR, CREATE_ADMIN_SQ_ERROR,
          ENABLE_CONTROLLER_ERROR
    <2>4. CountFits'
      BY <1>0, <1>3, <2>a DEF SetIrq, CountFits, TableSize
    <2>5. WriteBack'
      BY <1>3 DEF SetIrq, WriteBack
    <2> QED
      BY <2>1, <2>2, <2>3, <2>4, <2>5 DEF DriveInv
  <1>4. CASE CreateAdminCq
    <2>1. DriveTypeOK'
      BY <1>0, <1>4
      DEF CreateAdminCq, DriveTypeOK, Steps, Ended, Results, AdminQueues
    <2>2. InForce'
      BY <1>0, <1>4 DEF CreateAdminCq, InForce, AdminQueues
    <2>3. InitOutcome'
      BY <1>0, <1>4
      DEF CreateAdminCq, InForce, InitOutcome, SUCCESS, DISABLE_CONTROLLER_ERROR,
          ENABLE_IRQ_ERROR, CREATE_ADMIN_CQ_ERROR, CREATE_ADMIN_SQ_ERROR,
          ENABLE_CONTROLLER_ERROR
    <2>4. CountFits'
      BY <1>0, <1>4 DEF CreateAdminCq, CountFits, TableSize
    <2>5. WriteBack'
      BY <1>4 DEF CreateAdminCq, WriteBack
    <2> QED
      BY <2>1, <2>2, <2>3, <2>4, <2>5 DEF DriveInv
  <1>5. CASE CreateAdminSq
    <2>1. DriveTypeOK'
      BY <1>0, <1>5
      DEF CreateAdminSq, DriveTypeOK, Steps, Ended, Results, AdminQueues
    <2>2. InForce'
      BY <1>0, <1>5
      DEF CreateAdminSq, InForce, AdminQueues, DriveTypeOK
    <2>3. InitOutcome'
      BY <1>0, <1>5
      DEF CreateAdminSq, InForce, InitOutcome, SUCCESS, DISABLE_CONTROLLER_ERROR,
          ENABLE_IRQ_ERROR, CREATE_ADMIN_CQ_ERROR, CREATE_ADMIN_SQ_ERROR,
          ENABLE_CONTROLLER_ERROR
    <2>4. CountFits'
      BY <1>0, <1>5 DEF CreateAdminSq, CountFits, TableSize
    <2>5. WriteBack'
      BY <1>5 DEF CreateAdminSq, WriteBack
    <2> QED
      BY <2>1, <2>2, <2>3, <2>4, <2>5 DEF DriveInv
  <1>6. CASE Enable
    <2>1. DriveTypeOK'
      BY <1>0, <1>6
      DEF Enable, DriveTypeOK, Steps, Ended, Results
    <2>2. InForce'
      BY <1>0, <1>6 DEF Enable, InForce
    <2>3. InitOutcome'
      BY <1>0, <1>6
      DEF Enable, InForce, InitOutcome, SUCCESS, DISABLE_CONTROLLER_ERROR,
          ENABLE_IRQ_ERROR, CREATE_ADMIN_CQ_ERROR, CREATE_ADMIN_SQ_ERROR,
          ENABLE_CONTROLLER_ERROR
    <2>4. CountFits'
      BY <1>0, <1>6 DEF Enable, CountFits, TableSize
    <2>5. WriteBack'
      BY <1>6 DEF Enable, WriteBack
    <2> QED
      BY <2>1, <2>2, <2>3, <2>4, <2>5 DEF DriveInv
  <1>7. CASE MsixRead
    <2>a. PICK read \in BOOLEAN, e \in Errors :
                 /\ msixValue' = OrBit7(GetCtrl(read, e))
                 /\ valueRead' = read
      BY <1>7 DEF MsixRead
    <2>b. /\ msixValue' \in ControlWords
          /\ msixValue' \div 16384 =
                IF valueRead' THEN msgCtrl \div 16384 ELSE 3
      BY <1>0, <2>a, GetCtrlFacts, OrBit7Facts DEF DriveTypeOK
    <2>c. msgCtrl' = msgCtrl
      BY <1>7 DEF MsixRead
    <2>1. DriveTypeOK'
      BY <1>0, <1>7, <2>a, <2>b
      DEF MsixRead, DriveTypeOK, Steps, Ended, Results
    <2>2. InForce'
      BY <1>0, <1>7 DEF MsixRead, InForce
    <2>3. InitOutcome'
      BY <1>0, <1>7
      DEF MsixRead, InForce, InitOutcome, SUCCESS, DISABLE_CONTROLLER_ERROR,
          ENABLE_IRQ_ERROR, CREATE_ADMIN_CQ_ERROR, CREATE_ADMIN_SQ_ERROR,
          ENABLE_CONTROLLER_ERROR
    <2>4. CountFits'
      BY <1>0, <1>7 DEF MsixRead, CountFits, TableSize
    <2>5. WriteBack'
      BY <2>b, <2>c DEF WriteBack
    <2> QED
      BY <2>1, <2>2, <2>3, <2>4, <2>5 DEF DriveInv
  <1>8. CASE MsixWrite
    <2>a. msgCtrl' \in ControlWords /\ TableSize(msgCtrl') = TableSize(msgCtrl)
      BY <1>0, <1>8, RegWriteFacts DEF MsixWrite, DriveTypeOK
    <2>1. DriveTypeOK'
      BY <1>0, <1>8, <2>a
      DEF MsixWrite, DriveTypeOK, Steps, Ended, Results
    <2>2. InForce'
      BY <1>0, <1>8 DEF MsixWrite, InForce
    <2>3. InitOutcome'
      BY <1>0, <1>8
      DEF MsixWrite, InForce, InitOutcome, SUCCESS, DISABLE_CONTROLLER_ERROR,
          ENABLE_IRQ_ERROR, CREATE_ADMIN_CQ_ERROR, CREATE_ADMIN_SQ_ERROR,
          ENABLE_CONTROLLER_ERROR
    <2>4. CountFits'
      BY <1>0, <1>8, <2>a DEF MsixWrite, CountFits, TableSize
    <2>5. WriteBack'
      BY <1>8 DEF MsixWrite, WriteBack
    <2> QED
      BY <2>1, <2>2, <2>3, <2>4, <2>5 DEF DriveInv
  <1>9. CASE DeviceMetrics
    <2>1. DriveTypeOK'
      BY <1>0, <1>9
      DEF DeviceMetrics, DriveTypeOK, Steps, Ended, Results
    <2>2. InForce'
      BY <1>0, <1>9 DEF DeviceMetrics, InForce
    <2>3. InitOutcome'
      BY <1>0, <1>9
      DEF DeviceMetrics, InForce, InitOutcome, SUCCESS, DISABLE_CONTROLLER_ERROR,
          ENABLE_IRQ_ERROR, CREATE_ADMIN_CQ_ERROR, CREATE_ADMIN_SQ_ERROR,
          ENABLE_CONTROLLER_ERROR
    <2>4. CountFits'
      BY <1>0, <1>9 DEF DeviceMetrics, CountFits, TableSize
    <2>5. WriteBack'
      BY <1>9 DEF DeviceMetrics, WriteBack
    <2> QED
      BY <2>1, <2>2, <2>3, <2>4, <2>5 DEF DriveInv
  <1> QED
    BY <1>1, <1>2, <1>3, <1>4, <1>5, <1>6, <1>7, <1>8, <1>9 DEF InitDriveStep

(* A step that changes nothing preserves DriveInv. *)
LEMMA DriveStutterInv == DriveInv /\ UNCHANGED driveVars => DriveInv'
  BY DEF DriveInv, DriveTypeOK, InForce, InitOutcome, CountFits, WriteBack,
         IrqSchemeSet, driveVars, processVars, driverVars, TableSize

(* Every step of init_drive() and every kill preserves DriveInv. *)
LEMMA DriveNextInv == DriveInv /\ [DriveNext]_driveVars => DriveInv'
  BY CallInv, StepInv, CrashInv, DriveStutterInv DEF DriveNext

(* The inductive invariant: at every point of init_drive() the steps before *)
(* it are in force, the vector count fits the table it was read from, and   *)
(* the word about to be written back has the upper bits of the register, or *)
(* both of them set after a failed read.                                    *)
THEOREM DriveInvariance == DriveSpec => []DriveInv
  BY DriveInitInv, DriveNextInv, PTL DEF DriveSpec

(* Every variable keeps its range.                                          *)
THEOREM DriveTypeCorrect == DriveSpec => []DriveTypeOK
  <1>1. DriveInv => DriveTypeOK
    BY DEF DriveInv
  <1> QED
    BY <1>1, DriveInvariance, PTL

(* The status init_drive() returns says which steps are in force, whatever  *)
(* earlier processes, killed or not, left behind.                           *)
THEOREM InitOutcomeHolds == DriveSpec => []InitOutcome
  <1>1. DriveInv => InitOutcome
    BY DEF DriveInv
  <1> QED
    BY <1>1, DriveInvariance, PTL

(* exit() from inside the library leaves a running, set-up drive.           *)
THEOREM ExitLeavesDriveRunningHolds == DriveSpec => []ExitLeavesDriveRunning
  <1>1. DriveInv => ExitLeavesDriveRunning
    BY DEF DriveInv, InForce, ExitLeavesDriveRunning, AfterSetIrq,
           AfterCreateAcq, AfterCreateAsq, AfterEnable
  <1> QED
    BY <1>1, DriveInvariance, PTL

(* A vector count read from the device never exceeds its table.             *)
THEOREM IrqsFitTableHolds == DriveSpec => []IrqsFitTable
  <1>1. DriveInv => IrqsFitTable
    BY DEF DriveInv, InForce, InitOutcome, CountFits, IrqSchemeSet,
           IrqsFitTable, AfterSetIrq, SUCCESS
  <1> QED
    BY <1>1, DriveInvariance, PTL

(* The controller goes on only with both admin queues and the interrupt     *)
(* scheme of the same call.                                                 *)
THEOREM EnableAfterSetupHolds == DriveSpec => EnableAfterSetup
  <1>1. DriveInv /\ [DriveNext]_driveVars =>
          [~enabled /\ enabled' => adminQ = AdminQueues /\ IrqSchemeSet]_driveVars
    <2> SUFFICES ASSUME DriveInv, DriveNext, ~enabled, enabled'
                 PROVE  adminQ = AdminQueues /\ IrqSchemeSet
      OBVIOUS
    <2>1. CASE Enable
      BY <2>1 DEF Enable, Goto, Return, DriveInv, InForce, AfterSetIrq,
                  AfterCreateAcq, AfterCreateAsq
    <2>2. CASE DriveNext /\ ~Enable
      BY <2>2 DEF DriveNext, Call, InitDriveStep, GetEntryCount, Disable, SetIrq,
                  CreateAdminCq, CreateAdminSq, MsixRead, MsixWrite,
                  DeviceMetrics, Crash, driverVars
    <2> QED
      BY <2>1, <2>2
  <1> QED
    BY <1>1, DriveInvariance, PTL DEF DriveSpec, EnableAfterSetup

(* dnvme_pcie_msix_enable() switches MSI-X off for no word and no error, and *)
(* masks the vectors of the function only when its read failed.             *)
THEOREM MsixStaysOnHolds == DriveSpec => MsixStaysOn
  <1> DEFINE Kept ==
        ipc = "msix_write" =>
            /\ MsixOn(msgCtrl) => MsixOn(msgCtrl')
            /\ MsixMasked(msgCtrl) => MsixMasked(msgCtrl')
            /\ valueRead /\ MsixMasked(msgCtrl') => MsixMasked(msgCtrl)
  <1>1. DriveInv /\ [DriveNext]_driveVars => [Kept]_driveVars
    <2> SUFFICES ASSUME DriveInv, DriveNext, ipc = "msix_write"
                 PROVE  Kept
      OBVIOUS
    <2>1. /\ msgCtrl \in ControlWords /\ msixValue \in ControlWords
          /\ msixValue \div 16384 = IF valueRead THEN msgCtrl \div 16384 ELSE 3
      BY DEF DriveInv, DriveTypeOK, WriteBack
    <2>2. CASE MsixWrite /\ msgCtrl' = RegWrite(msgCtrl, msixValue)
      <3>1. msgCtrl' \in ControlWords /\ msgCtrl' \div 16384 = msixValue \div 16384
        BY <2>1, <2>2, RegWriteFacts
      <3>2. /\ MsixOn(msgCtrl') <=> msgCtrl' \div 16384 \in {2, 3}
            /\ MsixMasked(msgCtrl') <=> msgCtrl' \div 16384 \in {1, 3}
            /\ MsixOn(msgCtrl) <=> msgCtrl \div 16384 \in {2, 3}
            /\ MsixMasked(msgCtrl) <=> msgCtrl \div 16384 \in {1, 3}
        BY <2>1, <3>1, UpperBits
      <3> QED
        BY <2>1, <3>1, <3>2
    <2>3. CASE msgCtrl' = msgCtrl
      BY <2>3
    <2>4. CASE DriveNext /\ ~MsixWrite
      <3>1. msgCtrl' = msgCtrl
        BY <2>4 DEF DriveNext, Call, Ended, InitDriveStep, GetEntryCount, Disable,
                    SetIrq, CreateAdminCq, CreateAdminSq, Enable, MsixRead,
                    DeviceMetrics, Crash, Goto, Return, driverVars
      <3> QED
        BY <3>1
    <2> QED
      BY <2>2, <2>3, <2>4 DEF MsixWrite
  <1> QED
    BY <1>1, DriveInvariance, PTL DEF DriveSpec, MsixStaysOn
=============================================================================
