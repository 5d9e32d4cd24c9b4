--------------------------- MODULE MCDeviceAccess ---------------------------
(***************************************************************************)
(* A small instance of DeviceAccess: two buffers in a heap of three        *)
(* bytes, one descriptor, bytes that are 0 or 1.                           *)
(***************************************************************************)
EXTENDS DeviceAccess, TLC

CONSTANTS iocq_buffer, identify_buffer

MCNames == {iocq_buffer, identify_buffer}
Symmetry == Permutations(MCNames)

(* The second product is 9, and 1 in three bits. *)
MCRequests == {<<1, 2>>, <<3, 3>>}

(* From below the buffer, in it, and one beyond the longest. *)
MCIndices == -1..2

Access(op, space, offset, bytes) ==
    [op |-> op, space |-> space, offset |-> offset, bytes |-> bytes]

MCAccesses ==
    {Access("read_dword", "NVMEIO_BAR01", NVME_REG_CSTS, 4),
     Access("get_ctrl_status", "NVMEIO_BAR01", NVME_REG_CC, 4),
     Access("write_byte", "NVMEIO_PCI_HDR", MsixCtrl + 1, 1),
     Access("read_word", "NVMEIO_PCI_HDR", MsixCtrl, 2),
     Access("write_word", "NVMEIO_PCI_HDR", MsixCtrl, 2),
     Access("read_block", "NVMEIO_BAR01", NVME_REG_CC, 3),
     Access("write_block", "NVMEIO_PCI_HDR", MsixCtrl, 2)}
=============================================================================
