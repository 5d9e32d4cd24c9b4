---------------------------- MODULE MCInitDrive ----------------------------
(***************************************************************************)
(* A small instance of InitDrive.                                          *)
(***************************************************************************)
EXTENDS InitDrive

(* Tables of 1, 64, 65, 129 and 2048 vectors: below, at and above what six *)
(* bits can say, bit 7 clear and set, enable and mask bits clear and set.  *)
MCMsixValues == {0, 63, 64, 32768 + 128, 49152 + 2047}

(* libc's -1, and an error number a driver may return as it is.            *)
MCErrors == {1, 22}
=============================================================================
