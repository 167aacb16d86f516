------------------------------ MODULE MCTftpGet ------------------------------
(***************************************************************************)
(* TftpGet for TLC: a file of five units in blocks of one unit or two and  *)
(* block numbers modulo three, so that the number wraps in the middle of   *)
(* the file with either block size; one timeout and one retry.             *)
(***************************************************************************)
EXTENDS TftpGet
=============================================================================
