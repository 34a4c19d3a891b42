----------------------------- MODULE MCBlockIO -----------------------------
(***************************************************************************)
(* A small instance of BlockIO: writes of one byte, and of a block and a   *)
(* half.  Byte i of every buffer is i, so that a byte of the file tells    *)
(* the offset of the write it came from: bytes from another write or from  *)
(* another place of the buffer show.                                       *)
(***************************************************************************)
EXTENDS BlockIO

MCBufs == {[i \in 1..n |-> i] : n \in {1, 3}}
=============================================================================
