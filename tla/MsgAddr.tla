------------------------------ MODULE MsgAddr ------------------------------
(***************************************************************************)
(* parse_addr_workchain of src/src/instr/messageops.rs: the workchain of   *)
(* the contract's own address, read from its bits.  exec_send_message      *)
(* prices a message as masterchain when it is -1.  A slice is a sequence   *)
(* of bits; a read past its end is CellUnderflow.                          *)
(***************************************************************************)
EXTENDS Integers, Sequences, UtilAlgorithms

CONSTANT VAR_WC_BITS   \* width of an addr_var workchain (32)

Err(kind) == [ok |-> FALSE, err |-> kind]
Ok(v) == [ok |-> TRUE, value |-> v]

(* The `as i8` / `as i32` casts of an unsigned read of w bits. *)
CastSigned(v, w) == IF v >= 2^(w - 1) THEN v - 2^w ELSE v

(* SplitDepth::new: an anycast depth is 1..30. *)
SplitDepthOk(d) == d \in 1..30

(* Variant of StdWorkchain that keeps the u8 read, without the i8 cast. *)
StdWorkchainUnsigned(v) == v

(* `cs.load_u8()? as i8 as i32` (line 397): the addr_std workchain. *)
StdWorkchain(v) == CastSigned(v, 8)

(* parse_addr_workchain (lines 375-400): the first bit must be 1 (an       *)
(* internal address), then the addr_var bit and the anycast bit; an        *)
(* anycast prefix is a depth read with load_uint_leq(30), which must be a  *)
(* SplitDepth, and that many bits skipped.  addr_var skips the 9-bit       *)
(* address length and reads a workchain of VAR_WC_BITS (32) bits,         *)
(* addr_std one of 8 bits; both are signed.  The address bits that follow *)
(* are not read.                                                           *)
ParseAddrWorkchain(s) ==
    LET isVar == s[2] = 1
        depth == LoadUintLeq(BitsValue(SubSeq(s, 4, 3 + LoadUintLeqBits(30))), 30)
        p == IF s[3] = 1 THEN 4 + LoadUintLeqBits(30) + depth.value ELSE 4
    IN CASE Len(s) < 1 -> Err("CellUnderflow")
         [] s[1] = 0 -> Err("IntegerOutOfRange")
         [] Len(s) < 3 -> Err("CellUnderflow")
         [] s[3] = 1 /\ Len(s) < 3 + LoadUintLeqBits(30) -> Err("CellUnderflow")
         [] s[3] = 1 /\ ~depth.ok -> Err("IntOverflow")
         [] s[3] = 1 /\ ~SplitDepthOk(depth.value) -> Err("IntOverflow")
         [] isVar /\ Len(s) < p + 9 + VAR_WC_BITS - 1 -> Err("CellUnderflow")
         [] isVar -> Ok(CastSigned(BitsValue(SubSeq(s, p + 9, p + 8 + VAR_WC_BITS)), VAR_WC_BITS))
         [] Len(s) < p + 7 -> Err("CellUnderflow")
         [] OTHER -> Ok(StdWorkchain(BitsValue(SubSeq(s, p, p + 7))))
=============================================================================
