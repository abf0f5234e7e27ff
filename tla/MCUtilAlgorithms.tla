-------------------------- MODULE MCUtilAlgorithms --------------------------
(***************************************************************************)
(* Evaluates the helpers of util.rs, parse_addr_workchain of              *)
(* messageops.rs and the message layout steps of do_send_message, on      *)
(* bounded inputs and compares each                                        *)
(* result with a reference definition of what the helper computes.  One    *)
(* input is chosen initially and one step evaluates it.                    *)
(***************************************************************************)
EXTENDS UtilAlgorithms, MsgAddr, MsgLayout, FiniteSets, SequencesExt

CONSTANTS MaxWidth,  \* widths tried for store_int_to_builder
          LayoutBits, \* longest message bit string tried
          PENDING    \* no result yet (model value)

-----------------------------------------------------------------------------
(* Addresses for parse_addr_workchain, encoded as MsgAddressInt:           *)
(* addr_std$10 anycast:(Maybe Anycast) workchain_id:int8 address, or       *)
(* addr_var$11 anycast:(Maybe Anycast) addr_len:(## 9) workchain_id:int32  *)
(* address; Anycast is depth:(#<= 30) rewrite_pfx:(bits depth).  Tags 00  *)
(* (addr_none) and 01 (addr_extern) are not internal addresses.            *)
NoAnycast == -1        \* no anycast prefix

AddrBits == 4          \* address bits appended (256 for addr_std)

Ones(k) == [i \in 1..k |-> 1]

(* The bits of an address: tag, anycast, workchain, address. *)
Encode(a) ==
    a.tag
    \o (IF a.depth = NoAnycast THEN <<0>> ELSE <<1>> \o ValueBits(a.depth, 5) \o Ones(a.depth))
    \o (IF a.tag = <<1, 1>> THEN ValueBits(AddrBits, 9) \o ValueBits(a.wc, VAR_WC_BITS) ELSE ValueBits(a.wc, 8))
    \o Ones(AddrBits)

(* The bits parse_addr_workchain has to read: everything but the address. *)
HeaderLen(a) ==
    3 + (IF a.depth = NoAnycast THEN 0 ELSE 5 + a.depth) + (IF a.tag = <<1, 1>> THEN 9 + VAR_WC_BITS ELSE 8)

Internal(a) == a.tag \in {<<1, 0>>, <<1, 1>>} /\ (a.depth = NoAnycast \/ a.depth \in 1..30)

StdWorkchains == -128..127
VarWorkchains == {-(2^(VAR_WC_BITS - 1)), -(2^(VAR_WC_BITS - 1)) + 1, -129, -1, 0, 1, 128, 255,
                  2^(VAR_WC_BITS - 1) - 1}
Depths == {NoAnycast, 0, 1, 2, 30, 31}

Addrs ==
    {[tag |-> <<1, 0>>, depth |-> NoAnycast, wc |-> w] : w \in StdWorkchains}
    \cup {[tag |-> t, depth |-> d, wc |-> w] :
              t \in {<<0, 0>>, <<0, 1>>, <<1, 0>>, <<1, 1>>}, d \in Depths, w \in VarWorkchains \cap StdWorkchains}
    \cup {[tag |-> <<1, 1>>, depth |-> d, wc |-> w] : d \in Depths, w \in VarWorkchains}
-----------------------------------------------------------------------------
(* Message slices for the layout steps: every bit string up to LayoutBits *)
(* with up to three references to a code cell, a data cell, and state     *)
(* init roots (empty, with both references, with a stray bit, exotic).    *)
CodeCell == [bits |-> <<1>>, refs |-> <<>>, exotic |-> FALSE]
DataCell == [bits |-> <<0, 1>>, refs |-> <<>>, exotic |-> FALSE]
InitCells ==
    {[bits |-> <<0, 0>>, refs |-> <<>>, exotic |-> FALSE],
     [bits |-> <<1, 1>>, refs |-> <<CodeCell, DataCell>>, exotic |-> FALSE],
     [bits |-> <<0, 0, 1>>, refs |-> <<>>, exotic |-> FALSE],
     [bits |-> <<0, 0>>, refs |-> <<>>, exotic |-> TRUE]}
MsgSlices ==
    {Slice(b, r) : b \in BoundedSeq({0, 1}, LayoutBits),
                   r \in BoundedSeq({CodeCell, DataCell} \cup InitCells, 3)}

(* What a message says, by the TL-B of its tail: the state init's fields  *)
(* (absent, inline or in their own cell) and the body (inline or in its   *)
(* own cell).                                                             *)
InitContent(si) ==
    CASE si.bits = <<0>> -> [absent |-> TRUE]
      [] si.bits[2] = 1 -> CellSlice(si.refs[1])
      [] OTHER -> Skip(si, 2, 0)
BodyContent(b) == IF b.bits[1] = 1 THEN CellSlice(b.refs[1]) ELSE Skip(b, 1, 0)
Content(u) == [init |-> InitContent(u.init), body |-> BodyContent(u.body)]

(* The messages the TL-B admits after the message info: a state init      *)
(* that is absent (nothing$0), inline (just$1 left$0 and its two Maybe     *)
(* ^Cell fields) or in an ordinary cell holding exactly a StateInit        *)
(* (just$1 right$1), followed by a body that is inline (left$0 and the     *)
(* rest) or one reference (right$1) and nothing after it.                 *)
Cut(s, nb, nr) == Slice(SubSeq(s.bits, 1, nb), SubSeq(s.refs, 1, nr))
StateInitCell(c) ==
    ~c.exotic /\ Len(c.bits) = 2 /\ Len(c.refs) = c.bits[1] + c.bits[2]
InitEncoding(p) ==
    \/ p.bits = <<0>> /\ p.refs = <<>>
    \/ Len(p.bits) = 4 /\ SubSeq(p.bits, 1, 2) = <<1, 0>>
       /\ Len(p.refs) = p.bits[3] + p.bits[4]
    \/ p.bits = <<1, 1>> /\ Len(p.refs) = 1 /\ StateInitCell(p.refs[1])
BodyEncoding(q) ==
    \/ q.bits # <<>> /\ q.bits[1] = 0
    \/ q.bits = <<1>> /\ Len(q.refs) = 1
WellFormed(s) ==
    \E nb \in 0..Len(s.bits), nr \in 0..Len(s.refs) :
        InitEncoding(Cut(s, nb, nr)) /\ BodyEncoding(Skip(s, nb, nr))

-----------------------------------------------------------------------------

Zeros(k) == [i \in 1..k |-> 0]

Inputs ==
    {[alg |-> "shift", v |-> v] : v \in 0..70 \cup {65535, 65536, 65537, 131071, 131072, 131073}}
    \cup {[alg |-> "bitsize", x |-> x, signed |-> s] : x \in -70..70, s \in BOOLEAN}
    \cup {[alg |-> "leq", upper |-> u] : u \in 0..20}
    \cup {[alg |-> "loadInt", bits |-> b, raw |-> r, signed |-> s] :
              b \in 0..WORD, r \in 0..(2^WORD - 1), s \in BOOLEAN}
    \cup {[alg |-> "trailing", s |-> t \o <<1>> \o Zeros(k)] : t \in BoundedSeq({0, 1}, 3), k \in 0..2}
    \cup {[alg |-> "trailing", s |-> Zeros(k)] : k \in 0..2}
    \cup UNION {{[alg |-> "addr", addr |-> a, cut |-> c] : c \in 0..Len(Encode(a))} : a \in Addrs}
    \cup {[alg |-> "storeLoad", x |-> x, bits |-> b, signed |-> s] :
              x \in -300..300, b \in 0..MaxWidth, s \in BOOLEAN}
    \cup {[alg |-> "layout", msg |-> m, rewrite |-> r] :
              m \in MsgSlices, r \in {"StateInitToCell", "BodyToCell"}}

VARIABLES input, output
vars == <<input, output>>

Init ==
    /\ input \in {i \in Inputs : i.alg = "loadInt" => i.raw < 2^i.bits}
    /\ output = PENDING

EvalShiftCeilPrice ==
    /\ output = PENDING /\ input.alg = "shift"
    /\ output' = ShiftCeilPrice(input.v)
    /\ UNCHANGED input

(* store_int_to_builder for every width up to MaxWidth: does it overflow? *)
EvalStoreInt ==
    /\ output = PENDING /\ input.alg = "bitsize"
    /\ output' = [w \in 0..MaxWidth |-> StoreIntOverflows(input.x, w, input.signed)]
    /\ UNCHANGED input

(* load_uint_leq on every value its bit width can hold. *)
EvalLoadUintLeq ==
    /\ output = PENDING /\ input.alg = "leq"
    /\ output' = [r \in 0..(2^LoadUintLeqBits(input.upper) - 1) |-> LoadUintLeq(r, input.upper)]
    /\ UNCHANGED input

EvalLoadInt ==
    /\ output = PENDING /\ input.alg = "loadInt"
    /\ output' = LoadIntFromSlice(input.raw, input.bits, input.signed)
    /\ UNCHANGED input

EvalRemoveTrailing ==
    /\ output = PENDING /\ input.alg = "trailing"
    /\ output' = RemoveTrailing(input.s)
    /\ UNCHANGED input

(* store_int_to_builder, then load_int_from_slice of what it wrote. *)
EvalStoreLoad ==
    /\ output = PENDING /\ input.alg = "storeLoad"
    /\ LET stored == StoreIntToBuilder(input.x, input.bits, input.signed)
       IN output' = IF stored.ok
                    THEN [ok |-> TRUE, bits |-> stored.bits,
                          loaded |-> LoadIntFromSliceBits(stored.bits, input.bits, input.signed)]
                    ELSE stored
    /\ UNCHANGED input

(* exec_send_message reading the workchain of MYADDR, cut after `cut` bits. *)
EvalParseAddr ==
    /\ output = PENDING /\ input.alg = "addr"
    /\ output' = ParseAddrWorkchain(SubSeq(Encode(input.addr), 1, input.cut))
    /\ UNCHANGED input

(* do_send_message's unpack, rewrite and build_message, then the unpack  *)
(* of the next pass of the rewrite loop on the rebuilt message.           *)
EvalLayout ==
    /\ output = PENDING /\ input.alg = "layout"
    /\ LET u == UnpackMessage(input.msg)
           w == ApplyRewrite(u.init, u.body, input.rewrite)
       IN output' = IF u.ok THEN [ok |-> TRUE, u |-> u, again |-> UnpackMessage(BuildMessage(w.init, w.body))]
                    ELSE u
    /\ UNCHANGED input

Evaluated == output # PENDING /\ UNCHANGED vars

Next == EvalShiftCeilPrice \/ EvalStoreInt \/ EvalLoadUintLeq \/ EvalLoadInt
        \/ EvalRemoveTrailing \/ EvalStoreLoad \/ EvalParseAddr \/ EvalLayout
        \/ Evaluated

Spec == Init /\ [][Next]_vars

-----------------------------------------------------------------------------
(* Reference definitions. *)
FitsInBits(x, w, signed) ==
    IF signed THEN IF w = 0 THEN x = 0 ELSE -(2^(w - 1)) <= x /\ x < 2^(w - 1)
    ELSE 0 <= x /\ x < 2^w
TwosComplement(raw, bits) == IF raw >= 2^(bits - 1) THEN raw - 2^bits ELSE raw

(* Signed loads give i64 values (a word-wide two's complement number),    *)
(* unsigned ones u64 values, bounded loads never exceed the bound, and a  *)
(* parsed workchain is a signed number of the workchain's width.          *)
TypeOK ==
    output # PENDING =>
        CASE input.alg = "loadInt" /\ input.signed -> output \in -(2^(WORD - 1))..(2^(WORD - 1) - 1)
          [] input.alg = "loadInt" -> output \in 0..(2^WORD - 1)
          [] input.alg = "leq" -> \A r \in DOMAIN output : output[r].ok => output[r].value \in 0..input.upper
          [] input.alg = "trailing" -> output \in Seq({0, 1})
          [] input.alg = "storeLoad" -> output.ok => output.bits \in Seq({0, 1})
          [] input.alg = "addr" ->
                 \/ ~output.ok /\ output.err \in {"CellUnderflow", "IntegerOutOfRange", "IntOverflow"}
                 \/ output.ok /\ output.value \in -(2^(VAR_WC_BITS - 1))..(2^(VAR_WC_BITS - 1) - 1)
          [] input.alg = "layout" ->
                 output.ok \/ output.err \in {"CellUnderflow", "CellOverflow", "InvalidData", "ActionFailed"}
          [] OTHER -> TRUE

(* shift_ceil_price is the ceiling of value / 2^16: the fee charged covers *)
(* the price and overcharges by less than one unit.                        *)
ShiftCeilIsCeiling ==
    (output # PENDING /\ input.alg = "shift") =>
        output * 65536 >= input.v /\ (output - 1) * 65536 < input.v

(* store_int_to_builder overflows exactly when the number cannot be        *)
(* written in that many bits (for the numbers in_bitsize_range accepts):   *)
(* bitsize is the least sufficient width, also for negative powers of two. *)
StoreIntExact ==
    (output # PENDING /\ input.alg = "bitsize" /\ InBitsizeRange(input.x, input.signed)) =>
        \A w \in 0..MaxWidth : output[w] <=> ~FitsInBits(input.x, w, input.signed)

(* load_uint_leq reads the shortest width that holds the bound and accepts *)
(* exactly the values 0..upper.                                            *)
LoadUintLeqExact ==
    (output # PENDING /\ input.alg = "leq") =>
        /\ {r \in DOMAIN output : output[r].ok} = 0..input.upper
        /\ input.upper > 0 => 2^(LoadUintLeqBits(input.upper) - 1) <= input.upper

(* A signed load sign-extends: the result is the two's-complement value of *)
(* the bits read; an unsigned load is the bits' value.                     *)
LoadIntSignExtends ==
    (output # PENDING /\ input.alg = "loadInt" /\ input.bits > 0) =>
        output = IF input.signed THEN TwosComplement(input.raw, input.bits) ELSE input.raw

(* remove_trailing undoes the completion tag: a slice t followed by a one  *)
(* and any number of zeros becomes t again; a slice of zeros becomes empty. *)
RemoveTrailingUndoesTag ==
    (output # PENDING /\ input.alg = "trailing") =>
        \/ \E t \in BoundedSeq({0, 1}, 3), k \in 0..2 : input.s = t \o <<1>> \o Zeros(k) /\ output = t
        \/ (\A i \in DOMAIN input.s : input.s[i] = 0) /\ output = <<>>

(* For the numbers in_bitsize_range accepts, store_int_to_builder writes  *)
(* the width's two's-complement bits of the number, both for a u64        *)
(* (store_uint) and on the byte path, where the number is aligned to the  *)
(* top of its last byte and sign-filled to the byte count.                 *)
StoreIntEncodes ==
    (output # PENDING /\ input.alg = "storeLoad" /\ output.ok
        /\ InBitsizeRange(input.x, input.signed)) =>
        output.bits = ValueBits(input.x, input.bits)

(* Whatever in-range number store_int_to_builder accepts,                 *)
(* load_int_from_slice with the same width and signedness reads back:     *)
(* across the word load and the byte load, which decodes whole bytes and  *)
(* shifts the padding away.                                                *)
LoadIntRoundTrip ==
    (output # PENDING /\ input.alg = "storeLoad" /\ output.ok
        /\ InBitsizeRange(input.x, input.signed)) =>
        output.loaded = input.x

(* parse_addr_workchain accepts exactly the internal addresses whose       *)
(* header is complete, and reads their workchain with its sign: -1, the    *)
(* masterchain, for both addr_std and addr_var.  The address bits after    *)
(* the header are not needed.                                              *)
ParseAddrExact ==
    (output # PENDING /\ input.alg = "addr") =>
        /\ output.ok <=> Internal(input.addr) /\ input.cut >= HeaderLen(input.addr)
        /\ output.ok => output.value = input.addr.wc

(* do_send_message's unpack accepts exactly the messages the TL-B admits: *)
(* a state init in a reference must be an ordinary cell that              *)
(* StateInit::load_from reads completely (load_state_init_as_slice), and  *)
(* nothing may follow the body.  A message it accepts is sent as it is,    *)
(* or rewritten, without being checked again.                             *)
UnpackAcceptsExactlyWellFormed ==
    (output # PENDING /\ input.alg = "layout") => (output.ok <=> WellFormed(input.msg))

(* Moving the state init or the body of a message into a cell of its own  *)
(* keeps the message: the rebuilt message unpacks again, to the same     *)
(* state init and body.  do_send_message only moves a state init with two *)
(* references, relying on such a state init being inline (the            *)
(* debug_assert in rewrite_state_init_to_cell), and only an inline body.  *)
LayoutRewriteKeepsMessage ==
    (output # PENDING /\ input.alg = "layout" /\ output.ok) =>
        output.again.ok /\ Content(output.again) = Content(output.u)
=============================================================================
