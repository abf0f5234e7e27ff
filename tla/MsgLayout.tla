------------------------------ MODULE MsgLayout ------------------------------
(***************************************************************************)
(* How do_send_message (src/executor/src/phase/action.rs) takes an         *)
(* outbound message apart and moves its state init or body into a cell of *)
(* its own: load_state_init_as_slice, load_body_as_slice,                  *)
(* rewrite_state_init_to_cell, rewrite_body_to_cell, build_message and    *)
(* the unpack and rewrite blocks of do_send_message.                       *)
(*                                                                         *)
(* A cell is [bits, refs, exotic] and a slice [bits, refs]: a sequence of  *)
(* bits and a sequence of cells.  The message slice starts after its       *)
(* RelaxedMsgInfo, which these steps only carry along.                     *)
(***************************************************************************)
EXTENDS Integers, Sequences

Slice(bits, refs) == [bits |-> bits, refs |-> refs]
Skip(s, nb, nr) ==
    Slice(SubSeq(s.bits, nb + 1, Len(s.bits)), SubSeq(s.refs, nr + 1, Len(s.refs)))
IsEmpty(s) == s.bits = <<>> /\ s.refs = <<>>
CellSlice(c) == Slice(c.bits, c.refs)
NewCell(s) == [bits |-> s.bits, refs |-> s.refs, exotic |-> FALSE]

(* res_cs.skip_last(cs.size_bits(), cs.size_refs()): what was read of res *)
(* to reach rest.                                                          *)
Consumed(res, rest) ==
    Slice(SubSeq(res.bits, 1, Len(res.bits) - Len(rest.bits)),
          SubSeq(res.refs, 1, Len(res.refs) - Len(rest.refs)))

Fail(e) == [ok |-> FALSE, err |-> e]

(* A read that may run past the end of the slice. *)
Read(s) == [ok |-> TRUE, rest |-> s]
Underflow == [ok |-> FALSE, rest |-> Slice(<<>>, <<>>)]

(* StateInit::load_from (everscale-types, outside this repository), with   *)
(* its fields cut down to code:(Maybe ^Cell) data:(Maybe ^Cell): each     *)
(* field is a bit, followed by a reference when it is 1.                   *)
LoadMaybeRef(r) ==
    CASE ~r.ok -> r
      [] r.rest.bits = <<>> -> Underflow
      [] r.rest.bits[1] = 0 -> Read(Skip(r.rest, 1, 0))
      [] r.rest.refs = <<>> -> Underflow
      [] OTHER -> Read(Skip(r.rest, 1, 1))
LoadStateInit(s) == LoadMaybeRef(LoadMaybeRef(Read(s)))

(* Variant of LoadStateInitAsSlice that accepts an exotic state root.     *)
LoadStateInitAsSliceAnyRoot(cs) ==
    LET inline == LoadStateInit(Skip(cs, 2, 0))
        root == cs.refs[1]
        inRoot == LoadStateInit(CellSlice(root))
        done(rest) == [ok |-> TRUE, res |-> Consumed(cs, rest), rest |-> rest]
    IN CASE cs.bits = <<>> -> Fail("CellUnderflow")
         [] cs.bits[1] = 0 -> done(Skip(cs, 1, 0))
         [] Len(cs.bits) < 2 -> Fail("CellUnderflow")
         [] cs.bits[2] = 0 /\ ~inline.ok -> Fail("CellUnderflow")
         [] cs.bits[2] = 0 -> done(inline.rest)
         [] cs.refs = <<>> -> Fail("CellUnderflow")
         [] ~inRoot.ok -> Fail("CellUnderflow")
         [] ~IsEmpty(inRoot.rest) -> Fail("CellOverflow")
         [] OTHER -> done(Skip(cs, 2, 1))

(* load_state_init_as_slice (lines 919-950): (Maybe (Either StateInit      *)
(* ^StateInit)).  A state init in a reference must be an ordinary cell     *)
(* holding nothing else.  Returns the slice read (res) and the rest.       *)
LoadStateInitAsSlice(cs) ==
    LET inline == LoadStateInit(Skip(cs, 2, 0))
        root == cs.refs[1]
        inRoot == LoadStateInit(CellSlice(root))
        done(rest) == [ok |-> TRUE, res |-> Consumed(cs, rest), rest |-> rest]
    IN CASE cs.bits = <<>> -> Fail("CellUnderflow")
         [] cs.bits[1] = 0 -> done(Skip(cs, 1, 0))
         [] Len(cs.bits) < 2 -> Fail("CellUnderflow")
         [] cs.bits[2] = 0 /\ ~inline.ok -> Fail("CellUnderflow")
         [] cs.bits[2] = 0 -> done(inline.rest)
         [] cs.refs = <<>> -> Fail("CellUnderflow")
         [] root.exotic -> Fail("InvalidData")
         [] ~inRoot.ok -> Fail("CellUnderflow")
         [] ~IsEmpty(inRoot.rest) -> Fail("CellOverflow")
         [] OTHER -> done(Skip(cs, 2, 1))

(* load_body_as_slice (lines 952-964): (Either X ^X).  The slice returned  *)
(* is everything from the body on; an inline body takes all of it.         *)
LoadBodyAsSlice(cs) ==
    CASE cs.bits = <<>> -> Fail("CellUnderflow")
      [] cs.bits[1] = 0 -> [ok |-> TRUE, res |-> cs, rest |-> Slice(<<>>, <<>>)]
      [] cs.refs = <<>> -> Fail("CellUnderflow")
      [] OTHER -> [ok |-> TRUE, res |-> cs, rest |-> Skip(cs, 1, 1)]

(* do_send_message, "Unpack message" (lines 359-375): anything left after *)
(* the body is malicious data and fails the action.                        *)
UnpackMessage(cs) ==
    LET si == LoadStateInitAsSlice(cs)
        body == LoadBodyAsSlice(si.rest)
    IN CASE ~si.ok -> si
         [] ~body.ok -> body
         [] ~IsEmpty(body.rest) -> Fail("ActionFailed")
         [] OTHER -> [ok |-> TRUE, init |-> si.res, body |-> body.res]

(* rewrite_state_init_to_cell (lines 966-981): skip just$1 left$0, put the *)
(* rest in a cell, and write just$1 right$1 with the reference.            *)
RewriteStateInitToCell(cs) == Slice(<<1, 1>>, <<NewCell(Skip(cs, 2, 0))>>)

(* rewrite_body_to_cell (lines 983-998): skip left$0, write right$1 ^X.   *)
RewriteBodyToCell(cs) == Slice(<<1>>, <<NewCell(Skip(cs, 1, 0))>>)

(* Variant of ApplyRewrite that moves a state init with one reference.    *)
ApplyRewriteOneRef(init, body, rewrite) ==
    LET moveInit == rewrite = "StateInitToCell" /\ Len(init.refs) >= 1
        r == IF rewrite = "StateInitToCell" /\ ~moveInit THEN "BodyToCell" ELSE rewrite
        moveBody == r = "BodyToCell" /\ Len(body.bits) > 1 /\ body.bits[1] = 0
    IN [init |-> IF moveInit THEN RewriteStateInitToCell(init) ELSE init,
        body |-> IF moveBody THEN RewriteBodyToCell(body) ELSE body]

(* do_send_message, "Apply rewrite" (lines 377-397): the state init goes  *)
(* to a cell only when it has at least two references, otherwise the     *)
(* body is tried instead; a body goes to a cell when it is inline and has *)
(* at least one bit besides its tag.                                       *)
ApplyRewrite(init, body, rewrite) ==
    LET moveInit == rewrite = "StateInitToCell" /\ Len(init.refs) >= 2
        r == IF rewrite = "StateInitToCell" /\ ~moveInit THEN "BodyToCell" ELSE rewrite
        moveBody == r = "BodyToCell" /\ Len(body.bits) > 1 /\ body.bits[1] = 0
    IN [init |-> IF moveInit THEN RewriteStateInitToCell(init) ELSE init,
        body |-> IF moveBody THEN RewriteBodyToCell(body) ELSE body]

(* build_message (lines 1000-1009): info, state init and body in one cell. *)
BuildMessage(init, body) == Slice(init.bits \o body.bits, init.refs \o body.refs)
==============================================================================
