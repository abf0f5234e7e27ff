----------------------------- MODULE MessageOps -----------------------------
(***************************************************************************)
(* The message and action opcodes of src/src/instr/messageops.rs:          *)
(* SENDRAWMSG, RAWRESERVE(X), SETCODE, SETLIBCODE, CHANGELIB and SENDMSG,  *)
(* with add_action, which prepends one action to the chain in c5.          *)
(*                                                                         *)
(* The stack holds integers [t |-> "int", n], NULL [t |-> "null"] and     *)
(* abstract cells [t |-> "cell", cell |-> kind, ...]: "code", "dict" (an   *)
(* extra-currency dictionary) or "msg" with the message it holds.  c5 is the list of actions, newest     *)
(* first, in the record format of ActionPhase.                             *)
(*                                                                         *)
(* A message keeps what SENDMSG and the action phase branch on: its kind, *)
(* whether it parses, the bits of the message info in the root, the state *)
(* init (NONE or [bits, refs]) and body ([bits, refs]) with whether each   *)
(* is stored inline in the root, the statistics of the subtrees below the  *)
(* root's references, the value and the user-set fees.                     *)
(***************************************************************************)
EXTENDS Integers, Sequences, UtilAlgorithms

CONSTANTS
    Versions,        \* TON versions the VM may emulate (is_ton(n..) is v >= n)
    StackVals,       \* values a program pushes before the opcodes
    MaxStack,        \* bound on the stack the program builds
    MaxC5,           \* bound on the number of actions the program emits
    TokensMax,       \* Tokens::MAX (2^120 - 1 in the code)
    MyMasterchain,   \* parse_addr_workchain(my address) == -1
    Prices,          \* [mc |-> p, bc |-> p], p = [lump, bitPrice, cellPrice, firstFrac, ihrFactor]
    BalanceHasOther, \* c7 balance tuple carries an extra-currency dictionary
    InMsgHasOther,   \* the inbound message value carries extra currencies
    NONE

IntV(n) == [t |-> "int", n |-> n]
NULL == [t |-> "null"]

\* Exceptions raised by these opcodes.
StackUnderflow    == 2
IntegerOutOfRange == 5
InvalidOpcode     == 6
TypeCheckError    == 7
CellUnderflow     == 9

MAX_BIT_LEN   == 1023
MAX_REF_COUNT == 4

SEND_WITH_REMAINING_BALANCE == 64
SEND_ALL_BALANCE == 128
DRY_RUN_BIT == 1024

Bit(x, b) == (x \div b) % 2 = 1
IsTon(v, n) == v >= n
IsInt(x) == x.t = "int"

(***************************************************************************)
(* Stack access of the opcodes.  A pop returns [ok, val, stack] or the     *)
(* exception [ok |-> FALSE, exc].                                          *)
(***************************************************************************)
PopFail(e) == [ok |-> FALSE, exc |-> e]
Popped(v, st) == [ok |-> TRUE, val |-> v, stack |-> st]
Top(st) == st[Len(st)]
Rest(st) == SubSeq(st, 1, Len(st) - 1)

\* Stack::pop_smallint_range(lo, hi)
PopSmallintRange(st, lo, hi) ==
    IF st = <<>> THEN PopFail(StackUnderflow)
    ELSE IF ~IsInt(Top(st)) THEN PopFail(TypeCheckError)
    ELSE IF Top(st).n < lo \/ Top(st).n > hi THEN PopFail(IntegerOutOfRange)
    ELSE Popped(Top(st).n, Rest(st))

\* Stack::pop_int
PopInt(st) ==
    IF st = <<>> THEN PopFail(StackUnderflow)
    ELSE IF ~IsInt(Top(st)) THEN PopFail(TypeCheckError)
    ELSE Popped(Top(st).n, Rest(st))

\* Stack::pop_cell
PopCell(st) ==
    IF st = <<>> THEN PopFail(StackUnderflow)
    ELSE IF Top(st).t # "cell" THEN PopFail(TypeCheckError)
    ELSE Popped(Top(st), Rest(st))

\* Stack::pop_cell_opt: a cell or NULL.
PopCellOpt(st) ==
    IF st # <<>> /\ Top(st) = NULL THEN Popped(NULL, Rest(st)) ELSE PopCell(st)

\* bigint_to_tokens (lines 415-428): a non-negative value up to Tokens::MAX.
BigintToTokensOk(i) == i >= 0 /\ i <= TokensMax

\* tokens_mul_frac (lines 430-432)
TokensMulFrac(value, frac) == (value * frac) \div 65536

\* pop_send_msg_mode_ext (lines 342-356): the dry-run bit 1024 is cleared,
\* and what remains must be a u8.
PopSendMsgModeExt(st) ==
    LET p == PopSmallintRange(st, 0, 2047)
        raw == IF Bit(p.val, DRY_RUN_BIT) THEN p.val - DRY_RUN_BIT ELSE p.val
    IN IF ~p.ok THEN p
       ELSE IF raw >= 256 THEN PopFail(IntegerOutOfRange)
       ELSE [ok |-> TRUE, val |-> [mode |-> raw, send |-> ~Bit(p.val, DRY_RUN_BIT)],
             stack |-> p.stack]

\* pop_change_library_mode (lines 358-373)
PopChangeLibraryMode(v, st) ==
    IF IsTon(v, 4)
    THEN LET p == PopSmallintRange(st, 0, 31) IN
         IF p.ok /\ p.val % 16 > 2 THEN PopFail(IntegerOutOfRange) ELSE p
    ELSE PopSmallintRange(st, 0, 2)

(***************************************************************************)
(* Fees and the root cell, shared by the SENDMSG estimate and the action   *)
(* phase.  `inCell` says which parts are stored in their own cell:         *)
(* [init, body].  Stats are [bits, cells] of the cells below the root.     *)
(***************************************************************************)

\* MsgForwardPricesExt::compute_fwd_fee
ComputeFwdFee(p, stats) ==
    p.lump + ShiftCeilPrice(p.bitPrice * stats.bits + p.cellPrice * stats.cells)

\* The prices of the workchain the message is routed through.
MsgPrices(m) ==
    IF MyMasterchain \/ (m.kind = "Int" /\ m.dstMc) THEN Prices.mc ELSE Prices.bc

\* Whether the message value carries an extra-currency dictionary after the
\* mode's ALL_BALANCE or WITH_REMAINING_BALANCE (lines 199-210).
HasExtra(m, mode) ==
    m.kind = "Int" /\
    IF Bit(mode, SEND_ALL_BALANCE) THEN BalanceHasOther
    ELSE m.hasOther \/ (Bit(mode, SEND_WITH_REMAINING_BALANCE) /\ InMsgHasOther)

\* compute_msg_root_bits and compute_msg_root_refs (lines 226-288).
RootBits(m, inCell) ==
    m.infoBits
    + 1 + (IF m.init = NONE THEN 0 ELSE 1 + (IF inCell.init THEN 0 ELSE m.init.bits))
    + 1 + (IF inCell.body THEN 0 ELSE m.body.bits)
RootRefs(m, mode, inCell) ==
    (IF HasExtra(m, mode) THEN 1 ELSE 0)
    + (IF m.init = NONE THEN 0 ELSE IF inCell.init THEN 1 ELSE m.init.refs)
    + (IF inCell.body THEN 1 ELSE m.body.refs)
RootFits(m, mode, inCell) ==
    RootBits(m, inCell) <= MAX_BIT_LEN /\ RootRefs(m, mode, inCell) <= MAX_REF_COUNT

\* The layout the message is stored with.
RawLayout(m) == [init |-> ~m.initInline, body |-> ~m.bodyInline]

\* Moving the state init or the body into its own cell adds that cell.
MoveInit(m, stats) == [bits |-> stats.bits + m.init.bits, cells |-> stats.cells + 1]
MoveBody(m, stats) == [bits |-> stats.bits + m.body.bits, cells |-> stats.cells + 1]

(***************************************************************************)
(* SENDMSG's estimate (lines 212-325): update_fees, then the state init    *)
(* and then the body are moved while the root does not fit.  The result   *)
(* is the parts it moved, the stats and the fee it pushes.                 *)
(***************************************************************************)
UpdateFees(m, stats) ==
    LET p == MsgPrices(m)
        short == ComputeFwdFee(p, stats)
        fwd == IF m.userFwdFee > short THEN m.userFwdFee ELSE short
        ihr == IF m.ihrDisabled THEN 0
               ELSE IF m.userIhrFee > TokensMulFrac(short, p.ihrFactor)
                    THEN m.userIhrFee ELSE TokensMulFrac(short, p.ihrFactor)
    IN [fwd |-> fwd, ihr |-> ihr]

\* Variant of EstimateInitStep that forgets to count the moved state init's cell.
EstimateInitStepCellless(m, mode, lay, stats) ==
    IF m.init # NONE /\ ~lay.init /\ ~RootFits(m, mode, lay)
    THEN [lay |-> [lay EXCEPT !.init = TRUE],
          stats |-> [bits |-> stats.bits + m.init.bits, cells |-> stats.cells]]
    ELSE [lay |-> lay, stats |-> stats]

\* "Adjust layout for state init" (lines 302-313).
EstimateInitStep(m, mode, lay, stats) ==
    IF m.init # NONE /\ ~lay.init /\ ~RootFits(m, mode, lay)
    THEN [lay |-> [lay EXCEPT !.init = TRUE], stats |-> MoveInit(m, stats)]
    ELSE [lay |-> lay, stats |-> stats]

\* "Adjust layout for body" (lines 315-323).  The code leaves
\* msg_layout.body_to_cell commented out; the moved body is recorded here
\* only to report which parts the estimate paid for.
EstimateBodyStep(m, mode, lay, stats) ==
    IF ~lay.body /\ ~RootFits(m, mode, lay)
    THEN [lay |-> [lay EXCEPT !.body = TRUE], stats |-> MoveBody(m, stats)]
    ELSE [lay |-> lay, stats |-> stats]

SendMsgEstimate(m, mode) ==
    LET s0 == [lay |-> RawLayout(m), stats |-> m.stats]
        s1 == EstimateInitStep(m, mode, s0.lay, s0.stats)
        s2 == EstimateBodyStep(m, mode, s1.lay, s1.stats)
        f  == UpdateFees(m, s2.stats)
    IN [layout |-> s2.lay, fee |-> f.fwd + f.ihr, fwd |-> f.fwd]

(***************************************************************************)
(* The action phase on the same message (action.rs 377-397, 497-541 and    *)
(* the rewrite loop 186-199 with MessageRewrite::next): attempts without a *)
(* rewrite, with StateInitToCell and with BodyToCell, each from the        *)
(* original message.  StateInitToCell only moves an inline state init      *)
(* with at least two references, and otherwise becomes BodyToCell;        *)
(* BodyToCell only moves a non-empty inline body.  The first attempt whose *)
(* root fits is sent; NONE if none fits (FailedToFitMessage).              *)
(***************************************************************************)
AttemptLayout(m, r) ==
    LET moveInit == r = "StateInitToCell" /\ m.init # NONE /\ m.initInline
                    /\ m.init.refs >= 2
        r1 == IF r = "StateInitToCell" /\ ~moveInit THEN "BodyToCell" ELSE r
        moveBody == r1 = "BodyToCell" /\ m.bodyInline /\ m.body.bits >= 1
    IN [init |-> ~m.initInline \/ moveInit, body |-> ~m.bodyInline \/ moveBody]

AttemptStats(m, r) ==
    LET lay == AttemptLayout(m, r)
        s1 == IF lay.init /\ m.initInline THEN MoveInit(m, m.stats) ELSE m.stats
    IN IF lay.body /\ m.bodyInline THEN MoveBody(m, s1) ELSE s1

Rewrites == <<"NoRewrite", "StateInitToCell", "BodyToCell">>

SentAttempt(m, mode) ==
    LET fitting == {i \in 1..3 : RootFits(m, mode, AttemptLayout(m, Rewrites[i]))}
    IN IF fitting = {} THEN NONE
       ELSE Rewrites[CHOOSE i \in fitting : \A j \in fitting : i <= j]

\* The forwarding fee the action phase charges for an ordinary account.
ChargedFwdFee(m, r) == ComputeFwdFee(MsgPrices(m), AttemptStats(m, r))

(***************************************************************************)
(* The opcodes.  Each returns [ok |-> TRUE, stack, action] (action NONE    *)
(* when nothing is emitted) or [ok |-> FALSE, exc].                        *)
(***************************************************************************)
Emit(st, a) == [ok |-> TRUE, stack |-> st, action |-> a]

\* SENDRAWMSG (lines 28-39)
ExecSendMessageRaw(st) ==
    LET p1 == PopSmallintRange(st, 0, 255)
        p2 == PopCell(p1.stack)
    IN IF ~p1.ok THEN p1 ELSE IF ~p2.ok THEN p2
       ELSE Emit(p2.stack, [type |-> "SendMsg", mode |-> p1.val, msg |-> p2.val])

\* RAWRESERVE / RAWRESERVEX (lines 41-62)
ExecReserveRaw(v, st, x) ==
    LET p1 == PopSmallintRange(st, 0, IF IsTon(v, 4) THEN 31 ELSE 15)
        p2 == IF x THEN PopCellOpt(p1.stack) ELSE Popped(NULL, p1.stack)
        p3 == PopInt(p2.stack)
    IN IF ~p1.ok THEN p1 ELSE IF ~p2.ok THEN p2 ELSE IF ~p3.ok THEN p3
       ELSE IF ~BigintToTokensOk(p3.val) THEN PopFail(IntegerOutOfRange)
       ELSE Emit(p3.stack, [type |-> "ReserveCurrency", mode |-> p1.val,
                            value |-> [tokens |-> p3.val, other |-> p2.val]])

\* SETCODE (lines 64-72)
ExecSetCode(st) ==
    LET p == PopCell(st) IN
    IF ~p.ok THEN p ELSE Emit(p.stack, [type |-> "SetCode", code |-> p.val])

\* SETLIBCODE (lines 74-84)
ExecSetLibCode(v, st) ==
    LET p1 == PopChangeLibraryMode(v, st)
        p2 == PopCell(p1.stack)
    IN IF ~p1.ok THEN p1 ELSE IF ~p2.ok THEN p2
       ELSE Emit(p2.stack, [type |-> "ChangeLibrary", mode |-> p1.val,
                            lib |-> [isCell |-> TRUE, ref |-> p2.val]])

\* Variant of ExecChangeLib that takes the magnitude of a negative integer.
ExecChangeLibSigned(v, st) ==
    LET p1 == PopChangeLibraryMode(v, st)
        p2 == PopInt(p1.stack)
    IN IF ~p1.ok THEN p1 ELSE IF ~p2.ok THEN p2
       ELSE Emit(p2.stack, [type |-> "ChangeLibrary", mode |-> p1.val,
                            lib |-> [isCell |-> FALSE, ref |-> p2.val]])

\* CHANGELIB (lines 86-111): the hash is the non-negative integer's low
\* 256 bits; the model's integers are below 2^256.
ExecChangeLib(v, st) ==
    LET p1 == PopChangeLibraryMode(v, st)
        p2 == PopInt(p1.stack)
    IN IF ~p1.ok THEN p1 ELSE IF ~p2.ok THEN p2
       ELSE IF p2.val < 0 THEN PopFail(IntegerOutOfRange)
       ELSE Emit(p2.stack, [type |-> "ChangeLibrary", mode |-> p1.val,
                            lib |-> [isCell |-> FALSE, ref |-> p2.val]])

\* SENDMSG (lines 113-339): the fee estimate is pushed, and the message is
\* added to c5 unless the dry-run bit was set.  A cell that is not a
\* message fails to parse.
ExecSendMessage(v, st) ==
    LET p1 == PopSendMsgModeExt(st)
        p2 == PopCell(p1.stack)
        m == p2.val.msg
        est == SendMsgEstimate(m, p1.val.mode)
        st2 == Append(p2.stack, IntV(est.fee))
    IN IF ~IsTon(v, 4) THEN PopFail(InvalidOpcode)
       ELSE IF ~p1.ok THEN p1 ELSE IF ~p2.ok THEN p2
       ELSE IF p2.val.cell # "msg" \/ ~m.parses THEN PopFail(CellUnderflow)
       ELSE IF p1.val.send
            THEN Emit(st2, [type |-> "SendMsg", mode |-> p1.val.mode, msg |-> p2.val])
            ELSE Emit(st2, NONE)

-----------------------------------------------------------------------------
VARIABLES
    pc,        \* "run", or "failed" once an opcode raised an exception
    version,   \* the VM version (VmState::version)
    stack,     \* the VM stack, top last
    c5,        \* the action list in c5, newest action first
    lastSend,  \* history: the last SENDMSG, [msg, mode, est], or NONE
    exc        \* the exception of the failed opcode, or NONE

vars == <<pc, version, stack, c5, lastSend, exc>>

Init ==
    /\ pc = "run"
    /\ version \in Versions
    /\ stack = <<>>
    /\ c5 = <<>>
    /\ lastSend = NONE
    /\ exc = NONE

\* The program pushes an argument.
Push ==
    /\ pc = "run" /\ Len(stack) < MaxStack
    /\ \E val \in StackVals : stack' = Append(stack, val)
    /\ UNCHANGED <<pc, version, c5, lastSend, exc>>

\* add_action (lines 434-446): the new action cell references the old c5.
AddAction(a) ==
    IF a = NONE THEN UNCHANGED c5 ELSE c5' = <<a>> \o c5

\* Running one opcode with result r.
Run(r) ==
    IF r.ok
    THEN /\ stack' = r.stack /\ AddAction(r.action)
         /\ UNCHANGED <<pc, exc>>
    ELSE /\ pc' = "failed" /\ exc' = r.exc
         /\ UNCHANGED <<stack, c5>>

OpGuard == pc = "run" /\ Len(c5) < MaxC5

SendMessageRaw == OpGuard /\ Run(ExecSendMessageRaw(stack)) /\ UNCHANGED <<version, lastSend>>
ReserveRaw     == OpGuard /\ \E x \in BOOLEAN : Run(ExecReserveRaw(version, stack, x))
                  /\ UNCHANGED <<version, lastSend>>
SetCode        == OpGuard /\ Run(ExecSetCode(stack)) /\ UNCHANGED <<version, lastSend>>
SetLibCode     == OpGuard /\ Run(ExecSetLibCode(version, stack)) /\ UNCHANGED <<version, lastSend>>
ChangeLib      == OpGuard /\ Run(ExecChangeLib(version, stack)) /\ UNCHANGED <<version, lastSend>>
SendMessage ==
    /\ OpGuard
    /\ LET r == ExecSendMessage(version, stack) IN
       /\ Run(r)
       /\ lastSend' =
            IF r.ok
            THEN LET p1 == PopSendMsgModeExt(stack)
                     m == Top(p1.stack).msg
                 IN [msg |-> m, mode |-> p1.val.mode,
                     est |-> SendMsgEstimate(m, p1.val.mode)]
            ELSE lastSend
    /\ UNCHANGED version

\* The program stops (the compute phase ends).
Stop == pc = "run" /\ pc' = "done" /\ UNCHANGED <<version, stack, c5, lastSend, exc>>

Done == pc # "run" /\ UNCHANGED vars

Next ==
    \/ Push \/ SendMessageRaw \/ ReserveRaw \/ SetCode \/ SetLibCode
    \/ ChangeLib \/ SendMessage \/ Stop \/ Done

Spec == Init /\ [][Next]_vars
-----------------------------------------------------------------------------
(***************************************************************************)
(* Properties.                                                             *)
(***************************************************************************)
ActionTypes == {"SendMsg", "ReserveCurrency", "SetCode", "ChangeLibrary"}

TypeOK ==
    /\ pc \in {"run", "failed", "done"}
    /\ version \in Versions
    /\ \A i \in 1..Len(stack) : stack[i] \in StackVals \/ (IsInt(stack[i]) /\ stack[i].n \in Nat)
    /\ Len(c5) <= MaxC5 /\ \A i \in 1..Len(c5) : c5[i].type \in ActionTypes
    /\ \A i \in 1..Len(c5) :
          c5[i].type = "ChangeLibrary" /\ ~c5[i].lib.isCell => c5[i].lib.ref \in Nat
    /\ exc \in {NONE, StackUnderflow, IntegerOutOfRange, InvalidOpcode,
                TypeCheckError, CellUnderflow}
    /\ (exc = NONE) <=> (pc # "failed")

\* The action phase sends the last SENDMSG's message with attempt r.
LastSentWith(r) == lastSend # NONE /\ r = SentAttempt(lastSend.msg, lastSend.mode)

(* Whenever SENDMSG's estimate moved the same parts into their own cells   *)
(* as the action phase's rewrite loop (action.rs 186-199, 377-397), the   *)
(* forwarding fee it pushed is the one the action phase charges, raised    *)
(* to the user's fee as update_fees does (messageops.rs 212-225).         *)
EstimateExactWhenLayoutsAgree ==
    \A r \in {Rewrites[i] : i \in 1..3} :
        LastSentWith(r) /\ lastSend.est.layout = AttemptLayout(lastSend.msg, r)
        => lastSend.est.fwd = IF lastSend.msg.userFwdFee > ChargedFwdFee(lastSend.msg, r)
                              THEN lastSend.msg.userFwdFee
                              ELSE ChargedFwdFee(lastSend.msg, r)

(* SENDMSG computes "fees and final message layout" (messageops.rs 213):  *)
(* the parts its estimate moves into their own cells are the parts the    *)
(* action phase moves when it sends the message.                          *)
EstimateLayoutIsFinal ==
    \A r \in {Rewrites[i] : i \in 1..3} :
        LastSentWith(r) => lastSend.est.layout = AttemptLayout(lastSend.msg, r)
====
