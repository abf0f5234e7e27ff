---------------------------- MODULE ActionPhase ----------------------------
(***************************************************************************)
(* The action phase of the transaction executor                            *)
(* (src/executor/src/phase/action.rs, ExecutorState::action_phase).        *)
(*                                                                         *)
(* The compute phase leaves the list of output actions in register c5: a   *)
(* chain of cells, newest action first, each cell holding a reference to   *)
(* the previous one.  The phase walks the chain, reverses it, validates    *)
(* every action, executes them in emission order against a working copy of *)
(* the balance, checks the size of the new account state and then either   *)
(* commits everything at once or charges a fine and commits nothing.       *)
(*                                                                         *)
(* Cells, addresses and messages are abstracted to records of the facts    *)
(* the code branches on; every branch and early return of the code is      *)
(* kept.  Currency collections are records [tokens, other] where `other`   *)
(* stands for the amount of one extra currency.                            *)
(***************************************************************************)
EXTENDS Integers, Sequences, SequencesExt, FiniteSets, Bitwise, UtilAlgorithms

CONSTANTS
    MAX_ACTIONS,        \* bound on the length of the action list (255)
    MaxMsgCells,        \* size_limits.max_msg_cells
    MaxLibraryCells,    \* size_limits.max_library_cells
    MaxStateCells,      \* the state limit of check_state_limits[_diff]
    Prices,             \* use_mc_prices |-> [lump, cellPrice, firstFrac]
    GasFees,            \* compute_phase.gas_fees
    AddrIsMasterchain,  \* self.address.is_masterchain()
    Balance0,           \* self.balance when the phase starts
    OriginalBalance,    \* ctx.original_balance (before the compute phase)
    TotalFees0,         \* self.total_fees when the phase starts
    EndLt0,             \* self.end_lt when the phase starts
    Chains,             \* the action lists the compute phase can leave in c5
    InMsgs,             \* possible received messages (or NoMsg)
    NoMsg,              \* ctx.received_message = None
    NewState0,          \* ctx.new_state as left by the compute phase
    Hashes,             \* library hashes
    CodeCells,          \* cells of each code value
    LibCells,           \* cells of each library
    NONE                \* Option::None

ASSUME MAX_ACTIONS \in Nat /\ MaxMsgCells \in Nat /\ MaxStateCells \in Nat

Zero == [tokens |-> 0, other |-> 0]
CcAdd(x, y) == [tokens |-> x.tokens + y.tokens, other |-> x.other + y.other]
CcSub(x, y) == [tokens |-> x.tokens - y.tokens, other |-> x.other - y.other]
CcGeq(x, y) == x.tokens >= y.tokens /\ x.other >= y.other
CcMin(x, y) == [tokens |-> IF x.tokens < y.tokens THEN x.tokens ELSE y.tokens,
                other  |-> IF x.other < y.other THEN x.other ELSE y.other]
MinOf(x, y) == IF x < y THEN x ELSE y
OptVal(o) == IF o = NONE THEN 0 ELSE o

(* `mode.contains(flag)` for a one-bit flag and "mode has unknown bits".   *)
Has(mode, flag) == (mode \div flag) % 2 = 1
UnknownBits(mode, mask) == (mode & mask) # mode

\* SendMsgFlags
SEND_PAY_FEE_SEPARATELY == 1
SEND_IGNORE_ERROR == 2
SEND_BOUNCE_ON_ERROR == 16
SEND_DELETE_IF_EMPTY == 32
SEND_WITH_REMAINING_BALANCE == 64
SEND_ALL_BALANCE == 128
SEND_MASK == 243
EXT_MSG_MASK == 19
\* ReserveCurrencyFlags
RESERVE_ALL_BUT == 1
RESERVE_IGNORE_ERROR == 2
RESERVE_WITH_ORIGINAL_BALANCE == 4
RESERVE_REVERSE == 8
RESERVE_BOUNCE_ON_ERROR == 16
RESERVE_MASK == 31
\* ChangeLibraryMode
LIB_ADD_PRIVATE == 1
LIB_ADD_PUBLIC == 2
LIB_BOUNCE_ON_ERROR == 16

(* ResultCode *)
ActionListInvalid == 32
TooManyActions == 33
ActionInvalid == 34
InvalidSrcAddr == 35
InvalidDstAddr == 36
NotEnoughBalance == 37
NotEnoughExtraBalance == 38
FailedToFitMessage == 39
MessageOutOfLimits == 40
NoLibCode == 41
LibOutOfLimits == 43
StateOutOfLimits == 50

(* The c5 chain in traversal order: the newest action first.  Each cell    *)
(* carries `seq`, the position at which the compute phase emitted it.      *)
ChainCells(ch) ==
    [i \in 1..Len(ch.acts) |-> [seq  |-> Len(ch.acts) - i + 1,
                                body |-> ch.acts[Len(ch.acts) - i + 1]]]

(* The loop of action_phase that walks the chain (lines 72-116): `list`    *)
(* is what was pushed so far, the current cell is cells[Len(list) + 1],    *)
(* or the chain's tail cell once every action cell was pushed.             *)
RECURSIVE WalkActions(_, _, _)
WalkActions(cells, tail, list) ==
    LET action_idx == Len(list) IN
    IF action_idx = Len(cells)
    THEN CASE tail = "exotic" -> [ok |-> FALSE, code |-> ActionListInvalid, arg |-> action_idx]
           [] tail = "noref"  -> [ok |-> FALSE, code |-> ActionListInvalid, arg |-> action_idx]
           [] tail = "empty"  -> [ok |-> TRUE, list |-> list]
    ELSE IF action_idx + 1 > MAX_ACTIONS
         THEN [ok |-> FALSE, code |-> TooManyActions, arg |-> action_idx + 1]
         ELSE WalkActions(cells, tail, Append(list, cells[action_idx + 1]))

(* The validation loop (lines 118-153) over the reversed list: every cell  *)
(* must hold exactly one OutAction; a SendMsg whose mode is still readable *)
(* is skipped under IGNORE_ERROR and requests a bounce under               *)
(* BOUNCE_ON_ERROR.                                                        *)
RECURSIVE ParseOutActions(_, _, _)
ParseOutActions(items, parsed, skipped) ==
    LET action_idx == Len(parsed) IN
    IF action_idx = Len(items)
    THEN [ok |-> TRUE, parsed |-> parsed, skipped |-> skipped, bounce |-> FALSE]
    ELSE LET item == items[action_idx + 1] IN
         IF item.body.type # "Unparsable"
         THEN ParseOutActions(items, Append(parsed, item), skipped)
         ELSE IF item.body.sendMode # NONE /\ Has(item.body.sendMode, SEND_IGNORE_ERROR)
         THEN ParseOutActions(items, Append(parsed, NONE), skipped + 1)
         ELSE [ok |-> FALSE, skipped |-> skipped, arg |-> action_idx,
               bounce |-> item.body.sendMode # NONE
                          /\ Has(item.body.sendMode, SEND_BOUNCE_ON_ERROR)]

(***************************************************************************)
(* Handlers.  A handler takes the action context `c` (ActionContext) and   *)
(* the phase record `a` (ActionPhase) and returns                          *)
(* [ok |-> BOOLEAN, c |-> ..., a |-> ...]; ok = FALSE is Err(ActionFailed). *)
(***************************************************************************)
Done(c, a) == [ok |-> TRUE, c |-> c, a |-> a]
Failed(c, a) == [ok |-> FALSE, c |-> c, a |-> a]
FailedWith(code, c, a) == Failed(c, [a EXCEPT !.resultCode = code])

(* do_set_code (lines 642-649). *)
DoSetCode(code, c, a) ==
    Done([c EXCEPT !.newState.code = code], [a EXCEPT !.specialActions = @ + 1])

(* Variant of DoReserveCurrency without the underflow check of the base  *)
(* currency (a `-` where the code has `checked_sub`).                      *)
DoReserveCurrencyUnchecked(mode, value, c, a) ==
    LET c0 == IF Has(mode, RESERVE_BOUNCE_ON_ERROR)
              THEN [c EXCEPT !.needBounce = TRUE] ELSE c
        withOriginal == Has(mode, RESERVE_WITH_ORIGINAL_BALANCE)
        reverse == Has(mode, RESERVE_REVERSE)
        reserve1 == IF withOriginal /\ reverse THEN CcSub(OriginalBalance, value)
                    ELSE IF withOriginal THEN CcAdd(value, OriginalBalance)
                    ELSE value
        reserve == IF Has(mode, RESERVE_IGNORE_ERROR)
                   THEN CcMin(reserve1, c.remaining) ELSE reserve1
        newBalance == CcSub(c.remaining, reserve)
        allBut == Has(mode, RESERVE_ALL_BUT)
    IN IF UnknownBits(mode, RESERVE_MASK) THEN Failed(c0, a)
       ELSE IF ~withOriginal /\ reverse THEN Failed(c0, a)
       ELSE IF withOriginal /\ reverse /\ ~CcGeq(OriginalBalance, value)
            THEN Failed(c0, a)                              \* checked_sub(..)?
       ELSE IF newBalance.other < 0 THEN FailedWith(NotEnoughExtraBalance, c0, a)
       ELSE Done([c0 EXCEPT !.remaining = IF allBut THEN reserve ELSE newBalance,
                            !.reserved = CcAdd(@, IF allBut THEN newBalance ELSE reserve)],
                 [a EXCEPT !.specialActions = @ + 1])

(* do_reserve_currency (lines 652-719). *)
DoReserveCurrency(mode, value, c, a) ==
    LET c0 == IF Has(mode, RESERVE_BOUNCE_ON_ERROR)
              THEN [c EXCEPT !.needBounce = TRUE] ELSE c
        withOriginal == Has(mode, RESERVE_WITH_ORIGINAL_BALANCE)
        reverse == Has(mode, RESERVE_REVERSE)
        reserve1 == IF withOriginal /\ reverse THEN CcSub(OriginalBalance, value)
                    ELSE IF withOriginal THEN CcAdd(value, OriginalBalance)
                    ELSE value
        reserve == IF Has(mode, RESERVE_IGNORE_ERROR)
                   THEN CcMin(reserve1, c.remaining) ELSE reserve1
        newBalance == CcSub(c.remaining, reserve)
        allBut == Has(mode, RESERVE_ALL_BUT)
    IN IF UnknownBits(mode, RESERVE_MASK) THEN Failed(c0, a)
       ELSE IF ~withOriginal /\ reverse THEN Failed(c0, a)
       ELSE IF withOriginal /\ reverse /\ ~CcGeq(OriginalBalance, value)
            THEN Failed(c0, a)                              \* checked_sub(..)?
       ELSE IF newBalance.tokens < 0 THEN FailedWith(NotEnoughBalance, c0, a)
       ELSE IF newBalance.other < 0 THEN FailedWith(NotEnoughExtraBalance, c0, a)
       ELSE Done([c0 EXCEPT !.remaining = IF allBut THEN reserve ELSE newBalance,
                            !.reserved = CcAdd(@, IF allBut THEN newBalance ELSE reserve)],
                 [a EXCEPT !.specialActions = @ + 1])

(* Variant of DoChangeLibrary that returns early for an already present   *)
(* library without counting the action as special.                        *)
DoChangeLibraryUncounted(mode, lib, c, a) ==
    LET c0 == IF Has(mode, LIB_BOUNCE_ON_ERROR) THEN [c EXCEPT !.needBounce = TRUE] ELSE c
        addPublic == Has(mode, LIB_ADD_PUBLIC)
        prev == c.newState.libs[lib.hash]
        special == [a EXCEPT !.specialActions = @ + 1]
    IN IF Has(mode, LIB_ADD_PRIVATE) /\ Has(mode, LIB_ADD_PUBLIC) THEN Failed(c0, a)
       ELSE IF addPublic \/ Has(mode, LIB_ADD_PRIVATE)
       THEN IF prev # NONE /\ prev = addPublic THEN Done(c0, a)
            ELSE IF ~lib.isCell THEN FailedWith(NoLibCode, c0, a)
            ELSE IF lib.cells > MaxLibraryCells THEN FailedWith(LibOutOfLimits, c0, a)
            ELSE Done([c0 EXCEPT !.newState.libs[lib.hash] = addPublic], special)
       ELSE Done([c0 EXCEPT !.newState.libs[lib.hash] = NONE], special)

(* do_change_library (lines 722-798).  `lib` is [hash, isCell, cells]:    *)
(* LibRef::Cell (with the size of its tree) or LibRef::Hash.  The library  *)
(* dictionary maps a hash to NONE or to its `public` flag.                 *)
DoChangeLibrary(mode, lib, c, a) ==
    LET c0 == IF Has(mode, LIB_BOUNCE_ON_ERROR)
              THEN [c EXCEPT !.needBounce = TRUE] ELSE c
        addPublic == Has(mode, LIB_ADD_PUBLIC)
        prev == c.newState.libs[lib.hash]
        special == [a EXCEPT !.specialActions = @ + 1]
    IN IF Has(mode, LIB_ADD_PRIVATE) /\ Has(mode, LIB_ADD_PUBLIC) THEN Failed(c0, a)
       ELSE IF addPublic \/ Has(mode, LIB_ADD_PRIVATE)
       THEN IF prev # NONE /\ prev = addPublic THEN Done(c0, special)
            ELSE IF ~lib.isCell THEN FailedWith(NoLibCode, c0, a)
            ELSE IF lib.cells > MaxLibraryCells THEN FailedWith(LibOutOfLimits, c0, a)
            ELSE Done([c0 EXCEPT !.newState.libs[lib.hash] = addPublic], special)
       ELSE Done([c0 EXCEPT !.newState.libs[lib.hash] = NONE], special)

(* MessageRewrite::next (lines 910-916). *)
NextRewrite(r) ==
    CASE r = NONE -> "StateInitToCell"
      [] r = "StateInitToCell" -> "BodyToCell"
      [] r = "BodyToCell" -> NONE

(* Lines 377-397: which part of the message a rewrite moves into its own  *)
(* cell.  The message is re-read from the action on every attempt, so a    *)
(* BodyToCell attempt does not keep the state init moved.  A state init    *)
(* with fewer than two references turns StateInitToCell into BodyToCell.   *)
EffectiveRewrite(m, r) ==
    IF r = "StateInitToCell" /\ ~m.initMovable THEN "BodyToCell" ELSE r
Layout(m, r) ==
    [init |-> r = "StateInitToCell",
     body |-> r = "BodyToCell" /\ m.plainBody]

(* ForwardFees::compute_fwd_fee with the bit term left out (rounded by    *)
(* shift_ceil_price), and get_first_part.                                  *)
FwdFee(p, cells) == p.lump + ShiftCeilPrice(p.cellPrice * cells)
FirstPart(p, fee) == (fee * p.firstFrac) \div 65536

InMsgBalance(msg) == IF msg = NoMsg THEN Zero ELSE msg.balanceRemaining

(* Variant of RewriteMessageValue that forgets to add the fees to the     *)
(* amount withdrawn under PAY_FEE_SEPARATELY.                              *)
RewriteMessageValueFeesDropped(c, value, mode, fees) ==
    LET all == Has(mode, SEND_ALL_BALANCE)
        paySep == Has(mode, SEND_PAY_FEE_SEPARATELY) /\ ~all
        v1 == IF all THEN c.remaining
              ELSE IF Has(mode, SEND_WITH_REMAINING_BALANCE)
                   THEN CcAdd(value, InMsgBalance(c.inMsg)) ELSE value
        excl == ~all /\ Has(mode, SEND_WITH_REMAINING_BALANCE) /\ ~paySep
        tokens == IF excl THEN v1.tokens - c.fine - GasFees ELSE v1.tokens
    IN [ok |-> tokens >= 0 /\ (paySep \/ tokens >= fees),
        value |-> [tokens |-> IF paySep THEN tokens ELSE tokens - fees, other |-> v1.other],
        total |-> tokens]

(* ActionContext::rewrite_message_value (lines 842-873). *)
RewriteMessageValue(c, value, mode, fees) ==
    LET all == Has(mode, SEND_ALL_BALANCE)
        paySep == Has(mode, SEND_PAY_FEE_SEPARATELY) /\ ~all
        v1 == IF all THEN c.remaining
              ELSE IF Has(mode, SEND_WITH_REMAINING_BALANCE)
                   THEN CcAdd(value, InMsgBalance(c.inMsg))
              ELSE value
        excl == ~all /\ Has(mode, SEND_WITH_REMAINING_BALANCE) /\ ~paySep
        tokens == IF excl THEN v1.tokens - c.fine - GasFees ELSE v1.tokens
    IN [ok    |-> tokens >= 0 /\ (paySep \/ tokens >= fees),
        value |-> [tokens |-> IF paySep THEN tokens ELSE tokens - fees,
                   other  |-> v1.other],
        total |-> IF paySep THEN tokens + fees ELSE tokens]

(* Lines 448-491: the fine per visited cell and how many cells the        *)
(* account can pay the fine for.  `funds` is the remaining balance, or for *)
(* an internal message paying fees from its value, the smaller of that and *)
(* the value the message would carry.                                      *)
FinePerCell(isSpecial, prices) ==
    IF isSpecial THEN 0 ELSE (prices.cellPrice \div 65536) \div 4
MaxCellCount(isSpecial, finePerCell, funds) ==
    IF ~isSpecial /\ funds < MaxMsgCells * finePerCell
    THEN funds \div finePerCell ELSE MaxMsgCells

(* The collect_fine closure (lines 493-500): charge the fine for `cells`   *)
(* visited cells, at most max_cell_count of them and at most what remains. *)
(* ok = FALSE is the failing `try_sub_assign_tokens`, after the fine was   *)
(* already added to action_fine.                                           *)
CollectFine(finePerCell, maxCellCount, cells, c) ==
    LET fine == MinOf(finePerCell * MinOf(maxCellCount, cells), c.remaining.tokens)
    IN [ok |-> c.remaining.tokens >= fine,
        c  |-> [c EXCEPT !.fine = @ + fine,
                         !.remaining.tokens = IF c.remaining.tokens >= fine
                                              THEN @ - fine ELSE @]]

(* The cells ExtStorageStat counts (lines 502-541): the trees below the    *)
(* state init and the body, the cell a rewrite adds, and the root of the   *)
(* extra-currency dictionary of an internal message.                       *)
MsgStatCells(m, layout) ==
    m.cells + (IF layout.init THEN 1 ELSE 0) + (IF layout.body THEN 1 ELSE 0)
            + (IF m.kind = "Int" /\ m.value.other # 0 THEN 1 ELSE 0)

(* Variant of DeleteAccount that deletes the account whatever was        *)
(* reserved.                                                               *)
DeleteAccountIgnoringReserve(mode, c) ==
    IF Has(mode, SEND_ALL_BALANCE) /\ Has(mode, SEND_DELETE_IF_EMPTY)
    THEN TRUE ELSE c.deleteAccount

(* Lines 633-636: sending with ALL_BALANCE and DELETE_IF_EMPTY deletes the *)
(* account unless something was reserved.                                  *)
DeleteAccount(mode, c) ==
    IF Has(mode, SEND_ALL_BALANCE) /\ Has(mode, SEND_DELETE_IF_EMPTY)
    THEN c.reserved = Zero ELSE c.deleteAccount

(* update_total_msg_stat (lines 1011-1021): the message's cells and its   *)
(* root are added to total_message_size (its bits are not modelled).       *)
UpdateTotalMsgStat(a, cells) == [a EXCEPT !.msgCells = @ + cells + 1]

\* Variant of ClearInMsg that ignores the mode.
ClearInMsgAnyMode(mode, isInt, c) ==
    IF isInt /\ c.inMsg # NoMsg THEN [c EXCEPT !.inMsg = [balanceRemaining |-> Zero]] ELSE c

(* Lines 584-591: once an internal message is built, a send with          *)
(* ALL_BALANCE or WITH_REMAINING_BALANCE zeroes the received message's     *)
(* balance_remaining.                                                      *)
ClearInMsg(mode, isInt, c) ==
    IF isInt /\ c.inMsg # NoMsg
       /\ (Has(mode, SEND_ALL_BALANCE) \/ Has(mode, SEND_WITH_REMAINING_BALANCE))
    THEN [c EXCEPT !.inMsg = [balanceRemaining |-> Zero]] ELSE c

(***************************************************************************)
(* do_send_message (lines 314-639), one attempt with rewrite `r0`.  It     *)
(* returns a handler result, or [rewrite |-> r] when the message did not   *)
(* fit into a cell and the next layout is to be tried.  An outbound        *)
(* message `m` is [kind, exotic, parses, srcOk, dstOk, dstMc, value,       *)
(* cells, bitsOver, initMovable, plainBody, fits]: `cells` counts the      *)
(* cells below the state init and the body, `fits` the layouts whose root  *)
(* cell build_message can build.                                           *)
(***************************************************************************)
DoSendMessage(isSpecial, mode, m, c, a, r0) ==
    LET c0 == IF Has(mode, SEND_BOUNCE_ON_ERROR)
              THEN [c EXCEPT !.needBounce = TRUE] ELSE c
        skipInvalid == Has(mode, SEND_IGNORE_ERROR)
        CheckSkipInvalid(code, cx) ==
            IF skipInvalid THEN Done(cx, [a EXCEPT !.skippedActions = @ + 1])
            ELSE FailedWith(code, cx, a)
        r == EffectiveRewrite(m, r0)
        layout == Layout(m, r)
        isInt == m.kind = "Int"
        prices == Prices[AddrIsMasterchain \/ (isInt /\ m.dstMc)]
        finePerCell == FinePerCell(isSpecial, prices)
        fromValue == isInt /\ ~Has(mode, SEND_ALL_BALANCE)
                           /\ ~Has(mode, SEND_PAY_FEE_SEPARATELY)
        withRem == Has(mode, SEND_WITH_REMAINING_BALANCE)
        newFunds == m.value.tokens
                    + (IF withRem THEN InMsgBalance(c0.inMsg).tokens - GasFees - c0.fine
                       ELSE 0)
        funds == IF fromValue THEN MinOf(c0.remaining.tokens, newFunds)
                 ELSE c0.remaining.tokens
        maxCellCount == MaxCellCount(isSpecial, finePerCell, funds)
        statCells == MsgStatCells(m, layout)
        exceeds == statCells > maxCellCount \/ m.bitsOver
        visited == IF statCells > maxCellCount THEN maxCellCount + 1 ELSE statCells
        \* check_skip_invalid after the stats were computed: collects the fine first
        \* ghost: what the fine was charged against
        SkipFined(code, cells) ==
            LET f == CollectFine(finePerCell, maxCellCount, cells, c0)
                g == [fine |-> f.c.fine - c0.fine, mode |-> mode, isInt |-> isInt,
                      value |-> m.value.tokens, inMsg |-> InMsgBalance(c0.inMsg).tokens,
                      fineBefore |-> c0.fine, remaining |-> c0.remaining.tokens]
                fc == [f.c EXCEPT !.lastFine = g]
            IN IF f.ok THEN CheckSkipInvalid(code, fc) ELSE Failed(fc, a)
        fwdFee == IF isSpecial THEN 0 ELSE FwdFee(prices, statCells)
        rv == RewriteMessageValue(c0, m.value, mode, fwdFee)
        NotFit == IF NextRewrite(r) # NONE THEN [rewrite |-> NextRewrite(r)]
                  ELSE SkipFined(FailedToFitMessage, statCells)
        collected == IF isInt THEN FirstPart(prices, fwdFee) ELSE fwdFee
        msg == [seq |-> m.seq, kind |-> m.kind, lt |-> c0.endLt,
                value |-> IF isInt THEN rv.value ELSE Zero,
                fwdFee |-> fwdFee - collected]
        c1 == [ClearInMsg(mode, isInt, c0) EXCEPT
                         !.remaining = IF isInt THEN [tokens |-> @.tokens - rv.total,
                                                      other  |-> @.other - rv.value.other]
                                       ELSE [@ EXCEPT !.tokens = @ - fwdFee]]
        \* lines 619-636
        Sent == Done([c1 EXCEPT !.endLt = @ + 1,
                                !.outMsgs = Append(@, msg),
                                !.deleteAccount = DeleteAccount(mode, c1)],
                     [UpdateTotalMsgStat(a, statCells) EXCEPT
                               !.messagesCreated = @ + 1,
                               !.totalActionFees = OptVal(@) + collected,
                               !.totalFwdFees = OptVal(@) + fwdFee])
    IN IF UnknownBits(mode, SEND_MASK)
          \/ (Has(mode, SEND_ALL_BALANCE) /\ withRem) THEN Failed(c0, a)
       ELSE IF m.exotic \/ ~m.parses THEN Failed(c0, a)
       ELSE IF isInt /\ ~m.srcOk THEN FailedWith(InvalidSrcAddr, c0, a)
       ELSE IF isInt /\ ~m.dstOk THEN CheckSkipInvalid(InvalidDstAddr, c0)
       ELSE IF ~isInt /\ UnknownBits(mode, EXT_MSG_MASK) THEN Failed(c0, a)
       ELSE IF ~isInt /\ ~m.srcOk THEN FailedWith(InvalidSrcAddr, c0, a)
       ELSE IF ~isSpecial /\ fromValue /\ withRem /\ newFunds < 0
            THEN CheckSkipInvalid(NotEnoughBalance, c0)
       ELSE IF exceeds THEN SkipFined(MessageOutOfLimits, visited)
       ELSE IF isInt /\ ~rv.ok THEN SkipFined(NotEnoughBalance, statCells)
       ELSE IF isInt /\ c0.remaining.tokens < rv.total
            THEN SkipFined(NotEnoughBalance, statCells)
       ELSE IF isInt /\ c0.remaining.other < rv.value.other
            THEN SkipFined(NotEnoughExtraBalance, statCells)
       ELSE IF ~isInt /\ c0.remaining.tokens < fwdFee
            THEN SkipFined(NotEnoughBalance, statCells)
       ELSE IF layout \notin m.fits THEN NotFit
       ELSE Sent

(* The rewrite loop of action_phase (lines 184-193). *)
RECURSIVE SendLoop(_, _, _, _, _, _)
SendLoop(isSpecial, mode, m, c, a, r) ==
    LET res == DoSendMessage(isSpecial, mode, m, c, a, r)
    IN IF "rewrite" \in DOMAIN res
       THEN SendLoop(isSpecial, mode, m, c, a, res.rewrite)
       ELSE res

-----------------------------------------------------------------------------
VARIABLES
    pc,            \* where action_phase is: parse, validate, execute, done, error
    chain,         \* ctx.actions: the c5 chain left by the compute phase
    isSpecial,     \* self.is_special
    chargeOnFail,  \* self.params.charge_action_fees_on_fail
    list,          \* `list`, then `parsed_list` (NONE for a skipped action)
    idx,           \* position of the next action in parsed_list
    ctx,           \* ActionContext, with action_fine as ctx.fine
    ap,            \* res.action_phase
    bounce,        \* res.bounce
    stateExceeds,  \* res.state_exceeds_limits
    balance,       \* self.balance
    totalFees,     \* self.total_fees
    endLt,         \* self.end_lt
    outMsgs,       \* self.out_msgs
    state,         \* the StateInit of self.state
    endStatus      \* self.end_status

vars == <<pc, chain, isSpecial, chargeOnFail, list, idx, ctx, ap, bounce,
          stateExceeds, balance, totalFees, endLt, outMsgs, state, endStatus>>
account == <<balance, totalFees, endLt, outMsgs, state, endStatus>>

(* Size of a StateInit in cells, as check_state_limits counts it. *)
StateCells(ns) ==
    CodeCells[ns.code] + MapThenSumSet(LAMBDA h : LibCells[h], {h \in Hashes : ns.libs[h] # NONE})

Init ==
    /\ pc = "parse"
    /\ chain \in Chains
    /\ isSpecial \in BOOLEAN
    /\ chargeOnFail \in BOOLEAN
    /\ list = <<>>
    /\ idx = 1
    /\ \E msg \in InMsgs :
          ctx = [needBounce |-> FALSE, inMsg |-> msg, remaining |-> Balance0,
                 reserved |-> Zero, fine |-> 0, newState |-> NewState0,
                 endLt |-> EndLt0, outMsgs |-> <<>>, deleteAccount |-> FALSE,
                 lastFine |-> NONE]
    /\ ap = [success |-> FALSE, valid |-> FALSE, noFunds |-> FALSE,
             statusChange |-> "Unchanged", totalFwdFees |-> NONE,
             totalActionFees |-> NONE, resultCode |-> -1, resultArg |-> NONE,
             totalActions |-> 0, specialActions |-> 0, skippedActions |-> 0,
             messagesCreated |-> 0, msgCells |-> 0]
    /\ bounce = FALSE
    /\ stateExceeds = FALSE
    /\ balance = Balance0
    /\ totalFees = TotalFees0
    /\ endLt = EndLt0
    /\ outMsgs = <<>>
    /\ state = NewState0
    /\ endStatus = "Active"

(* Unpack the action list (lines 72-116). *)
ParseActionList ==
    /\ pc = "parse"
    /\ LET w == WalkActions(ChainCells(chain), chain.tail, <<>>) IN
       \/ /\ w.ok
          /\ list' = w.list
          /\ ap' = [ap EXCEPT !.totalActions = Len(w.list)]
          /\ pc' = "validate"
       \/ /\ ~w.ok
          /\ ap' = [ap EXCEPT !.resultCode = w.code, !.resultArg = w.arg, !.valid = FALSE]
          /\ pc' = "done"
          /\ UNCHANGED list
    /\ UNCHANGED <<chain, isSpecial, chargeOnFail, idx, ctx, bounce, stateExceeds, account>>

(* Variant of ValidateActions that executes the chain in c5 order, newest *)
(* action first, without the reversal.                                     *)
ValidateActionsInChainOrder ==
    /\ pc = "validate"
    /\ LET v == ParseOutActions(list, <<>>, 0) IN
       \/ /\ v.ok
          /\ list' = v.parsed
          /\ ap' = [ap EXCEPT !.skippedActions = v.skipped, !.valid = TRUE]
          /\ pc' = "execute"
          /\ UNCHANGED bounce
       \/ /\ ~v.ok
          /\ ap' = [ap EXCEPT !.skippedActions = v.skipped, !.resultCode = ActionInvalid,
                              !.resultArg = v.arg, !.valid = FALSE]
          /\ bounce' = (bounce \/ v.bounce)
          /\ pc' = "done"
          /\ UNCHANGED list
    /\ UNCHANGED <<chain, isSpecial, chargeOnFail, idx, ctx, stateExceeds, account>>

(* Parse every action of the reversed list (lines 118-156). *)
ValidateActions ==
    /\ pc = "validate"
    /\ LET v == ParseOutActions(Reverse(list), <<>>, 0) IN
       \/ /\ v.ok
          /\ list' = v.parsed
          /\ ap' = [ap EXCEPT !.skippedActions = v.skipped, !.valid = TRUE]
          /\ pc' = "execute"
          /\ UNCHANGED bounce
       \/ /\ ~v.ok
          /\ ap' = [ap EXCEPT !.skippedActions = v.skipped, !.resultCode = ActionInvalid,
                              !.resultArg = v.arg, !.valid = FALSE]
          /\ bounce' = (bounce \/ v.bounce)
          /\ pc' = "done"
          /\ UNCHANGED list
    /\ UNCHANGED <<chain, isSpecial, chargeOnFail, idx, ctx, stateExceeds, account>>

(* The match on the action kind (lines 182-201). *)
RunAction(item, c, a) ==
    LET b == item.body IN
    CASE b.type = "SendMsg" ->
            SendLoop(isSpecial, b.mode, [seq |-> item.seq] @@ b.msg, c, a, NONE)
      [] b.type = "SetCode" -> DoSetCode(b.code, c, a)
      [] b.type = "ReserveCurrency" -> DoReserveCurrency(b.mode, b.value, c, a)
      [] b.type = "ChangeLibrary" -> DoChangeLibrary(b.mode, b.lib, c, a)

(* ActionContext::apply_fine_on_error (lines 818-840): the fine, and the   *)
(* phase record with the fees rewritten.                                   *)
ApplyFineOnError(c, a) ==
    LET fine == IF chargeOnFail THEN c.fine + OptVal(a.totalActionFees) ELSE c.fine
    IN [fine |-> fine,
        a |-> [a EXCEPT !.totalFwdFees = NONE,
                        !.totalActionFees = IF fine = 0 THEN NONE ELSE fine]]

(* Variant of FailPhase that charges the fine to the working copy of the *)
(* balance (remaining_balance) instead of the account balance.            *)
FailPhaseOnRemaining(c, a) ==
    LET f == ApplyFineOnError(c, a) IN
    /\ ctx' = [c EXCEPT !.fine = f.fine]
    /\ ap' = f.a
    /\ IF c.remaining.tokens >= f.fine
       THEN /\ balance' = [c.remaining EXCEPT !.tokens = @ - f.fine]
            /\ totalFees' = totalFees + f.fine
            /\ bounce' = (bounce \/ c.needBounce)
            /\ pc' = "done"
       ELSE /\ pc' = "error"
            /\ UNCHANGED <<balance, totalFees, bounce>>
    /\ UNCHANGED <<endLt, outMsgs, state, endStatus>>

(* Variant of FailPhase that commits the messages built before the      *)
(* failure.                                                                *)
FailPhaseKeepingMessages(c, a) ==
    LET f == ApplyFineOnError(c, a) IN
    /\ ctx' = [c EXCEPT !.fine = f.fine]
    /\ ap' = f.a
    /\ IF balance.tokens >= f.fine
       THEN /\ balance' = [balance EXCEPT !.tokens = @ - f.fine]
            /\ totalFees' = totalFees + f.fine
            /\ bounce' = (bounce \/ c.needBounce)
            /\ pc' = "done"
       ELSE /\ pc' = "error"
            /\ UNCHANGED <<balance, totalFees, bounce>>
    /\ outMsgs' = c.outMsgs /\ endLt' = c.endLt
    /\ UNCHANGED <<state, endStatus>>

(* Charge the fine and stop the phase (lines 219-230 and 257-269).  A fine *)
(* above the balance makes `try_sub_assign` fail: action_phase returns an  *)
(* error instead of a result (pc = "error").                               *)
FailPhase(c, a) ==
    LET f == ApplyFineOnError(c, a) IN
    /\ ctx' = [c EXCEPT !.fine = f.fine]
    /\ ap' = f.a
    /\ IF balance.tokens >= f.fine
       THEN /\ balance' = [balance EXCEPT !.tokens = @ - f.fine]
            /\ totalFees' = totalFees + f.fine
            /\ bounce' = (bounce \/ c.needBounce)
            /\ pc' = "done"
       ELSE /\ pc' = "error"
            /\ UNCHANGED <<balance, totalFees, bounce>>
    /\ UNCHANGED <<endLt, outMsgs, state, endStatus>>

(* Execute the next action of parsed_list (lines 174-201).  A skipped     *)
(* action (`None`) is passed over before the per-action reset of           *)
(* need_bounce_on_fail, result_code and result_arg.                        *)
\* Variant of StartAction that keeps the flag of the previous action.
StartActionKeepingBounce(c) == c

\* The per-action reset of need_bounce_on_fail (line 179).
StartAction(c) == [c EXCEPT !.needBounce = FALSE]

SkipAction ==
    /\ pc = "execute"
    /\ idx <= Len(list)
    /\ list[idx] = NONE
    /\ idx' = idx + 1
    /\ UNCHANGED <<pc, chain, isSpecial, chargeOnFail, list, ctx, ap, bounce,
                   stateExceeds, account>>

ExecuteAction ==
    /\ pc = "execute"
    /\ idx <= Len(list)
    /\ list[idx] # NONE
    /\ LET r == RunAction(list[idx], StartAction(ctx),
                          [ap EXCEPT !.resultCode = -1, !.resultArg = idx - 1])
       IN /\ r.ok
          /\ ctx' = r.c
          /\ ap' = r.a
    /\ idx' = idx + 1
    /\ UNCHANGED <<pc, chain, isSpecial, chargeOnFail, list, bounce, stateExceeds, account>>

(* An action failed (lines 203-231): -1 becomes ActionInvalid, codes 37   *)
(* and 38 set no_funds, the fine is charged and the other actions are      *)
(* ignored.                                                                *)
ActionFails ==
    /\ pc = "execute"
    /\ idx <= Len(list)
    /\ list[idx] # NONE
    /\ LET r == RunAction(list[idx], StartAction(ctx),
                          [ap EXCEPT !.resultCode = -1, !.resultArg = idx - 1])
           code == IF r.a.resultCode = -1 THEN ActionInvalid ELSE r.a.resultCode
       IN /\ ~r.ok
          /\ FailPhase(r.c, [r.a EXCEPT !.resultCode = code,
                                        !.noFunds = @ \/ code \in {NotEnoughBalance,
                                                                   NotEnoughExtraBalance}])
    /\ UNCHANGED <<chain, isSpecial, chargeOnFail, list, idx, stateExceeds>>

(* The new state exceeds the size limits (lines 234-270). *)
StateLimitsExceeded ==
    /\ pc = "execute"
    /\ idx > Len(list)
    /\ ~isSpecial
    /\ StateCells(ctx.newState) > MaxStateCells
    /\ FailPhase(ctx, [ap EXCEPT !.resultCode = StateOutOfLimits])
    /\ stateExceeds' = TRUE
    /\ UNCHANGED <<chain, isSpecial, chargeOnFail, list, idx>>

(* Commit the phase (lines 277-309): the fine is added to the action fees, *)
(* the reserve returns to the balance and everything the actions did       *)
(* becomes the account's state at once.                                    *)
Commit ==
    /\ pc = "execute"
    /\ idx > Len(list)
    /\ isSpecial \/ StateCells(ctx.newState) <= MaxStateCells
    /\ LET fees == IF ctx.fine # 0 THEN OptVal(ap.totalActionFees) + ctx.fine
                   ELSE ap.totalActionFees
           remaining == CcAdd(ctx.remaining, ctx.reserved)
       IN /\ ap' = [ap EXCEPT !.totalActionFees = fees, !.resultCode = 0,
                              !.resultArg = NONE, !.success = TRUE,
                              !.statusChange = IF ctx.deleteAccount THEN "Deleted" ELSE @]
          /\ endStatus' = IF ctx.deleteAccount THEN "NotExists" ELSE endStatus
          /\ totalFees' = totalFees + OptVal(fees)
          /\ balance' = remaining
          /\ ctx' = [ctx EXCEPT !.remaining = remaining]
    /\ outMsgs' = ctx.outMsgs
    /\ endLt' = ctx.endLt
    /\ state' = ctx.newState
    /\ pc' = "done"
    /\ UNCHANGED <<chain, isSpecial, chargeOnFail, list, idx, bounce, stateExceeds>>

(* action_phase has returned. *)
Returned ==
    /\ pc \in {"done", "error"}
    /\ UNCHANGED vars

Next ==
    \/ ParseActionList
    \/ ValidateActions
    \/ SkipAction
    \/ ExecuteAction
    \/ ActionFails
    \/ StateLimitsExceeded
    \/ Commit
    \/ Returned

Spec == Init /\ [][Next]_vars /\ WF_vars(Next)

-----------------------------------------------------------------------------
(* Properties *)

CC == [tokens : Nat, other : Nat]
OutMsgType == [seq : Nat, kind : {"Int", "ExtOut"}, lt : Nat, value : CC, fwdFee : Nat]

TypeOK ==
    /\ pc \in {"parse", "validate", "execute", "done", "error"}
    /\ isSpecial \in BOOLEAN /\ chargeOnFail \in BOOLEAN
    /\ idx \in 1..(MAX_ACTIONS + 1)
    /\ ctx.remaining \in CC /\ ctx.reserved \in CC /\ ctx.fine \in Nat
    /\ \A i \in DOMAIN ctx.outMsgs : ctx.outMsgs[i] \in OutMsgType
    /\ ap.totalActionFees \in Nat \cup {NONE}
    /\ ap.totalFwdFees \in Nat \cup {NONE}
    /\ ap.resultCode \in {-1, 0, StateOutOfLimits} \cup ActionListInvalid..LibOutOfLimits
    /\ balance \in CC /\ totalFees \in Nat /\ endLt \in Nat
    /\ \A i \in DOMAIN outMsgs : outMsgs[i] \in OutMsgType
    /\ endStatus \in {"Active", "NotExists"}

(* What the out messages carry: their value and the part of the forwarding *)
(* fee that travels with them.                                             *)
MsgsTokens(s) == FoldLeft(LAMBDA acc, m : acc + m.value.tokens + m.fwdFee, 0, s)
MsgsOther(s) == FoldLeft(LAMBDA acc, m : acc + m.value.other, 0, s)

(* Money is neither created nor lost by the action phase.  While actions   *)
(* run, the starting balance is split between the remaining balance, the   *)
(* reserve, the fine (collect_fine), the messages built so far and the     *)
(* fees collected for them (fees_collected); once action_phase returns,    *)
(* between the new balance, the committed messages and the fees added to   *)
(* total_fees -- on success (reserve returned, action fees charged) and on *)
(* failure (apply_fine_on_error, nothing sent) alike.                      *)
BalanceConservation ==
    /\ pc = "execute" =>
          /\ Balance0.tokens = ctx.remaining.tokens + ctx.reserved.tokens + ctx.fine
                               + MsgsTokens(ctx.outMsgs) + OptVal(ap.totalActionFees)
          /\ Balance0.other = ctx.remaining.other + ctx.reserved.other + MsgsOther(ctx.outMsgs)
    /\ pc = "done" =>
          /\ Balance0.tokens = balance.tokens + MsgsTokens(outMsgs) + (totalFees - TotalFees0)
          /\ Balance0.other = balance.other + MsgsOther(outMsgs)

(* The fine for the cells a message visited never exceeds the funds the   *)
(* message can pay it from ("if we cannot afford that many fines, reduce  *)
(* max_cell_count", action.rs 448-491): the balance left, and for an       *)
(* internal message paying its fees from its value, no more than that     *)
(* value, plus under WITH_REMAINING_BALANCE what remains of the received  *)
(* message after the gas fees and the fines of earlier actions.  Special  *)
(* accounts pay no fine.                                                   *)
FineFunds(g) ==
    IF g.isInt /\ ~Has(g.mode, SEND_ALL_BALANCE) /\ ~Has(g.mode, SEND_PAY_FEE_SEPARATELY)
    THEN MinOf(g.remaining,
               g.value + (IF Has(g.mode, SEND_WITH_REMAINING_BALANCE)
                          THEN g.inMsg - GasFees - g.fineBefore ELSE 0))
    ELSE g.remaining
NoHostError == pc # "error"

(* An account is deleted (ALL_BALANCE | DELETE_IF_EMPTY) only when nothing *)
(* is left on it: no reserve made earlier in the list and no balance that  *)
(* a later action could have put back (the debug_assert on line 295).      *)
DeleteOnlyWhenEmpty == endStatus = "NotExists" => balance = Zero

(* On success every action of the list is accounted for: it was a special  *)
(* action, a skipped one or a created message.                             *)
ActionAccounting ==
    ap.success =>
        ap.totalActions = ap.specialActions + ap.skippedActions + ap.messagesCreated

(* Committed messages appear in the order the compute phase emitted them   *)
(* (the chain in c5 is newest first and must be reversed), with logical    *)
(* times allocated one after another from the phase's starting end_lt.     *)
OutMsgOrder ==
    /\ \A k \in DOMAIN outMsgs :
          /\ outMsgs[k].lt = EndLt0 + k - 1
          /\ k > 1 => outMsgs[k - 1].seq < outMsgs[k].seq
    /\ endLt = EndLt0 + Len(outMsgs)

(* A bounce is requested after the actions were validated only by the     *)
(* action that ended the phase: the failed action, or, when the new state *)
(* exceeds the limits (lines 257-269), the last action that ran.  Its      *)
(* BOUNCE_ON_ERROR flag is the only source, because need_bounce_on_fail   *)
(* is reset before every action (line 179), skipped actions included.     *)
BounceOnlyFromDecidingAction ==
    (bounce /\ ap.valid) =>
        LET ran == {i \in 1..Len(list) : i <= idx /\ list[i] # NONE}
        IN /\ ran # {}
           /\ list[Max(ran)].body.type # "SetCode"
           /\ Has(list[Max(ran)].body.mode, SEND_BOUNCE_ON_ERROR)

(* The action phase implements ActionPhaseAbstract: the account fields    *)
(* change only in the step where action_phase returns (Commit or          *)
(* FailPhase), a failure leaves messages, logical time, state and status  *)
(* as they were and moves only the fine from the balance to the fees.    *)
Abstract == INSTANCE ActionPhaseAbstract
                WITH phase <- IF pc = "done" THEN "done" ELSE "pending",
                     success <- ap.success
AbstractSpec == Abstract!Spec

(* The received message's balance_remaining is zero (it starts non-zero  *)
(* in every model) exactly when an internal message sent with ALL_BALANCE  *)
(* or WITH_REMAINING_BALANCE was built (do_send_message, lines 584-591):   *)
(* a send that was skipped, did not fit, or failed before being built      *)
(* leaves it for a later WITH_REMAINING_BALANCE message; a built one must  *)
(* not leave it for a second one.  Holds after a failed phase as well,     *)
(* whose fine does not give the zeroed balance back.                       *)
ConsumesInMsg(o) ==
    \E j \in 1..Len(list) :
        /\ list[j] # NONE /\ list[j].seq = o.seq
        /\ list[j].body.type = "SendMsg"
        /\ \/ Has(list[j].body.mode, SEND_ALL_BALANCE)
           \/ Has(list[j].body.mode, SEND_WITH_REMAINING_BALANCE)
InMsgConsumedOnlyBySentMessage ==
    ctx.inMsg # NoMsg =>
        (ctx.inMsg.balanceRemaining = Zero <=>
            \E k \in 1..Len(ctx.outMsgs) : ctx.outMsgs[k].kind = "Int" /\ ConsumesInMsg(ctx.outMsgs[k]))

(* The balance conservation law as spec.md states it for successful        *)
(* executions: initial = final + sum of msg.value + total_fwd_fees +       *)
(* total_action_fees.                                                      *)
SpecConservationLaw ==
    (pc = "done" /\ ap.success) =>
        Balance0.tokens = balance.tokens
                          + FoldLeft(LAMBDA acc, m : acc + m.value.tokens, 0, outMsgs)
                          + OptVal(ap.totalFwdFees) + OptVal(ap.totalActionFees)
=============================================================================
