------------------------- MODULE ActionPhaseAbstract -------------------------
(***************************************************************************)
(* What the action phase promises the rest of the transaction: it runs as *)
(* one all-or-nothing step.  Either it commits, and the starting balance   *)
(* is split between the new balance, the messages it sends and the fees   *)
(* it collects, with one logical time per message, and the account is     *)
(* deleted only when nothing is left on it; or it fails, and the only     *)
(* change to the account is a fine moved from the balance to the fees.    *)
(***************************************************************************)
EXTENDS Integers, Sequences, SequencesExt

CONSTANTS
    Balance0,     \* the account balance, [tokens, other]
    TotalFees0,   \* fees collected by the earlier phases
    EndLt0,       \* the first free logical time
    NewState0     \* the account's state init

VARIABLES
    phase,        \* "pending" until the phase has returned, then "done"
    success,      \* the phase committed
    balance, totalFees, outMsgs, endLt, state, endStatus

avars == <<phase, success, balance, totalFees, outMsgs, endLt, state, endStatus>>

\* Tokens and extra currency that leave the account with the messages.
SentTokens(s) == FoldLeft(LAMBDA acc, m : acc + m.value.tokens + m.fwdFee, 0, s)
SentOther(s) == FoldLeft(LAMBDA acc, m : acc + m.value.other, 0, s)

Init ==
    /\ phase = "pending"
    /\ success = FALSE
    /\ balance = Balance0
    /\ totalFees = TotalFees0
    /\ outMsgs = <<>>
    /\ endLt = EndLt0
    /\ state = NewState0
    /\ endStatus = "Active"

CommitAll ==
    /\ phase = "pending" /\ phase' = "done"
    /\ success' = TRUE
    /\ totalFees' >= totalFees
    /\ Balance0.tokens = balance'.tokens + SentTokens(outMsgs') + (totalFees' - totalFees)
    /\ Balance0.other = balance'.other + SentOther(outMsgs')
    /\ endLt' = endLt + Len(outMsgs')
    /\ endStatus' \in {"Active", "NotExists"}
    /\ endStatus' = "NotExists" => balance'.tokens = 0 /\ balance'.other = 0

ChargeFineOnly ==
    /\ phase = "pending" /\ phase' = "done"
    /\ success' = FALSE
    /\ balance'.other = balance.other
    /\ balance'.tokens <= balance.tokens
    /\ totalFees' - totalFees = balance.tokens - balance'.tokens
    /\ UNCHANGED <<outMsgs, endLt, state, endStatus>>

Next == CommitAll \/ ChargeFineOnly

Spec == Init /\ [][Next]_avars
=============================================================================
