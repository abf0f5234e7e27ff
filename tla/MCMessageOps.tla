--------------------------- MODULE MCMessageOps ---------------------------
(***************************************************************************)
(* Model of the message and action opcodes for TLC: versions 3 and 4, a    *)
(* stack of at most three values from a small catalogue of modes, amounts, *)
(* NULL, a code cell, a dictionary and messages chosen to reach every      *)
(* branch of SENDMSG's layout estimate and of the action phase's rewrites. *)
(***************************************************************************)
EXTENDS MessageOps

MC_Versions == {3, 4}
MC_MaxStack == 3
MC_MaxC5 == 2
MC_FeeMaxStack == 2
MC_TokensMax == 100

(* One token per bit and ten per cell (prices are in 2^-16 units); the     *)
(* masterchain charges twice as much.                                      *)
MC_Prices ==
    [bc |-> [lump |-> 1, bitPrice |-> 65536, cellPrice |-> 655360,
             firstFrac |-> 21845, ihrFactor |-> 98304],
     mc |-> [lump |-> 2, bitPrice |-> 131072, cellPrice |-> 1310720,
             firstFrac |-> 21845, ihrFactor |-> 98304]]

Msg(info, init, initInline, body, bodyInline) ==
    [kind |-> "Int", parses |-> TRUE, dstMc |-> FALSE, hasOther |-> FALSE,
     userFwdFee |-> 0, userIhrFee |-> 0, ihrDisabled |-> TRUE,
     infoBits |-> info, init |-> init, initInline |-> initInline,
     body |-> body, bodyInline |-> bodyInline, stats |-> [bits |-> 0, cells |-> 0]]

\* fits as it is stored
Small == Msg(300, NONE, FALSE, [bits |-> 100, refs |-> 0], TRUE)
\* the estimate moves the state init, the action phase the body
Diverging == Msg(600, [bits |-> 300, refs |-> 1], TRUE, [bits |-> 400, refs |-> 0], TRUE)
\* both move the state init (it has two references)
InitHeavy == [Msg(600, [bits |-> 300, refs |-> 2], TRUE, [bits |-> 400, refs |-> 0], TRUE)
              EXCEPT !.ihrDisabled = FALSE, !.dstMc = TRUE]
\* both move the body; the user's forwarding fee exceeds the computed one
BodyHeavy == [Msg(400, NONE, FALSE, [bits |-> 700, refs |-> 1], TRUE)
              EXCEPT !.userFwdFee = 2000, !.hasOther = TRUE,
                     !.stats = [bits |-> 10, cells |-> 1]]
\* an external message with its body already in a cell
External == [Msg(200, NONE, FALSE, [bits |-> 50, refs |-> 0], FALSE) EXCEPT !.kind = "ExtOut"]
\* a cell that is not a message
Garbled == [Small EXCEPT !.parses = FALSE]

MsgCell(m) == [t |-> "cell", cell |-> "msg", msg |-> m]

(* The opcodes' arguments: modes and amounts for the mode checks of both  *)
(* versions, NULL, a code cell and one message that fits as it is.         *)
MC_StackVals ==
    {IntV(n) : n \in {0, 3, 18, -1}}
    \cup {NULL, [t |-> "cell", cell |-> "code"], MsgCell(External)}

(* The arguments of the fee runs: the send and dry-run modes and the       *)
(* messages whose layouts the estimate and the action phase choose.        *)
MC_FeeStackVals ==
    {IntV(0), IntV(1024)}
    \cup {MsgCell(m) : m \in {Small, Diverging, InitHeavy, BodyHeavy, Garbled}}
====
