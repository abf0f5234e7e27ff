--------------------------- MODULE MCActionPhase ---------------------------
(***************************************************************************)
(* Model of the action phase for TLC: fees of two workchains, a balance of *)
(* ten tokens and one unit of extra currency, and action lists built from  *)
(* a catalogue of action cells that reaches every branch of the handlers.  *)
(***************************************************************************)
EXTENDS ActionPhase

CONSTANTS h1, h2     \* library hashes (model values)

MC_MAX_ACTIONS == 3
MC_MaxMsgCells == 2
MC_MaxLibraryCells == 1
MC_MaxStateCells == 2
MC_GasFees == 1
MC_Balance0 == [tokens |-> 10, other |-> 1]
MC_OriginalBalance == [tokens |-> 8, other |-> 1]
MC_Hashes == {h1, h2}
MC_CodeCells == [c \in {"code0", "code1", "bigCode"} |-> IF c = "bigCode" THEN 3 ELSE 1]
MC_LibCells == [h \in MC_Hashes |-> IF h = h1 THEN 1 ELSE 2]
MC_NewState0 == [code |-> "code0", libs |-> [h \in MC_Hashes |-> NONE]]
MC_InMsgs == {NoMsg, [balanceRemaining |-> [tokens |-> 3, other |-> 0]]}

(* Basechain: 2 + 4 per cell, half of it kept; masterchain: 3 + 8 per      *)
(* cell, a third kept.  The fine is 1 (resp. 2) tokens per cell.           *)
MC_Prices ==
    [mc \in BOOLEAN |->
        IF mc THEN [lump |-> 3, cellPrice |-> 524288, firstFrac |-> 21845]
              ELSE [lump |-> 2, cellPrice |-> 262144, firstFrac |-> 32768]]

AllLayouts == {[init |-> i, body |-> b] : i, b \in BOOLEAN}
IntMsg(tokens, other, cells) ==
    [kind |-> "Int", exotic |-> FALSE, parses |-> TRUE, srcOk |-> TRUE, dstOk |-> TRUE,
     dstMc |-> FALSE, value |-> [tokens |-> tokens, other |-> other], cells |-> cells,
     bitsOver |-> FALSE, initMovable |-> FALSE, plainBody |-> FALSE, fits |-> AllLayouts]
Plain == IntMsg(3, 0, 0)
ExtOut == [IntMsg(0, 0, 0) EXCEPT !.kind = "ExtOut"]
\* a body that only fits once it is moved into its own cell
Wide == [IntMsg(2, 0, 0) EXCEPT !.plainBody = TRUE,
                                 !.fits = {[init |-> FALSE, body |-> TRUE]}]
\* a message that would fit only with both the state init and the body moved
Wider == [IntMsg(1, 0, 0) EXCEPT !.plainBody = TRUE, !.initMovable = TRUE,
                                  !.fits = {[init |-> TRUE, body |-> TRUE]}]

Send(mode, m) == [type |-> "SendMsg", mode |-> mode, msg |-> m]
Reserve(mode, t, o) == [type |-> "ReserveCurrency", mode |-> mode,
                        value |-> [tokens |-> t, other |-> o]]
Lib(mode, h, isCell, cells) == [type |-> "ChangeLibrary", mode |-> mode,
                                lib |-> [hash |-> h, isCell |-> isCell, cells |-> cells]]
Junk(sendMode) == [type |-> "Unparsable", sendMode |-> sendMode]

SendCells ==
    { Send(0, Plain), Send(1, Plain), Send(64, Plain), Send(160, Plain),
      Send(192, Plain), Send(0, IntMsg(1, 1, 0)), Send(2, IntMsg(1, 0, 3)),
      Send(64, IntMsg(0, 0, 3)), Send(0, Wide), Send(16, Wider), Send(16, Plain), Send(2, [Plain EXCEPT !.dstOk = FALSE]),
      Send(0, [Plain EXCEPT !.dstOk = FALSE]),
      Send(0, [Plain EXCEPT !.srcOk = FALSE]), Send(1, [IntMsg(1, 0, 0) EXCEPT !.dstMc = TRUE]),
      Send(0, [Plain EXCEPT !.exotic = TRUE]), Send(0, ExtOut), Send(64, ExtOut) }
SpecialCells ==
    { [type |-> "SetCode", code |-> "code1"], [type |-> "SetCode", code |-> "bigCode"],
      Reserve(0, 4, 0), Reserve(1, 4, 0), Reserve(2, 20, 1), Reserve(12, 2, 0),
      Reserve(8, 1, 0), Reserve(17, 20, 0),
      Lib(1, h1, TRUE, 1), Lib(2, h1, TRUE, 1), Lib(0, h1, TRUE, 1), Lib(18, h2, FALSE, 0),
      Lib(1, h2, TRUE, 2), Lib(3, h1, TRUE, 1) }
JunkCells == { Junk(NONE), Junk(2), Junk(16) }
ActionCells == SendCells \cup SpecialCells \cup JunkCells

(* Lists of up to two actions from the whole catalogue, three-action lists *)
(* of the actions that interact through the balance and the reserve, a     *)
(* list one longer than MAX_ACTIONS, and broken chain ends.                *)
Interacting == { Send(0, Plain), Send(160, Plain), Send(64, Plain),
                 Reserve(0, 4, 0), Reserve(1, 4, 0), Lib(1, h1, TRUE, 1) }
MC_Chains ==
    {[acts |-> s, tail |-> "empty"] : s \in BoundedSeq(ActionCells, 2)}
    \cup {[acts |-> s, tail |-> "empty"] : s \in [1..3 -> Interacting]}
    \cup {[acts |-> [i \in 1..4 |-> Send(0, ExtOut)], tail |-> "empty"]}
    \cup {[acts |-> s, tail |-> t] : s \in BoundedSeq({Send(0, Plain)}, 1),
                                     t \in {"exotic", "noref"}}
=============================================================================
