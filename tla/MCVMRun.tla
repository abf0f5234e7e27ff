------------------------------ MODULE MCVMRun ------------------------------
(* A small program for VMRun: three ordinary continuations (a handler with  *)
(* code, one that needs three arguments, and one that saves itself as c0),  *)
(* cells that fit and that do not, and one opcode of every family; SETCP 1  *)
(* names a codepage codepage() does not know.                              *)
EXTENDS VMRun, TLC

CONSTANTS k1, k2, k3

MC_OrdConts == {k1, k2, k3}
MC_OrdCode == (k1 :> "data") @@ (k2 :> "empty") @@ (k3 :> "empty")
MC_OrdNargs == (k1 :> NONE) @@ (k2 :> 3) @@ (k3 :> NONE)
MC_OrdSaveC0 == (k1 :> NONE) @@ (k2 :> NONE) @@ (k3 :> k3)

Cell(l, d) == [level |-> l, depth |-> d]
MC_CellVals == {Cell(0, 0), Cell(0, 513), Cell(1, 0)}
MC_Data0 == Cell(0, 1)
MC_InitStacks == {<<>>, <<0>>}

\* IntegerOutOfRange is 5; 100 is a user exception number.
MC_Instrs ==
    {[op |-> "next", code |-> c] : c \in {"refs", "empty"}}
    \cup {[op |-> o] : o \in {"push", "ret", "retalt", "commit"}}
    \cup {[op |-> "fail", exc |-> 5], [op |-> "throw", exc |-> 0],
          [op |-> "throw", exc |-> 100], [op |-> "throwarg", exc |-> 100, arg |-> 7]}
    \cup {[op |-> "jmpx", cont |-> k] : k \in {k1, k2}}
    \cup {[op |-> "popc0", cont |-> k] : k \in {k1, k3}}
    \cup {[op |-> "popc2", cont |-> k] : k \in {k1, k2}}
    \cup {[op |-> "setcp", cp |-> n] : n \in {0, 1}}
    \cup {[op |-> "popc4", cell |-> Cell(0, 513)]}
    \cup {[op |-> "popc5", cell |-> c] : c \in {Cell(1, 0), Cell(0, 0)}}
====
