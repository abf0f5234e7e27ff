--------------------------- MODULE MCContinuations ---------------------------
EXTENDS Continuations

\* f: a plain code continuation (ref_to_cont); g: one that expects a single
\* argument; h: one with a saved stack; j: one with a saved c0, which call
\* turns into a jump; quit1 stands for a continuation without control data.
F == Ord("f", NONE, NONE, NoSave, NONE)
G == Ord("g", 1, NONE, NoSave, NONE)
H == Ord("h", NONE, <<IntV(100, TRUE)>>, NoSave, NONE)
J == Ord("j", NONE, NONE, [NoSave EXCEPT !.c0 = Quit(1)], NONE)
MC_Callees == {F, G, H, J, Quit(1)}
MC_PassArgs == {NONE, 1}
MC_CCArgs == {NONE}
MC_CCArgsAll == {NONE, 1}
\* Loop bodies: one expecting an argument (the trampoline adjusts the stack
\* each time the loop hands it over) and one with its own c0.
MC_LoopBodies == {G, J}
MC_LoopCounts == {0, 1, 2}
=============================================================================
