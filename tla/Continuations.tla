---------------------------- MODULE Continuations ----------------------------
(***************************************************************************)
(* The calling convention of the VM state (src/vm/src/state.rs 391-889):   *)
(* call, call_ext, jump, jump_ext, adjust_jump_cont, do_jump_to, the four  *)
(* returns, extract_cc, c1_envelope, c1_save_set and the loops repeat,     *)
(* until, loop_while and again (809-846).  The opcodes that invoke them    *)
(* live outside src/; each action below is one such call with its          *)
(* arguments chosen from small sets, so every order of calls an opcode     *)
(* stream can make is explored.                                            *)
(*                                                                         *)
(* A continuation is a record: kind "ord" (OrdCont), "quit" (QuitCont) or  *)
(* "argext" (ArgContExt wrapping ext); nargs, stack and save (c0, c1) are  *)
(* its ControlData; the loop continuations carry none.  Code is an         *)
(* abstract label.  Stack values are tagged: integers are the step number  *)
(* that pushed them, so every value is distinct and any misplaced value is *)
(* visible, and whether they are non-zero (a loop's flag).  Gas and        *)
(* codepages are VMRun's concern and are left out; c2 is not saved by any  *)
(* call modelled.                                                          *)
(*                                                                         *)
(* Ghost state: every return continuation (call, call_ext) and every       *)
(* continuation extract_cc builds carries the index of a frame record that *)
(* remembers what its creator intended to get back; every REPEAT loop      *)
(* has an id, and vm records its count and the counts its steps ran at.    *)
(***************************************************************************)
EXTENDS Integers, Sequences, SequencesExt

CONSTANTS
    Callees,        \* continuations an opcode may call or jump to
    PassArgs,       \* pass_args / ret_args / stack_copy an opcode may supply
    CCArgs,         \* nargs an opcode may give extract_cc
    LoopBodies,     \* bodies and conditions a loop opcode may take from code
    LoopCounts,     \* iteration counts REPEAT may be given
    MaxSteps,       \* bound on the operations of one behaviour
    MaxDepth,       \* bound on the stack depth reached by Push
    MergeOverrides, \* TRUE: a register saved in a save list replaces the
                    \* current one on entry; FALSE: it only fills an empty one
    NONE

VARIABLES vm, frames, lastEntry, steps
vars == <<vm, frames, lastEntry, steps>>

IntV(n, nz) == [t |-> "int", n |-> n, nz |-> nz]
NoSave == [c0 |-> NONE, c1 |-> NONE]
Cont(kind, code, exit, nargs, stk, save, ext, frame) ==
    [t |-> "cont", kind |-> kind, code |-> code, exit |-> exit, nargs |-> nargs,
     stack |-> stk, save |-> save, ext |-> ext, frame |-> frame]
Quit(n) == Cont("quit", NONE, n, NONE, NONE, NoSave, NONE, NONE)
Ord(code, nargs, stk, save, frame) == Cont("ord", code, NONE, nargs, stk, save, NONE, frame)
ArgExt(save, ext) == Cont("argext", NONE, NONE, NONE, NONE, save, ext, NONE)

\* get_control_data(): QuitCont and the loop continuations have none.
HasData(k) == k.kind \in {"ord", "argext"}
HasC0(k) == HasData(k) /\ k.save.c0 # NONE
NeedsAdjust(k) == HasData(k) /\ (k.stack # NONE \/ k.nargs # NONE)
OrZero(x) == IF x = NONE THEN 0 ELSE x

\* Stack (outside src/, spec 1.2): split-from-top operations.
TopN(s, n) == SubSeq(s, Len(s) - n + 1, Len(s))
DropTop(s, n) == SubSeq(s, 1, Len(s) - n)

Fail(m, e) == [m EXCEPT !.err = e]

\* ControlRegs (outside src/, spec 4.2): preclear zeros every register the
\* save list defines; merge installs the saved registers.
Define(cur, v) == IF cur = NONE THEN v ELSE cur
Preclear(m, s) ==
    [m EXCEPT !.c0 = IF s.c0 # NONE THEN NONE ELSE @,
              !.c1 = IF s.c1 # NONE THEN NONE ELSE @]
Slot(cur, saved) == IF saved # NONE /\ (MergeOverrides \/ cur = NONE) THEN saved ELSE cur
Merge(m, s) == [m EXCEPT !.c0 = Slot(@, s.c0), !.c1 = Slot(@, s.c1)]

\* The checks adjust_jump_cont and call_ext share: nargs <= pass_args <= depth.
ArgsUnderflow(m, k, p) ==
    \/ OrZero(p) > Len(m.stack)
    \/ OrZero(k.nargs) > Len(m.stack)
    \/ p # NONE /\ OrZero(k.nargs) > p

AdjustJumpCont(m, k, p) ==
    IF HasData(k)
    THEN IF ArgsUnderflow(m, k, p) THEN Fail(m, "StackUnderflow")
         ELSE LET next == IF k.nargs # NONE THEN k.nargs
                          ELSE IF p # NONE THEN p ELSE Len(m.stack)
                  pre == Preclear(m, k.save)
              IN IF k.stack # NONE /\ k.stack # <<>>
                 THEN [pre EXCEPT !.stack = k.stack \o TopN(m.stack, next)]
                 ELSE [pre EXCEPT !.stack = TopN(m.stack, next)]
    ELSE IF p = NONE THEN m
    ELSE IF p > Len(m.stack) THEN Fail(m, "StackUnderflow")
    ELSE [m EXCEPT !.stack = TopN(@, p)]

\* The loop continuations (outside src/, spec 4.2: "each loop variant's
\* jump method returns the next body/after continuation according to its
\* state").  RepeatCont counts down, UntilCont and WhileCont pop a flag,
\* AgainCont never ends.  A body that saves its own c0 is handed over
\* without the loop reinstalling itself in c0.  id is ghost state: the
\* repeat() call that made the loop.
LoopKinds == {"repeat", "until", "while", "again"}
LoopCont(kind, cond, body, after, count, check, id) ==
    [t |-> "cont", kind |-> kind, cond |-> cond, body |-> body, after |-> after,
     count |-> count, check |-> check, id |-> id]
RepeatCont(n, body, after, id) == LoopCont("repeat", NONE, body, after, n, NONE, id)
UntilCont(body, after) == LoopCont("until", NONE, body, after, NONE, NONE, NONE)
WhileCont(check, cond, body, after) == LoopCont("while", cond, body, after, NONE, check, NONE)
AgainCont(body) == LoopCont("again", NONE, body, NONE, NONE, NONE, NONE)

\* c0 := self unless the continuation about to run saved its own c0.
Resume(m, k, self) == IF HasC0(k) THEN m ELSE [m EXCEPT !.c0 = self]

\* pop_bool: the top value must be an integer; it is true when non-zero.
PopBool(m) ==
    CASE m.stack = <<>> -> [m |-> Fail(m, "StackUnderflow"), b |-> FALSE]
      [] Last(m.stack).t # "int" -> [m |-> Fail(m, "TypeCheck"), b |-> FALSE]
      [] OTHER -> [m |-> [m EXCEPT !.stack = Front(@)], b |-> Last(m.stack).nz]

\* One loop jump: the machine after it and the continuation it returns.
\* A repeat step records <<id, count>> in the ghost set vm.yields.
LoopStep(m, k) ==
    LET f == PopBool(m)
        step(mm, next) == [m |-> mm, next |-> next]
    IN CASE k.kind = "repeat" ->
              LET mr == [m EXCEPT !.yields = @ \cup {<<k.id, k.count>>}]
              IN IF k.count = 0 THEN step(mr, k.after)
                 ELSE step(Resume(mr, k.body, RepeatCont(k.count - 1, k.body, k.after, k.id)), k.body)
         [] k.kind = "again" -> step(Resume(m, k.body, k), k.body)
         [] k.kind = "until" /\ f.m.err # NONE -> step(f.m, NONE)
         [] k.kind = "until" ->
              IF f.b THEN step(f.m, k.after) ELSE step(Resume(f.m, k.body, k), k.body)
         [] k.kind = "while" /\ ~k.check ->
              step(Resume(m, k.cond, WhileCont(TRUE, k.cond, k.body, k.after)), k.cond)
         [] k.kind = "while" /\ f.m.err # NONE -> step(f.m, NONE)
         [] k.kind = "while" ->
              IF ~f.b THEN step(f.m, k.after)
              ELSE step(Resume(f.m, k.body, WhileCont(FALSE, k.cond, k.body, k.after)), k.body)

\* The do_jump_to trampoline (state.rs 766-787): QuitCont ends the run with
\* its exit code, OrdCont installs its code and save list; ArgContExt
\* merges its save list and a loop continuation takes its step, and either
\* returns a next continuation, which is adjusted first when it has a
\* saved stack or nargs.
RECURSIVE DoJumpTo(_, _)
Hop(m, next) ==
    LET m1 == [m EXCEPT !.hopPre = m.stack]
        m2 == IF NeedsAdjust(next) THEN AdjustJumpCont(m1, next, NONE) ELSE m1
    IN IF m2.err # NONE THEN m2 ELSE DoJumpTo(m2, next)
DoJumpTo(m, k) ==
    CASE k.kind = "quit" -> [m EXCEPT !.exit = k.exit]
      [] k.kind = "ord" -> [Merge(m, k.save) EXCEPT !.code = k.code, !.entered = k]
      [] k.kind = "argext" -> Hop(Merge(m, k.save), k.ext)
      [] k.kind \in LoopKinds ->
            LET s == LoopStep(m, k)
            IN IF s.m.err # NONE THEN s.m ELSE Hop(s.m, s.next)

JumpExt(m, k, p) ==
    LET m1 == AdjustJumpCont(m, k, p)
    IN IF m1.err # NONE THEN m1 ELSE DoJumpTo(m1, k)

Jump(m, k) == IF NeedsAdjust(k) THEN JumpExt(m, k, NONE) ELSE DoJumpTo(m, k)

\* call_ext: the callee gets the top pass_args values (nargs of them when it
\* has nargs), or its own stack extended by them; the return continuation
\* keeps the rest of the caller's stack, ret_args and the caller's c0.
CallExt(m, k, p, r, f) ==
    IF HasData(k) /\ k.save.c0 # NONE THEN JumpExt(m, k, p)
    ELSE IF HasData(k) /\ ArgsUnderflow(m, k, p) THEN Fail(m, "StackUnderflow")
    ELSE IF ~HasData(k) /\ OrZero(p) > Len(m.stack) THEN Fail(m, "StackUnderflow")
    ELSE LET copy == IF p = NONE THEN NONE
                     ELSE IF HasData(k) /\ k.nargs # NONE THEN k.nargs ELSE p
             skip == IF copy = NONE THEN 0 ELSE p - copy
             moved == IF copy = NONE THEN m.stack ELSE TopN(m.stack, copy)
             own == HasData(k) /\ k.stack # NONE /\ k.stack # <<>>
             kept == IF copy = NONE THEN <<>> ELSE DropTop(m.stack, copy + skip)
             ret == Ord(m.code, r, kept, [NoSave EXCEPT !.c0 = m.c0], f)
             m1 == IF HasData(k) THEN Preclear([m EXCEPT !.c0 = NONE], k.save) ELSE m
         IN DoJumpTo([m1 EXCEPT !.stack = IF own THEN k.stack \o moved ELSE moved,
                                !.c0 = ret, !.code = NONE], k)

\* Mutant: the return continuation of call() does not save c0.
CallForgettingC0(m, k, f) ==
    IF HasData(k) /\ k.save.c0 # NONE THEN Jump(m, k)
    ELSE IF NeedsAdjust(k) THEN CallExt(m, k, NONE, NONE, f)
    ELSE DoJumpTo([m EXCEPT !.c0 = Ord(m.code, NONE, NONE, NoSave, f), !.code = NONE], k)

\* call: a callee with a saved c0 is jumped to, one with a stack or nargs
\* goes through call_ext; otherwise a simple return continuation saves c0.
Call(m, k, f) ==
    IF HasData(k) /\ k.save.c0 # NONE THEN Jump(m, k)
    ELSE IF NeedsAdjust(k) THEN CallExt(m, k, NONE, NONE, f)
    ELSE DoJumpTo([m EXCEPT !.c0 = Ord(m.code, NONE, NONE, [NoSave EXCEPT !.c0 = m.c0], f),
                            !.code = NONE], k)

\* take_c0 / take_c1: the register is handed out and replaced by quit0 /
\* quit1; an empty register is InvalidOpcode.
TakeC0(m) == IF m.c0 = NONE THEN Fail(m, "InvalidOpcode") ELSE [m EXCEPT !.c0 = Quit(0)]
\* Mutant: take_c1 leaves c1 empty (mem::take) instead of quit1.
TakeC1LeavingNone(m) == IF m.c1 = NONE THEN Fail(m, "InvalidOpcode") ELSE [m EXCEPT !.c1 = NONE]
TakeC1(m) == IF m.c1 = NONE THEN Fail(m, "InvalidOpcode") ELSE [m EXCEPT !.c1 = Quit(1)]

\* ret / ret_ext (r is ret_args) and ret_alt / ret_alt_ext.
RetTo(m, taken, k, r) ==
    IF taken.err # NONE THEN taken
    ELSE IF r = NONE THEN Jump(taken, k) ELSE JumpExt(taken, k, r)
Ret(m, r) == RetTo(m, TakeC0(m), m.c0, r)
RetAlt(m, r) == RetTo(m, TakeC1(m), m.c1, r)

\* extract_cc with SaveCr::C0_C1: the new current stack is the top
\* stack_copy values (all of them when None or equal to the depth, none
\* when 0); the continuation keeps the rest, c0 and c1.
ExtractCC(m, n, nargs, f) ==
    LET whole == n = NONE \/ n = Len(m.stack)
        newStack == IF n = 0 THEN <<>> ELSE IF whole THEN m.stack ELSE TopN(m.stack, n)
        ccStack == IF n = 0 THEN m.stack ELSE IF whole THEN <<>> ELSE DropTop(m.stack, n)
    IN IF n # NONE /\ n > Len(m.stack) THEN [m |-> Fail(m, "StackUnderflow"), cc |-> NONE]
       ELSE [m |-> [m EXCEPT !.stack = newStack, !.code = NONE, !.c0 = Quit(0), !.c1 = Quit(1)],
             cc |-> Ord(m.code, nargs, ccStack, [c0 |-> m.c0, c1 |-> m.c1], f)]

\* c1_envelope(cont, save): with save, c0 and c1 are defined in the
\* continuation's save list (in an ArgContExt around it when it has none);
\* then c1 := cont.
C1Envelope(m, k, save) ==
    LET s == [c0 |-> Define(k.save.c0, m.c0), c1 |-> Define(k.save.c1, m.c1)]
        env == IF ~save THEN k
               ELSE IF HasData(k) THEN [k EXCEPT !.save = s]
               ELSE ArgExt([c0 |-> m.c0, c1 |-> m.c1], k)
    IN [m EXCEPT !.c1 = env]

\* c1_save_set: c1 is defined in c0's save list, then c1 := c0.
C1SaveSet(m) ==
    LET k == m.c0
        c0 == IF k = NONE THEN NONE
              ELSE IF HasData(k) THEN [k EXCEPT !.save.c1 = Define(@, m.c1)]
              ELSE ArgExt([NoSave EXCEPT !.c1 = m.c1], k)
    IN [m EXCEPT !.c0 = c0, !.c1 = c0]

\* repeat, until, loop_while and again (state.rs 809-846): jump to a new
\* loop continuation, or install it in c0 and jump to the body (until) or
\* condition (loop_while) unless that saved its own c0.  repeat with n = 0
\* jumps straight to after.
\* Mutant: repeat() gives the RepeatCont one iteration less than n.
RepeatOffByOne(m, body, after, n, id) ==
    Jump(m, IF n = 0 THEN after ELSE RepeatCont(n - 1, body, after, id))
Repeat(m, body, after, n, id) ==
    Jump(m, IF n = 0 THEN after ELSE RepeatCont(n, body, after, id))
Until(m, body, after) == Jump(Resume(m, body, UntilCont(body, after)), body)
LoopWhile(m, cond, body, after) ==
    Jump(Resume(m, cond, WhileCont(TRUE, cond, body, after)), cond)
Again(m, body) == Jump(m, AgainCont(body))

-----------------------------------------------------------------------------
(* The machine: the registers and stack state.rs keeps, the exit or error  *)
(* that ends the run, and the frame table of the ghost state.              *)

Running == vm.exit = NONE /\ vm.err = NONE

Init ==
    /\ vm = [code |-> "main", stack |-> <<>>, c0 |-> Quit(0), c1 |-> Quit(1),
             exit |-> NONE, err |-> NONE, entered |-> NONE,
             hopPre |-> NONE, repeats |-> <<>>, yields |-> {}]
    /\ frames = <<>>
    /\ lastEntry = NONE
    /\ steps = 0

\* What a return continuation or an extract_cc result promises its creator:
\* the stack it keeps, the values it accepts, and the registers it saved.
Frame(below, nargs, c0, c1) == [below |-> below, nargs |-> nargs, c0 |-> c0, c1 |-> c1]
Below(s, p) == IF p = NONE THEN <<>> ELSE DropTop(s, p)

\* One call of state.rs from an opcode: m1 is the machine after it, pre the
\* stack the jump started from, p its pass_args, fr the frame it created.
\* A continuation reached through the trampoline starts from the stack of
\* the last hop (after a loop has popped its flag), with no pass_args.
Apply(m1, pre, p, fr) ==
    /\ vm' = [m1 EXCEPT !.entered = NONE, !.hopPre = NONE]
    /\ lastEntry' = IF m1.err = NONE /\ m1.entered # NONE
                    THEN IF m1.hopPre = NONE
                         THEN [cont |-> m1.entered, pre |-> pre, pass |-> p]
                         ELSE [cont |-> m1.entered, pre |-> m1.hopPre, pass |-> NONE]
                    ELSE NONE
    /\ frames' = IF fr = NONE THEN frames ELSE Append(frames, fr)
    /\ steps' = steps + 1

OpGuard == Running /\ steps < MaxSteps

\* The continuations an opcode may use: one from code, or the one on top of
\* the stack, which the opcode pops first.
Targets ==
    {[k |-> k, m |-> vm] : k \in Callees} \cup
    (IF vm.stack # <<>> /\ Last(vm.stack).t = "cont"
     THEN {[k |-> Last(vm.stack), m |-> [vm EXCEPT !.stack = Front(@)]]} ELSE {})

Push ==
    /\ OpGuard /\ Len(vm.stack) < MaxDepth
    /\ \E nz \in BOOLEAN :
         Apply([vm EXCEPT !.stack = Append(@, IntV(steps, nz))], vm.stack, NONE, NONE)

DoCall ==
    /\ OpGuard
    /\ \E t \in Targets :
         Apply(Call(t.m, t.k, Len(frames) + 1), t.m.stack, NONE,
               Frame(<<>>, NONE, t.m.c0, NONE))

DoCallExt ==
    /\ OpGuard
    /\ \E t \in Targets, p, r \in PassArgs :
         Apply(CallExt(t.m, t.k, p, r, Len(frames) + 1), t.m.stack, p,
               Frame(Below(t.m.stack, p), r, t.m.c0, NONE))

DoJump ==
    /\ OpGuard
    /\ \E t \in Targets, p \in PassArgs :
         Apply(IF p = NONE THEN Jump(t.m, t.k) ELSE JumpExt(t.m, t.k, p),
               t.m.stack, p, NONE)

DoRet ==
    /\ OpGuard
    /\ \E r \in PassArgs : Apply(Ret(vm, r), vm.stack, r, NONE)

DoRetAlt ==
    /\ OpGuard
    /\ \E r \in PassArgs : Apply(RetAlt(vm, r), vm.stack, r, NONE)

\* CALLCC-style use of extract_cc: the continuation is pushed on the new
\* stack and the target is jumped to.
DoCallCC ==
    /\ OpGuard
    /\ \E t \in Targets, n \in PassArgs, a \in CCArgs :
         LET x == ExtractCC(t.m, n, a, Len(frames) + 1)
         IN IF x.m.err # NONE THEN Apply(x.m, t.m.stack, NONE, NONE)
            ELSE Apply(Jump([x.m EXCEPT !.stack = Append(@, x.cc)], t.k),
                       Append(x.m.stack, x.cc), NONE,
                       Frame(IF n = 0 THEN t.m.stack ELSE Below(t.m.stack, n), a, t.m.c0, t.m.c1))

DoC1Envelope ==
    /\ OpGuard
    /\ \E k \in Callees, save \in BOOLEAN : Apply(C1Envelope(vm, k, save), vm.stack, NONE, NONE)

DoC1SaveSet ==
    /\ OpGuard
    /\ Apply(C1SaveSet(vm), vm.stack, NONE, NONE)

\* The loop opcodes: the body (and condition) come from code, after is
\* from code or the top of the stack.  DoRepeat registers the loop's count
\* in the ghost sequence vm.repeats.
DoRepeat ==
    /\ OpGuard
    /\ \E body \in LoopBodies, t \in Targets, n \in LoopCounts :
         LET m == [t.m EXCEPT !.repeats = Append(@, n)]
         IN Apply(Repeat(m, body, t.k, n, Len(m.repeats)), t.m.stack, NONE, NONE)

DoUntil ==
    /\ OpGuard
    /\ \E body \in LoopBodies, t \in Targets :
         Apply(Until(t.m, body, t.k), t.m.stack, NONE, NONE)

DoWhile ==
    /\ OpGuard
    /\ \E cond, body \in LoopBodies, t \in Targets :
         Apply(LoopWhile(t.m, cond, body, t.k), t.m.stack, NONE, NONE)

DoAgain ==
    /\ OpGuard
    /\ \E t \in Targets : Apply(Again(t.m, t.k), t.m.stack, NONE, NONE)

\* The run has ended (exit or error) or used its step budget.
Halted ==
    /\ ~OpGuard
    /\ UNCHANGED vars

Next ==
    \/ Push \/ DoCall \/ DoCallExt \/ DoJump \/ DoRet \/ DoRetAlt
    \/ DoCallCC \/ DoC1Envelope \/ DoC1SaveSet
    \/ DoRepeat \/ DoUntil \/ DoWhile \/ DoAgain \/ Halted

Spec == Init /\ [][Next]_vars

-----------------------------------------------------------------------------
(* Properties.                                                             *)

Regs == {NONE} \cup {c \in {vm.c0, vm.c1} : c # NONE}
TypeOK ==
    /\ steps \in 0..MaxSteps
    /\ vm.exit \in {NONE, 0, 1}
    /\ vm.err \in {NONE, "StackUnderflow", "InvalidOpcode", "TypeCheck"}
    /\ \A i \in 1..Len(vm.stack) : vm.stack[i].t \in {"int", "cont"}
    /\ \A c \in Regs \ {NONE} : c.t = "cont" /\ c.kind \in {"ord", "quit", "argext"} \cup LoopKinds
    /\ \A i \in 1..Len(frames) : frames[i].nargs \in PassArgs \cup CCArgs
    /\ lastEntry # NONE => lastEntry.cont.kind = "ord"
    /\ Running => vm.c0 # NONE /\ vm.c1 # NONE

\* Entering a return continuation made by call/call_ext (state.rs 543-547,
\* 637-648), or a continuation made by extract_cc (state.rs 472-485), gives
\* the creator back exactly what it kept: the stack below the values it
\* handed over, topped by the values returned (ret_args of them when set,
\* else pass_args, else all), and the c0 (and, for extract_cc, c1) it had.
\* Holds across any nesting of calls, c1_save_set and c1_envelope between,
\* and when the continuation is the after of a loop that ran in between.
ReturnRestoresCaller ==
    (lastEntry # NONE /\ lastEntry.cont.frame # NONE) =>
        LET f == frames[lastEntry.cont.frame]
            e == lastEntry
            n == IF f.nargs # NONE THEN f.nargs
                 ELSE IF e.pass # NONE THEN e.pass ELSE Len(e.pre)
        IN /\ vm.stack = f.below \o TopN(e.pre, n)
           /\ vm.c0 = f.c0
           /\ f.c1 # NONE => vm.c1 = f.c1

\* A continuation that expects nargs arguments is entered with its own
\* saved stack and exactly nargs values on top of it ("n' (or n) of args are
\* passed to the continuation", state.rs 695-697; call() treats nargs as
\* "expects a fixed number of arguments", state.rs 535-536).
CalleeGetsNargs ==
    (lastEntry # NONE /\ lastEntry.cont.nargs # NONE) =>
        Len(vm.stack) = lastEntry.cont.nargs +
            (IF lastEntry.cont.stack = NONE THEN 0 ELSE Len(lastEntry.cont.stack))

\* A REPEAT loop hands control to its after only once its body has been run
\* for every count from n down to 1: repeat() (state.rs 809-820) turns n
\* into the RepeatCont's count, and each body run must reinstall the loop
\* with one less in c0, across whatever calls, returns and envelopes the
\* body makes.
RepeatRunsBodyForEveryCount ==
    \A y \in vm.yields :
        y[2] = 0 => \A c \in 1..vm.repeats[y[1]] : <<y[1], c>> \in vm.yields
=============================================================================
