------------------------------- MODULE VMRun -------------------------------
(***************************************************************************)
(* The run loop of the virtual machine: VmState::build, step, run,         *)
(* throw_exception, throw_out_of_gas, try_commit, jump, jump_ext,          *)
(* adjust_jump_cont, do_jump_to, ret and ret_alt of src/vm/src/state.rs.   *)
(*                                                                         *)
(* The program is abstract: the current code slice is only its shape      *)
(* ("data", "refs" or "empty"), and an instruction is a record from the    *)
(* constant set Instrs that says what the dispatched opcode does to the    *)
(* registers, the stack and the result.  Continuations are the three      *)
(* sentinels Quit0, Quit1, ExcQuit and the ordinary continuations OrdConts, *)
(* each with its code shape, optional nargs and optional saved c0.        *)
(* A cell is a record [level, depth].                                      *)
(***************************************************************************)
EXTENDS Integers, Sequences

CONSTANTS
    GasLimit,           \* gas available to the run (GasConsumer remaining at start)
    InstrGas,           \* basic gas charged by the codepage before an opcode runs
    ImplicitJmprefGas,  \* try_consume_implicit_jmpref_gas
    CellLoadGas,        \* what load_cell_as_slice charges for the next code cell
    ImplicitRetGas,     \* try_consume_implicit_ret_gas
    ExceptionGas,       \* try_consume_exception_gas
    MaxStack,           \* bound on the stack depth (an opcode that would exceed it overflows)
    Quit0, Quit1, ExcQuit,   \* the thread-local sentinel continuations
    OrdConts,           \* ordinary continuations the program can build
    OrdCode,            \* OrdConts -> CodeKinds: shape of the continuation's code
    OrdNargs,           \* OrdConts -> {NONE} \cup Nat: nargs of its control data
    OrdSaveC0,          \* OrdConts -> {NONE} \cup Conts: c0 in its save list
    CellVals,           \* cells a program can put in c4/c5: [level, depth]
    Data0,              \* the account's persistent data (d[0] at build)
    InitStacks,         \* stacks the executor can hand to the VM
    Instrs,             \* opcodes the program may dispatch
    Codepages,          \* codepage numbers codepage() knows (0)
    NONE

CodeKinds == {"data", "refs", "empty"}
Conts == {Quit0, Quit1, ExcQuit} \cup OrdConts

\* Exception numbers of VmException used by the loop itself.
StackUnderflow == 2
StackOverflow  == 3
InvalidOpcode  == 6
CellOverflow   == 8
OutOfGas       == 13
Fatal          == 14

MAX_DATA_DEPTH == 512

\* Bitwise not of an i32 (!x in Rust, ~x in the TVM convention).
Not(x) == -x - 1

\* VmException::as_exit_code: the TVM exit code of an exception, ~n,
\* the same convention QuitCont and ExcQuitCont use.
AsExitCode(e) == Not(e)

(***************************************************************************)
(* Results.  A computation returns the machine m and r = Ok(val),          *)
(* Err(exception) or out-of-gas, like VmResult<i32>.  Bind runs F on the   *)
(* machine only if the computation so far succeeded (Rust's `?`).          *)
(***************************************************************************)
Ok(m, v)   == [m |-> m, r |-> [tag |-> "ok", val |-> v]]
Err(m, e)  == [m |-> m, r |-> [tag |-> "err", val |-> e]]
\* An out-of-gas result also sets the ghost flag `starved`.
Oog(m)     == [m |-> [m EXCEPT !.starved = TRUE], r |-> [tag |-> "oog", val |-> 0]]
Bind(o, F(_)) == IF o.r.tag = "ok" THEN F(o.m) ELSE o

\* Mutant: charge first and check afterwards, leaving a negative remainder.
TryConsumeThenCheck(m, n) ==
    LET mm == [m EXCEPT !.gas = @ - n] IN IF mm.gas < 0 THEN Oog(mm) ELSE Ok(mm, 0)

\* GasConsumer::try_consume: fails with out-of-gas when n > remaining.
TryConsume(m, n) ==
    IF n > m.gas THEN Oog(m) ELSE Ok([m EXCEPT !.gas = @ - n], 0)

\* try_commit: snapshot (c4, c5) when both are level 0 and depth <= 512.
Fits(c) == c.level = 0 /\ c.depth <= MAX_DATA_DEPTH
TryCommit(m) ==
    IF Fits(m.d0) /\ Fits(m.d1)
    THEN [ok |-> TRUE, m |-> [m EXCEPT !.committed = [c4 |-> m.d0, c5 |-> m.d1]]]
    ELSE [ok |-> FALSE, m |-> m]

(***************************************************************************)
(* do_jump_to with the jump of each continuation kind.  QuitCont sets the  *)
(* exit code to ~exit_code; ExcQuitCont pops n and exits with ~n; OrdCont  *)
(* installs its code and merges its save list into the registers.  None of *)
(* them returns a next continuation, so the nested-jump gas is never       *)
(* charged here.                                                           *)
(***************************************************************************)
DoJumpTo(m, k) ==
    CASE k = Quit0 -> Ok(m, Not(0))
      [] k = Quit1 -> Ok(m, Not(1))
      [] k = ExcQuit ->
            IF m.stack = <<>> THEN Err(m, StackUnderflow)
            ELSE Ok([m EXCEPT !.stack = SubSeq(@, 1, Len(@) - 1)], Not(m.stack[Len(m.stack)]))
      [] OTHER ->
            Ok([m EXCEPT !.code = OrdCode[k],
                         !.c0 = IF OrdSaveC0[k] = NONE THEN @ ELSE OrdSaveC0[k]], 0)

\* adjust_jump_cont with pass_args = None (the only form jump uses) for a
\* continuation without a saved stack: nargs must not exceed the depth, and
\* the bottom is dropped so that only the top nargs values remain.  The
\* stack-depth gas is free below the depth the model reaches.
AdjustJumpCont(m, k) ==
    LET n == OrdNargs[k] IN
    IF n > Len(m.stack) THEN Err(m, StackUnderflow)
    ELSE Ok([m EXCEPT !.stack = SubSeq(@, Len(@) - n + 1, Len(@))], 0)

JumpExt(m, k) == Bind(AdjustJumpCont(m, k), LAMBDA mm : DoJumpTo(mm, k))

Jump(m, k) ==
    IF k \in OrdConts /\ OrdNargs[k] # NONE THEN JumpExt(m, k) ELSE DoJumpTo(m, k)

\* ret / ret_alt: take_c0 (take_c1) leaves quit0 (quit1) in the register.
Ret(m)    == Jump([m EXCEPT !.c0 = Quit0], m.c0)
RetAlt(m) == Jump([m EXCEPT !.c1 = Quit1], m.c1)

\* throw_exception(n): stack [0, n], code cleared, exception gas, jump to c2.
ThrowException(m, n) ==
    Bind(TryConsume([m EXCEPT !.stack = <<0, n>>, !.code = "empty"], ExceptionGas),
         LAMBDA mm : Jump(mm, mm.c2))

\* throw_exception_with_arg(n, arg): the same with stack [arg, n].
ThrowExceptionWithArg(m, n, arg) ==
    Bind(TryConsume([m EXCEPT !.stack = <<arg, n>>, !.code = "empty"], ExceptionGas),
         LAMBDA mm : Jump(mm, mm.c2))

\* throw_out_of_gas: the stack holds only the consumed gas.
ThrowOutOfGas(m) == [m EXCEPT !.stack = <<GasLimit - m.gas>>]

\* set_c0: c0 := cont (POP c0).
SetC0(m, k) == [m EXCEPT !.c0 = k]

\* force_cp: an unknown codepage is InvalidOpcode, the current one stays.
ForceCp(m, n) == IF n \notin Codepages THEN Err(m, InvalidOpcode) ELSE Ok([m EXCEPT !.cp = n], 0)

(***************************************************************************)
(* One opcode, after the codepage charged its basic gas.  The opcodes are  *)
(* outside the modelled files; each kind stands for a family:              *)
(*   next    - an opcode that consumes code (the new shape is ins.code)    *)
(*   push    - an opcode that pushes a value (StackOverflow at MaxStack)   *)
(*   fail    - an opcode that fails with the VM error ins.exc              *)
(*   throw   - THROW n: returns throw_exception(n) as its own result       *)
(*   throwarg - THROWARG n: throw_exception_with_arg(n, ins.arg)           *)
(*   ret, retalt, jmpx - RET, RETALT, JMPX to ins.cont                     *)
(*   popc0, popc2 - POP c0 / POP c2 with ins.cont                          *)
(*   popc4, popc5 - POP c4 / POP c5 with ins.cell                          *)
(*   setcp   - SETCP ins.cp: force_cp                                      *)
(*   commit  - COMMIT: force_commit, which fails with CellOverflow         *)
(***************************************************************************)
Exec(m, ins) ==
    CASE ins.op = "next"   -> Ok([m EXCEPT !.code = ins.code], 0)
      [] ins.op = "push"   -> IF Len(m.stack) >= MaxStack THEN Err(m, StackOverflow)
                              ELSE Ok([m EXCEPT !.stack = Append(@, 0)], 0)
      [] ins.op = "fail"   -> Err(m, ins.exc)
      [] ins.op = "throw"  -> ThrowException(m, ins.exc)
      [] ins.op = "throwarg" -> ThrowExceptionWithArg(m, ins.exc, ins.arg)
      [] ins.op = "ret"    -> Ret(m)
      [] ins.op = "retalt" -> RetAlt(m)
      [] ins.op = "jmpx"   -> Jump(m, ins.cont)
      [] ins.op = "popc0"  -> Ok(SetC0(m, ins.cont), 0)
      [] ins.op = "popc2"  -> Ok([m EXCEPT !.c2 = ins.cont], 0)
      [] ins.op = "popc4"  -> Ok([m EXCEPT !.d0 = ins.cell], 0)
      [] ins.op = "popc5"  -> Ok([m EXCEPT !.d1 = ins.cell], 0)
      [] ins.op = "setcp"  -> ForceCp(m, ins.cp)
      [] ins.op = "commit" -> LET t == TryCommit(m) IN
                              IF t.ok THEN Ok(t.m, 0) ELSE Err(t.m, CellOverflow)

\* self.cp.dispatch(self)
Dispatch(m, ins) == Bind(TryConsume(m, InstrGas), LAMBDA mm : Exec(mm, ins))

\* Implicit JMPREF: gas, load the first reference as a slice (its shape is
\* `next`; the load is charged too), and jump to a simple ordinary
\* continuation, which only installs the code.
ImplicitJmpref(m, next) ==
    Bind(TryConsume(m, ImplicitJmprefGas),
         LAMBDA mm : Bind(TryConsume(mm, CellLoadGas),
                          LAMBDA ml : Ok([ml EXCEPT !.code = next], 0)))

\* Mutant: an implicit RET that forgets to charge gas.
ImplicitRetUncharged(m) == Ret(m)

\* Implicit RET: gas, then ret().
ImplicitRet(m) == Bind(TryConsume(m, ImplicitRetGas), LAMBDA mm : Ret(mm))

-----------------------------------------------------------------------------
VARIABLES
    pc,        \* "start", "loop" (while res == 0), "after" (the loop ended), "done"
    vm,        \* [code, throwOnCodeAccess, c0, c1, c2, d0, d1, stack, gas, committed, cp],
               \* and the ghost `starved`: a gas charge has failed
    res,       \* the loop's res
    exitCode,  \* the value run() returned, NONE before
    exitPath   \* which return of run() returned it

vars == <<pc, vm, res, exitCode, exitPath>>

TypeOK ==
    /\ pc \in {"start", "loop", "after", "done"}
    /\ vm.code \in CodeKinds
    /\ vm.throwOnCodeAccess \in BOOLEAN
    /\ {vm.c0, vm.c1, vm.c2} \subseteq Conts
    /\ {vm.d0, vm.d1} \subseteq CellVals \cup {Data0}
    /\ vm.stack \in Seq(Int)
    /\ vm.gas \in 0..GasLimit
    /\ vm.cp \in Codepages
    /\ vm.committed \in {NONE} \cup [c4 : CellVals \cup {Data0}, c5 : CellVals \cup {Data0}]
    /\ res \in Int
    /\ exitCode \in {NONE} \cup Int
    /\ exitPath \in {NONE, "fatal", "double", "commit_failed", "loop"}

\* VmStateBuilder::build: quit0, quit1, ExcQuit in c0..c2, d[0] the data,
\* d[1] the empty cell; no code means the default slice and
\* throw_on_code_access.
Init ==
    /\ pc = "start"
    /\ \E st \in InitStacks, code \in CodeKinds, hasCode \in BOOLEAN :
         vm = [code |-> IF hasCode THEN code ELSE "empty",
               throwOnCodeAccess |-> ~hasCode,
               c0 |-> Quit0, c1 |-> Quit1, c2 |-> ExcQuit,
               d0 |-> Data0, d1 |-> [level |-> 0, depth |-> 0],
               stack |-> st, gas |-> GasLimit, committed |-> NONE, cp |-> 0,
               starved |-> FALSE]
    /\ res = 0
    /\ exitCode = NONE
    /\ exitPath = NONE

\* run(): without code the VM returns Fatal, not negated.
RunWithoutCode ==
    /\ pc = "start" /\ vm.throwOnCodeAccess
    /\ pc' = "done" /\ exitCode' = Fatal /\ exitPath' = "fatal"
    /\ UNCHANGED <<vm, res>>

RunStart ==
    /\ pc = "start" /\ ~vm.throwOnCodeAccess
    /\ pc' = "loop"
    /\ UNCHANGED <<vm, res, exitCode, exitPath>>

\* Mutant: an out-of-gas inside throw_exception taken for a double exception.
HandleThrowOogAsDouble(o) ==
    LET t == ThrowException(o.m, o.r.val) IN
    IF t.r.tag = "ok"
    THEN /\ vm' = t.m /\ res' = t.r.val
         /\ pc' = IF t.r.val = 0 THEN "loop" ELSE "after"
         /\ UNCHANGED <<exitCode, exitPath>>
    ELSE /\ vm' = t.m /\ pc' = "done"
         /\ exitCode' = AsExitCode(o.r.val) /\ exitPath' = "double"
         /\ UNCHANGED res

\* The step failed with exception o.r.val: throw_exception; its own
\* out-of-gas goes to throw_out_of_gas, any other error of it returns the
\* first exception's exit code.
HandleThrow(o) ==
    LET t == ThrowException(o.m, o.r.val) IN
    CASE t.r.tag = "ok" ->
            /\ vm' = t.m /\ res' = t.r.val
            /\ pc' = IF t.r.val = 0 THEN "loop" ELSE "after"
            /\ UNCHANGED <<exitCode, exitPath>>
      [] t.r.tag = "oog" ->
            /\ vm' = ThrowOutOfGas(t.m) /\ res' = OutOfGas /\ pc' = "after"
            /\ UNCHANGED <<exitCode, exitPath>>
      [] t.r.tag = "err" ->
            /\ vm' = t.m /\ pc' = "done"
            /\ exitCode' = AsExitCode(o.r.val) /\ exitPath' = "double"
            /\ UNCHANGED res

\* The body of run()'s loop for a step that produced `o`: an Err is turned
\* into throw_exception, out-of-gas into throw_out_of_gas, and an error of
\* throw_exception itself returns the first exception's exit code.
HandleStep(o) ==
    CASE o.r.tag = "ok" ->
            /\ vm' = o.m /\ res' = o.r.val
            /\ pc' = IF o.r.val = 0 THEN "loop" ELSE "after"
            /\ UNCHANGED <<exitCode, exitPath>>
      [] o.r.tag = "oog" ->
            /\ vm' = ThrowOutOfGas(o.m) /\ res' = OutOfGas /\ pc' = "after"
            /\ UNCHANGED <<exitCode, exitPath>>
      [] o.r.tag = "err" -> HandleThrow(o)

\* step() with data bits left: dispatch one opcode.
StepDispatch ==
    /\ pc = "loop" /\ vm.code = "data"
    /\ \E ins \in Instrs : HandleStep(Dispatch(vm, ins))

\* step() with only references left: implicit JMPREF.
StepImplicitJmpref ==
    /\ pc = "loop" /\ vm.code = "refs"
    /\ \E next \in CodeKinds : HandleStep(ImplicitJmpref(vm, next))

\* step() with an empty slice: implicit RET.
StepImplicitRet ==
    /\ pc = "loop" /\ vm.code = "empty"
    /\ HandleStep(ImplicitRet(vm))

\* Mutant: the commit check reads `res == -1` and misses ~1.
RunFinishOnlyQuit0 ==
    /\ pc = "after"
    /\ pc' = "done"
    /\ LET t == TryCommit(vm) IN
       IF res = -1 /\ ~t.ok
       THEN /\ vm' = [vm EXCEPT !.stack = <<0>>]
            /\ exitCode' = AsExitCode(CellOverflow) /\ exitPath' = "commit_failed"
       ELSE /\ vm' = IF res = -1 THEN t.m ELSE vm
            /\ exitCode' = res /\ exitPath' = "loop"
    /\ UNCHANGED res

\* After the loop: exit codes ~0 and ~1 (res | 1 == -1) commit c4/c5;
\* if they do not fit, the stack becomes [0] and the exit is CellOverflow.
RunFinish ==
    /\ pc = "after"
    /\ pc' = "done"
    /\ LET t == TryCommit(vm) IN
       IF res \in {-1, -2} /\ ~t.ok
       THEN /\ vm' = [vm EXCEPT !.stack = <<0>>]
            /\ exitCode' = AsExitCode(CellOverflow) /\ exitPath' = "commit_failed"
       ELSE /\ vm' = IF res \in {-1, -2} THEN t.m ELSE vm
            /\ exitCode' = res /\ exitPath' = "loop"
    /\ UNCHANGED res

\* run() has returned.
Returned == pc = "done" /\ UNCHANGED vars

Next ==
    \/ RunWithoutCode \/ RunStart
    \/ StepDispatch \/ StepImplicitJmpref \/ StepImplicitRet
    \/ RunFinish \/ Returned

\* The loop is one synchronous call: it keeps taking steps.
Spec == Init /\ [][Next]_vars /\ WF_vars(Next)
-----------------------------------------------------------------------------
(***************************************************************************)
(* Properties.                                                             *)
(***************************************************************************)

\* Commit safety (try_commit and the check after run()'s loop): when run()
\* has returned, a committed state only holds level-0 cells of depth at most
\* 512, and an exit with ~0 or ~1 always leaves the final c4 and c5
\* committed, including after COMMIT, POP c4/c5 and an exception handler.
CommitSafety ==
    pc = "done" =>
        /\ vm.committed # NONE => Fits(vm.committed.c4) /\ Fits(vm.committed.c5)
        /\ exitCode \in {-1, -2} => vm.committed = [c4 |-> vm.d0, c5 |-> vm.d1]

\* Termination: every path through step(), throw_exception and the
\* handlers charges gas, so run() returns whatever the program does.
Termination == <>(pc = "done")

\* Running out of gas anywhere -- in an opcode, an implicit JMPREF or RET,
\* or while throw_exception charges the exception gas -- ends run() with
\* the positive exit code 13 (throw_out_of_gas, not negated so that no
\* contract can fake it), never with a handler's result or the
\* double-exception code, and with the consumed gas alone on the stack.
OutOfGasExitsWith13 ==
    (pc = "done" /\ vm.starved) =>
        /\ exitCode = OutOfGas
        /\ vm.stack = <<GasLimit - vm.gas>>

\* Spec: a second exception while handling the first is fatal and its exit
\* code is returned positive, so that no contract can produce it by
\* throwing; run() returns exception.as_exit_code() on that path.
UnhandledExitNotNegated ==
    (pc = "done" /\ exitPath \in {"fatal", "double"}) => exitCode >= 0
====
