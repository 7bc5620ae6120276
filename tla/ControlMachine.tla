--------------------------- MODULE ControlMachine ---------------------------
(***************************************************************************)
(* The control half of the bytecode interpreter: blocks, `chọn` (switch),  *)
(* `thử` (try), `bỏ qua` (continue), calls, constructors, returns and the  *)
(* unwinding of thrown values across suspended callers.                    *)
(*                                                                         *)
(* Values are abstract: an operand stack is its depth, and a condition, a  *)
(* case label or a native call has any of its outcomes.  The names of the  *)
(* opcodes and of the fields are those of the source; addresses count from *)
(* 0 as they do there.                                                     *)
(***************************************************************************)
EXTENDS Integers, Sequences, FiniteSets, FiniteSetsExt

CONSTANTS
    Function,      \* ids of the functions of a program
    Programs,      \* programs the machine may be given: bytecode per function
    MaxCallDepth,  \* VM::maxCallDepth
    MaxTrue        \* bound of the model: conditions that come out true in a run

\* The id that stands for the top-level bytecode (activeBytecode_ = nullptr).
Root == 0

Opcodes == {"GIA_TRI", "GAN", "IN", "NATIVE", "NEU", "LAP", "DIEU_KIEN", "CAP_NHAT",
            "JUMP", "JUMP_IF_FALSE", "MO_KHOI", "DONG_KHOI", "CHON", "CA", "MAC_DINH",
            "THOAT", "KET_THUC_CHUYEN", "BO_QUA", "THU", "THU_KET_THUC", "BAT_LOI",
            "NEM", "GOI", "TAO_DOI_TUONG", "TRA_VE", "DUNG_CHUONG_TRINH"}
Instruction == [op : Opcodes, operand : Nat, operandIndex : Int, operandValue : Nat]

ASSUME ProgramsAssumption ==
    /\ Function \subseteq Nat \ {Root}
    /\ \A p \in Programs : p \in [Function \cup {Root} -> Seq(Instruction)]
    /\ \A p \in Programs : \A f \in Function \cup {Root} : \A i \in 1 .. Len(p[f]) :
          /\ p[f][i].op \in {"GOI", "TAO_DOI_TUONG"} => p[f][i].operandIndex \in Function
          \* The emitter knows the end of a `chọn`; bytecode of a compiler that did
          \* not, where it is 0, is not modelled.
          /\ p[f][i].op = "CHON" => p[f][i].operand # 0
ASSUME BoundsAssumption == MaxCallDepth \in Nat /\ MaxTrue \in Nat

VARIABLES
    chunk,          \* hamBytecodeMap and the top-level bytecode
    cur,            \* the control state of the running function
    executionStack, \* the suspended callers, innermost last
    callStack,      \* the call frames, here the functions they belong to
    callDepth,      \* callDepthFromRoot
    trueLeft,       \* model bound: conditions that may still come out true
    status          \* how the run stands or ended
vars == <<chunk, cur, executionStack, callStack, callDepth, trueLeft, status>>

SwitchFrames == [endPc : Nat, skippingCase : BOOLEAN, caseMatched : BOOLEAN,
                 blockDepthAtStart : Nat, tryDepthAtStart : Nat]
TryFrames == [catchAddr : Nat, stackDepth : Nat, blockStackDepth : Nat,
              switchStackDepth : Nat, blockDepth : Nat]
Modes == {"Value", "ConstructorInstance"}
Contexts == [fn : Function \cup {Root}, pc : Nat, stack : Nat, blockStack : Nat,
             blockDepth : Nat, switchStack : Seq(SwitchFrames), tryStack : Seq(TryFrames),
             returnMode : Modes]
Statuses == {"running", "halted", "uncaught", "fault"}

Fresh(f) == [fn |-> f, pc |-> 0, stack |-> 0, blockStack |-> 0, blockDepth |-> 0,
             switchStack |-> <<>>, tryStack |-> <<>>, returnMode |-> "Value"]

Init == /\ chunk \in Programs
        /\ cur = Fresh(Root)
        /\ executionStack = <<>>
        /\ callStack = <<>>
        /\ callDepth = 0
        /\ trueLeft = MaxTrue
        /\ status = "running"

---------------------------------------------------------------------------
CodeOf(f) == chunk[f]
Code == CodeOf(cur.fn)
AtEnd == cur.pc >= Len(Code)
Here == Code[cur.pc + 1]
At(op) == status = "running" /\ ~AtEnd /\ Here.op = op

Top(s) == s[Len(s)]
Popped(s) == SubSeq(s, 1, Len(s) - 1)
Cut(s, n) == IF Len(s) > n THEN SubSeq(s, 1, n) ELSE s

After(c) == [c EXCEPT !.pc = @ + 1]
Goto(c, a) == [c EXCEPT !.pc = a]

\* A step that only touches the running function.
Local(c) == cur' = c /\ UNCHANGED <<chunk, executionStack, callStack, callDepth, trueLeft, status>>

\* Mutant: the outermost callers are dropped instead of the innermost.
PopToInner(n) ==
    LET popped == Len(executionStack) - n IN
    /\ executionStack' = SubSeq(executionStack, popped + 1, Len(executionStack))
    /\ callStack' = SubSeq(callStack, popped + 1, Len(callStack))
    /\ callDepth' = IF callDepth > popped THEN callDepth - popped ELSE 0
    /\ UNCHANGED <<chunk, trueLeft>>

\* Mutant: the depth goes down by one however many callers are unwound.
PopToByOne(n) ==
    LET popped == Len(executionStack) - n IN
    /\ executionStack' = SubSeq(executionStack, 1, n)
    /\ callStack' = SubSeq(callStack, 1, Len(callStack) - popped)
    /\ callDepth' = IF callDepth > 0 THEN callDepth - 1 ELSE 0
    /\ UNCHANGED <<chunk, trueLeft>>

\* The suspended callers are popped until n of them are left.
PopTo(n) ==
    LET popped == Len(executionStack) - n IN
    /\ executionStack' = SubSeq(executionStack, 1, n)
    /\ callStack' = SubSeq(callStack, 1, Len(callStack) - popped)
    /\ callDepth' = IF callDepth > popped THEN callDepth - popped ELSE 0
    /\ UNCHANGED <<chunk, trueLeft>>

\* A caller that takes control back.
Resumed(c) == [c EXCEPT !.returnMode = "Value"]

\* The control state of the n-th active function, the outermost first.
Context(n) == IF n <= Len(executionStack) THEN Resumed(executionStack[n]) ELSE cur

---------------------------------------------------------------------------
(***************************************************************************)
(* The scan of `bỏ qua`: forward to the first OP_CAP_NHAT that belongs to  *)
(* no loop opened on the way, counting the blocks left on the way.         *)
(***************************************************************************)
Between(op, i, j) == Cardinality({k \in i .. j : Code[k + 1].op = op})

Updates == {i \in cur.pc + 1 .. Len(Code) - 1 :
              /\ Code[i + 1].op = "CAP_NHAT"
              /\ Between("LAP", cur.pc + 1, i - 1) = Between("CAP_NHAT", cur.pc + 1, i - 1)}
CloseBlocks(i) ==
    Max({0} \cup {n \in 1 .. Len(Code) : \E j \in cur.pc + 1 .. i :
            n = Between("DONG_KHOI", cur.pc + 1, j) - Between("MO_KHOI", cur.pc + 1, j)})

(***************************************************************************)
(* verifyBytecode, the part about control: jumps, handlers, switches.      *)
(***************************************************************************)
VerifiedAt(code, i) ==
    LET in == code[i + 1]
        inRange == in.operand < Len(code)
    IN  CASE in.op \in {"JUMP", "JUMP_IF_FALSE"} -> inRange
          [] in.op = "THU" -> inRange /\ code[in.operand + 1].op = "BAT_LOI"
          [] in.op = "THU_KET_THUC" -> in.operand <= Len(code)
          [] in.op = "CHON" -> in.operand # 0 =>
                inRange /\ code[in.operand + 1].op = "KET_THUC_CHUYEN"
          [] in.op \in {"CA", "MAC_DINH"} -> in.operandValue # 0 =>
                /\ i < in.operandValue /\ in.operandValue < Len(code)
                /\ code[in.operandValue + 1].op \in {"CA", "MAC_DINH", "KET_THUC_CHUYEN"}
          [] in.op = "THOAT" -> IF in.operandIndex < 0 THEN inRange
                                ELSE in.operand = 0 /\ in.operandIndex = 0 /\ in.operandValue = 0
          [] OTHER -> TRUE
Verified(code) == \A i \in 0 .. Len(code) - 1 : VerifiedAt(code, i)

(***************************************************************************)
(* A RuntimeError: the check of an opcode fails.  It unwinds every caller  *)
(* and ends the run, and no handler sees it.                               *)
(***************************************************************************)
LoopBreak == Here.operandIndex < 0
BlocksToExit == -1 - Here.operandIndex
Skipping == cur.switchStack # <<>> /\ Top(cur.switchStack).skippingCase
BreakOfLoopInvalid == \/ Here.operand >= Len(Code)
                      \/ BlocksToExit > cur.blockStack
                      \/ Here.operandValue > Len(cur.tryStack)
BreakOfSwitchInvalid == \/ cur.switchStack = <<>>
                        \/ cur.blockStack < Top(cur.switchStack).blockDepthAtStart
                        \/ Len(cur.tryStack) < Top(cur.switchStack).tryDepthAtStart
Invalid ==
    \/ Here.op \in {"IN", "JUMP_IF_FALSE", "CHON"} /\ cur.stack = 0
    \/ Here.op = "JUMP" /\ Here.operand >= Len(Code)
    \/ Here.op = "DONG_KHOI" /\ cur.blockStack = 0
    \/ /\ Here.op = "CHON"
       /\ \/ Here.operand \notin 1 .. Len(Code) - 1
          \/ Code[Here.operand + 1].op # "KET_THUC_CHUYEN"
    \/ Here.op \in {"CA", "MAC_DINH", "KET_THUC_CHUYEN"} /\ cur.switchStack = <<>>
    \/ Here.op = "THOAT" /\ ~Skipping /\ LoopBreak /\ BreakOfLoopInvalid
    \/ Here.op = "THOAT" /\ ~Skipping /\ ~LoopBreak /\ BreakOfSwitchInvalid
    \/ Here.op = "BO_QUA" /\ Updates = {}
    \/ Here.op \in {"GOI", "TAO_DOI_TUONG"} /\ callDepth + 1 > MaxCallDepth

\* Only a branch that is taken needs its target.
TakenOutOfRange == Here.op = "JUMP_IF_FALSE" /\ Here.operand >= Len(Code)

RuntimeError == /\ status = "running" /\ ~AtEnd
                /\ Invalid \/ TakenOutOfRange
                /\ cur' = Context(1)
                /\ status' = "fault"
                /\ PopTo(0)

Execute(op) == At(op) /\ ~Invalid

---------------------------------------------------------------------------
(***************************************************************************)
(* Values, branches and blocks.                                            *)
(***************************************************************************)
\* A native call does nothing in an arm that was not chosen.
Value == /\ \E op \in {"GIA_TRI", "NATIVE"} : Execute(op)
         /\ Local(After([cur EXCEPT
               !.stack = IF Here.op = "NATIVE" /\ Skipping THEN @ ELSE @ + 1]))

Output == Execute("IN") /\ Local(After([cur EXCEPT !.stack = @ - 1]))

\* Stores and the markers that only the scan of `bỏ qua` reads.
Marker == /\ \E op \in {"GAN", "NEU", "LAP", "DIEU_KIEN", "CAP_NHAT"} : Execute(op)
          /\ Local(After(cur))

Jump == Execute("JUMP") /\ Local(Goto(cur, Here.operand))

JumpIfFalse ==
    /\ Execute("JUMP_IF_FALSE")
    /\ LET c == [cur EXCEPT !.stack = @ - 1] IN
       \/ ~TakenOutOfRange /\ cur' = Goto(c, Here.operand) /\ trueLeft' = trueLeft
       \/ trueLeft > 0 /\ cur' = After(c) /\ trueLeft' = trueLeft - 1
    /\ UNCHANGED <<chunk, executionStack, callStack, callDepth, status>>

OpenBlock == /\ Execute("MO_KHOI")
             /\ Local(After([cur EXCEPT !.blockStack = @ + 1, !.blockDepth = @ + 1]))

Floor(n) == IF n < 0 THEN 0 ELSE n

\* A switch whose surrounding block closes is abandoned with it.
DropSwitchOfBlock(switches, blocks) ==
    IF switches # <<>> /\ blocks = Top(switches).blockDepthAtStart - 1
    THEN Popped(switches) ELSE switches
CloseBlock ==
    /\ Execute("DONG_KHOI")
    /\ Local(After([cur EXCEPT
          !.blockStack = @ - 1,
          !.blockDepth = Floor(@ - 1),
          !.switchStack = DropSwitchOfBlock(@, cur.blockStack - 1)]))

---------------------------------------------------------------------------
(***************************************************************************)
(* `chọn`, `thoát` and `bỏ qua`.                                           *)
(***************************************************************************)
OpenSwitch ==
    /\ Execute("CHON")
    /\ Local(After([cur EXCEPT
          !.stack = @ - 1,
          !.switchStack = Append(@,
              [endPc |-> Here.operand, skippingCase |-> TRUE, caseMatched |-> FALSE,
               blockDepthAtStart |-> cur.blockStack, tryDepthAtStart |-> Len(cur.tryStack)])]))

\* Entering an arm, or jumping over its body to the next one.
EnterArm(enter) ==
    LET frame == [Top(cur.switchStack) EXCEPT !.skippingCase = ~enter,
                                              !.caseMatched = @ \/ enter]
        c == [cur EXCEPT !.switchStack = Append(Popped(@), frame)]
    IN  Local(IF ~enter /\ Here.operandValue # 0 THEN Goto(c, Here.operandValue) ELSE After(c))
Case == /\ Execute("CA")
        /\ \E match \in BOOLEAN : EnterArm(match /\ ~Top(cur.switchStack).caseMatched)
Default == Execute("MAC_DINH") /\ EnterArm(~Top(cur.switchStack).caseMatched)

CloseSwitch == Execute("KET_THUC_CHUYEN") /\ Local(After([cur EXCEPT !.switchStack = Popped(@)]))

\* Switches opened inside the blocks that a break of a loop leaves.
Outer(switches, blocks) ==
    SubSeq(switches, 1, Max({0} \cup {n \in DOMAIN switches :
                                          switches[n].blockDepthAtStart <= blocks}))
\* Mutant: a break of a loop keeps the handlers of the `thử` bodies it leaves.
ExitLoopKeepingTries(c) ==
    LET blocks == c.blockStack - BlocksToExit IN
    [c EXCEPT !.pc = Here.operand,
              !.blockStack = blocks,
              !.blockDepth = @ - BlocksToExit,
              !.switchStack = Outer(@, blocks)]

ExitLoop(c) ==
    LET blocks == c.blockStack - BlocksToExit IN
    [c EXCEPT !.pc = Here.operand,
              !.blockStack = blocks,
              !.blockDepth = @ - BlocksToExit,
              !.switchStack = Outer(@, blocks),
              !.tryStack = SubSeq(@, 1, Len(@) - Here.operandValue)]
ExitSwitch(c) ==
    LET frame == Top(c.switchStack) IN
    [c EXCEPT !.pc = frame.endPc,
              !.blockStack = frame.blockDepthAtStart,
              !.blockDepth = @ - (c.blockStack - frame.blockDepthAtStart),
              !.tryStack = SubSeq(@, 1, frame.tryDepthAtStart)]
Break == /\ Execute("THOAT")
         /\ Local(IF Skipping THEN After(cur)
                  ELSE IF LoopBreak THEN ExitLoop(cur) ELSE ExitSwitch(cur))

\* `bỏ qua` leaves the blocks it jumps out of; it leaves no try and no switch.
Continue ==
    /\ Execute("BO_QUA")
    /\ LET update == Min(Updates) IN
       Local([cur EXCEPT !.pc = update + 1,
                         !.blockStack = Floor(@ - CloseBlocks(update)),
                         !.blockDepth = Floor(@ - CloseBlocks(update))])

---------------------------------------------------------------------------
(***************************************************************************)
(* `thử`, `bắt lỗi` and `ném`.                                             *)
(***************************************************************************)
EnterTry ==
    /\ Execute("THU")
    /\ Local(After([cur EXCEPT !.tryStack = Append(@,
          [catchAddr |-> Here.operand, stackDepth |-> cur.stack,
           blockStackDepth |-> cur.blockStack, switchStackDepth |-> Len(cur.switchStack),
           blockDepth |-> cur.blockDepth])]))

LeaveTry == /\ Execute("THU_KET_THUC")
            /\ Local(Goto([cur EXCEPT !.tryStack = IF @ = <<>> THEN @ ELSE Popped(@)],
                          Here.operand))

Bind == Execute("BAT_LOI") /\ Local(After([cur EXCEPT !.stack = Floor(@ - 1)]))

AtMost(n, m) == IF n < m THEN n ELSE m

\* transferThrownValue: the function goes on in its innermost handler.
Caught(c) ==
    LET frame == Top(c.tryStack) IN
    [c EXCEPT !.pc = frame.catchAddr,
              !.stack = AtMost(@, frame.stackDepth) + 1,
              !.blockStack = AtMost(@, frame.blockStackDepth),
              !.blockDepth = frame.blockDepth,
              !.switchStack = Cut(@, frame.switchStackDepth),
              !.tryStack = Popped(@)]

\* Mutant: only the outermost handler is found.
OutermostCatcher ==
    {n \in 1 .. Len(executionStack) + 1 :
        /\ Context(n).tryStack # <<>>
        /\ \A m \in 1 .. n - 1 : Context(m).tryStack = <<>>}

\* Active functions with an open handler, as positions from the outermost.
Catchers == {n \in 1 .. Len(executionStack) + 1 : Context(n).tryStack # <<>>}

\* unwindLanguageException: the thrown value goes to the innermost active function
\* with a handler, or ends the run.
Thrower == IF Here.op = "NEM" THEN [cur EXCEPT !.stack = Floor(@ - 1)] ELSE cur
Unwound(n) == IF n <= Len(executionStack) THEN Context(n) ELSE Thrower
Throw ==
    /\ \/ Execute("NEM")
       \/ (Execute("NATIVE") /\ ~Skipping)
    /\ IF Catchers = {}
       THEN /\ cur' = Unwound(1)
            /\ status' = "uncaught"
            /\ PopTo(0)
       ELSE /\ cur' = Caught(Unwound(Max(Catchers)))
            /\ status' = status
            /\ PopTo(Max(Catchers) - 1)

---------------------------------------------------------------------------
(***************************************************************************)
(* Calls and returns.                                                      *)
(***************************************************************************)
\* Mutant: the number of arguments is taken for the function.
InvokeOperand(mode) ==
    /\ executionStack' = Append(executionStack, [cur EXCEPT !.returnMode = mode])
    /\ callStack' = Append(callStack, Here.operand)
    /\ callDepth' = callDepth + 1
    /\ cur' = Fresh(Here.operand)
    /\ UNCHANGED <<chunk, trueLeft, status>>

\* Mutant: the callee starts with the open handlers of its caller.
InvokeKeepingTries(mode) ==
    /\ executionStack' = Append(executionStack, [cur EXCEPT !.returnMode = mode])
    /\ callStack' = Append(callStack, Here.operandIndex)
    /\ callDepth' = callDepth + 1
    /\ cur' = [Fresh(Here.operandIndex) EXCEPT !.tryStack = cur.tryStack]
    /\ UNCHANGED <<chunk, trueLeft, status>>

Invoke(mode) ==
    /\ executionStack' = Append(executionStack, [cur EXCEPT !.returnMode = mode])
    /\ callStack' = Append(callStack, Here.operandIndex)
    /\ callDepth' = callDepth + 1
    /\ cur' = Fresh(Here.operandIndex)
    /\ UNCHANGED <<chunk, trueLeft, status>>
Call == Execute("GOI") /\ Invoke("Value")
Construct == Execute("TAO_DOI_TUONG") /\ Invoke("ConstructorInstance")

\* completeFunctionCall: the caller goes on with the returned value, if there is
\* one, or with the instance its constructor was called for.
Complete(hasReturnValue) ==
    LET caller == Top(executionStack)
        pushes == caller.returnMode = "ConstructorInstance" \/ hasReturnValue
    IN  /\ cur' = After([Resumed(caller) EXCEPT !.stack = IF pushes THEN @ + 1 ELSE @])
        /\ PopTo(Len(executionStack) - 1)
        /\ status' = status

\* `trả về`, and falling off the end, where what the last statement left on the
\* stack is the value returned.
Return == /\ executionStack # <<>>
          /\ \/ Execute("TRA_VE") /\ Complete(TRUE)
             \/ /\ status = "running" /\ (AtEnd \/ Execute("DUNG_CHUONG_TRINH"))
                /\ Complete(cur.stack > 0)

Halt == /\ executionStack = <<>>
        /\ status = "running"
        /\ AtEnd \/ Execute("TRA_VE") \/ Execute("DUNG_CHUONG_TRINH")
        /\ status' = "halted"
        /\ UNCHANGED <<chunk, cur, executionStack, callStack, callDepth, trueLeft>>

Ended == status # "running" /\ UNCHANGED vars

Next == \/ RuntimeError
        \/ Value \/ Output \/ Marker \/ Jump \/ JumpIfFalse \/ OpenBlock \/ CloseBlock
        \/ OpenSwitch \/ Case \/ Default \/ CloseSwitch \/ Break \/ Continue
        \/ EnterTry \/ LeaveTry \/ Bind \/ Throw
        \/ Call \/ Construct \/ Return \/ Halt \/ Ended

Spec == Init /\ [][Next]_vars

---------------------------------------------------------------------------
\* The control state stays within the types of the source: no stack has a negative
\* depth (vm.h, ExecutionContext and its frames).
TypeOK == /\ chunk \in [Function \cup {Root} -> Seq(Instruction)]
          /\ cur \in Contexts
          /\ executionStack \in Seq(Contexts)
          /\ callStack \in Seq(Function)
          /\ callDepth \in Nat
          /\ trueLeft \in 0 .. MaxTrue
          /\ status \in Statuses

\* The three counts of active calls agree and stay within the limit, through
\* returns and through exceptions that unwind several callers at once.
ContextsBalanced == /\ Len(callStack) = Len(executionStack)
                    /\ callDepth = Len(executionStack)
                    /\ callDepth <= MaxCallDepth

\* Where a function may go: the instruction it is at, the handler of each `thử` it
\* is in and the end of each `chọn`, all in its own code.
IsAt(code, address, op) == address < Len(code) /\ code[address + 1].op = op
Aimed(c) ==
    LET code == CodeOf(c.fn) IN
    /\ c.pc <= Len(code)
    /\ \A i \in DOMAIN c.tryStack : IsAt(code, c.tryStack[i].catchAddr, "BAT_LOI")
    /\ \A i \in DOMAIN c.switchStack : IsAt(code, c.switchStack[i].endPc, "KET_THUC_CHUYEN")

\* The jump that the instruction at hand checks as it runs, and that it finds wrong.
WrongTarget ==
    \/ Here.op \in {"JUMP", "JUMP_IF_FALSE"} /\ Here.operand >= Len(Code)
    \/ Here.op = "CHON" /\ ~IsAt(Code, Here.operand, "KET_THUC_CHUYEN")
    \/ Here.op = "THOAT" /\ LoopBreak /\ Here.operand >= Len(Code)

\* Verified bytecode stays on its rails (verifyBytecode): control never leaves the
\* code of the function it is in, every open handler is a `bắt lỗi` and every open
\* switch ends at its end, in the running function and in the suspended ones, and
\* the checks that the machine repeats on jumps (executeBranchOpcode,
\* executeSwitchOpcode) never fail.
TargetsKept ==
    (\A f \in Function \cup {Root} : Verified(CodeOf(f))) =>
        /\ \A n \in 1 .. Len(executionStack) + 1 : Aimed(Context(n))
        /\ ~AtEnd => ~WrongTarget

\* A suspended caller is frozen: while a callee runs, however it ends, no step
\* changes the control state the caller will resume with.
IsPrefixOf(s, t) == Len(s) <= Len(t) /\ \A i \in DOMAIN s : t[i] = s[i]
CallersFrozen ==
    [][IsPrefixOf(executionStack, executionStack') \/ IsPrefixOf(executionStack', executionStack)]_vars
=============================================================================
