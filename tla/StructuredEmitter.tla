-------------------------- MODULE StructuredEmitter --------------------------
(***************************************************************************)
(* What the code generator makes of structured statements: the control     *)
(* part of BytecodeEmitter::emitInstruction, as a function from statements *)
(* to instructions.  Jumps are absolute, so a statement is emitted at an   *)
(* address.                                                                *)
(***************************************************************************)
EXTENDS Integers, Sequences

(***************************************************************************)
(* Statements.  A block is a sequence of statements.                       *)
(***************************************************************************)
Simple(k) == [kind |-> k]
CallOf(f) == [kind |-> "call", callee |-> f]
NewOf(f) == [kind |-> "new", callee |-> f]
If(then) == [kind |-> "if", then |-> then]
IfElse(then, else) == [kind |-> "ifelse", then |-> then, else |-> else]
Loop(body) == [kind |-> "loop", body |-> body]
\* Arms are in the order of the source, a case or the default.
CaseArm(body) == [label |-> "CA", body |-> body]
DefaultArm(body) == [label |-> "MAC_DINH", body |-> body]
Switch(arms) == [kind |-> "switch", arms |-> arms]
Try(body, handler) == [kind |-> "try", body |-> body, handler |-> handler]

---------------------------------------------------------------------------
I(op, operand, operandIndex, operandValue) ==
    [op |-> op, operand |-> operand, operandIndex |-> operandIndex,
     operandValue |-> operandValue]
Op(op) == I(op, 0, 0, 0)

(***************************************************************************)
(* What the emitter knows around a statement: the emitted block and try    *)
(* depths, and the innermost scope a `thoát` leaves, whose loop form keeps *)
(* its jumps pending until the end of the loop is known.                   *)
(***************************************************************************)
Pending == 0
BreakScope(env, isLoop) ==
    [env EXCEPT !.scope = [loop |-> isLoop, blockDepth |-> env.blocks, tryDepth |-> env.tries]]
FunctionEnv == [blocks |-> 0, tries |-> 0,
                scope |-> [loop |-> FALSE, blockDepth |-> 0, tryDepth |-> 0]]

Patch(code, end) ==
    [i \in DOMAIN code |->
        IF code[i].op = "THOAT" /\ code[i].operandIndex < 0 /\ code[i].operand = Pending
        THEN [code[i] EXCEPT !.operand = end] ELSE code[i]]

RECURSIVE Emit(_, _, _), EmitAll(_, _, _), EmitArms(_, _, _)

EmitAll(statements, at, env) ==
    IF statements = <<>> THEN <<>>
    ELSE LET first == Emit(Head(statements), at, env) IN
         first \o EmitAll(Tail(statements), at + Len(first), env)

EmitBlock(statements, at, env) ==
    <<Op("MO_KHOI")>> \o EmitAll(statements, at + 1, [env EXCEPT !.blocks = @ + 1])
                      \o <<Op("DONG_KHOI")>>

\* An arm that is not entered jumps to the next arm, the last one to the end.
Arm(arm, next) == I(arm.label, 0, 0, next)
EmitArms(arms, at, env) ==
    IF arms = <<>> THEN <<>>
    ELSE LET body == EmitBlock(Head(arms).body, at + 1, env)
             next == at + 1 + Len(body)
         IN  <<Arm(Head(arms), next)>> \o body \o EmitArms(Tail(arms), next, env)

---------------------------------------------------------------------------
EmitBreak(env) ==
    IF env.scope.loop
    THEN I("THOAT", Pending, -1 - (env.blocks - env.scope.blockDepth),
           env.tries - env.scope.tryDepth)
    ELSE Op("THOAT")

EmitIf(s, at, env) ==
    LET then == EmitBlock(s.then, at + 3, env)
    IN  <<Op("NEU"), Op("GIA_TRI"), I("JUMP_IF_FALSE", at + 3 + Len(then), 0, 0)>> \o then

EmitIfElse(s, at, env) ==
    LET then == EmitBlock(s.then, at + 3, env)
        middle == at + 3 + Len(then) + 1
        else == EmitBlock(s.else, middle, env)
    IN  <<Op("NEU"), Op("GIA_TRI"), I("JUMP_IF_FALSE", middle, 0, 0)>> \o then
          \o <<I("JUMP", middle + Len(else), 0, 0)>> \o else

EmitLoop(s, at, env) ==
    LET condition == at + 2
        body == EmitBlock(s.body, at + 5, BreakScope(env, TRUE))
        end == at + 5 + Len(body) + 3
    IN  <<Op("GAN"), Op("LAP"), Op("DIEU_KIEN"), Op("GIA_TRI"), I("JUMP_IF_FALSE", end, 0, 0)>>
          \o Patch(body, end)
          \o <<Op("CAP_NHAT"), Op("GAN"), I("JUMP", condition, 0, 0)>>

EmitSwitch(s, at, env) ==
    LET arms == EmitArms(s.arms, at + 2, BreakScope(env, FALSE))
    IN  <<Op("GIA_TRI"), I("CHON", at + 2 + Len(arms), 0, 0)>> \o arms
          \o <<Op("KET_THUC_CHUYEN")>>

EmitTry(s, at, env) ==
    LET body == EmitBlock(s.body, at + 1, [env EXCEPT !.tries = @ + 1])
        catch == at + 1 + Len(body) + 1
        handler == EmitBlock(s.handler, catch + 1, env)
    IN  <<I("THU", catch, 0, 0)>> \o body
          \o <<I("THU_KET_THUC", catch + 1 + Len(handler), 0, 0), Op("BAT_LOI")>> \o handler

Emit(s, at, env) ==
    CASE s.kind = "print"    -> <<Op("GIA_TRI"), Op("IN")>>
      [] s.kind = "native"   -> <<Op("NATIVE")>>
      [] s.kind = "call"     -> <<I("GOI", 0, s.callee, 0)>>
      [] s.kind = "new"      -> <<I("TAO_DOI_TUONG", 0, s.callee, 0)>>
      [] s.kind = "throw"    -> <<Op("GIA_TRI"), Op("NEM")>>
      [] s.kind = "return"   -> <<Op("GIA_TRI"), Op("TRA_VE")>>
      [] s.kind = "continue" -> <<Op("BO_QUA")>>
      [] s.kind = "break"    -> <<EmitBreak(env)>>
      [] s.kind = "if"       -> EmitIf(s, at, env)
      [] s.kind = "ifelse"   -> EmitIfElse(s, at, env)
      [] s.kind = "loop"     -> EmitLoop(s, at, env)
      [] s.kind = "switch"   -> EmitSwitch(s, at, env)
      [] s.kind = "try"      -> EmitTry(s, at, env)

\* The bytecode of a function, and of the top level of a program.
EmitFunctionBody(body) == <<Op("MO_KHOI")>> \o EmitAll(body, 1, FunctionEnv)
                                            \o <<Op("DONG_KHOI")>>
EmitProgram(statements) == EmitAll(statements, 0, FunctionEnv) \o <<Op("DUNG_CHUONG_TRINH")>>
=============================================================================
