---------------------------- MODULE LexicalScope ----------------------------
(***************************************************************************)
(* What the text of a program says about control, read off its bytecode:   *)
(* the blocks, handlers, switches and loops around an instruction.  The    *)
(* properties compare it with what the machine keeps on its stacks.        *)
(***************************************************************************)
EXTENDS ControlMachine, StructuredEmitter

Addresses(code, op) == {i \in 0 .. Len(code) - 1 : code[i + 1].op = op}
Target(code, i) == code[i + 1].operand

\* Blocks open at pc.
LexicalBlocks(code, pc) == Cardinality({i \in Addresses(code, "MO_KHOI") : i < pc})
                             - Cardinality({i \in Addresses(code, "DONG_KHOI") : i < pc})
\* `thử` bodies, `chọn` statements and `lặp` bodies around pc, by their opening address.
EnclosingTries(code, pc) == {t \in Addresses(code, "THU") : t < pc /\ pc < Target(code, t)}
EnclosingSwitches(code, pc) == {t \in Addresses(code, "CHON") : t < pc /\ pc <= Target(code, t)}
LoopEnd(code, t) == Target(code, t + 3)
EnclosingLoops(code, pc) == {t \in Addresses(code, "LAP") : t < pc /\ pc < LoopEnd(code, t)}

\* The addresses a sequence of frames must hold, the innermost last.
Targets(code, openings) == {Target(code, t) : t \in openings}
HoldsExactly(addresses, code, openings) ==
    /\ Len(addresses) = Cardinality(openings)
    /\ {addresses[i] : i \in DOMAIN addresses} = Targets(code, openings)
    /\ \A i, j \in DOMAIN addresses : i < j => addresses[i] > addresses[j]

Active == 1 .. Len(executionStack) + 1

---------------------------------------------------------------------------
(***************************************************************************)
(* Invariants.                                                             *)
(***************************************************************************)

\* Every function that is active, running or suspended, holds exactly the handlers,
\* the switches and the blocks that its text opens around the instruction it is at,
\* and the redundant counter blockDepth agrees: whatever way control took to get
\* there, by break, continue, return, exception or fall through.
ScopeExact ==
    \A n \in Active :
        LET c == Context(n)
            code == CodeOf(c.fn)
        IN  /\ c.blockStack = LexicalBlocks(code, c.pc)
            /\ c.blockDepth = c.blockStack
            /\ HoldsExactly([i \in DOMAIN c.tryStack |-> c.tryStack[i].catchAddr],
                            code, EnclosingTries(code, c.pc))
            /\ HoldsExactly([i \in DOMAIN c.switchStack |-> c.switchStack[i].endPc],
                            code, EnclosingSwitches(code, c.pc))

\* The body of an arm runs only if the arm was chosen (codegen.cpp: a case that
\* does not match jumps over its entire body).
OnlyChosenArmsRun ==
    \A n \in Active :
        LET c == Context(n)
            code == CodeOf(c.fn)
        IN  status = "running" /\ c.switchStack # <<>> /\ c.pc < Len(code)
              /\ code[c.pc + 1].op \notin {"CA", "MAC_DINH", "KET_THUC_CHUYEN"}
              => ~Top(c.switchStack).skippingCase

\* Structured code never makes the machine fail, except by calling too deep.
NeverFaults == status = "running" /\ ~AtEnd /\ Invalid => Here.op \in {"GOI", "TAO_DOI_TUONG"}

\* What the emitter produces passes the verifier that guards the machine.
EmittedVerifies == \A f \in Function \cup {Root} : Verified(CodeOf(f))

\* What the emitter promises the machine, statement by statement and as a whole.
ScopesKept == ScopeExact /\ OnlyChosenArmsRun /\ NeverFaults /\ EmittedVerifies

---------------------------------------------------------------------------
(***************************************************************************)
(* Action properties.                                                      *)
(***************************************************************************)
Innermost(S) == Max(S)
HandlerLevels == {n \in Active : EnclosingTries(CodeOf(Context(n).fn), Context(n).pc) # {}}
CatchAddress(c) == Target(CodeOf(c.fn), Innermost(EnclosingTries(CodeOf(c.fn), c.pc)))

\* `ném` hands the value to the nearest `bắt lỗi` in the dynamic chain of calls:
\* the innermost `thử` around the throw, or around the innermost call that has one;
\* with none the run ends (docs/runtime-errors.md:8).
ThrowGoesTo(n) ==
    IF n = 0 THEN status' = "uncaught"
    ELSE /\ status' = "running"
         /\ Len(executionStack') = n - 1
         /\ cur'.fn = Context(n).fn
         /\ cur'.pc = CatchAddress(Context(n))
CatchesNearest ==
    [][At("NEM") => ThrowGoesTo(Max(HandlerLevels \cup {0}))]_vars

\* `thoát` ends the nearest `lặp` or `chọn` around it and goes on after it
\* (docs/language-reference.md:84-87).
BreakTarget ==
    LET t == Innermost(EnclosingLoops(Code, cur.pc) \cup EnclosingSwitches(Code, cur.pc))
    IN  IF Code[t + 1].op = "LAP" THEN LoopEnd(Code, t) ELSE Target(Code, t)
BreakLeavesNearest ==
    [][At("THOAT") => status' = "running" /\ cur'.pc = BreakTarget]_vars

\* A throw and a break both go to what is nearest, the one along the calls, the
\* other along the text.
UnwindsToNearest == CatchesNearest /\ BreakLeavesNearest
=============================================================================
