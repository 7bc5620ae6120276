------------------------- MODULE ControlMachineProofs -------------------------
(***************************************************************************)
(* Proofs about the control machine, for every set of programs, whether or *)
(* not the emitter could have produced them, and every call depth.         *)
(***************************************************************************)
EXTENDS ControlMachine, SequenceTheorems, WellFoundedInduction, TLAPS

(***************************************************************************)
(* The inductive invariant.  Type correctness alone is not inductive: a    *)
(* break subtracts from blockDepth what it checked against the block       *)
(* stack, so the counter may never be the smaller of the two, in a running *)
(* function, in a suspended one and in the snapshot of a handler.          *)
(***************************************************************************)
Deep(c) == /\ c.blockStack <= c.blockDepth
           /\ \A i \in DOMAIN c.tryStack :
                 c.tryStack[i].blockStackDepth <= c.tryStack[i].blockDepth
Sound == {c \in Contexts : Deep(c)}

IInv == /\ chunk \in Programs
        /\ cur \in Sound
        /\ executionStack \in Seq(Sound)
        /\ callStack \in Seq(Function)
        /\ trueLeft \in 0 .. MaxTrue
        /\ status \in Statuses
        /\ ContextsBalanced

---------------------------------------------------------------------------
(***************************************************************************)
(* Operators.                                                              *)
(***************************************************************************)

\* A non-empty set of naturals up to a bound has a largest element, and Max is it.
LEMMA MaxOfBounded ==
    ASSUME NEW n \in Nat, NEW S \in SUBSET (0 .. n), S # {}
    PROVE  Max(S) \in S /\ \A y \in S : Max(S) >= y
<1> DEFINE T == {n - x : x \in S}
<1>1. T \subseteq Nat /\ T # {}
  <2>1. \A x \in S : x \in 0 .. n
    OBVIOUS
  <2>2. \A x \in S : n - x \in Nat
    BY <2>1
  <2>3. PICK x \in S : TRUE
    OBVIOUS
  <2>4. n - x \in T
    BY <2>3
  <2> QED BY <2>2, <2>4
<1>2. PICK t \in T : \A y \in T : ~ (<<y, t>> \in OpToRel(<, Nat))
  BY <1>1, NatLessThanWellFounded, WFMin
<1>3. PICK x \in S : t = n - x
  OBVIOUS
<1>4. \A y \in S : x >= y
  <2> TAKE y \in S
  <2>1. ~ (<<n - y, t>> \in OpToRel(<, Nat)) /\ n - y \in Nat /\ t \in Nat
    BY <1>1, <1>2
  <2>2. ~ (n - y < t)
    BY <2>1 DEF OpToRel
  <2> QED BY <1>3, <2>2
<1> QED BY <1>3, <1>4 DEF Max

LEMMA MinOfNaturals ==
    ASSUME NEW S \in SUBSET Nat, S # {}
    PROVE  Min(S) \in S
<1>1. PICK x \in S : \A y \in S : ~ (<<y, x>> \in OpToRel(<, Nat))
  BY NatLessThanWellFounded, WFMin
<1>2. \A y \in S : x =< y
  <2> TAKE y \in S
  <2>1. x \in Nat /\ y \in Nat
    OBVIOUS
  <2>2. ~ (y < x)
    BY <1>1, <2>1 DEF OpToRel
  <2> QED BY <2>1, <2>2
<1> QED BY <1>2 DEF Min

\* A prefix of a sequence is one of its element type.
LEMMA PrefixType ==
    ASSUME NEW S, NEW s \in Seq(S), NEW n \in Int, n <= Len(s)
    PROVE  /\ SubSeq(s, 1, n) \in Seq(S)
           /\ Len(SubSeq(s, 1, n)) = IF n >= 0 THEN n ELSE 0
           /\ \A i \in 1 .. n : SubSeq(s, 1, n)[i] = s[i]
<1>1. \A i \in 1 .. n : s[i] \in S
  OBVIOUS
<1>2. /\ SubSeq(s, 1, n) \in Seq(S)
      /\ Len(SubSeq(s, 1, n)) = IF 1 <= n THEN n - 1 + 1 ELSE 0
      /\ \A i \in 1 .. n - 1 + 1 : SubSeq(s, 1, n)[i] = s[1 + i - 1]
  BY <1>1, SubSeqProperties, 1 \in Int
<1> QED BY <1>2

LEMMA PoppedType ==
    ASSUME NEW S, NEW s \in Seq(S)
    PROVE  /\ Popped(s) \in Seq(S)
           /\ \A i \in DOMAIN Popped(s) : i \in DOMAIN s /\ Popped(s)[i] = s[i]
  BY PrefixType, Len(s) - 1 \in Int, Len(s) - 1 <= Len(s) DEF Popped

---------------------------------------------------------------------------
(***************************************************************************)
(* Contexts.  Every context a step builds is a given one with some of its  *)
(* parts replaced.                                                         *)
(***************************************************************************)
DeepFrames == {t \in Seq(TryFrames) :
                  \A i \in DOMAIN t : t[i].blockStackDepth <= t[i].blockDepth}
With(c, pc, stack, blocks, depth, switches, tries) ==
    [c EXCEPT !.pc = pc, !.stack = stack, !.blockStack = blocks, !.blockDepth = depth,
              !.switchStack = switches, !.tryStack = tries]

LEMMA WithSound ==
    ASSUME NEW c \in Sound, NEW pc \in Nat, NEW stack \in Nat, NEW blocks \in Nat,
           NEW depth \in Nat, blocks <= depth,
           NEW switches \in Seq(SwitchFrames), NEW tries \in DeepFrames
    PROVE  With(c, pc, stack, blocks, depth, switches, tries) \in Sound
<1> DEFINE d == With(c, pc, stack, blocks, depth, switches, tries)
<1>0. c \in Contexts
  BY DEF Sound
<1>1. d \in Contexts
  BY <1>0 DEF With, Contexts, DeepFrames
<1>2. Deep(d)
  BY <1>0 DEF With, Contexts, DeepFrames, Deep
<1> QED BY <1>1, <1>2 DEF Sound

LEMMA SoundParts ==
    ASSUME NEW c \in Sound
    PROVE  /\ c \in Contexts
           /\ c.pc \in Nat /\ c.stack \in Nat /\ c.blockStack \in Nat /\ c.blockDepth \in Nat
           /\ c.blockStack <= c.blockDepth
           /\ c.switchStack \in Seq(SwitchFrames) /\ c.tryStack \in DeepFrames
  BY DEF Sound, Contexts, Deep, DeepFrames

\* Cutting handlers off the end leaves handlers.
LEMMA TriesPrefix ==
    ASSUME NEW t \in DeepFrames, NEW n \in Int, n <= Len(t)
    PROVE  SubSeq(t, 1, n) \in DeepFrames
<1>1. t \in Seq(TryFrames) /\ \A i \in DOMAIN t : t[i].blockStackDepth <= t[i].blockDepth
  BY DEF DeepFrames
<1>2. /\ SubSeq(t, 1, n) \in Seq(TryFrames)
      /\ Len(SubSeq(t, 1, n)) = IF n >= 0 THEN n ELSE 0
      /\ \A i \in 1 .. n : SubSeq(t, 1, n)[i] = t[i]
  BY <1>1, PrefixType
<1>3. \A i \in DOMAIN SubSeq(t, 1, n) : i \in 1 .. n /\ i \in DOMAIN t
  BY <1>1, <1>2
<1> QED BY <1>1, <1>2, <1>3 DEF DeepFrames

---------------------------------------------------------------------------
(***************************************************************************)
(* The instruction at hand, and the contexts, are of their types.          *)
(***************************************************************************)
LEMMA HereType ==
    ASSUME IInv, ~AtEnd
    PROVE  /\ Code \in Seq(Instruction)
           /\ cur.pc \in 0 .. Len(Code) - 1
           /\ Here \in Instruction
           /\ Here.op \in {"GOI", "TAO_DOI_TUONG"} => Here.operandIndex \in Function
<1>1. chunk \in [Function \cup {Root} -> Seq(Instruction)] /\ chunk \in Programs
  BY ProgramsAssumption DEF IInv
<1>2. cur.fn \in Function \cup {Root} /\ cur.pc \in Nat
  BY DEF IInv, Sound, Contexts
<1>3. Code \in Seq(Instruction)
  BY <1>1, <1>2 DEF Code, CodeOf
<1>4. cur.pc \in 0 .. Len(Code) - 1 /\ cur.pc + 1 \in 1 .. Len(Code)
  BY <1>2, <1>3 DEF AtEnd
<1>5. Here.op \in {"GOI", "TAO_DOI_TUONG"} => Here.operandIndex \in Function
  BY <1>1, <1>2, <1>4, ProgramsAssumption DEF Here, Code, CodeOf
<1> QED BY <1>3, <1>4, <1>5 DEF Here

LEMMA ContextType ==
    ASSUME IInv, NEW n \in 1 .. Len(executionStack) + 1
    PROVE  Context(n) \in Sound
<1>1. CASE n <= Len(executionStack)
  <2>1. executionStack[n] \in Sound
    BY <1>1 DEF IInv
  <2> QED BY <1>1, <2>1 DEF Context, Resumed, Sound, Contexts, Deep, Modes
<1>2. CASE ~ (n <= Len(executionStack))
  BY <1>2 DEF Context, IInv
<1> QED BY <1>1, <1>2

\* What every step must show: the invariant, and that the suspended callers below
\* the ones it suspends or resumes are left as they are.
Kept == /\ IInv'
        /\ \/ IsPrefixOf(executionStack, executionStack')
           \/ IsPrefixOf(executionStack', executionStack)

\* A step within the running function that leaves it sound.
LEMMA LocalKeeps ==
    ASSUME IInv, NEW c \in Sound, Local(c)
    PROVE  Kept
<1>1. IInv' /\ executionStack' = executionStack
  BY DEF IInv, Local, ContextsBalanced
<1>2. IsPrefixOf(executionStack, executionStack')
  BY <1>1 DEF IsPrefixOf, IInv
<1> QED BY <1>1, <1>2 DEF Kept

\* So does going back to an outer function in a sound state.
LEMMA PopKeeps ==
    ASSUME IInv, NEW n \in 0 .. Len(executionStack), PopTo(n),
           cur' \in Sound, status' \in Statuses
    PROVE  Kept
<1> DEFINE popped == Len(executionStack) - n
<1>0. /\ executionStack \in Seq(Sound) /\ callStack \in Seq(Function)
      /\ Len(callStack) = Len(executionStack) /\ callDepth = Len(executionStack)
      /\ callDepth <= MaxCallDepth /\ MaxCallDepth \in Nat
      /\ chunk \in Programs /\ trueLeft \in 0 .. MaxTrue
  BY BoundsAssumption DEF IInv, ContextsBalanced
<1>1. /\ executionStack' = SubSeq(executionStack, 1, n)
      /\ callStack' = SubSeq(callStack, 1, Len(callStack) - popped)
      /\ callDepth' = IF callDepth > popped THEN callDepth - popped ELSE 0
      /\ chunk' = chunk /\ trueLeft' = trueLeft
  BY DEF PopTo
<1>2. Len(callStack) - popped = n
  BY <1>0
<1>3. /\ executionStack' \in Seq(Sound) /\ Len(executionStack') = n
      /\ \A i \in 1 .. n : executionStack'[i] = executionStack[i]
  BY <1>0, <1>1, PrefixType
<1>4. callStack' \in Seq(Function) /\ Len(callStack') = n
  BY <1>0, <1>1, <1>2, PrefixType
<1>5. callDepth' = n
  BY <1>0, <1>1
<1>6. IInv'
  BY <1>0, <1>1, <1>3, <1>4, <1>5 DEF IInv, ContextsBalanced
<1>7. IsPrefixOf(executionStack', executionStack)
  <2>1. DOMAIN executionStack' = 1 .. n
    BY <1>3
  <2> QED BY <1>0, <1>3, <2>1 DEF IsPrefixOf
<1> QED BY <1>6, <1>7 DEF Kept

---------------------------------------------------------------------------
(***************************************************************************)
(* The steps of the running function.                                      *)
(***************************************************************************)
LEMMA AtFacts ==
    ASSUME IInv, NEW op, Execute(op)
    PROVE  /\ ~AtEnd /\ ~Invalid /\ status = "running" /\ Here.op = op
           /\ Here \in Instruction
           /\ cur \in Sound
  BY HereType DEF Execute, At, IInv

LEMMA NextInstruction == ASSUME NEW c \in Sound PROVE After(c) \in Sound
<1>1. After(c) = With(c, c.pc + 1, c.stack, c.blockStack, c.blockDepth, c.switchStack,
                      c.tryStack)
  BY SoundParts DEF After, With, Contexts
<1>2. With(c, c.pc + 1, c.stack, c.blockStack, c.blockDepth, c.switchStack, c.tryStack)
         \in Sound
  <2>1. c.pc + 1 \in Nat /\ c.stack \in Nat /\ c.blockStack \in Nat /\ c.blockDepth \in Nat
        /\ c.blockStack <= c.blockDepth
        /\ c.switchStack \in Seq(SwitchFrames) /\ c.tryStack \in DeepFrames
    BY SoundParts
  <2> QED BY ONLY c \in Sound, <2>1, WithSound
<1> QED BY <1>1, <1>2

LEMMA ValueKeeps == ASSUME IInv, Value PROVE Kept
<1>1. cur \in Sound
  BY DEF IInv
<1> DEFINE stack == IF Here.op = "NATIVE" /\ Skipping THEN cur.stack ELSE cur.stack + 1
           c == [cur EXCEPT !.stack = IF Here.op = "NATIVE" /\ Skipping THEN @ ELSE @ + 1]
<1>2. c = With(cur, cur.pc, stack, cur.blockStack, cur.blockDepth, cur.switchStack,
               cur.tryStack)
  BY <1>1, SoundParts DEF With, Contexts
<1>3. stack \in Nat
  BY <1>1, SoundParts
<1>4. Local(After(c))
  BY DEF Value
<1> HIDE DEF stack, c
<1>5. c \in Sound
  BY <1>1, <1>2, <1>3, SoundParts, WithSound
<1> QED BY <1>4, <1>5, NextInstruction, LocalKeeps

LEMMA OutputKeeps == ASSUME IInv, Output PROVE Kept
<1>1. Execute("IN")
  BY DEF Output
<1>2. cur \in Sound /\ cur.stack # 0
  BY <1>1, AtFacts DEF Invalid
<1> DEFINE c == After([cur EXCEPT !.stack = @ - 1])
<1>3. c = With(cur, cur.pc + 1, cur.stack - 1, cur.blockStack, cur.blockDepth,
               cur.switchStack, cur.tryStack)
  BY <1>2, SoundParts DEF After, With, Contexts
<1>4. c \in Sound
  <2>1. /\ cur.pc + 1 \in Nat
        /\ cur.stack - 1 \in Nat
        /\ cur.blockStack \in Nat
        /\ cur.blockDepth \in Nat
        /\ cur.switchStack \in Seq(SwitchFrames)
        /\ cur.tryStack \in DeepFrames
        /\ cur.blockStack <= cur.blockDepth
    BY <1>2, <1>3, SoundParts
  <2> QED BY <1>2, <1>3, <2>1, WithSound
<1> QED BY <1>4, LocalKeeps DEF Output

LEMMA MarkerKeeps == ASSUME IInv, Marker PROVE Kept
<1>1. PICK op \in {"GAN", "NEU", "LAP", "DIEU_KIEN", "CAP_NHAT"} : Execute(op)
  BY DEF Marker
<1>2. cur \in Sound
  BY <1>1, AtFacts
<1>3. After(cur) = With(cur, cur.pc + 1, cur.stack, cur.blockStack, cur.blockDepth,
                        cur.switchStack, cur.tryStack)
  BY <1>2, SoundParts DEF After, With, Contexts
<1>4. After(cur) \in Sound
  <2>1. /\ cur.pc + 1 \in Nat
        /\ cur.stack \in Nat
        /\ cur.blockStack \in Nat
        /\ cur.blockDepth \in Nat
        /\ cur.switchStack \in Seq(SwitchFrames)
        /\ cur.tryStack \in DeepFrames
        /\ cur.blockStack <= cur.blockDepth
    BY <1>2, <1>3, SoundParts
  <2>2. With(cur, cur.pc + 1, cur.stack, cur.blockStack, cur.blockDepth,
             cur.switchStack, cur.tryStack) \in Sound
    BY <1>2, <2>1, WithSound
  <2> QED BY <1>3, <2>2
<1> QED BY <1>4, LocalKeeps DEF Marker

LEMMA JumpKeeps == ASSUME IInv, Jump PROVE Kept
<1>1. Execute("JUMP")
  BY DEF Jump
<1>2. cur \in Sound /\ Here.operand \in Nat
  BY <1>1, AtFacts DEF Instruction
<1>3. Goto(cur, Here.operand) = With(cur, Here.operand, cur.stack, cur.blockStack,
                                     cur.blockDepth, cur.switchStack, cur.tryStack)
  BY <1>2, SoundParts DEF Goto, With, Contexts
<1>4. Goto(cur, Here.operand) \in Sound
  <2>1. /\ Here.operand \in Nat
        /\ cur.stack \in Nat
        /\ cur.blockStack \in Nat
        /\ cur.blockDepth \in Nat
        /\ cur.switchStack \in Seq(SwitchFrames)
        /\ cur.tryStack \in DeepFrames
        /\ cur.blockStack <= cur.blockDepth
    BY <1>2, <1>3, SoundParts
  <2>2. With(cur, Here.operand, cur.stack, cur.blockStack, cur.blockDepth,
             cur.switchStack, cur.tryStack) \in Sound
    BY ONLY <1>2, <2>1, WithSound
  <2> QED BY <1>3, <2>2
<1> QED BY <1>4, LocalKeeps DEF Jump

LEMMA JumpIfFalseKeeps == ASSUME IInv, JumpIfFalse PROVE Kept
<1>1. Execute("JUMP_IF_FALSE")
  BY DEF JumpIfFalse
<1>2. cur \in Sound /\ cur.stack # 0 /\ Here.operand \in Nat
  BY <1>1, AtFacts DEF Invalid, Instruction
<1> DEFINE c == [cur EXCEPT !.stack = @ - 1]
<1>3. /\ Goto(c, Here.operand) = With(cur, Here.operand, cur.stack - 1, cur.blockStack,
                                      cur.blockDepth, cur.switchStack, cur.tryStack)
      /\ After(c) = With(cur, cur.pc + 1, cur.stack - 1, cur.blockStack, cur.blockDepth,
                         cur.switchStack, cur.tryStack)
  BY <1>2, SoundParts DEF Goto, After, With, Contexts
<1>4. Goto(c, Here.operand) \in Sound /\ After(c) \in Sound
  <2>1. /\ Here.operand \in Nat
        /\ cur.stack - 1 \in Nat
        /\ cur.blockStack \in Nat
        /\ cur.blockDepth \in Nat
        /\ cur.switchStack \in Seq(SwitchFrames)
        /\ cur.tryStack \in DeepFrames
        /\ cur.blockStack <= cur.blockDepth
        /\ cur.pc + 1 \in Nat
    BY <1>2, <1>3, SoundParts
  <2> QED BY <1>2, <1>3, <2>1, WithSound
<1> HIDE DEF c
<1>5. trueLeft \in 0 .. MaxTrue /\ MaxTrue \in Nat
  BY BoundsAssumption DEF IInv
<1>6. /\ cur' \in Sound /\ trueLeft' \in 0 .. MaxTrue
      /\ UNCHANGED <<chunk, executionStack, callStack, callDepth, status>>
  BY <1>4, <1>5 DEF JumpIfFalse, c
<1>7. IInv'
  BY <1>6 DEF IInv, ContextsBalanced
<1>8. IsPrefixOf(executionStack, executionStack')
  BY <1>6 DEF IsPrefixOf, IInv
<1> QED BY <1>7, <1>8 DEF Kept

LEMMA OpenBlockKeeps == ASSUME IInv, OpenBlock PROVE Kept
<1>1. Execute("MO_KHOI")
  BY DEF OpenBlock
<1>2. cur \in Sound
  BY <1>1, AtFacts
<1> DEFINE c == After([cur EXCEPT !.blockStack = @ + 1, !.blockDepth = @ + 1])
<1>3. c = With(cur, cur.pc + 1, cur.stack, cur.blockStack + 1, cur.blockDepth + 1,
               cur.switchStack, cur.tryStack)
  BY <1>2, SoundParts DEF After, With, Contexts
<1>4. c \in Sound
  <2>1. /\ cur.pc + 1 \in Nat
        /\ cur.stack \in Nat
        /\ cur.blockStack + 1 \in Nat
        /\ cur.blockDepth + 1 \in Nat
        /\ cur.switchStack \in Seq(SwitchFrames)
        /\ cur.tryStack \in DeepFrames
        /\ cur.blockStack + 1 <= cur.blockDepth + 1
    BY <1>2, <1>3, SoundParts
  <2> QED BY <1>2, <1>3, <2>1, WithSound
<1> QED BY <1>4, LocalKeeps DEF OpenBlock

LEMMA CloseBlockKeeps == ASSUME IInv, CloseBlock PROVE Kept
<1>1. Execute("DONG_KHOI")
  BY DEF CloseBlock
<1>2. cur \in Sound /\ cur.blockStack # 0
  BY <1>1, AtFacts DEF Invalid
<1> DEFINE switches == DropSwitchOfBlock(cur.switchStack, cur.blockStack - 1)
           c == After([cur EXCEPT
                  !.blockStack = @ - 1,
                  !.blockDepth = Floor(@ - 1),
                  !.switchStack = DropSwitchOfBlock(@, cur.blockStack - 1)])
<1>3. switches \in Seq(SwitchFrames)
  BY <1>2, SoundParts, PoppedType DEF DropSwitchOfBlock
<1>4. c = With(cur, cur.pc + 1, cur.stack, cur.blockStack - 1, Floor(cur.blockDepth - 1),
               switches, cur.tryStack)
  BY <1>2, SoundParts DEF After, With, Contexts
<1>5. cur.blockStack - 1 \in Nat /\ Floor(cur.blockDepth - 1) \in Nat
      /\ cur.blockStack - 1 <= Floor(cur.blockDepth - 1)
  BY <1>2, SoundParts DEF Floor
<1> HIDE DEF switches
<1>6. c \in Sound
  <2>1. /\ cur.pc + 1 \in Nat
        /\ cur.stack \in Nat
        /\ cur.blockStack - 1 \in Nat
        /\ Floor(cur.blockDepth - 1) \in Nat
        /\ switches \in Seq(SwitchFrames)
        /\ cur.tryStack \in DeepFrames
        /\ cur.blockStack - 1 <= Floor(cur.blockDepth - 1)
    BY <1>2, <1>3, <1>4, <1>5, SoundParts
  <2> QED BY <1>2, <1>3, <1>4, <1>5, <2>1, WithSound
<1> QED BY <1>6, LocalKeeps DEF CloseBlock

LEMMA OpenSwitchKeeps == ASSUME IInv, OpenSwitch PROVE Kept
<1>1. Execute("CHON")
  BY DEF OpenSwitch
<1>2. cur \in Sound /\ cur.stack # 0 /\ Here.operand \in Nat
  BY <1>1, AtFacts DEF Invalid, Instruction
<1> DEFINE frame == [endPc |-> Here.operand, skippingCase |-> TRUE, caseMatched |-> FALSE,
                     blockDepthAtStart |-> cur.blockStack,
                     tryDepthAtStart |-> Len(cur.tryStack)]
           c == After([cur EXCEPT !.stack = @ - 1, !.switchStack = Append(@, frame)])
<1>3. frame \in SwitchFrames
  BY <1>2, SoundParts DEF SwitchFrames, DeepFrames
<1> HIDE DEF frame
<1>4. Append(cur.switchStack, frame) \in Seq(SwitchFrames)
  BY <1>2, <1>3, SoundParts
<1>5. c = With(cur, cur.pc + 1, cur.stack - 1, cur.blockStack, cur.blockDepth,
               Append(cur.switchStack, frame), cur.tryStack)
  BY <1>2, SoundParts DEF After, With, Contexts
<1>6. c \in Sound
  <2>1. /\ cur.pc + 1 \in Nat
        /\ cur.stack - 1 \in Nat
        /\ cur.blockStack \in Nat
        /\ cur.blockDepth \in Nat
        /\ Append(cur.switchStack, frame) \in Seq(SwitchFrames)
        /\ cur.tryStack \in DeepFrames
        /\ cur.blockStack <= cur.blockDepth
    BY <1>2, <1>4, <1>5, SoundParts
  <2>2. With(cur, cur.pc + 1, cur.stack - 1, cur.blockStack, cur.blockDepth,
             Append(cur.switchStack, frame), cur.tryStack) \in Sound
    BY ONLY <1>2, <2>1, WithSound
  <2> QED BY <1>5, <2>2
<1> QED BY <1>6, LocalKeeps DEF OpenSwitch, frame

LEMMA EnterArmKeeps ==
    ASSUME IInv, NEW op \in {"CA", "MAC_DINH"}, Execute(op), NEW enter \in BOOLEAN,
           EnterArm(enter)
    PROVE  Kept
<1>1. cur \in Sound /\ cur.switchStack # <<>> /\ Here.operandValue \in Nat
  BY AtFacts DEF Invalid, Instruction
<1> DEFINE frame == [Top(cur.switchStack) EXCEPT !.skippingCase = ~enter,
                                                 !.caseMatched = @ \/ enter]
           c == [cur EXCEPT !.switchStack = Append(Popped(@), frame)]
<1>2. Top(cur.switchStack) \in SwitchFrames
  BY <1>1, SoundParts DEF Top
<1>3. frame \in SwitchFrames
  BY <1>2, Zenon DEF SwitchFrames
<1> HIDE DEF frame
<1>4. Append(Popped(cur.switchStack), frame) \in Seq(SwitchFrames)
  BY <1>1, <1>3, SoundParts, PoppedType
<1>5. /\ Goto(c, Here.operandValue) =
            With(cur, Here.operandValue, cur.stack, cur.blockStack, cur.blockDepth,
                 Append(Popped(cur.switchStack), frame), cur.tryStack)
      /\ After(c) = With(cur, cur.pc + 1, cur.stack, cur.blockStack, cur.blockDepth,
                         Append(Popped(cur.switchStack), frame), cur.tryStack)
  BY <1>1, SoundParts DEF Goto, After, With, Contexts
<1>6. Goto(c, Here.operandValue) \in Sound /\ After(c) \in Sound
  <2>1. /\ Here.operandValue \in Nat
        /\ cur.stack \in Nat
        /\ cur.blockStack \in Nat
        /\ cur.blockDepth \in Nat
        /\ Append(Popped(cur.switchStack), frame) \in Seq(SwitchFrames)
        /\ cur.tryStack \in DeepFrames
        /\ cur.blockStack <= cur.blockDepth
        /\ cur.pc + 1 \in Nat
    BY <1>1, <1>4, <1>5, SoundParts
  <2>2. /\ With(cur, Here.operandValue, cur.stack, cur.blockStack, cur.blockDepth,
                Append(Popped(cur.switchStack), frame), cur.tryStack) \in Sound
        /\ With(cur, cur.pc + 1, cur.stack, cur.blockStack, cur.blockDepth,
                Append(Popped(cur.switchStack), frame), cur.tryStack) \in Sound
    BY ONLY <1>1, <2>1, WithSound
  <2> QED BY <1>5, <2>2
<1> HIDE DEF c
<1>7. PICK d \in Sound : Local(d)
  BY <1>6 DEF EnterArm, frame, c
<1> QED BY <1>7, LocalKeeps

LEMMA CaseKeeps == ASSUME IInv, Case PROVE Kept
<1>1. Execute("CA")
  BY DEF Case
<1>2. PICK match \in BOOLEAN : EnterArm(match /\ ~Top(cur.switchStack).caseMatched)
  BY DEF Case
<1>3. (match /\ ~Top(cur.switchStack).caseMatched) \in BOOLEAN
  OBVIOUS
<1> QED BY <1>1, <1>2, <1>3, EnterArmKeeps

LEMMA DefaultKeeps == ASSUME IInv, Default PROVE Kept
<1>1. Execute("MAC_DINH") /\ EnterArm(~Top(cur.switchStack).caseMatched)
  BY DEF Default
<1>2. (~Top(cur.switchStack).caseMatched) \in BOOLEAN
  OBVIOUS
<1> QED BY <1>1, <1>2, EnterArmKeeps

LEMMA CloseSwitchKeeps == ASSUME IInv, CloseSwitch PROVE Kept
<1>1. Execute("KET_THUC_CHUYEN")
  BY DEF CloseSwitch
<1>2. cur \in Sound
  BY <1>1, AtFacts
<1> DEFINE c == After([cur EXCEPT !.switchStack = Popped(@)])
<1>3. Popped(cur.switchStack) \in Seq(SwitchFrames)
  BY <1>2, SoundParts, PoppedType
<1>4. c = With(cur, cur.pc + 1, cur.stack, cur.blockStack, cur.blockDepth,
               Popped(cur.switchStack), cur.tryStack)
  BY <1>2, SoundParts DEF After, With, Contexts
<1>5. c \in Sound
  <2>1. /\ cur.pc + 1 \in Nat
        /\ cur.stack \in Nat
        /\ cur.blockStack \in Nat
        /\ cur.blockDepth \in Nat
        /\ Popped(cur.switchStack) \in Seq(SwitchFrames)
        /\ cur.tryStack \in DeepFrames
        /\ cur.blockStack <= cur.blockDepth
    BY <1>2, <1>3, <1>4, SoundParts
  <2> QED BY <1>2, <1>3, <1>4, <2>1, WithSound
<1> QED BY <1>5, LocalKeeps DEF CloseSwitch

LEMMA OuterType ==
    ASSUME NEW S, NEW s \in Seq(S), NEW blocks
    PROVE  Outer(s, blocks) \in Seq(S)
<1> DEFINE kept == {0} \cup {n \in DOMAIN s : s[n].blockDepthAtStart <= blocks}
<1>1. kept \subseteq 0 .. Len(s) /\ kept # {} /\ Len(s) \in Nat
  OBVIOUS
<1>2. Max(kept) \in kept
  BY <1>1, MaxOfBounded
<1>3. Max(kept) \in Int /\ Max(kept) <= Len(s)
  BY <1>1, <1>2
<1> HIDE DEF kept
<1>4. SubSeq(s, 1, Max(kept)) \in Seq(S)
  BY <1>3, PrefixType
<1> QED BY <1>4 DEF Outer, kept

LEMMA ExitLoopSound ==
    ASSUME IInv, Execute("THOAT"), ~Skipping, LoopBreak
    PROVE  ExitLoop(cur) \in Sound
<1>1. /\ cur \in Sound /\ ~Invalid /\ Here.op = "THOAT"
      /\ Here.operand \in Nat /\ Here.operandValue \in Nat /\ Here.operandIndex \in Int
  BY AtFacts DEF Instruction
<1>2. ~BreakOfLoopInvalid
  BY <1>1 DEF Invalid
<1> DEFINE blocks == cur.blockStack - BlocksToExit
           depth == cur.blockDepth - BlocksToExit
           switches == Outer(cur.switchStack, blocks)
           tries == SubSeq(cur.tryStack, 1, Len(cur.tryStack) - Here.operandValue)
<1>3. blocks \in Nat /\ depth \in Nat /\ blocks <= depth
  BY <1>1, <1>2, SoundParts DEF BlocksToExit, LoopBreak, BreakOfLoopInvalid
<1>4. switches \in Seq(SwitchFrames)
  BY <1>1, SoundParts, OuterType
<1>5. tries \in DeepFrames
  <2>1. cur.tryStack \in DeepFrames /\ Len(cur.tryStack) \in Nat
    BY <1>1, SoundParts DEF DeepFrames
  <2>2. Len(cur.tryStack) - Here.operandValue \in Int
        /\ Len(cur.tryStack) - Here.operandValue <= Len(cur.tryStack)
    BY <1>1, <2>1
  <2> QED BY <2>1, <2>2, TriesPrefix
<1>6. ExitLoop(cur) = With(cur, Here.operand, cur.stack, blocks, depth, switches, tries)
  BY <1>1, SoundParts DEF ExitLoop, With, Contexts
<1> HIDE DEF blocks, depth, switches, tries
<1>7. With(cur, Here.operand, cur.stack, blocks, depth, switches, tries) \in Sound
  <2>1. cur.stack \in Nat
    BY <1>1, SoundParts
  <2> QED BY ONLY <1>1, <1>3, <1>4, <1>5, <2>1, WithSound
<1> QED BY <1>6, <1>7

LEMMA ExitSwitchSound ==
    ASSUME IInv, Execute("THOAT"), ~Skipping, ~LoopBreak
    PROVE  ExitSwitch(cur) \in Sound
<1>1. cur \in Sound /\ ~Invalid /\ Here.op = "THOAT"
  BY AtFacts
<1>2. ~BreakOfSwitchInvalid
  BY <1>1 DEF Invalid
<1> DEFINE frame == Top(cur.switchStack)
           depth == cur.blockDepth - (cur.blockStack - frame.blockDepthAtStart)
           tries == SubSeq(cur.tryStack, 1, frame.tryDepthAtStart)
<1>3. frame \in SwitchFrames
  BY <1>1, <1>2, SoundParts DEF BreakOfSwitchInvalid, Top
<1>4. /\ frame.endPc \in Nat /\ frame.blockDepthAtStart \in Nat /\ frame.tryDepthAtStart \in Nat
      /\ frame.blockDepthAtStart <= cur.blockStack
      /\ frame.tryDepthAtStart <= Len(cur.tryStack)
  BY <1>1, <1>2, <1>3, SoundParts DEF BreakOfSwitchInvalid, SwitchFrames, DeepFrames
<1>5. ExitSwitch(cur) = With(cur, frame.endPc, cur.stack, frame.blockDepthAtStart, depth,
                             cur.switchStack, tries)
  BY <1>1, SoundParts DEF ExitSwitch, With, Contexts
<1> HIDE DEF frame
<1>6. depth \in Nat /\ frame.blockDepthAtStart <= depth
  BY <1>1, <1>4, SoundParts
<1>7. tries \in DeepFrames
  BY <1>1, <1>4, SoundParts, TriesPrefix
<1> HIDE DEF depth, tries
<1>8. With(cur, frame.endPc, cur.stack, frame.blockDepthAtStart, depth, cur.switchStack, tries)
         \in Sound
  <2>1. cur.stack \in Nat /\ cur.switchStack \in Seq(SwitchFrames)
    BY <1>1, SoundParts
  <2> QED BY ONLY <1>1, <1>4, <1>6, <1>7, <2>1, WithSound
<1> QED BY <1>5, <1>8

LEMMA BreakKeeps == ASSUME IInv, Break PROVE Kept
<1>1. Execute("THOAT") /\ cur \in Sound
  BY AtFacts DEF Break
<1>2. CASE Skipping
  BY <1>1, <1>2, NextInstruction, LocalKeeps DEF Break
<1>3. CASE ~Skipping /\ LoopBreak
  <2>1. ExitLoop(cur) \in Sound
    BY <1>1, <1>3, ExitLoopSound
  <2>2. Local(ExitLoop(cur))
    BY <1>3 DEF Break
  <2> QED BY <2>1, <2>2, LocalKeeps
<1>4. CASE ~Skipping /\ ~LoopBreak
  <2>1. ExitSwitch(cur) \in Sound
    BY <1>1, <1>4, ExitSwitchSound
  <2>2. Local(ExitSwitch(cur))
    BY <1>4 DEF Break
  <2> QED BY <2>1, <2>2, LocalKeeps
<1> QED BY <1>2, <1>3, <1>4

LEMMA ContinueKeeps == ASSUME IInv, Continue PROVE Kept
<1>1. cur \in Sound /\ Updates # {} /\ Code \in Seq(Instruction)
  BY AtFacts, HereType DEF Continue, Invalid
<1>2. Updates \subseteq Nat
  BY <1>1, SoundParts DEF Updates
<1> DEFINE update == Min(Updates)
           closed == CloseBlocks(update)
           next == update + 1
<1>3. update \in Nat /\ next \in Nat
  <2>1. Min(Updates) \in Updates
    BY <1>1, <1>2, MinOfNaturals
  <2>2. update \in Nat
    BY <1>2, <2>1
  <2> HIDE DEF update
  <2> QED BY <2>2
<1>4. closed \in Nat
  <2> DEFINE counts == {n \in 1 .. Len(Code) : \E j \in cur.pc + 1 .. update :
                 n = Between("DONG_KHOI", cur.pc + 1, j) - Between("MO_KHOI", cur.pc + 1, j)}
  <2>1. {0} \cup counts \subseteq 0 .. Len(Code) /\ {0} \cup counts # {} /\ Len(Code) \in Nat
    BY <1>1
  <2> DEFINE all == {0} \cup counts
  <2> HIDE DEF counts
  <2>2. all \in SUBSET (0 .. Len(Code)) /\ all # {} /\ Len(Code) \in Nat
        /\ all \subseteq Nat
    BY <2>1
  <2> HIDE DEF all
  <2>3. Max(all) \in all
    BY <2>2, MaxOfBounded
  <2>4. Max(all) \in Nat
    BY <2>2, <2>3, Zenon
  <2> QED BY <2>4 DEF CloseBlocks, counts, all
<1> DEFINE blocks == Floor(cur.blockStack - closed)
           depth == Floor(cur.blockDepth - closed)
<1>5. Local([cur EXCEPT !.pc = next, !.blockStack = Floor(@ - closed),
                        !.blockDepth = Floor(@ - closed)])
  BY DEF Continue
<1> HIDE DEF update, closed, next
<1>6. blocks \in Nat /\ depth \in Nat /\ blocks <= depth
  BY <1>1, <1>4, SoundParts DEF Floor
<1>7. Local(With(cur, next, cur.stack, blocks, depth, cur.switchStack, cur.tryStack))
  <2>1. [cur EXCEPT !.pc = next, !.blockStack = Floor(@ - closed),
                    !.blockDepth = Floor(@ - closed)]
           = With(cur, next, cur.stack, blocks, depth, cur.switchStack, cur.tryStack)
    BY <1>1, SoundParts DEF With, Contexts
  <2> QED BY <1>5, <2>1
<1> HIDE DEF blocks, depth
<1>8. With(cur, next, cur.stack, blocks, depth, cur.switchStack, cur.tryStack) \in Sound
  <2>1. cur.stack \in Nat /\ cur.switchStack \in Seq(SwitchFrames) /\ cur.tryStack \in DeepFrames
    BY <1>1, SoundParts
  <2> QED BY ONLY <1>1, <1>3, <1>6, <2>1, WithSound
<1> QED BY <1>7, <1>8, LocalKeeps

---------------------------------------------------------------------------
(***************************************************************************)
(* Handlers.                                                               *)
(***************************************************************************)
LEMMA EnterTryKeeps == ASSUME IInv, EnterTry PROVE Kept
<1>1. Execute("THU")
  BY DEF EnterTry
<1>2. cur \in Sound /\ Here.operand \in Nat
  BY <1>1, AtFacts DEF Instruction
<1> DEFINE frame == [catchAddr |-> Here.operand, stackDepth |-> cur.stack,
                     blockStackDepth |-> cur.blockStack,
                     switchStackDepth |-> Len(cur.switchStack),
                     blockDepth |-> cur.blockDepth]
           tries == Append(cur.tryStack, frame)
<1>3. frame \in TryFrames /\ frame.blockStackDepth <= frame.blockDepth
  BY <1>2, SoundParts DEF TryFrames
<1>4. Local(After([cur EXCEPT !.tryStack = Append(@, frame)]))
  BY DEF EnterTry
<1> HIDE DEF frame
<1>5. tries \in DeepFrames
  <2>1. cur.tryStack \in Seq(TryFrames)
        /\ \A i \in DOMAIN cur.tryStack :
              cur.tryStack[i].blockStackDepth <= cur.tryStack[i].blockDepth
    BY <1>2, SoundParts DEF DeepFrames
  <2>2. tries \in Seq(TryFrames)
    BY <1>3, <2>1
  <2>3. \A i \in DOMAIN tries : tries[i].blockStackDepth <= tries[i].blockDepth
    BY <1>3, <2>1
  <2> QED BY <2>2, <2>3 DEF DeepFrames
<1>6. [cur EXCEPT !.tryStack = Append(@, frame)]
         = With(cur, cur.pc, cur.stack, cur.blockStack, cur.blockDepth, cur.switchStack, tries)
  BY <1>2, SoundParts DEF With, Contexts
<1> HIDE DEF tries
<1>7. With(cur, cur.pc, cur.stack, cur.blockStack, cur.blockDepth, cur.switchStack, tries)
         \in Sound
  BY <1>2, <1>5, SoundParts, WithSound
<1> QED BY <1>4, <1>6, <1>7, NextInstruction, LocalKeeps

LEMMA LeaveTryKeeps == ASSUME IInv, LeaveTry PROVE Kept
<1>1. Execute("THU_KET_THUC")
  BY DEF LeaveTry
<1>2. cur \in Sound /\ Here.operand \in Nat
  BY <1>1, AtFacts DEF Instruction
<1> DEFINE tries == IF cur.tryStack = <<>> THEN cur.tryStack ELSE Popped(cur.tryStack)
<1>3. tries \in DeepFrames
  <2>1. cur.tryStack \in DeepFrames /\ Len(cur.tryStack) \in Nat
    BY <1>2, SoundParts DEF DeepFrames
  <2>2. Popped(cur.tryStack) \in DeepFrames
    BY <2>1, TriesPrefix, Len(cur.tryStack) - 1 \in Int,
       Len(cur.tryStack) - 1 <= Len(cur.tryStack) DEF Popped
  <2> QED BY <2>1, <2>2
<1>4. Local(With(cur, Here.operand, cur.stack, cur.blockStack, cur.blockDepth,
                 cur.switchStack, tries))
  <2>1. Goto([cur EXCEPT !.tryStack = IF @ = <<>> THEN @ ELSE Popped(@)], Here.operand)
           = With(cur, Here.operand, cur.stack, cur.blockStack, cur.blockDepth,
                  cur.switchStack, tries)
    BY <1>2, SoundParts DEF Goto, With, Contexts
  <2> QED BY <2>1 DEF LeaveTry
<1> HIDE DEF tries
<1>5. With(cur, Here.operand, cur.stack, cur.blockStack, cur.blockDepth, cur.switchStack, tries)
         \in Sound
  <2>1. cur.stack \in Nat /\ cur.blockStack \in Nat /\ cur.blockDepth \in Nat
        /\ cur.blockStack <= cur.blockDepth /\ cur.switchStack \in Seq(SwitchFrames)
    BY <1>2, SoundParts
  <2> QED BY ONLY <1>2, <1>3, <2>1, WithSound
<1> QED BY <1>4, <1>5, LocalKeeps

LEMMA BindKeeps == ASSUME IInv, Bind PROVE Kept
<1>1. cur \in Sound
  BY DEF IInv
<1>2. [cur EXCEPT !.stack = Floor(@ - 1)]
         = With(cur, cur.pc, Floor(cur.stack - 1), cur.blockStack, cur.blockDepth,
                cur.switchStack, cur.tryStack)
  BY <1>1, SoundParts DEF With, Contexts
<1>3. With(cur, cur.pc, Floor(cur.stack - 1), cur.blockStack, cur.blockDepth,
           cur.switchStack, cur.tryStack) \in Sound
  <2>1. Floor(cur.stack - 1) \in Nat
    BY <1>1, SoundParts DEF Floor
  <2> QED BY <1>1, <2>1, SoundParts, WithSound
<1> QED BY <1>2, <1>3, NextInstruction, LocalKeeps DEF Bind

LEMMA CaughtSound ==
    ASSUME NEW c \in Sound, c.tryStack # <<>>
    PROVE  Caught(c) \in Sound
<1>1. /\ c.tryStack \in DeepFrames /\ c.tryStack \in Seq(TryFrames) /\ Len(c.tryStack) \in Nat
      /\ \A i \in DOMAIN c.tryStack : c.tryStack[i].blockStackDepth <= c.tryStack[i].blockDepth
  BY SoundParts DEF DeepFrames
<1>2. Len(c.tryStack) \in DOMAIN c.tryStack
  BY <1>1
<1> DEFINE frame == Top(c.tryStack)
<1>3. frame \in TryFrames /\ frame.blockStackDepth <= frame.blockDepth
  BY <1>1, <1>2 DEF Top
<1> DEFINE stack == AtMost(c.stack, frame.stackDepth) + 1
           blocks == AtMost(c.blockStack, frame.blockStackDepth)
           switches == Cut(c.switchStack, frame.switchStackDepth)
           tries == Popped(c.tryStack)
<1>4. Caught(c) = With(c, frame.catchAddr, stack, blocks, frame.blockDepth, switches, tries)
  BY SoundParts DEF Caught, With, Contexts
<1> HIDE DEF frame
<1>5. /\ stack \in Nat /\ blocks \in Nat /\ blocks <= frame.blockDepth
      /\ frame.catchAddr \in Nat /\ frame.blockDepth \in Nat /\ frame.switchStackDepth \in Nat
  BY <1>3, SoundParts DEF AtMost, TryFrames
<1>6. switches \in Seq(SwitchFrames)
  <2>1. c.switchStack \in Seq(SwitchFrames) /\ Len(c.switchStack) \in Nat
    BY SoundParts
  <2>2. CASE Len(c.switchStack) > frame.switchStackDepth
    <3>1. SubSeq(c.switchStack, 1, frame.switchStackDepth) \in Seq(SwitchFrames)
      BY <1>5, <2>1, <2>2, PrefixType
    <3> QED BY <2>2, <3>1 DEF Cut
  <2> QED BY <2>1, <2>2 DEF Cut
<1>7. tries \in DeepFrames
  BY <1>1, TriesPrefix, Len(c.tryStack) - 1 \in Int,
     Len(c.tryStack) - 1 <= Len(c.tryStack) DEF Popped
<1> HIDE DEF stack, blocks, switches, tries
<1>8. With(c, frame.catchAddr, stack, blocks, frame.blockDepth, switches, tries) \in Sound
  BY ONLY c \in Sound, <1>5, <1>6, <1>7, WithSound
<1> QED BY <1>4, <1>8

\* The function a thrown value comes to is sound, and its handlers are untouched.
LEMMA UnwoundType ==
    ASSUME IInv, NEW n \in 1 .. Len(executionStack) + 1
    PROVE  Unwound(n) \in Sound /\ Unwound(n).tryStack = Context(n).tryStack
<1>1. cur \in Sound /\ Context(n) \in Sound
  BY ContextType DEF IInv
<1>2. [cur EXCEPT !.stack = Floor(@ - 1)]
         = With(cur, cur.pc, Floor(cur.stack - 1), cur.blockStack, cur.blockDepth,
                cur.switchStack, cur.tryStack)
  BY <1>1, SoundParts DEF With, Contexts
<1>3. With(cur, cur.pc, Floor(cur.stack - 1), cur.blockStack, cur.blockDepth,
           cur.switchStack, cur.tryStack) \in Sound
  <2>1. Floor(cur.stack - 1) \in Nat
    BY <1>1, SoundParts DEF Floor
  <2> QED BY <1>1, <2>1, SoundParts, WithSound
<1>4. [cur EXCEPT !.stack = Floor(@ - 1)].tryStack = cur.tryStack
  BY <1>1, SoundParts DEF Contexts
<1>5. Thrower \in Sound /\ Thrower.tryStack = cur.tryStack
  BY <1>1, <1>2, <1>3, <1>4 DEF Thrower
<1> QED BY <1>1, <1>5 DEF Unwound, Context

\* Where a thrown value is caught is an active function.
LEMMA CatcherType ==
    ASSUME IInv, Catchers # {}
    PROVE  /\ Max(Catchers) \in 1 .. Len(executionStack) + 1
           /\ Context(Max(Catchers)).tryStack # <<>>
<1> DEFINE n == Len(executionStack) + 1
<1>1. n \in Nat
  BY DEF IInv
<1>2. Catchers \subseteq 0 .. n
  BY <1>1 DEF Catchers
<1> HIDE DEF n
<1>3. Max(Catchers) \in Catchers
  BY <1>1, <1>2, MaxOfBounded
<1> QED BY <1>3 DEF Catchers

LEMMA ThrowKeeps == ASSUME IInv, Throw PROVE Kept
<1>1. status = "running" /\ Len(executionStack) \in Nat
  BY DEF Throw, Execute, At, IInv
<1>2. CASE Catchers = {}
  <2>1. cur' = Unwound(1) /\ status' = "uncaught" /\ PopTo(0)
    BY <1>2 DEF Throw
  <2>2. Unwound(1) \in Sound
    BY <1>1, UnwoundType
  <2>3. status' \in Statuses
    BY <2>1 DEF Statuses
  <2> QED BY <1>1, <2>1, <2>2, <2>3, PopKeeps
<1>3. CASE Catchers # {}
  <2>1. PICK n \in 1 .. Len(executionStack) + 1 :
           /\ Context(n).tryStack # <<>>
           /\ cur' = Caught(Unwound(n)) /\ status' = status /\ PopTo(n - 1)
    BY <1>3, CatcherType DEF Throw
  <2>2. cur' \in Sound
    BY <2>1, UnwoundType, CaughtSound
  <2>3. n - 1 \in 0 .. Len(executionStack) /\ status' \in Statuses
    BY <1>1, <2>1 DEF Statuses
  <2> QED BY <2>1, <2>2, <2>3, PopKeeps
<1> QED BY <1>2, <1>3

LEMMA RuntimeErrorKeeps == ASSUME IInv, RuntimeError PROVE Kept
<1>1. cur' = Context(1) /\ status' = "fault" /\ PopTo(0)
  BY DEF RuntimeError
<1>2. Len(executionStack) \in Nat
  BY DEF IInv
<1>3. Context(1) \in Sound
  BY <1>2, ContextType
<1>4. status' \in Statuses
  BY <1>1 DEF Statuses
<1> QED BY <1>1, <1>2, <1>3, <1>4, PopKeeps

---------------------------------------------------------------------------
(***************************************************************************)
(* Calls and returns.                                                      *)
(***************************************************************************)
LEMMA FreshSound == ASSUME NEW f \in Function \cup {Root} PROVE Fresh(f) \in Sound
  BY DEF Fresh, Sound, Contexts, Deep, Modes

LEMMA InvokeKeeps ==
    ASSUME IInv, NEW op \in {"GOI", "TAO_DOI_TUONG"}, Execute(op),
           NEW mode \in Modes, Invoke(mode)
    PROVE  Kept
<1>1. cur \in Sound /\ Here.operandIndex \in Function
      /\ callDepth + 1 <= MaxCallDepth
  <2>1. cur \in Sound /\ ~Invalid /\ Here.op = op /\ ~AtEnd
    BY AtFacts
  <2>2. ~ (callDepth + 1 > MaxCallDepth)
    BY <2>1 DEF Invalid
  <2>3. callDepth \in Nat /\ MaxCallDepth \in Nat
    BY BoundsAssumption DEF IInv, ContextsBalanced
  <2> QED BY <2>1, <2>2, <2>3, HereType
<1> DEFINE caller == [cur EXCEPT !.returnMode = mode]
<1>2. caller \in Sound
  BY <1>1 DEF Sound, Contexts, Deep
<1>3. /\ executionStack' = Append(executionStack, caller)
      /\ callStack' = Append(callStack, Here.operandIndex)
      /\ callDepth' = callDepth + 1
      /\ cur' = Fresh(Here.operandIndex)
      /\ UNCHANGED <<chunk, trueLeft, status>>
  BY DEF Invoke
<1> HIDE DEF caller
<1>4. /\ executionStack \in Seq(Sound) /\ callStack \in Seq(Function)
      /\ Len(callStack) = Len(executionStack) /\ callDepth = Len(executionStack)
      /\ chunk \in Programs /\ trueLeft \in 0 .. MaxTrue /\ status \in Statuses
  BY DEF IInv, ContextsBalanced
<1>5. executionStack' \in Seq(Sound) /\ callStack' \in Seq(Function)
  BY <1>1, <1>2, <1>3, <1>4
<1>6. ContextsBalanced'
  BY <1>1, <1>2, <1>3, <1>4 DEF ContextsBalanced
<1>7. cur' \in Sound
  BY <1>1, <1>3, FreshSound
<1>8. IInv'
  BY <1>3, <1>4, <1>5, <1>6, <1>7 DEF IInv
<1>9. IsPrefixOf(executionStack, executionStack')
  BY <1>2, <1>3, <1>4 DEF IsPrefixOf
<1> QED BY <1>8, <1>9 DEF Kept

LEMMA CompleteKeeps ==
    ASSUME IInv, status = "running", executionStack # <<>>,
           NEW value, Complete(value)
    PROVE  Kept
<1> DEFINE n == Len(executionStack)
           caller == Top(executionStack)
           pushes == caller.returnMode = "ConstructorInstance" \/ value
<1>1. executionStack \in Seq(Sound) /\ n \in Nat /\ n \in DOMAIN executionStack
  BY DEF IInv
<1>2. caller \in Sound
  BY <1>1 DEF Top
<1>3. /\ cur' = After([Resumed(caller) EXCEPT !.stack = IF pushes THEN @ + 1 ELSE @])
      /\ PopTo(n - 1) /\ status' = status
  BY DEF Complete
<1> HIDE DEF caller, pushes
<1>4. Resumed(caller) \in Sound
  BY <1>2 DEF Resumed, Sound, Contexts, Deep, Modes
<1>5. \A c \in Sound : [c EXCEPT !.stack = IF pushes THEN @ + 1 ELSE @] \in Sound
  <2> TAKE c \in Sound
  <2> DEFINE stack == IF pushes THEN c.stack + 1 ELSE c.stack
  <2>1. [c EXCEPT !.stack = IF pushes THEN @ + 1 ELSE @]
           = With(c, c.pc, stack, c.blockStack, c.blockDepth, c.switchStack, c.tryStack)
    BY SoundParts DEF With, Contexts
  <2>2. stack \in Nat
    BY SoundParts
  <2> HIDE DEF stack
  <2>3. With(c, c.pc, stack, c.blockStack, c.blockDepth, c.switchStack, c.tryStack) \in Sound
    BY <2>2, SoundParts, WithSound
  <2> QED BY <2>1, <2>3
<1>6. cur' \in Sound
  BY <1>3, <1>4, <1>5, NextInstruction
<1>7. n - 1 \in 0 .. n /\ status' \in Statuses
  BY <1>1, <1>3 DEF Statuses
<1> QED BY <1>3, <1>6, <1>7, PopKeeps

LEMMA ReturnKeeps == ASSUME IInv, Return PROVE Kept
<1>1. status = "running" /\ executionStack # <<>>
  BY DEF Return, Execute, At
<1>2. \E value : Complete(value)
  BY DEF Return
<1> QED BY <1>1, <1>2, CompleteKeeps

\* The end of the program, and what stands still after it.
LEMMA StandKeeps ==
    ASSUME IInv, status' \in Statuses,
           UNCHANGED <<chunk, cur, executionStack, callStack, callDepth, trueLeft>>
    PROVE  Kept
<1>1. IInv'
  BY DEF IInv, ContextsBalanced
<1>2. IsPrefixOf(executionStack, executionStack')
  BY DEF IInv, IsPrefixOf
<1> QED BY <1>1, <1>2 DEF Kept

---------------------------------------------------------------------------
LEMMA InitIInv == Init => IInv
<1> SUFFICES ASSUME Init PROVE IInv
  OBVIOUS
<1>1. cur \in Sound
  BY FreshSound DEF Init
<1> QED BY <1>1, BoundsAssumption DEF Init, IInv, ContextsBalanced, Statuses

LEMMA NextKeeps == ASSUME IInv, [Next]_vars PROVE Kept
<1>1. CASE Next
  <2>1. ASSUME RuntimeError PROVE Kept
    BY <2>1, RuntimeErrorKeeps
  <2>2. ASSUME Value \/ Output \/ Marker \/ Jump \/ JumpIfFalse PROVE Kept
    BY <2>2, ValueKeeps, OutputKeeps, MarkerKeeps, JumpKeeps, JumpIfFalseKeeps
  <2>3. ASSUME OpenBlock \/ CloseBlock \/ OpenSwitch \/ Case \/ Default \/ CloseSwitch
        PROVE  Kept
    BY <2>3, OpenBlockKeeps, CloseBlockKeeps, OpenSwitchKeeps, CaseKeeps, DefaultKeeps,
       CloseSwitchKeeps
  <2>4. ASSUME Break \/ Continue \/ EnterTry \/ LeaveTry \/ Bind \/ Throw PROVE Kept
    BY <2>4, BreakKeeps, ContinueKeeps, EnterTryKeeps, LeaveTryKeeps, BindKeeps, ThrowKeeps
  <2>5. ASSUME Call \/ Construct PROVE Kept
    BY <2>5, InvokeKeeps DEF Call, Construct, Modes
  <2>6. ASSUME Return PROVE Kept
    BY <2>6, ReturnKeeps
  <2>7. ASSUME Halt \/ Ended PROVE Kept
    <3>1. status' \in Statuses
      BY <2>7 DEF Halt, Ended, IInv, Statuses, vars
    <3> QED BY <2>7, <3>1, StandKeeps DEF Halt, Ended, vars
  <2> QED BY <1>1, <2>1, <2>2, <2>3, <2>4, <2>5, <2>6, <2>7 DEF Next
<1>2. CASE UNCHANGED vars
  <2>1. status' \in Statuses
    BY <1>2 DEF IInv, vars
  <2> QED BY <1>2, <2>1, StandKeeps DEF vars
<1> QED BY <1>1, <1>2

THEOREM IInvAlways == Spec => []IInv
<1>1. IInv /\ [Next]_vars => IInv'
  BY NextKeeps DEF Kept
<1> QED BY InitIInv, <1>1, PTL DEF Spec

(***************************************************************************)
(* The results.                                                            *)
(***************************************************************************)
\* Every state an interpreter reaches, on any bytecode, is of the types of the
\* source: no break, return or exception drives a depth below zero or leaves a
\* frame that is not one (vm.h, ExecutionContext).
THEOREM TypeCorrect == Spec => []TypeOK
<1>1. IInv => TypeOK
  <2> SUFFICES ASSUME IInv PROVE TypeOK
    OBVIOUS
  <2>1. cur \in Contexts /\ executionStack \in Seq(Contexts)
    BY DEF IInv, Sound
  <2>2. chunk \in [Function \cup {Root} -> Seq(Instruction)]
    BY ProgramsAssumption DEF IInv
  <2> QED BY <2>1, <2>2 DEF IInv, TypeOK, ContextsBalanced
<1> QED BY IInvAlways, <1>1, PTL

\* The suspended callers, the call frames and callDepthFromRoot count the same
\* calls and never more than the limit, for any program and any limit, however
\* many callers an exception unwinds (completeFunctionCall, unwindLanguageException).
THEOREM ContextsBalancedAlways == Spec => []ContextsBalanced
<1>1. IInv => ContextsBalanced
  BY DEF IInv
<1> QED BY IInvAlways, <1>1, PTL

\* No step of any program changes a caller that stays suspended: what a function
\* resumes with is what it was suspended with (invokeFunction,
\* restoreCallerExecutionContext).
THEOREM CallersFrozenAlways == Spec => CallersFrozen
<1>1. IInv /\ [Next]_vars =>
        [IsPrefixOf(executionStack, executionStack')
            \/ IsPrefixOf(executionStack', executionStack)]_vars
  BY NextKeeps DEF Kept
<1> QED BY IInvAlways, <1>1, PTL DEF Spec, CallersFrozen

---------------------------------------------------------------------------
(***************************************************************************)
(* Verified bytecode.  What the verifier checks of each instruction alone  *)
(* becomes an invariant of the machine: where control is, the handlers and *)
(* the ends of the switches are in the code of the function they belong to *)
(* for the running function and for every suspended one.  A suspended one  *)
(* is moreover at an instruction, its call, so that it can go on after it. *)
(***************************************************************************)
AllVerified == \A f \in Function \cup {Root} : Verified(CodeOf(f))

AimedTries(code, s) == \A i \in DOMAIN s : IsAt(code, s[i].catchAddr, "BAT_LOI")
AimedSwitches(code, s) == \A i \in DOMAIN s : IsAt(code, s[i].endPc, "KET_THUC_CHUYEN")
AimedIn(p, c) == /\ c.pc <= Len(p[c.fn])
                 /\ AimedTries(p[c.fn], c.tryStack)
                 /\ AimedSwitches(p[c.fn], c.switchStack)

AInv == /\ AimedIn(chunk, cur)
        /\ \A n \in DOMAIN executionStack :
              /\ AimedIn(chunk, executionStack[n])
              /\ executionStack[n].pc < Len(chunk[executionStack[n].fn])

\* A prefix holds nothing that the sequence does not, and an extended sequence one
\* element more.
LEMMA PrefixElements ==
    ASSUME NEW S, NEW s \in Seq(S), NEW n \in Int, n <= Len(s)
    PROVE  \A i \in DOMAIN SubSeq(s, 1, n) : i \in DOMAIN s /\ SubSeq(s, 1, n)[i] = s[i]
<1>1. /\ SubSeq(s, 1, n) \in Seq(S)
      /\ Len(SubSeq(s, 1, n)) = IF n >= 0 THEN n ELSE 0
      /\ \A i \in 1 .. n : SubSeq(s, 1, n)[i] = s[i]
  BY PrefixType
<1> QED BY <1>1

LEMMA AppendElements ==
    ASSUME NEW S, NEW s \in Seq(S), NEW x
    PROVE  \A i \in DOMAIN Append(s, x) :
              (i \in DOMAIN s /\ Append(s, x)[i] = s[i]) \/ Append(s, x)[i] = x
  OBVIOUS

\* So cutting frames off, or pushing an aimed one, leaves aimed frames.
LEMMA TriesCut ==
    ASSUME NEW code, NEW S, NEW s \in Seq(S), AimedTries(code, s), NEW n \in Int, n <= Len(s)
    PROVE  AimedTries(code, SubSeq(s, 1, n))
  BY PrefixElements DEF AimedTries

LEMMA SwitchesCut ==
    ASSUME NEW code, NEW S, NEW s \in Seq(S), AimedSwitches(code, s),
           NEW n \in Int, n <= Len(s)
    PROVE  AimedSwitches(code, SubSeq(s, 1, n))
  BY PrefixElements DEF AimedSwitches

LEMMA SwitchesPopped ==
    ASSUME NEW code, NEW S, NEW s \in Seq(S), AimedSwitches(code, s)
    PROVE  AimedSwitches(code, Popped(s))
  BY SwitchesCut, Len(s) - 1 \in Int, Len(s) - 1 <= Len(s) DEF Popped

LEMMA TriesPopped ==
    ASSUME NEW code, NEW S, NEW s \in Seq(S), AimedTries(code, s)
    PROVE  AimedTries(code, Popped(s))
  BY TriesCut, Len(s) - 1 \in Int, Len(s) - 1 <= Len(s) DEF Popped

LEMMA SwitchesPushed ==
    ASSUME NEW code, NEW S, NEW s \in Seq(S), AimedSwitches(code, s),
           NEW x, IsAt(code, x.endPc, "KET_THUC_CHUYEN")
    PROVE  AimedSwitches(code, Append(s, x))
  BY AppendElements DEF AimedSwitches

LEMMA TriesPushed ==
    ASSUME NEW code, NEW S, NEW s \in Seq(S), AimedTries(code, s),
           NEW x, IsAt(code, x.catchAddr, "BAT_LOI")
    PROVE  AimedTries(code, Append(s, x))
  BY AppendElements DEF AimedTries

---------------------------------------------------------------------------
\* The running function is aimed, and so is the instruction it is at.
LEMMA CurAimed ==
    ASSUME IInv, AInv
    PROVE  /\ cur \in Contexts /\ cur.pc \in Nat
           /\ cur.tryStack \in Seq(TryFrames) /\ cur.switchStack \in Seq(SwitchFrames)
           /\ cur.pc <= Len(Code)
           /\ AimedTries(Code, cur.tryStack) /\ AimedSwitches(Code, cur.switchStack)
<1>1. cur \in Contexts
  BY DEF IInv, Sound
<1> QED BY <1>1 DEF AInv, AimedIn, Code, CodeOf, Contexts

LEMMA HereVerified ==
    ASSUME IInv, AllVerified, ~AtEnd
    PROVE  /\ VerifiedAt(Code, cur.pc)
           /\ Len(Code) \in Nat /\ cur.pc \in Nat /\ cur.pc + 1 <= Len(Code)
<1>1. Code \in Seq(Instruction) /\ cur.pc \in 0 .. Len(Code) - 1
  BY HereType
<1>2. Verified(Code)
  BY DEF AllVerified, Code, IInv, Sound, Contexts
<1> QED BY <1>1, <1>2 DEF Verified

\* A step within the running function is aimed if its frames and its target are.
LEMMA LocalAims ==
    ASSUME IInv, AInv, NEW d, Local(d), d.fn = cur.fn, d.pc <= Len(Code),
           AimedTries(Code, d.tryStack), AimedSwitches(Code, d.switchStack)
    PROVE  AInv'
<1>1. cur' = d /\ chunk' = chunk /\ executionStack' = executionStack
  BY DEF Local
<1>2. AimedIn(chunk, d)
  BY DEF AimedIn, Code, CodeOf
<1> QED BY <1>1, <1>2 DEF AInv

\* Going back to an aimed function is aimed.
LEMMA PopAims ==
    ASSUME IInv, AInv, NEW n \in 0 .. Len(executionStack), PopTo(n), AimedIn(chunk, cur')
    PROVE  AInv'
<1>1. /\ executionStack' = SubSeq(executionStack, 1, n) /\ chunk' = chunk
      /\ executionStack \in Seq(Sound)
  BY DEF PopTo, IInv
<1>2. \A i \in DOMAIN executionStack' :
         i \in DOMAIN executionStack /\ executionStack'[i] = executionStack[i]
  BY <1>1, PrefixElements, n \in Int, n <= Len(executionStack)
<1> QED BY <1>1, <1>2 DEF AInv

\* A function is aimed as it resumes exactly if it is as it is kept.
LEMMA ContextAimed ==
    ASSUME IInv, AInv, NEW n \in 1 .. Len(executionStack) + 1
    PROVE  AimedIn(chunk, Context(n))
<1>1. CASE n <= Len(executionStack)
  <2>1. n \in DOMAIN executionStack /\ executionStack[n] \in Contexts
    BY <1>1 DEF IInv, Sound
  <2>2. AimedIn(chunk, executionStack[n])
    BY <2>1 DEF AInv
  <2>3. /\ Context(n).fn = executionStack[n].fn /\ Context(n).pc = executionStack[n].pc
        /\ Context(n).tryStack = executionStack[n].tryStack
        /\ Context(n).switchStack = executionStack[n].switchStack
    BY <1>1, <2>1 DEF Context, Resumed, Contexts
  <2> QED BY <2>2, <2>3 DEF AimedIn
<1>2. CASE ~ (n <= Len(executionStack))
  BY <1>2 DEF Context, AInv
<1> QED BY <1>1, <1>2

---------------------------------------------------------------------------
\* The steps that go on with the next instruction and leave the frames alone.
LEMMA StraightAims ==
    ASSUME IInv, AInv, AllVerified, Value \/ Output \/ Marker \/ OpenBlock \/ Bind
    PROVE  AInv'
<1>1. ~AtEnd /\ cur \in Contexts
  BY CurAimed DEF Value, Output, Marker, OpenBlock, Bind, Execute, At
<1>2. PICK c \in {[cur EXCEPT !.stack = IF Here.op = "NATIVE" /\ Skipping THEN @ ELSE @ + 1],
                  [cur EXCEPT !.stack = @ - 1],
                  cur,
                  [cur EXCEPT !.blockStack = @ + 1, !.blockDepth = @ + 1],
                  [cur EXCEPT !.stack = Floor(@ - 1)]} : Local(After(c))
  BY DEF Value, Output, Marker, OpenBlock, Bind
<1>3. /\ After(c).fn = cur.fn /\ After(c).pc = cur.pc + 1
      /\ After(c).tryStack = cur.tryStack /\ After(c).switchStack = cur.switchStack
  BY <1>1, <1>2 DEF After, Contexts
<1>4. cur.pc + 1 <= Len(Code)
  BY <1>1, HereVerified
<1> QED BY <1>2, <1>3, <1>4, CurAimed, LocalAims

LEMMA JumpAims == ASSUME IInv, AInv, AllVerified, Jump PROVE AInv'
<1>1. Execute("JUMP") /\ Local(Goto(cur, Here.operand))
  BY DEF Jump
<1>2. ~AtEnd /\ Here.operand < Len(Code) /\ Here.operand \in Nat /\ Len(Code) \in Nat
  BY <1>1, AtFacts, HereVerified DEF Invalid, Instruction
<1>3. /\ Goto(cur, Here.operand).fn = cur.fn /\ Goto(cur, Here.operand).pc = Here.operand
      /\ Goto(cur, Here.operand).tryStack = cur.tryStack
      /\ Goto(cur, Here.operand).switchStack = cur.switchStack
  BY CurAimed DEF Goto, Contexts
<1> QED BY <1>1, <1>2, <1>3, CurAimed, LocalAims

\* A branch changes trueLeft too, so it is not Local.
LEMMA JumpIfFalseAims == ASSUME IInv, AInv, AllVerified, JumpIfFalse PROVE AInv'
<1>1. Execute("JUMP_IF_FALSE") /\ chunk' = chunk /\ executionStack' = executionStack
  BY DEF JumpIfFalse
<1> DEFINE c == [cur EXCEPT !.stack = @ - 1]
<1>2. /\ ~AtEnd /\ Here.op = "JUMP_IF_FALSE" /\ Here.operand \in Nat /\ Len(Code) \in Nat
      /\ cur.pc + 1 <= Len(Code)
  BY <1>1, AtFacts, HereVerified DEF Instruction
<1>3. \/ cur' = Goto(c, Here.operand) /\ Here.operand < Len(Code)
      \/ cur' = After(c)
  BY <1>2 DEF JumpIfFalse, TakenOutOfRange
<1>4. /\ cur'.fn = cur.fn /\ cur'.pc <= Len(Code)
      /\ cur'.tryStack = cur.tryStack /\ cur'.switchStack = cur.switchStack
  <2>1. \A d \in {Goto(c, Here.operand), After(c)} :
           /\ d.fn = cur.fn /\ d.tryStack = cur.tryStack /\ d.switchStack = cur.switchStack
    BY CurAimed DEF Goto, After, Contexts
  <2>2. Goto(c, Here.operand).pc = Here.operand /\ After(c).pc = cur.pc + 1
    BY CurAimed DEF Goto, After, Contexts
  <2> HIDE DEF c
  <2> QED BY <1>2, <1>3, <2>1, <2>2
<1>5. AimedIn(chunk, cur')
  BY <1>4, CurAimed DEF AimedIn, Code, CodeOf
<1> QED BY <1>1, <1>5 DEF AInv

LEMMA CloseBlockAims == ASSUME IInv, AInv, AllVerified, CloseBlock PROVE AInv'
<1> DEFINE switches == DropSwitchOfBlock(cur.switchStack, cur.blockStack - 1)
           c == [cur EXCEPT !.blockStack = @ - 1,
                            !.blockDepth = Floor(@ - 1),
                            !.switchStack = DropSwitchOfBlock(@, cur.blockStack - 1)]
<1>1. ~AtEnd /\ Local(After(c))
  BY DEF CloseBlock, Execute, At
<1>2. AimedSwitches(Code, switches)
  BY CurAimed, SwitchesPopped DEF DropSwitchOfBlock
<1>3. /\ After(c).fn = cur.fn /\ After(c).pc = cur.pc + 1
      /\ After(c).tryStack = cur.tryStack /\ After(c).switchStack = switches
  BY CurAimed DEF After, Contexts
<1>4. cur.pc + 1 <= Len(Code)
  BY <1>1, HereVerified
<1> HIDE DEF c, switches
<1> QED BY <1>1, <1>2, <1>3, <1>4, CurAimed, LocalAims

LEMMA OpenSwitchAims == ASSUME IInv, AInv, AllVerified, OpenSwitch PROVE AInv'
<1> DEFINE frame == [endPc |-> Here.operand, skippingCase |-> TRUE, caseMatched |-> FALSE,
                     blockDepthAtStart |-> cur.blockStack,
                     tryDepthAtStart |-> Len(cur.tryStack)]
           c == [cur EXCEPT !.stack = @ - 1, !.switchStack = Append(@, frame)]
<1>1. Execute("CHON") /\ Local(After(c))
  BY DEF OpenSwitch
<1>2. ~AtEnd /\ Here.op = "CHON" /\ ~Invalid /\ Here.operand \in Nat /\ Len(Code) \in Nat
      /\ cur.pc + 1 <= Len(Code)
  BY <1>1, AtFacts, HereVerified DEF Instruction
<1>3. IsAt(Code, frame.endPc, "KET_THUC_CHUYEN")
  BY <1>2 DEF Invalid, IsAt
<1>4. AimedSwitches(Code, Append(cur.switchStack, frame))
  BY <1>3, CurAimed, SwitchesPushed
<1>5. /\ After(c).fn = cur.fn /\ After(c).pc = cur.pc + 1
      /\ After(c).tryStack = cur.tryStack
      /\ After(c).switchStack = Append(cur.switchStack, frame)
  BY CurAimed DEF After, Contexts
<1> HIDE DEF c, frame
<1> QED BY <1>1, <1>2, <1>4, <1>5, CurAimed, LocalAims

\* An arm that is not entered goes on where the verifier has looked.
LEMMA EnterArmAims ==
    ASSUME IInv, AInv, AllVerified, NEW op \in {"CA", "MAC_DINH"}, Execute(op), NEW enter,
           EnterArm(enter)
    PROVE  AInv'
<1> DEFINE frame == [Top(cur.switchStack) EXCEPT !.skippingCase = ~enter,
                                                 !.caseMatched = @ \/ enter]
           switches == Append(Popped(cur.switchStack), frame)
           c == [cur EXCEPT !.switchStack = Append(Popped(@), frame)]
           d == IF ~enter /\ Here.operandValue # 0 THEN Goto(c, Here.operandValue) ELSE After(c)
<1>1. Local(d)
  BY DEF EnterArm
<1>2. /\ ~AtEnd /\ Here.op = op /\ ~Invalid /\ Here.operandValue \in Nat /\ Len(Code) \in Nat
      /\ cur.pc + 1 <= Len(Code) /\ VerifiedAt(Code, cur.pc)
  BY AtFacts, HereVerified DEF Instruction
<1>3. Here.operandValue # 0 => Here.operandValue < Len(Code)
  BY <1>2 DEF VerifiedAt, Here
<1>4. cur.switchStack # <<>>
  BY <1>2 DEF Invalid
<1>5. Len(cur.switchStack) \in DOMAIN cur.switchStack
  BY <1>4, CurAimed
<1>6. Top(cur.switchStack) \in SwitchFrames
      /\ IsAt(Code, Top(cur.switchStack).endPc, "KET_THUC_CHUYEN")
  BY <1>5, CurAimed DEF Top, AimedSwitches
<1>7. frame.endPc = Top(cur.switchStack).endPc
  BY <1>6 DEF SwitchFrames
<1>8. AimedSwitches(Code, switches)
  <2>1. AimedSwitches(Code, Popped(cur.switchStack))
        /\ Popped(cur.switchStack) \in Seq(SwitchFrames)
    BY CurAimed, SwitchesPopped, PoppedType
  <2>2. IsAt(Code, frame.endPc, "KET_THUC_CHUYEN")
    BY <1>6, <1>7
  <2> HIDE DEF frame
  <2> QED BY <2>1, <2>2, SwitchesPushed
<1> HIDE DEF frame
<1>9. /\ d.fn = cur.fn /\ d.pc <= Len(Code)
      /\ d.tryStack = cur.tryStack /\ d.switchStack = switches
  BY <1>2, <1>3, CurAimed DEF Goto, After, Contexts
<1> HIDE DEF d, switches
<1> QED BY <1>1, <1>8, <1>9, CurAimed, LocalAims

LEMMA ArmAims == ASSUME IInv, AInv, AllVerified, Case \/ Default PROVE AInv'
<1>1. PICK op \in {"CA", "MAC_DINH"} : Execute(op) /\ \E enter : EnterArm(enter)
  BY DEF Case, Default
<1> QED BY <1>1, EnterArmAims

LEMMA CloseSwitchAims == ASSUME IInv, AInv, AllVerified, CloseSwitch PROVE AInv'
<1> DEFINE c == [cur EXCEPT !.switchStack = Popped(@)]
<1>1. ~AtEnd /\ Local(After(c))
  BY DEF CloseSwitch, Execute, At
<1>2. AimedSwitches(Code, Popped(cur.switchStack))
  BY CurAimed, SwitchesPopped
<1>3. /\ After(c).fn = cur.fn /\ After(c).pc = cur.pc + 1
      /\ After(c).tryStack = cur.tryStack /\ After(c).switchStack = Popped(cur.switchStack)
  BY CurAimed DEF After, Contexts
<1>4. cur.pc + 1 <= Len(Code)
  BY <1>1, HereVerified
<1> HIDE DEF c
<1> QED BY <1>1, <1>2, <1>3, <1>4, CurAimed, LocalAims

LEMMA OuterAims ==
    ASSUME NEW code, NEW S, NEW s \in Seq(S), AimedSwitches(code, s), NEW blocks
    PROVE  AimedSwitches(code, Outer(s, blocks))
<1> DEFINE kept == {0} \cup {n \in DOMAIN s : s[n].blockDepthAtStart <= blocks}
<1>1. kept \subseteq 0 .. Len(s) /\ kept # {} /\ Len(s) \in Nat
  OBVIOUS
<1>2. Max(kept) \in kept
  BY <1>1, MaxOfBounded
<1>3. Max(kept) \in Int /\ Max(kept) <= Len(s)
  BY <1>1, <1>2
<1> HIDE DEF kept
<1>4. AimedSwitches(code, SubSeq(s, 1, Max(kept)))
  BY <1>3, SwitchesCut
<1> QED BY <1>4 DEF Outer, kept

LEMMA ExitLoopAims ==
    ASSUME IInv, AInv, AllVerified, Execute("THOAT"), ~Skipping, LoopBreak,
           Local(ExitLoop(cur))
    PROVE  AInv'
<1>1. /\ ~AtEnd /\ ~BreakOfLoopInvalid /\ Here.operand \in Nat /\ Here.operandValue \in Nat
      /\ Len(Code) \in Nat
  BY AtFacts, HereVerified DEF Invalid, Instruction
<1>2. Here.operand < Len(Code)
  BY <1>1 DEF BreakOfLoopInvalid
<1> DEFINE blocks == cur.blockStack - BlocksToExit
           switches == Outer(cur.switchStack, blocks)
           tries == SubSeq(cur.tryStack, 1, Len(cur.tryStack) - Here.operandValue)
<1>3. AimedSwitches(Code, switches)
  BY CurAimed, OuterAims
<1>4. AimedTries(Code, tries)
  <2>1. Len(cur.tryStack) - Here.operandValue \in Int
        /\ Len(cur.tryStack) - Here.operandValue <= Len(cur.tryStack)
    BY <1>1, CurAimed
  <2> QED BY <2>1, CurAimed, TriesCut
<1>5. /\ ExitLoop(cur).fn = cur.fn /\ ExitLoop(cur).pc = Here.operand
      /\ ExitLoop(cur).tryStack = tries /\ ExitLoop(cur).switchStack = switches
  BY CurAimed DEF ExitLoop, Contexts
<1> HIDE DEF switches, tries
<1> QED BY <1>1, <1>2, <1>3, <1>4, <1>5, LocalAims

LEMMA ExitSwitchAims ==
    ASSUME IInv, AInv, AllVerified, Execute("THOAT"), ~Skipping, ~LoopBreak,
           Local(ExitSwitch(cur))
    PROVE  AInv'
<1>1. ~AtEnd /\ ~BreakOfSwitchInvalid /\ Len(Code) \in Nat
  BY AtFacts, HereVerified DEF Invalid
<1> DEFINE frame == Top(cur.switchStack)
           tries == SubSeq(cur.tryStack, 1, frame.tryDepthAtStart)
<1>2. Len(cur.switchStack) \in DOMAIN cur.switchStack
  BY <1>1, CurAimed DEF BreakOfSwitchInvalid
<1>3. frame \in SwitchFrames /\ IsAt(Code, frame.endPc, "KET_THUC_CHUYEN")
  BY <1>2, CurAimed DEF Top, AimedSwitches
<1>4. /\ frame.endPc \in Nat /\ frame.endPc < Len(Code) /\ frame.tryDepthAtStart \in Int
      /\ frame.tryDepthAtStart <= Len(cur.tryStack)
  BY <1>1, <1>3, CurAimed DEF BreakOfSwitchInvalid, SwitchFrames, IsAt
<1>5. AimedTries(Code, tries)
  BY <1>4, CurAimed, TriesCut
<1>6. /\ ExitSwitch(cur).fn = cur.fn /\ ExitSwitch(cur).pc = frame.endPc
      /\ ExitSwitch(cur).tryStack = tries /\ ExitSwitch(cur).switchStack = cur.switchStack
  BY CurAimed DEF ExitSwitch, Contexts
<1> HIDE DEF frame, tries
<1> QED BY <1>1, <1>4, <1>5, <1>6, CurAimed, LocalAims

LEMMA BreakAims == ASSUME IInv, AInv, AllVerified, Break PROVE AInv'
<1>1. Execute("THOAT")
  BY DEF Break
<1>2. CASE Skipping
  <2>1. Local(After(cur)) /\ ~AtEnd
    BY <1>1, <1>2 DEF Break, Execute, At
  <2>2. /\ After(cur).fn = cur.fn /\ After(cur).pc = cur.pc + 1
        /\ After(cur).tryStack = cur.tryStack /\ After(cur).switchStack = cur.switchStack
    BY CurAimed DEF After, Contexts
  <2> QED BY <2>1, <2>2, HereVerified, CurAimed, LocalAims
<1>3. CASE ~Skipping /\ LoopBreak
  BY <1>1, <1>3, ExitLoopAims DEF Break
<1>4. CASE ~Skipping /\ ~LoopBreak
  BY <1>1, <1>4, ExitSwitchAims DEF Break
<1> QED BY <1>2, <1>3, <1>4

LEMMA ContinueAims == ASSUME IInv, AInv, AllVerified, Continue PROVE AInv'
<1> DEFINE update == Min(Updates)
           c == [cur EXCEPT !.pc = update + 1,
                            !.blockStack = Floor(@ - CloseBlocks(update)),
                            !.blockDepth = Floor(@ - CloseBlocks(update))]
<1>1. Execute("BO_QUA") /\ Local(c)
  BY DEF Continue
<1>2. /\ Updates # {} /\ Len(Code) \in Nat /\ cur.pc \in Nat
      /\ \A i \in Updates : i \in Nat /\ i + 1 <= Len(Code)
  BY <1>1, AtFacts, HereVerified DEF Invalid, Updates
<1>3. update + 1 <= Len(Code)
  <2>1. Updates \in SUBSET Nat
    BY <1>2
  <2>2. update \in Updates
    BY <1>2, <2>1, MinOfNaturals
  <2> QED BY <1>2, <2>2
<1>4. /\ c.fn = cur.fn /\ c.pc = update + 1
      /\ c.tryStack = cur.tryStack /\ c.switchStack = cur.switchStack
  <2> HIDE DEF update
  <2> QED BY CurAimed DEF Contexts
<1> HIDE DEF c, update
<1> QED BY <1>1, <1>3, <1>4, CurAimed, LocalAims

LEMMA EnterTryAims == ASSUME IInv, AInv, AllVerified, EnterTry PROVE AInv'
<1> DEFINE frame == [catchAddr |-> Here.operand, stackDepth |-> cur.stack,
                     blockStackDepth |-> cur.blockStack,
                     switchStackDepth |-> Len(cur.switchStack),
                     blockDepth |-> cur.blockDepth]
           c == [cur EXCEPT !.tryStack = Append(@, frame)]
<1>1. Execute("THU") /\ Local(After(c))
  BY DEF EnterTry
<1>2. /\ ~AtEnd /\ Here.op = "THU" /\ VerifiedAt(Code, cur.pc) /\ cur.pc + 1 <= Len(Code)
  BY <1>1, AtFacts, HereVerified
<1>3. IsAt(Code, frame.catchAddr, "BAT_LOI")
  BY <1>2 DEF VerifiedAt, Here, IsAt
<1>4. AimedTries(Code, Append(cur.tryStack, frame))
  <2> HIDE DEF frame
  <2> QED BY <1>3, CurAimed, TriesPushed
<1>5. /\ After(c).fn = cur.fn /\ After(c).pc = cur.pc + 1
      /\ After(c).tryStack = Append(cur.tryStack, frame)
      /\ After(c).switchStack = cur.switchStack
  BY CurAimed DEF After, Contexts
<1> HIDE DEF c, frame
<1> QED BY <1>1, <1>2, <1>4, <1>5, CurAimed, LocalAims

LEMMA LeaveTryAims == ASSUME IInv, AInv, AllVerified, LeaveTry PROVE AInv'
<1> DEFINE tries == IF cur.tryStack = <<>> THEN cur.tryStack ELSE Popped(cur.tryStack)
           c == [cur EXCEPT !.tryStack = IF @ = <<>> THEN @ ELSE Popped(@)]
           d == Goto(c, Here.operand)
<1>1. Execute("THU_KET_THUC") /\ Local(d)
  BY DEF LeaveTry
<1>2. ~AtEnd /\ Here.op = "THU_KET_THUC" /\ VerifiedAt(Code, cur.pc)
  BY <1>1, AtFacts, HereVerified
<1>3. Here.operand <= Len(Code)
  BY <1>2 DEF VerifiedAt, Here
<1>4. AimedTries(Code, tries)
  BY CurAimed, TriesPopped
<1>5. /\ d.fn = cur.fn /\ d.pc = Here.operand
      /\ d.tryStack = tries /\ d.switchStack = cur.switchStack
  BY CurAimed DEF Goto, Contexts
<1> HIDE DEF c, d, tries
<1> QED BY <1>1, <1>3, <1>4, <1>5, CurAimed, LocalAims

---------------------------------------------------------------------------
\* A handler takes control within the function it belongs to.
LEMMA CaughtAims ==
    ASSUME NEW c \in Contexts, AimedIn(chunk, c), c.tryStack # <<>>,
           Len(chunk[c.fn]) \in Nat
    PROVE  AimedIn(chunk, Caught(c))
<1> DEFINE code == chunk[c.fn]
           frame == Top(c.tryStack)
           switches == Cut(c.switchStack, frame.switchStackDepth)
<1>1. /\ AimedTries(code, c.tryStack) /\ AimedSwitches(code, c.switchStack)
      /\ c.tryStack \in Seq(TryFrames) /\ c.switchStack \in Seq(SwitchFrames)
  BY DEF AimedIn, Contexts
<1>2. Len(c.tryStack) \in DOMAIN c.tryStack
  BY <1>1
<1>3. frame \in TryFrames /\ IsAt(code, frame.catchAddr, "BAT_LOI")
  BY <1>1, <1>2 DEF Top, AimedTries
<1>4. frame.catchAddr <= Len(code) /\ frame.switchStackDepth \in Nat
  BY <1>3 DEF IsAt, TryFrames
<1>5. AimedTries(code, Popped(c.tryStack))
  BY <1>1, TriesPopped
<1>6. AimedSwitches(code, switches)
  <2>1. CASE Len(c.switchStack) > frame.switchStackDepth
    <3>1. frame.switchStackDepth \in Int /\ frame.switchStackDepth <= Len(c.switchStack)
      BY <1>1, <1>4, <2>1
    <3> HIDE DEF frame
    <3> QED BY <1>1, <2>1, <3>1, SwitchesCut DEF Cut
  <2> QED BY <1>1, <2>1 DEF Cut
<1>7. /\ Caught(c).fn = c.fn /\ Caught(c).pc = frame.catchAddr
      /\ Caught(c).tryStack = Popped(c.tryStack) /\ Caught(c).switchStack = switches
  BY DEF Caught, Contexts
<1> HIDE DEF frame, switches
<1> QED BY <1>4, <1>5, <1>6, <1>7 DEF AimedIn

\* The thrower keeps its frames, whatever it takes off its operand stack.
LEMMA UnwoundAimed ==
    ASSUME IInv, AInv, NEW n \in 1 .. Len(executionStack) + 1
    PROVE  AimedIn(chunk, Unwound(n))
<1>1. /\ Thrower.fn = cur.fn /\ Thrower.pc = cur.pc
      /\ Thrower.tryStack = cur.tryStack /\ Thrower.switchStack = cur.switchStack
  BY CurAimed DEF Thrower, Contexts
<1>2. AimedIn(chunk, Thrower)
  BY <1>1 DEF AimedIn, AInv
<1> QED BY <1>2, ContextAimed DEF Unwound

LEMMA CodeLengths ==
    ASSUME IInv, NEW c \in Contexts
    PROVE  Len(chunk[c.fn]) \in Nat
<1>1. chunk \in [Function \cup {Root} -> Seq(Instruction)]
  BY ProgramsAssumption DEF IInv
<1>2. chunk[c.fn] \in Seq(Instruction)
  BY <1>1 DEF Contexts
<1> QED BY <1>2

LEMMA ThrowAims == ASSUME IInv, AInv, Throw PROVE AInv'
<1>1. Len(executionStack) \in Nat
  BY DEF IInv
<1>2. CASE Catchers = {}
  BY <1>1, <1>2, UnwoundAimed, PopAims DEF Throw
<1>3. CASE Catchers # {}
  <2>1. PICK n \in 1 .. Len(executionStack) + 1 :
           Context(n).tryStack # <<>> /\ cur' = Caught(Unwound(n)) /\ PopTo(n - 1)
    BY <1>3, CatcherType DEF Throw
  <2>2. Unwound(n) \in Contexts /\ Unwound(n).tryStack # <<>>
    BY <2>1, UnwoundType, SoundParts
  <2>3. AimedIn(chunk, cur')
    BY <2>1, <2>2, UnwoundAimed, CaughtAims, CodeLengths
  <2>4. n - 1 \in 0 .. Len(executionStack)
    BY <1>1
  <2> QED BY <2>1, <2>3, <2>4, PopAims
<1> QED BY <1>2, <1>3

LEMMA RuntimeErrorAims == ASSUME IInv, AInv, RuntimeError PROVE AInv'
<1>1. cur' = Context(1) /\ PopTo(0) /\ Len(executionStack) \in Nat
  BY DEF RuntimeError, IInv
<1> QED BY <1>1, ContextAimed, PopAims

\* A callee starts at its first instruction, with no frames of its caller's.
LEMMA InvokeAims ==
    ASSUME IInv, AInv, NEW op \in {"GOI", "TAO_DOI_TUONG"}, Execute(op),
           NEW mode, Invoke(mode)
    PROVE  AInv'
<1>1. Here.operandIndex \in Function /\ cur.pc < Len(Code)
  BY AtFacts, HereType
<1> DEFINE callee == Fresh(Here.operandIndex)
           caller == [cur EXCEPT !.returnMode = mode]
<1>2. /\ executionStack' = Append(executionStack, caller) /\ chunk' = chunk
      /\ cur' = callee
  BY DEF Invoke
<1>3. callee \in Contexts
  BY <1>1, FreshSound, SoundParts
<1>4. AimedIn(chunk, callee)
  <2>1. Len(chunk[callee.fn]) \in Nat
    BY <1>3, CodeLengths
  <2> QED BY <2>1 DEF Fresh, AimedIn, AimedTries, AimedSwitches
<1>5. /\ caller.fn = cur.fn /\ caller.pc = cur.pc
      /\ caller.tryStack = cur.tryStack /\ caller.switchStack = cur.switchStack
  BY CurAimed DEF Contexts
<1>6. AimedIn(chunk, caller) /\ caller.pc < Len(chunk[caller.fn])
  BY <1>1, <1>5 DEF AimedIn, AInv, Code, CodeOf
<1> HIDE DEF callee, caller
<1>7. \A n \in DOMAIN executionStack' :
         \/ n \in DOMAIN executionStack /\ executionStack'[n] = executionStack[n]
         \/ executionStack'[n] = caller
  BY <1>2, AppendElements DEF IInv
<1> QED BY <1>2, <1>4, <1>6, <1>7 DEF AInv

LEMMA CompleteAims ==
    ASSUME IInv, AInv, executionStack # <<>>, NEW value, Complete(value)
    PROVE  AInv'
<1> DEFINE n == Len(executionStack)
           caller == Top(executionStack)
           pushes == caller.returnMode = "ConstructorInstance" \/ value
           d == After([Resumed(caller) EXCEPT !.stack = IF pushes THEN @ + 1 ELSE @])
<1>1. cur' = d /\ PopTo(n - 1)
  BY DEF Complete
<1>2. executionStack \in Seq(Sound) /\ n \in Nat /\ n \in DOMAIN executionStack
  BY DEF IInv
<1>3. caller \in Contexts /\ AimedIn(chunk, caller) /\ caller.pc < Len(chunk[caller.fn])
  BY <1>2, SoundParts DEF Top, AInv
<1> HIDE DEF caller, pushes
<1>4. /\ d.fn = caller.fn /\ d.pc = caller.pc + 1
      /\ d.tryStack = caller.tryStack /\ d.switchStack = caller.switchStack
  BY <1>3 DEF After, Resumed, Contexts
<1>5. d.pc <= Len(chunk[d.fn])
  BY <1>3, <1>4, CodeLengths DEF Contexts
<1> HIDE DEF d
<1>6. AimedIn(chunk, cur')
  BY <1>1, <1>3, <1>4, <1>5 DEF AimedIn
<1>7. n - 1 \in 0 .. n
  BY <1>2
<1> QED BY <1>1, <1>6, <1>7, PopAims

---------------------------------------------------------------------------
\* A `chọn` knows its end.
LEMMA ChosenEnds ==
    ASSUME IInv, ~AtEnd, Here.op = "CHON"
    PROVE  Here.operand # 0
<1>1. chunk \in Programs /\ cur.fn \in Function \cup {Root}
  BY DEF IInv, Sound, Contexts
<1>2. cur.pc + 1 \in 1 .. Len(chunk[cur.fn])
  BY HereType DEF Code, CodeOf
<1> QED BY <1>1, <1>2, ProgramsAssumption DEF Here, Code, CodeOf

\* The program is read, never written.
LEMMA CodeStays == ASSUME [Next]_vars PROVE chunk' = chunk
<1>1. ASSUME RuntimeError \/ Throw \/ Call \/ Construct \/ Return PROVE chunk' = chunk
  BY <1>1 DEF RuntimeError, Throw, Call, Construct, Return, Invoke, Complete, PopTo
<1>2. ASSUME Value \/ Output \/ Marker \/ Jump \/ OpenBlock \/ CloseBlock \/ OpenSwitch
                \/ Case \/ Default \/ CloseSwitch
      PROVE  chunk' = chunk
  BY <1>2 DEF Value, Output, Marker, Jump, OpenBlock, CloseBlock, OpenSwitch, Case, Default,
              EnterArm, CloseSwitch, Local
<1>3. ASSUME Break \/ Continue \/ EnterTry \/ LeaveTry \/ Bind PROVE chunk' = chunk
  BY <1>3 DEF Break, Continue, EnterTry, LeaveTry, Bind, Local
<1>4. ASSUME JumpIfFalse \/ Halt \/ Ended \/ UNCHANGED vars PROVE chunk' = chunk
  BY <1>4 DEF JumpIfFalse, Halt, Ended, vars
<1> QED BY <1>1, <1>2, <1>3, <1>4 DEF Next

LEMMA NextAims == ASSUME IInv, AInv, AllVerified, [Next]_vars PROVE AInv'
<1>1. ASSUME Value \/ Output \/ Marker \/ OpenBlock \/ Bind PROVE AInv'
  BY <1>1, StraightAims
<1>2. ASSUME Jump \/ JumpIfFalse \/ CloseBlock \/ OpenSwitch \/ Case \/ Default \/ CloseSwitch
      PROVE  AInv'
  BY <1>2, JumpAims, JumpIfFalseAims, CloseBlockAims, OpenSwitchAims, ArmAims, CloseSwitchAims
<1>3. ASSUME Break \/ Continue \/ EnterTry \/ LeaveTry \/ Throw \/ RuntimeError PROVE AInv'
  BY <1>3, BreakAims, ContinueAims, EnterTryAims, LeaveTryAims, ThrowAims, RuntimeErrorAims
<1>4. ASSUME Call \/ Construct PROVE AInv'
  BY <1>4, InvokeAims DEF Call, Construct
<1>5. ASSUME Return PROVE AInv'
  BY <1>5, CompleteAims DEF Return
<1>6. ASSUME Halt \/ Ended \/ UNCHANGED vars PROVE AInv'
  BY <1>6 DEF Halt, Ended, vars, AInv
<1> QED BY <1>1, <1>2, <1>3, <1>4, <1>5, <1>6 DEF Next

\* A verified program never leaves its rails: every active function is at an
\* instruction of its own code or just past its end, every handler it keeps open is a
\* `bắt lỗi` of its own and every switch ends at an end of its own, and the checks of
\* targets that the machine makes as it runs never fail.  What verifyBytecode looks
\* at one instruction at a time is enough for every run, of emitted code or not.
THEOREM TargetsKeptAlways == Spec => []TargetsKept
<1> DEFINE Inv == AllVerified => AInv
<1>1. Init => Inv
  <2> SUFFICES ASSUME Init PROVE AInv
    OBVIOUS
  <2>1. cur = Fresh(Root) /\ executionStack = <<>> /\ IInv
    BY InitIInv DEF Init
  <2>2. cur \in Contexts
    BY <2>1 DEF IInv, Sound
  <2>3. AimedIn(chunk, cur)
    BY <2>1, <2>2, CodeLengths DEF Fresh, AimedIn, AimedTries, AimedSwitches
  <2> QED BY <2>1, <2>3 DEF AInv
<1>2. IInv /\ Inv /\ [Next]_vars => Inv'
  <2> SUFFICES ASSUME IInv, Inv, [Next]_vars, AllVerified' PROVE AInv'
    OBVIOUS
  <2>1. AllVerified
    BY CodeStays DEF AllVerified, CodeOf
  <2> QED BY <2>1, NextAims
<1>3. IInv /\ Inv => TargetsKept
  <2> SUFFICES ASSUME IInv, AInv, AllVerified
               PROVE  /\ \A n \in 1 .. Len(executionStack) + 1 : Aimed(Context(n))
                      /\ ~AtEnd => ~WrongTarget
    BY DEF TargetsKept, AllVerified
  <2>1. \A n \in 1 .. Len(executionStack) + 1 : Aimed(Context(n))
    BY ContextAimed DEF Aimed, AimedIn, AimedTries, AimedSwitches, CodeOf
  <2>2. ASSUME ~AtEnd PROVE ~WrongTarget
    <3>1. VerifiedAt(Code, cur.pc) /\ Len(Code) \in Nat
      BY <2>2, HereVerified
    <3>2. /\ Here \in Instruction /\ Here = Code[cur.pc + 1]
          /\ Here.op = "CHON" => Here.operand # 0
      BY <2>2, HereType, ChosenEnds DEF Here
    <3>3. Here.operand \in Nat
      BY <3>2 DEF Instruction
    <3> QED BY <3>1, <3>2, <3>3 DEF VerifiedAt, WrongTarget, IsAt, LoopBreak
  <2> QED BY <2>1, <2>2
<1> HIDE DEF Inv
<1> QED BY IInvAlways, <1>1, <1>2, <1>3, PTL DEF Spec

=============================================================================
