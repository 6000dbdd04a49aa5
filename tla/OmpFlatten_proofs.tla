---------------------------- MODULE OmpFlatten_proofs ----------------------------
(* Theorems about the walk behind pass_lower_omp.                                 *)
EXTENDS OmpFlatten, TLAPS

Frames == [l : DOMAIN source, i : Nat \ {0}, done : BOOLEAN]

\* The walk of lowered lists stays within the lists of the program, out of those of the
\* BIND_EXPRs around constructs, and changes none.
LoweredInv == /\ source \in Trees
              /\ lowered => list = LowerOmp(source) /\ stack \in Seq(Frames)

\* A statement the walk of lowered lists is at is one of the program, lowered.
LEMMA LoweredAt ==
  ASSUME source \in Trees, list = LowerOmp(source), stack \in Seq(Frames),
         NEW kinds, At(kinds)
  PROVE  /\ L \in DOMAIN source /\ I \in Nat \ {0} /\ I \in DOMAIN source[L]
         /\ Stmt = Lowered(source, source[L][I]) /\ Stmt.kind \in kinds
         /\ source[L][I] \in Statements(Len(source))
<1>1. stack # <<>> /\ Head(stack) \in Frames
  BY DEF At
<1>2. L \in DOMAIN source /\ I \in Nat \ {0}
  BY <1>1 DEF Frames, L, I
<1>3. source \in Seq(Seq(Statements(Len(source))))
  BY TreesAssumption
<1>4. source[L] \in Seq(Statements(Len(source)))
  BY <1>2, <1>3
<1>5. list[L] = [k \in DOMAIN source[L] |-> Lowered(source, source[L][k])]
  <2>1. L \in 1 .. 2 * Len(source)
    BY <1>2, <1>3
  <2> QED
    BY <1>2, <2>1 DEF LowerOmp
<1>6. Len(list[L]) = Len(source[L]) /\ DOMAIN source[L] = 1 .. Len(source[L])
  BY <1>4, <1>5
<1>7. I \in DOMAIN source[L]
  BY <1>2, <1>4, <1>6 DEF At
<1> QED
  BY <1>2, <1>4, <1>5, <1>7 DEF At, Stmt

\* Where a construct stood pass_lower_omp leaves none.
LEMMA NoConstruct ==
  ASSUME NEW lists, NEW n, NEW st \in Statements(n)
  PROVE  /\ Lowered(lists, st).kind \in {"leaf", "bind", "cond"}
         /\ Lowered(lists, st).kind = "cond" =>
              Lowered(lists, st).lists \in (0 .. n) \X (0 .. n)
BY DEF Statements, Lowered, Bind, Constructs

\* The calls for some lists of the program come in front of those under way.
LEMMA IntoTyped ==
  ASSUME source \in Trees, stack \in Seq(Frames), stack # <<>>,
         NEW ls \in Seq(DOMAIN source), NEW i \in Nat \ {0}, NEW done \in BOOLEAN,
         Into(ls, i, done)
  PROVE  stack' \in Seq(Frames)
<1>1. Head(stack) \in Frames /\ Tail(stack) \in Seq(Frames)
  OBVIOUS
<1>2. [l |-> L, i |-> i, done |-> done] \in Frames
  BY <1>1 DEF Frames, L
<1>3. [c \in 1 .. Len(ls) |-> Call(ls[c])] \in Seq(Frames)
  BY DEF Call, Frames
<1> QED
  BY <1>1, <1>2, <1>3 DEF Into

\* Behind pass_lower_omp the pass comes to nothing to optimise, whatever the program: the
\* constructs are there, but in BIND_EXPRs, which fpga_omp_sections_opt passes over, and
\* no step of it ever changes a statement.
THEOREM LoweredUntouched == Spec => []NothingToDo
<1>1. Init => LoweredInv
  <2> SUFFICES ASSUME Init PROVE LoweredInv
    OBVIOUS
  <2>1. source \in Trees /\ stack = <<Call(1)>> /\ (lowered => list = LowerOmp(source))
    BY DEF Init
  <2>2. 1 \in DOMAIN source
    BY <2>1, TreesAssumption
  <2>3. Call(1) \in Frames
    BY <2>2 DEF Call, Frames
  <2> QED
    BY <2>1, <2>3 DEF LoweredInv
<1>2. LoweredInv /\ [Next]_vars => LoweredInv'
  <2> SUFFICES ASSUME LoweredInv, [Next]_vars PROVE LoweredInv'
    OBVIOUS
  <2>1. UNCHANGED <<source, lowered>>
    BY DEF Next, Step, Done, vars, Pass, EnterCond, Enter, LeaveSections, LeaveParallel,
           Splice, Return
  <2>2. SUFFICES ASSUME lowered PROVE list' = list /\ stack' \in Seq(Frames)
    BY <2>1 DEF LoweredInv, Frames
  <2>3. source \in Trees /\ list = LowerOmp(source) /\ stack \in Seq(Frames)
    BY <2>2 DEF LoweredInv
  <2>4. CASE Pass
    <3>1. At({"leaf", "bind"}) /\ Into(<<>>, I + 1, FALSE) /\ list' = list /\ stack # <<>>
      BY <2>4 DEF Pass, At
    <3>2. I + 1 \in Nat \ {0}
      BY <2>3, <3>1, LoweredAt
    <3>3. <<>> \in Seq(DOMAIN source) /\ FALSE \in BOOLEAN
      OBVIOUS
    <3>4. stack' \in Seq(Frames)
      BY <2>3, <3>1, <3>2, <3>3, IntoTyped
    <3> QED
      BY <3>1, <3>4
  <2>5. CASE EnterCond
    <3>1. At({"cond"}) /\ Into(Arms(Stmt), I + 1, FALSE) /\ list' = list /\ stack # <<>>
      BY <2>5 DEF EnterCond, At
    <3>2. /\ I + 1 \in Nat \ {0} /\ Stmt.kind = "cond"
          /\ source[L][I] \in Statements(Len(source)) /\ Stmt = Lowered(source, source[L][I])
      BY <2>3, <3>1, LoweredAt
    <3>3. Stmt.lists \in (0 .. Len(source)) \X (0 .. Len(source))
      BY <3>2, NoConstruct
    <3>4. Len(source) \in Nat /\ DOMAIN source = 1 .. Len(source)
      BY <2>3, TreesAssumption
    <3>5. ASSUME NEW l \in 0 .. Len(source) PROVE Arm(l) \in Seq(DOMAIN source)
      <4>1. CASE l = 0
        BY <4>1 DEF Arm
      <4>2. CASE l # 0
        <5>1. l \in DOMAIN source
          BY <3>4, <4>2
        <5>2. Arm(l) = <<l>>
          BY <4>2 DEF Arm
        <5> QED
          BY <5>1, <5>2
      <4> QED
        BY <4>1, <4>2
    <3>6. Arms(Stmt) \in Seq(DOMAIN source)
      <4>1. Stmt.lists[1] \in 0 .. Len(source) /\ Stmt.lists[2] \in 0 .. Len(source)
        BY <3>3
      <4>2. Arm(Stmt.lists[1]) \in Seq(DOMAIN source) /\ Arm(Stmt.lists[2]) \in Seq(DOMAIN source)
        BY <3>5, <4>1
      <4> QED
        BY <4>2 DEF Arms
    <3>7. FALSE \in BOOLEAN
      OBVIOUS
    <3> QED
      BY <2>3, <3>1, <3>2, <3>6, <3>7, IntoTyped
  <2>6. CASE Enter \/ LeaveSections \/ LeaveParallel
    <3>1. PICK kinds : At(kinds) /\ kinds \subseteq {"parallel", "sections"}
      BY <2>6 DEF Enter, LeaveSections, LeaveParallel
    <3> QED
      BY <2>3, <3>1, LoweredAt, NoConstruct
  <2>7. CASE Return
    BY <2>3, <2>7 DEF Return
  <2>8. CASE Done \/ UNCHANGED vars
    BY <2>3, <2>8 DEF Done, vars
  <2> QED
    BY <2>4, <2>5, <2>6, <2>7, <2>8 DEF Next, Step
<1>3. LoweredInv => NothingToDo
  BY DEF LoweredInv, NothingToDo
<1> QED
  BY <1>1, <1>2, <1>3, PTL DEF Spec
==================================================================================
