----------------------------- MODULE Offload_proofs -----------------------------
(* Theorems about the two replacement passes one behind the other. Each pass is   *)
(* taken from its own module, with what is proved there of its steps.             *)
EXTENDS Offload, TreeWalk_proofs

DP == INSTANCE DiopsisReplace_proofs WITH func <- dspFunc
FP == INSTANCE FpgaReplace_proofs

--------------------------------------------------------------------------------
(* The assumptions of the two modules.                                            *)

LEMMA DspFacts ==
  /\ \A p \in Programs : DP!WellFormed(p)
  /\ NamedDsp \subseteq Nat /\ Dsp \subseteq Nat /\ NoWait \subseteq Nat
  /\ \A p \in Programs : \A st \in DP!StatementsOf(p) : st.kind # "builtin"
  /\ DspStat \in BOOLEAN /\ GppStat \in BOOLEAN
<1>1. \A p \in Programs : DP!WellFormed(p) <=> WellFormed(p)
  BY DEF DP!WellFormed, WellFormed, DP!StatementsOf, StatementsOf, DP!NestedOnce, NestedOnce,
         DP!Nested, Nested, DP!ToSet, ToSet, DP!IsInjective, IsInjective
<1>2. \A p \in Programs : DP!StatementsOf(p) = StatementsOf(p)
  BY DEF DP!StatementsOf, StatementsOf, DP!ToSet, ToSet
<1> QED
  BY <1>1, <1>2, ProgramsAssumption, DspAssumption, OptionsAssumption, NoBuiltinsAssumption

LEMMA FpgaFacts ==
  /\ \A p \in Programs : FP!WellFormed(p)
  /\ Fpga \subseteq Nat
  /\ \A p \in Programs : \A st \in FP!StatementsOf(p) : st.kind = "call" => FP!SizedArgs(st.args)
  /\ GenerateSet \in BOOLEAN /\ FpgaStat \in BOOLEAN
<1>1. \A p \in Programs : FP!WellFormed(p) <=> WellFormed(p)
  BY DEF FP!WellFormed, WellFormed, FP!StatementsOf, StatementsOf, FP!NestedOnce, NestedOnce,
         FP!Nested, Nested, FP!ToSet, ToSet, FP!IsInjective, IsInjective
<1>2. \A p \in Programs : FP!StatementsOf(p) = StatementsOf(p)
  BY DEF FP!StatementsOf, StatementsOf, FP!ToSet, ToSet
<1>3. \A args : FP!SizedArgs(args) <=> F!SizedArgs(args)
  BY DEF FP!SizedArgs, F!SizedArgs, FP!ToSet, F!ToSet
<1> QED
  BY <1>1, <1>2, <1>3, ProgramsAssumption, FpgaAssumption, OptionsAssumption, ArgsAssumption

--------------------------------------------------------------------------------
(* The operators of the two modules are those of this one.                        *)

LEMMA DspWalk ==
  DP!WalkInv /\ func \in 0 .. Len(program.roots) <=> WalkInv /\ dspFunc \in 0 .. Len(program.roots)
BY DEF DP!WalkInv, WalkInv, DP!WalkTypeOK, WalkTypeOK, DP!ListsKept, ListsKept,
       DP!NestedOnce, NestedOnce, DP!WalkedOnce, WalkedOnce, DP!NotAhead, NotAhead,
       DP!WalkedWithin, WalkedWithin, DP!Nested, Nested, DP!ToSet, ToSet,
       DP!StatementsOf, StatementsOf

LEMMA DspSpans ==
  /\ DP!ListsEmbedded <=> ListsEmbedded
  /\ DP!OuterClear <=> OuterClear
  /\ DP!Waiting <=> Waiting
  /\ DP!Spanned <=> Spanned
BY DEF DP!ListsEmbedded, ListsEmbedded, DP!OuterClear, OuterClear, DP!Waiting, Waiting,
       DP!Spanned, Spanned, DP!Clear, Clear, DP!InSpan, InSpan, DP!CallAhead, CallAhead,
       DP!IsDummy, IsDummy, DP!Between, Between, DP!Other, Other, DP!Nest, Nest,
       DP!NoUnit, NoUnit, DP!L, L, DP!I, I

LEMMA FpgaWalk == FP!WalkInv <=> WalkInv
BY DEF FP!WalkInv, WalkInv, FP!WalkTypeOK, WalkTypeOK, FP!ListsKept, ListsKept,
       FP!NestedOnce, NestedOnce, FP!WalkedOnce, WalkedOnce, FP!NotAhead, NotAhead,
       FP!WalkedWithin, WalkedWithin, FP!Nested, Nested, FP!ToSet, ToSet,
       FP!StatementsOf, StatementsOf

LEMMA FpgaSpans ==
  /\ FP!ListsEmbedded <=> ListsEmbedded
  /\ FP!OuterClear <=> OuterClear
  /\ FP!Waiting <=> Waiting
BY DEF FP!ListsEmbedded, ListsEmbedded, FP!OuterClear, OuterClear, FP!Waiting, Waiting,
       FP!Clear, Clear, FP!InSpan, InSpan, FP!CallAhead, CallAhead,
       FP!IsDummy, IsDummy, FP!Between, Between, FP!Other, Other, FP!Nest, Nest,
       FP!NoUnit, NoUnit, FP!L, L, FP!I, I

LEMMA FpgaEmitted ==
  /\ \A call, u : F!Emitted(call, u) = FP!Emitted(call, u)
  /\ \A args : F!BytesIn(args) = FP!BytesIn(args) /\ F!BytesOut(args) = FP!BytesOut(args)
<1>1. \A S : F!Cardinality(S) = FP!Cardinality(S)
  BY DEF F!Cardinality, FP!Cardinality
<1>2. \A S, n : F!Nth(S, n) = FP!Nth(S, n)
  BY DEF F!Nth, FP!Nth, F!Cardinality, FP!Cardinality
<1>3. \A args : F!Back(args) = FP!Back(args)
  BY DEF F!Back, FP!Back
<1>4. \A op, u, n : F!Builtin(op, u, n) = FP!Builtin(op, u, n)
  BY DEF F!Builtin, FP!Builtin
<1>5. \A args, kinds : F!Words(args, kinds) = FP!Words(args, kinds)
  BY DEF F!Words, FP!Words
<1>6. \A args : F!BytesIn(args) = FP!BytesIn(args) /\ F!BytesOut(args) = FP!BytesOut(args)
  BY <1>1, <1>5 DEF F!BytesIn, FP!BytesIn, F!BytesOut, FP!BytesOut, F!Bytes, FP!Bytes
<1>7. \A args, u : F!Prologue(args, u) = FP!Prologue(args, u)
  BY <1>4 DEF F!Prologue, FP!Prologue
<1>8. \A args, u : F!Epilogue(args, u) = FP!Epilogue(args, u)
  BY <1>1, <1>2, <1>3, <1>4 DEF F!Epilogue, FP!Epilogue
<1>9. \A op, n : F!Stat(op, n) = FP!Stat(op, n)
  BY <1>4 DEF F!Stat, FP!Stat, F!NoUnit, FP!NoUnit
<1>10. \A call, u : F!Emitted(call, u) = FP!Emitted(call, u)
  BY <1>4, <1>6, <1>7, <1>8, <1>9 DEF F!Emitted, FP!Emitted
<1> QED
  BY <1>6, <1>10

LEMMA FpgaWalks == F!Walk <=> FP!Walk
BY DEF F!Walk, FP!Walk, F!Execute, FP!Execute, F!Finish, FP!Finish, F!Leave, FP!Leave,
       F!Enter, FP!Enter, F!Pass, FP!Pass, F!At, FP!At, F!L, FP!L, F!I, FP!I, F!MoveTo,
       FP!MoveTo, F!Continue, FP!Continue, F!Next, FP!Next, F!Start, FP!Start, F!Stmt,
       FP!Stmt

LEMMA FpgaPasses ==
  /\ F!PassBuiltin <=> FP!PassBuiltin
  /\ F!DummyOther <=> FP!DummyOther
  /\ F!CallKept <=> FP!CallKept
  /\ F!CallUnsupported <=> FP!CallUnsupported
BY DEF F!PassBuiltin, FP!PassBuiltin, F!DummyOther, FP!DummyOther, F!CallKept,
       FP!CallKept, F!CallUnsupported, FP!CallUnsupported, F!Unit, FP!Unit, F!Consume,
       FP!Consume, F!Supported, FP!Supported, F!Pass, FP!Pass, F!At, FP!At, F!L, FP!L,
       F!I, FP!I, F!MoveTo, FP!MoveTo, F!Continue, FP!Continue, F!Next, FP!Next, F!Stmt,
       FP!Stmt, F!NoUnit, FP!NoUnit

LEMMA FpgaDummy == F!DummyFpga <=> FP!DummyFpga
BY DEF F!DummyFpga, FP!DummyFpga, F!Delinked, FP!Delinked, F!RemoveAt, FP!RemoveAt,
       F!Prev, FP!Prev, F!At, FP!At, F!L, FP!L, F!I, FP!I, F!MoveTo, FP!MoveTo,
       F!Continue, FP!Continue, F!Next, FP!Next, F!Stmt, FP!Stmt, F!NoUnit, FP!NoUnit

LEMMA FpgaCall == F!CallReplaced <=> FP!CallReplaced
BY FpgaEmitted DEF F!CallReplaced, FP!CallReplaced, F!Supported, FP!Supported, F!Unit, FP!Unit,
       F!Consume, FP!Consume, F!Replace, FP!Replace, F!ReplaceExpr, FP!ReplaceExpr,
       F!ReplaceModify, FP!ReplaceModify, F!LinkedBefore, FP!LinkedBefore, F!Delinked,
       FP!Delinked, F!RemoveAt, FP!RemoveAt, F!Prev, FP!Prev, F!Assigned, FP!Assigned,
       F!At, FP!At, F!L, FP!L, F!I, FP!I, F!MoveTo, FP!MoveTo, F!Continue, FP!Continue,
       F!Next, FP!Next, F!Stmt, FP!Stmt, F!NoUnit, FP!NoUnit

LEMMA FpgaBuiltin == F!BuiltinReplaced <=> FP!BuiltinReplaced
BY FpgaEmitted DEF F!BuiltinReplaced, FP!BuiltinReplaced, F!BuiltinArgs, FP!BuiltinArgs, F!Constant,
       FP!Constant, F!Literal, FP!Literal, F!Unit, FP!Unit, F!Consume, FP!Consume,
       F!Replace, FP!Replace, F!ReplaceExpr, FP!ReplaceExpr, F!ReplaceModify,
       FP!ReplaceModify, F!LinkedBefore, FP!LinkedBefore, F!Delinked, FP!Delinked,
       F!RemoveAt, FP!RemoveAt, F!Prev, FP!Prev, F!Assigned, FP!Assigned, F!At, FP!At,
       F!L, FP!L, F!I, FP!I, F!MoveTo, FP!MoveTo, F!Continue, FP!Continue, F!Next,
       FP!Next, F!Stmt, FP!Stmt, F!NoUnit, FP!NoUnit

LEMMA DspEmitted ==
  /\ \A call, nowait : D!Emitted(call, nowait) = DP!Emitted(call, nowait)
  /\ \A s, i : D!Timed(s, i) = DP!Timed(s, i)
<1>1. \A S : D!Cardinality(S) = DP!Cardinality(S)
  BY DEF D!Cardinality, DP!Cardinality
<1>2. \A S, n : D!Nth(S, n) = DP!Nth(S, n)
  BY DEF D!Nth, DP!Nth, D!Cardinality, DP!Cardinality
<1>3. \A op, u, n : D!Builtin(op, u, n) = DP!Builtin(op, u, n)
  BY DEF D!Builtin, DP!Builtin
<1>4. \A kind : D!File(kind) = DP!File(kind) /\ D!Width(kind) = DP!Width(kind)
  BY DEF D!File, DP!File, D!Width, DP!Width
<1>5. \A kinds, n : D!Advance(kinds, n) = DP!Advance(kinds, n)
  BY DEF D!Advance, DP!Advance, D!File, DP!File, D!Width, DP!Width, D!FoldLeft,
         DP!FoldLeft, D!MapThenFoldSet, DP!MapThenFoldSet, D!Max, DP!Max
<1>6. \A call, i : D!Slot(call, i) = DP!Slot(call, i)
  BY <1>5 DEF D!Slot, DP!Slot, D!Kinds, DP!Kinds
<1>7. \A args, i : D!Alias(args, i) = DP!Alias(args, i)
  BY DEF D!Alias, DP!Alias, D!Pointers, DP!Pointers, D!Max, DP!Max
<1>8. \A call, i : D!Parm(call, i) = DP!Parm(call, i)
  BY <1>6, <1>7 DEF D!Parm, DP!Parm
<1>9. \A args : D!Passed(args) = DP!Passed(args)
  BY DEF D!Passed, DP!Passed, D!Allocated, DP!Allocated
<1>10. \A call : D!ParmsOf(call) = DP!ParmsOf(call)
  BY <1>1, <1>2, <1>8, <1>9 DEF D!ParmsOf, DP!ParmsOf
<1>11. \A args : D!BytesIn(args) = DP!BytesIn(args)
  BY DEF D!BytesIn, DP!BytesIn, D!FoldLeft, DP!FoldLeft, D!MapThenFoldSet,
         DP!MapThenFoldSet, D!Max, DP!Max
<1>12. \A args : D!BytesOut(args) = DP!BytesOut(args)
  BY DEF D!BytesOut, DP!BytesOut, D!Allocated, DP!Allocated, D!FoldLeft, DP!FoldLeft,
         D!MapThenFoldSet, DP!MapThenFoldSet, D!Max, DP!Max
<1>13. D!NoUnit = DP!NoUnit /\ D!NOWAIT_FUNC = DP!NOWAIT_FUNC
  BY DEF D!NoUnit, DP!NoUnit, D!NOWAIT_FUNC, DP!NOWAIT_FUNC
<1>14. ASSUME NEW call, NEW nowait PROVE D!Emitted(call, nowait) = DP!Emitted(call, nowait)
  <2> DEFINE file == \E i \in D!Passed(call.args) : D!File(call.args[i].kind) = "pointer_int"
  <2>1. file <=> \E i \in DP!Passed(call.args) : DP!File(call.args[i].kind) = "pointer_int"
    BY <1>4, <1>9
  <2> HIDE DEF file
  <2> QED
    BY <1>3, <1>10, <1>11, <1>12, <1>13, <2>1, Zenon
       DEF D!Emitted, DP!Emitted, D!If, DP!If, file
<1>15. \A s, i : D!Timed(s, i) = DP!Timed(s, i)
  BY <1>3 DEF D!Timed, DP!Timed, D!LinkedBefore, DP!LinkedBefore, D!NoUnit, DP!NoUnit
<1> QED
  BY <1>14, <1>15

LEMMA DspWalks == D!Walk <=> DP!Walk
BY DEF D!Walk, DP!Walk, D!Execute, DP!Execute, D!Finish, DP!Finish, D!Leave,
       DP!Leave, D!Enter, DP!Enter, D!Pass, DP!Pass, D!Start, DP!Start, D!dspVars,
       DP!dspVars, D!At, DP!At, D!L, DP!L, D!I, DP!I, D!MoveTo, DP!MoveTo,
       D!Continue, DP!Continue, D!Next, DP!Next, D!Stmt, DP!Stmt, D!NoUnit,
       DP!NoUnit

LEMMA DspPasses ==
  /\ D!PassBehind <=> DP!PassBehind
  /\ D!PassBuiltin <=> DP!PassBuiltin
  /\ D!DummyOther <=> DP!DummyOther
BY DEF D!PassBehind, DP!PassBehind, D!PassBuiltin, DP!PassBuiltin, D!DummyOther,
       DP!DummyOther, D!Pass, DP!Pass, D!At, DP!At, D!L, DP!L, D!I, DP!I, D!MoveTo,
       DP!MoveTo, D!Continue, DP!Continue, D!Next, DP!Next, D!Stmt, DP!Stmt,
       D!NoUnit, DP!NoUnit

LEMMA DspDummies ==
  /\ D!DummyDsp <=> DP!DummyDsp
  /\ D!DummyAsCall <=> DP!DummyAsCall
BY DEF D!DummyDsp, DP!DummyDsp, D!DummyAsCall, DP!DummyAsCall, D!Delinked,
       DP!Delinked, D!RemoveAt, DP!RemoveAt, D!Mapping, DP!Mapping, D!Attrs,
       DP!Attrs, D!Asks, DP!Asks, D!At, DP!At, D!L, DP!L, D!I, DP!I, D!MoveTo,
       DP!MoveTo, D!Continue, DP!Continue, D!Next, DP!Next, D!Stmt, DP!Stmt,
       D!NoUnit, DP!NoUnit

LEMMA DspCalls ==
  /\ D!CallGpp <=> DP!CallGpp
  /\ D!CallOther <=> DP!CallOther
  /\ D!CallUnsupported <=> DP!CallUnsupported
BY DspEmitted DEF D!CallGpp, DP!CallGpp, D!CallOther, DP!CallOther,
       D!CallUnsupported, DP!CallUnsupported, D!Mapping, DP!Mapping, D!Attrs,
       DP!Attrs, D!Asks, DP!Asks, D!Supported, DP!Supported, D!At, DP!At, D!L, DP!L,
       D!I, DP!I, D!MoveTo, DP!MoveTo, D!Continue, DP!Continue, D!Next, DP!Next,
       D!Stmt, DP!Stmt, D!NoUnit, DP!NoUnit

LEMMA DspReplaces ==
  /\ D!CallBlocking <=> DP!CallBlocking
  /\ D!CallNowait <=> DP!CallNowait
BY DspEmitted DEF D!CallBlocking, DP!CallBlocking, D!CallNowait, DP!CallNowait,
       D!Mapping, DP!Mapping, D!Attrs, DP!Attrs, D!Asks, DP!Asks, D!Supported,
       DP!Supported, D!Replace, DP!Replace, D!ReplaceExpr, DP!ReplaceExpr,
       D!ReplaceModify, DP!ReplaceModify, D!LinkedBefore, DP!LinkedBefore,
       D!Delinked, DP!Delinked, D!RemoveAt, DP!RemoveAt, D!Prev, DP!Prev,
       D!Assigned, DP!Assigned, D!At, DP!At, D!L, DP!L, D!I, DP!I, D!MoveTo,
       DP!MoveTo, D!Continue, DP!Continue, D!Next, DP!Next, D!Stmt, DP!Stmt,
       D!NoUnit, DP!NoUnit

LEMMA DspSteps == D!Step <=> DP!Step
BY DspWalks, DspPasses, DspDummies, DspCalls, DspReplaces DEF D!Step, DP!Step

LEMMA FpgaSteps == F!Step <=> FP!Step
BY FpgaWalks, FpgaPasses, FpgaDummy, FpgaCall, FpgaBuiltin DEF F!Step, FP!Step

--------------------------------------------------------------------------------
(* The inductive invariant: one pass walks at a time, and what it has taken out   *)
(* waits in it for the call the walk comes to next.                               *)

OffloadInv ==
  /\ WalkInv /\ ListsEmbedded /\ OuterClear /\ FP!HeadsFree
  /\ fpga_id_dummy \in Fpga \cup {NoUnit} /\ trx_bytes \in Nat
  /\ dspFunc \in 0 .. Len(program.roots) /\ func \in {dspFunc - 1, dspFunc}
  /\ pragma_on_call_magic # NoUnit => Waiting /\ Behind
  /\ fpga_id_dummy # NoUnit => Waiting /\ ~Behind
  /\ Behind /\ Spanned => pragma_on_call # NoUnit
  /\ status \notin {"error", "crash"}

\* In its turn a pass is in a state it could be in without the other.
LEMMA DspAlone == OffloadInv /\ DspTurn => DP!SpanInv
<1> SUFFICES ASSUME OffloadInv, DspTurn PROVE DP!SpanInv
  OBVIOUS
<1>1. func \in 0 .. Len(program.roots)
  BY DEF OffloadInv, WalkInv, WalkTypeOK
<1>2. Spanned => Behind
  BY DEF Spanned, DspTurn
<1> QED
  BY <1>1, <1>2, DspWalk, DspSpans DEF OffloadInv, DP!SpanInv, DP!NoUnit, NoUnit

LEMMA FpgaAlone == OffloadInv /\ ~DspTurn => FP!SpanInv
BY FpgaWalk, FpgaSpans DEF OffloadInv, FP!SpanInv, FP!PassInv, FP!NoUnit, NoUnit

\* What each pass keeps by itself.
LEMMA DspKeeps ==
  DP!SpanInv /\ func \in 0 .. Len(program.roots) =>
    /\ WalkInv /\ ListsEmbedded /\ OuterClear /\ dspFunc \in 0 .. Len(program.roots)
    /\ pragma_on_call_magic # NoUnit => Waiting
    /\ Spanned => pragma_on_call # NoUnit
BY DspWalk, DspSpans DEF DP!SpanInv, DP!NoUnit, NoUnit

LEMMA FpgaKeeps ==
  FP!SpanInv =>
    /\ WalkInv /\ ListsEmbedded /\ OuterClear /\ FP!HeadsFree
    /\ fpga_id_dummy \in Fpga \cup {NoUnit} /\ trx_bytes \in Nat
    /\ fpga_id_dummy # NoUnit => Waiting
    /\ status \notin {"error", "crash"}
BY FpgaWalk, FpgaSpans DEF FP!SpanInv, FP!PassInv, FP!NoUnit, NoUnit

\* A pass is called for another function only where no list is walked.
LEMMA DspCalled ==
  ASSUME D!Step
  PROVE  /\ UNCHANGED program /\ status' \in {status, "done", "unsupported"}
         /\ stack # <<>> => UNCHANGED dspFunc
         /\ stack = <<>> => \/ stack' = <<>> /\ UNCHANGED dspFunc
                            \/ dspFunc' = dspFunc + 1
BY DEF D!Step, D!Walk, D!Execute, D!Finish, D!Leave, D!Enter, D!Pass, D!At, D!PassBehind,
       D!PassBuiltin, D!DummyDsp, D!DummyOther, D!DummyAsCall, D!CallGpp, D!CallOther,
       D!CallBlocking, D!CallNowait, D!CallUnsupported, D!Mapping

LEMMA FpgaCalled ==
  ASSUME F!Step
  PROVE  /\ UNCHANGED program
         /\ stack # <<>> => UNCHANGED func
         /\ stack = <<>> => \/ stack' = <<>> /\ UNCHANGED func
                            \/ func' = func + 1
BY DEF F!Step, F!Walk, F!Execute, F!Finish, F!Leave, F!Enter, F!Pass, F!At, F!PassBuiltin,
       F!DummyOther, F!DummyFpga, F!BuiltinReplaced, F!CallKept, F!CallReplaced,
       F!CallUnsupported

LEMMA InitOffload == ASSUME Init, SourceEmbedded, FP!HeadsFree PROVE OffloadInv
<1>1. /\ WalkInit /\ dspFunc = 0 /\ func = 0 /\ fpga_id_dummy = NoUnit /\ trx_bytes = 0
      /\ pragma_on_call_magic = NoUnit
  BY DEF Init, D!Init, F!Init, F!WalkInit, WalkInit, D!WalkInit, D!NoUnit, F!NoUnit, NoUnit
<1>2. WalkInv /\ ListsEmbedded /\ OuterClear
  BY <1>1, InitKeeps, SourceStarts
<1>3. status \notin {"error", "crash"} /\ ~Behind
  BY <1>1 DEF WalkInit, Behind
<1>4. dspFunc \in 0 .. Len(program.roots)
  BY <1>1, <1>2 DEF WalkInv, WalkTypeOK
<1> QED
  BY <1>1, <1>2, <1>3, <1>4 DEF OffloadInv

LEMMA DspStepKeeps == ASSUME OffloadInv, DspStep PROVE OffloadInv'
<1>1. /\ DspTurn /\ D!Step /\ UNCHANGED <<func, fpga_id_dummy, trx_bytes, program>>
      /\ func \in 0 .. Len(program.roots) /\ dspFunc \in Nat /\ func \in Nat
  BY DspCalled DEF OffloadInv, WalkInv, WalkTypeOK, DspStep, fpgaVars
<1>2. DP!SpanInv'
  BY <1>1, DspAlone, DspSteps, DP!StepSpans, DspFacts
<1>3. /\ WalkInv' /\ ListsEmbedded' /\ OuterClear' /\ (dspFunc \in 0 .. Len(program.roots))'
      /\ pragma_on_call_magic' # NoUnit => Waiting'
      /\ Spanned' => pragma_on_call' # NoUnit
  <2>1. (func \in 0 .. Len(program.roots))'
    BY <1>1
  <2>2. (/\ WalkInv /\ ListsEmbedded /\ OuterClear /\ dspFunc \in 0 .. Len(program.roots)
         /\ pragma_on_call_magic # NoUnit => Waiting
         /\ Spanned => pragma_on_call # NoUnit)'
    BY <1>2, <2>1, DspKeeps, PTL
  <2> QED
    BY <2>2
<1>4. fpga_id_dummy = NoUnit
  BY <1>1 DEF OffloadInv, DspTurn, Waiting
<1>5. status' \notin {"error", "crash"} /\ FP!HeadsFree'
  BY <1>1, DspCalled DEF OffloadInv, FP!HeadsFree
<1>6. CASE stack # <<>>
  <2>1. Behind /\ UNCHANGED dspFunc
    BY <1>1, <1>6, DspCalled DEF DspTurn
  <2> QED
    BY <1>1, <1>3, <1>4, <1>5, <2>1 DEF OffloadInv, Behind
<1>7. CASE stack = <<>>
  <2>1. func = dspFunc
    BY <1>1, <1>7 DEF DspTurn, Behind, OffloadInv
  <2>2. CASE stack' = <<>> /\ UNCHANGED dspFunc
    BY <1>1, <1>3, <1>4, <1>5, <2>1, <2>2 DEF OffloadInv, Waiting
  <2>3. CASE dspFunc' = dspFunc + 1
    BY <1>1, <1>3, <1>4, <1>5, <2>1, <2>3 DEF OffloadInv, Behind
  <2> QED
    BY <1>1, <1>7, <2>2, <2>3, DspCalled
<1> QED
  BY <1>6, <1>7

LEMMA FpgaStepKeeps == ASSUME OffloadInv, FpgaStep PROVE OffloadInv'
<1>1. /\ ~DspTurn /\ F!Step
      /\ UNCHANGED <<dspFunc, pragma_on_call, pragma_on_call_magic, program>>
      /\ dspFunc \in Nat /\ func \in {dspFunc - 1, dspFunc}
      /\ (dspFunc \in 0 .. Len(program.roots))'
  BY FpgaCalled DEF OffloadInv, FpgaStep, dspVars
<1>2. FP!SpanInv'
  BY <1>1, FpgaAlone, FpgaSteps, FP!StepSpans, FpgaFacts
<1>3. /\ WalkInv' /\ ListsEmbedded' /\ OuterClear' /\ FP!HeadsFree'
      /\ fpga_id_dummy' \in Fpga \cup {NoUnit} /\ trx_bytes' \in Nat
      /\ fpga_id_dummy' # NoUnit => Waiting'
      /\ status' \notin {"error", "crash"}
  <2>1. (/\ WalkInv /\ ListsEmbedded /\ OuterClear /\ FP!HeadsFree
         /\ fpga_id_dummy \in Fpga \cup {NoUnit} /\ trx_bytes \in Nat
         /\ fpga_id_dummy # NoUnit => Waiting
         /\ status \notin {"error", "crash"})'
    BY <1>2, FpgaKeeps, PTL
  <2> QED
    BY <2>1
<1>4. pragma_on_call_magic = NoUnit
  BY <1>1 DEF OffloadInv, DspTurn, Waiting
<1>5. CASE stack # <<>>
  <2>1. ~Behind /\ ~Behind' /\ func' = func
    BY <1>1, <1>5, FpgaCalled DEF DspTurn, Behind
  <2> QED
    BY <1>1, <1>3, <1>4, <2>1 DEF OffloadInv
<1>6. CASE stack = <<>>
  <2>1. Behind /\ func = dspFunc - 1
    BY <1>1, <1>6 DEF DspTurn, Behind
  <2>2. CASE stack' = <<>> /\ UNCHANGED func
    BY <1>1, <1>3, <1>4, <2>1, <2>2 DEF OffloadInv, Waiting, Spanned
  <2>3. CASE func' = func + 1
    <3>1. func' = dspFunc' /\ ~Behind'
      BY <1>1, <2>1, <2>3 DEF Behind
    <3> QED
      BY <1>1, <1>3, <1>4, <3>1 DEF OffloadInv
  <2> QED
    BY <1>1, <1>6, <2>2, <2>3, FpgaCalled
<1> QED
  BY <1>5, <1>6

LEMMA OffloadStays == ASSUME OffloadInv, UNCHANGED vars PROVE OffloadInv'
<1>1. /\ UNCHANGED <<program, list, func, stack, status, dspFunc, pragma_on_call,
                     pragma_on_call_magic, fpga_id_dummy, trx_bytes>>
      /\ status \in Statuses
  BY DEF vars, walkVars, dspVars, fpgaVars, OffloadInv, WalkInv, WalkTypeOK, Statuses
<1>2. WalkInv' /\ ListsEmbedded' /\ OuterClear' /\ (Waiting' <=> Waiting) /\ (Spanned' <=> Spanned)
  BY <1>1, StopKeeps, SourceStays, WalksStay DEF OffloadInv
<1> QED
  BY <1>1, <1>2 DEF OffloadInv, Behind, FP!HeadsFree

\* Whatever the program, an invariant of both passes where the pragmas are apart.
LEMMA OffloadSafe == Spec => [](PragmasApart => OffloadInv)
<1> DEFINE Inv == SourceEmbedded /\ FP!HeadsFree => OffloadInv
<1>1. Init => Inv
  BY InitOffload
<1>2. Inv /\ [Step \/ Stopped]_vars => Inv'
  <2> SUFFICES ASSUME Inv, [Step \/ Stopped]_vars, (SourceEmbedded /\ FP!HeadsFree)' PROVE OffloadInv'
    OBVIOUS
  <2>1. UNCHANGED program
    BY DspCalled, FpgaCalled DEF Step, DspStep, FpgaStep, Stopped, vars, walkVars
  <2>2. OffloadInv
    BY <2>1 DEF SourceEmbedded, FP!HeadsFree
  <2>3. CASE Step
    BY <2>2, <2>3, DspStepKeeps, FpgaStepKeeps DEF Step
  <2>4. CASE ~Step
    BY <2>2, <2>4, OffloadStays DEF Stopped
  <2> QED
    BY <2>3, <2>4
<1>3. PragmasApart => SourceEmbedded /\ FP!HeadsFree
  BY DEF PragmasApart, D!PragmasApart, SourceEmbedded, FP!HeadsFree, D!DummiesEmbedded,
         DummiesEmbedded, D!Other, Other, D!Nest, Nest, D!NoUnit, NoUnit
<1>4. Inv => (PragmasApart => OffloadInv)
  BY <1>3
<1> HIDE DEF Inv
<1> QED
  BY <1>1, <1>2, <1>4, PTL DEF Spec

\* No dummy waits for a call where the second pass meets a builtin.
LEMMA BuiltinsFree == OffloadInv /\ ~DspTurn /\ At("builtin") => fpga_id_dummy = NoUnit
<1> SUFFICES ASSUME OffloadInv, ~DspTurn, At("builtin"), fpga_id_dummy # NoUnit PROVE FALSE
  OBVIOUS
<1>1. Stmt \in Between \/ Stmt.kind = "call"
  BY WaitingAt DEF OffloadInv
<1> QED
  BY <1>1, BetweenKinds DEF At, Stmt

\* For every program whose pragmas are written apart, and all units and options: what
\* diopsis_replace_calls_tree has linked in is never taken by fpga_replace_calls_tree
\* for the call a dummy is meant for (gcc/passes.c, gcc/fpga.c, replace_call_tree_tsi).
THEOREM RemoteCallsUntouched == Spec => []BuiltinsUntouched
<1>1. (PragmasApart => OffloadInv) => BuiltinsUntouched
  BY BuiltinsFree DEF BuiltinsUntouched
<1> QED
  BY <1>1, OffloadSafe, PTL

\* For the same programs: the second pass neither gives up over two dummies nor goes
\* astray behind a list, whatever lists the first has left it.
THEOREM PassesAgree == Spec => [](PragmasApart => status \notin {"error", "crash"})
<1>1. (PragmasApart => OffloadInv) => (PragmasApart => status \notin {"error", "crash"})
  BY DEF OffloadInv
<1> QED
  BY <1>1, OffloadSafe, PTL
--------------------------------------------------------------------------------
(* What holds of every program, wherever its dummies stand.                       *)

\* Neither of a call nor a dummy of either pass.
Rest == {st \in StatementsOf(program) :
           /\ st.kind \notin {"builtin", "call", "assigned"}
           /\ st.kind = "dummy" => st.unit \notin NamedDsp \cup Fpga}

BothInv ==
  /\ WalkInv /\ dspFunc \in 0 .. Len(program.roots)
  /\ fpga_id_dummy \in Fpga \cup {NoUnit} /\ trx_bytes \in Nat
  /\ hartes_rpc_uid \in Nat /\ DP!UidsBelow /\ DP!UidsApart

LEMMA BothDsp ==
  BothInv <=> /\ DP!UidInv /\ func \in 0 .. Len(program.roots)
              /\ fpga_id_dummy \in Fpga \cup {NoUnit} /\ trx_bytes \in Nat
<1>1. WalkInv => func \in 0 .. Len(program.roots)
  BY DEF WalkInv, WalkTypeOK
<1> QED
  BY <1>1, DspWalk DEF BothInv, DP!UidInv

LEMMA BothFpga ==
  BothInv <=> /\ FP!PassInv /\ dspFunc \in 0 .. Len(program.roots)
              /\ hartes_rpc_uid \in Nat /\ DP!UidsBelow /\ DP!UidsApart
BY FpgaWalk DEF BothInv, FP!PassInv, FP!NoUnit, NoUnit

LEMMA BothOpens == FP!OpensNothing =>
  \/ UNCHANGED list
  \/ /\ stack # <<>> /\ DP!I # 0
     /\ \E n \in Nat : \E s : /\ DP!Edited(s, n) /\ list' = [list EXCEPT ![DP!L] = s]
                            /\ \A k \in DP!I .. DP!I + n - 1 : ~DP!IsOpen(s[k])
<1>1. FP!L = DP!L /\ FP!I = DP!I
  BY DEF FP!L, DP!L, FP!I, DP!I
<1>2. \A st : FP!IsOpen(st) <=> DP!IsOpen(st)
  BY DEF FP!IsOpen, DP!IsOpen
<1>3. \A s, n : FP!Edited(s, n) <=> DP!Edited(s, n)
  <2>1. \A n, k : FP!Before(n, k) = DP!Before(n, k)
    BY <1>1 DEF FP!Before, DP!Before
  <2>2. FP!StatementsOf(program) = DP!StatementsOf(program)
    BY DEF FP!StatementsOf, DP!StatementsOf, FP!ToSet, DP!ToSet
  <2>3. \A s : FP!ToSet(s) = DP!ToSet(s)
    BY DEF FP!ToSet, DP!ToSet
  <2> QED
    BY <1>1, <2>1, <2>2, <2>3 DEF FP!Edited, DP!Edited
<1> QED
  BY <1>1, <1>2, <1>3 DEF FP!OpensNothing

LEMMA BothKept == ASSUME NEW R PROVE (DP!KeptIn(R) <=> KeptIn(R)) /\ (FP!KeptIn(R) <=> KeptIn(R))
BY DEF DP!KeptIn, FP!KeptIn, KeptIn, DP!SameIn, FP!SameIn, SameIn, DP!PlacesOf, FP!PlacesOf,
       PlacesOf

LEMMA InitBoth == Init => BothInv
<1> SUFFICES ASSUME Init PROVE BothInv
  OBVIOUS
<1>1. DP!Init
  BY DEF Init, D!Init, DP!Init, D!WalkInit, DP!WalkInit, D!NoUnit, DP!NoUnit
<1>2. DP!UidInv
  BY <1>1, DP!InitUids, DspFacts
<1>3. /\ WalkInit /\ fpga_id_dummy = NoUnit /\ trx_bytes = 0
  BY DEF Init, F!Init, F!WalkInit, WalkInit, F!NoUnit, NoUnit
<1>4. func \in 0 .. Len(program.roots)
  BY <1>3, InitKeeps DEF WalkInv, WalkTypeOK
<1> QED
  BY <1>2, <1>3, <1>4, BothDsp

LEMMA DspStepBoth ==
  ASSUME BothInv, DspStep, NEW R, DP!Apart(R), KeptIn(R) PROVE BothInv' /\ KeptIn(R)'
<1>1. DP!Step /\ UNCHANGED <<func, fpga_id_dummy, trx_bytes, program>>
  BY DspSteps, DspCalled DEF DspStep, fpgaVars
<1>2. DP!UidInv /\ DP!WalkInv
  BY BothDsp DEF DP!UidInv
<1>3. DP!UidInv'
  BY <1>1, <1>2, DP!StepUids, DspFacts
<1>4. (/\ DP!UidInv /\ func \in 0 .. Len(program.roots)
       /\ fpga_id_dummy \in Fpga \cup {NoUnit} /\ trx_bytes \in Nat)'
  BY <1>1, <1>3, BothDsp
<1>5. BothInv'
  BY <1>4, BothDsp, PTL
<1>6. DP!KeptIn(R)'
  BY <1>1, <1>2, DP!StepKept, DspFacts, BothKept
<1>7. KeptIn(R)'
  BY <1>6, BothKept, PTL
<1> QED
  BY <1>5, <1>7

LEMMA FpgaStepBoth ==
  ASSUME BothInv, FpgaStep, NEW R, FP!Apart(R), KeptIn(R) PROVE BothInv' /\ KeptIn(R)'
<1>1. FP!Step /\ UNCHANGED <<dspFunc, hartes_rpc_uid, program>>
  BY FpgaSteps, FpgaCalled DEF FpgaStep, dspVars
<1>2. FP!PassInv /\ FP!WalkInv /\ DP!UidInv /\ dspFunc \in 0 .. Len(program.roots)
  BY BothFpga, BothDsp DEF FP!PassInv
<1>3. FP!PassInv'
  BY <1>1, <1>2, FP!StepPass, FpgaFacts
<1>4. DP!WalkInv'
  <2>1. FP!WalkInv' /\ (dspFunc \in 0 .. Len(program.roots))'
    BY <1>1, <1>2, <1>3 DEF FP!PassInv
  <2>2. (WalkInv /\ dspFunc \in 0 .. Len(program.roots))'
    BY <2>1, FpgaWalk, PTL
  <2> QED
    BY <2>2, DspWalk, PTL
<1>5. FP!OpensNothing
  BY <1>1, <1>2, FP!StepOpensNothing, FpgaFacts
<1>6. DP!UidInv'
  <2>1. CASE UNCHANGED list
    BY <1>1, <1>2, <1>4, <2>1, DP!SameUids, DspFacts
  <2>2. CASE /\ stack # <<>> /\ DP!I # 0
             /\ \E n \in Nat : \E s : /\ DP!Edited(s, n) /\ list' = [list EXCEPT ![DP!L] = s]
                                    /\ \A k \in DP!I .. DP!I + n - 1 : ~DP!IsOpen(s[k])
    BY <1>1, <1>2, <1>4, <2>2, DP!NoNewUids, DspFacts
  <2> QED
    BY <1>5, <2>1, <2>2, BothOpens
<1>7. BothInv'
  <2>1. (/\ FP!PassInv /\ dspFunc \in 0 .. Len(program.roots)
         /\ hartes_rpc_uid \in Nat /\ DP!UidsBelow /\ DP!UidsApart)'
    BY <1>1, <1>2, <1>3, <1>6 DEF DP!UidInv
  <2> QED
    BY <2>1, BothFpga, PTL
<1>8. FP!KeptIn(R)'
  BY <1>1, <1>2, FP!StepKept, FpgaFacts, BothKept
<1>9. KeptIn(R)'
  BY <1>8, BothKept, PTL
<1> QED
  BY <1>7, <1>9

LEMMA StepBoth ==
  ASSUME BothInv, KeptIn(Rest), [Step \/ Stopped]_vars PROVE BothInv' /\ KeptIn(Rest)'
<1>1. PICK R : R = Rest
  OBVIOUS
<1>2. DP!Apart(R) /\ FP!Apart(R)
  BY <1>1 DEF DP!Apart, FP!Apart, Rest
<1>3. UNCHANGED program
  BY DspCalled, FpgaCalled DEF Step, DspStep, FpgaStep, Stopped, vars, walkVars
<1>4. Rest' = Rest
  BY <1>3 DEF Rest, StatementsOf
<1>5. CASE Step
  <2>1. BothInv' /\ KeptIn(R)'
    BY <1>1, <1>2, <1>5, DspStepBoth, FpgaStepBoth DEF Step
  <2> QED
    BY <1>1, <1>4, <2>1 DEF KeptIn
<1>6. CASE ~Step
  <2>1. /\ UNCHANGED <<program, list, func, stack, status, dspFunc, hartes_rpc_uid,
                       fpga_id_dummy, trx_bytes>>
        /\ status \in Statuses
    BY <1>6 DEF Stopped, vars, walkVars, dspVars, fpgaVars, BothInv, WalkInv, WalkTypeOK, Statuses
  <2>2. WalkInv'
    BY <2>1, StopKeeps DEF BothInv
  <2>3. DP!UidsBelow' /\ DP!UidsApart'
    BY <2>1 DEF BothInv, DP!UidsBelow, DP!UidsApart, DP!Opens
  <2> QED
    BY <2>1, <2>2, <2>3, <1>4 DEF BothInv, KeptIn
<1> QED
  BY <1>5, <1>6

LEMMA BothSafe == Spec => [](BothInv /\ KeptIn(Rest))
<1>1. Init => BothInv /\ KeptIn(Rest)
  <2>1. Init => list = program.lists
    BY DEF Init, F!Init, F!WalkInit
  <2> QED
    BY <2>1, InitBoth, StartsKept
<1>2. BothInv /\ KeptIn(Rest) /\ [Step \/ Stopped]_vars => (BothInv /\ KeptIn(Rest))'
  BY StepBoth
<1> QED
  BY <1>1, <1>2, PTL DEF Spec

\* Whatever the second pass replaces in the lists the first has left it, the opening of
\* a remote call among it, and wherever the dummies stand: no two calls the processor
\* waits for are opened under one identity (gcc/diopsis.c 602, gcc/fpga.c 292).
THEOREM IdentitiesUnique == Spec => []D!UidsUnique
<1>1. BothInv /\ KeptIn(Rest) => D!UidsUnique
  BY DEF BothInv, DP!UidsApart, D!UidsUnique, DP!Opens, D!Opens, DP!NOWAIT_FUNC, D!NOWAIT_FUNC
<1> QED
  BY <1>1, BothSafe, PTL

\* Between them the passes lose, double and move no statement that is neither a call
\* nor a dummy of one of them (gcc/passes.c 482 and 483).
THEOREM RestStays == Spec => []KeptIn(Rest)
<1>1. BothInv /\ KeptIn(Rest) => KeptIn(Rest)
  OBVIOUS
<1> QED
  BY <1>1, BothSafe, PTL
================================================================================
