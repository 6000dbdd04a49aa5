--------------------------- MODULE FpgaReplace_proofs ---------------------------
(* Theorems about fpga_replace_calls_tree.                                        *)
EXTENDS FpgaReplace, TreeWalk_proofs, FiniteSetTheorems

--------------------------------------------------------------------------------
(* The bytes of some arguments can be counted.                                    *)

LEMMA RowsApart ==
  ASSUME NEW a \in Nat, NEW b \in Nat, NEW n \in Nat, a < b PROVE a * n + n <= b * n
<1>1. PICK d \in Nat : b = a + 1 + d
  <2>1. b - a - 1 \in Nat /\ b = a + 1 + (b - a - 1)
    OBVIOUS
  <2> QED
    BY <2>1
<1>2. b * n = a * n + n + d * n
  BY <1>1
<1>3. d * n \in Nat /\ a * n \in Nat
  OBVIOUS
<1> QED
  BY <1>2, <1>3

LEMMA WordsFinite ==
  ASSUME NEW args, SizedArgs(args), NEW kinds PROVE IsFiniteSet(Words(args, kinds))
<1>1. PICK n \in Nat : \A a \in ToSet(args) : a.size \in 0 .. n
  BY DEF SizedArgs
<1>2. args \in Seq(ToSet(args)) /\ Len(args) \in Nat /\ DOMAIN args = 1 .. Len(args)
  BY DEF SizedArgs
<1> DEFINE W == Words(args, kinds)
           place == [w \in W |-> (w[1] - 1) * n + w[2]]
<1>3. ASSUME NEW w \in W
      PROVE  /\ w = <<w[1], w[2]>> /\ w[1] \in 1 .. Len(args) /\ w[2] \in 1 .. n
             /\ w[1] - 1 \in Nat /\ (w[1] - 1) * n \in Nat
  <2>1. PICK i \in DOMAIN args : w \in {i} \X (1 .. args[i].size)
    BY DEF Words
  <2>2. args[i].size \in 0 .. n
    BY <1>1, <2>1 DEF ToSet
  <2>3. w = <<w[1], w[2]>> /\ w[1] \in 1 .. Len(args) /\ w[2] \in 1 .. n
    BY <1>2, <2>1, <2>2
  <2>4. w[1] - 1 \in Nat
    BY <1>2, <2>3
  <2> QED
    BY <2>3, <2>4
<1> HIDE DEF W
<1>4. place \in [W -> 0 .. Len(args) * n]
  <2> SUFFICES ASSUME NEW w \in W PROVE (w[1] - 1) * n + w[2] \in 0 .. Len(args) * n
    OBVIOUS
  <2>1. (w[1] - 1) * n + n <= Len(args) * n
    BY <1>2, <1>3, RowsApart
  <2>2. Len(args) * n \in Nat /\ w[2] \in 1 .. n /\ (w[1] - 1) * n \in Nat
    BY <1>2, <1>3
  <2> QED
    BY <2>1, <2>2
<1>5. ASSUME NEW v \in W, NEW w \in W, place[v] = place[w] PROVE v = w
  <2>1. (v[1] - 1) * n + v[2] = (w[1] - 1) * n + w[2]
    BY <1>5
  <2> DEFINE x == (v[1] - 1) * n
             y == (w[1] - 1) * n
  <2>2. /\ x + v[2] = y + w[2] /\ x \in Nat /\ y \in Nat
        /\ v[1] = w[1] => x = y
        /\ v[2] \in 1 .. n /\ w[2] \in 1 .. n
    BY <1>3, <2>1
  <2>3. (v[1] < w[1] => x + n <= y) /\ (w[1] < v[1] => y + n <= x)
    <3>1. v[1] - 1 \in Nat /\ w[1] - 1 \in Nat /\ n \in Nat
      BY <1>3
    <3>2. /\ v[1] < w[1] => v[1] - 1 < w[1] - 1
          /\ w[1] < v[1] => w[1] - 1 < v[1] - 1
      <4>1. v[1] \in Int /\ w[1] \in Int
        BY <1>2, <1>3
      <4> QED
        BY <4>1
    <3> QED
      BY <3>1, <3>2, RowsApart
  <2> HIDE DEF x, y
  <2>4. v[1] = w[1]
    <3>1. ~(v[1] < w[1]) /\ ~(w[1] < v[1])
      BY <2>2, <2>3
    <3>2. v[1] \in Nat /\ w[1] \in Nat
      <4>1. v[1] \in 1 .. Len(args) /\ w[1] \in 1 .. Len(args)
        BY <1>3
      <4> QED
        BY <1>2, <4>1
    <3> QED
      BY <3>1, <3>2
  <2>5. v[2] = w[2]
    BY <2>2, <2>4
  <2> QED
    BY <1>3, <2>4, <2>5, Zenon
<1>6. place \in Injection(W, 0 .. Len(args) * n)
  BY <1>4, <1>5 DEF Injection, IsInjective
<1>7. IsFiniteSet(0 .. Len(args) * n)
  BY <1>2, FS_Interval
<1>8. IsFiniteSet(W)
  <2> HIDE DEF place
  <2> QED
    BY <1>6, <1>7, FS_Injection
<1> QED
  BY <1>8 DEF W

LEMMA BytesCounted ==
  ASSUME NEW args, SizedArgs(args) PROVE BytesIn(args) \in Nat /\ BytesOut(args) \in Nat
<1>1. ASSUME NEW kinds PROVE Bytes(args, kinds) \in Nat
  BY WordsFinite, FS_CardinalityType DEF Bytes
<1> QED
  BY <1>1 DEF BytesIn, BytesOut

--------------------------------------------------------------------------------
(* What is linked in are builtins, none of which opens a remote call.             *)

LEMMA StatBuiltins == ASSUME NEW op, op # "rpc", NEW n PROVE OpensNone(Stat(op, n))
<1>1. OpensNone(<<>>)
  BY BuiltinsNone DEF OpensNone
<1> QED
  BY <1>1, OtherBuiltin DEF Stat

LEMMA PrologueBuiltins ==
  ASSUME NEW args, args \in Seq(ToSet(args)), NEW u PROVE OpensNone(Prologue(args, u))
<1>1. Len(args) \in Nat
  OBVIOUS
<1>2. Builtins(Prologue(args, u))
  BY <1>1, BuiltinsEach DEF Prologue, Builtin
<1> QED
  BY <1>1, <1>2 DEF OpensNone, Prologue, Builtin

LEMMA EpilogueBuiltins ==
  ASSUME NEW args, args \in Seq(ToSet(args)), NEW u PROVE OpensNone(Epilogue(args, u))
<1>1. Len(args) \in Nat /\ DOMAIN args = 1 .. Len(args)
  OBVIOUS
<1>2. IsFiniteSet(1 .. Len(args)) /\ Back(args) \in SUBSET (1 .. Len(args))
  BY <1>1, FS_Interval DEF Back
<1>3. Cardinality(Back(args)) \in Nat
  BY <1>2, FS_Subset, FS_CardinalityType
<1>4. Builtins(Epilogue(args, u))
  BY <1>3, BuiltinsEach DEF Epilogue, Builtin
<1> QED
  BY <1>3, <1>4 DEF OpensNone, Epilogue, Builtin

LEMMA EmittedBuiltins ==
  ASSUME NEW call, SizedArgs(call.args), NEW u
  PROVE  OpensNone(Emitted(call, u)) /\ Emitted(call, u) # <<>>
<1> DEFINE in == trx_bytes + BytesIn(call.args)
           out == in + BytesOut(call.args)
           s1 == IF GenerateSet THEN <<Builtin("set", u, 0)>> ELSE <<>>
           s2 == Stat("stats_begin", 1)
           s3 == Prologue(call.args, u)
           s4 == Stat("stats_parmin", in)
           s5 == <<Builtin("execute", u, 0), Builtin("break", u, 0)>>
           s6 == Stat("stats_exec", 1)
           s7 == Epilogue(call.args, u)
           s8 == Stat("stats_parmout", out)
           s9 == <<Builtin("movef", u, 0)>>
<1>1. call.args \in Seq(ToSet(call.args))
  BY DEF SizedArgs
<1>2. OpensNone(s1) /\ OpensNone(s2) /\ OpensNone(s4) /\ OpensNone(s6) /\ OpensNone(s8) /\ OpensNone(s9)
  <2>1. OpensNone(<<>>)
    BY BuiltinsNone DEF OpensNone
  <2> QED
    BY <2>1, OtherBuiltin, StatBuiltins
<1>3. OpensNone(s3) /\ OpensNone(s7)
  BY <1>1, PrologueBuiltins, EpilogueBuiltins
<1>4. OpensNone(s5)
  <2>1. Builtins(s5)
    BY DEF Builtins, Builtin, ToSet
  <2> QED
    BY <2>1 DEF OpensNone, Builtin
<1>5. Emitted(call, u) = s1 \o s2 \o s3 \o s4 \o s5 \o s6 \o s7 \o s8 \o s9
  BY DEF Emitted
<1>6. OpensNone(s9) /\ Len(s9) = 1
  BY <1>2
<1> HIDE DEF s1, s2, s3, s4, s5, s6, s7, s8, s9
<1>7. OpensNone(s1 \o s2 \o s3 \o s4)
  BY <1>2, <1>3, NoneJoined
<1>8. OpensNone(s1 \o s2 \o s3 \o s4 \o s5 \o s6)
  BY <1>2, <1>4, <1>7, NoneJoined
<1> DEFINE t == s1 \o s2 \o s3 \o s4 \o s5 \o s6 \o s7 \o s8
<1>9. OpensNone(t)
  BY <1>2, <1>3, <1>8, NoneJoined
<1> HIDE DEF t
<1>10. OpensNone(t \o s9) /\ t \o s9 # <<>>
  <2>1. t \in Seq(ToSet(t)) /\ s9 \in Seq(ToSet(s9))
    BY <1>9, <1>6 DEF Builtins, OpensNone
  <2> QED
    BY <1>9, <1>6, <2>1, NoneJoined
<1> QED
  BY <1>5, <1>10 DEF t

--------------------------------------------------------------------------------
(* The inductive invariant of the pass.                                           *)

PassInv == /\ WalkInv
           /\ fpga_id_dummy \in Fpga \cup {NoUnit}
           /\ trx_bytes \in Nat

LEMMA InitPass == Init => PassInv
BY InitKeeps DEF Init, PassInv

LEMMA PassTyped == PassInv => TypeOK
BY DEF PassInv, TypeOK, WalkInv

\* The arguments of the call the walk is at.
LEMMA CallSized ==
  ASSUME WalkInv, At("call") PROVE SizedArgs(Stmt.args)
BY CallOfProgram, ArgsAssumption

LEMMA BuiltinSized == ASSUME NEW op \in DOMAIN BuiltinArgs PROVE SizedArgs(BuiltinArgs[op])
<1>1. BuiltinArgs[op] \in {<<Constant, Constant>>, <<Literal, Literal, Constant, Constant>>}
  BY DEF BuiltinArgs
<1>2. ASSUME NEW args \in Seq({Constant, Literal}), args # <<>> PROVE SizedArgs(args)
  <2>1. \A a \in {Constant, Literal} : a.size = 1
    BY DEF Constant, Literal
  <2>2. args \in Seq(ToSet(args)) /\ ToSet(args) \subseteq {Constant, Literal}
    BY OwnElements DEF ToSet
  <2>3. 1 \in DOMAIN args
    BY <1>2
  <2>4. args[1] \in ToSet(args)
    BY <2>3 DEF ToSet
  <2>5. 1 \in {0} \cup {a.size : a \in ToSet(args)}
    BY <2>1, <2>2, <2>4
  <2>6. 1 \in Nat /\ \A a \in ToSet(args) : a.size \in 0 .. 1
    BY <2>1, <2>2
  <2> QED
    BY <2>2, <2>5, <2>6 DEF SizedArgs
<1>3. /\ <<Constant, Constant>> \in Seq({Constant, Literal})
      /\ <<Literal, Literal, Constant, Constant>> \in Seq({Constant, Literal})
      /\ <<Constant, Constant>> # <<>> /\ <<Literal, Literal, Constant, Constant>> # <<>>
  OBVIOUS
<1> QED
  BY <1>1, <1>2, <1>3

\* Every step keeps it.
LEMMA StepPass == ASSUME PassInv, Step \/ Stopped \/ UNCHANGED vars PROVE PassInv'
<1> USE DEF PassInv
<1>1. CASE Walk
  BY <1>1, ExecuteKeeps, FinishKeeps, LeaveKeeps, EnterKeeps, PassKeeps DEF Walk
<1>2. CASE PassBuiltin
  BY <1>2, PassKeeps DEF PassBuiltin
<1>3. CASE DummyOther
  <2>1. stack # <<>> /\ I # 0 /\ UNCHANGED <<program, list, func, fpga_id_dummy, trx_bytes>>
    BY <1>3 DEF DummyOther, At
  <2>2. CASE fpga_id_dummy # NoUnit
    BY <1>3, <2>1, <2>2, StopKeeps DEF DummyOther, Statuses
  <2>3. CASE fpga_id_dummy = NoUnit
    <3>1. Pass("dummy")
      BY <1>3, <2>3 DEF DummyOther, Pass
    <3> QED
      BY <2>1, <3>1, PassKeeps
  <2> QED
    BY <2>2, <2>3
<1>4. CASE DummyFpga
  <2> DEFINE s == RemoveAt(list[L], I)
  <2>1. /\ stack # <<>> /\ I # 0 /\ status = "walk" /\ Stmt.unit \in Fpga
        /\ list' = [list EXCEPT ![L] = s]
        /\ UNCHANGED <<program, func, trx_bytes>>
    BY <1>4 DEF DummyFpga, At
  <2>2. Edited(s, 0) /\ I \in 1 .. Len(list[L])
    BY <2>1, RemovedEdit, Innermost
  <2>3. Len(s) \in Nat /\ s \in Seq(ToSet(s)) /\ Len(s) = Len(list[L]) - 1
    BY <2>2, Innermost, <2>1 DEF Edited
  <2> DEFINE i == Delinked(list[L], I)
             j == Prev(i)
             next == IF j = 0 THEN 0 ELSE Next(s, j)
  <2>4. i = 0 \/ (i = I /\ I < Len(list[L]))
    BY DEF Delinked
  <2>5. i # 0 => j \in 0 .. Len(s) /\ next \in 0 .. Len(s)
    <3> SUFFICES ASSUME i # 0 PROVE j \in 0 .. Len(s) /\ next \in 0 .. Len(s)
      OBVIOUS
    <3>1. j \in 0 .. Len(s)
      BY <2>2, <2>3, <2>4, <2>1, Innermost DEF Prev
    <3>2. j \in Nat
      BY <2>3, <3>1
    <3>3. Next(s, j) \in 0 .. Len(s)
      <4> HIDE DEF j, s
      <4> QED
        BY <2>3, <3>2, NextIn
    <3> QED
      BY <2>3, <3>1, <3>3
  <2>6. /\ status' \in Statuses /\ fpga_id_dummy' \in Fpga \cup {NoUnit}
        /\ MoveTo(0) \/ (i # 0 /\ MoveTo(j)) \/ (i # 0 /\ MoveTo(next))
    BY <1>4, <2>1 DEF DummyFpga, Continue, Statuses
  <2> HIDE DEF s, i, j, next
  <2>7. \E k \in 0 .. Len(s) : MoveTo(k)
    BY <2>3, <2>5, <2>6
  <2>8. WalkInv'
    BY <2>1, <2>2, <2>6, <2>7, EditKeeps
  <2> QED
    BY <2>1, <2>6, <2>8
<1>5. ASSUME NEW new, Builtins(new), stack # <<>>, I # 0, status = "walk",
             ReplaceExpr(new) \/ Replace(new), UNCHANGED <<program, func, status>>
      PROVE  WalkInv'
  <2>1. \E s, i, n : /\ PutFor(s, new, n) /\ i \in 0 .. Len(s)
                     /\ MoveTo(i) /\ list' = [list EXCEPT ![L] = s]
    BY <1>5, ReplacedBy, ReplacedExpr
  <2> QED
    BY <1>5, <2>1, PutKeeps DEF Statuses
<1>6. CASE BuiltinReplaced
  <2> DEFINE args == BuiltinArgs[Stmt.op]
             call == [args |-> args]
  <2>1. /\ stack # <<>> /\ I # 0 /\ status = "walk" /\ Stmt.op \in DOMAIN BuiltinArgs
        /\ ReplaceExpr(Emitted(call, fpga_id_dummy))
        /\ trx_bytes' = trx_bytes + BytesIn(args) + BytesOut(args)
        /\ fpga_id_dummy' = NoUnit
        /\ UNCHANGED <<program, func, status>>
    BY <1>6 DEF BuiltinReplaced, At, Consume
  <2>2. SizedArgs(args)
    BY <2>1, BuiltinSized
  <2>3. call.args = args
    OBVIOUS
  <2> HIDE DEF args, call
  <2>4. Builtins(Emitted(call, fpga_id_dummy)) /\ BytesIn(args) \in Nat /\ BytesOut(args) \in Nat
    BY <2>2, <2>3, EmittedBuiltins, BytesCounted DEF OpensNone
  <2>5. WalkInv'
    BY <1>5, <2>1, <2>4
  <2> QED
    BY <2>1, <2>4, <2>5
<1>7. CASE CallKept
  BY <1>7, PassKeeps DEF CallKept, Consume
<1>8. CASE CallReplaced
  <2>1. /\ stack # <<>> /\ I # 0 /\ status = "walk" /\ At("call")
        /\ Replace(Emitted(Stmt, Unit))
        /\ trx_bytes' = trx_bytes + BytesIn(Stmt.args) + BytesOut(Stmt.args)
        /\ fpga_id_dummy' = NoUnit
        /\ UNCHANGED <<program, func, status>>
    BY <1>8 DEF CallReplaced, At, Consume
  <2>2. SizedArgs(Stmt.args)
    BY <2>1, CallSized
  <2>3. Builtins(Emitted(Stmt, Unit)) /\ BytesIn(Stmt.args) \in Nat /\ BytesOut(Stmt.args) \in Nat
    BY <2>2, EmittedBuiltins, BytesCounted DEF OpensNone
  <2>4. WalkInv'
    BY <1>5, <2>1, <2>3
  <2> QED
    BY <2>1, <2>3, <2>4
<1>9. CASE CallUnsupported
  BY <1>9, StopKeeps DEF CallUnsupported, Consume, Statuses
<1>10. CASE Stopped \/ UNCHANGED vars
  <2>1. UNCHANGED vars
    BY <1>10 DEF Stopped
  <2>2. status' \in Statuses
    BY <2>1 DEF vars, walkVars, WalkInv, WalkTypeOK, Statuses
  <2> QED
    BY <2>1, <2>2, StopKeeps DEF vars, walkVars
<1> QED
  BY <1>1, <1>2, <1>3, <1>4, <1>6, <1>7, <1>8, <1>9, <1>10 DEF Step

\* No step opens a remote call.
LEMMA StepOpensNothing == ASSUME PassInv, Step PROVE OpensNothing
<1>0. WalkInv
  BY DEF PassInv
<1>1. CASE Walk \/ PassBuiltin \/ DummyOther \/ CallKept \/ CallUnsupported
  BY <1>1 DEF Walk, Execute, Finish, Leave, Enter, PassBuiltin, DummyOther, CallKept,
              CallUnsupported, Pass, OpensNothing
<1>2. CASE DummyFpga
  BY <1>0, <1>2, RemovedOpensNothing DEF DummyFpga, At
<1>3. CASE CallReplaced
  <2>1. stack # <<>> /\ I # 0 /\ At("call") /\ Replace(Emitted(Stmt, Unit))
    BY <1>3 DEF CallReplaced, At
  <2>2. OpensNone(Emitted(Stmt, Unit))
    BY <1>0, <2>1, CallSized, EmittedBuiltins
  <2> QED
    BY <1>0, <2>1, <2>2, PutOpensNothing
<1>4. CASE BuiltinReplaced
  <2> DEFINE call == [args |-> BuiltinArgs[Stmt.op]]
  <2>1. /\ stack # <<>> /\ I # 0 /\ Stmt.op \in DOMAIN BuiltinArgs
        /\ ReplaceExpr(Emitted(call, fpga_id_dummy))
    BY <1>4 DEF BuiltinReplaced, At
  <2>2. SizedArgs(call.args)
    BY <2>1, BuiltinSized
  <2> HIDE DEF call
  <2>3. OpensNone(Emitted(call, fpga_id_dummy))
    BY <2>2, EmittedBuiltins
  <2> QED
    BY <1>0, <2>1, <2>3, PutOpensNothing
<1> QED
  BY <1>1, <1>2, <1>3, <1>4 DEF Step

\* For every program, every set of FPGA units and all options: an iterator of the
\* pass is always at a statement of its list or NULL however the lists are edited on
\* the way, and only the id of an FPGA unit ever waits for a call (gcc/fpga.c,
\* do_fpga_replace_calls_tree and replace_call_tree_tsi).
THEOREM PassTyping == Spec => []TypeOK
<1>1. PassInv /\ [Step \/ Stopped]_vars => PassInv'
  BY StepPass
<1> QED
  BY <1>1, InitPass, PassTyped, PTL DEF Spec
--------------------------------------------------------------------------------
(* A dummy that waits for its call is followed by it.                             *)

\* No list begins with a dummy of an FPGA unit.
HeadsFree ==
  \A l \in DOMAIN program.lists :
    LET s == program.lists[l] IN s # <<>> /\ s[1].kind = "dummy" => s[1].unit \notin Fpga

SpanInv == /\ PassInv /\ HeadsFree /\ ListsEmbedded /\ OuterClear
           /\ fpga_id_dummy # NoUnit => Waiting
           /\ status \notin {"error", "crash"}

LEMMA InitSpans == ASSUME Init, SourceEmbedded, HeadsFree PROVE SpanInv
<1>1. status \notin {"error", "crash"}
  BY DEF Init, WalkInit
<1> QED
  BY <1>1, InitPass, SourceStarts DEF Init, SpanInv

\* The walk stays where it is.
LEMMA StaysSpans ==
  ASSUME SpanInv, PassInv', UNCHANGED <<program, list, stack>>,
         fpga_id_dummy' \in {fpga_id_dummy, NoUnit}, status' \notin {"error", "crash"}
  PROVE  SpanInv'
<1>1. ListsEmbedded' /\ OuterClear' /\ HeadsFree' /\ (Waiting' <=> Waiting)
  BY SourceStays, WalksStay DEF SpanInv, HeadsFree
<1> QED
  BY <1>1 DEF SpanInv

\* The loop goes on behind a statement, and no list is changed.
LEMMA ContinuedSpans ==
  ASSUME SpanInv, PassInv', NEW kind, Pass(kind), fpga_id_dummy' \in {fpga_id_dummy, NoUnit},
         fpga_id_dummy' # NoUnit => kind # "call"
  PROVE  SpanInv'
<1>1. /\ WalkInv /\ OuterClear /\ ListsEmbedded /\ HeadsFree
      /\ stack # <<>> /\ I # 0 /\ Stmt.kind = kind /\ Continue(list[L], I)
      /\ UNCHANGED <<program, list>> /\ status' \notin {"error", "crash"}
  BY DEF SpanInv, PassInv, Pass, At, Stmt
<1>2. OuterClear' /\ (Waiting /\ Stmt.kind # "call" => Waiting')
  BY <1>1, ContinueClear
<1>3. ListsEmbedded' /\ HeadsFree'
  BY <1>1, SourceStays DEF HeadsFree
<1> QED
  BY <1>1, <1>2, <1>3 DEF SpanInv

LEMMA WalkSpans == ASSUME SpanInv, PassInv', Walk PROVE SpanInv'
<1>1. /\ WalkInv /\ OuterClear /\ ListsEmbedded /\ HeadsFree /\ status \notin {"error", "crash"}
      /\ UNCHANGED <<program, list, fpga_id_dummy>>
  BY DEF SpanInv, PassInv, Walk, Execute, Finish, Leave, Enter, Pass
<1>2. ListsEmbedded' /\ HeadsFree'
  BY <1>1, SourceStays DEF HeadsFree
<1>3. CASE Execute
  <2>1. OuterClear' /\ ~Waiting /\ UNCHANGED status
    BY <1>1, <1>3, ExecuteClear DEF Execute, Waiting
  <2> QED
    BY <1>1, <1>2, <2>1 DEF SpanInv
<1>4. CASE Finish
  BY <1>1, <1>4, StaysSpans DEF Finish
<1>5. CASE Leave
  <2>1. OuterClear' /\ ~Waiting /\ UNCHANGED status
    BY <1>1, <1>5, LeaveClear DEF Leave
  <2> QED
    BY <1>1, <1>2, <2>1 DEF SpanInv
<1>6. CASE Enter
  <2>1. OuterClear' /\ (Waiting => Waiting') /\ UNCHANGED status
    BY <1>1, <1>6, EnterClear DEF Enter
  <2> QED
    BY <1>1, <1>2, <2>1 DEF SpanInv
<1>7. CASE Pass("other") \/ Pass("assigned")
  BY <1>1, <1>7, ContinuedSpans
<1> QED
  BY <1>3, <1>4, <1>5, <1>6, <1>7 DEF Walk

\* What a dummy waits for is no dummy and no builtin.
LEMMA WaitingSpans ==
  ASSUME SpanInv, fpga_id_dummy # NoUnit PROVE Stmt.kind \notin {"dummy", "builtin"}
<1>1. Stmt \in Between \/ Stmt.kind = "call"
  BY WaitingAt DEF SpanInv, PassInv
<1> QED
  BY <1>1, BetweenKinds

\* A dummy is not the first statement of its list, nor the last, nor behind another
\* that still waits for its call.
LEMMA DummyFpgaSpans == ASSUME SpanInv, PassInv', DummyFpga PROVE SpanInv'
<1>1. /\ WalkInv /\ OuterClear /\ ListsEmbedded /\ HeadsFree /\ status = "walk"
      /\ stack # <<>> /\ I # 0 /\ Stmt.kind = "dummy" /\ Stmt.unit \in Fpga
      /\ list' = [list EXCEPT ![L] = RemoveAt(list[L], I)]
      /\ UNCHANGED <<program, func>>
  BY DEF SpanInv, PassInv, DummyFpga, At, Stmt
<1>2. IsDummy(Stmt)
  BY <1>1, FpgaAssumption DEF IsDummy, NoUnit
<1>3. /\ L \in DOMAIN list /\ I \in 1 .. Len(list[L]) /\ I \in DOMAIN list[L]
      /\ Len(list[L]) \in Nat /\ DOMAIN list = DOMAIN program.lists
      /\ DOMAIN list[L] = 1 .. Len(list[L])
  BY <1>1, Innermost DEF WalkInv, WalkTypeOK
<1>4. I < Len(list[L])
  <2>1. CallAhead(list[L], I + 1)
    BY <1>1, <1>2, <1>3 DEF ListsEmbedded, Stmt
  <2> QED
    BY <1>3, <2>1 DEF CallAhead
<1>5. I # 1
  <2> SUFFICES ASSUME I = 1 PROVE FALSE
    OBVIOUS
  <2>1. list[L] # <<>> /\ list[L][1].kind = "dummy" /\ list[L][1].unit \in Fpga
    BY <1>1, <1>3 DEF Stmt
  <2>2. program.lists[L] # <<>> /\ program.lists[L][1] = list[L][1]
    BY <1>1, <1>3, <2>1 DEF ListsEmbedded
  <2> QED
    BY <1>1, <1>3, <2>1, <2>2 DEF HeadsFree
<1>6. fpga_id_dummy = NoUnit
  BY <1>1, WaitingSpans
<1> DEFINE s == RemoveAt(list[L], I)
<1>7. Len(s) = Len(list[L]) - 1
  BY <1>1, RemovedEdit DEF Edited
<1> HIDE DEF s
<1>8. Continue(s, I - 1) /\ UNCHANGED status
  <2>1. Delinked(list[L], I) = I
    BY <1>4 DEF Delinked
  <2> QED
    BY <1>1, <1>6, <2>1 DEF DummyFpga, Prev, s
<1>9. MoveTo(I)
  <2>1. I - 1 # 0 /\ Next(s, I - 1) = I
    BY <1>3, <1>4, <1>5, <1>7 DEF Next
  <2> QED
    BY <1>8, <2>1 DEF Continue
<1>10. ListsEmbedded' /\ OuterClear' /\ Waiting'
  BY <1>1, <1>2, <1>8, <1>9, DummyOutClear DEF Statuses
<1> QED
  BY <1>1, <1>8, <1>10 DEF SpanInv, HeadsFree

LEMMA CallReplacedSpans == ASSUME SpanInv, PassInv', CallReplaced PROVE SpanInv'
<1>1. /\ WalkInv /\ OuterClear /\ ListsEmbedded /\ HeadsFree /\ status = "walk"
      /\ stack # <<>> /\ I # 0 /\ Stmt.kind = "call" /\ Unit \in Fpga
      /\ Replace(Emitted(Stmt, Unit)) /\ fpga_id_dummy' = NoUnit
      /\ UNCHANGED <<program, func, status>> /\ SizedArgs(Stmt.args)
  BY CallSized DEF SpanInv, PassInv, CallReplaced, At, Stmt, Consume
<1>2. ~InSpan(list[L], I)
  <2> SUFFICES ASSUME InSpan(list[L], I) PROVE FALSE
    OBVIOUS
  <2>1. Spanned
    BY <1>1, InnermostClear
  <2>2. Stmt.attr = NoUnit
    BY <1>1, <2>1, SpannedCall, BetweenKinds
  <2>3. fpga_id_dummy = NoUnit
    BY <1>1, <2>1, WaitingAt DEF SpanInv
  <2> QED
    BY <1>1, <2>2, <2>3, FpgaAssumption DEF Unit, NoUnit
<1> DEFINE new == Emitted(Stmt, Unit)
<1>3. Builtins(new) /\ new # <<>>
  BY <1>1, EmittedBuiltins DEF OpensNone
<1>4. Replace(new)
  BY <1>1
<1> HIDE DEF new
<1>5. ListsEmbedded' /\ OuterClear'
  BY <1>1, <1>2, <1>3, <1>4, ReplaceClear DEF Statuses
<1> QED
  BY <1>1, <1>5 DEF SpanInv, HeadsFree

LEMMA StepSpans == ASSUME SpanInv, Step \/ Stopped \/ UNCHANGED vars PROVE SpanInv'
<1>0. PassInv /\ PassInv' /\ status \notin {"error", "crash"}
  BY StepPass DEF SpanInv
<1>1. CASE Walk
  BY <1>0, <1>1, WalkSpans
<1>2. CASE PassBuiltin
  BY <1>0, <1>2, ContinuedSpans DEF PassBuiltin
<1>3. CASE DummyOther
  <2>1. Stmt.kind = "dummy"
    BY <1>3 DEF DummyOther, At, Stmt
  <2>2. fpga_id_dummy = NoUnit
    BY <2>1, WaitingSpans
  <2>3. Pass("dummy") /\ UNCHANGED fpga_id_dummy
    BY <1>3, <2>2 DEF DummyOther, Pass
  <2> QED
    BY <1>0, <2>2, <2>3, ContinuedSpans
<1>4. CASE DummyFpga
  BY <1>0, <1>4, DummyFpgaSpans
<1>5. CASE BuiltinReplaced
  <2>1. Stmt.kind = "builtin" /\ fpga_id_dummy # NoUnit
    BY <1>5 DEF BuiltinReplaced, At, Stmt
  <2> QED
    BY <2>1, WaitingSpans
<1>6. CASE CallKept
  BY <1>0, <1>6, ContinuedSpans DEF CallKept, Consume
<1>7. CASE CallReplaced
  BY <1>0, <1>7, CallReplacedSpans
<1>8. CASE CallUnsupported
  BY <1>0, <1>8, StaysSpans DEF CallUnsupported, Consume
<1>9. CASE Stopped \/ UNCHANGED vars
  <2>1. UNCHANGED vars
    BY <1>9 DEF Stopped
  <2> QED
    BY <1>0, <2>1, StaysSpans DEF vars, walkVars
<1> QED
  BY <1>1, <1>2, <1>3, <1>4, <1>5, <1>6, <1>7, <1>8, <1>9 DEF Step

LEMMA ProgramKept == ASSUME Step \/ Stopped \/ UNCHANGED vars PROVE UNCHANGED program
BY DEF Step, Walk, Execute, Finish, Leave, Enter, Pass, PassBuiltin, DummyOther, DummyFpga,
       BuiltinReplaced, CallKept, CallReplaced, CallUnsupported, Stopped, vars, walkVars

\* A unit waits for the call the walk comes to next, and the pass neither gives up
\* over two dummies nor goes astray behind the end of a list.
DummyAhead ==
  SourceEmbedded /\ HeadsFree =>
    (fpga_id_dummy # NoUnit => Waiting) /\ status \notin {"error", "crash"}

\* For every program that has, behind every dummy, a call of its own, and no dummy of
\* an FPGA unit at the head of a list, whatever the lists around them, the units and
\* the options: the unit of a dummy reaches that call and no other, not even one that
\* the pass before has linked in, "two molen_dummy found" is never said, and tsi_prev
\* is never called on an iterator at the end of its list (gcc/fpga.c,
\* do_fpga_replace_calls_tree and replace_call_tree_tsi).
THEOREM DummiesReachTheirCalls == Spec => []DummyAhead
<1> DEFINE Inv == SourceEmbedded /\ HeadsFree => SpanInv
<1>1. Init => Inv
  BY InitSpans
<1>2. Inv /\ [Step \/ Stopped]_vars => Inv'
  <2> SUFFICES ASSUME Inv, [Step \/ Stopped]_vars, SourceEmbedded', HeadsFree' PROVE SpanInv'
    OBVIOUS
  <2>1. SourceEmbedded /\ HeadsFree
    BY ProgramKept DEF SourceEmbedded, HeadsFree
  <2> QED
    BY <2>1, StepSpans
<1>3. Inv => DummyAhead
  BY DEF SpanInv, DummyAhead
<1> HIDE DEF Inv
<1> QED
  BY <1>1, <1>2, <1>3, PTL DEF Spec
--------------------------------------------------------------------------------
(* What is neither a call nor a dummy of an FPGA unit stays in its place.          *)

\* Statements R that are neither; a builtin may be taken for a call.
Apart(R) == \A st \in R : /\ st.kind \notin {"builtin", "call", "assigned"}
                          /\ st.kind = "dummy" => st.unit \notin Fpga

LEMMA DummyFpgaKept == ASSUME WalkInv, NEW R, Apart(R), KeptIn(R), DummyFpga PROVE KeptIn(R)'
<1>1. /\ stack # <<>> /\ I # 0 /\ UNCHANGED program
      /\ list' = [list EXCEPT ![L] = RemoveAt(list[L], I)]
      /\ Stmt.kind = "dummy" /\ Stmt.unit \in Fpga
  BY DEF DummyFpga, At, Stmt
<1>2. Edited(RemoveAt(list[L], I), 0) /\ I \in Nat
  BY <1>1, RemovedEdit, Innermost
<1>3. Stmt \notin R /\ \A k \in I .. I + 0 - 1 : RemoveAt(list[L], I)[k] \notin R
  BY <1>1, <1>2 DEF Apart
<1> QED
  BY <1>1, <1>2, <1>3, EditKept

LEMMA CallReplacedKept ==
  ASSUME WalkInv, NEW R, Apart(R), KeptIn(R), CallReplaced PROVE KeptIn(R)'
<1>1. /\ stack # <<>> /\ I # 0 /\ UNCHANGED program /\ At("call") /\ Stmt.kind = "call"
      /\ Replace(Emitted(Stmt, Unit))
  BY DEF CallReplaced, At, Stmt
<1>2. Builtins(Emitted(Stmt, Unit))
  BY <1>1, CallSized, EmittedBuiltins DEF OpensNone
<1>3. Stmt \notin R /\ \A st \in R : st.kind \notin {"builtin", "assigned"}
  BY <1>1 DEF Apart
<1> QED
  BY <1>1, <1>2, <1>3, PutKept

LEMMA BuiltinReplacedKept ==
  ASSUME WalkInv, NEW R, Apart(R), KeptIn(R), BuiltinReplaced PROVE KeptIn(R)'
<1> DEFINE call == [args |-> BuiltinArgs[Stmt.op]]
<1>1. /\ stack # <<>> /\ I # 0 /\ UNCHANGED program /\ Stmt.kind = "builtin"
      /\ Stmt.op \in DOMAIN BuiltinArgs /\ ReplaceExpr(Emitted(call, fpga_id_dummy))
  BY DEF BuiltinReplaced, At, Stmt
<1>2. SizedArgs(call.args)
  BY <1>1, BuiltinSized
<1> HIDE DEF call
<1>3. Builtins(Emitted(call, fpga_id_dummy))
  BY <1>2, EmittedBuiltins DEF OpensNone
<1>4. Stmt \notin R /\ \A st \in R : st.kind \notin {"builtin", "assigned"}
  BY <1>1 DEF Apart
<1> QED
  BY <1>1, <1>3, <1>4, PutKept

LEMMA StepKept ==
  ASSUME WalkInv, NEW R, Apart(R), KeptIn(R), Step \/ Stopped \/ UNCHANGED vars
  PROVE  KeptIn(R)'
<1>1. CASE Walk \/ PassBuiltin \/ DummyOther \/ CallKept \/ CallUnsupported
  BY <1>1, StaysKept DEF Walk, Execute, Finish, Leave, Enter, PassBuiltin, DummyOther,
                         CallKept, CallUnsupported, Pass
<1>2. CASE DummyFpga
  BY <1>2, DummyFpgaKept
<1>3. CASE CallReplaced
  BY <1>3, CallReplacedKept
<1>4. CASE BuiltinReplaced
  BY <1>4, BuiltinReplacedKept
<1>5. CASE Stopped \/ UNCHANGED vars
  BY <1>5, StaysKept DEF Stopped, vars, walkVars
<1> QED
  BY <1>1, <1>2, <1>3, <1>4, <1>5 DEF Step

Rest == {st \in StatementsOf(program) :
           /\ st.kind \notin {"builtin", "call", "assigned"}
           /\ st.kind = "dummy" => st.unit \notin Fpga}

\* For every program, wherever its dummies stand, and all options: at no time has the
\* pass lost, doubled or moved a statement that is neither a call nor a dummy of an
\* FPGA unit, in lists that come to it with builtins in them or without (gcc/fpga.c,
\* do_fpga_replace_calls_tree and replace_call_tree_tsi).
THEOREM RestStays == Spec => []KeptIn(Rest)
<1> DEFINE Inv == PassInv /\ KeptIn(Rest)
<1>1. Init => Inv
  BY InitPass, StartsKept DEF Init, WalkInit
<1>2. Inv /\ [Step \/ Stopped]_vars => Inv'
  <2> SUFFICES ASSUME Inv, [Step \/ Stopped]_vars PROVE Inv'
    OBVIOUS
  <2>1. PassInv' /\ WalkInv
    BY StepPass DEF PassInv
  <2>2. Rest' = Rest
    BY ProgramKept DEF Rest, StatementsOf
  <2>3. PICK R : R = Rest
    OBVIOUS
  <2>4. Apart(R)
    BY <2>3 DEF Apart, Rest
  <2>5. KeptIn(R)'
    BY <2>1, <2>3, <2>4, StepKept
  <2> QED
    BY <2>1, <2>2, <2>3, <2>5 DEF KeptIn
<1>3. Inv => KeptIn(Rest)
  OBVIOUS
<1> HIDE DEF Inv
<1> QED
  BY <1>1, <1>2, <1>3, PTL DEF Spec
================================================================================
