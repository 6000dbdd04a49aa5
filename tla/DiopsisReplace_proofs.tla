-------------------------- MODULE DiopsisReplace_proofs --------------------------
(* Theorems about diopsis_replace_calls_tree.                                     *)
EXTENDS DiopsisReplace, TreeWalk_proofs, FiniteSetTheorems

--------------------------------------------------------------------------------
(* A call is opened once among what is linked in for it.                          *)

OpensOne(s, n) ==
  /\ Builtins(s)
  /\ \E r \in DOMAIN s : /\ s[r].op = "rpc" /\ s[r].n = n
                         /\ \A k \in DOMAIN s : s[k].op = "rpc" => k = r

LEMMA OneJoined ==
  ASSUME NEW s, NEW t, NEW n, OpensOne(s, n), OpensNone(t) PROVE OpensOne(s \o t, n)
<1>1. /\ Builtins(s \o t)
      /\ DOMAIN s = 1 .. Len(s) /\ DOMAIN t = 1 .. Len(t)
      /\ Len(s) \in Nat /\ Len(t) \in Nat /\ DOMAIN (s \o t) = 1 .. Len(s) + Len(t)
      /\ \A k \in 1 .. Len(s) : (s \o t)[k] = s[k]
      /\ \A k \in 1 .. Len(t) : (s \o t)[Len(s) + k] = t[k]
  BY Joined DEF OpensNone, OpensOne
<1>2. PICK r \in DOMAIN s : s[r].op = "rpc" /\ s[r].n = n /\ \A k \in DOMAIN s : s[k].op = "rpc" => k = r
  BY DEF OpensOne
<1>3. r \in DOMAIN (s \o t) /\ (s \o t)[r].op = "rpc" /\ (s \o t)[r].n = n
  BY <1>1, <1>2
<1>4. ASSUME NEW k \in DOMAIN (s \o t), (s \o t)[k].op = "rpc" PROVE k = r
  <2>1. CASE k \in 1 .. Len(s)
    BY <1>1, <1>2, <1>4, <2>1
  <2>2. CASE k \notin 1 .. Len(s)
    <3>1. k - Len(s) \in 1 .. Len(t) /\ k = Len(s) + (k - Len(s))
      BY <1>1, <2>2
    <3>2. (s \o t)[k] = t[k - Len(s)]
      BY <1>1, <3>1
    <3> QED
      BY <1>1, <1>4, <3>1, <3>2 DEF OpensNone
  <2> QED
    BY <2>1, <2>2
<1> QED
  BY <1>1, <1>3, <1>4 DEF OpensOne

LEMMA OpenJoined ==
  ASSUME NEW s, NEW t, NEW n, OpensNone(s), OpensOne(t, n) PROVE OpensOne(s \o t, n)
<1>1. /\ Builtins(s \o t)
      /\ DOMAIN s = 1 .. Len(s) /\ DOMAIN t = 1 .. Len(t)
      /\ Len(s) \in Nat /\ Len(t) \in Nat /\ DOMAIN (s \o t) = 1 .. Len(s) + Len(t)
      /\ \A k \in 1 .. Len(s) : (s \o t)[k] = s[k]
      /\ \A k \in 1 .. Len(t) : (s \o t)[Len(s) + k] = t[k]
  BY Joined DEF OpensNone, OpensOne
<1>2. PICK r \in DOMAIN t : t[r].op = "rpc" /\ t[r].n = n /\ \A k \in DOMAIN t : t[k].op = "rpc" => k = r
  BY DEF OpensOne
<1>3. /\ Len(s) + r \in DOMAIN (s \o t)
      /\ (s \o t)[Len(s) + r].op = "rpc" /\ (s \o t)[Len(s) + r].n = n
  BY <1>1, <1>2
<1>4. ASSUME NEW k \in DOMAIN (s \o t), (s \o t)[k].op = "rpc" PROVE k = Len(s) + r
  <2>1. k \notin 1 .. Len(s)
    BY <1>1, <1>4 DEF OpensNone
  <2>2. k - Len(s) \in 1 .. Len(t) /\ k = Len(s) + (k - Len(s))
    BY <1>1, <2>1
  <2>3. (s \o t)[k] = t[k - Len(s)]
    BY <1>1, <2>2
  <2>4. k - Len(s) = r
    BY <1>1, <1>2, <1>4, <2>2, <2>3
  <2> QED
    BY <2>2, <2>4
<1> QED
  BY <1>1, <1>3, <1>4 DEF OpensOne

LEMMA OpenBuiltin == ASSUME NEW u, NEW n PROVE OpensOne(<<Builtin("rpc", u, n)>>, n)
<1>1. /\ Builtins(<<Builtin("rpc", u, n)>>) /\ DOMAIN <<Builtin("rpc", u, n)>> = {1}
      /\ Builtin("rpc", u, n).op = "rpc" /\ Builtin("rpc", u, n).n = n
  BY BuiltinsOne DEF Builtin
<1> QED
  BY <1>1 DEF OpensOne

LEMMA IfBuiltin ==
  ASSUME NEW cond, NEW op, op # "rpc", NEW n PROVE OpensNone(If(cond, op, n))
<1>1. OpensNone(<<>>)
  BY BuiltinsNone DEF OpensNone
<1> QED
  BY <1>1, OtherBuiltin DEF If

LEMMA ParmsBuiltins ==
  ASSUME NEW call, call.args \in Seq(ToSet(call.args)) PROVE OpensNone(ParmsOf(call))
<1>1. Len(call.args) \in Nat /\ DOMAIN call.args = 1 .. Len(call.args)
  OBVIOUS
<1>2. IsFiniteSet(1 .. Len(call.args)) /\ Passed(call.args) \in SUBSET (1 .. Len(call.args))
  BY <1>1, FS_Interval DEF Passed
<1>3. Cardinality(Passed(call.args)) \in Nat
  BY <1>2, FS_Subset, FS_CardinalityType
<1>4. \A i : Parm(call, i).kind = "builtin" /\ Parm(call, i).op = "parm"
  BY DEF Parm
<1>5. Builtins(ParmsOf(call))
  BY <1>3, <1>4, BuiltinsEach DEF ParmsOf
<1> QED
  BY <1>3, <1>4, <1>5 DEF OpensNone, ParmsOf

\* The identity a call is opened under.
Identity(nowait) == hartes_rpc_uid + IF nowait THEN NOWAIT_FUNC ELSE 0

LEMMA EmittedOpens ==
  ASSUME NEW call, call.args \in Seq(ToSet(call.args)), NEW nowait \in BOOLEAN
  PROVE  OpensOne(Emitted(call, nowait), Identity(nowait))
<1> DEFINE s0 == If(DspStat, "stats_begin", 0)
           s1 == <<Builtin("rpc", NoUnit, Identity(nowait))>>
           s2 == ParmsOf(call)
           s3 == If(\E i \in Passed(call.args) : File(call.args[i].kind) = "pointer_int",
                    "pre_exec", 0)
           s4 == If(DspStat /\ call.args # <<>>, "stats_parmin", BytesIn(call.args))
           s5 == <<Builtin(IF nowait THEN "exec_nowait" ELSE "exec", NoUnit, 0)>>
           s6 == If(DspStat, "stats_exec", 0)
           s7 == If(~nowait, "rpc_end", hartes_rpc_uid)
           s8 == If(~nowait /\ DspStat /\ BytesOut(call.args) # 0, "stats_parmout",
                    BytesOut(call.args))
           s9 == If(~nowait /\ call.form = "modify", "ret", 0)
<1>1. OpensNone(s0) /\ OpensNone(s3) /\ OpensNone(s4)
  BY IfBuiltin
<1>2. OpensNone(s6) /\ OpensNone(s7) /\ OpensNone(s8) /\ OpensNone(s9)
  BY IfBuiltin
<1>3. OpensNone(s2)
  BY ParmsBuiltins
<1>4. OpensNone(s5)
  BY OtherBuiltin
<1>5. OpensOne(s0 \o s1, Identity(nowait))
  BY <1>1, OpenBuiltin, OpenJoined
<1>6. Emitted(call, nowait) = s0 \o s1 \o s2 \o s3 \o s4 \o s5 \o s6 \o s7 \o s8 \o s9
  BY DEF Emitted, Identity
<1> HIDE DEF s0, s1, s2, s3, s4, s5, s6, s7, s8, s9
<1>7. OpensOne(s0 \o s1 \o s2 \o s3 \o s4, Identity(nowait))
  BY <1>1, <1>3, <1>5, OneJoined
<1>8. OpensOne(s0 \o s1 \o s2 \o s3 \o s4 \o s5 \o s6 \o s7, Identity(nowait))
  BY <1>2, <1>4, <1>7, OneJoined
<1>9. OpensOne(s0 \o s1 \o s2 \o s3 \o s4 \o s5 \o s6 \o s7 \o s8 \o s9, Identity(nowait))
  BY <1>2, <1>8, OneJoined
<1> QED
  BY <1>6, <1>9

--------------------------------------------------------------------------------
(* The inductive invariant: the identities in use are below the next one.         *)

UidsBelow ==
  \A l \in DOMAIN list : \A k \in Opens(l) :
    /\ list[l][k].n \in Nat
    /\ list[l][k].n < hartes_rpc_uid \/ list[l][k].n >= NOWAIT_FUNC

UidsApart ==
  \A l, m \in DOMAIN list : \A j \in Opens(l), k \in Opens(m) :
    list[l][j].n = list[m][k].n /\ list[l][j].n < NOWAIT_FUNC => l = m /\ j = k

UidInv == WalkInv /\ hartes_rpc_uid \in Nat /\ UidsBelow /\ UidsApart

LEMMA InitUids == Init => UidInv
<1> SUFFICES ASSUME Init PROVE UidInv
  OBVIOUS
<1>1. WalkInv /\ hartes_rpc_uid \in Nat
  BY InitKeeps DEF Init
<1>2. ASSUME NEW l \in DOMAIN list PROVE Opens(l) = {}
  <2>1. ASSUME NEW k \in DOMAIN list[l] PROVE list[l][k].kind # "builtin"
    <3>1. list = program.lists /\ program \in Programs
      BY DEF Init, WalkInit
    <3>2. list[l][k] \in StatementsOf(program)
      BY <3>1 DEF StatementsOf, ToSet
    <3> QED
      BY <3>1, <3>2, NoBuiltinsAssumption
  <2> QED
    BY <2>1 DEF Opens
<1> QED
  BY <1>1, <1>2 DEF UidInv, UidsBelow, UidsApart

\* A step that changes no list opens nothing.
LEMMA SameUids ==
  ASSUME UidInv, WalkInv', UNCHANGED <<list, hartes_rpc_uid>> PROVE UidInv'
<1>1. \A l : Opens(l)' = Opens(l)
  BY DEF Opens
<1>2. UidsBelow'
  BY <1>1 DEF UidInv, UidsBelow
<1>3. UidsApart'
  BY <1>1 DEF UidInv, UidsApart
<1> QED
  BY <1>2, <1>3 DEF UidInv

\* Where a statement of a list has stood before the innermost list was edited.
Was(n, l, k) == IF l = L THEN Before(n, k) ELSE k
New(n, l, k) == l = L /\ k \in I .. I + n - 1

LEMMA Traced ==
  ASSUME WalkInv, stack # <<>>, I # 0, NEW n \in Nat, NEW s, Edited(s, n),
         list' = [list EXCEPT ![L] = s],
         NEW l \in DOMAIN list, NEW k \in DOMAIN list'[l], ~New(n, l, k)
  PROVE  /\ Was(n, l, k) \in DOMAIN list[l] /\ list'[l][k] = list[l][Was(n, l, k)]
         /\ l = L => k \in Nat /\ (k < I \/ k >= I + n)
<1>1. /\ L \in DOMAIN list /\ I \in 1 .. Len(list[L]) /\ Len(list[L]) \in Nat
      /\ DOMAIN list[L] = 1 .. Len(list[L])
  BY Innermost
<1>2. list'[L] = s /\ (l # L => list'[l] = list[l])
  BY <1>1
<1>3. CASE l # L
  BY <1>2, <1>3 DEF Was
<1>4. CASE l = L
  <2>1. DOMAIN s = 1 .. Len(s) /\ Len(s) = Len(list[L]) - 1 + n /\ Len(s) \in Nat
    BY DEF Edited
  <2>2. k \in 1 .. Len(s) /\ (k < I \/ k >= I + n)
    BY <1>1, <1>2, <1>4, <2>1 DEF New
  <2>3. s[k] = list[L][Before(n, k)]
    BY <2>2 DEF Edited
  <2>4. Before(n, k) \in DOMAIN list[L]
    BY <1>1, <2>1, <2>2 DEF Before
  <2> QED
    BY <1>2, <1>4, <2>2, <2>3, <2>4 DEF Was
<1> QED
  BY <1>3, <1>4

\* At most one call is opened, under an identity not in use.
LEMMA NewUids ==
  ASSUME UidInv, WalkInv', stack # <<>>, I # 0, NEW n \in Nat, NEW s, Edited(s, n),
         list' = [list EXCEPT ![L] = s], NEW r \in Int,
         hartes_rpc_uid' \in {hartes_rpc_uid, hartes_rpc_uid + 1},
         \A k \in I .. I + n - 1 : IsOpen(s[k]) =>
           /\ k = r /\ s[k].n \in Nat
           /\ \/ s[k].n >= NOWAIT_FUNC
              \/ s[k].n = hartes_rpc_uid /\ hartes_rpc_uid' = hartes_rpc_uid + 1
  PROVE  UidInv'
<1>1. WalkInv /\ hartes_rpc_uid \in Nat /\ UidsBelow /\ UidsApart
  BY DEF UidInv
<1>2. /\ L \in DOMAIN list /\ I \in 1 .. Len(list[L])
      /\ DOMAIN list' = DOMAIN list /\ list'[L] = s
  BY <1>1, Innermost
<1> DEFINE opened(l, k) == k \in DOMAIN list'[l] /\ IsOpen(list'[l][k])
<1>3. \A l : \A k : k \in Opens(l)' <=> opened(l, k)
  BY DEF Opens, IsOpen
<1>4. \A l : \A k \in DOMAIN list[l] : k \in Opens(l) <=> IsOpen(list[l][k])
  BY DEF Opens, IsOpen
<1> HIDE DEF opened
<1>5. ASSUME NEW l \in DOMAIN list, NEW k, opened(l, k), New(n, l, k)
      PROVE  /\ l = L /\ k = r /\ list'[l][k].n \in Nat
             /\ \/ list'[l][k].n >= NOWAIT_FUNC
                \/ list'[l][k].n = hartes_rpc_uid /\ hartes_rpc_uid' = hartes_rpc_uid + 1
  BY <1>2, <1>5 DEF New, opened
<1>6. ASSUME NEW l \in DOMAIN list, NEW k, opened(l, k), ~New(n, l, k)
      PROVE  /\ Was(n, l, k) \in Opens(l) /\ list'[l][k] = list[l][Was(n, l, k)]
             /\ l = L => k \in Nat /\ (k < I \/ k >= I + n)
             /\ list'[l][k].n \in Nat
             /\ list'[l][k].n < hartes_rpc_uid \/ list'[l][k].n >= NOWAIT_FUNC
  <2>1. /\ Was(n, l, k) \in DOMAIN list[l] /\ list'[l][k] = list[l][Was(n, l, k)]
        /\ l = L => k \in Nat /\ (k < I \/ k >= I + n)
    BY <1>1, <1>6, Traced DEF opened
  <2>2. Was(n, l, k) \in Opens(l)
    BY <1>4, <1>6, <2>1 DEF opened
  <2> QED
    BY <1>1, <2>1, <2>2 DEF UidsBelow
<1>7. UidsBelow'
  <2> SUFFICES ASSUME NEW l \in DOMAIN list, NEW k, opened(l, k)
               PROVE  /\ list'[l][k].n \in Nat
                      /\ list'[l][k].n < hartes_rpc_uid' \/ list'[l][k].n >= NOWAIT_FUNC
    BY <1>2, <1>3 DEF UidsBelow
  <2>1. CASE New(n, l, k)
    BY <1>1, <1>5, <2>1
  <2>2. CASE ~New(n, l, k)
    <3>1. /\ list'[l][k].n \in Nat
          /\ list'[l][k].n < hartes_rpc_uid \/ list'[l][k].n >= NOWAIT_FUNC
      BY <1>6, <2>2
    <3> QED
      BY <1>1, <3>1
  <2> QED
    BY <2>1, <2>2
<1>8. UidsApart'
  <2> SUFFICES ASSUME NEW l \in DOMAIN list, NEW m \in DOMAIN list,
                      NEW j, NEW k, opened(l, j), opened(m, k),
                      list'[l][j].n = list'[m][k].n, list'[l][j].n < NOWAIT_FUNC
               PROVE  l = m /\ j = k
    BY <1>2, <1>3 DEF UidsApart
  <2>0. NOWAIT_FUNC \in Nat
    BY DEF NOWAIT_FUNC
  <2>1. CASE New(n, l, j) /\ New(n, m, k)
    BY <1>5, <2>1
  <2>2. CASE New(n, l, j) /\ ~New(n, m, k)
    <3>1. list'[l][j].n = hartes_rpc_uid
      BY <1>5, <2>0, <2>2
    <3>2. list'[m][k].n < hartes_rpc_uid
      BY <1>6, <2>0, <2>2
    <3> QED
      BY <1>1, <3>1, <3>2
  <2>3. CASE ~New(n, l, j) /\ New(n, m, k)
    <3>1. list'[m][k].n = hartes_rpc_uid
      BY <1>5, <2>0, <2>3
    <3>2. list'[l][j].n < hartes_rpc_uid
      BY <1>6, <2>0, <2>3
    <3> QED
      BY <1>1, <3>1, <3>2
  <2>4. CASE ~New(n, l, j) /\ ~New(n, m, k)
    <3>1. /\ Was(n, l, j) \in Opens(l) /\ list'[l][j] = list[l][Was(n, l, j)]
          /\ Was(n, m, k) \in Opens(m) /\ list'[m][k] = list[m][Was(n, m, k)]
          /\ l = L => j \in Nat /\ (j < I \/ j >= I + n)
          /\ m = L => k \in Nat /\ (k < I \/ k >= I + n)
      BY <1>6, <2>4
    <3>2. l = m /\ Was(n, l, j) = Was(n, m, k)
      BY <1>1, <3>1 DEF UidsApart
    <3>3. j = k
      BY <1>2, <3>1, <3>2 DEF Was, Before
    <3> QED
      BY <3>2, <3>3
  <2> QED
    BY <2>1, <2>2, <2>3, <2>4
<1> QED
  BY <1>1, <1>7, <1>8 DEF UidInv

\* No call is opened.
LEMMA NoNewUids ==
  ASSUME UidInv, WalkInv', stack # <<>>, I # 0, NEW n \in Nat, NEW s, Edited(s, n),
         list' = [list EXCEPT ![L] = s], UNCHANGED hartes_rpc_uid,
         \A k \in I .. I + n - 1 : ~IsOpen(s[k])
  PROVE  UidInv'
<1>1. ASSUME NEW r \in Int PROVE UidInv'
  BY NewUids
<1> QED
  BY <1>1

--------------------------------------------------------------------------------
(* The steps of the pass.                                                         *)

\* A call put between two builtins of the statistics.
LEMMA TimedEdit ==
  ASSUME WalkInv, At("call"), NEW s, s = Timed(list[L], I)
  PROVE  /\ Edited(s, 3) /\ \A k \in I .. I + 3 - 1 : ~IsOpen(s[k])
         /\ s[I + 1] = Stmt /\ \A k \in I .. I + 3 - 1 : s[k].kind \in {"builtin", "call"}
<1> DEFINE a == Builtin("stats_exec", NoUnit, 1)
           b == Builtin("stats_begin", NoUnit, 1)
           All == ToSet(list[L]) \cup {a, b}
           t == LinkedBefore(list[L], I + 1, <<a>>)
<1>1. /\ Stmt \in StatementsOf(program) /\ Stmt.kind = "call" /\ Stmt = list[L][I]
      /\ stack # <<>> /\ I # 0
  BY CallOfProgram
<1>2. /\ I \in 1 .. Len(list[L]) /\ I \in Nat /\ Len(list[L]) \in Nat
      /\ list[L] \in Seq(ToSet(list[L]))
  BY <1>1, Innermost
<1>3. a.kind = "builtin" /\ a.op # "rpc" /\ b.kind = "builtin" /\ b.op # "rpc"
  BY DEF Builtin
<1>4. list[L] \in Seq(All) /\ a \in All /\ b \in All
  BY <1>2
<1>5. s = LinkedBefore(t, I, <<b>>)
  BY DEF Timed
<1> HIDE DEF a, b, All
<1>6. t = LinkedBefore(list[L], I + 1, <<a>>)
  OBVIOUS
<1> DEFINE h == I + 1
<1>7. h \in 1 .. Len(list[L]) + 1 /\ t = LinkedBefore(list[L], h, <<a>>)
  BY <1>2, <1>6
<1> HIDE DEF t, h
<1>8. /\ t \in Seq(All) /\ Len(t) = Len(list[L]) + 1
      /\ \A k \in 1 .. h - 1 : t[k] = list[L][k]
      /\ t[h] = a
      /\ \A k \in h + 1 .. Len(t) : t[k] = list[L][k - 1]
  BY <1>4, <1>7, LinkedOne
<1>9. /\ \A k \in 1 .. I : t[k] = list[L][k]
      /\ t[I + 1] = a
      /\ \A k \in I + 2 .. Len(t) : t[k] = list[L][k - 1]
  <2>1. h - 1 = I /\ h = I + 1 /\ h + 1 = I + 2
    BY <1>2 DEF h
  <2> QED
    BY <1>8, <2>1
<1>10. /\ s \in Seq(All) /\ Len(s) = Len(list[L]) + 2
       /\ \A k \in 1 .. I - 1 : s[k] = t[k]
       /\ s[I] = b
       /\ \A k \in I + 1 .. Len(s) : s[k] = t[k - 1]
  <2>1. I \in 1 .. Len(t) + 1
    BY <1>2, <1>8
  <2>2. /\ s \in Seq(All) /\ Len(s) = Len(t) + 1
        /\ \A k \in 1 .. I - 1 : s[k] = t[k]
        /\ s[I] = b
        /\ \A k \in I + 1 .. Len(s) : s[k] = t[k - 1]
    BY <1>4, <1>5, <1>8, <2>1, LinkedOne
  <2> QED
    BY <1>2, <1>8, <2>2
<1>11. s \in Seq(ToSet(s)) /\ Len(s) = Len(list[L]) - 1 + 3
  BY <1>2, <1>10, OwnElements
<1>12. s[I] = b /\ s[I + 1] = Stmt /\ s[I + 2] = a
  <2>1. I + 1 \in I + 1 .. Len(s) /\ I + 2 \in I + 1 .. Len(s) /\ I \in 1 .. I
    BY <1>2, <1>10
  <2>2. s[I + 1] = t[I] /\ s[I + 2] = t[I + 1]
    BY <1>2, <1>10, <2>1
  <2> QED
    BY <1>1, <1>9, <1>10, <2>1, <2>2
<1>13. ASSUME NEW k \in 1 .. Len(s), k < I \/ k >= I + 3 PROVE s[k] = list[L][Before(3, k)]
  <2>1. CASE k < I
    BY <1>2, <1>9, <1>10, <2>1 DEF Before
  <2>2. CASE k >= I + 3
    <3>1. /\ k \in I + 1 .. Len(s) /\ k - 1 \in I + 2 .. Len(t) /\ ~(k < I)
          /\ (k - 1) - 1 = k - 3 + 1
      BY <1>2, <1>8, <1>10, <2>2
    <3> QED
      BY <1>9, <1>10, <3>1 DEF Before
  <2> QED
    BY <1>13, <2>1, <2>2
<1>14. ASSUME NEW k \in I .. I + 3 - 1 PROVE s[k] \in {b, Stmt, a}
  <2>1. k \in {I, I + 1, I + 2}
    BY <1>2
  <2> QED
    BY <1>12, <2>1
<1>15. Edited(s, 3)
  BY <1>1, <1>3, <1>11, <1>13, <1>14 DEF Edited
<1> QED
  BY <1>1, <1>3, <1>12, <1>14, <1>15 DEF IsOpen

\* What is linked in for a call opens it under its identity.
LEMMA ReplacedUids ==
  ASSUME UidInv, At("call"), NEW nowait \in BOOLEAN, Replace(Emitted(Stmt, nowait)),
         UNCHANGED <<program, func, status>>,
         hartes_rpc_uid' = hartes_rpc_uid + IF nowait THEN 0 ELSE 1
  PROVE  UidInv'
<1> DEFINE new == Emitted(Stmt, nowait)
<1>1. /\ WalkInv /\ hartes_rpc_uid \in Nat
      /\ stack # <<>> /\ I # 0 /\ status = "walk" /\ Stmt.args \in Seq(ToSet(Stmt.args))
  BY CallOfProgram DEF UidInv
<1>2. OpensOne(new, Identity(nowait))
  BY <1>1, EmittedOpens
<1> HIDE DEF new
<1>3. Builtins(new) /\ DOMAIN new = 1 .. Len(new) /\ Len(new) \in Nat
  BY <1>2 DEF OpensOne, Builtins
<1>4. PICK r \in DOMAIN new :
        new[r].n = Identity(nowait) /\ \A k \in DOMAIN new : new[k].op = "rpc" => k = r
  BY <1>2 DEF OpensOne
<1>5. PICK s, i, n : /\ PutFor(s, new, n) /\ i \in 0 .. Len(s)
                     /\ MoveTo(i) /\ list' = [list EXCEPT ![L] = s]
  <2>1. Replace(new)
    BY DEF new
  <2> QED
    BY <1>1, <1>3, <2>1, ReplacedBy
<1>6. WalkInv'
  BY <1>1, <1>3, <1>5, PutKeeps DEF Statuses
<1>7. n \in Nat /\ Edited(s, n)
  BY <1>3, <1>5 DEF PutFor
<1>8. I \in Nat
  BY <1>1, Innermost
<1>9. ASSUME NEW k \in I .. I + n - 1, IsOpen(s[k])
      PROVE  k = I + r - 1 /\ s[k].n = Identity(nowait)
  <2>1. s[k] = IF k < I + Len(new) THEN new[k - I + 1] ELSE Assigned
    BY <1>5 DEF PutFor
  <2>2. k < I + Len(new)
    BY <1>9, <2>1 DEF IsOpen, Assigned
  <2>3. k - I + 1 \in DOMAIN new
    BY <1>3, <1>7, <1>8, <2>2
  <2>4. k - I + 1 = r /\ s[k] = new[r]
    BY <1>4, <1>9, <2>1, <2>2, <2>3 DEF IsOpen
  <2> QED
    BY <1>4, <1>7, <1>8, <2>4
<1>10. /\ Identity(nowait) \in Nat
       /\ \/ Identity(nowait) >= NOWAIT_FUNC
          \/ Identity(nowait) = hartes_rpc_uid /\ hartes_rpc_uid' = hartes_rpc_uid + 1
       /\ hartes_rpc_uid' \in {hartes_rpc_uid, hartes_rpc_uid + 1}
  <2>1. CASE nowait
    BY <1>1, <2>1 DEF Identity, NOWAIT_FUNC
  <2>2. CASE ~nowait
    BY <1>1, <2>2 DEF Identity
  <2> QED
    BY <2>1, <2>2
<1> DEFINE q == I + r - 1
<1>11. \A k \in I .. I + n - 1 : IsOpen(s[k]) =>
         /\ k = q /\ s[k].n \in Nat
         /\ \/ s[k].n >= NOWAIT_FUNC
            \/ s[k].n = hartes_rpc_uid /\ hartes_rpc_uid' = hartes_rpc_uid + 1
  BY <1>9, <1>10
<1>12. q \in Int
  BY <1>3, <1>8
<1> HIDE DEF q
<1> QED
  BY <1>1, <1>5, <1>6, <1>7, <1>10, <1>11, <1>12, NewUids

\* The loop goes on behind the statement it is at.
LEMMA ContinuedUids ==
  ASSUME UidInv, stack # <<>>, Continue(list[L], I),
         UNCHANGED <<program, list, func, hartes_rpc_uid>>, status' \in Statuses
  PROVE  UidInv'
<1>1. WalkInv
  BY DEF UidInv
<1>2. /\ I \in 0 .. Len(list[L]) /\ I \in Nat /\ Len(list[L]) \in Nat
      /\ list[L] \in Seq(ToSet(list[L]))
  BY <1>1, Innermost
<1> DEFINE i == IF I = 0 THEN 0 ELSE Next(list[L], I)
<1>3. i \in 0 .. Len(list[L])
  BY <1>2, NextIn
<1>4. MoveTo(i)
  BY DEF Continue
<1> HIDE DEF i
<1>5. WalkInv'
  BY <1>1, <1>3, <1>4, MoveKeeps
<1> QED
  BY <1>5, SameUids

\* The compiler stops at a call, or nothing happens.
LEMMA StoppedUids ==
  ASSUME UidInv, UNCHANGED <<program, list, func, stack, hartes_rpc_uid>>, status' \in Statuses
  PROVE  UidInv'
<1>1. WalkInv'
  BY StopKeeps DEF UidInv
<1> QED
  BY <1>1, SameUids

LEMMA DummyDspUids == ASSUME UidInv, DummyDsp PROVE UidInv'
<1> DEFINE s == RemoveAt(list[L], I)
           i == Delinked(list[L], I)
<1>1. /\ WalkInv /\ stack # <<>> /\ I # 0 /\ status = "walk" /\ hartes_rpc_uid \in Nat
      /\ list' = [list EXCEPT ![L] = s] /\ MoveTo(i)
      /\ UNCHANGED <<program, func, status, hartes_rpc_uid>>
  BY DEF UidInv, DummyDsp, At
<1>2. Edited(s, 0) /\ I \in 1 .. Len(list[L]) /\ Len(list[L]) \in Nat
  BY <1>1, RemovedEdit, Innermost
<1>3. Len(s) = Len(list[L]) - 1
  BY <1>2 DEF Edited
<1>4. i \in 0 .. Len(s)
  BY <1>2, <1>3 DEF Delinked
<1>5. status' \in Statuses
  BY <1>1 DEF Statuses
<1> HIDE DEF s, i
<1>6. WalkInv'
  BY <1>1, <1>2, <1>4, <1>5, EditKeeps
<1>7. \A k \in I .. I + 0 - 1 : ~IsOpen(s[k])
  BY <1>2
<1> QED
  BY <1>1, <1>2, <1>6, <1>7, NoNewUids

LEMMA CallGppUids == ASSUME UidInv, CallGpp PROVE UidInv'
<1>1. /\ WalkInv /\ At("call") /\ stack # <<>> /\ I # 0 /\ status = "walk"
      /\ hartes_rpc_uid \in Nat
      /\ UNCHANGED <<program, func, status, hartes_rpc_uid>> /\ status' \in Statuses
  BY DEF UidInv, CallGpp, At, Statuses
<1>2. CASE Continue(list[L], I) /\ UNCHANGED list
  BY <1>1, <1>2, ContinuedUids
<1>3. CASE list' = [list EXCEPT ![L] = Timed(@, I)] /\ Continue(list'[L], I + 1)
  <2> DEFINE s == Timed(list[L], I)
             i == IF I + 1 = 0 THEN 0 ELSE Next(s, I + 1)
  <2>1. /\ L \in DOMAIN list /\ I \in 0 .. Len(list[L]) /\ I \in Nat
        /\ Len(list[L]) \in Nat
    BY <1>1, Innermost
  <2>2. list' = [list EXCEPT ![L] = s] /\ list'[L] = s /\ MoveTo(i)
    BY <1>3, <2>1 DEF Continue
  <2>3. s = Timed(list[L], I)
    OBVIOUS
  <2> HIDE DEF s
  <2>4. Edited(s, 3) /\ \A k \in I .. I + 3 - 1 : ~IsOpen(s[k])
    BY <1>1, <2>3, TimedEdit
  <2>5. s \in Seq(ToSet(s))
    BY <2>4 DEF Edited
  <2>6. i \in 0 .. Len(s)
    <3>1. I + 1 \in Nat /\ Len(s) \in Nat
      BY <2>1, <2>5
    <3>2. Next(s, I + 1) \in 0 .. Len(s)
      BY <2>5, <3>1, NextIn
    <3> QED
      BY <3>1, <3>2
  <2> HIDE DEF i
  <2>7. WalkInv'
    BY <1>1, <2>2, <2>4, <2>6, EditKeeps
  <2> QED
    BY <1>1, <2>2, <2>4, <2>7, NoNewUids
<1> QED
  BY <1>2, <1>3 DEF CallGpp

LEMMA StepUids == ASSUME UidInv, Step \/ Stopped \/ UNCHANGED vars PROVE UidInv'
<1>1. WalkInv /\ status \in Statuses
  BY DEF UidInv, WalkInv, WalkTypeOK, Statuses
<1>2. CASE Walk
  <2>1. WalkInv'
    BY <1>1, <1>2, ExecuteKeeps, FinishKeeps, LeaveKeeps, EnterKeeps, PassKeeps DEF Walk
  <2>2. UNCHANGED <<list, hartes_rpc_uid>>
    BY <1>2 DEF Walk, Execute, Finish, Leave, Enter, Pass, dspVars
  <2> QED
    BY <2>1, <2>2, SameUids
<1>3. CASE PassBehind \/ PassBuiltin \/ DummyOther
  <2>1. \E kind : Pass(kind) /\ UNCHANGED hartes_rpc_uid
    BY <1>3 DEF PassBehind, PassBuiltin, DummyOther
  <2>2. WalkInv'
    BY <1>1, <2>1, PassKeeps
  <2>3. UNCHANGED <<list, hartes_rpc_uid>>
    BY <2>1 DEF Pass
  <2> QED
    BY <2>2, <2>3, SameUids
<1>4. CASE DummyDsp
  BY <1>4, DummyDspUids
<1>5. CASE DummyAsCall
  <2>1. stack # <<>> /\ UNCHANGED <<program, list, func, hartes_rpc_uid>>
    BY <1>5 DEF DummyAsCall, Mapping, At
  <2>2. \/ status' = "unsupported" /\ UNCHANGED stack
        \/ Continue(list[L], I) /\ UNCHANGED status
    BY <1>5 DEF DummyAsCall
  <2> QED
    BY <1>1, <2>1, <2>2, StoppedUids, ContinuedUids DEF Statuses
<1>6. CASE CallGpp
  BY <1>6, CallGppUids
<1>7. CASE CallOther
  BY <1>1, <1>7, ContinuedUids DEF CallOther, Mapping, At
<1>8. CASE CallBlocking
  <2>1. /\ At("call") /\ Replace(Emitted(Stmt, FALSE)) /\ UNCHANGED <<program, func, status>>
        /\ hartes_rpc_uid' = hartes_rpc_uid + IF FALSE THEN 0 ELSE 1
    BY <1>8 DEF CallBlocking, Mapping
  <2> QED
    BY <2>1, ReplacedUids
<1>9. CASE CallNowait
  <2>1. /\ At("call") /\ Replace(Emitted(Stmt, TRUE)) /\ UNCHANGED <<program, func, status>>
        /\ UNCHANGED hartes_rpc_uid
    BY <1>9 DEF CallNowait, Mapping
  <2>2. hartes_rpc_uid' = hartes_rpc_uid + IF TRUE THEN 0 ELSE 1
    BY <2>1 DEF UidInv
  <2> QED
    BY <2>1, <2>2, ReplacedUids
<1>10. CASE CallUnsupported
  BY <1>10, StoppedUids DEF CallUnsupported, Mapping, Statuses
<1>11. CASE Stopped \/ UNCHANGED vars
  <2>1. UNCHANGED vars
    BY <1>11 DEF Stopped
  <2> QED
    BY <1>1, <2>1, StoppedUids DEF vars, walkVars, dspVars
<1> QED
  BY <1>2, <1>3, <1>4, <1>5, <1>6, <1>7, <1>8, <1>9, <1>10, <1>11 DEF Step

LEMMA UidsApartUnique == UidInv => UidsUnique
BY DEF UidInv, UidsApart, UidsUnique

\* For every program and all options: no two calls the processor waits for are opened
\* under one identity, in whatever lists they stand and however the passes between
\* them went, as long as hartes_rpc_uid is below NOWAIT_FUNC (gcc/diopsis.c,
\* insert_diopsis_api and diopsis_replace_call_tree_tsi).
THEOREM IdentitiesUnique == Spec => []UidsUnique
<1>1. UidInv /\ [Step \/ Stopped]_vars => UidInv'
  BY StepUids
<1> QED
  BY <1>1, InitUids, UidsApartUnique, PTL DEF Spec
--------------------------------------------------------------------------------
(* A dummy that waits for its call is followed by it.                             *)

SpanInv == /\ WalkInv /\ ListsEmbedded /\ OuterClear
           /\ pragma_on_call_magic # NoUnit => Waiting
           /\ Spanned => pragma_on_call # NoUnit

LEMMA InitSpans == ASSUME Init, SourceEmbedded PROVE SpanInv
BY InitKeeps, SourceStarts DEF Init, SpanInv

\* The walk stays where it is.
LEMMA StaysSpans ==
  ASSUME SpanInv, UNCHANGED <<program, list, func, stack, pragma_on_call>>,
         pragma_on_call_magic' \in {pragma_on_call_magic, NoUnit}, status' \in Statuses
  PROVE  SpanInv'
<1>1. WalkInv' /\ ListsEmbedded' /\ OuterClear'
  BY StopKeeps, SourceStays, WalksStay DEF SpanInv
<1>2. (Spanned' <=> Spanned) /\ (Waiting' <=> Waiting)
  BY WalksStay
<1> QED
  BY <1>1, <1>2 DEF SpanInv

\* The loop goes on behind a statement, and no list is changed.
LEMMA ContinuedSpans ==
  ASSUME SpanInv, stack # <<>>, I # 0, Continue(list[L], I),
         UNCHANGED <<program, list, func>>, status' \in Statuses,
         pragma_on_call_magic' \in {pragma_on_call_magic, NoUnit},
         pragma_on_call_magic' # NoUnit => Stmt.kind # "call",
         IsDummy(Stmt) => pragma_on_call' # NoUnit,
         Stmt \in Between => UNCHANGED pragma_on_call
  PROVE  SpanInv'
<1>1. WalkInv /\ OuterClear /\ ListsEmbedded
  BY DEF SpanInv
<1>2. /\ I \in 0 .. Len(list[L]) /\ I \in Nat /\ Len(list[L]) \in Nat
      /\ list[L] \in Seq(ToSet(list[L]))
  BY <1>1, Innermost
<1>3. MoveTo(Next(list[L], I)) /\ Next(list[L], I) \in 0 .. Len(list[L])
  BY <1>2, NextIn DEF Continue
<1>4. WalkInv'
  BY <1>1, <1>3, MoveKeeps
<1>5. /\ OuterClear'
      /\ Spanned' => IsDummy(Stmt) \/ (Stmt \in Between /\ Spanned)
      /\ Waiting /\ Stmt.kind # "call" => Waiting'
  BY <1>1, ContinueClear
<1>6. ListsEmbedded'
  BY <1>1, SourceStays
<1> QED
  BY <1>4, <1>5, <1>6 DEF SpanInv

LEMMA WalkSpans == ASSUME SpanInv, Walk PROVE SpanInv'
<1>1. /\ WalkInv /\ OuterClear /\ ListsEmbedded
      /\ UNCHANGED <<program, list, pragma_on_call, pragma_on_call_magic>>
  BY DEF SpanInv, Walk, Execute, Finish, Leave, Enter, Pass, dspVars
<1>2. WalkInv' /\ ListsEmbedded'
  BY <1>1, ExecuteKeeps, FinishKeeps, LeaveKeeps, EnterKeeps, PassKeeps, SourceStays DEF Walk
<1>3. CASE Execute
  <2>1. OuterClear' /\ ~Spanned'
    BY <1>1, <1>3, ExecuteClear
  <2>2. stack = <<>>
    BY <1>3 DEF Execute
  <2>3. ~Waiting
    BY <2>2 DEF Waiting
  <2> QED
    BY <1>1, <1>2, <2>1, <2>3 DEF SpanInv
<1>4. CASE Finish
  BY <1>1, <1>4, StaysSpans DEF Finish, Statuses
<1>5. CASE Leave
  <2>1. OuterClear' /\ ~Spanned' /\ ~Waiting
    BY <1>1, <1>5, LeaveClear
  <2> QED
    BY <1>1, <1>2, <2>1 DEF SpanInv
<1>6. CASE Enter
  <2>1. OuterClear' /\ (Spanned' => Spanned) /\ (Waiting => Waiting')
    BY <1>1, <1>6, EnterClear
  <2> QED
    BY <1>1, <1>2, <2>1 DEF SpanInv
<1>7. CASE Pass("other")
  <2>1. /\ stack # <<>> /\ I # 0 /\ Stmt.kind = "other" /\ status' \in Statuses
        /\ Continue(list[L], I) /\ UNCHANGED <<program, list, func>>
    BY <1>7 DEF Pass, At, Stmt, Statuses
  <2> QED
    BY <1>1, <2>1, ContinuedSpans DEF IsDummy
<1> QED
  BY <1>3, <1>4, <1>5, <1>6, <1>7 DEF Walk

LEMMA DummyDspSpans == ASSUME SpanInv, DummyDsp PROVE SpanInv'
<1>1. /\ WalkInv /\ OuterClear /\ ListsEmbedded
      /\ stack # <<>> /\ I # 0 /\ status' \in Statuses
      /\ list' = [list EXCEPT ![L] = RemoveAt(list[L], I)]
      /\ MoveTo(Delinked(list[L], I))
      /\ pragma_on_call_magic' = Stmt.unit
      /\ UNCHANGED <<program, func>>
  BY DEF SpanInv, DummyDsp, At, Statuses
<1>2. IsDummy(Stmt)
  <2>1. Stmt.kind = "dummy" /\ Stmt.unit \in NamedDsp
    BY DEF DummyDsp, At, Stmt
  <2> QED
    BY <2>1, DspAssumption DEF IsDummy, NoUnit
<1>3. MoveTo(I)
  <2>1. L \in DOMAIN list /\ I \in DOMAIN list[L] /\ I \in Nat /\ Len(list[L]) \in Nat
    BY <1>1, Innermost
  <2>2. CallAhead(list[L], I + 1)
    BY <1>1, <1>2, <2>1 DEF ListsEmbedded, Stmt
  <2>3. I < Len(list[L])
    BY <2>1, <2>2 DEF CallAhead
  <2> QED
    BY <1>1, <2>3 DEF Delinked
<1>4. WalkInv' /\ ListsEmbedded' /\ OuterClear' /\ ~Spanned' /\ Waiting'
  BY <1>1, <1>2, <1>3, DummyOutClear
<1> QED
  BY <1>4 DEF SpanInv

\* Behind a dummy that was left in the list no call of the processor is timed.
LEMMA CallGppSpans == ASSUME SpanInv, CallGpp PROVE SpanInv'
<1>1. /\ WalkInv /\ OuterClear /\ ListsEmbedded
      /\ At("call") /\ stack # <<>> /\ I # 0 /\ status' \in Statuses /\ Stmt.kind = "call"
      /\ pragma_on_call_magic' = NoUnit
      /\ UNCHANGED <<program, func>>
  BY DEF SpanInv, CallGpp, At, Statuses, Stmt
<1>2. CASE Continue(list[L], I) /\ UNCHANGED list
  <2>1. ~IsDummy(Stmt) /\ Stmt \notin Between
    BY <1>1, BetweenKinds DEF IsDummy
  <2> QED
    BY <1>1, <1>2, <2>1, ContinuedSpans
<1>3. CASE /\ pragma_on_call = NoUnit
           /\ list' = [list EXCEPT ![L] = Timed(@, I)] /\ Continue(list'[L], I + 1)
  <2> DEFINE timed == Timed(list[L], I)
             next == IF I + 1 = 0 THEN 0 ELSE Next(timed, I + 1)
  <2>1. L \in DOMAIN list /\ I \in Nat /\ Len(list[L]) \in Nat
    BY <1>1, Innermost
  <2>2. list' = [list EXCEPT ![L] = timed] /\ MoveTo(next)
    BY <1>3, <2>1 DEF Continue
  <2>3. timed = Timed(list[L], I)
    OBVIOUS
  <2> HIDE DEF timed
  <2>4. /\ Edited(timed, 3) /\ timed[I + 1] = Stmt
        /\ \A k \in I .. I + 3 - 1 : timed[k].kind \in {"builtin", "call"}
    BY <1>1, <2>3, TimedEdit
  <2>5. timed \in Seq(ToSet(timed))
    BY <2>4 DEF Edited
  <2>6. next \in 0 .. Len(timed) /\ next \in Nat /\ next \in {0, (I + 1) + 1}
    <3>1. I + 1 \in Nat /\ I + 1 # 0 /\ Len(timed) \in Nat
      BY <2>1, <2>5
    <3>2. Next(timed, I + 1) \in 0 .. Len(timed) /\ Next(timed, I + 1) \in {0, (I + 1) + 1}
      BY <2>5, <3>1, NextIn
    <3> QED
      BY <3>1, <3>2
  <2> HIDE DEF next
  <2>7. WalkInv'
    BY <1>1, <2>2, <2>4, <2>6, EditKeeps
  <2>8. ~InSpan(list[L], I)
    BY <1>1, <1>3, InnermostClear DEF SpanInv
  <2>9. next # 0 => ~InSpan(timed, next)
    <3>1. timed[I + 1] \notin Between /\ ~IsDummy(timed[I + 1])
      BY <1>1, <2>4, BetweenKinds DEF IsDummy
    <3>2. I + 1 \in Nat /\ I + 1 # 0
      BY <2>1
    <3>3. ~InSpan(timed, (I + 1) + 1)
      BY <3>1, <3>2, SpanNext
    <3> QED
      BY <2>6, <3>3
  <2>10. 3 \in Nat /\ 3 # 0 /\ \A k \in I .. I + 3 - 1 : timed[k].kind # "dummy"
    BY <2>4
  <2>11. ListsEmbedded' /\ OuterClear' /\ ~Spanned'
    BY <1>1, <2>2, <2>4, <2>6, <2>8, <2>9, <2>10, EditClear
  <2> QED
    BY <1>1, <2>7, <2>11 DEF SpanInv
<1> QED
  BY <1>2, <1>3 DEF CallGpp

\* Nor is one taken for a call of the DSP.
LEMMA ReplacedSpans ==
  ASSUME SpanInv, At("call"), NEW nowait \in BOOLEAN, NEW u \in Dsp, Mapping(u, nowait),
         Replace(Emitted(Stmt, nowait)), UNCHANGED status
  PROVE  SpanInv'
<1> DEFINE new == Emitted(Stmt, nowait)
<1>1. /\ WalkInv /\ OuterClear /\ ListsEmbedded
      /\ stack # <<>> /\ I # 0 /\ status = "walk" /\ Stmt.kind = "call"
      /\ Stmt.args \in Seq(ToSet(Stmt.args))
  BY CallOfProgram DEF SpanInv
<1>2. ~InSpan(list[L], I)
  <2> SUFFICES ASSUME InSpan(list[L], I) PROVE FALSE
    OBVIOUS
  <2>1. Spanned
    BY <1>1, InnermostClear
  <2>2. Stmt.attr = NoUnit
    BY <1>1, <2>1, SpannedCall, BetweenKinds
  <2>3. pragma_on_call_magic = NoUnit
    BY <1>1, <2>1, WaitingAt DEF SpanInv
  <2>4. u = NoUnit
    BY <2>2, <2>3 DEF Mapping, Attrs
  <2> QED
    BY <2>4, DspAssumption DEF NoUnit
<1>3. OpensOne(new, Identity(nowait))
  BY <1>1, EmittedOpens
<1> HIDE DEF new
<1>4. Builtins(new) /\ new # <<>>
  BY <1>3 DEF OpensOne, Builtins
<1>5. Replace(new) /\ UNCHANGED <<program, func>> /\ pragma_on_call_magic' = NoUnit
      /\ status' \in Statuses
  BY <1>1 DEF new, Mapping, Statuses
<1>6. WalkInv' /\ ListsEmbedded' /\ OuterClear' /\ ~Spanned'
  BY <1>1, <1>2, <1>4, <1>5, ReplaceClear
<1> QED
  BY <1>5, <1>6 DEF SpanInv

\* While a dummy waits for its call there is no other.
LEMMA DummySpans == ASSUME SpanInv, At("dummy") PROVE pragma_on_call_magic = NoUnit
<1>1. ASSUME Waiting PROVE FALSE
  <2>1. Stmt \in Between \/ Stmt.kind = "call"
    BY <1>1, WaitingAt DEF SpanInv
  <2> QED
    BY <2>1, BetweenKinds DEF At, Stmt
<1> QED
  BY <1>1 DEF SpanInv

LEMMA StepSpans == ASSUME SpanInv, Step \/ Stopped \/ UNCHANGED vars PROVE SpanInv'
<1>1. WalkInv /\ status \in Statuses
  BY DEF SpanInv, WalkInv, WalkTypeOK, Statuses
<1>2. ASSUME NEW kind, Pass(kind)
      PROVE  /\ stack # <<>> /\ I # 0 /\ Stmt.kind = kind /\ Continue(list[L], I)
             /\ UNCHANGED <<program, list, func>> /\ status' \in Statuses
  BY <1>1, <1>2 DEF Pass, At, Stmt
<1>3. CASE Walk
  BY <1>3, WalkSpans
<1>4. CASE PassBehind
  <2>1. \/ Pass("other")
        \/ Pass("nest")
    BY <1>4 DEF PassBehind
  <2>2. Stmt.kind \in {"other", "nest"} /\ UNCHANGED <<pragma_on_call, pragma_on_call_magic>>
    BY <1>2, <1>4, <2>1 DEF PassBehind
  <2>3. Stmt.kind # "call" /\ ~IsDummy(Stmt)
    BY <2>2 DEF IsDummy
  <2> QED
    BY <1>2, <2>1, <2>2, <2>3, ContinuedSpans
<1>5. CASE PassBuiltin
  <2>1. Pass("builtin") /\ UNCHANGED pragma_on_call_magic
    BY <1>5 DEF PassBuiltin
  <2>2. Stmt.kind = "builtin"
    BY <1>2, <2>1
  <2>3. Stmt.kind # "call" /\ ~IsDummy(Stmt) /\ Stmt \notin Between
    BY <2>2, BetweenKinds DEF IsDummy
  <2> QED
    BY <1>2, <2>1, <2>3, ContinuedSpans
<1>6. CASE DummyDsp
  BY <1>6, DummyDspSpans
<1>7. CASE DummyOther
  <2>1. Pass("dummy") /\ pragma_on_call' = Stmt.unit /\ UNCHANGED pragma_on_call_magic
    BY <1>7 DEF DummyOther
  <2>2. Stmt.kind = "dummy"
    BY <1>2, <2>1
  <2>3. Stmt.kind # "call" /\ Stmt \notin Between /\ (IsDummy(Stmt) => pragma_on_call' # NoUnit)
    BY <2>1, <2>2, BetweenKinds DEF IsDummy
  <2> QED
    BY <1>2, <2>1, <2>3, ContinuedSpans
<1>8. CASE DummyAsCall
  BY <1>8, DummySpans DEF DummyAsCall
<1>9. CASE CallGpp
  BY <1>9, CallGppSpans
<1>10. CASE CallOther
  <2>1. /\ stack # <<>> /\ I # 0 /\ Stmt.kind = "call" /\ Continue(list[L], I)
        /\ UNCHANGED <<program, list, func>> /\ status' \in Statuses
        /\ pragma_on_call_magic' = NoUnit /\ UNCHANGED pragma_on_call
    BY <1>1, <1>10 DEF CallOther, Mapping, At, Stmt
  <2>2. ~IsDummy(Stmt)
    BY <2>1 DEF IsDummy
  <2> QED
    BY <2>1, <2>2, ContinuedSpans
<1>11. CASE CallBlocking
  <2>1. PICK u \in Dsp : Mapping(u, FALSE)
    BY <1>11 DEF CallBlocking
  <2>2. At("call") /\ Replace(Emitted(Stmt, FALSE)) /\ UNCHANGED status
    BY <1>11 DEF CallBlocking
  <2> QED
    BY <2>1, <2>2, ReplacedSpans
<1>12. CASE CallNowait
  <2>1. PICK u \in Dsp : Mapping(u, TRUE)
    BY <1>12 DEF CallNowait
  <2>2. At("call") /\ Replace(Emitted(Stmt, TRUE)) /\ UNCHANGED status
    BY <1>12 DEF CallNowait
  <2> QED
    BY <2>1, <2>2, ReplacedSpans
<1>13. CASE CallUnsupported
  <2>1. /\ UNCHANGED <<program, list, func, stack, pragma_on_call>>
        /\ pragma_on_call_magic' = NoUnit /\ status' \in Statuses
    BY <1>13 DEF CallUnsupported, Mapping, Statuses
  <2> QED
    BY <2>1, StaysSpans
<1>14. CASE Stopped \/ UNCHANGED vars
  <2>1. UNCHANGED vars
    BY <1>14 DEF Stopped
  <2>2. /\ UNCHANGED <<program, list, func, stack, pragma_on_call, pragma_on_call_magic>>
        /\ status' \in Statuses
    BY <1>1, <2>1 DEF vars, walkVars, dspVars
  <2> QED
    BY <2>2, StaysSpans
<1> QED
  BY <1>3, <1>4, <1>5, <1>6, <1>7, <1>8, <1>9, <1>10, <1>11, <1>12, <1>13, <1>14 DEF Step

LEMMA ProgramKept == ASSUME Step \/ Stopped \/ UNCHANGED vars PROVE UNCHANGED program
BY DEF Step, Walk, Execute, Finish, Leave, Enter, Pass, PassBehind, PassBuiltin, DummyDsp,
       DummyOther, DummyAsCall, CallGpp, CallOther, CallBlocking, CallNowait,
       CallUnsupported, Mapping, Stopped, vars, walkVars

\* A pragma taken for a DSP call is about the call the walk comes to next.
PragmaAhead == SourceEmbedded => (pragma_on_call_magic # NoUnit => Waiting)

\* For every program that has, behind every dummy, a call of its own, whatever the
\* lists around them, the units and the options: the unit of a dummy taken out waits
\* only where the walk comes to that call next. No other dummy or call is given it,
\* and it is neither left over at the end of a list nor carried into another function
\* (gcc/diopsis.c, pragma_on_call_magic in diopsis_replace_call_tree_tsi).
THEOREM PragmasReachTheirCalls == Spec => []PragmaAhead
<1> DEFINE Inv == SourceEmbedded => SpanInv
<1>1. Init => Inv
  BY InitSpans
<1>2. Inv /\ [Step \/ Stopped]_vars => Inv'
  <2> SUFFICES ASSUME Inv, [Step \/ Stopped]_vars, SourceEmbedded' PROVE SpanInv'
    OBVIOUS
  <2>1. SourceEmbedded
    BY ProgramKept DEF SourceEmbedded
  <2> QED
    BY <2>1, StepSpans
<1>3. Inv => PragmaAhead
  BY DEF SpanInv, PragmaAhead
<1> HIDE DEF Inv
<1> QED
  BY <1>1, <1>2, <1>3, PTL DEF Spec
--------------------------------------------------------------------------------
(* What is neither a call nor a dummy of the DSP stays in its place.              *)

\* Statements R that are neither.
Apart(R) == \A st \in R : /\ st.kind \notin {"builtin", "call", "assigned"}
                          /\ st.kind = "dummy" => st.unit \notin NamedDsp

LEMMA ReplacedKept ==
  ASSUME WalkInv, NEW R, Apart(R), KeptIn(R), At("call"), NEW nowait \in BOOLEAN,
         Replace(Emitted(Stmt, nowait)), UNCHANGED program
  PROVE  KeptIn(R)'
<1> DEFINE new == Emitted(Stmt, nowait)
<1>1. /\ stack # <<>> /\ I # 0 /\ Stmt.kind = "call" /\ Stmt.args \in Seq(ToSet(Stmt.args))
  BY CallOfProgram
<1>2. OpensOne(new, Identity(nowait)) /\ Replace(new)
  BY <1>1, EmittedOpens
<1> HIDE DEF new
<1>3. Builtins(new)
  BY <1>2 DEF OpensOne
<1>4. Stmt \notin R /\ \A st \in R : st.kind \notin {"builtin", "assigned"}
  BY <1>1 DEF Apart
<1> QED
  BY <1>1, <1>2, <1>3, <1>4, PutKept

LEMMA DummyDspKept ==
  ASSUME WalkInv, NEW R, Apart(R), KeptIn(R), DummyDsp PROVE KeptIn(R)'
<1>1. /\ stack # <<>> /\ I # 0 /\ UNCHANGED program
      /\ list' = [list EXCEPT ![L] = RemoveAt(list[L], I)]
      /\ Stmt.kind = "dummy" /\ Stmt.unit \in NamedDsp
  BY DEF DummyDsp, At, Stmt
<1>2. Edited(RemoveAt(list[L], I), 0) /\ I \in Nat
  BY <1>1, RemovedEdit, Innermost
<1>3. Stmt \notin R /\ \A k \in I .. I + 0 - 1 : RemoveAt(list[L], I)[k] \notin R
  BY <1>1, <1>2 DEF Apart
<1> QED
  BY <1>1, <1>2, <1>3, EditKept

LEMMA CallGppKept == ASSUME WalkInv, NEW R, Apart(R), KeptIn(R), CallGpp PROVE KeptIn(R)'
<1>1. /\ stack # <<>> /\ I # 0 /\ UNCHANGED program /\ At("call")
      /\ Stmt.kind = "call"
  BY DEF CallGpp, At, Stmt
<1>2. CASE UNCHANGED list
  BY <1>1, <1>2, StaysKept
<1>3. CASE list' = [list EXCEPT ![L] = Timed(@, I)]
  <2> DEFINE s == Timed(list[L], I)
  <2>1. list' = [list EXCEPT ![L] = s] /\ s = Timed(list[L], I)
    BY <1>3
  <2> HIDE DEF s
  <2>2. Edited(s, 3) /\ \A k \in I .. I + 3 - 1 : s[k].kind \in {"builtin", "call"}
    BY <1>1, <2>1, TimedEdit
  <2>3. Stmt \notin R /\ \A k \in I .. I + 3 - 1 : s[k] \notin R
    BY <1>1, <2>2 DEF Apart
  <2> QED
    BY <1>1, <2>1, <2>2, <2>3, EditKept
<1> QED
  BY <1>2, <1>3 DEF CallGpp

LEMMA StepKept ==
  ASSUME WalkInv, NEW R, Apart(R), KeptIn(R), Step \/ Stopped \/ UNCHANGED vars
  PROVE  KeptIn(R)'
<1>1. CASE Walk \/ PassBehind \/ PassBuiltin \/ DummyOther
  BY <1>1, StaysKept DEF Walk, Execute, Finish, Leave, Enter, PassBehind, PassBuiltin,
                         DummyOther, Pass
<1>2. CASE DummyAsCall \/ CallOther \/ CallUnsupported
  BY <1>2, StaysKept DEF DummyAsCall, CallOther, CallUnsupported, Mapping
<1>3. CASE DummyDsp
  BY <1>3, DummyDspKept
<1>4. CASE CallGpp
  BY <1>4, CallGppKept
<1>5. CASE CallBlocking
  BY <1>5, ReplacedKept DEF CallBlocking, Mapping
<1>6. CASE CallNowait
  BY <1>6, ReplacedKept DEF CallNowait, Mapping
<1>7. CASE Stopped \/ UNCHANGED vars
  BY <1>7, StaysKept DEF Stopped, vars, walkVars
<1> QED
  BY <1>1, <1>2, <1>3, <1>4, <1>5, <1>6, <1>7 DEF Step

\* For every program, wherever its dummies stand, and all options: a statement that is
\* neither a call nor a dummy of the DSP is lost, doubled or moved past another by no
\* edit of the pass (gcc/diopsis.c, do_diopsis_replace_calls_tree and
\* diopsis_replace_call_tree_tsi).
THEOREM RestStays == Spec => []RestKept
<1> DEFINE Inv == UidInv /\ KeptIn(Rest)
<1>1. Init => Inv
  BY InitUids, StartsKept DEF Init, WalkInit
<1>2. Inv /\ [Step \/ Stopped]_vars => Inv'
  <2> SUFFICES ASSUME Inv, [Step \/ Stopped]_vars PROVE Inv'
    OBVIOUS
  <2>1. UidInv' /\ WalkInv
    BY StepUids DEF UidInv
  <2>2. Rest' = Rest
    BY ProgramKept DEF Rest, StatementsOf
  <2>3. PICK R : R = Rest
    OBVIOUS
  <2>4. Apart(R)
    BY <2>3 DEF Apart, Rest
  <2>5. KeptIn(R)'
    BY <2>1, <2>3, <2>4, StepKept
  <2> QED
    BY <2>1, <2>2, <2>3, <2>5 DEF KeptIn
<1>3. Inv => RestKept
  BY DEF KeptIn, RestKept
<1> HIDE DEF Inv
<1> QED
  BY <1>1, <1>2, <1>3, PTL DEF Spec
================================================================================
