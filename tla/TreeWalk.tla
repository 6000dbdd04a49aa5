-------------------------------- MODULE TreeWalk --------------------------------
(* How the passes fpga_replace_calls_tree (gcc/fpga.c) and                        *)
(* diopsis_replace_calls_tree (gcc/diopsis.c) walk the statement lists of every   *)
(* function, editing them on the way; what they do with a call is up to each.     *)
(*                                                                                *)
(* A program is a sequence of statement lists and the sequence of the lists that  *)
(* are function bodies. A statement is                                            *)
(*   Call(attr, form, ret, args)  a call with the pragma its declaration has, or  *)
(*                     NoUnit; form "expr": CALL_EXPR, "modify": the right side   *)
(*                     of a GIMPLE_MODIFY_STMT; ret: the type returned            *)
(*   Dummy(u)          __builtin_molen_dummy, left by a pragma in front of a call *)
(*   Nest(ls)          a BIND_EXPR, COND_EXPR, TRY, OMP_PARALLEL or OMP_SECTIONS  *)
(*                     with the lists ls; a list has a greater number than the    *)
(*                     list it is nested in                                       *)
(*   Other             anything else                                              *)
(* A pragma "call_hw" is told by the unit it names.                               *)
EXTENDS Integers, Sequences, FiniteSets, SequencesExt

CONSTANT Programs   \* the programs considered

NoUnit == -1

Call(attr, form, ret, args) ==
  [kind |-> "call", attr |-> attr, form |-> form, ret |-> ret, args |-> args]
Dummy(u) == [kind |-> "dummy", unit |-> u]
Nest(ls) == [kind |-> "nest", lists |-> ls]
Other == [kind |-> "other"]

\* What a pass leaves of a GIMPLE_MODIFY_STMT: it assigns a variable, not a call.
Assigned == [kind |-> "assigned"]

(* The lists of a program are trees: a list is nested at one place at most, and   *)
(* that of a function nowhere.                                                    *)
Nested(st) == IF st.kind = "nest" THEN ToSet(st.lists) ELSE {}

StatementsOf(p) == UNION {ToSet(p.lists[l]) : l \in DOMAIN p.lists}

NestedOnce(lists) ==
  \A l, m \in DOMAIN lists : \A j \in DOMAIN lists[l], k \in DOMAIN lists[m] :
    Nested(lists[l][j]) \cap Nested(lists[m][k]) # {} => l = m /\ j = k

WellFormed(p) ==
  /\ p.lists \in Seq(Seq(StatementsOf(p))) /\ p.roots \in Seq(DOMAIN p.lists)
  /\ \A st \in StatementsOf(p) : st.kind = "nest" =>
       st.lists \in Seq(DOMAIN p.lists) /\ IsInjective(st.lists)
  /\ \A st \in StatementsOf(p) : st.kind = "call" => st.args \in Seq(ToSet(st.args))
  /\ NestedOnce(p.lists)
  /\ \A st \in StatementsOf(p) : \A f \in DOMAIN p.roots : p.roots[f] \notin Nested(st)

ASSUME ProgramsAssumption == \A p \in Programs : WellFormed(p)

\* A call of a builtin a pass links in; n: register, number of bytes or identity.
Builtin(op, u, n) == [kind |-> "builtin", op |-> op, unit |-> u, n |-> n]

\* The n-th number of a set, from the least.
Nth(S, n) == CHOOSE i \in S : Cardinality(S \cap 1 .. i) = n

VARIABLES
  program,   \* the program compiled
  list,      \* its statement lists as they are now
  func,      \* the function the pass is called for
  stack,     \* the walks under way, innermost first: list and iterator
  status     \* "walk", "done", "error" or "unsupported" (the compiler
             \* exits with a message), "crash"

walkVars == <<program, list, func, stack, status>>

--------------------------------------------------------------------------------
(* tree_stmt_iterator: i is the number of the statement in its list, 0 when ptr   *)
(* is NULL.                                                                       *)

\* Mutants: the step back left out; the end taken for a statement;
\* what is linked in put over the statement.
PrevNone(i) == i
NextBeyond(s, i) == IF i <= Len(s) THEN i + 1 ELSE 0
LinkedOver(s, i, new) == SubSeq(s, 1, i - 1) \o new \o SubSeq(s, i + 1, Len(s))

Start(s) == IF s = <<>> THEN 0 ELSE 1
Next(s, i) == IF i < Len(s) THEN i + 1 ELSE 0
Prev(i) == i - 1
Delinked(s, i) == IF i < Len(s) THEN i ELSE 0
LinkedBefore(s, i, new) == SubSeq(s, 1, i - 1) \o new \o SubSeq(s, i, Len(s))

--------------------------------------------------------------------------------
WalkInit == /\ program \in Programs
            /\ list = program.lists
            /\ func = 0
            /\ stack = <<>>
            /\ status = "walk"

\* The pass is called for the next function.
Execute == /\ status = "walk" /\ stack = <<>>
           /\ func < Len(program.roots)
           /\ func' = func + 1
           /\ LET l == program.roots[func + 1] IN
                stack' = << [l |-> l, i |-> Start(list[l])] >>
           /\ UNCHANGED <<program, list, status>>

Finish == /\ status = "walk" /\ stack = <<>>
          /\ func = Len(program.roots)
          /\ status' = "done"
          /\ UNCHANGED <<program, list, func, stack>>

\* The innermost walk, its list and the statement it is at.
L == Head(stack).l
I == Head(stack).i
At(kind) == status = "walk" /\ stack # <<>> /\ I # 0 /\ list[L][I].kind = kind
Stmt == list[L][I]

MoveTo(i) == stack' = << [l |-> L, i |-> i] >> \o Tail(stack)

\* The loop goes on from iterator i of the list s, unless i is at the end.
Continue(s, i) == MoveTo(IF i = 0 THEN 0 ELSE Next(s, i))

Leave == /\ status = "walk" /\ stack # <<>> /\ I = 0
         /\ stack' = Tail(stack)
         /\ UNCHANGED <<program, list, func, status>>

Pass(kind) == /\ At(kind)
              /\ Continue(list[L], I)
              /\ UNCHANGED <<program, list, func, status>>

\* Mutant: the list of a nested statement does not go on.
EnterAgain == /\ At("nest")
              /\ stack' = [c \in 1 .. Len(Stmt.lists) |->
                             [l |-> Stmt.lists[c], i |-> Start(list[Stmt.lists[c]])]] \o stack
              /\ UNCHANGED <<program, list, func, status>>

\* The lists of a nested statement are walked one after the other, then the list
\* it stands in goes on.
Enter == /\ At("nest")
         /\ LET ls == Stmt.lists IN
              stack' = [c \in 1 .. Len(ls) |-> [l |-> ls[c], i |-> Start(list[ls[c]])]]
                         \o << [l |-> L, i |-> Next(list[L], I)] >> \o Tail(stack)
         /\ UNCHANGED <<program, list, func, status>>

\* The builtins new are linked before the call, a CALL_EXPR, and that is taken out.
ReplaceExpr(new) ==
  LET i == I + Len(new)
      linked == LinkedBefore(list[L], I, new)
      j == Delinked(linked, i)
      s == RemoveAt(linked, i) IN
    /\ list' = [list EXCEPT ![L] = s]
    /\ Continue(s, IF j = 0 THEN 0 ELSE Prev(j))

\* Of a GIMPLE_MODIFY_STMT only the right side is replaced.
ReplaceModify(new) ==
  LET i == I + Len(new)
      linked == [LinkedBefore(list[L], I, new) EXCEPT ![i] = Assigned] IN
    /\ list' = [list EXCEPT ![L] = linked]
    /\ Continue(linked, i)

Replace(new) == IF Stmt.form = "modify" THEN ReplaceModify(new) ELSE ReplaceExpr(new)

--------------------------------------------------------------------------------
\* Every iterator of a walk under way is at a statement of its list, or NULL.
WalkTypeOK ==
  /\ func \in 0 .. Len(program.roots)
  /\ DOMAIN list = DOMAIN program.lists
  /\ \A k \in 1 .. Len(stack) :
       /\ stack[k].l \in DOMAIN list
       /\ stack[k].i \in 0 .. Len(list[stack[k].l])
  /\ status \in {"walk", "done", "error", "unsupported", "crash"}

(* What the source of a program asks for of a pass that replaces the calls mapped *)
(* on the units U.                                                                *)

\* The statements of each list in the order they are walked, nested ones included.
Order(p) ==
  LET order[l \in DOMAIN p.lists] ==
        LET s == p.lists[l] IN
          FlattenSeq([k \in 1 .. Len(s) |->
            IF s[k].kind = "nest"
              THEN FlattenSeq([c \in 1 .. Len(s[k].lists) |-> order[s[k].lists[c]]])
              ELSE << <<l, k>> >>])
  IN order

Orig(p, c) == p.lists[c[1]][c[2]]

\* A builtin linked in by an earlier pass is a call without a pragma.
IsCall(st) == st.kind \in {"call", "builtin"}
AttrOf(st) == IF st.kind = "call" THEN st.attr ELSE NoUnit
IsModify(st) == st.kind = "call" /\ st.form = "modify"

\* No call between places m and n of a function.
NoCallBetween(p, o, m, n) == \A x \in m + 1 .. n - 1 : ~IsCall(Orig(p, o[x]))

\* The unit the pragmas map statement k of list l on, a call: that of a dummy in
\* front of it, or that of the declaration.
Mapped(p, l, k, U) ==
  LET o == Order(p)[CHOOSE r \in {p.roots[f] : f \in DOMAIN p.roots} :
                      Contains(Order(p)[r], <<l, k>>)]
      n == CHOOSE x \in DOMAIN o : o[x] = <<l, k>>
      D == {m \in 1 .. n - 1 : /\ Orig(p, o[m]).kind = "dummy"
                               /\ Orig(p, o[m]).unit \in U
                               /\ NoCallBetween(p, o, m, n)} IN
    IF D = {} THEN AttrOf(p.lists[l][k]) ELSE Orig(p, o[CHOOSE m \in D : TRUE]).unit

Replaced(p, l, k, U) == IsCall(p.lists[l][k]) /\ Mapped(p, l, k, U) \in U

\* A list as it should be: the dummies of U gone, every call mapped on a unit u of
\* U replaced by Mark(u), where it returns a value in front of its statement.
Wanted(p, l, U, Mark(_)) ==
  FlattenSeq([k \in 1 .. Len(p.lists[l]) |->
    LET st == p.lists[l][k] IN
      IF st.kind = "dummy" /\ st.unit \in U THEN <<>>
      ELSE IF Replaced(p, l, k, U)
        THEN << Mark(Mapped(p, l, k, U)) >> \o IF IsModify(st) THEN <<Assigned>> ELSE <<>>
      ELSE <<st>>])

\* A list as it is, of the builtins linked in for a call only one.
Reduced(s, op) == SelectSeq(s, LAMBDA st : st.kind = "builtin" => st.op = op)

\* The n-th replaced call of a list of the source.
NthReplaced(p, l, n, U) ==
  CHOOSE k \in DOMAIN p.lists[l] :
    Replaced(p, l, k, U) /\ Cardinality({x \in 1 .. k : Replaced(p, l, x, U)}) = n

ReplacedCalls(p, l, U) == Cardinality({k \in DOMAIN p.lists[l] : Replaced(p, l, k, U)})

\* Two dummies of the function f without a call between them, the first of U.
TwoDummies(p, f, U) ==
  LET o == Order(p)[p.roots[f]] IN
    \E m, n \in DOMAIN o :
      /\ m < n /\ NoCallBetween(p, o, m, n)
      /\ Orig(p, o[m]).kind = "dummy" /\ Orig(p, o[m]).unit \in U
      /\ Orig(p, o[n]).kind = "dummy"

\* Behind every dummy comes, in its list, the call it is meant for, without another
\* call or dummy between them and without a pragma of its own.
DummiesEmbedded(s) ==
  \A k \in DOMAIN s : s[k].kind = "dummy" =>
    \E n \in k + 1 .. Len(s) : /\ s[n].kind = "call" /\ s[n].attr = NoUnit
                               /\ \A m \in k + 1 .. n - 1 : s[m] \in {Other, Nest(<<>>)}

\* The statements of s among R are those of t, in their order.
PlacesOf(s, R) == {k \in DOMAIN s : s[k] \in R}
SameIn(s, t, R) ==
  \E f \in [PlacesOf(s, R) -> PlacesOf(t, R)] :
    /\ \A k \in PlacesOf(s, R) : t[f[k]] = s[k]
    /\ \A j, k \in PlacesOf(s, R) : j < k => f[j] < f[k]
    /\ \A m \in PlacesOf(t, R) : \E k \in PlacesOf(s, R) : f[k] = m
--------------------------------------------------------------------------------
(* The inductive invariant of the walk.                                           *)

\* The lists are those of the program but for builtins and what calls have become.
ListsKept ==
  \A l \in DOMAIN list :
    /\ list[l] \in Seq(ToSet(list[l]))
    /\ \A st \in ToSet(list[l]) :
         st.kind \in {"builtin", "assigned"} \/ st \in StatementsOf(program)

\* No list is walked twice at a time,
WalkedOnce == \A j, k \in DOMAIN stack : stack[j].l = stack[k].l => j = k

\* none that is nested in what a walk still has before it,
NotAhead ==
  \A j, k \in DOMAIN stack : \A m \in DOMAIN list[stack[j].l] :
    stack[j].i # 0 /\ m >= stack[j].i => stack[k].l \notin Nested(list[stack[j].l][m])

\* and none without the one it is nested in.
WalkedWithin ==
  \A k \in DOMAIN stack, l \in DOMAIN list : \A m \in DOMAIN list[l] :
    stack[k].l \in Nested(list[l][m]) => \E j \in DOMAIN stack : j > k /\ stack[j].l = l

WalkInv == /\ program \in Programs
           /\ WalkTypeOK
           /\ stack \in Seq([l : DOMAIN list, i : Nat])
           /\ ListsKept
           /\ NestedOnce(list)
           /\ WalkedOnce
           /\ NotAhead
           /\ WalkedWithin
--------------------------------------------------------------------------------
(* The dummies and their calls while the lists are edited: what DummiesEmbedded   *)
(* says of the source stays true of the dummies that are left.                    *)

IsDummy(st) == st.kind = "dummy" /\ st.unit # NoUnit
Between == {Other, Nest(<<>>)}

\* From place i on comes a call without a pragma of its own.
CallAhead(s, i) ==
  \E n \in i .. Len(s) : /\ s[n].kind = "call" /\ s[n].attr = NoUnit
                         /\ \A m \in i .. n - 1 : s[m] \in Between

\* Place i is behind a dummy and not behind its call.
InSpan(s, i) == \E k \in 1 .. i - 1 : IsDummy(s[k]) /\ \A m \in k + 1 .. i - 1 : s[m] \in Between

\* The dummies that are left have their calls, and no other list than those of the
\* source begins with one.
ListsEmbedded ==
  \A l \in DOMAIN list :
    /\ \A k \in DOMAIN list[l] : IsDummy(list[l][k]) => CallAhead(list[l], k + 1)
    /\ list[l] # <<>> /\ list[l][1].kind = "dummy" =>
         program.lists[l] # <<>> /\ program.lists[l][1] = list[l][1]

\* Walk k is not between a dummy and its call.
Clear(k) == stack[k].i # 0 => ~InSpan(list[stack[k].l], stack[k].i)
OuterClear == \A k \in DOMAIN stack : k # 1 => Clear(k)
Spanned == stack # <<>> /\ ~Clear(1)

\* The innermost walk comes to the call of a dummy that has been taken out.
Waiting == stack # <<>> /\ I # 0 /\ CallAhead(list[L], I) /\ Clear(1)

SourceEmbedded == \A l \in DOMAIN program.lists : DummiesEmbedded(program.lists[l])
================================================================================
