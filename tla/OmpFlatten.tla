------------------------------- MODULE OmpFlatten -------------------------------
(* The walk of the pass fpga_parallel_optimisation (gcc/fpga.c): fpga_omp_sections_opt *)
(* replaces, inner ones first, every OMP_SECTIONS by what fpga_omp_sections_opt_1     *)
(* makes of it (module FpgaSections, here one step) and every OMP_PARALLEL by its     *)
(* body. pass_lower_omp, which stands before this pass in passes.c and runs whenever  *)
(* there is an OpenMP construct, puts both into BIND_EXPRs the walk does not enter;   *)
(* "lowered" tells whether it did, or the walk is given the trees it is written for.  *)
(*                                                                                *)
(* A program is a sequence of statement lists, the first of them the function.    *)
(* A statement is                                                                 *)
(*   Leaf(op, n)    "break": molen_BREAK, "jump": LABEL_EXPR or GOTO_EXPR, "plain"; *)
(*                  n tells the leaves of a program apart                         *)
(*   Bind(ls)       a BIND_EXPR with the lists ls; one of the source has one list  *)
(*   Cond(a, b)     a COND_EXPR; 0 for an arm that is no list                     *)
(*   Parallel(l)    an OMP_PARALLEL, its body a BIND_EXPR with the list l          *)
(*   Sections(ls)   an OMP_SECTIONS with the bodies ls                            *)
(* A list of the source has a greater number than the list it is nested in.       *)
EXTENDS Integers, Sequences, FiniteSets, SequencesExt

CONSTANT Trees   \* the programs considered

\* The statements of a program of n lists.
Statements(n) == [kind : {"leaf"}, op : {"break", "jump", "plain"}, n : Nat]
                   \cup [kind : {"bind", "parallel", "sections"}, lists : Seq(1 .. n) \ {<<>>}]
                   \cup [kind : {"cond"}, lists : (0 .. n) \X (0 .. n)]

ASSUME TreesAssumption == \A t \in Trees : t # <<>> /\ t \in Seq(Seq(Statements(Len(t))))

Leaf(op, n) == [kind |-> "leaf", op |-> op, n |-> n]
Bind(ls) == [kind |-> "bind", lists |-> ls]
Cond(a, b) == [kind |-> "cond", lists |-> <<a, b>>]
Parallel(l) == [kind |-> "parallel", lists |-> <<l>>]
Sections(ls) == [kind |-> "sections", lists |-> ls]

VARIABLES
  source,    \* the program
  lowered,   \* pass_lower_omp has run
  list,      \* the statement lists as they are now
  stack      \* the calls of fpga_omp_sections_opt under way, innermost first: list,
             \* iterator, and whether the bodies of the statement there are done

vars == <<source, lowered, list, stack>>

--------------------------------------------------------------------------------
(* pass_lower_omp                                                                 *)

Constructs == {"parallel", "sections"}

\* A construct is put into a BIND_EXPR, whose list has a number of its own: behind the
\* lists of the program, by the first body of the construct.
Lowered(lists, st) ==
  IF st.kind \in Constructs THEN Bind(<<Len(lists) + Head(st.lists)>>) ELSE st

\* In it an OMP_PARALLEL keeps its body; the bodies of an OMP_SECTIONS come behind it, in
\* a BIND_EXPR, and it has none any more.
Wrapped(st) == IF st.kind = "sections" THEN <<Sections(<<>>), Bind(st.lists)>> ELSE <<st>>

\* The construct whose first body is list m.
ConstructsOf(lists, m) ==
  {st \in UNION {ToSet(lists[l]) : l \in DOMAIN lists} :
     st.kind \in Constructs /\ Head(st.lists) = m}

LowerOmp(lists) ==
  [l \in 1 .. 2 * Len(lists) |->
     IF l \in DOMAIN lists THEN [k \in DOMAIN lists[l] |-> Lowered(lists, lists[l][k])]
     ELSE LET of == ConstructsOf(lists, l - Len(lists)) IN
            IF of = {} THEN <<>> ELSE Wrapped(CHOOSE st \in of : TRUE)]

--------------------------------------------------------------------------------
Call(l) == [l |-> l, i |-> 1, done |-> FALSE]

Init == /\ source \in Trees
        /\ lowered \in BOOLEAN
        /\ list = IF lowered THEN LowerOmp(source) ELSE source
        /\ stack = <<Call(1)>>

L == Head(stack).l
I == Head(stack).i
At(kinds) == stack # <<>> /\ I <= Len(list[L]) /\ list[L][I].kind \in kinds
Stmt == list[L][I]

\* The calls for the lists ls come first, then the statement is gone on with at i.
Into(ls, i, done) ==
  stack' = [c \in 1 .. Len(ls) |-> Call(ls[c])] \o << [l |-> L, i |-> i, done |-> done] >>
             \o Tail(stack)

\* The default of the switch: the statement is passed over, a BIND_EXPR too. (Mutant: a
\* BIND_EXPR is walked.)
PassInto == /\ At({"leaf", "bind"})
            /\ Into(IF Stmt.kind = "bind" THEN Stmt.lists ELSE <<>>, I + 1, FALSE)
            /\ UNCHANGED <<source, lowered, list>>
Pass == /\ At({"leaf", "bind"})
        /\ Into(<<>>, I + 1, FALSE)
        /\ UNCHANGED <<source, lowered, list>>

\* Both arms; what is no list is not looked at. (Mutant: the else arm is forgotten.)
Arm(l) == IF l = 0 THEN <<>> ELSE <<l>>
ArmsThen(st) == Arm(st.lists[1])
Arms(st) == Arm(st.lists[1]) \o Arm(st.lists[2])

EnterCond == /\ At({"cond"})
             /\ Into(Arms(Stmt), I + 1, FALSE)
             /\ UNCHANGED <<source, lowered, list>>

\* Mutant: the statement is not left.
EnterAgain == /\ At({"parallel", "sections"})
              /\ ~Head(stack).done
              /\ Into(Stmt.lists, I, FALSE)
              /\ UNCHANGED <<source, lowered, list>>

Enter == /\ At({"parallel", "sections"})
         /\ ~Head(stack).done
         /\ Into(Stmt.lists, I, TRUE)
         /\ UNCHANGED <<source, lowered, list>>

\* The statements of a section in front of its last BREAK, when no label or goto
\* follows it: all of them when there is none.
Before(s) ==
  LET b == SelectLastInSeq(s, LAMBDA st : st.kind = "leaf" /\ st.op = "break") IN
    IF b = 0 \/ \E k \in b + 1 .. Len(s) : s[k].kind = "leaf" /\ s[k].op = "jump"
      THEN Len(s) ELSE b - 1

\* What the two loops of fpga_omp_sections_opt_1 link before insert_pos. (Mutants: the
\* second one, too, ends at the last BREAK; the two are swapped.)
FirstLoop(ls) == FlattenSeq([c \in DOMAIN ls |-> SubSeq(list[ls[c]], 1, Before(list[ls[c]]))])
SecondLoop(ls) ==
  FlattenSeq([c \in DOMAIN ls |->
                SubSeq(list[ls[c]], Before(list[ls[c]]) + 1, Len(list[ls[c]]))])
EmptiedEarly(ls) == FirstLoop(ls)
EmptiedSwapped(ls) == SecondLoop(ls) \o FirstLoop(ls)
Emptied(ls) == FirstLoop(ls) \o SecondLoop(ls)

\* The lists when new is linked before the statement and the statement taken out.
Spliced(new) ==
  [l \in DOMAIN list |->
     IF l = L THEN SubSeq(list[L], 1, I - 1) \o new \o SubSeq(list[L], I + 1, Len(list[L]))
     ELSE IF Stmt.kind = "sections" /\ l \in ToSet(Stmt.lists) THEN <<>>
     ELSE list[l]]

\* The iterator is behind new.
Splice(new) == /\ list' = Spliced(new)
               /\ Into(<<>>, I + Len(new), FALSE)
               /\ UNCHANGED <<source, lowered>>

LeaveSections == At({"sections"}) /\ Head(stack).done /\ Splice(Emptied(Stmt.lists))

\* tsi_link_before links the BIND_EXPR as one statement.
LeaveParallel == At({"parallel"}) /\ Head(stack).done /\ Splice(<<Bind(Stmt.lists)>>)

Return == /\ stack # <<>> /\ I > Len(list[L])
          /\ stack' = Tail(stack)
          /\ UNCHANGED <<source, lowered, list>>

Step == \/ Pass \/ EnterCond \/ Enter \/ LeaveSections \/ LeaveParallel \/ Return

\* The pass has returned.
Done == stack = <<>> /\ UNCHANGED vars

Next == Step \/ Done

Spec == Init /\ [][Next]_vars /\ WF_vars(Step)

--------------------------------------------------------------------------------
\* The leaves of the function in the order of the text.
LeavesOf(lists) ==
  LET from[l \in DOMAIN lists] ==
        FlattenSeq([k \in 1 .. Len(lists[l]) |->
          LET st == lists[l][k] IN
            IF st.kind = "leaf" THEN <<st>>
            ELSE FlattenSeq([c \in 1 .. Len(st.lists) |->
                               IF st.lists[c] = 0 THEN <<>> ELSE from[st.lists[c]]])])
  IN from[1]

\* The lists nested in list l, l included.
Within(lists, l) ==
  LET in[m \in DOMAIN lists] ==
        {m} \cup UNION {UNION {in[n] : n \in ToSet(lists[m][k].lists) \ {0}} :
                          k \in {j \in DOMAIN lists[m] : lists[m][j].kind # "leaf"}}
  IN in[l]

\* Every leaf of the program is in it exactly once, between any two steps.
LeavesKept ==
  /\ Len(LeavesOf(list)) = Len(LeavesOf(source))
  /\ ToSet(LeavesOf(list)) = ToSet(LeavesOf(source))

StatementsWithin(lists, l) == UNION {ToSet(lists[m]) : m \in Within(lists, l)}

\* Two leaves are of one section, or outside of the construct, wherever there is one.
Ordered(p, m, n) ==
  ~\E l \in DOMAIN p : \E k \in DOMAIN p[l] :
     /\ p[l][k].kind = "sections"
     /\ \E c, d \in DOMAIN p[l][k].lists :
          /\ c # d
          /\ m \in StatementsWithin(p, p[l][k].lists[c])
          /\ n \in StatementsWithin(p, p[l][k].lists[d])

\* Only leaves of two sections of one construct change their order.
OrderKept ==
  stack = <<>> =>
    LET old == LeavesOf(source)
        new == LeavesOf(list)
        at(x) == CHOOSE j \in DOMAIN new : new[j] = x IN
      \A i \in DOMAIN old : \A j \in i + 1 .. Len(old) :
        Ordered(source, old[i], old[j]) => at(old[i]) < at(old[j])

\* When the pass returns no construct is left in the function or in an arm of a
\* condition of it.
FlatWhereWalked ==
  stack = <<>> =>
    LET walked[l \in DOMAIN list] ==
          \A k \in DOMAIN list[l] :
            /\ list[l][k].kind \notin {"sections", "parallel"}
            /\ list[l][k].kind = "cond" =>
                 \A m \in ToSet(list[l][k].lists) \ {0} : walked[m]
    IN walked[1]

\* Behind pass_lower_omp the pass comes to no construct: the ones that are left stand in
\* BIND_EXPRs, and it changes nothing of the program.
NothingToDo == lowered => list = LowerOmp(source)

\* The walk ends.
Returns == <>(stack = <<>>)
================================================================================
