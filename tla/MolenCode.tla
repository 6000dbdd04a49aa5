-------------------------------- MODULE MolenCode --------------------------------
(* The statements an "omp sections" construct is made of once the pass          *)
(* fpga_replace_calls_tree (gcc/fpga.c) has replaced the calls of hardware       *)
(* functions. A section is a sequence of statements; the field "op" tells        *)
(*   "movet", "exec", "break", "movef"   the molen builtin on the unit "id"      *)
(*   "label"                             LABEL_EXPR of the label "lab"           *)
(*   "goto"                              GOTO_EXPR to "lab"                      *)
(*   "cond"                              COND_EXPR with an arm that jumps to     *)
(*                                       "lab"                                   *)
(*   "plain"                             any other statement                     *)
EXTENDS Naturals, Sequences

CONSTANTS
  NS,         \* number of sections of the construct
  Programs    \* the constructs considered: functions from sections to bodies

Section == 1 .. NS

Op == {"movet", "exec", "break", "movef", "label", "goto", "cond", "plain"}
Stmt == [op : Op, id : Nat, lab : Nat]

ASSUME NSAssumption == NS \in Nat \ {0}
ASSUME ProgramsAssumption == Programs \subseteq [Section -> Seq(Stmt)]

Jumps(st) == st.op \in {"goto", "cond"}

\* Where a section defines a label.
LabelAt(body, lab) == {k \in 1 .. Len(body) : body[k].op = "label" /\ body[k].lab = lab}

\* A jump the scan of fpga_omp_sections_opt_1 does not see, out of a COND_EXPR and
\* backwards, comes from a loop whose exit label follows it, as the C front end
\* builds every loop statement.
Structured(body) ==
  \A k \in 1 .. Len(body) : \A l \in LabelAt(body, body[k].lab) :
    body[k].op = "cond" /\ l < k => \E e \in k + 1 .. Len(body) : body[e].op = "label"
==================================================================================
