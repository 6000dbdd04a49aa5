------------------------------ MODULE OmpSections ------------------------------
(* What "#pragma omp sections" promises: the sections of a construct run        *)
(* independently of each other, the statements of one section in the order      *)
(* that section prescribes, and the construct ends when all of them have ended. *)
(* fpga_omp_sections_opt (gcc/fpga.c) replaces the construct by one statement   *)
(* list; MolenRun shows that executing this list is one of the behaviours       *)
(* allowed here.                                                                *)
EXTENDS MolenCode

VARIABLES
  code,   \* the construct
  pc      \* next statement of each section; Len + 1 when it has ended

vars == <<code, pc>>

\* Where control may be after statement k of a section.
Succ(body, k) ==
  (IF body[k].op = "goto" THEN {} ELSE {k + 1})
    \cup (IF Jumps(body[k]) THEN LabelAt(body, body[k].lab) ELSE {})

Init == /\ code \in Programs
        /\ pc = [s \in Section |-> 1]

\* One section executes its next statement.
Step(s) == /\ pc[s] \in 1 .. Len(code[s])
           /\ \E k \in Succ(code[s], pc[s]) : pc' = [pc EXCEPT ![s] = k]
           /\ UNCHANGED code

Next == \E s \in Section : Step(s)

Spec == Init /\ [][Next]_vars
================================================================================
