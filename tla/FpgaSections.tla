------------------------------ MODULE FpgaSections ------------------------------
(* The pass fpga_parallel_optimisation (gcc/fpga.c) on one OMP_SECTIONS:        *)
(* fpga_omp_sections_opt_1 empties the sections into the enclosing statement    *)
(* list, first, section by section, the statements before the last molen_BREAK, *)
(* then the rest. One processor starts all the kernels before it waits for the  *)
(* first of them.                                                               *)
(*                                                                              *)
(* A statement is named by where it stood: <<s, k>> is statement k of section s.*)
(* Statements only ever leave a section from its head, so what is left of       *)
(* section s is code[s] without its first taken[s] statements.                  *)
EXTENDS Integers, MolenCode

VARIABLES
  code,       \* the construct the pass was given
  out,        \* what has been linked before insert_pos
  taken,      \* statements delinked from each section
  phase,      \* "scan", "hoist": first loop; "drain": second; "run": returned
  sec,        \* the section the outer loop is at
  cnt,        \* cnt of the scan for the last BREAK
  lastBreak   \* last_break

passVars == <<code, out, taken, phase, sec, cnt, lastBreak>>

Init == /\ code \in Programs
        /\ out = <<>>
        /\ taken = [s \in Section |-> 0]
        /\ phase = "scan"
        /\ sec = 1
        /\ cnt = 0
        /\ lastBreak = -1

\* Mutants of Seen: labels and gotos ignored, cnt advanced before last_break is set.
SeenNoReset(st, last) == IF st.op = "break" THEN cnt ELSE last
SeenLate(st, last) == IF st.op \in {"label", "goto"} THEN -1
                      ELSE IF st.op = "break" THEN cnt + 1
                      ELSE last

\* Where last_break is after the statement of index cnt (counted from 0).
Seen(st, last) == IF st.op \in {"label", "goto"} THEN -1
                  ELSE IF st.op = "break" THEN cnt
                  ELSE last

\* The search for the last BREAK looks at one statement.
Scan == /\ phase = "scan"
        /\ cnt < Len(code[sec])
        /\ lastBreak' = Seen(code[sec][cnt + 1], lastBreak)
        /\ cnt' = cnt + 1
        /\ UNCHANGED <<code, out, taken, phase, sec>>

ScanEnd == /\ phase = "scan"
           /\ cnt = Len(code[sec])
           /\ phase' = "hoist"
           /\ UNCHANGED <<code, out, taken, sec, cnt, lastBreak>>

\* Mutants of Move: linked before the list; delinked, then linked.
MoveFront == /\ out' = << <<sec, taken[sec] + 1>> >> \o out
             /\ taken' = [taken EXCEPT ![sec] = @ + 1]
             /\ UNCHANGED <<code, phase, sec, cnt, lastBreak>>
MoveDelinked == /\ out' = Append(out, <<sec, taken[sec] + 2>>)
                /\ taken' = [taken EXCEPT ![sec] = @ + 1]
                /\ UNCHANGED <<code, phase, sec, cnt, lastBreak>>

\* tsi_link_before (insert_pos) and tsi_delink of the head of section sec.
Move == /\ out' = Append(out, <<sec, taken[sec] + 1>>)
        /\ taken' = [taken EXCEPT ![sec] = @ + 1]
        /\ UNCHANGED <<code, phase, sec, cnt, lastBreak>>

Hoist == /\ phase = "hoist"
         /\ taken[sec] < Len(code[sec])
         /\ taken[sec] # lastBreak
         /\ Move

\* On to the next section, or to the second loop.
HoistEnd == /\ phase = "hoist"
            /\ taken[sec] \in {lastBreak, Len(code[sec])}
            /\ IF sec < NS THEN phase' = "scan" /\ sec' = sec + 1
                           ELSE phase' = "drain" /\ sec' = 1
            /\ cnt' = 0
            /\ lastBreak' = -1
            /\ UNCHANGED <<code, out, taken>>

Drain == /\ phase = "drain"
         /\ taken[sec] < Len(code[sec])
         /\ Move

\* Mutants of DrainEnd: the rest of a section may be left, the outer loop has no end,
\* the OMP_SECTIONS is not delinked and found again.
DrainEndEarly == /\ phase = "drain"
                 /\ IF sec < NS THEN phase' = phase /\ sec' = sec + 1
                                ELSE phase' = "run" /\ sec' = sec
                 /\ UNCHANGED <<code, out, taken, cnt, lastBreak>>
DrainEndNoBound == /\ phase = "drain"
                   /\ taken[sec] = Len(code[sec])
                   /\ sec' = sec + 1
                   /\ UNCHANGED <<code, out, taken, phase, cnt, lastBreak>>
DrainEndAgain == /\ phase = "drain"
                 /\ taken[sec] = Len(code[sec])
                 /\ sec' = IF sec < NS THEN sec + 1 ELSE 1
                 /\ UNCHANGED <<code, out, taken, phase, cnt, lastBreak>>

\* After the last section fpga_omp_sections_opt delinks the OMP_SECTIONS.
DrainEnd == /\ phase = "drain"
            /\ taken[sec] = Len(code[sec])
            /\ IF sec < NS THEN phase' = phase /\ sec' = sec + 1
                           ELSE phase' = "run" /\ sec' = sec
            /\ UNCHANGED <<code, out, taken, cnt, lastBreak>>

PassNext == Scan \/ ScanEnd \/ Hoist \/ HoistEnd \/ Drain \/ DrainEnd

PassSpec == Init /\ [][PassNext]_passVars

--------------------------------------------------------------------------------
\* The variables of the pass have the types of the C variables they stand for; sec
\* is a section of the construct, whatever way the loops go.
TypeOK == /\ code \in [Section -> Seq(Stmt)]
          /\ out \in Seq(Section \X Nat)
          /\ taken \in [Section -> Nat]
          /\ phase \in {"scan", "hoist", "drain", "run"}
          /\ sec \in Section
          /\ cnt \in Nat
          /\ lastBreak \in Int

\* The statements of a section appear in the list in the order of the section.
OrderKept ==
  \A i, j \in 1 .. Len(out) :
    i < j /\ out[i][1] = out[j][1] => out[i][2] < out[j][2]

\* A moved statement is in the list, and the list holds nothing else.
NothingLost ==
  /\ \A s \in Section : \A k \in 1 .. taken[s] :
       \E j \in 1 .. Len(out) : out[j] = <<s, k>>
  /\ \A j \in 1 .. Len(out) : out[j][2] \in 1 .. taken[out[j][1]]

StmtAt(j) == code[out[j][1]][out[j][2]]

\* Nothing of another section gets between a jump and its target, so that a jump
\* stays what it was, a move of control inside one section.
JumpsNotSplit ==
  \A i, j \in 1 .. Len(out) :
    LET s == out[i][1] IN
      /\ out[j][1] = s
      /\ Jumps(StmtAt(i))
      /\ out[j][2] \in LabelAt(code[s], StmtAt(i).lab)
      => \A m \in 1 .. Len(out) : (i < m /\ m < j) \/ (j < m /\ m < i) => out[m][1] = s

StraightLine(body) == \A k \in 1 .. Len(body) : body[k].op \notin {"label", "goto"}
BreakAfter(body, k) == \E l \in k + 1 .. Len(body) : body[l].op = "break"

\* The last BREAK of a section without control flow, and a start of a kernel in front
\* of one.
LastWait(i) == LET body == code[out[i][1]] IN
                 StraightLine(body) /\ StmtAt(i).op = "break" /\ ~BreakAfter(body, out[i][2])
EarlyStart(j) == LET body == code[out[j][1]] IN
                   StraightLine(body) /\ StmtAt(j).op = "exec" /\ BreakAfter(body, out[j][2])

\* All the kernels of sections without control flow are started before the
\* processor waits, at the last BREAK of such a section, for the first of them.
KernelsFirst ==
  phase = "run" => \A i, j \in 1 .. Len(out) : LastWait(i) /\ EarlyStart(j) => j < i

--------------------------------------------------------------------------------
(* The inductive invariant behind them.                                         *)

\* No control flow in a section from statement k on.
Quiet(s, k) == \A l \in k .. Len(code[s]) : code[s][l].op \notin {"label", "goto"}

\* Has the first loop dealt with section s?
Hoisted(s) == phase \in {"drain", "run"} \/ s < sec

\* How far the loops have come.
Progress ==
  /\ \A s \in Section : taken[s] \in 0 .. Len(code[s])
  /\ phase = "scan" => taken[sec] = 0 /\ cnt <= Len(code[sec])
  /\ phase \in {"scan", "hoist"} => \A s \in Section : s > sec => taken[s] = 0
  /\ phase = "hoist" => cnt = Len(code[sec])
  /\ phase = "drain" => \A s \in Section : s < sec => taken[s] = Len(code[s])
  /\ phase = "run" => \A s \in Section : taken[s] = Len(code[s])

\* What last_break tells: no control flow between that BREAK and the statement
\* the scan is at.
BreakFound ==
  phase \in {"scan", "hoist"} /\ lastBreak # -1 =>
    /\ lastBreak \in 0 .. cnt - 1
    /\ \A l \in lastBreak + 1 .. cnt : code[sec][l].op \notin {"label", "goto"}

\* A section the first loop has left is empty or holds no control flow.
SplitQuiet ==
  \A s \in Section : Hoisted(s) => taken[s] = Len(code[s]) \/ Quiet(s, taken[s] + 1)

\* What the first loop takes from a section it takes in one go.
HoistTogether ==
  phase = "hoist" =>
    \A i, m \in 1 .. Len(out) : i < m /\ out[i][1] = sec => out[m][1] = sec

\* Behind a gap in the statements of a section there is no control flow.
GapQuiet ==
  \A i, m, j \in 1 .. Len(out) :
    i < m /\ m < j /\ out[i][1] = out[j][1] /\ out[m][1] # out[i][1]
      => Quiet(out[j][1], out[j][2])

\* What the loops of fpga_omp_sections_opt_1 keep true, inductively.
PassInv == /\ Progress
           /\ OrderKept
           /\ NothingLost
           /\ BreakFound
           /\ SplitQuiet
           /\ HoistTogether
           /\ GapQuiet

\* In a section without control flow last_break is the last BREAK seen, if any, and the
\* first loop stops in front of it.
LastBreakExact ==
  phase \in {"scan", "hoist"} /\ StraightLine(code[sec]) =>
    IF lastBreak = -1
      THEN \A k \in 1 .. cnt : code[sec][k].op # "break"
      ELSE /\ code[sec][lastBreak + 1].op = "break"
           /\ \A k \in lastBreak + 2 .. cnt : code[sec][k].op # "break"
           /\ taken[sec] <= lastBreak

\* What the first loop leaves of a section without control flow holds its last BREAK
\* at the most, as the first statement.
KernelsTaken ==
  \A s \in Section : Hoisted(s) /\ StraightLine(code[s]) =>
    \A k \in taken[s] + 1 .. Len(code[s]) : ~BreakAfter(code[s], k)

\* The first loop moves no last BREAK, the second one no kernel before any of them.
WaitsLast ==
  \A i \in 1 .. Len(out) : LastWait(i) =>
    /\ phase \in {"drain", "run"}
    /\ \A j \in 1 .. Len(out) : EarlyStart(j) => j < i

\* With PassInv, what the loops keep true of the kernels.
KernelInv == LastBreakExact /\ KernelsTaken /\ WaitsLast
=================================================================================
