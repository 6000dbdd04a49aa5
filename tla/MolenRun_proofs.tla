----------------------------- MODULE MolenRun_proofs -----------------------------
(* Theorems about the pass of FpgaSections and about executing what it builds: for *)
(* every number of sections and every construct the pass keeps each section in    *)
(* order; executing its list is executing the sections (MolenRun implements       *)
(* OmpSections); and where a section waits for each kernel it starts and has units *)
(* of its own (OwnUnits) no unit is disturbed.                                    *)
EXTENDS MolenRun, TLAPS

--------------------------------------------------------------------------------
(* The pass.                                                                   *)

\* The variables of the pass keep their types: its counters and iterators stay in the
\* construct, for every construct.
LEMMA PassTyping == PassSpec => []TypeOK
<1>1. Init => TypeOK
  BY NSAssumption, ProgramsAssumption DEF Init, TypeOK, Section
<1>2. TypeOK /\ [PassNext]_passVars => TypeOK'
  <2> SUFFICES ASSUME TypeOK, [PassNext]_passVars PROVE TypeOK'
    OBVIOUS
  <2> USE NSAssumption DEF TypeOK
  <2>1. CASE Scan
    BY <2>1 DEF Scan, Seen
  <2>2. CASE ScanEnd
    BY <2>2 DEF ScanEnd
  <2>3. CASE Hoist
    BY <2>3 DEF Hoist, Move, Section
  <2>4. CASE HoistEnd
    BY <2>4, SMTT(30) DEF HoistEnd, Section
  <2>5. CASE Drain
    BY <2>5 DEF Drain, Move, Section
  <2>6. CASE DrainEnd
    BY <2>6, SMTT(30) DEF DrainEnd, Section
  <2>7. CASE UNCHANGED passVars
    BY <2>7 DEF passVars
  <2> QED
    BY <2>1, <2>2, <2>3, <2>4, <2>5, <2>6, <2>7 DEF PassNext
<1> QED
  BY <1>1, <1>2, PTL DEF PassSpec

\* Moving the head of section sec to the end of the list keeps the order and
\* loses nothing, whichever loop does it.
LEMMA MoveKeepsList ==
  ASSUME TypeOK, Progress, OrderKept, NothingLost, Move
  PROVE  OrderKept' /\ NothingLost'
<1>1. /\ Len(out) \in Nat
      /\ Len(out') = Len(out) + 1
      /\ \A i \in 1 .. Len(out) : out'[i] = out[i]
      /\ out'[Len(out) + 1] = <<sec, taken[sec] + 1>>
  BY DEF Section, TypeOK, Move
<1>2. \A j \in 1 .. Len(out) : out[j][1] \in Section /\ out[j][2] \in Nat
  BY DEF TypeOK
<1>3. /\ sec \in Section
      /\ \A s \in Section : taken[s] \in Nat
      /\ taken' = [taken EXCEPT ![sec] = @ + 1]
      /\ DOMAIN taken = Section
  BY DEF TypeOK, Move
<1>4. OrderKept'
  <2> SUFFICES ASSUME NEW i \in 1 .. Len(out'), NEW j \in 1 .. Len(out'),
                      i < j, out'[i][1] = out'[j][1]
               PROVE  out'[i][2] < out'[j][2]
    BY DEF OrderKept
  <2>1. CASE j \in 1 .. Len(out)
    BY <2>1, <1>1, i \in 1 .. Len(out) DEF OrderKept
  <2>2. CASE j = Len(out) + 1
    <3>1. i \in 1 .. Len(out) /\ out[i][1] = sec
      BY <2>2, <1>1
    <3>2. out[i][2] \in 1 .. taken[sec]
      BY <3>1 DEF NothingLost
    <3> QED
      BY <2>2, <3>1, <3>2, <1>1, <1>3
  <2> QED
    BY <2>1, <2>2, <1>1
<1>5. NothingLost'
  <2>1. ASSUME NEW s \in Section, NEW k \in 1 .. taken'[s]
        PROVE  \E j \in 1 .. Len(out') : out'[j] = <<s, k>>
    <3>1. CASE s = sec /\ k = taken[sec] + 1
      BY <3>1, <1>1, <1>3
    <3>2. CASE ~(s = sec /\ k = taken[sec] + 1)
      <4>1. k \in 1 .. taken[s]
        BY <3>2, <1>3
      <4>2. PICK j \in 1 .. Len(out) : out[j] = <<s, k>>
        BY <4>1 DEF NothingLost
      <4> QED
        BY <4>2, <1>1
    <3> QED
      BY <3>1, <3>2
  <2>2. ASSUME NEW j \in 1 .. Len(out')
        PROVE  out'[j][2] \in 1 .. taken'[out'[j][1]]
    <3>1. CASE j \in 1 .. Len(out)
      <4>1. out[j][2] \in 1 .. taken[out[j][1]] /\ out[j][1] \in Section
        BY <3>1, <1>2 DEF NothingLost
      <4>2. taken'[out[j][1]] \in Nat /\ taken[out[j][1]] <= taken'[out[j][1]]
        BY <4>1, <1>3
      <4>3. out'[j] = out[j]
        BY <3>1, <1>1
      <4> QED
        BY <4>1, <4>2, <4>3, <1>3
    <3>2. CASE j = Len(out) + 1
      BY <3>2, <1>1, <1>3
    <3> QED
      BY <3>1, <3>2, <1>1
  <2> QED
    BY <2>1, <2>2 DEF NothingLost
<1> QED
  BY <1>4, <1>5

\* What is said of the list alone stays true while it does.
LEMMA ListStays ==
  ASSUME UNCHANGED <<code, out, taken>>, OrderKept, NothingLost, GapQuiet
  PROVE  OrderKept' /\ NothingLost' /\ GapQuiet'
<1>1. OrderKept'
  BY DEF OrderKept
<1>2. NothingLost'
  BY DEF NothingLost
<1>3. GapQuiet'
  BY DEF GapQuiet, Quiet
<1> QED
  BY <1>1, <1>2, <1>3

\* The search for the last BREAK of a section keeps the invariant.
LEMMA ScanKeeps ==
  ASSUME TypeOK, PassInv, Scan
  PROVE  PassInv'
<1> USE DEF TypeOK, PassInv, Scan
<1>1. Progress'
  BY DEF Progress, Section
<1>2. BreakFound'
  <2>1. code[sec] \in Seq(Stmt) /\ cnt + 1 \in 1 .. Len(code[sec])
    OBVIOUS
  <2>2. CASE code[sec][cnt + 1].op \in {"label", "goto"}
    BY <2>2 DEF BreakFound, Seen
  <2>3. CASE code[sec][cnt + 1].op = "break"
    BY <2>1, <2>3 DEF BreakFound, Seen
  <2>4. CASE code[sec][cnt + 1].op \notin {"label", "goto", "break"}
    BY <2>1, <2>4 DEF BreakFound, Seen
  <2> QED
    BY <2>2, <2>3, <2>4
<1>3. SplitQuiet'
  BY DEF SplitQuiet, Hoisted, Quiet
<1>4. HoistTogether'
  BY DEF HoistTogether
<1>5. OrderKept' /\ NothingLost' /\ GapQuiet'
  BY ListStays
<1> QED
  BY <1>1, <1>2, <1>3, <1>4, <1>5

\* So does its end, where last_break is decided.
LEMMA ScanEndKeeps ==
  ASSUME TypeOK, PassInv, ScanEnd
  PROVE  PassInv'
<1> USE DEF TypeOK, PassInv, ScanEnd
<1>1. Progress'
  BY DEF Progress, Section
<1>2. BreakFound'
  BY DEF BreakFound
<1>3. SplitQuiet'
  BY DEF SplitQuiet, Hoisted, Quiet
<1>4. HoistTogether'
  <2>1. \A i \in 1 .. Len(out) : out[i][1] # sec
    BY DEF Progress, NothingLost
  <2> QED
    BY <2>1 DEF HoistTogether
<1>5. OrderKept' /\ NothingLost' /\ GapQuiet'
  BY ListStays
<1> QED
  BY <1>1, <1>2, <1>3, <1>4, <1>5

\* A statement leaves a section behind which there is no control flow, or joins
\* the statements of its section without a gap.
LEMMA MoveKeepsGaps ==
  ASSUME TypeOK, GapQuiet, Move,
         \/ Quiet(sec, taken[sec] + 1)
         \/ \A i, m \in 1 .. Len(out) : i < m /\ out[i][1] = sec => out[m][1] = sec
  PROVE  GapQuiet'
<1>1. /\ Len(out) \in Nat
      /\ Len(out') = Len(out) + 1
      /\ \A i \in 1 .. Len(out) : out'[i] = out[i]
      /\ out'[Len(out) + 1] = <<sec, taken[sec] + 1>>
      /\ code' = code
  BY DEF Section, TypeOK, Move
<1>2. SUFFICES ASSUME NEW i \in 1 .. Len(out'), NEW m \in 1 .. Len(out'),
                      NEW j \in 1 .. Len(out'), i < m, m < j,
                      out'[i][1] = out'[j][1], out'[m][1] # out'[i][1]
               PROVE  Quiet(out'[j][1], out'[j][2])
  BY <1>1 DEF GapQuiet, Quiet
<1>3. i \in 1 .. Len(out) /\ m \in 1 .. Len(out)
  BY <1>1, <1>2
<1>4. CASE j \in 1 .. Len(out)
  BY <1>1, <1>2, <1>3, <1>4 DEF GapQuiet
<1>5. CASE j = Len(out) + 1
  BY <1>1, <1>2, <1>3, <1>5
<1> QED
  BY <1>1, <1>4, <1>5

\* The first loop keeps the invariant while it empties a section,
LEMMA HoistKeeps ==
  ASSUME TypeOK, PassInv, Hoist
  PROVE  PassInv'
<1> USE DEF TypeOK, PassInv, Hoist
<1>1. OrderKept' /\ NothingLost'
  BY MoveKeepsList
<1>2. Progress'
  <2>1. taken[sec] + 1 \in 0 .. Len(code[sec])
    BY DEF Progress
  <2> QED
    BY <2>1 DEF Progress, Move, Section
<1>3. BreakFound'
  BY DEF BreakFound, Move
<1>4. SplitQuiet'
  BY DEF SplitQuiet, Hoisted, Quiet, Move, Section
<1>5. HoistTogether'
  <2>1. Len(out') = Len(out) + 1 /\ \A i \in 1 .. Len(out) : out'[i] = out[i]
    BY DEF Move
  <2>2. out'[Len(out) + 1][1] = sec
    BY DEF Move, Section
  <2>3. SUFFICES ASSUME NEW i \in 1 .. Len(out'), NEW m \in 1 .. Len(out'),
                        i < m, out'[i][1] = sec
                 PROVE  out'[m][1] = sec
    BY DEF HoistTogether, Move
  <2>4. CASE m \in 1 .. Len(out)
    BY <2>1, <2>3, <2>4, i \in 1 .. Len(out) DEF HoistTogether
  <2>5. CASE m = Len(out) + 1
    BY <2>2, <2>5
  <2> QED
    BY <2>1, <2>4, <2>5
<1>6. GapQuiet'
  BY MoveKeepsGaps DEF HoistTogether
<1> QED
  BY <1>1, <1>2, <1>3, <1>4, <1>5, <1>6

\* and when it stops at the last BREAK and goes on to the next section.
LEMMA HoistEndKeeps ==
  ASSUME TypeOK, PassInv, HoistEnd
  PROVE  PassInv'
<1> USE NSAssumption DEF TypeOK, PassInv, HoistEnd
<1>1. OrderKept' /\ NothingLost' /\ GapQuiet'
  BY ListStays
<1>2. Progress'
  BY DEF Progress, Section
<1>3. BreakFound'
  BY DEF BreakFound
<1>4. SplitQuiet'
  <2>1. taken[sec] = Len(code[sec]) \/ Quiet(sec, taken[sec] + 1)
    BY DEF BreakFound, Progress, Quiet
  <2>2. \A s \in Section : Hoisted(s)' => Hoisted(s) \/ s = sec
    BY DEF Hoisted, Section
  <2>3. \A s \in Section, k \in Nat : Quiet(s, k)' <=> Quiet(s, k)
    BY DEF Quiet
  <2> QED
    BY <2>1, <2>2, <2>3 DEF SplitQuiet
<1>5. HoistTogether'
  BY DEF HoistTogether
<1> QED
  BY <1>1, <1>2, <1>3, <1>4, <1>5

\* The second loop keeps the invariant: a section it takes statements of has no
\* control flow left, or has not been split.
LEMMA DrainKeeps ==
  ASSUME TypeOK, PassInv, Drain
  PROVE  PassInv'
<1> USE DEF TypeOK, PassInv, Drain
<1>1. OrderKept' /\ NothingLost'
  BY MoveKeepsList
<1>2. Progress'
  <2>1. taken[sec] + 1 \in 0 .. Len(code[sec])
    BY DEF Progress
  <2> QED
    BY <2>1 DEF Progress, Move, Section
<1>3. BreakFound'
  BY DEF BreakFound, Move
<1>4. Quiet(sec, taken[sec] + 1)
  BY DEF SplitQuiet, Hoisted
<1>5. SplitQuiet'
  <2>1. /\ \A s \in Section : s # sec => taken'[s] = taken[s]
        /\ taken'[sec] = taken[sec] + 1
        /\ \A s \in Section : taken[s] \in Nat /\ taken'[s] \in Nat
        /\ taken[sec] \in Nat
    BY DEF Move
  <2>2. Quiet(sec, taken'[sec] + 1)
    <3> HIDE DEF TypeOK, PassInv, Drain
    <3>1. \A n \in Nat : Quiet(sec, n) => Quiet(sec, n + 1)
      BY DEF Quiet
    <3>2. taken[sec] + 1 \in Nat
      BY <2>1
    <3> QED
      BY <1>4, <2>1, <3>1, <3>2
  <2>3. UNCHANGED <<code, phase, sec>> /\ phase = "drain"
    BY DEF Move
  <2>4. ASSUME NEW s \in Section
        PROVE  taken'[s] = Len(code[s]) \/ Quiet(s, taken'[s] + 1)
    <3>1. CASE s = sec
      BY <2>2, <3>1
    <3>2. CASE s # sec
      <4>1. taken[s] = Len(code[s]) \/ Quiet(s, taken[s] + 1)
        BY <2>3 DEF SplitQuiet, Hoisted
      <4> QED
        BY <2>1, <3>2, <4>1
    <3> QED
      BY <3>1, <3>2
  <2> QED
    BY <2>3, <2>4 DEF SplitQuiet, Quiet
<1>6. HoistTogether'
  BY DEF HoistTogether, Move
<1>7. GapQuiet'
  BY <1>4, MoveKeepsGaps
<1> QED
  BY <1>1, <1>2, <1>3, <1>5, <1>6, <1>7

\* It keeps it when it goes on to the next section or ends.
LEMMA DrainEndKeeps ==
  ASSUME TypeOK, PassInv, DrainEnd
  PROVE  PassInv'
<1> USE NSAssumption DEF TypeOK, PassInv, DrainEnd
<1>1. OrderKept' /\ NothingLost' /\ GapQuiet'
  BY ListStays
<1>2. Progress'
  <2>1. \A s \in Section : s <= sec => taken[s] = Len(code[s])
    BY DEF Progress, Section
  <2>2. CASE sec < NS
    BY <2>1, <2>2 DEF Progress, Section
  <2>3. CASE ~(sec < NS)
    <3>1. \A s \in Section : s <= sec
      BY <2>3 DEF Section
    <3> QED
      BY <2>1, <2>3, <3>1 DEF Progress
  <2> QED
    BY <2>2, <2>3
<1>3. BreakFound'
  BY DEF BreakFound
<1>4. SplitQuiet'
  BY DEF SplitQuiet, Hoisted, Quiet
<1>5. HoistTogether'
  BY DEF HoistTogether
<1> QED
  BY <1>1, <1>2, <1>3, <1>4, <1>5

\* The pass keeps the order of every section, loses and repeats no statement, and
\* takes a section apart only where no control flow follows.
THEOREM PassInvariant == PassSpec => []PassInv
<1>1. Init => PassInv
  <2> SUFFICES ASSUME Init PROVE PassInv
    OBVIOUS
  <2> USE NSAssumption, ProgramsAssumption DEF Init
  <2>1. Progress
    BY DEF Progress, Section
  <2>2. OrderKept /\ NothingLost
    BY DEF OrderKept, NothingLost
  <2>3. BreakFound /\ HoistTogether
    BY DEF BreakFound, HoistTogether
  <2>4. SplitQuiet /\ GapQuiet
    BY DEF SplitQuiet, GapQuiet, Hoisted, Section
  <2> QED
    BY <2>1, <2>2, <2>3, <2>4 DEF PassInv
<1>2. TypeOK /\ PassInv /\ [PassNext]_passVars => PassInv'
  <2>1. ASSUME TypeOK, PassInv, UNCHANGED passVars PROVE PassInv'
    <3> USE DEF PassInv, passVars
    <3>1. OrderKept' /\ NothingLost' /\ GapQuiet'
      BY <2>1, ListStays
    <3>2. Progress' /\ BreakFound' /\ HoistTogether'
      BY <2>1 DEF Progress, BreakFound, HoistTogether
    <3>3. SplitQuiet'
      BY <2>1 DEF SplitQuiet, Hoisted, Quiet
    <3> QED
      BY <3>1, <3>2, <3>3
  <2> QED
    BY <2>1, ScanKeeps, ScanEndKeeps, HoistKeeps, HoistEndKeeps, DrainKeeps, DrainEndKeeps
    DEF PassNext
<1> QED
  BY <1>1, <1>2, PassTyping, PTL DEF PassSpec

\* For every construct and number of sections, each section's statements keep
\* their order in the list the sections are emptied into.
THEOREM PassKeepsOrder == PassSpec => []OrderKept
BY PassInvariant, PTL DEF PassInv

\* Every statement taken out of a section is in that list, and nothing else is.
THEOREM PassLosesNothing == PassSpec => []NothingLost
BY PassInvariant, PTL DEF PassInv

\* Where loops have an exit label, a jump and its target stay together.
THEOREM PassKeepsJumps ==
  ASSUME \A c \in Programs : \A s \in Section : Structured(c[s])
  PROVE  PassSpec => []JumpsNotSplit
<1>1. PassSpec => [](\A s \in Section : Structured(code[s]))
  <2>1. Init => \A s \in Section : Structured(code[s])
    BY DEF Init
  <2>2. (\A s \in Section : Structured(code[s])) /\ [PassNext]_passVars
          => (\A s \in Section : Structured(code[s]))'
    BY DEF PassNext, passVars, Scan, ScanEnd, Hoist, HoistEnd, Drain, DrainEnd, Move
  <2> QED
    BY <2>1, <2>2, PTL DEF PassSpec
<1>2. TypeOK /\ PassInv /\ (\A s \in Section : Structured(code[s])) => JumpsNotSplit
  <2> SUFFICES ASSUME TypeOK, PassInv, \A s \in Section : Structured(code[s]),
                      NEW i \in 1 .. Len(out), NEW j \in 1 .. Len(out),
                      out[j][1] = out[i][1],
                      Jumps(StmtAt(i)),
                      out[j][2] \in LabelAt(code[out[i][1]], StmtAt(i).lab),
                      NEW m \in 1 .. Len(out),
                      (i < m /\ m < j) \/ (j < m /\ m < i),
                      out[m][1] # out[i][1]
               PROVE  FALSE
    BY DEF JumpsNotSplit
  <2> DEFINE s == out[i][1]
             k == out[i][2]
             l == out[j][2]
  <2>1. /\ s \in Section
        /\ k \in 1 .. Len(code[s]) /\ l \in 1 .. Len(code[s])
        /\ Len(code[s]) \in Nat
    <3>1. s \in Section /\ code[s] \in Seq(Stmt)
      <4>1. out \in Seq(Section \X Nat) /\ i \in 1 .. Len(out)
        BY DEF TypeOK
      <4>2. out[i] \in Section \X Nat
        BY <4>1
      <4>3. out[i][1] \in Section
        BY <4>2
      <4> QED
        BY <4>3 DEF TypeOK
    <3>2. k \in 1 .. taken[s] /\ l \in 1 .. taken[s]
      <4>1. /\ out[i][2] \in 1 .. taken[out[i][1]]
            /\ out[j][2] \in 1 .. taken[out[j][1]]
        BY DEF PassInv, NothingLost
      <4>2. out[j][1] = out[i][1]
        OBVIOUS
      <4> QED
        BY <4>1, <4>2
    <3>3. taken[s] \in 0 .. Len(code[s])
      BY <3>1 DEF PassInv, Progress
    <3>4. Len(code[s]) \in Nat
      BY <3>1
    <3> HIDE DEF s, k, l
    <3> QED
      BY <3>1, <3>2, <3>3, <3>4
  <2>2. code[s][l].op = "label"
    BY DEF LabelAt
  <2>3. CASE i < m /\ m < j
    <3>1. Quiet(s, l)
      BY <2>3 DEF PassInv, GapQuiet
    <3> QED
      BY <3>1, <2>1, <2>2 DEF Quiet
  <2>4. CASE j < m /\ m < i
    <3>1. Quiet(s, k)
      BY <2>4 DEF PassInv, GapQuiet
    <3>2. code[s][k].op = "cond"
      BY <3>1, <2>1 DEF Quiet, Jumps, StmtAt
    <3>3. l < k
      BY <2>4 DEF PassInv, OrderKept
    <3>4. PICK e \in k + 1 .. Len(code[s]) : code[s][e].op = "label"
      BY <2>1, <3>2, <3>3 DEF Structured, StmtAt
    <3> QED
      BY <3>1, <3>4, <2>1 DEF Quiet
  <2> QED
    BY <2>3, <2>4
<1> QED
  BY <1>1, <1>2, PassTyping, PassInvariant, PTL

\* What is said of the positions of the list does not depend on what is behind them.
LEMMA MoveKeepsPositions ==
  ASSUME TypeOK, Progress, NothingLost, Move
  PROVE  /\ Len(out) \in Nat
         /\ Len(out') = Len(out) + 1
         /\ out'[Len(out) + 1] = <<sec, taken[sec] + 1>>
         /\ \A i \in 1 .. Len(out) : /\ out'[i] = out[i]
                                     /\ LastWait(i)' <=> LastWait(i)
                                     /\ EarlyStart(i)' <=> EarlyStart(i)
<1>1. /\ Len(out) \in Nat
      /\ Len(out') = Len(out) + 1
      /\ \A i \in 1 .. Len(out) : out'[i] = out[i]
      /\ out'[Len(out) + 1] = <<sec, taken[sec] + 1>>
      /\ code' = code
  BY DEF Section, TypeOK, Move
<1>2. ASSUME NEW i \in 1 .. Len(out)
      PROVE  (LastWait(i)' <=> LastWait(i)) /\ (EarlyStart(i)' <=> EarlyStart(i))
  BY <1>1 DEF LastWait, EarlyStart, StmtAt, StraightLine, BreakAfter
<1> QED
  BY <1>1, <1>2

\* While the construct and the list stay, so does what is said of the list.
LEMMA PositionsStay ==
  ASSUME UNCHANGED <<code, out>>
  PROVE  /\ \A i : (LastWait(i)' <=> LastWait(i)) /\ (EarlyStart(i)' <=> EarlyStart(i))
         /\ \A s, k : BreakAfter(code[s], k)' <=> BreakAfter(code[s], k)
         /\ \A s : StraightLine(code[s])' <=> StraightLine(code[s])
BY DEF LastWait, EarlyStart, StmtAt, StraightLine, BreakAfter

\* The search keeps what is said of the kernels: last_break follows the BREAKs,
LEMMA ScanKeepsKernels ==
  ASSUME TypeOK, PassInv, KernelInv, Scan
  PROVE  KernelInv'
<1> USE DEF TypeOK, Scan
<1>1. KernelsTaken' /\ WaitsLast'
  BY PositionsStay DEF KernelInv, KernelsTaken, WaitsLast, Hoisted
<1>2. LastBreakExact'
  <2>1. SUFFICES ASSUME StraightLine(code[sec]) PROVE LastBreakExact'
    BY PositionsStay DEF LastBreakExact
  <2>2. /\ cnt + 1 \in 1 .. Len(code[sec]) /\ taken[sec] = 0
        /\ code[sec][cnt + 1].op \notin {"label", "goto"}
    BY <2>1 DEF StraightLine, PassInv, Progress
  <2>3. CASE code[sec][cnt + 1].op = "break"
    BY <2>2, <2>3 DEF Seen, LastBreakExact
  <2>4. CASE code[sec][cnt + 1].op # "break"
    <3>1. lastBreak' = lastBreak
      BY <2>2, <2>4 DEF Seen
    <3>2. CASE lastBreak = -1
      BY <2>1, <2>2, <2>4, <3>1, <3>2, SMTT(30) DEF LastBreakExact, KernelInv
    <3>3. CASE lastBreak # -1
      BY <2>1, <2>2, <2>4, <3>1, <3>3 DEF LastBreakExact, KernelInv, PassInv, BreakFound
    <3> QED BY <3>2, <3>3
  <2> QED
    BY <2>3, <2>4
<1> QED
  BY <1>1, <1>2 DEF KernelInv

\* the first loop moves the kernels and not the last BREAK,
LEMMA HoistKeepsKernels ==
  ASSUME TypeOK, PassInv, KernelInv, Hoist
  PROVE  KernelInv'
<1> USE DEF TypeOK, Hoist
<1> DEFINE k == taken[sec] + 1
<1>1. /\ sec \in Section /\ k \in 1 .. Len(code[sec]) /\ cnt = Len(code[sec])
      /\ Len(code[sec]) \in Nat
  BY DEF PassInv, Progress
<1>2. UNCHANGED <<code, phase, sec, cnt, lastBreak>> /\ taken' = [taken EXCEPT ![sec] = k]
  BY DEF Move
<1>3. LastBreakExact'
  BY <1>1, <1>2 DEF LastBreakExact, KernelInv, StraightLine
<1>4. KernelsTaken'
  <2>1. \A s \in Section : taken[s] \in Nat /\ taken'[s] \in Nat /\ taken[s] <= taken'[s]
    BY <1>1, <1>2
  <2>2. SUFFICES ASSUME NEW s \in Section, Hoisted(s), StraightLine(code[s]),
                        NEW l \in taken'[s] + 1 .. Len(code[s])
                 PROVE  ~BreakAfter(code[s], l)
    BY <1>2, ZenonT(30) DEF KernelsTaken, Hoisted, StraightLine, BreakAfter
  <2>3. l \in taken[s] + 1 .. Len(code[s])
    BY <2>1, Len(code[s]) \in Nat
  <2> QED
    BY <2>2, <2>3 DEF KernelsTaken, KernelInv
<1>5. StraightLine(code[sec]) => code[sec][k].op # "break" \/ BreakAfter(code[sec], k)
  <2>1. SUFFICES ASSUME StraightLine(code[sec]), code[sec][k].op = "break"
                 PROVE  BreakAfter(code[sec], k)
    OBVIOUS
  <2>2. lastBreak # -1
    BY <1>1, <2>1 DEF LastBreakExact, KernelInv
  <2>3. lastBreak + 1 \in k + 1 .. Len(code[sec]) /\ code[sec][lastBreak + 1].op = "break"
    BY <1>1, <2>1, <2>2 DEF LastBreakExact, KernelInv, PassInv, BreakFound
  <2> QED
    BY <2>3 DEF BreakAfter
<1>6. ASSUME NEW i \in 1 .. Len(out') PROVE ~LastWait(i)'
  <2>1. CASE i \in 1 .. Len(out)
    BY <2>1, MoveKeepsPositions DEF KernelInv, WaitsLast, PassInv
  <2>2. CASE i = Len(out) + 1
    <3>1. out'[i] = <<sec, k>> /\ code' = code
      BY <2>2, MoveKeepsPositions, <1>2 DEF PassInv
    <3> QED
      BY <3>1, <1>5 DEF LastWait, StmtAt, StraightLine, BreakAfter
  <2> QED
    BY <2>1, <2>2, MoveKeepsPositions DEF PassInv
<1> QED
  BY <1>3, <1>4, <1>6 DEF KernelInv, WaitsLast

\* leaves no kernel in front of a BREAK behind when it stops,
LEMMA HoistEndKeepsKernels ==
  ASSUME TypeOK, PassInv, KernelInv, HoistEnd
  PROVE  KernelInv'
<1> USE NSAssumption DEF TypeOK, HoistEnd
<1>1. LastBreakExact'
  BY DEF LastBreakExact
<1>2. KernelsTaken'
  <2>1. StraightLine(code[sec]) =>
          \A k \in taken[sec] + 1 .. Len(code[sec]) : ~BreakAfter(code[sec], k)
    <3>1. SUFFICES ASSUME StraightLine(code[sec]), NEW k \in taken[sec] + 1 .. Len(code[sec])
                   PROVE  ~BreakAfter(code[sec], k)
      OBVIOUS
    <3>2. /\ cnt = Len(code[sec]) /\ taken[sec] \in 0 .. Len(code[sec])
          /\ taken[sec] = lastBreak \/ taken[sec] = Len(code[sec])
      BY DEF PassInv, Progress
    <3>3. lastBreak # -1 /\ taken[sec] = lastBreak
      BY <3>1, <3>2
    <3>4. \A l \in lastBreak + 2 .. Len(code[sec]) : code[sec][l].op # "break"
      BY <3>1, <3>2, <3>3 DEF LastBreakExact, KernelInv
    <3> QED
      BY <3>3, <3>4 DEF BreakAfter
  <2>2. \A s \in Section : Hoisted(s)' => Hoisted(s) \/ s = sec
    BY DEF Hoisted, Section
  <2> QED
    BY <2>1, <2>2, PositionsStay DEF KernelsTaken, KernelInv
<1>3. WaitsLast'
  BY PositionsStay DEF WaitsLast, KernelInv
<1> QED
  BY <1>1, <1>2, <1>3 DEF KernelInv

\* and the second loop has none to move.
LEMMA DrainKeepsKernels ==
  ASSUME TypeOK, PassInv, KernelInv, Drain
  PROVE  KernelInv'
<1> USE DEF TypeOK, Drain
<1> DEFINE k == taken[sec] + 1
<1>1. sec \in Section /\ k \in 1 .. Len(code[sec]) /\ Len(code[sec]) \in Nat
  BY DEF PassInv, Progress
<1>2. UNCHANGED <<code, phase, sec, cnt, lastBreak>> /\ taken' = [taken EXCEPT ![sec] = k]
  BY DEF Move
<1>3. LastBreakExact'
  BY <1>2 DEF LastBreakExact
<1>4. KernelsTaken'
  <2>1. \A s \in Section : taken[s] \in Nat /\ taken'[s] \in Nat /\ taken[s] <= taken'[s]
    BY <1>1, <1>2
  <2>2. SUFFICES ASSUME NEW s \in Section, Hoisted(s), StraightLine(code[s]),
                        NEW l \in taken'[s] + 1 .. Len(code[s])
                 PROVE  ~BreakAfter(code[s], l)
    BY <1>2, ZenonT(30) DEF KernelsTaken, Hoisted, StraightLine, BreakAfter
  <2>3. l \in taken[s] + 1 .. Len(code[s])
    BY <2>1, Len(code[s]) \in Nat
  <2> QED
    BY <2>2, <2>3 DEF KernelsTaken, KernelInv
<1>5. /\ Len(out) \in Nat /\ Len(out') = Len(out) + 1
      /\ out'[Len(out) + 1] = <<sec, taken[sec] + 1>>
      /\ \A i \in 1 .. Len(out) : (LastWait(i)' <=> LastWait(i)) /\ (EarlyStart(i)' <=> EarlyStart(i))
  BY MoveKeepsPositions DEF PassInv
<1>6. ASSUME NEW j \in {Len(out) + 1} PROVE ~EarlyStart(j)'
  <2>1. out'[j] = <<sec, k>> /\ code' = code
    BY <1>5, <1>2
  <2>2. StraightLine(code[sec]) => ~BreakAfter(code[sec], k)
    BY <1>1 DEF KernelsTaken, KernelInv, Hoisted
  <2> QED
    BY <2>1, <2>2 DEF EarlyStart, StraightLine, BreakAfter
<1>7. WaitsLast'
  <2>1. SUFFICES ASSUME NEW i \in 1 .. Len(out'), LastWait(i)',
                        NEW j \in 1 .. Len(out'), EarlyStart(j)'
                 PROVE  j < i
    BY <1>2 DEF WaitsLast
  <2>2. j \in 1 .. Len(out) /\ EarlyStart(j)
    <3>1. j # Len(out) + 1
      BY <1>6, <2>1
    <3>2. j \in 1 .. Len(out) + 1
      BY <1>5, <2>1, Zenon
    <3>3. j \in 1 .. Len(out)
      <4>1. \A n \in Nat : \A x \in 1 .. n + 1 : x # n + 1 => x \in 1 .. n
        OBVIOUS
      <4> QED
        BY <1>5, <3>1, <3>2, <4>1, Zenon
    <3> QED
      BY <1>5, <2>1, <3>3
  <2>3. CASE i \in 1 .. Len(out)
    <3>1. LastWait(i)
      BY <1>5, <2>1, <2>3
    <3> QED
      BY <2>2, <2>3, <3>1 DEF WaitsLast, KernelInv
  <2>4. CASE i = Len(out) + 1
    BY <1>5, <2>2, <2>4
  <2> QED
    BY <1>5, <2>3, <2>4
<1> QED
  BY <1>3, <1>4, <1>7 DEF KernelInv

\* For every construct: all the kernels of sections without control flow are started
\* before the processor waits at the last BREAK of such a section.
THEOREM PassStartsKernelsFirst == PassSpec => []KernelsFirst
<1>1. Init => KernelInv
  <2> SUFFICES ASSUME Init PROVE KernelInv
    OBVIOUS
  <2> USE DEF Init
  <2>1. LastBreakExact /\ WaitsLast
    BY DEF LastBreakExact, WaitsLast
  <2>2. KernelsTaken
    BY NSAssumption DEF KernelsTaken, Hoisted, Section
  <2> QED
    BY <2>1, <2>2 DEF KernelInv
<1>2. TypeOK /\ PassInv /\ KernelInv /\ [PassNext]_passVars => KernelInv'
  <2> SUFFICES ASSUME TypeOK, PassInv, KernelInv, [PassNext]_passVars PROVE KernelInv'
    OBVIOUS
  <2>1. CASE ScanEnd
    BY <2>1, PositionsStay
    DEF ScanEnd, KernelInv, LastBreakExact, KernelsTaken, WaitsLast, Hoisted
  <2>2. CASE DrainEnd
    BY <2>2, PositionsStay
    DEF DrainEnd, KernelInv, LastBreakExact, KernelsTaken, WaitsLast, Hoisted
  <2>3. CASE UNCHANGED passVars
    BY <2>3, PositionsStay
    DEF passVars, KernelInv, LastBreakExact, KernelsTaken, WaitsLast, Hoisted
  <2> QED
    BY <2>1, <2>2, <2>3, ScanKeepsKernels, HoistKeepsKernels, HoistEndKeepsKernels,
       DrainKeepsKernels
    DEF PassNext
<1>3. KernelInv => KernelsFirst
  BY DEF KernelInv, WaitsLast, KernelsFirst
<1> QED
  BY <1>1, <1>2, <1>3, PassTyping, PassInvariant, PTL DEF PassSpec

--------------------------------------------------------------------------------
(* The processor in the list the pass has built.                               *)

\* The processor and the units never change what the pass built.
LEMMA RunIsPass == RunSpec => PassSpec
<1>1. RunInit => Init
  BY DEF RunInit
<1>2. [RunNext]_vars => [PassNext]_passVars
  BY DEF RunNext, Host, KernelEnd, Return, vars
<1> QED
  BY <1>1, <1>2, PTL DEF RunSpec, PassSpec

\* Does the processor jump from where it is to statement j of the list?
JumpTo(j) == /\ Jumps(StmtAt(ip))
             /\ out[j][1] = out[ip][1]
             /\ out[j][2] \in LabelAt(code[out[ip][1]], StmtAt(ip).lab)
             /\ ip' = j

\* A step of the processor, for the order of the statements.
LEMMA HostStep ==
  ASSUME Host
  PROVE  /\ UNCHANGED passVars
         /\ phase = "run" /\ ip \in 1 .. Len(out)
         /\ \/ ip' = ip + 1 /\ StmtAt(ip).op # "goto"
            \/ \E j \in 1 .. Len(out) : JumpTo(j)
<1>1. UNCHANGED passVars
  BY DEF Host
<1>2. ASSUME NEW ops, At(ops)
      PROVE  phase = "run" /\ ip \in 1 .. Len(out) /\ StmtAt(ip).op \in ops
  BY <1>2 DEF At
<1>3. CASE Jump
  <2>1. At({"goto", "cond"})
    BY <1>3 DEF Jump
  <2>2. Jumps(StmtAt(ip))
    BY <2>1, <1>2 DEF Jumps
  <2> QED
    BY <1>1, <1>2, <1>3, <2>1, <2>2 DEF Jump, JumpTo
<1>4. CASE Skip
  BY <1>1, <1>2, <1>4 DEF Skip
<1>5. CASE MoveTo
  BY <1>1, <1>2, <1>5 DEF MoveTo
<1>6. CASE Execute
  BY <1>1, <1>2, <1>6 DEF Execute
<1>7. CASE Break
  BY <1>1, <1>2, <1>7 DEF Break
<1>8. CASE MoveFrom
  BY <1>1, <1>2, <1>8 DEF MoveFrom
<1> QED
  BY <1>3, <1>4, <1>5, <1>6, <1>7, <1>8 DEF Host

\* Where the processor may be.
IpInv == /\ ip \in 1 .. Len(out) + 1
         /\ phase # "run" => ip = 1

\* The processor stays in the list, and starts at its head.
LEMMA IpInvariant == RunSpec => []IpInv
<1>1. RunInit => IpInv
  BY DEF RunInit, Init, IpInv
<1>2. TypeOK /\ TypeOK' /\ IpInv /\ [RunNext]_vars => IpInv'
  <2> SUFFICES ASSUME TypeOK, TypeOK', IpInv, [RunNext]_vars PROVE IpInv'
    OBVIOUS
  <2>1. CASE PassNext /\ UNCHANGED runVars
    <3>1. phase # "run"
      BY <2>1 DEF PassNext, Scan, ScanEnd, Hoist, HoistEnd, Drain, DrainEnd
    <3>2. Len(out') \in Nat
      BY DEF TypeOK
    <3>3. ip' = 1
      BY <2>1, <3>1 DEF IpInv, runVars
    <3> QED
      BY <3>2, <3>3 DEF IpInv
  <2>2. CASE Host
    <3>1. UNCHANGED passVars /\ phase = "run" /\ ip \in 1 .. Len(out)
      BY <2>2, HostStep
    <3>2. ip' = ip + 1 \/ ip' \in 1 .. Len(out)
      BY <2>2, HostStep DEF JumpTo
    <3>3. Len(out) \in Nat
      BY DEF TypeOK
    <3> QED
      BY <3>1, <3>2, <3>3 DEF IpInv, passVars
  <2>3. CASE (\E u \in Unit : KernelEnd(u)) \/ Return \/ UNCHANGED vars
    BY <2>3 DEF KernelEnd, Return, vars, passVars, runVars, IpInv
  <2> QED
    BY <2>1, <2>2, <2>3 DEF RunNext
<1>3. RunSpec => []TypeOK
  BY RunIsPass, PassTyping, PTL
<1> QED
  BY <1>1, <1>2, <1>3, PTL DEF RunSpec

\* What the refinement mapping is made of: the statements of section s not before
\* j, the first of them, and the statement the section is at when the processor
\* is at j.
Left(s, j) == {i \in 1 .. Len(out) : j <= i /\ out[i][1] = s}
First(S) == CHOOSE j \in S : \A i \in S : j <= i
PcAt(s, j) == IF Left(s, j) = {} THEN Len(code[s]) + 1 ELSE out[First(Left(s, j))][2]

\* The refinement mapping, by the position of the processor.
LEMMA pcBarIs ==
  /\ phase # "run" => pcBar = [s \in Section |-> 1]
  /\ phase = "run" => pcBar = [s \in Section |-> PcAt(s, ip)]
BY DEF pcBar, Left, First, PcAt

\* The least of the positions left to a section is what CHOOSE finds.
LEMMA FirstIs ==
  ASSUME NEW S \in SUBSET Nat, NEW j \in S, \A i \in S : j <= i
  PROVE  First(S) = j
<1>1. ASSUME NEW k \in S, \A i \in S : k <= i PROVE k = j
  <2>1. k <= j /\ j <= k
    BY <1>1
  <2> QED
    BY <2>1
<1> QED
  BY <1>1 DEF First

\* The list when the pass has returned.
Built == TypeOK /\ PassInv /\ phase = "run"

\* What the invariants of the pass say of the finished list: it holds every statement
\* of every section once, in the order of the section.
LEMMA ListFacts ==
  ASSUME Built
  PROVE  /\ Len(out) \in Nat
         /\ \A s \in Section : Len(code[s]) \in Nat
         /\ \A i \in 1 .. Len(out) : /\ out[i][1] \in Section
                                    /\ out[i][2] \in 1 .. Len(code[out[i][1]])
         /\ \A s \in Section : \A k \in 1 .. Len(code[s]) :
              \E j \in 1 .. Len(out) : out[j] = <<s, k>>
<1>1. Len(out) \in Nat /\ \A s \in Section : Len(code[s]) \in Nat
  BY DEF Built, TypeOK
<1>2. \A i \in 1 .. Len(out) : out[i][1] \in Section
  BY DEF Built, TypeOK
<1>3. \A s \in Section : taken[s] = Len(code[s])
  BY DEF Built, PassInv, Progress
<1>4. \A i \in 1 .. Len(out) : out[i][2] \in 1 .. Len(code[out[i][1]])
  BY <1>2, <1>3 DEF Built, PassInv, NothingLost
<1>5. \A s \in Section : \A k \in 1 .. Len(code[s]) :
        \E j \in 1 .. Len(out) : out[j] = <<s, k>>
  BY <1>3 DEF Built, PassInv, NothingLost
<1> QED
  BY <1>1, <1>2, <1>4, <1>5

\* At a statement of section s, the section is at that statement.
LEMMA PcHere ==
  ASSUME Built, NEW i \in 1 .. Len(out)
  PROVE  PcAt(out[i][1], i) = out[i][2]
<1>1. i \in Left(out[i][1], i) /\ Left(out[i][1], i) \in SUBSET Nat
  BY ListFacts DEF Left
<1>2. \A j \in Left(out[i][1], i) : i <= j
  BY DEF Left
<1>3. First(Left(out[i][1], i)) = i
  BY <1>1, <1>2, FirstIs
<1> QED
  BY <1>1, <1>3 DEF PcAt

\* Behind it, the section is at the next.
LEMMA PcBehind ==
  ASSUME Built, NEW i \in 1 .. Len(out)
  PROVE  PcAt(out[i][1], i + 1) = out[i][2] + 1
<1> DEFINE s == out[i][1]
           k == out[i][2]
<1>1. s \in Section /\ k \in 1 .. Len(code[s]) /\ Len(code[s]) \in Nat /\ Len(out) \in Nat
  BY ListFacts
<1>2. \A j \in Left(s, i + 1) : k < out[j][2] /\ out[j][2] \in 1 .. Len(code[s])
  <2> SUFFICES ASSUME NEW j \in Left(s, i + 1)
               PROVE  k < out[j][2] /\ out[j][2] \in 1 .. Len(code[s])
    OBVIOUS
  <2>1. j \in 1 .. Len(out) /\ i < j /\ out[j][1] = s
    BY <1>1 DEF Left
  <2> QED
    BY <2>1, ListFacts DEF Built, PassInv, OrderKept
<1>3. CASE k = Len(code[s])
  <2>1. Left(s, i + 1) = {}
    BY <1>1, <1>2, <1>3
  <2> QED
    BY <2>1, <1>3 DEF PcAt
<1>4. CASE k # Len(code[s])
  <2>1. PICK j \in 1 .. Len(out) : out[j] = <<s, k + 1>>
    <3>1. k + 1 \in 1 .. Len(code[s])
      BY <1>1, <1>4
    <3> QED
      BY <3>1, <1>1, ListFacts
  <2>2. i < j
    <3>1. CASE j = i
      BY <3>1, <2>1, <1>1
    <3>2. CASE j < i
      BY <3>2, <2>1, <1>1 DEF Built, PassInv, OrderKept
    <3> QED
      BY <3>1, <3>2, <1>1
  <2>3. j \in Left(s, i + 1) /\ Left(s, i + 1) \in SUBSET Nat
    BY <2>1, <2>2, <1>1 DEF Left
  <2>4. ASSUME NEW m \in Left(s, i + 1) PROVE j <= m
    <3>1. m \in 1 .. Len(out) /\ out[m][1] = s /\ k < out[m][2] /\ out[m][2] \in Nat
      BY <1>1, <1>2 DEF Left
    <3>2. m < j => out[m][2] < k + 1
      BY <3>1, <2>1 DEF Built, PassInv, OrderKept
    <3> QED
      BY <3>1, <3>2, <1>1
  <2>5. First(Left(s, i + 1)) = j
    BY <2>3, <2>4, FirstIs
  <2> QED
    BY <2>1, <2>3, <2>5 DEF PcAt
<1> QED
  BY <1>3, <1>4

\* The other sections stay where they are while the processor goes from i to j
\* over no statement of theirs.
LEMMA PcElsewhere ==
  ASSUME Built, NEW i \in Nat, NEW j \in Nat, NEW s \in Section,
         \A m \in 1 .. Len(out) : (i <= m /\ m < j) \/ (j <= m /\ m < i) => out[m][1] # s
  PROVE  PcAt(s, i) = PcAt(s, j)
<1>1. Left(s, i) = Left(s, j)
  BY ListFacts DEF Left
<1> QED
  BY <1>1 DEF PcAt

\* Before the first statement of the list no section has begun.
LEMMA PcStart == Built => \A s \in Section : PcAt(s, 1) = 1
<1> SUFFICES ASSUME Built, NEW s \in Section PROVE PcAt(s, 1) = 1
  OBVIOUS
<1>1. CASE Len(code[s]) = 0
  <2>1. Left(s, 1) = {}
    BY <1>1, ListFacts DEF Left
  <2> QED
    BY <1>1, <2>1 DEF PcAt
<1>2. CASE Len(code[s]) # 0
  <2>1. PICK j \in 1 .. Len(out) : out[j] = <<s, 1>>
    <3>1. 1 \in 1 .. Len(code[s])
      BY <1>2, ListFacts
    <3> QED
      BY <3>1, ListFacts
  <2>2. j \in Left(s, 1) /\ Left(s, 1) \in SUBSET Nat
    BY <2>1, ListFacts DEF Left
  <2>3. ASSUME NEW m \in Left(s, 1) PROVE j <= m
    <3>1. m \in 1 .. Len(out) /\ out[m][1] = s /\ out[m][2] \in Nat /\ 1 <= out[m][2]
      BY ListFacts DEF Left
    <3>2. m < j => out[m][2] < 1
      BY <3>1, <2>1 DEF Built, PassInv, OrderKept
    <3> QED
      BY <3>1, <3>2, ListFacts
  <2>4. First(Left(s, 1)) = j
    BY <2>2, <2>3, FirstIs
  <2> QED
    BY <2>1, <2>2, <2>4 DEF PcAt
<1> QED
  BY <1>1, <1>2

\* Where a step of the processor takes the section of its statement: to the next
\* statement or to a label.
Goes(s, k, n) == \/ n = k + 1 /\ code[s][k].op # "goto"
                 \/ Jumps(code[s][k]) /\ n \in LabelAt(code[s], code[s][k].lab)

\* A step of the processor moves the section of its statement and no other.
LEMMA HostMoves ==
  ASSUME Built, JumpsNotSplit, Host,
         NEW s, s = out[ip][1], NEW k, k = out[ip][2]
  PROVE  /\ s \in Section /\ k \in 1 .. Len(code[s]) /\ StmtAt(ip) = code[s][k]
         /\ pcBar = [t \in Section |-> PcAt(t, ip)] /\ pcBar[s] = k
         /\ \E n : Goes(s, k, n) /\ pcBar' = [pcBar EXCEPT ![s] = n]
<1>1. UNCHANGED passVars /\ ip \in 1 .. Len(out)
  BY HostStep
<1>2. s \in Section /\ k \in 1 .. Len(code[s]) /\ Len(out) \in Nat
  BY <1>1, ListFacts
<1>3. pcBar = [t \in Section |-> PcAt(t, ip)]
  BY pcBarIs DEF Built
<1>4. pcBar' = [t \in Section |-> PcAt(t, ip')]
  <2>1. (phase = "run")' /\ out' = out /\ code' = code
    BY <1>1 DEF passVars, Built
  <2> QED
    BY <2>1 DEF pcBar, Left, First, PcAt
<1>5. pcBar[s] = k /\ StmtAt(ip) = code[s][k]
  BY <1>1, <1>2, <1>3, PcHere DEF StmtAt
<1>6. \E n : /\ Goes(s, k, n) /\ PcAt(s, ip') = n
             /\ \A t \in Section \ {s} : PcAt(t, ip') = PcAt(t, ip)
  <2>1. CASE ip' = ip + 1 /\ StmtAt(ip).op # "goto"
    <3>1. Goes(s, k, k + 1)
      BY <1>5, <2>1 DEF Goes
    <3>2. PcAt(s, ip') = k + 1
      BY <1>1, <2>1, PcBehind
    <3>3. \A t \in Section \ {s} : PcAt(t, ip') = PcAt(t, ip)
      <4>1. ip \in Nat /\ ip + 1 \in Nat
        BY <1>1, <1>2
      <4>2. \A m \in 1 .. Len(out) :
              (ip <= m /\ m < ip + 1) \/ (ip + 1 <= m /\ m < ip) => out[m][1] = s
        BY <1>1, <1>2
      <4> QED
        BY <1>2, <2>1, <4>1, <4>2, PcElsewhere
    <3> QED
      BY <3>1, <3>2, <3>3
  <2>2. ASSUME NEW j \in 1 .. Len(out), JumpTo(j)
        PROVE  \E n : /\ Goes(s, k, n) /\ PcAt(s, ip') = n
                      /\ \A t \in Section \ {s} : PcAt(t, ip') = PcAt(t, ip)
    <3>1. Goes(s, k, out[j][2])
      BY <2>2, <1>5 DEF Goes, JumpTo
    <3>2. PcAt(s, ip') = out[j][2]
      BY <2>2, PcHere DEF JumpTo
    <3>3. ASSUME NEW t \in Section \ {s}
          PROVE  PcAt(t, ip') = PcAt(t, ip)
      <4>1. \A m \in 1 .. Len(out) :
              (j <= m /\ m < ip) \/ (ip <= m /\ m < j) => out[m][1] = s
        BY <1>1, <1>2, <2>2 DEF JumpsNotSplit, JumpTo
      <4>2. j \in Nat /\ ip \in Nat /\ t \in Section /\ t # s
        BY <1>1, <1>2, <2>2, <3>3
      <4>3. \A m \in 1 .. Len(out) :
              (j <= m /\ m < ip) \/ (ip <= m /\ m < j) => out[m][1] # t
        BY <4>1, <4>2
      <4>4. PcAt(t, j) = PcAt(t, ip)
        BY <4>2, <4>3, PcElsewhere
      <4> QED
        BY <2>2, <4>4 DEF JumpTo
    <3> QED
      BY <3>1, <3>2, <3>3
  <2> QED
    BY <2>1, <2>2, HostStep
<1>7. PICK n : /\ Goes(s, k, n) /\ PcAt(s, ip') = n
               /\ \A t \in Section \ {s} : PcAt(t, ip') = PcAt(t, ip)
  BY <1>6
<1>8. pcBar' = [pcBar EXCEPT ![s] = n]
  BY <1>2, <1>3, <1>4, <1>7
<1> QED
  BY <1>2, <1>3, <1>5, <1>7, <1>8

\* So it is a step of that section.
LEMMA HostSteps ==
  ASSUME Built, JumpsNotSplit, Host
  PROVE  OS!Step(out[ip][1])
<1> DEFINE s == out[ip][1]
           k == out[ip][2]
<1>1. /\ s \in Section /\ k \in 1 .. Len(code[s]) /\ pcBar[s] = k
      /\ \E n : Goes(s, k, n) /\ pcBar' = [pcBar EXCEPT ![s] = n]
  BY HostMoves
<1>2. PICK n : Goes(s, k, n) /\ pcBar' = [pcBar EXCEPT ![s] = n]
  BY <1>1
<1>3. n \in OS!Succ(code[s], k)
  BY <1>2 DEF Goes, OS!Succ, OS!Jumps, OS!LabelAt, Jumps, LabelAt
<1>4. code' = code
  BY HostStep DEF passVars
<1> QED
  BY <1>1, <1>2, <1>3, <1>4 DEF OS!Step

\* What does not move the processor while the list is executed, and all the pass
\* does before, moves no section.
LEMMA OthersStutter ==
  ASSUME IpInv, IpInv', [PassNext]_passVars, ip' = ip, Built' \/ (phase # "run")',
         phase = "run" => UNCHANGED passVars
  PROVE  UNCHANGED OS!vars
<1>1. code' = code
  BY DEF PassNext, passVars, Scan, ScanEnd, Hoist, HoistEnd, Drain, DrainEnd, Move
<1>2. pcBar' = pcBar
  <2>1. CASE phase = "run"
    BY <2>1 DEF pcBar, passVars
  <2>2. CASE phase # "run" /\ phase' # "run"
    BY <2>2 DEF pcBar
  <2>3. CASE phase # "run" /\ phase' = "run"
    <3>1. pcBar = [s \in Section |-> 1]
      BY <2>3, pcBarIs
    <3>2. pcBar' = [s \in Section |-> PcAt(s, ip)']
      BY <2>3 DEF pcBar, Left, First, PcAt
    <3>3. Built' /\ ip' = 1
      BY <2>3 DEF IpInv
    <3>4. (Built => \A s \in Section : PcAt(s, 1) = 1)'
      BY PcStart, PTL
    <3>5. \A s \in Section : PcAt(s, ip)' = 1
      BY <3>3, <3>4 DEF PcAt, Left
    <3> QED
      BY <3>1, <3>2, <3>5
  <2> QED
    BY <2>1, <2>2, <2>3
<1> QED
  BY <1>1, <1>2 DEF OS!vars

\* For every construct whose loops have exit labels, executing the list the pass
\* builds is executing the sections, each in its own order.
THEOREM RunImplementsOmp ==
  ASSUME \A c \in Programs : \A s \in Section : Structured(c[s])
  PROVE  RunSpec => Omp
<1> DEFINE Inv == TypeOK /\ PassInv /\ JumpsNotSplit /\ IpInv
<1>1. RunInit => OS!Init
  BY DEF RunInit, Init, OS!Init, OS!Section, Section, pcBar
<1>2. Inv /\ Inv' /\ [RunNext]_vars => [OS!Next]_(OS!vars)
  <2> SUFFICES ASSUME Inv, Inv', [RunNext]_vars
               PROVE  [OS!Next]_(OS!vars)
    OBVIOUS
  <2>1. ASSUME Host PROVE OS!Next
    <3>1. ip \in 1 .. Len(out) /\ phase = "run"
      BY <2>1, HostStep
    <3>2. Built
      BY <3>1 DEF Built
    <3>3. OS!Step(out[ip][1])
      BY <2>1, <3>2, HostSteps
    <3>4. out[ip][1] \in OS!Section
      BY <3>1, <3>2, ListFacts DEF OS!Section, Section
    <3> QED
      BY <3>3, <3>4 DEF OS!Next
  <2>2. ASSUME (PassNext /\ UNCHANGED runVars) \/ (\E u \in Unit : KernelEnd(u)) \/ Return
               \/ UNCHANGED vars
        PROVE  UNCHANGED OS!vars
    <3>1. [PassNext]_passVars /\ ip' = ip
      BY <2>2 DEF KernelEnd, Return, vars, runVars
    <3>2. phase = "run" => UNCHANGED passVars
      BY <2>2 DEF KernelEnd, Return, vars, PassNext, Scan, ScanEnd, Hoist, HoistEnd, Drain, DrainEnd
    <3>3. Built' \/ (phase # "run")'
      BY DEF Built
    <3> QED
      BY <3>1, <3>2, <3>3, OthersStutter
  <2> QED
    BY <2>1, <2>2 DEF RunNext
<1>3. RunSpec => []Inv
  BY RunIsPass, PassTyping, PassInvariant, PassKeepsJumps, IpInvariant, PTL
<1> QED
  BY <1>1, <1>2, <1>3, PTL DEF RunSpec, Omp, OS!Spec

--------------------------------------------------------------------------------
(* What the list does to the units.                                            *)

\* The pass gets one of the constructs considered, and keeps it.
LEMMA ConstructStays == RunSpec => [](code \in Programs)
<1>1. Init => code \in Programs
  BY DEF Init
<1>2. code \in Programs /\ [PassNext]_passVars => (code \in Programs)'
  BY DEF PassNext, passVars, Scan, ScanEnd, Hoist, HoistEnd, Drain, DrainEnd, Move
<1> QED
  BY <1>1, <1>2, RunIsPass, PTL DEF PassSpec

\* The unit a statement of a section is on is one of the section's units.
LEMMA UnitOfSection ==
  ASSUME OwnUnits(code), NEW s \in Section, NEW k \in 1 .. Len(code[s]),
         code[s][k].op \in {"movet", "exec", "break", "movef"}
  PROVE  /\ code[s][k].id \in Unit
         /\ \A t \in Section : \A l \in 1 .. Len(code[t]) :
              /\ code[t][l].op \in {"movet", "exec", "break", "movef"}
              /\ code[t][l].id = code[s][k].id
              => t = s
<1>1. code[s][k].id \in UnitsOf(code[s])
  BY DEF UnitsOf
<1>2. code[s][k].id \in Unit
  BY <1>1 DEF OwnUnits
<1>3. ASSUME NEW t \in Section, NEW l \in 1 .. Len(code[t]),
             code[t][l].op \in {"movet", "exec", "break", "movef"},
             code[t][l].id = code[s][k].id
      PROVE  t = s
  <2>1. code[s][k].id \in UnitsOf(code[t])
    BY <1>3 DEF UnitsOf
  <2> QED
    BY <1>1, <2>1 DEF OwnUnits
<1> QED
  BY <1>2, <1>3

\* The types of what the units hold.
UnitTyping == /\ xr \in [Unit -> (Section \cup {0}) \X Nat]
              /\ busy \subseteq Unit
              /\ result \in [Unit -> (Section \cup {0}) \X Nat]

\* The processor stays inside the list and touches the units of the construct only.
THEOREM RunTyping ==
  ASSUME \A c \in Programs : OwnUnits(c)
  PROVE  RunSpec => []RunTypeOK
<1> DEFINE Inv == TypeOK /\ PassInv /\ code \in Programs
<1>1. RunInit => UnitTyping
  BY DEF RunInit, UnitTyping, NoArg
<1>2. Inv /\ UnitTyping /\ [RunNext]_vars => UnitTyping'
  <2> SUFFICES ASSUME Inv, UnitTyping, [RunNext]_vars PROVE UnitTyping'
    OBVIOUS
  <2>1. CASE UNCHANGED runVars
    BY <2>1 DEF UnitTyping, runVars
  <2>2. CASE \E u \in Unit : KernelEnd(u)
    BY <2>2 DEF KernelEnd, UnitTyping
  <2>3. ASSUME NEW op \in {"movet", "exec"}, At({op})
        PROVE  Here \in Unit /\ out[ip] \in (Section \cup {0}) \X Nat
    <3>1. ip \in 1 .. Len(out) /\ Built /\ StmtAt(ip).op = op
      BY <2>3 DEF At, Built
    <3>2. out \in Seq(Section \X Nat)
      BY DEF TypeOK
    <3>3. out[ip] \in Section \X Nat
      BY <3>1, <3>2
    <3>4. out[ip][1] \in Section /\ out[ip][2] \in 1 .. Len(code[out[ip][1]])
      BY <3>1, ListFacts
    <3>5. Here \in Unit
      BY <3>1, <3>4, UnitOfSection DEF Here, StmtAt
    <3> QED
      BY <3>3, <3>5
  <2>4. CASE MoveTo
    BY <2>3, <2>4 DEF MoveTo, UnitTyping
  <2>5. CASE Execute
    BY <2>3, <2>5 DEF Execute, UnitTyping
  <2>6. CASE Skip \/ Jump \/ Break \/ MoveFrom
    BY <2>6 DEF Skip, Jump, Break, MoveFrom, UnitTyping
  <2> QED
    BY <2>1, <2>2, <2>4, <2>5, <2>6 DEF RunNext, Host, Return, vars, runVars
<1>3. RunSpec => []Inv
  BY RunIsPass, PassTyping, PassInvariant, ConstructStays, PTL
<1>4. RunSpec => []UnitTyping
  BY <1>1, <1>2, <1>3, PTL DEF RunSpec
<1>5. TypeOK /\ IpInv /\ UnitTyping => RunTypeOK
  BY DEF IpInv, UnitTyping, RunTypeOK
<1> QED
  BY <1>3, <1>4, <1>5, IpInvariant, PTL

\* What the proofs about the units assume of a state, all of it proved before.
Sound == /\ TypeOK /\ PassInv /\ JumpsNotSplit /\ IpInv /\ UnitTyping
         /\ code \in Programs /\ OwnUnits(code)

\* The section of the statement the processor is at, and the place of that statement.
\* It is on the unit it names; the section goes on behind it, unless it jumps.
LEMMA UnitStep ==
  ASSUME Sound, Host, NEW s, s = out[ip][1], NEW k, k = out[ip][2]
  PROVE  /\ s \in Section /\ k \in 1 .. Len(code[s]) /\ Len(code[s]) \in Nat
         /\ phase = "run" /\ pcBar[s] = k
         /\ out[ip] = <<s, k>> /\ StmtAt(ip) = code[s][k]
         /\ UNCHANGED <<code, phase>>
         /\ Goes(s, k, pcBar'[s])
         /\ \A t \in Section \ {s} : pcBar'[t] = pcBar[t]
<1>1. phase = "run" /\ ip \in 1 .. Len(out) /\ UNCHANGED <<code, phase>>
  BY HostStep DEF passVars
<1>2. Built
  BY <1>1 DEF Built, Sound
<1>3. /\ s \in Section /\ k \in 1 .. Len(code[s]) /\ StmtAt(ip) = code[s][k]
      /\ pcBar[s] = k
      /\ \E n : Goes(s, k, n) /\ pcBar' = [pcBar EXCEPT ![s] = n]
  BY <1>2, HostMoves DEF Sound
<1>4. out[ip] = <<s, k>>
  <2>1. out \in Seq(Section \X Nat)
    BY DEF Sound, TypeOK
  <2>2. out[ip] \in Section \X Nat
    BY <1>1, <2>1
  <2> QED
    BY <2>2
<1>5. PICK n : Goes(s, k, n) /\ pcBar' = [pcBar EXCEPT ![s] = n]
  BY <1>3
<1>6. pcBar'[s] = n /\ \A t \in Section \ {s} : pcBar'[t] = pcBar[t]
  BY <1>1, <1>3, <1>5, pcBarIs
<1>7. Len(code[s]) \in Nat
  BY <1>2, <1>3, ListFacts
<1> QED
  BY <1>1, <1>3, <1>4, <1>5, <1>6, <1>7

\* The processor keeps a kernel that runs waited for.
LEMMA HostKeepsBusy ==
  ASSUME Sound, BusyAtBreak, Host
  PROVE  BusyAtBreak'
<1> DEFINE s == out[ip][1]
           k == out[ip][2]
<1>1. /\ s \in Section /\ k \in 1 .. Len(code[s]) /\ Len(code[s]) \in Nat
      /\ phase = "run" /\ pcBar[s] = k
      /\ StmtAt(ip) = code[s][k]
      /\ UNCHANGED <<code, phase>>
      /\ Goes(s, k, pcBar'[s])
      /\ \A t \in Section \ {s} : pcBar'[t] = pcBar[t]
  BY UnitStep
<1> HIDE DEF s, k
<1>2. ASSUME NEW u \in busy,
             ~(code[s][k].op = "break" /\ code[s][k].id = u)
      PROVE  \E t \in Section : /\ pcBar'[t] \in 1 .. Len(code'[t])
                                /\ code'[t][pcBar'[t]].op = "break"
                                /\ code'[t][pcBar'[t]].id = u
  <2>1. PICK t \in Section : /\ pcBar[t] \in 1 .. Len(code[t])
                             /\ code[t][pcBar[t]].op = "break" /\ code[t][pcBar[t]].id = u
    BY DEF BusyAtBreak
  <2>2. t # s
    BY <1>1, <1>2, <2>1
  <2>3. pcBar'[t] = pcBar[t]
    BY <1>1, <2>1, <2>2
  <2> QED
    BY <1>1, <2>1, <2>3
<1>3. CASE Execute
  <2>1. code[s][k].op = "exec" /\ busy' = busy \cup {code[s][k].id}
    BY <1>1, <1>3 DEF Execute, At, Here
  <2>2. k < Len(code[s]) /\ code[s][k + 1].op = "break" /\ code[s][k + 1].id = code[s][k].id
    BY <1>1, <2>1 DEF Sound, OwnUnits, WaitsAtOnce
  <2>3. pcBar'[s] = k + 1
    BY <1>1, <2>1 DEF Goes, Jumps
  <2>4. /\ pcBar'[s] \in 1 .. Len(code'[s])
        /\ code'[s][pcBar'[s]].op = "break"
        /\ code'[s][pcBar'[s]].id = code[s][k].id
    BY <1>1, <2>2, <2>3
  <2> QED
    BY <1>1, <1>2, <2>1, <2>4 DEF BusyAtBreak
<1>4. CASE Break
  <2>1. code[s][k].op = "break" /\ busy' = busy /\ code[s][k].id \notin busy
    BY <1>1, <1>4 DEF Break, At, Here
  <2> QED
    BY <1>1, <1>2, <2>1 DEF BusyAtBreak
<1>5. CASE Skip \/ Jump \/ MoveTo \/ MoveFrom
  <2>1. code[s][k].op # "break" /\ busy' = busy
    BY <1>1, <1>5 DEF Skip, Jump, MoveTo, MoveFrom, At
  <2> QED
    BY <1>1, <1>2, <2>1 DEF BusyAtBreak
<1> QED
  BY <1>3, <1>4, <1>5 DEF Host

\* What a step of the processor does to the registers of the units: at the statement k
\* of section s it loads or starts the unit of that statement and no other.
LEMMA HostRegisters ==
  ASSUME Sound, Host, NEW s, s = out[ip][1], NEW k, k = out[ip][2],
         NEW u \in Unit
  PROVE  /\ xr'[u] = IF code[s][k].op = "movet" /\ code[s][k].id = u THEN <<s, k>> ELSE xr[u]
         /\ result'[u] = IF code[s][k].op = "exec" /\ code[s][k].id = u THEN xr[u] ELSE result[u]
<1>1. StmtAt(ip) = code[s][k] /\ out[ip] = <<s, k>>
  BY UnitStep
<1>2. DOMAIN xr = Unit /\ DOMAIN result = Unit
  BY DEF Sound, UnitTyping
<1>3. CASE MoveTo
  BY <1>1, <1>2, <1>3 DEF MoveTo, At, Here
<1>4. CASE Execute
  BY <1>1, <1>2, <1>4 DEF Execute, At, Here
<1>5. CASE Skip \/ Jump \/ Break \/ MoveFrom
  BY <1>1, <1>5 DEF Skip, Jump, Break, MoveFrom, At
<1> QED
  BY <1>3, <1>4, <1>5 DEF Host

\* The processor keeps the arguments and results of the calls it is in.
LEMMA HostKeepsCalls ==
  ASSUME Sound, CallInFlight, Host
  PROVE  CallInFlight'
<1> DEFINE s == out[ip][1]
           k == out[ip][2]
<1>1. /\ s \in Section /\ k \in 1 .. Len(code[s]) /\ Len(code[s]) \in Nat
      /\ pcBar[s] = k /\ code' = code
      /\ Goes(s, k, pcBar'[s])
      /\ \A t \in Section \ {s} : pcBar'[t] = pcBar[t]
  BY UnitStep
<1>2. \A u \in Unit :
        /\ xr'[u] = IF code[s][k].op = "movet" /\ code[s][k].id = u THEN <<s, k>> ELSE xr[u]
        /\ result'[u] = IF code[s][k].op = "exec" /\ code[s][k].id = u THEN xr[u] ELSE result[u]
  BY HostRegisters
<1> HIDE DEF s, k
<1>3. SUFFICES ASSUME NEW t \in Section, NEW m \in 1 .. Len(code[t]),
                      NEW e \in 1 .. Len(code[t]), NEW f \in 1 .. Len(code[t]),
                      CallAt(code[t], m, e, f)
               PROVE  /\ m < pcBar'[t] /\ pcBar'[t] <= f => xr'[code[t][m].id] = <<t, m>>
                      /\ e < pcBar'[t] /\ pcBar'[t] <= f => result'[code[t][m].id] = <<t, m>>
  <2>1. ASSUME NEW t \in Section, NEW m, NEW e, NEW f, CallAt(code[t], m, e, f)'
        PROVE  CallAt(code[t], m, e, f)
    BY <1>1, <2>1 DEF CallAt
  <2> QED
    BY <1>1, <2>1, ZenonT(30) DEF CallInFlight
<1> DEFINE u == code[t][m].id
<1>4. /\ code[t][m].op = "movet" /\ code[t][e].op = "exec" /\ code[t][e].id = u
      /\ m < e /\ e < f
  BY <1>3 DEF CallAt
<1>5. /\ u \in Unit
      /\ \A r \in Section : \A l \in 1 .. Len(code[r]) :
           code[r][l].op \in {"movet", "exec", "break", "movef"} /\ code[r][l].id = u => r = t
  BY <1>3, <1>4, UnitOfSection DEF Sound
<1>6. /\ m < pcBar[t] /\ pcBar[t] <= f => xr[u] = <<t, m>>
      /\ e < pcBar[t] /\ pcBar[t] <= f => result[u] = <<t, m>>
  BY <1>3 DEF CallInFlight
<1>7. CASE t # s
  <2>1. pcBar'[t] = pcBar[t]
    BY <1>1, <1>3, <1>7
  <2>2. xr'[u] = xr[u] /\ result'[u] = result[u]
    BY <1>1, <1>2, <1>5, <1>7
  <2> QED
    BY <1>6, <2>1, <2>2
<1>8. CASE t = s
  <2> DEFINE n == pcBar'[s]
  <2>1. SUFFICES ASSUME m < n, n <= f, n \in Nat
                 PROVE  xr'[u] = <<s, m>> /\ (e < n => result'[u] = <<s, m>>)
    <3>1. n \in Nat
      BY <1>1 DEF Goes, LabelAt
    <3> QED
      BY <1>3, <1>4, <1>8, <2>1, <3>1
  <2>2. n = k + 1
    <3>1. ASSUME n \in LabelAt(code[s], code[s][k].lab) PROVE FALSE
      <4>1. n \in m + 1 .. f /\ code[s][n].op = "label"
        BY <2>1, <3>1 DEF LabelAt
      <4> QED
        BY <1>3, <1>8, <4>1 DEF CallAt
    <3> QED
      BY <1>1, <3>1 DEF Goes
  <2>3. m < k => /\ code[s][k].op = "movet" => code[s][k].id # u
                 /\ code[s][k].op = "exec" /\ code[s][k].id = u => k = e
    <3>1. m < k => k \in m + 1 .. f
      BY <1>1, <1>3, <2>1, <2>2
    <3>2. \A l \in m + 1 .. f :
            l # e /\ code[s][l].op \in {"movet", "exec"} => code[s][l].id # u
      BY <1>3, <1>8 DEF CallAt
    <3>3. code[s][e].op = "exec"
      BY <1>4, <1>8
    <3>4. CASE k = e
      BY <3>3, <3>4
    <3>5. CASE k # e
      BY <3>1, <3>2, <3>5
    <3> QED
      BY <3>4, <3>5
  <2>4. xr'[u] = <<s, m>>
    <3>1. CASE k = m
      <4>1. code[s][k].op = "movet" /\ code[s][k].id = u
        BY <1>3, <1>4, <1>8, <3>1
      <4> QED
        BY <1>2, <1>5, <3>1, <4>1
    <3>2. CASE k # m
      <4>1. m < k /\ k <= f
        BY <1>1, <1>3, <2>1, <2>2, <3>2
      <4> QED
        BY <1>1, <1>2, <1>5, <1>6, <1>8, <2>3, <4>1
    <3> QED
      BY <3>1, <3>2
  <2>5. ASSUME e < n PROVE result'[u] = <<s, m>>
    <3>1. m < k /\ k <= f
      BY <1>1, <1>3, <1>4, <2>1, <2>2, <2>5
    <3>2. xr[u] = <<s, m>>
      BY <1>1, <1>6, <1>8, <3>1
    <3>3. CASE k = e
      BY <1>2, <1>4, <1>5, <1>8, <3>2, <3>3
    <3>4. CASE k # e
      <4>1. e < k
        BY <1>1, <1>3, <2>2, <2>5, <3>4
      <4> QED
        BY <1>1, <1>2, <1>5, <1>6, <1>8, <2>3, <3>1, <3>4, <4>1
    <3> QED
      BY <3>3, <3>4
  <2> QED
    BY <2>4, <2>5
<1> QED
  BY <1>7, <1>8

\* What is no step of the processor starts and moves nothing.
LEMMA OthersKeepUnits ==
  ASSUME UnitInv, UNCHANGED OS!vars, UNCHANGED <<xr, result>>, busy' \subseteq busy,
         phase' # "run" => busy' = {}
  PROVE  UnitInv'
<1>1. code' = code /\ pcBar' = pcBar
  BY DEF OS!vars
<1>2. BusyAtBreak'
  BY <1>1 DEF UnitInv, BusyAtBreak
<1>3. CallInFlight'
  <2>1. SUFFICES ASSUME NEW t \in Section, NEW m \in 1 .. Len(code[t]),
                        NEW e \in 1 .. Len(code[t]), NEW f \in 1 .. Len(code[t]),
                        CallAt(code[t], m, e, f)
                 PROVE  /\ m < pcBar[t] /\ pcBar[t] <= f => xr[code[t][m].id] = <<t, m>>
                        /\ e < pcBar[t] /\ pcBar[t] <= f => result[code[t][m].id] = <<t, m>>
    <3>1. ASSUME NEW t \in Section, NEW m, NEW e, NEW f, CallAt(code[t], m, e, f)'
          PROVE  CallAt(code[t], m, e, f)
      BY <1>1, <3>1 DEF CallAt
    <3> QED
      BY <1>1, <3>1, ZenonT(30) DEF CallInFlight
  <2> QED
    BY <2>1 DEF UnitInv, CallInFlight
<1> QED
  BY <1>2, <1>3 DEF UnitInv

\* Where a kernel runs the processor waits for it, and a call finds its own argument
\* and result in the unit, whatever the other sections do in between.
THEOREM UnitInvariant ==
  ASSUME \A c \in Programs : OwnUnits(c)
  PROVE  RunSpec => [](Sound /\ UnitInv)
<1>1. RunSpec => []Sound
  <2>1. RunSpec => []JumpsNotSplit
    <3>1. \A c \in Programs : \A s \in Section : Structured(c[s])
      BY DEF OwnUnits
    <3>2. PassSpec => []JumpsNotSplit
      BY <3>1, PassKeepsJumps
    <3> QED
      BY <3>2, RunIsPass, PTL
  <2>2. RunTypeOK => UnitTyping
    BY DEF RunTypeOK, UnitTyping
  <2>3. /\ TypeOK /\ PassInv /\ JumpsNotSplit /\ IpInv /\ UnitTyping
        /\ code \in Programs
        => Sound
    BY DEF Sound
  <2> QED
    BY <2>1, <2>2, <2>3, RunTyping, RunIsPass, PassTyping, PassInvariant, IpInvariant,
       ConstructStays, PTL
<1>2. RunInit => UnitInv
  <2>1. RunInit => BusyAtBreak
    BY DEF RunInit, BusyAtBreak
  <2>2. RunInit => CallInFlight
    BY pcBarIs DEF RunInit, Init, CallInFlight
  <2> QED
    BY <2>1, <2>2 DEF UnitInv
<1>3. Sound /\ Sound' /\ UnitInv /\ [RunNext]_vars => UnitInv'
  <2> SUFFICES ASSUME Sound, Sound', UnitInv, [RunNext]_vars PROVE UnitInv'
    OBVIOUS
  <2>1. CASE Host
    BY <2>1, HostKeepsBusy, HostKeepsCalls DEF UnitInv
  <2>2. CASE (PassNext /\ UNCHANGED runVars) \/ (\E u \in Unit : KernelEnd(u)) \/ Return
             \/ UNCHANGED vars
    <3>1. /\ [PassNext]_passVars /\ UNCHANGED <<ip, xr, result>> /\ busy' \subseteq busy
      BY <2>2 DEF KernelEnd, Return, vars, runVars
    <3>2. phase = "run" => UNCHANGED passVars
      BY <2>2 DEF KernelEnd, Return, vars, PassNext, Scan, ScanEnd, Hoist, HoistEnd, Drain, DrainEnd
    <3>3. phase' # "run" => busy' = {}
      BY <3>1, <3>2 DEF UnitInv, BusyAtBreak, passVars
    <3>4. UNCHANGED OS!vars
      <4>1. Built' \/ (phase # "run")'
        BY DEF Sound, Built
      <4> QED
        BY <3>1, <3>2, <4>1, OthersStutter DEF Sound
    <3> QED
      BY <3>1, <3>3, <3>4, OthersKeepUnits
  <2> QED
    BY <2>1, <2>2 DEF RunNext
<1> QED
  BY <1>1, <1>2, <1>3, PTL DEF RunSpec

\* The statement the processor is at, of one of the kinds ops.
LEMMA AtStatement ==
  ASSUME Sound, NEW ops, At(ops)
  PROVE  \E s \in Section : \E k \in 1 .. Len(code[s]) :
           /\ out[ip] = <<s, k>> /\ pcBar[s] = k
           /\ code[s][k].op \in ops /\ Here = code[s][k].id
<1>1. Built /\ ip \in 1 .. Len(out) /\ StmtAt(ip).op \in ops
  BY DEF Sound, Built, At
<1>2. out[ip][1] \in Section /\ out[ip][2] \in 1 .. Len(code[out[ip][1]])
  BY <1>1, ListFacts
<1>3. pcBar[out[ip][1]] = out[ip][2]
  BY <1>1, <1>2, PcHere, pcBarIs DEF Built
<1>4. out[ip] = <<out[ip][1], out[ip][2]>>
  <2>1. out \in Seq(Section \X Nat)
    BY DEF Sound, TypeOK
  <2>2. out[ip] \in Section \X Nat
    BY <1>1, <2>1
  <2> QED
    BY <2>2
<1> QED
  BY <1>1, <1>2, <1>3, <1>4 DEF Here, StmtAt

\* For every such construct: the processor touches a unit only while its kernel does
\* not run.
THEOREM RunUnitsExclusive ==
  ASSUME \A c \in Programs : OwnUnits(c)
  PROVE  RunSpec => []UnitsExclusive
<1>1. Sound /\ UnitInv => UnitsExclusive
  <2> SUFFICES ASSUME Sound, UnitInv, At({"movet", "exec", "movef"}), Here \in busy
               PROVE  FALSE
    BY DEF UnitsExclusive
  <2>1. PICK s \in Section : \E k \in 1 .. Len(code[s]) :
          /\ pcBar[s] = k /\ code[s][k].op \in {"movet", "exec", "movef"}
          /\ Here = code[s][k].id
    BY AtStatement
  <2>2. PICK t \in Section : /\ pcBar[t] \in 1 .. Len(code[t])
                             /\ code[t][pcBar[t]].op = "break"
                             /\ code[t][pcBar[t]].id = Here
    BY DEF UnitInv, BusyAtBreak
  <2>3. t = s
    BY <2>1, <2>2, UnitOfSection DEF Sound
  <2> QED
    BY <2>1, <2>2, <2>3
<1> QED
  BY <1>1, UnitInvariant, PTL

\* A call reads the result of the kernel started on its own argument, where every value
\* that is read is that of a call with arguments.
THEOREM RunReadsOwnResult ==
  ASSUME \A c \in Programs : OwnUnits(c),
         \A c \in Programs : \A s \in Section : ValuesOfCalls(c[s])
  PROVE  RunSpec => []ReadsOwnResult
<1>1. Sound /\ UnitInv => ReadsOwnResult
  <2> SUFFICES ASSUME Sound, UnitInv, At({"movef"})
               PROVE  result[Here] =
                        <<out[ip][1], ArgOf(code[out[ip][1]], out[ip][2], Here)>>
    BY DEF ReadsOwnResult
  <2>1. PICK s \in Section : \E f \in 1 .. Len(code[s]) :
          /\ out[ip] = <<s, f>> /\ pcBar[s] = f /\ code[s][f].op = "movef"
          /\ Here = code[s][f].id
    BY AtStatement
  <2>2. PICK f \in 1 .. Len(code[s]) :
          /\ out[ip] = <<s, f>> /\ pcBar[s] = f /\ code[s][f].op = "movef"
          /\ Here = code[s][f].id
    BY <2>1
  <2>3. PICK m \in 1 .. Len(code[s]), e \in 1 .. Len(code[s]) : CallAt(code[s], m, e, f)
    BY <2>2 DEF Sound, ValuesOfCalls
  <2>4. /\ code[s][m].op = "movet" /\ code[s][m].id = Here
        /\ code[s][e].op = "exec" /\ m < e /\ e < f
    BY <2>2, <2>3 DEF CallAt
  <2>5. result[Here] = <<s, m>>
    <3>1. e < pcBar[s] /\ pcBar[s] <= f => result[code[s][m].id] = <<s, m>>
      BY <2>3 DEF UnitInv, CallInFlight
    <3>2. e < pcBar[s] /\ pcBar[s] <= f
      BY <2>2, <2>4
    <3> QED
      BY <2>4, <3>1, <3>2
  <2>6. \A l \in m + 1 .. f : ~(code[s][l].op = "movet" /\ code[s][l].id = Here)
    <3>1. \A l \in m + 1 .. f :
            l # e /\ code[s][l].op \in {"movet", "exec"} => code[s][l].id # code[s][m].id
      BY <2>3 DEF CallAt
    <3> QED
      BY <2>4, <3>1
  <2>7. ArgOf(code[s], f, Here) = m
    <3>1. m \in 1 .. f
      BY <2>2, <2>4
    <3>2. ASSUME NEW l \in 1 .. f, code[s][l].op = "movet", code[s][l].id = Here,
                 \A x \in l + 1 .. f : ~(code[s][x].op = "movet" /\ code[s][x].id = Here)
          PROVE  l = m
      <4>1. ~(l > m)
        BY <2>6, <3>2
      <4>2. ~(l < m)
        BY <2>4, <3>1, <3>2
      <4> QED
        BY <4>1, <4>2, <3>1
    <3> QED
      BY <2>4, <2>6, <3>1, <3>2 DEF ArgOf
  <2> QED
    BY <2>2, <2>5, <2>7
<1> QED
  BY <1>1, UnitInvariant, PTL

\* When the construct ends no kernel runs.
THEOREM RunReturnsIdle ==
  ASSUME \A c \in Programs : OwnUnits(c)
  PROVE  RunSpec => []ReturnsIdle
<1>1. Sound /\ UnitInv => ReturnsIdle
  <2> SUFFICES ASSUME Sound, UnitInv, Finished, NEW u \in busy
               PROVE  FALSE
    BY DEF ReturnsIdle
  <2>1. PICK s \in Section : pcBar[s] \in 1 .. Len(code[s])
    BY DEF UnitInv, BusyAtBreak
  <2>2. Built
    BY DEF Sound, Built, Finished
  <2>3. Left(s, ip) = {}
    BY <2>2, ListFacts DEF Left, Finished
  <2>4. pcBar[s] = Len(code[s]) + 1
    BY <2>2, <2>3, pcBarIs DEF Built, PcAt
  <2> QED
    BY <2>1, <2>2, <2>4, ListFacts
<1> QED
  BY <1>1, UnitInvariant, PTL
================================================================================
