--------------------------------- MODULE Offload ---------------------------------
(* The two replacement passes as passes.c runs them: for every function first     *)
(* diopsis_replace_calls_tree, then fpga_replace_calls_tree over the lists the    *)
(* first has left. The dummies of FPGA units are in them for the second, between  *)
(* the remote calls and the calls of the statistics of the first.                 *)
EXTENDS TreeWalk

CONSTANTS
  NamedDsp, Dsp, NoWait, DspStat, GppStat,   \* of DiopsisReplace
  Fpga, GenerateSet, FpgaStat                \* of FpgaReplace

\* The hardware description gives a unit one type.
ASSUME UnitsAssumption == Dsp \cap Fpga = {}

\* What each pass asks of its units, its options and the programs it gets; the first
\* gets them without builtins, the second with those the first has linked in.
ASSUME DspAssumption == NamedDsp \subseteq Nat /\ Dsp \subseteq Nat /\ NoWait \subseteq Nat
ASSUME FpgaAssumption == Fpga \subseteq Nat
ASSUME OptionsAssumption == {DspStat, GppStat, GenerateSet, FpgaStat} \subseteq BOOLEAN
ASSUME NoBuiltinsAssumption ==
  \A p \in Programs : \A st \in StatementsOf(p) : st.kind # "builtin"

VARIABLES
  dspFunc,   \* the function the first pass is called for; func is that of the second
  pragma_on_call, pragma_on_call_magic, behind, hartes_rpc_uid, left,
  fpga_id_dummy, trx_bytes

dspVars == <<pragma_on_call, pragma_on_call_magic, behind, hartes_rpc_uid, left>>
fpgaVars == <<fpga_id_dummy, trx_bytes>>
vars == <<walkVars, dspFunc, dspVars, fpgaVars>>

D == INSTANCE DiopsisReplace WITH func <- dspFunc
F == INSTANCE FpgaReplace

ASSUME ArgsAssumption ==
  \A p \in Programs : \A st \in StatementsOf(p) : st.kind = "call" => F!SizedArgs(st.args)

Init == D!Init /\ F!Init

\* The second pass has not been called for the function the first was called for last.
Behind == func < dspFunc

\* The first pass walks the function; or both are through, and it is called next.
DspTurn == Behind <=> stack # <<>>

DspStep == /\ DspTurn
           /\ D!Step
           /\ UNCHANGED <<func, fpgaVars>>

FpgaStep == /\ ~DspTurn
            /\ F!Step
            /\ UNCHANGED <<dspFunc, dspVars>>

Stopped == status # "walk" /\ UNCHANGED vars

Step == DspStep \/ FpgaStep

Spec == Init /\ [][Step \/ Stopped]_vars

--------------------------------------------------------------------------------

\* The pragmas are written where the passes can tell them apart: as the first pass
\* needs it, and no dummy for the second at the head of its list.
PragmasApart ==
  /\ D!PragmasApart
  /\ \A l \in DOMAIN program.lists :
       LET s == program.lists[l] IN s # <<>> /\ s[1].kind = "dummy" => s[1].unit \notin Fpga

\* The source as far as the compiler obeys it: without the dummies that name a unit
\* as the DSP is named, of which the hardware description says otherwise.
Obeyed ==
  [program EXCEPT !.lists =
     [l \in DOMAIN @ |->
        SelectSeq(@[l], LAMBDA st : st.kind = "dummy" => st.unit \notin NamedDsp \ Dsp)]]

Mark(u) == Builtin(IF u \in Dsp THEN "rpc" ELSE "movef", IF u \in Dsp THEN NoUnit ELSE u, 0)

\* Every call a pragma maps is replaced by the pass of its unit, once and at its
\* place, by the builtins of that unit; no other call is, and no dummy is left. What
\* the first pass leaves never makes the second give up or go astray.
EachByItsUnit ==
  PragmasApart =>
    /\ status \notin {"error", "crash"}
    /\ status = "done" => \A l \in DOMAIN list :
      LET s == SelectSeq(list[l], LAMBDA st : st.kind = "builtin" => st.op \in {"rpc", "movef"}) IN
        [k \in DOMAIN s |-> IF s[k].kind = "builtin" THEN [s[k] EXCEPT !.n = 0] ELSE s[k]]
          = Wanted(Obeyed, l, Dsp \cup Fpga, Mark)

\* No dummy waits for a call where the second pass meets a builtin of the first.
BuiltinsUntouched ==
  PragmasApart /\ ~DspTurn /\ At("builtin") => fpga_id_dummy = NoUnit

==================================================================================
