--------------------------------- MODULE MolenRun ---------------------------------
(* The list FpgaSections builds, executed: the processor runs it statement by     *)
(* statement, every reconfigurable unit runs its kernel beside it.                *)
(*                                                                                *)
(* The units are what the builtins of builtins.def stand for: a unit has an input *)
(* register (molen_MOVTX), runs one kernel at a time (molen_EXECUTE) and keeps   *)
(* its result for molen_MOVFX; molen_BREAK waits for the kernel. An argument is   *)
(* told apart by the statement that moved it into the unit.                       *)
EXTENDS FpgaSections

CONSTANT Unit   \* the fpga ids of the construct

ASSUME UnitAssumption == Unit \subseteq Nat

VARIABLES
  ip,     \* the statement of out the processor is at
  xr,     \* input register of each unit
  busy,   \* the units whose kernel runs
  result  \* what each unit has computed: the argument it was started on

runVars == <<ip, xr, busy, result>>
vars == <<passVars, runVars>>

NoArg == <<0, 0>>

RunInit == /\ Init
           /\ ip = 1
           /\ xr = [u \in Unit |-> NoArg]
           /\ busy = {}
           /\ result = [u \in Unit |-> NoArg]

\* The processor is at a statement of one of these kinds.
At(ops) == phase = "run" /\ ip \in 1 .. Len(out) /\ StmtAt(ip).op \in ops

Here == StmtAt(ip).id

Skip == /\ At({"plain", "label", "cond"})
        /\ ip' = ip + 1
        /\ UNCHANGED <<xr, busy, result>>

\* A GOTO_EXPR, or a COND_EXPR that takes the arm with the jump.
Jump == /\ At({"goto", "cond"})
        /\ \E j \in 1 .. Len(out) :
             /\ out[j][1] = out[ip][1]
             /\ out[j][2] \in LabelAt(code[out[ip][1]], StmtAt(ip).lab)
             /\ ip' = j
        /\ UNCHANGED <<xr, busy, result>>

MoveTo == /\ At({"movet"})
          /\ ip' = ip + 1
          /\ xr' = [xr EXCEPT ![Here] = out[ip]]
          /\ UNCHANGED <<busy, result>>

Execute == /\ At({"exec"})
           /\ ip' = ip + 1
           /\ busy' = busy \cup {Here}
           /\ result' = [result EXCEPT ![Here] = xr[Here]]
           /\ UNCHANGED xr

Break == /\ At({"break"})
         /\ Here \notin busy
         /\ ip' = ip + 1
         /\ UNCHANGED <<xr, busy, result>>

MoveFrom == /\ At({"movef"})
            /\ ip' = ip + 1
            /\ UNCHANGED <<xr, busy, result>>

\* A kernel ends.
KernelEnd(u) == /\ u \in busy
                /\ busy' = busy \ {u}
                /\ UNCHANGED <<passVars, ip, xr, result>>

Finished == phase = "run" /\ ip = Len(out) + 1

\* The code after the construct.
Return == Finished /\ UNCHANGED vars

Host == /\ Skip \/ Jump \/ MoveTo \/ Execute \/ Break \/ MoveFrom
        /\ UNCHANGED passVars

RunNext == \/ PassNext /\ UNCHANGED runVars
           \/ Host
           \/ \E u \in Unit : KernelEnd(u)
           \/ Return

RunSpec == RunInit /\ [][RunNext]_vars

FairSpec == /\ RunSpec
            /\ WF_vars(PassNext /\ UNCHANGED runVars)
            /\ WF_vars(Host)
            /\ \A u \in Unit : WF_vars(KernelEnd(u))

----------------------------------------------------------------------------------
\* The processor runs inside the list and knows the units of the construct only.
RunTypeOK == /\ TypeOK
             /\ ip \in 1 .. Len(out) + 1
             /\ xr \in [Unit -> (Section \cup {0}) \X Nat]
             /\ busy \subseteq Unit
             /\ result \in [Unit -> (Section \cup {0}) \X Nat]

\* The processor touches a unit only while its kernel does not run: no argument is
\* replaced under a kernel, none is started twice, no result is read too early.
UnitsExclusive == At({"movet", "exec", "movef"}) => Here \notin busy

\* The nearest molen_MOVTX on unit u before statement k of a section.
ArgOf(body, k, u) ==
  CHOOSE m \in 1 .. k :
    /\ body[m].op = "movet" /\ body[m].id = u
    /\ \A l \in m + 1 .. k : ~(body[l].op = "movet" /\ body[l].id = u)

\* A call gets the result of the kernel started on its own argument.
ReadsOwnResult ==
  At({"movef"}) =>
    LET s == out[ip][1] IN
      result[Here] = <<s, ArgOf(code[s], out[ip][2], Here)>>

\* No kernel outlives the construct.
ReturnsIdle == Finished => busy = {}

\* A section's next statement: the first of its statements not before ip.
pcBar ==
  [s \in Section |->
     LET left == {j \in 1 .. Len(out) : ip <= j /\ out[j][1] = s} IN
       IF phase # "run" THEN 1
       ELSE IF left = {} THEN Len(code[s]) + 1
       ELSE out[CHOOSE j \in left : \A i \in left : j <= i][2]]

OS == INSTANCE OmpSections WITH pc <- pcBar

\* Executing the list is executing the sections, each in its own order.
Omp == OS!Spec

\* No section jumps backwards.
LoopFree ==
  \A s \in Section : \A k \in DOMAIN code[s] : Jumps(code[s][k]) =>
    \A l \in LabelAt(code[s], code[s][k].lab) : k < l

\* A construct without loops ends: no molen_BREAK waits for a kernel for ever.
Terminates == LoopFree => <>Finished

----------------------------------------------------------------------------------
(* What makes an execution correct: the constructs it is proved for and the        *)
(* inductive invariant.                                                            *)

\* The units a section offloads to.
UnitsOf(body) ==
  {body[k].id : k \in {k \in 1 .. Len(body) : body[k].op \in {"movet", "exec", "break", "movef"}}}

\* A call as fpga_replace_calls_tree leaves it: from the move of the last argument
\* through the start of the kernel to the move of the value, statements that follow each
\* other, none of the others starting or loading the unit.
CallAt(body, m, e, f) ==
  /\ m < e /\ e < f
  /\ body[m].op = "movet" /\ body[e].op = "exec"
  /\ body[e].id = body[m].id /\ body[f].id = body[m].id
  /\ \A k \in m + 1 .. f : /\ body[k].op \notin {"label", "goto", "cond"}
                           /\ k # e /\ body[k].op \in {"movet", "exec"} =>
                                body[k].id # body[m].id

\* The processor waits for a kernel as soon as it has started it.
WaitsAtOnce(body) ==
  \A e \in 1 .. Len(body) : body[e].op = "exec" =>
    /\ e < Len(body)
    /\ body[e + 1].op = "break" /\ body[e + 1].id = body[e].id

\* It reads no value but that of a call with arguments.
ValuesOfCalls(body) ==
  \A f \in 1 .. Len(body) : body[f].op = "movef" =>
    \E m, e \in 1 .. Len(body) : CallAt(body, m, e, f)

\* A construct whose sections offload to units of their own.
OwnUnits(c) ==
  /\ \A s \in Section : /\ Structured(c[s]) /\ WaitsAtOnce(c[s])
                        /\ UnitsOf(c[s]) \subseteq Unit
  /\ \A s, t \in Section : s # t => UnitsOf(c[s]) \cap UnitsOf(c[t]) = {}

\* Where a kernel runs, a section is at the BREAK for it; none runs before the list does.
BusyAtBreak ==
  /\ phase # "run" => busy = {}
  /\ \A u \in busy : \E s \in Section :
       /\ pcBar[s] \in 1 .. Len(code[s])
       /\ code[s][pcBar[s]].op = "break" /\ code[s][pcBar[s]].id = u

\* Within a call the unit holds the argument of that call and, once started on it, has
\* computed the result from it.
CallInFlight ==
  \A s \in Section : \A m, e, f \in 1 .. Len(code[s]) :
    CallAt(code[s], m, e, f) =>
      /\ m < pcBar[s] /\ pcBar[s] <= f => xr[code[s][m].id] = <<s, m>>
      /\ e < pcBar[s] /\ pcBar[s] <= f => result[code[s][m].id] = <<s, m>>

\* With PassInv, what the processor and the units keep true.
UnitInv == BusyAtBreak /\ CallInFlight
==================================================================================
