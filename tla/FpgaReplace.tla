------------------------------- MODULE FpgaReplace -------------------------------
(* The pass fpga_replace_calls_tree (gcc/fpga.c): it replaces the calls a         *)
(* "#pragma call_hw" maps on an FPGA unit by molen builtins. The pragma reaches   *)
(* the pass in two ways: as the attribute call_hw of the declaration of the       *)
(* called function, or as a call of __builtin_molen_dummy in front of one call.   *)
(* The dummy's unit waits in the global fpga_id_dummy for the call.               *)
EXTENDS TreeWalk

CONSTANTS
  Fpga,          \* the units that are of type FPGA in the hardware description
  GenerateSet,   \* -ffpga-call-generate-set
  FpgaStat       \* -ffpgastat

ASSUME FpgaAssumption == Fpga \subseteq Nat

\* A call passes a sequence of arguments, each some words; there is a largest.
SizedArgs(args) ==
  /\ args \in Seq(ToSet(args))
  /\ \E n \in {0} \cup {a.size : a \in ToSet(args)} :
       n \in Nat /\ \A a \in ToSet(args) : a.size \in 0 .. n

ASSUME ArgsAssumption ==
  \A p \in Programs : \A st \in StatementsOf(p) : st.kind = "call" => SizedArgs(st.args)

ASSUME OptionsAssumption == GenerateSet \in BOOLEAN /\ FpgaStat \in BOOLEAN

VARIABLES
  fpga_id_dummy,
  trx_bytes

vars == <<walkVars, fpga_id_dummy, trx_bytes>>

--------------------------------------------------------------------------------
(* expand_parameters. An argument is a record: kind "object" is the address of a  *)
(* variable or array of "size" elements, "ram" that of one in .hpp_ccu_ram,       *)
(* "pointer" a pointer variable, "unsupported" what expand_parameters rejects,     *)
(* "value" anything else; const: the parameter is a pointer to const.             *)
Prologue(args, u) ==
  [i \in 1 .. Len(args) |->
     Builtin(IF args[i].kind \in {"object", "pointer"} THEN "movet_addr" ELSE "movet", u, i)]

\* What an argument points to is copied back when it may have been written.
\* Mutant: what is const is copied back, too.
BackAll(args) == {i \in DOMAIN args : args[i].kind \in {"object", "pointer"}}
Back(args) == {i \in DOMAIN args : args[i].kind \in {"object", "pointer"} /\ ~args[i].const}

Epilogue(args, u) ==
  [n \in 1 .. Cardinality(Back(args)) |-> Builtin("movef_addr", u, Nth(Back(args), n))]

\* Four for every word of the arguments of these kinds.
Words(args, kinds) ==
  UNION {{i} \X (1 .. args[i].size) : i \in {j \in DOMAIN args : args[j].kind \in kinds}}
Bytes(args, kinds) == 4 * Cardinality(Words(args, kinds))
BytesIn(args) == Bytes(args, {"object", "value"})
BytesOut(args) == Bytes(args, {"object"})

Stat(op, n) == IF FpgaStat /\ n # 0 THEN <<Builtin(op, NoUnit, n)>> ELSE <<>>

\* What replace_call_tree_tsi links before a call for unit u.
Emitted(call, u) ==
  LET in == trx_bytes + BytesIn(call.args)
      out == in + BytesOut(call.args) IN
    (IF GenerateSet THEN <<Builtin("set", u, 0)>> ELSE <<>>)
      \o Stat("stats_begin", 1)
      \o Prologue(call.args, u)
      \o Stat("stats_parmin", in)
      \o <<Builtin("execute", u, 0), Builtin("break", u, 0)>>
      \o Stat("stats_exec", 1)
      \o Epilogue(call.args, u)
      \o Stat("stats_parmout", out)
      \o <<Builtin("movef", u, 0)>>

--------------------------------------------------------------------------------
Init == WalkInit /\ fpga_id_dummy = NoUnit /\ trx_bytes = 0

\* A statement without a call.
Walk == /\ Execute \/ Finish \/ Leave \/ Enter \/ Pass("other") \/ Pass("assigned")
        /\ UNCHANGED <<fpga_id_dummy, trx_bytes>>

\* A builtin of the pass before this one is a call without a pragma.
PassBuiltin == /\ Pass("builtin")
               /\ fpga_id_dummy = NoUnit
               /\ UNCHANGED <<fpga_id_dummy, trx_bytes>>

\* A dummy of a unit that is no FPGA stays in the list.
DummyOther == /\ At("dummy") /\ Stmt.unit \notin Fpga
              /\ IF fpga_id_dummy # NoUnit
                   THEN status' = "error" /\ UNCHANGED stack
                   ELSE Continue(list[L], I) /\ UNCHANGED status
              /\ UNCHANGED <<program, list, func, fpga_id_dummy, trx_bytes>>

\* tsi_delink, tsi_prev; the latter reads through NULL behind the end of the list.
DummyFpga == /\ At("dummy") /\ Stmt.unit \in Fpga
             /\ LET i == Delinked(list[L], I)
                    s == RemoveAt(list[L], I) IN
                  /\ list' = [list EXCEPT ![L] = s]
                  /\ IF i = 0 THEN status' = "crash" /\ MoveTo(0) /\ UNCHANGED fpga_id_dummy
                     ELSE IF fpga_id_dummy # NoUnit
                       THEN status' = "error" /\ MoveTo(Prev(i)) /\ UNCHANGED fpga_id_dummy
                       ELSE /\ Continue(s, Prev(i))
                            /\ fpga_id_dummy' = Stmt.unit
                            /\ UNCHANGED status
             /\ UNCHANGED <<program, func, trx_bytes>>

\* The unit of the call the walk is at.
Unit == IF fpga_id_dummy # NoUnit THEN fpga_id_dummy ELSE Stmt.attr

\* The call takes the unit of the dummy in front of it (mutant: and leaves it).
ConsumeNothing == UNCHANGED fpga_id_dummy
Consume == fpga_id_dummy' = NoUnit

\* Not mapped, or mapped on another kind of component.
CallKept == /\ Pass("call") /\ Unit \notin Fpga
            /\ Consume
            /\ UNCHANGED trx_bytes

\* A call with arguments and a value the pass can pass on.
Supported(call) ==
  /\ call.ret \in {"void", "int", "long", "real", "pointer"}
  /\ \A i \in DOMAIN call.args : call.args[i].kind # "unsupported"

CallReplaced == /\ At("call") /\ Unit \in Fpga /\ Supported(Stmt)
                /\ Replace(Emitted(Stmt, Unit))
                /\ Consume
                /\ trx_bytes' = trx_bytes + BytesIn(Stmt.args) + BytesOut(Stmt.args)
                /\ UNCHANGED <<program, func, status>>

\* A dummy takes what comes next for its call: the first builtin of the pass before,
\* which opens a remote call or the statistics of a call.
Constant == [kind |-> "value", size |-> 1, const |-> FALSE]
Literal == [kind |-> "object", size |-> 1, const |-> FALSE]
BuiltinArgs == [rpc |-> <<Constant, Constant>>,
                stats_begin |-> <<Literal, Literal, Constant, Constant>>]

BuiltinReplaced ==
  /\ At("builtin") /\ Stmt.op \in DOMAIN BuiltinArgs /\ fpga_id_dummy # NoUnit
  /\ LET args == BuiltinArgs[Stmt.op] IN
       /\ ReplaceExpr(Emitted([args |-> args], fpga_id_dummy))
       /\ trx_bytes' = trx_bytes + BytesIn(args) + BytesOut(args)
  /\ Consume
  /\ UNCHANGED <<program, func, status>>

\* fpga_error on an argument or on the type returned.
CallUnsupported == /\ At("call") /\ Unit \in Fpga /\ ~Supported(Stmt)
                   /\ status' = "unsupported"
                   /\ Consume
                   /\ UNCHANGED <<program, list, func, stack, trx_bytes>>

Step == \/ Walk \/ PassBuiltin \/ DummyOther \/ DummyFpga
        \/ BuiltinReplaced \/ CallKept \/ CallReplaced \/ CallUnsupported

\* The compiler has left the pass for good.
Stopped == status # "walk" /\ UNCHANGED vars

Spec == Init /\ [][Step \/ Stopped]_vars /\ WF_vars(Step)

--------------------------------------------------------------------------------
\* The walk is sound, and only the id of an FPGA unit ever waits for a call.
TypeOK == /\ WalkTypeOK
          /\ fpga_id_dummy \in Fpga \cup {NoUnit}
          /\ trx_bytes \in Nat

ArgsOf(st) == IF st.kind = "builtin" THEN BuiltinArgs[st.op] ELSE st.args

MoveFrom(u) == Builtin("movef", u, 0)

\* Every call is replaced that a pragma maps on an FPGA unit, by the builtins of
\* that unit, at its place, and nothing else is changed; a call that an earlier pass
\* has linked in is a call like the others.
Rewritten ==
  status = "done" => \A l \in DOMAIN list : 
    Reduced(list[l], "movef") = Reduced(Wanted(program, l, Fpga, MoveFrom), "movef")

\* The builtins linked in for the n-th replaced call of a list.
Group(s, n) ==
  LET ends == {j \in DOMAIN s : s[j].kind = "builtin" /\ s[j].op = "movef"}
      e == CHOOSE j \in ends : Cardinality({k \in ends : k <= j}) = n
      b == CHOOSE k \in 1 .. e :
             /\ \A x \in k .. e - 1 : s[x].kind = "builtin" /\ s[x].op # "movef"
             /\ k = 1 \/ s[k - 1].kind # "builtin" \/ s[k - 1].op = "movef"
  IN SubSeq(s, b, e)

\* g calls the unit u as the call does: every argument is in the unit before the
\* kernel starts, what the kernel wrote through pointers and its value come back
\* after it has been waited for.
CallsUnit(g, args, u) ==
  LET at(op) == {j \in DOMAIN g : g[j].op = op}
      regs(J) == {g[j].n : j \in J}
      in == at("movet") \cup at("movet_addr")
      back == at("movef_addr")
      exec == CHOOSE j \in at("execute") : TRUE
      wait == CHOOSE j \in at("break") : TRUE IN
    /\ Cardinality(at("execute")) = 1 /\ Cardinality(at("break")) = 1
    /\ exec < wait /\ at("movef") = {Len(g)}
    /\ regs(in) = DOMAIN args /\ \A j \in in : j < exec
    /\ \A j \in back : wait < j
    /\ regs(back) = {i \in DOMAIN args :
                      args[i].kind \in {"object", "pointer"} /\ ~args[i].const}
    /\ \A j \in DOMAIN g : g[j].unit \in {u, NoUnit}

\* A replaced call is, in the end, a call of its unit.
CallProtocol ==
  status = "done" =>
    \A l \in DOMAIN list : \A n \in 1 .. ReplacedCalls(program, l, Fpga) :
      LET k == NthReplaced(program, l, n, Fpga) IN
        CallsUnit(Group(list[l], n), ArgsOf(program.lists[l][k]), Mapped(program, l, k, Fpga))

\* The statistics of a call count the bytes of its own arguments.
StatsOfCall ==
  status = "done" =>
    \A l \in DOMAIN list : \A n \in 1 .. ReplacedCalls(program, l, Fpga) :
      LET g == Group(list[l], n)
          k == NthReplaced(program, l, n, Fpga) IN
        \A j \in DOMAIN g :
          g[j].op = "stats_parmin" => g[j].n = BytesIn(ArgsOf(program.lists[l][k]))

\* "two molen_dummy found" is said of two dummies without a call between them.
TwoDummiesFound == status = "error" => TwoDummies(program, func, Fpga)

\* The pass ends, and never by following an iterator behind the end of a list.
Ends == <>(status \in {"done", "error", "unsupported"})
================================================================================
