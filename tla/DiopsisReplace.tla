----------------------------- MODULE DiopsisReplace -----------------------------
(* The pass diopsis_replace_calls_tree (gcc/diopsis.c), which runs before the one *)
(* of FpgaReplace over the same lists: it replaces the calls a "#pragma call_hw"  *)
(* maps on a DSP by a remote call, a sequence of builtins that opens it under an  *)
(* identity, passes the arguments in the two register files of the DSP, starts    *)
(* the function, and unless the call is "nowait" waits for it and fetches its     *)
(* value.                                                                         *)
EXTENDS TreeWalk

CONSTANTS
  NamedDsp,   \* pragmas whose component is named as microblaze_check_dsp knows it
  Dsp,        \* pragmas whose unit is a DSP in the hardware description, all of
              \* them with -fdsp-call_hw
  NoWait,     \* pragmas with the argument nowait, none of them with -fremwait
  DspStat,    \* -fdspstat
  GppStat     \* -fgppstat

ASSUME DspAssumption == NamedDsp \subseteq Nat /\ Dsp \subseteq Nat /\ NoWait \subseteq Nat
\* No pass has linked builtins in before this one.
ASSUME NoBuiltinsAssumption ==
  \A p \in Programs : \A st \in StatementsOf(p) : st.kind # "builtin"

ASSUME DspOptionsAssumption == DspStat \in BOOLEAN /\ GppStat \in BOOLEAN

VARIABLES
  pragma_on_call,         \* pragma of the last dummy, until its call
  pragma_on_call_magic,   \* the same for dummies of DSP units
  behind,                 \* the statement walked stands in for the dummy taken out
  hartes_rpc_uid,
  left                    \* what attr held when it was last assigned

dspVars == <<pragma_on_call, pragma_on_call_magic, behind, hartes_rpc_uid, left>>
vars == <<walkVars, dspVars>>

--------------------------------------------------------------------------------
(* expand_parameters and insert_diopsis_api. An argument is a record: kind "int", *)
(* "long" (also float), "complex" (also a vector) are values, "pointer" is a      *)
(* pointer variable, "ints" one to integers, "object" the address of a variable   *)
(* of "size" words, "internal" that of one in the memory of the DSP,              *)
(* "unsupported" what is rejected. const: the parameter points to what is const;  *)
(* wo: it points to what is volatile, and is not const; obj: what is pointed to.  *)
(* A pointer variable behind which an array is found is an "object" that is read. *)

\* Integers and pointers are passed in one register file, the others, which take
\* two registers each, in the other.
File(kind) == IF kind \in {"long", "real", "complex"} THEN "float_long" ELSE "pointer_int"
Width(kind) == IF kind = "void" THEN 0 ELSE IF File(kind) = "float_long" THEN 2 ELSE 1

\* The first register of the n-th of values of these kinds; the value returned
\* comes first, then the arguments (mutant: no register is kept for the former).
Advance(kinds, n) ==
  FoldLeft(LAMBDA r, kind : IF File(kind) = File(kinds[n]) THEN r + Width(kind) ELSE r,
           0, SubSeq(kinds, 1, n - 1))
Kinds(call) == <<call.ret>> \o [i \in DOMAIN call.args |-> call.args[i].kind]
SlotNoReturn(call, i) == Advance(Tail(Kinds(call)), i)
Slot(call, i) == Advance(Kinds(call), i + 1)

\* check_pointer: the argument that argument i, an address, repeats, 0 if none.
Pointers == {"pointer", "ints", "object"}
Alias(args, i) ==
  LET same == {j \in 1 .. i - 1 : /\ {args[i].kind, args[j].kind} \subseteq Pointers
                                  /\ args[j].obj = args[i].obj} IN
    IF same = {} THEN 0 ELSE Max(same)

\* What is only written by the DSP: the builtin made for it is not linked in.
Allocated(a) == a.kind = "object" /\ a.wo

Parm(call, i) ==
  [kind |-> "builtin", op |-> "parm", arg |-> i, n |-> Slot(call, i),
   alias |-> Alias(call.args, i)]

Passed(args) == {i \in DOMAIN args : ~Allocated(args[i])}
ParmsOf(call) ==
  [n \in 1 .. Cardinality(Passed(call.args)) |-> Parm(call, Nth(Passed(call.args), n))]

BytesIn(args) ==
  FoldLeft(LAMBDA n, a : n + (IF a.kind = "complex" THEN 8
                              ELSE IF a.kind = "object" /\ ~a.wo THEN 4 + 4 * a.size
                              ELSE 4), 0, args)
BytesOut(args) ==
  FoldLeft(LAMBDA n, a : IF a.kind \in {"pointer", "object"} /\ ~a.const /\ ~Allocated(a)
                           THEN n + 4 ELSE n, 0, args)

If(cond, op, n) == IF cond THEN <<Builtin(op, NoUnit, n)>> ELSE <<>>

NOWAIT_FUNC == 65536

\* What diopsis_replace_call_tree_tsi links before a call.
Emitted(call, nowait) ==
  If(DspStat, "stats_begin", 0)
    \o <<Builtin("rpc", NoUnit, hartes_rpc_uid + IF nowait THEN NOWAIT_FUNC ELSE 0)>>
    \o ParmsOf(call)
    \o If(\E i \in Passed(call.args) : File(call.args[i].kind) = "pointer_int", "pre_exec", 0)
    \o If(DspStat /\ call.args # <<>>, "stats_parmin", BytesIn(call.args))
    \o <<Builtin(IF nowait THEN "exec_nowait" ELSE "exec", NoUnit, 0)>>
    \o If(DspStat, "stats_exec", 0)
    \o If(~nowait, "rpc_end", hartes_rpc_uid)
    \o If(~nowait /\ DspStat /\ BytesOut(call.args) # 0, "stats_parmout", BytesOut(call.args))
    \o If(~nowait /\ call.form = "modify", "ret", 0)

--------------------------------------------------------------------------------
Init == /\ WalkInit
        /\ pragma_on_call = NoUnit
        /\ pragma_on_call_magic = NoUnit
        /\ behind = FALSE
        /\ hartes_rpc_uid = 0
        /\ left = NoUnit

Walk == /\ ~behind
        /\ Execute \/ Finish \/ Leave \/ Enter \/ Pass("other")
        /\ UNCHANGED dspVars

\* A statement list or a statement without a call behind a dummy is not looked into.
PassBehind == /\ behind
              /\ Pass("other") \/ Pass("nest")
              /\ behind' = FALSE
              /\ UNCHANGED <<pragma_on_call, pragma_on_call_magic, hartes_rpc_uid, left>>

\* A builtin of the pass itself: a call without a pragma, and not of molen_dummy.
PassBuiltin == /\ ~behind
               /\ Pass("builtin")
               /\ pragma_on_call' = NoUnit
               /\ left' = NoUnit
               /\ UNCHANGED <<pragma_on_call_magic, behind, hartes_rpc_uid>>

\* A dummy named after the DSP is taken out; the loop goes on with the statement
\* behind it as if it were the dummy.
DummyDsp == /\ At("dummy") /\ ~behind /\ Stmt.unit \in NamedDsp
            /\ list' = [list EXCEPT ![L] = RemoveAt(@, I)]
            /\ MoveTo(Delinked(list[L], I))
            /\ behind' = (Delinked(list[L], I) # 0)
            /\ pragma_on_call' = Stmt.unit
            /\ pragma_on_call_magic' = Stmt.unit
            /\ UNCHANGED <<program, func, status, hartes_rpc_uid, left>>

\* Any other dummy stays for the next pass (mutant: what it says of its call is
\* forgotten).
DummyForgotten == /\ Pass("dummy") /\ ~behind
                  /\ Stmt.unit \notin NamedDsp
                  /\ pragma_on_call_magic = NoUnit
                  /\ left' = NoUnit
                  /\ UNCHANGED <<pragma_on_call, pragma_on_call_magic, behind, hartes_rpc_uid>>
DummyOther == /\ Pass("dummy") /\ ~behind
              /\ Stmt.unit \notin NamedDsp
              /\ pragma_on_call_magic = NoUnit
              /\ pragma_on_call' = Stmt.unit
              /\ left' = NoUnit
              /\ UNCHANGED <<pragma_on_call_magic, behind, hartes_rpc_uid>>

--------------------------------------------------------------------------------
\* The values attr may have: it is assigned only where no dummy has named a
\* component, and holds nothing or what it held for an earlier call otherwise.
Attrs == IF pragma_on_call_magic # NoUnit THEN {NoUnit, left} ELSE {Stmt.attr}

\* Does a pragma of the call ask for nowait?
Asks(attr) == {attr, pragma_on_call_magic} \cap NoWait # {}

\* The statement is a call mapped on the unit u (mutant: the dummy's pragma stays).
MappingKept(u, nowait) ==
  /\ \E attr \in Attrs :
       /\ u = IF attr # NoUnit THEN attr ELSE pragma_on_call_magic
       /\ nowait = Asks(attr)
       /\ left' = attr
  /\ behind' = FALSE
  /\ UNCHANGED <<program, func, pragma_on_call_magic>>

Mapping(u, nowait) ==
  /\ \E attr \in Attrs :
       /\ u = IF attr # NoUnit THEN attr ELSE pragma_on_call_magic
       /\ nowait = Asks(attr)
       /\ left' = attr
  /\ pragma_on_call_magic' = NoUnit
  /\ behind' = FALSE
  /\ UNCHANGED <<program, func>>

\* A dummy behind one whose call has not come is taken for the call; its argument
\* cannot be passed to a DSP.
DummyAsCall ==
  /\ At("dummy")
  /\ pragma_on_call_magic # NoUnit
  /\ behind \/ Stmt.unit \notin NamedDsp
  /\ \E u \in {left, pragma_on_call_magic}, nowait \in BOOLEAN :
       /\ Mapping(u, nowait)
       /\ IF u \in Dsp THEN status' = "unsupported" /\ UNCHANGED stack
          ELSE Continue(list[L], I) /\ UNCHANGED status
  /\ pragma_on_call' = IF behind THEN pragma_on_call ELSE Stmt.unit
  /\ UNCHANGED <<list, hartes_rpc_uid>>

\* The call of a function of the processor, between two calls of the statistics
\* (mutant: the first comes behind it).
TimedLate(s, i) ==
  LinkedBefore(s, i + 1, <<Builtin("stats_begin", NoUnit, 1), Builtin("stats_exec", NoUnit, 1)>>)
Timed(s, i) == LinkedBefore(LinkedBefore(s, i + 1, <<Builtin("stats_exec", NoUnit, 1)>>),
                            i, <<Builtin("stats_begin", NoUnit, 1)>>)

CallGpp ==
  /\ At("call") /\ pragma_on_call_magic = NoUnit /\ Stmt.attr = NoUnit
  /\ IF GppStat /\ pragma_on_call = NoUnit
       THEN list' = [list EXCEPT ![L] = Timed(@, I)] /\ Continue(list'[L], I + 1)
       ELSE Continue(list[L], I) /\ UNCHANGED list
  /\ pragma_on_call' = NoUnit
  /\ left' = NoUnit
  /\ UNCHANGED <<program, func, status, pragma_on_call_magic, behind, hartes_rpc_uid>>

\* The unit is no DSP: the function returns at once.
CallOther ==
  /\ At("call")
  /\ \E u \in {Stmt.attr, left, pragma_on_call_magic} \ (Dsp \cup {NoUnit}), nowait \in BOOLEAN :
       Mapping(u, nowait)
  /\ Continue(list[L], I)
  /\ UNCHANGED <<list, status, pragma_on_call, hartes_rpc_uid>>

Supported(call) ==
  /\ call.ret \in {"void", "int", "long", "real", "complex", "pointer"}
  /\ \A i \in DOMAIN call.args : call.args[i].kind # "unsupported"

\* Mutant: the identity is not used up.
CallBlockingSame ==
  /\ At("call") /\ Supported(Stmt)
  /\ \E u \in Dsp : Mapping(u, FALSE)
  /\ Replace(Emitted(Stmt, FALSE))
  /\ pragma_on_call' = NoUnit
  /\ UNCHANGED <<status, hartes_rpc_uid>>

CallBlocking ==
  /\ At("call") /\ Supported(Stmt)
  /\ \E u \in Dsp : Mapping(u, FALSE)
  /\ Replace(Emitted(Stmt, FALSE))
  /\ hartes_rpc_uid' = hartes_rpc_uid + 1
  /\ pragma_on_call' = NoUnit
  /\ UNCHANGED status

CallNowait ==
  /\ At("call") /\ Supported(Stmt) /\ Stmt.form = "expr"
  /\ \E u \in Dsp : Mapping(u, TRUE)
  /\ Replace(Emitted(Stmt, TRUE))
  /\ UNCHANGED <<status, pragma_on_call, hartes_rpc_uid>>

\* diopsis_error on an argument, on the type returned, or on nowait.
CallUnsupported ==
  /\ At("call")
  /\ \E u \in Dsp, nowait \in BOOLEAN :
       /\ Mapping(u, nowait)
       /\ ~Supported(Stmt) \/ (nowait /\ Stmt.form = "modify")
  /\ status' = "unsupported"
  /\ UNCHANGED <<list, stack, pragma_on_call, hartes_rpc_uid>>

Step == \/ Walk \/ PassBehind \/ PassBuiltin
        \/ DummyDsp \/ DummyOther \/ DummyAsCall
        \/ CallGpp \/ CallOther \/ CallBlocking \/ CallNowait \/ CallUnsupported

\* The compiler has left the pass for good.
Stopped == status # "walk" /\ UNCHANGED vars

Spec == Init /\ [][Step \/ Stopped]_vars /\ WF_vars(Step)

--------------------------------------------------------------------------------

Rpc(u) == Builtin("rpc", NoUnit, 0)

\* The pragmas of the program are written where the pass can tell them apart: in
\* front of calls only, or for DSP units on declarations only.
PragmasApart ==
  LET all == UNION {ToSet(program.lists[l]) : l \in DOMAIN program.lists} IN
    /\ \A l \in DOMAIN program.lists : DummiesEmbedded(program.lists[l])
    /\ \/ \A st \in all : st.kind = "dummy" => st.unit \notin NamedDsp
       \/ \A st \in all : st.kind = "call" => st.attr = NoUnit

\* Every call a pragma maps on a DSP is replaced, once and at its place, and no
\* other call is; the dummies of the DSP are gone and those of other units stay.
Rewritten ==
  status = "done" =>
    \A l \in DOMAIN list :
      LET s == Reduced(list[l], "rpc") IN
        [k \in DOMAIN s |-> IF s[k].kind = "builtin" THEN Rpc(0) ELSE s[k]]
          = Wanted(program, l, Dsp, Rpc)

\* So it is wherever the pragmas can be told apart.
RewrittenApart == PragmasApart => Rewritten

\* What is neither a call nor a dummy of the DSP stays, in its place, whatever the
\* program and wherever its dummies stand.
Rest == {st \in StatementsOf(program) :
           /\ st.kind \notin {"builtin", "call", "assigned"}
           /\ st.kind = "dummy" => st.unit \notin NamedDsp}
RestKept == status = "done" => \A l \in DOMAIN list : SameIn(list[l], program.lists[l], Rest)

\* The builtins linked in for the n-th replaced call of a list.
Group(s, n) ==
  LET opens == {j \in DOMAIN s : s[j].kind = "builtin" /\ s[j].op = "rpc"}
      b == CHOOSE j \in opens : Cardinality({k \in opens : k <= j}) = n
      closes == {j \in b + 1 .. Len(s) : s[j].kind # "builtin" \/ s[j].op \in {"rpc", "stats_begin"}}
  IN SubSeq(s, b, IF closes = {} THEN Len(s) ELSE Min(closes) - 1)

\* The registers of a file from n for a value.
Registers(kind, n) == {File(kind)} \X (n .. n + Width(kind) - 1)

\* g calls a function of the DSP as the source does: before it starts, every
\* argument is put, once, in registers of its own and not those of the value; only an
\* array that is only written is not passed at all: its builtin is built and not linked in.
\* What is said to repeat another argument repeats one in front of it, of the same
\* object, passed if it is one to pass; registers of the first file are announced; a
\* blocking call is closed under the identity it was opened with after it was
\* started, and the value fetched last.
CallsDsp(g, call, nowait) ==
  LET at(op) == {j \in DOMAIN g : g[j].op = op}
      parms == at("parm")
      exec == IF nowait THEN "exec_nowait" ELSE "exec"
      reg(j) == Registers(call.args[g[j].arg].kind, g[j].n) IN
    /\ at("rpc") = {1}
    /\ Cardinality(at("exec") \cup at("exec_nowait")) = 1 /\ at(exec) # {}
    /\ \A i \in DOMAIN call.args :
         Cardinality({j \in parms : g[j].arg = i}) = IF Allocated(call.args[i]) THEN 0 ELSE 1
    /\ \A j \in parms, e \in at(exec) : j < e
    /\ \A j \in parms : reg(j) \cap Registers(call.ret, 0) = {}
    /\ \A j, k \in parms : j # k => reg(j) \cap reg(k) = {}
    /\ \A j \in parms : g[j].alias # 0 =>
         LET a == call.args[g[j].alias] IN
           /\ g[j].alias < g[j].arg /\ a.obj = call.args[g[j].arg].obj
           /\ Allocated(a) \/ \E k \in parms : k < j /\ g[k].arg = g[j].alias
    /\ (\E j \in parms : File(call.args[g[j].arg].kind) = "pointer_int") =>
         \E p \in at("pre_exec") : (\A j \in parms : j < p) /\ \A e \in at(exec) : p < e
    /\ IF nowait THEN at("rpc_end") = {} /\ at("ret") = {}
       ELSE /\ \E e \in at("rpc_end") : g[e].n = g[1].n /\ \A x \in at(exec) : x < e
            /\ at("ret") = IF call.form = "modify" THEN {Len(g)} ELSE {}

\* A replaced call is, in the end, a remote call of its function.
CallProtocol ==
  status = "done" /\ PragmasApart =>
    \A l \in DOMAIN list : \A n \in 1 .. ReplacedCalls(program, l, Dsp) :
      LET k == NthReplaced(program, l, n, Dsp) IN
        CallsDsp(Group(list[l], n), program.lists[l][k], Mapped(program, l, k, Dsp) \in NoWait)

Opens(l) == {k \in DOMAIN list[l] : list[l][k].kind = "builtin" /\ list[l][k].op = "rpc"}

\* No two calls the processor waits for are opened under one identity.
UidsUnique ==
  status = "done" =>
    \A l, m \in DOMAIN list : \A j \in Opens(l), k \in Opens(m) :
      list[l][j].n = list[m][k].n /\ list[l][j].n < NOWAIT_FUNC => l = m /\ j = k

\* A list as it should be but for the remote calls: every call of a function of the
\* processor is timed by itself.
WantedGpp(l) ==
  LET src == program.lists[l]
      gpp(k) == src[k].kind = "call" /\ Mapped(program, l, k, Nat) = NoUnit IN
    FlattenSeq([k \in DOMAIN src |->
      IF src[k].kind = "dummy" /\ src[k].unit \in Dsp THEN <<>>
      ELSE IF Replaced(program, l, k, Dsp) THEN IF src[k].form = "expr" THEN <<>> ELSE <<Assigned>>
      ELSE IF GppStat /\ gpp(k)
        THEN <<Builtin("stats_begin", NoUnit, 1), src[k], Builtin("stats_exec", NoUnit, 1)>>
      ELSE <<src[k]>>])

\* -fgppstat times every call no pragma maps, and no other. The code does not: behind
\* a nowait call with a pragma of its own the next call of the processor is not timed.
GppStats ==
  status = "done" /\ PragmasApart =>
    \A l \in DOMAIN list :
      SelectSeq(list[l], LAMBDA st : st.kind = "builtin" =>
                                       st.op \in {"stats_begin", "stats_exec"} /\ st.n = 1)
        = WantedGpp(l)

\* Every call with a pragma of its own for a unit named like a DSP is one of a DSP, and
\* waited for: replacing it gets to the end of diopsis_replace_call_tree_tsi.
PragmasWaited ==
  \A st \in StatementsOf(program) :
    st.kind = "dummy" /\ st.unit \in NamedDsp => st.unit \in Dsp /\ st.unit \notin NoWait

\* Where none of the calls with a pragma of their own returns early, leaving
\* pragma_on_call to the next call, every call no pragma maps is timed, and no other.
GppStatsWaited == PragmasWaited => GppStats

\* The compiler gives up a program only for a call mapped on a DSP that it cannot
\* pass on: a value of another type, such an argument, or a value of a nowait call.
ErrorsJustified ==
  status = "unsupported" /\ PragmasApart =>
    \E l \in DOMAIN program.lists : \E k \in DOMAIN program.lists[l] :
      LET st == program.lists[l][k] IN
        /\ Replaced(program, l, k, Dsp)
        /\ \/ st.ret = "record"
           \/ \E i \in DOMAIN st.args : st.args[i].kind = "unsupported"
           \/ st.form = "modify" /\ Mapped(program, l, k, Dsp) \in NoWait

\* The pass ends.
Ends == <>(status # "walk")
================================================================================
