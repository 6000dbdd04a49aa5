------------------------------ MODULE MCFpgaReplace ------------------------------
(* Programs of two functions for TLC: list 1 is the body of the first, list 2 is *)
(* nested in it, list 3 is the body of the second. Units 0 and 1 are FPGA units,  *)
(* unit 2 is a DSP.                                                               *)
EXTENDS FpgaReplace

Object == [kind |-> "object", size |-> 3, const |-> FALSE]
ConstObject == [kind |-> "object", size |-> 2, const |-> TRUE]
Pointer == [kind |-> "pointer", size |-> 1, const |-> FALSE]
Value == [kind |-> "value", size |-> 1, const |-> FALSE]
Ram == [kind |-> "ram", size |-> 1, const |-> FALSE]

Soft == Call(NoUnit, "expr", "int", <<Value>>)
Hard == Call(0, "expr", "void", <<Object, ConstObject, Value>>)
HardValue == Call(1, "modify", "real", <<Ram, Pointer>>)
Dsp == Call(2, "modify", "int", <<>>)
Pair == Call(1, "modify", "complex", <<>>)

Leafs == {Other, Soft, Hard, HardValue, Dsp, Dummy(1), Dummy(2)}

SeqsUpTo(S, n) == UNION {[1 .. m -> S] : m \in 0 .. n}

\* A dummy of an FPGA unit stands neither first nor last in its list and has a
\* call somewhere behind it in that list.
Embedded(s) ==
  \A k \in DOMAIN s : s[k] = Dummy(1) =>
    k > 1 /\ \E n \in k + 1 .. Len(s) : IsCall(s[n])

Inner == {<<>>, <<Soft, Pair>>, <<Other, Dummy(1), Soft>>, <<HardValue, Dummy(1), Dummy(2), Soft>>}
Second == {<<Soft, Hard>>, <<Other, Dummy(1), Other, Soft>>}

AllPrograms ==
  { [lists |-> <<a, b, c>>, roots |-> <<1, 3>>] :
      a \in {s \in SeqsUpTo(Leafs \cup {Nest(<<2>>)}, 4) :
               Cardinality({k \in DOMAIN s : s[k].kind = "nest"}) = 1},
      b \in Inner, c \in Second }

EmbeddedPrograms ==
  { p \in AllPrograms : \A l \in DOMAIN p.lists : Embedded(p.lists[l]) }

\* What the pass before leaves of a call of a DSP, without and with -fdspstat.
Remote == <<Builtin("rpc", NoUnit, 0), Builtin("exec", NoUnit, 0), Builtin("rpc_end", NoUnit, 0)>>
TimedRemote ==
  <<Builtin("stats_begin", NoUnit, 0), Remote[1], Remote[2],
    Builtin("stats_exec", NoUnit, 0), Remote[3]>>

RemoteBodies(remote) ==
  {FlattenSeq(s) : s \in SeqsUpTo({<<Other>>, <<Soft>>, <<Hard>>, <<Dummy(1)>>, remote}, 3)}

RemotePrograms ==
  { [lists |-> <<Append(a, Nest(<<2>>)), b, <<Soft>> >>, roots |-> <<1, 3>>] :
      a \in {s \in RemoteBodies(Remote) \cup RemoteBodies(TimedRemote) : Embedded(s)},
      b \in {<<>>, <<Other, Dummy(1)>> \o Remote \o <<Soft>>} }

MCPrograms == EmbeddedPrograms \cup RemotePrograms

\* A dummy in front of the only call of a block.
AtHeadPrograms ==
  { [lists |-> <<a, <<Dummy(1), Soft>>, c>>, roots |-> <<1, 3>>] :
      a \in {<<Nest(<<2>>), Other>>, <<Other, Nest(<<2>>)>>},
      c \in {<<Soft>>, <<Other, Dummy(1), Soft>>} }

MCFpga == {0, 1}
==================================================================================
