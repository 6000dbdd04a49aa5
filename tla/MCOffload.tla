-------------------------------- MODULE MCOffload --------------------------------
(* Programs of two functions for TLC: list 1 is the body of the first, list 2 is *)
(* nested in it, list 3 is the body of the second. Units 0 and 1 are DSPs, 1 with *)
(* nowait; 2 and 3 are FPGA units, 3 named like a DSP.                            *)
EXTENDS Offload

Pointer == [kind |-> "pointer", size |-> 1, const |-> FALSE, wo |-> FALSE, obj |-> 1]

Soft == Call(NoUnit, "expr", "int", <<Pointer>>)
Value == Call(NoUnit, "modify", "int", <<>>)
Remote == Call(0, "expr", "void", <<Pointer>>)
RemoteValue == Call(0, "modify", "int", <<>>)
Hard == Call(2, "expr", "void", <<Pointer>>)
HardValue == Call(3, "modify", "int", <<>>)

SeqsUpTo(S, n) == UNION {[1 .. m -> S] : m \in 0 .. n}

Bodies(S, n) ==
  {s \in SeqsUpTo(S \cup {Nest(<<2>>)}, n) : Cardinality({k \in DOMAIN s : s[k] = Nest(<<2>>)}) = 1}

EmbeddedBodies(S, n) == {s \in Bodies(S, n) : DummiesEmbedded(s)}

Of(firsts, seconds, thirds) ==
  { [lists |-> <<a, b, c>>, roots |-> <<1, 3>>] : a \in firsts, b \in seconds, c \in thirds }

ByAttribute ==
  Of(Bodies({Other, Soft, Remote, RemoteValue, Hard, HardValue}, 3),
     {<<>>, <<Remote, Hard>>, <<Soft, Dummy(2), Other, Value, RemoteValue>>},
     {<<HardValue, Remote>>, <<Other, Dummy(2), Soft, Soft>>})
ByDummy ==
  Of(EmbeddedBodies({Other, Soft, Value, Dummy(0), Dummy(2)}, 4),
     {<<>>, <<Dummy(1), Soft, Dummy(2), Value>>, <<Dummy(0), Value, Dummy(3), Soft, Soft>>},
     {<<Soft, Dummy(0), Value, Dummy(2), Soft>>})
\* Pragmas on declarations and on calls.
Mixed == Of({<<Other, Dummy(2), Remote, Nest(<<2>>)>>, <<Hard, Nest(<<2>>), Remote>>},
            {<<>>, <<Dummy(0), Hard>>}, {<<Soft>>})

MCPrograms == ByAttribute \cup ByDummy \cup Mixed
MCNamedDsp == {0, 1, 3}
MCDsp == {0, 1}
MCNoWait == {1}
MCFpga == {2, 3}
==================================================================================
