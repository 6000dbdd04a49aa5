---------------------------- MODULE MCDiopsisReplace ----------------------------
(* Programs of two functions for TLC: list 1 is the body of the first, list 2 is *)
(* nested in it, list 3 is the body of the second. Pragma 0 names the DSP,       *)
(* pragma 1 the DSP with nowait, pragma 2 an FPGA.                               *)
EXTENDS DiopsisReplace

Word == [kind |-> "int", size |-> 1, const |-> FALSE, wo |-> FALSE, obj |-> 0]
Long == [Word EXCEPT !.kind = "long"]
Complex == [Word EXCEPT !.kind = "complex"]
Object == [kind |-> "object", size |-> 3, const |-> FALSE, wo |-> FALSE, obj |-> 1]
ConstObject == [Object EXCEPT !.const = TRUE]
Written == [Object EXCEPT !.wo = TRUE]
Pointer == [Object EXCEPT !.kind = "pointer", !.obj = 2]
Internal == [Object EXCEPT !.kind = "internal", !.obj = 3]
Struct == [Word EXCEPT !.kind = "unsupported"]

Soft == Call(NoUnit, "expr", "int", <<Word>>)
Fir == Call(0, "expr", "void", <<Object, Long, ConstObject, Complex, Word>>)
Gain == Call(0, "modify", "real", <<Pointer, Long, Internal>>)
Sum == Call(NoUnit, "modify", "long", <<Long, Pointer, Pointer>>)
Background == [Fir EXCEPT !.attr = 1]
Fill == Call(0, "expr", "int", <<Word, Written, Pointer, ConstObject>>)
Hard == Call(2, "expr", "void", <<Object>>)
Rec == Call(0, "modify", "record", <<>>)
Odd == Call(NoUnit, "expr", "void", <<Struct>>)

SeqsUpTo(S, n) == UNION {[1 .. m -> S] : m \in 0 .. n}

Block == Nest(<<>>)   \* a nested statement without a call

Bodies(S, n) ==
  {s \in SeqsUpTo(S \cup {Nest(<<2>>)}, n) : Cardinality({k \in DOMAIN s : s[k] = Nest(<<2>>)}) = 1}
EmbeddedBodies(S, n) == {s \in Bodies(S, n) : DummiesEmbedded(s)}

Of(firsts, seconds, thirds) ==
  { [lists |-> <<a, b, c>>, roots |-> <<1, 3>>] : a \in firsts, b \in seconds, c \in thirds }

\* Pragmas on declarations, pragmas on calls, and none of these restrictions.
ByAttribute ==
  Of(EmbeddedBodies({Other, Soft, Fir, Gain, Background, Hard}, 3),
     {<<>>, <<Soft, Gain, Fill>>, <<Dummy(2), Other, Soft, Background>>, <<Rec>>},
     {<<Background, Fir>>, <<Dummy(2), Sum>>})
ByDummy ==
  Of(EmbeddedBodies({Other, Block, Soft, Sum, Dummy(0), Dummy(2)}, 4),
     {<<>>, <<Dummy(1), Sum>>, <<Dummy(1), Soft, Soft>>, <<Dummy(0), Other, Sum, Soft>>,
      <<Dummy(0), Odd>>},
     {<<Soft, Dummy(1), Soft, Dummy(0), Sum>>, <<Dummy(2), Odd>>})
Anyhow ==
  Of(Bodies({Block, Soft, Fir, Gain, Dummy(0), Dummy(1), Dummy(2)}, 3),
     {<<Dummy(0)>>, <<Hard, Other>>, <<Dummy(1), Dummy(0), Sum>>},
     {<<Soft>>, <<Dummy(2), Sum>>})
MCPrograms == ByAttribute \cup ByDummy \cup Anyhow

\* A pragma on a call behind a call of a function with a pragma.
MixedPrograms == Of({<<Hard, Nest(<<2>>)>>}, {<<Dummy(0), Soft>>}, {<<Soft>>})

MCDsp == {0, 1}
MCNoWait == {1}
================================================================================
