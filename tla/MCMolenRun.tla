------------------------------- MODULE MCMolenRun -------------------------------
(* Constructs for TLC: every section picks one of the bodies below, section s    *)
(* offloads its calls to unit s.                                                 *)
EXTENDS MolenRun

S(op, u) == [op |-> op, id |-> u, lab |-> 0]
L(op, l) == [op |-> op, id |-> 0, lab |-> l]

Plain == <<S("plain", 0)>>
Call(u) == <<S("movet", u), S("exec", u), S("break", u), S("movef", u)>>
Label(l) == <<L("label", l)>>
Goto(l) == <<L("goto", l)>>
Cond(l) == <<L("cond", l)>>

\* No jumps backwards.
Forward(u) == {
  <<>>,
  Plain \o Call(u) \o Plain,
  Call(u) \o Call(u),
  Cond(1) \o Call(u) \o Label(1) \o Plain,
  Goto(1) \o Label(2) \o Plain \o Label(1) \o Call(u) \o Plain,
  Call(u) \o Goto(1) \o Plain \o Label(1) }

\* do and while loops as the front end lowers them.
Loops(u) == {
  Label(1) \o Call(u) \o Cond(1) \o Label(2),
  Call(u) \o Goto(1) \o Label(2) \o Call(u) \o Label(1) \o Cond(2) \o Label(3) }

\* if (c) goto l; written behind the call.
Hidden(u) == { Label(1) \o Call(u) \o Cond(1) }

ProgramsOver(Bodies(_)) == { c \in [Section -> UNION {Bodies(u) : u \in Section}] :
                               \A s \in Section : c[s] \in Bodies(s) }

StructuredPrograms == LET B(u) == Forward(u) \cup Loops(u) IN ProgramsOver(B)
HiddenPrograms == LET B(u) == Forward(u) \cup Hidden(u) IN ProgramsOver(B)

MCUnit == Section
=================================================================================
