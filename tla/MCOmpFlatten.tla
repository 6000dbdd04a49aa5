------------------------------ MODULE MCOmpFlatten ------------------------------
(* Programs for TLC: a construct of two sections in a function, in an arm of a      *)
(* condition, in an OMP_PARALLEL or in another construct, which hold calls of       *)
(* units, jumps, or constructs of their own.                                        *)
EXTENDS OmpFlatten

P(n) == Leaf("plain", n)
B(n) == Leaf("break", n)
J(n) == Leaf("jump", n)

\* Bodies of a section; list numbers 5 to 9 are free for what is nested in them.
Simple(n) == { <<>>, <<P(n), B(n + 1), P(n + 2)>>, <<B(n), J(n + 1), P(n + 2)>>,
               <<J(n), P(n + 1), B(n + 2), B(n + 3)>> }
Nested == { <<P(20), Cond(5, 6), B(21)>>, <<B(20), Parallel(5), P(21)>>,
            <<Sections(<<5>>), B(20), Cond(0, 6)>>, <<P(20), B(21), Cond(5, 0)>>,
            <<Bind(<<5>>), B(20)>> }

\* What the function does with its construct of the sections 3 and 4.
Functions == { << <<P(1), Sections(<<3, 4>>), P(2)>>, <<>> >>,
               << <<Sections(<<3, 4>>)>>, <<>> >>,
               << <<P(1), Cond(0, 2), B(3)>>, <<Sections(<<3, 4>>), P(2)>> >>,
               << <<Parallel(2), P(1)>>, <<B(2), Sections(<<3, 4>>)>> >> }

Inner == << <<P(30), Parallel(7), B(31)>>, <<P(32)>>, <<Sections(<<8, 9>>)>>,
            <<P(34), B(35), P(36)>>, <<B(37)>> >>

TreesOf(bodies) ==
  { f \o <<a, b>> \o Inner : f \in Functions, a \in bodies, b \in Simple(10) }
    \cup { f \o <<b, a>> \o Inner : f \in Functions, a \in bodies, b \in Simple(10) }

\* The lists below 7 that a body does not use are not part of the program.
MCTrees == TreesOf(Simple(15) \cup Nested)
================================================================================
