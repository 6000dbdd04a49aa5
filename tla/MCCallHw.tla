-------------------------------- MODULE MCCallHw --------------------------------
(* Sources for TLC: any sequence of these items that a C program can have.        *)
EXTENDS CallHw

MCItems == { Pragma("DSP"), Pragma("VIRTEX4"), OtherPragma, Malformed("VIRTEX4"), Malformed(NoComp),
             Declare("function", FALSE), Declare("variable", FALSE),
             Declare("variable", TRUE), Declare("type", FALSE),
             Define, End, Statement(TRUE), Statement(FALSE) }
=================================================================================
