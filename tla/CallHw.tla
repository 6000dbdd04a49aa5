--------------------------------- MODULE CallHw ---------------------------------
(* How a "#pragma map call_hw <component> <id>" gets from the source text to the   *)
(* passes. The pragma handler (gcc/config/microblaze/microblaze.c) keeps it in     *)
(* call_hw_tree; outside of functions the next declaration takes it from there, as *)
(* an attribute and, for a DSP, as a weak reference to the text of the DSP; in a   *)
(* function body the parser (gcc/c-parser.c) links a call of                       *)
(* __builtin_molen_dummy into the statements instead.                              *)
(*                                                                                *)
(* The source is read item by item; a pragma or declaration is told by its place.  *)
(*   Pragma(c)      well-formed, of the component c                               *)
(*   Malformed(c)   one without an id; c is NoComp when it has no component either *)
(*   OtherPragma    of another registered kind, like "#pragma weak"                *)
(*   Declare(what, call)  a declaration of a "function", "variable" or "type"; call: *)
(*                  its initializer calls a function                              *)
(*   Define, End    the head and the closing brace of a function                  *)
(*   Statement(call)  an expression statement                                     *)
EXTENDS Integers, Sequences, FiniteSets, SequencesExt

CONSTANTS
  Items,       \* what the source is made of
  MaxItems,    \* bound on its length
  DspNames     \* components that microblaze_check_dsp accepts

ASSUME MaxItemsAssumption == MaxItems \in Nat

NoComp == "(null)"
Pragma(c) == [kind |-> "pragma", comp |-> c]

\* A well-formed pragma names its component.
ASSUME ItemsAssumption == Pragma(NoComp) \notin Items

Malformed(c) == [kind |-> "malformed", comp |-> c]
OtherPragma == [kind |-> "otherPragma"]
Declare(what, call) == [kind |-> "declare", what |-> what, call |-> call]
Define == [kind |-> "define", what |-> "function"]
End == [kind |-> "end"]
Statement(call) == [kind |-> "statement", call |-> call]

VARIABLES
  source,         \* the items read
  optimize,       \* whether the optimization level is at least 1
  cfun,           \* the definition of the function that is read, or 0
  call_hw_tree,   \* the pragma that waits for a declaration, or 0
  call_hw_comp,   \* the component of the last pragma
  attribute,      \* <<d, p>>: declaration d has the attribute of pragma p
  weakref,        \* declarations that refer to the DSP
  dspconf,        \* functions written to the .dspconf file
  body,           \* dummies and calls of function bodies: <<f, p>> the dummy of
                  \* pragma p, <<f, 0>> a call
  pragma_found, call_found, decl_found,  \* since the last semicolon
  reported,       \* pragmas said to be "not on a function decl/call"
  status          \* "reading", "done", "ice" (assertion failed), "crash"

declVars == <<call_hw_tree, call_hw_comp, attribute, weakref, dspconf>>
flagVars == <<pragma_found, call_found, decl_found, reported>>
vars == <<source, optimize, cfun, declVars, body, flagVars, status>>

Init == /\ source = <<>>
        /\ optimize \in BOOLEAN
        /\ cfun = 0
        /\ call_hw_tree = 0
        /\ call_hw_comp = NoComp
        /\ attribute = {}
        /\ weakref = {}
        /\ dspconf = {}
        /\ body = <<>>
        /\ pragma_found = 0 /\ call_found = FALSE /\ decl_found = FALSE
        /\ reported = {}
        /\ status = "reading"

\* The next item.
Here == Len(source) + 1
Read(item) == /\ status = "reading" /\ Len(source) < MaxItems
              /\ item \in Items
              /\ source' = Append(source, item)
              /\ UNCHANGED optimize

--------------------------------------------------------------------------------
(* Pragmas: microblaze_pragma_call_hw, then c_parser_pragma.                      *)

\* Whatever the pragma was: is one waiting now, a dummy is added (outside of functions
\* to a list nobody reads), and it only goes on waiting outside of functions.
\* Mutant: it goes on waiting in a function, too.
AfterHandlerKept(waiting) ==
  /\ pragma_found' = IF waiting # 0 THEN waiting ELSE pragma_found
  /\ body' = IF waiting # 0 /\ cfun # 0 THEN Append(body, <<cfun, waiting>>) ELSE body
  /\ call_hw_tree' = waiting
  /\ UNCHANGED <<cfun, attribute, weakref, dspconf, call_found, decl_found, reported>>
AfterHandler(waiting) ==
  /\ pragma_found' = IF waiting # 0 THEN waiting ELSE pragma_found
  /\ body' = IF waiting # 0 /\ cfun # 0 THEN Append(body, <<cfun, waiting>>) ELSE body
  /\ call_hw_tree' = IF cfun # 0 THEN 0 ELSE waiting
  /\ UNCHANGED <<cfun, attribute, weakref, dspconf, call_found, decl_found, reported>>

\* A second pragma must not meet one that waits: gcc_assert.
ReadPragma(c) ==
  /\ Read(Pragma(c))
  /\ call_hw_comp' = c
  /\ IF call_hw_tree # 0
       THEN /\ status' = "ice"
            /\ UNCHANGED <<cfun, call_hw_tree, attribute, weakref, dspconf, body, flagVars>>
       ELSE AfterHandler(Here) /\ UNCHANGED status

\* "ignoring malformed pragma"; its component has been read into call_hw_comp.
ReadMalformed(c) == /\ Read(Malformed(c))
                    /\ call_hw_comp' = c
                    /\ AfterHandler(call_hw_tree)
                    /\ UNCHANGED status

ReadOtherPragma == /\ Read(OtherPragma)
                   /\ AfterHandler(call_hw_tree)
                   /\ UNCHANGED <<call_hw_comp, status>>

--------------------------------------------------------------------------------
(* Declarations: microblaze_insert_attributes. A type is none that takes a pragma. *)

\* Mutant: a variable leaves the pragma to the function behind it.
TakesFunction(what) == call_hw_tree # 0 /\ what = "function"
Takes(what) == call_hw_tree # 0 /\ what \in {"function", "variable"}

\* Mutant: the attribute is set at every optimization level.
AttributeAlways(what) == what = "function"
Attribute(what) == what = "function" /\ optimize

\* The attribute is left out without optimization, the reference to the DSP is not.
\* A component of NULL does not survive the comparison of its name.
InsertAttributes(what) ==
  IF ~Takes(what) THEN UNCHANGED <<declVars, status>>
  ELSE /\ attribute' = IF Attribute(what) THEN attribute \cup {<<Here, call_hw_tree>>}
                       ELSE attribute
       /\ call_hw_tree' = 0
       /\ call_hw_comp' = NoComp
       /\ weakref' = IF call_hw_comp \in DspNames THEN weakref \cup {Here} ELSE weakref
       /\ dspconf' = IF what = "function" /\ call_hw_comp \in DspNames
                       THEN dspconf \cup {Here} ELSE dspconf
       /\ status' = IF call_hw_comp = NoComp THEN "crash" ELSE status

\* The semicolon ends what the pragma was in front of.
\* Mutant: the pragma is forgotten when it is reported only.
SemicolonKept(call, decl) ==
  /\ reported' = IF pragma_found # 0 /\ ~call /\ ~decl THEN reported \cup {pragma_found}
                 ELSE reported
  /\ pragma_found' = IF call \/ decl THEN pragma_found ELSE 0
  /\ call_found' = FALSE /\ decl_found' = FALSE
Semicolon(call, decl) ==
  /\ reported' = IF pragma_found # 0 /\ ~call /\ ~decl THEN reported \cup {pragma_found}
                 ELSE reported
  /\ pragma_found' = 0 /\ call_found' = FALSE /\ decl_found' = FALSE

AddCall(call) == body' = IF call /\ cfun # 0 THEN Append(body, <<cfun, 0>>) ELSE body

ReadDeclaration(what, call) ==
  /\ Read(Declare(what, call))
  /\ call => cfun # 0 /\ what = "variable"
  /\ InsertAttributes(what)
  /\ AddCall(call)
  /\ Semicolon(call_found \/ call, TRUE)
  /\ UNCHANGED cfun

ReadDefinition ==
  /\ Read(Define) /\ cfun = 0
  /\ InsertAttributes("function")
  /\ cfun' = Here
  /\ decl_found' = TRUE
  /\ UNCHANGED <<body, pragma_found, call_found, reported>>

ReadStatement(call) ==
  /\ Read(Statement(call)) /\ cfun # 0
  /\ AddCall(call)
  /\ Semicolon(call_found \/ call, decl_found)
  /\ UNCHANGED <<cfun, declVars, status>>

ReadEnd == /\ Read(End) /\ cfun # 0
           /\ cfun' = 0
           /\ UNCHANGED <<declVars, body, flagVars, status>>

EndOfFile == /\ status = "reading" /\ cfun = 0
             /\ status' = "done"
             /\ UNCHANGED <<source, optimize, cfun, declVars, body, flagVars>>

Stopped == status # "reading" /\ UNCHANGED vars
Full == Len(source) = MaxItems /\ cfun # 0 /\ UNCHANGED vars

Components == {item.comp : item \in {i \in Items : i.kind \in {"pragma", "malformed"}}}

Next == \/ \E c \in Components : ReadPragma(c) \/ ReadMalformed(c)
        \/ ReadOtherPragma
        \/ \E what \in {"function", "variable", "type"}, call \in BOOLEAN :
             ReadDeclaration(what, call)
        \/ ReadDefinition
        \/ \E call \in BOOLEAN : ReadStatement(call)
        \/ ReadEnd \/ EndOfFile \/ Stopped \/ Full

Spec == Init /\ [][Next]_vars

--------------------------------------------------------------------------------
(* What the source asks for.                                                      *)

Places(kind) == {k \in DOMAIN source : source[k].kind = kind}

\* The function whose body item k stands in, or 0.
FunctionOf(k) ==
  LET F == {f \in Places("define") : f < k /\ ~\E e \in Places("end") : f < e /\ e < k} IN
    IF F = {} THEN 0 ELSE Max(F)

FilePragmas == {p \in Places("pragma") : FunctionOf(p) = 0}

\* Declarations of functions and variables outside of functions.
Declarations == {d \in Places("declare") \cup Places("define") :
                   source[d].what # "type" /\ FunctionOf(d) = 0}

\* The declaration a pragma outside of functions is on: the next one, whatever types
\* are declared between them.
On(p, d) == p < d /\ ~\E x \in Declarations : p < x /\ x < d

--------------------------------------------------------------------------------

\* No pragma waits in a function body: none in front of a function reaches a
\* declaration in its body, none of the body one behind it.
NothingWaitsInBody == cfun # 0 /\ status = "reading" => call_hw_tree = 0

\* Item k is the last in front of d that has a component read into call_hw_comp.
Names(k) == source[k].kind \in {"pragma", "malformed"}
NamedLast(k, d) == /\ k < d /\ Names(k)
                   /\ \A j \in DOMAIN source : j < d /\ Names(j) => j <= k

\* The attributes and references to the DSP the source asks for.
AttributesAsked ==
  {dp \in Declarations \X FilePragmas :
     optimize /\ source[dp[1]].what = "function" /\ On(dp[2], dp[1])}
ReferencesAsked ==
  {d \in Declarations : \E p \in FilePragmas : On(p, d) /\ source[p].comp \in DspNames}

\* A function has the attribute of the pragma it is the next declaration behind, and
\* no other.
AttributeOfOwnPragma == status \in {"reading", "done"} => attribute = AttributesAsked

\* The references a declaration gets for the component read last when a pragma is on it.
ReferencesRead ==
  {d \in Declarations :
     /\ \E p \in FilePragmas : On(p, d)
     /\ \E k \in DOMAIN source : NamedLast(k, d) /\ source[k].comp \in DspNames}

\* A declaration refers to the DSP when there is a pragma on it and the component read
\* last in front of it, be it that of a malformed pragma, is a DSP; and else not.
WeakrefOfLastRead == status \in {"reading", "done"} => weakref = ReferencesRead

\* The pragma on d is not said to be ignored for want of optimization.
Heeded(d) == optimize \/ source[d].what # "function"

\* "ignoring malformed pragma": what is declared refers to the DSP when the pragma on
\* it names it.
MalformedIgnored ==
  status \in {"reading", "done"} =>
    {d \in weakref : Heeded(d)} = {d \in ReferencesAsked : Heeded(d)}

\* "ignoring call_hw on optimization level less than O3": a function does not refer to
\* the DSP without optimization.
UnoptimizedIgnored == \A d \in weakref : Heeded(d)

\* Of the two messages of the back end that say a pragma is ignored, one at least is
\* true of a source. Neither is: a malformed pragma leaves its component in
\* call_hw_comp, and without optimization the attribute alone is left out.
OneIgnored == MalformedIgnored \/ UnoptimizedIgnored

\* Item k calls a function, and ends a statement, in the body it stands in.
Calls(k) == source[k].kind \in {"statement", "declare"} /\ source[k].call
EndsStatement(k) == source[k].kind \in {"statement", "declare"}

Dummies(p) == {k \in DOMAIN body : body[k][2] = p}
CallsBefore(d) == {k \in 1 .. d : body[k][2] = 0}

\* A pragma of a function leaves one dummy, in this function, behind the calls it was
\* written behind; one outside of functions leaves none.
InPlace(p) ==
  IF FunctionOf(p) = 0 THEN Dummies(p) = {}
  ELSE \E d \in Dummies(p) :
         /\ Dummies(p) = {d} /\ body[d][1] = FunctionOf(p)
         /\ Cardinality(CallsBefore(d)) = Cardinality({k \in 1 .. p : Calls(k)})

\* Every pragma has the dummies it should have, and each stands between the calls
\* the pragma was written between.
DummyInPlace == \A p \in Places("pragma") : InPlace(p)

\* The assertion fails only for two pragmas outside of functions that are on the same
\* declaration; the name of no component is compared only after a malformed pragma.
ErrorsJustified ==
  /\ status = "ice" => \E p, q \in FilePragmas :
                         p < q /\ ~\E d \in Declarations : p < d /\ d < q
  /\ status = "crash" => \E m \in Places("malformed") : source[m].comp = NoComp
  /\ \A p, q \in FilePragmas : p < q /\ status \in {"reading", "done"} =>
       \E d \in Declarations : p < d /\ d < q

\* Only a pragma is reported behind which there is neither call nor declaration up to
\* the end of its statement.
ReportedJustified ==
  \A p \in reported :
    LET ends == {k \in DOMAIN source : k > p /\ EndsStatement(k)} IN
      ends # {} /\ source[Min(ends)] = Statement(FALSE)
--------------------------------------------------------------------------------
(* The inductive invariant behind them.                                           *)

\* The function that is read is the only one without an end.
OpenFunction ==
  /\ \A f \in Places("define") \ {cfun} : \E e \in Places("end") : f < e
  /\ cfun # 0 => cfun \in Places("define") /\ \A e \in Places("end") : e < cfun

\* The pragma that waits is the last one outside of functions, no declaration is behind
\* it, and the component kept is the one read last; when none waits, every one has met
\* a declaration.
Waiting ==
  /\ call_hw_tree = 0 => \A p \in FilePragmas : \E d \in Declarations : p < d
  /\ call_hw_tree # 0 =>
       /\ cfun = 0
       /\ call_hw_tree \in FilePragmas
       /\ \A d \in Declarations : d < call_hw_tree
       /\ \E k \in DOMAIN source : NamedLast(k, Here) /\ call_hw_comp = source[k].comp
       /\ call_hw_comp = NoComp =>
            \E m \in Places("malformed") : source[m].comp = NoComp

\* Two pragmas outside of functions have a declaration between them.
Apart == \A p, q \in FilePragmas : p < q => \E d \in Declarations : p < d /\ d < q

\* What the reader of the source keeps true, inductively.
PragmaInv == /\ source \in Seq(Items)
             /\ OpenFunction
             /\ status \in {"reading", "done"} => Waiting /\ Apart
             /\ AttributeOfOwnPragma
             /\ WeakrefOfLastRead
             /\ ErrorsJustified

\* What the bodies hold are the calls read so far and dummies of pragmas read.
BodyInv == /\ body \in Seq((0 .. Len(source)) \X (0 .. Len(source)))
           /\ Cardinality(CallsBefore(Len(body)))
                = Cardinality({k \in 1 .. Len(source) : Calls(k)})
           /\ DummyInPlace

\* Item e is the first behind p to end a statement.
FirstEnd(p, e) == /\ e > p /\ EndsStatement(e)
                  /\ \A k \in DOMAIN source : k > p /\ EndsStatement(k) => e <= k

\* In a body no statement has ended behind the pragma found last, unless the body
\* began behind it.
ReportInv ==
  /\ \A p \in reported : p \in Nat /\ \E e \in DOMAIN source :
       FirstEnd(p, e) /\ source[e] = Statement(FALSE)
  /\ status = "reading" /\ cfun # 0 /\ pragma_found # 0 /\ ~decl_found =>
       /\ pragma_found \in DOMAIN source
       /\ \A k \in DOMAIN source : k > pragma_found => ~EndsStatement(k)
================================================================================
