# The hArtes/Molen offload layer of mb-rvex, in TLA+

The repository is a GCC 4.3 tree for the MicroBlaze processor. Almost all of it is
upstream GCC; what is the program's own is the hArtes/Molen layer, which lets a C
program run single function calls on other units of the chip, reconfigurable
units (FPGA, the Molen machine) or a DSP (Diopsis): `gcc/fpga.c`, `gcc/diopsis.c`,
`gcc/hxml.c`, `gcc/fpga-config.c`, `gcc/fpga-pass-utils.c`, and changes to the C
parser, the pragma table, the builtins, the pass order and the MicroBlaze back
end. This project models that layer.

## Inventory

The way of an offloaded call through the compiler:

    #pragma call_hw UNIT id [args]
            |
            |  pragma handler (microblaze.c)      keeps the pending pragma
            |  C parser (c-parser.c)              attribute on a declaration, or a call of
            v                                     __builtin_molen_dummy in front of a call
    statement lists of a function
            |  pass_diopsis_replace_calls_tree    calls of DSP units  -> RPC builtins
            |  pass_fpga_replace_calls_tree       calls of FPGA units -> molen builtins
            |  pass_fpga_parallel_optimisation    omp sections -> one list, kernels first
            v
    processor program + units

Both replacing passes ask the hardware description (`hxml.c`, `hartes.xml`) of which
kind a unit is.

| Component | State | Operations | What is hard |
|---|---|---|---|
| FPGA parallel optimisation, `fpga.c` 415-575 | the statement lists of an OMP_SECTIONS, the insertion point, `cnt`, `last_break` | empty the sections into the enclosing list, first what stands before the last `molen_BREAK` of each, then the rest | the code it builds runs several kernels at once; a section must keep its order, its jumps and its units |
| FPGA call replacement, `fpga.c` 52-413 | the walks under way, the lists they edit, the global `fpga_id_dummy`, the global `trx_bytes` | walk the statements of a function; take out dummies; replace calls by builtins | lists are edited under iterators; a unit waits in a global from the dummy to its call; counters outlive the call they count for |
| Diopsis call replacement, `diopsis.c` 263-1367 | the same walk, globals `pragma_on_call`, `pragma_on_call_magic`, `hartes_rpc_uid`, `func_flags`, byte counters, register masks | take out DSP dummies, replace calls by an RPC sequence, blocking or `nowait` | the same, and: early returns that leave globals set, ids shared by unfinished calls |
| Hardware description, `hxml.c`, `hxml.h` | parser state, tables of components, operations, implementations, buses, cursors `current_*` | SAX callbacks, queries | the order of elements in the file; a file read half; queries that move the cursors of the parser |
| `call_hw` front end, `microblaze.c`, `c-parser.c`, `c-pragma.c` | the pending pragma (`call_hw_tree`, `call_hw_comp`), flags of the parser | pragma, declaration, call, `;` | which declaration or call a pragma reaches; a pragma that reaches none |
| Debug and option plumbing, `fpga-config.c`, `fpga-pass-utils.c`, `common.opt` | option variables | print, read an option file | none |
| libgcc runtime (`emutls.c`, `gthr*`, `unwind-dw2-fde.c`, `libgcov.c`) | object lists, thread keys, mutexes | lazy initialisation, registration | threads; upstream code |
| The rest of GCC | | | upstream code |

Components talk through shared trees (statement lists and declarations), through
globals, and through queries of the hardware description. The compiler is one
thread; the concurrency is in the program it emits, where the processor and the
units run beside each other and meet at the molen builtins.

`passes.c` (478-484) calls, for every function, `lower_omp`, then the Diopsis pass, the
FPGA pass and the parallel optimisation. So the second replacement pass walks the
lists the first has left, with its builtins in them; and the parallel optimisation
stands behind the pass that puts OMP_SECTIONS and OMP_PARALLEL into BIND_EXPRs, which its walk
does not enter, so that in the compiler as it is built it finds nothing to do (`NothingToDo`
of `OmpFlatten`).
`FpgaSections`, `MolenRun` and the other half of `OmpFlatten` are about the trees it is
written for.

### What makes each component correct

* Parallel optimisation: the emitted list executes the sections as OpenMP allows;
  nothing is lost or moved twice; a unit is used by one call at a time; every
  kernel is waited for; the construct ends; the kernels do start before the
  processor waits (the point of the pass).
* FPGA replacement: every call mapped on an FPGA unit is replaced, at its place, on
  its unit, and nothing else is touched; the emitted builtins follow the protocol
  of the unit; errors are reported for programs that have them only; the
  statistics of a call are its own; the pass ends.
* Diopsis replacement: the same for DSP units, and `nowait` calls can be told apart
  until they are collected.
* Hardware description: a query answers what the file says of the unit, also when an
  error ended the reading early; the compiler exits over files and questions that give
  it reason to.
* Front end: a pragma reaches the declaration or statement behind it and no other.
* The two replacement passes together: a call is replaced by the pass of its unit, and
  neither takes what belongs to the other.

## Modules

| Module | Models |
|---|---|
| `MolenCode` | the statements of a section once calls are replaced; the shape of loops the C front end builds (`Structured`) |
| `OmpSections` | abstract: the sections of a construct run independently, each in its own order |
| `FpgaSections` | `fpga_omp_sections_opt_1`, one action per iteration of its loops |
| `MolenRun` | the emitted list executed: processor and units, external to the repository, from the use of the builtins |
| `MolenRun_proofs`, `CallHw_proofs`, `OmpFlatten_proofs`, `FpgaReplace_proofs`, `DiopsisReplace_proofs`, `Offload_proofs`, `Hxml_proofs` | the theorems about the module each is named after; those of `MolenRun_proofs` are in three parts, the pass (`FpgaSections`), the order of the run, the units |
| `TreeWalk_proofs` | what the steps of a walk keep, for the proofs of both replacement passes; `Offload_proofs` takes the step lemmas of the two passes from their proof modules |
| `TreeWalk` | what both replacement passes share: statement lists, `tree_stmt_iterator`, the walk of nested lists under editing, and what a program asks for (`Wanted`) |
| `FpgaReplace` | `do_fpga_replace_calls_tree`, `replace_call_tree_tsi`, `expand_parameters` of `fpga.c` |
| `DiopsisReplace` | `do_diopsis_replace_calls_tree`, `diopsis_replace_call_tree_tsi`, `insert_diopsis_api`, `check_pointer`, `expand_parameters` of `diopsis.c` |
| `Offload` | both replacement passes, one behind the other on each function |
| `OmpFlatten` | `fpga_omp_sections_opt`, the walk of `fpga.c` 440-504 over nested constructs, with `FpgaSections` as one step, and what `lower_omp` makes of its input |
| `Hxml` | the callbacks of `hxml.c` over the elements of a file, the tables, and every query |
| `CallHw` | the pragma handler and `microblaze_insert_attributes` of `microblaze.c`, and the places of `c-parser.c` that read or reset what they keep |
| `MC...` | the constructs, programs, files and sources TLC runs each of them on |

`MolenRun` extends `FpgaSections`, which extends `MolenCode`; it instantiates
`OmpSections` under the refinement mapping `pcBar`. `FpgaReplace` and
`DiopsisReplace` extend `TreeWalk`. `Offload` instantiates both over one `TreeWalk`.
`CallHw` stands for the way from the source to the attributes and dummies that are
the input of `TreeWalk`, `Hxml` for the answers that are its constants `Fpga` and `Dsp`.

### State and actions

**FpgaSections.** A statement is named by the section and the position it came from,
`<<s, k>>`. As statements only leave a section at its head, `taken[s]` tells what is
left of it; `out` is what has been linked before `insert_pos`. `Scan` and `ScanEnd`
are the loop that looks for the last `molen_BREAK` (`cnt`, `last_break`), `Hoist` and
`HoistEnd` the loop that empties a section up to there, `Drain` and `DrainEnd` the
second loop over the sections. The last loop of the function has an empty body.

**MolenRun.** When the pass has returned, the processor executes `out` (`ip`). A unit
has an input register `xr`, a kernel that runs or not (`busy`) and a result, which is
told apart by the argument it was computed from. `KernelEnd(u)` may come at any time
beside the processor's steps.

**TreeWalk.** `stack` is the C recursion: one iterator per list being walked. The
recursion into a nested statement is the action `Enter`, which pushes the walks of all
its lists; `Leave` is the end of one. An iterator is a position, 0 for a NULL
pointer; `Delinked`, `Prev` and `Next` are `tsi_delink`, `tsi_prev`, `tsi_next` with
their behaviour at the ends of a list, which is what decides whether a statement is
skipped. `Replace` is the edit of both passes: builtins linked before the call, then
a CALL_EXPR delinked and the iterator stepped back, or the right side of a
GIMPLE_MODIFY_STMT replaced.

**FpgaReplace.** One action per way through `replace_call_tree_tsi`: a dummy of an FPGA
unit, a dummy of another unit, a call kept, replaced, or given up.

**DiopsisReplace.** A DSP dummy is delinked before the call of
`do_diopsis_replace_calls_tree` on it, so that this call finds the statement behind it;
`behind` says that the walk is at such a statement. `attr`, which is read
uninitialised when a dummy has named the component, is a choice between nothing and what
it last held (`Attrs`); a stack that holds anything else makes the compiler fail. A
remote call is the sequence `Emitted`; registers are numbered as the two counters
`pointer_int_arg_advance` and `float_long_arg_advance` count them.

**Offload.** The state of the walk is shared, the globals of each pass are its own. `func`
counts the functions of the second pass, `dspFunc` those of the first; which pass moves
follows from them (`DspTurn`), as `execute_pass_list` runs the passes function by
function. To the FPGA pass a builtin of the first pass is a call without a pragma
(`PassBuiltin`), or the call of a dummy that waits (`BuiltinReplaced`): with a pragma for
an FPGA unit in front of a call whose declaration names a DSP, the opening of the remote
call is replaced. The programs of `fpga_replace` have such lists.

**OmpFlatten.** `stack` holds the calls of `fpga_omp_sections_opt`, each with its list, its
iterator and whether the bodies of the statement it is at are done. The bodies of
OMP_SECTION and the arms of COND_EXPR are statement lists (`gimplify.c` 6034-6038 and
2736-2737), that of OMP_PARALLEL is a BIND_EXPR (`c-typeck.c` 8687-8695); it is linked as
one statement, and the walk does not enter a BIND_EXPR. So a construct in a block stays,
and the comment of `fpga.c` 506, "Now we know there are no nested sections", holds of
what the walk enters only (`FlatWhereWalked`). `LowerOmp` is what `lower_omp_sections` and
`lower_omp_parallel` (`omp-low.c` 4308 and 4863) make of a construct: a BIND_EXPR with a list of
its own, in which the construct itself is still to be found, an OMP_PARALLEL with its body,
an OMP_SECTIONS without, its sections in a BIND_EXPR behind it. What they add besides,
data copies and OMP_RETURNs, is no construct and left out.

**Hxml.** A file is a sequence of start tags, end tags and elements with text. `state` is
the one variable of the callbacks, `tables` the linked lists, `current_*` their last
rows; `Open` and `Return` are `hxml_read_xml`, which gives up at any point the XML parser
reports an error. The queries read the tables and change nothing of them.

**CallHw.** The source is read item by item, any item that C allows at any place. A
pragma is told by its place in the source and its component. `AfterHandler` is what
`c_parser_pragma` does behind every pragma handled in the parser, of `call_hw` or not;
`InsertAttributes` the hook of the back end; `Semicolon` the message about pragmas that
are on nothing.

Data that no property tells apart is left out: names, types beyond their kind, source
positions, the variables a value is moved through, the statements of the DSP start-up
code. The search for the array behind a pointer variable (`trace_pointer`) decides the
kind of an argument, and arguments are inputs of the model.

## Runs

| Run | Question | Instance |
|---|---|---|
| `molen_run` | Does the list execute the sections as OpenMP allows, and end when there are no loops? | two sections, each one of eight bodies: empty, straight, two calls, a conditional, jumps forward over or behind a call, a do loop, a while loop |
| `molen_hidden_jump` | Is the abort on control flow complete? **No** | the bodies and `l: call; if (c) goto l;` |
| `fpga_replace` | Is every mapped call replaced and nothing else touched? | two functions, one with a nested list, bodies of up to four statements, two FPGA units and a DSP; and bodies with what the Diopsis pass leaves of a call |
| `fpga_dummy_at_head` | The same with a dummy first in its block. **No** | four programs |
| `fpga_stat` | Are the statistics of a call its own? **No** | the programs of `fpga_replace` without those of the Diopsis pass |
| `diopsis_replace` | Is every mapped call replaced by a well-formed remote call, every other call timed (unless a pragma in front of a call asks for `nowait`), and nothing else touched? | two functions, one with a nested list, bodies of up to four statements, pragmas for a DSP, for a DSP with `nowait`, for an FPGA, an array that is only written and one that repeats it; and bodies of up to three statements with pragmas anywhere, for what holds of all (`RestKept`, `UidsUnique`, `Ends`) |
| `diopsis_mixed` | Does a pragma on a call count when an earlier call had an attribute? **Not always** | one program |
| `offload` | Does each pass replace the calls of its own units and no others? | two functions, one with a nested list, two DSPs and two FPGA units, one of them named like a DSP |
| `hxml` | Is what the compiler is told of a unit what the file says? | files of up to three units, three buses, three implementations, in either order, good and bad, read to any point |
| `omp_flatten` | Are nested constructs flattened without losing or reordering statements; is there anything to flatten? | a construct of two sections in a function, an arm, a parallel region; bodies with calls, jumps and constructs of their own; lowered and not |
| `call_hw` | Does a pragma reach what it stands in front of? | every source of up to five items |
| `call_hw_ignored` | Is at least one of the two messages true that say a pragma is ignored? **No** | the sources of `call_hw` |

Three of the runs with violations are the cases their passing run excludes, each named by a
definition: `Structured`, `Embedded`, `PragmasApart`. `fpga_stat` and `call_hw_ignored` need no special
case. PROJECT.json has the code and the sentence it disagrees with. Two more disagreements are
excluded by the properties of `diopsis_replace` themselves, and no run shows them:

* A `nowait` call with a pragma in front of it returns at `diopsis.c` 598, in front of the reset
  of `pragma_on_call` at 669, so the next call of the processor is taken for one with a pragma (650) and
  not timed, and so it is behind a call whose component is named like a DSP and is none (420). `common.opt`
  1336 says of `-fgppstat` "Generate statistics for gpp calls". `GppStats` is
  that sentence; the run checks `GppStatsWaited`, the same for programs without such calls (`PragmasWaited`).
* For an array that is only written `diopsis.c` 727 builds the builtin that passes its address, and links it
  only in the epilogue, for which 1208 never asks for it: the function on the DSP starts without the address, although 730
  says "dsp pointer allocate". Later arguments may be said to repeat the one that was not passed. `CallProtocol` asks
  for every argument but such an array (`Allocated`).

### Properties

Of the parallel optimisation: `OrderKept`, `NothingLost`, `JumpsNotSplit`,
`KernelsFirst` about the list; `UnitsExclusive`, `ReadsOwnResult`, `ReturnsIdle` about
its execution; `Omp`, that this execution implements `OmpSections`; `Terminates`.
`RunTypeOK` and `FpgaReplace`'s `TypeOK` are the type invariants.

Of the FPGA replacement: `Rewritten` compares each list with what the source asks for,
computed from the source alone (`Wanted`); `CallProtocol` reads the builtins between
two calls back as a call of the unit; `TwoDummiesFound` says what the error message
says; `StatsOfCall`; `Ends`, which also says that the walk never follows an iterator
behind the end of a list.

Of the Diopsis replacement: `Rewritten` and `CallProtocol` likewise, the latter over the
two register files, the arguments said to repeat others, the announcement of the first
file, and the closing of calls that are waited for; `UidsUnique`; `GppStatsWaited`, the
lists with the calls of the processor timed, for programs without the calls named above;
`ErrorsJustified`; `RestKept`; `Ends`. Where a
call has both a pragma of its own and one of its declaration, which of the two counts depends
on what an earlier call left in `attr` (`diopsis_mixed`): `RewrittenApart` and the others are
about programs with one kind of pragma for DSPs (`PragmasApart`).

Of both passes together: `EachByItsUnit`, the lists compared with what the source asks for
of both, and that what the first leaves gives the second no reason to give up;
`BuiltinsUntouched`. A dummy named like a DSP whose unit is none is taken out by the first
pass and its call stays (`Obeyed`).

Of the hardware description: `TypeAsWritten`, `RegistersAsWritten`, `BusAsWritten` compare
an answer with one computed from the file alone, by the nesting of its elements
(`Parents`); the first two also for files read in part, but for the identity 0, which an
implementation read in part answers to (`Answered`). `ErrorsJustified`: the reader exits at
the first element it cannot use and at nothing else, and crashes only when it looks for a
name among units one of which has none, or comes to a name or type behind HEADERS when no unit
was started: the end of HEADERS puts the callbacks in the state of a unit (`hxml.c` 472), without one.
`RefusedJustified` leaves room for what `get_bus`
does with more than two buses: which it notices depends on their order, and two buses to
normal memory in front of one to an XREG pass in silence, though `hxml.c` 741 says there need
to be two in all.

Of the walk of the parallel optimisation: `LeavesKept` at every step, `OrderKept` (only
statements of two sections of one construct change their order), `FlatWhereWalked`,
`Returns`, and `NothingToDo`, which hangs on the walk passing over every BIND_EXPR: the
mutant that enters one finds the constructs in it.

Of the front end: `NothingWaitsInBody`; `AttributeOfOwnPragma` compares the attributes
declarations got with the pragmas they are the next declaration behind; `WeakrefOfLastRead` does so for the
references to the DSP, with the component the code goes by, that of the last pragma read, well-formed or not.
`MalformedIgnored` and `UnoptimizedIgnored` state what the messages say instead, and `OneIgnored` that
one of them at least is true. The run finds a source of five items in which neither is: a
malformed pragma has replaced the component of the one that waits (or left NULL for it, which the next
declaration compares: `ErrorsJustified`), and without optimisation the attribute is left out but the
reference to the DSP stays. `DummyInPlace`, one dummy per pragma in a body, between the right calls;
`ErrorsJustified`, the assertion fails for two pragmas on one declaration only; `ReportedJustified`, in one
direction only: a stray pragma in front of the first statement of a function, of a local declaration or
of `}` is not reported.

### Bounds

Two sections are enough for statements of one to get between those of another, which is
what every property of the pass is about; the proofs hold for every number. In the
replacement passes a call interacts with the one before it through globals and with its
neighbours in the list through the iterator: bodies of three or four statements hold
a dummy, something between, the call and something behind, at both ends of a list; the nested list
and the second function are there for what outlives a list or a function. Counters
(`trx_bytes`, `hartes_rpc_uid`) grow with the number of calls only, and programs are
finite, so no state constraint is needed.

In the front end everything is decided by what comes between a pragma and the next
declaration, semicolon or brace: five items (`MaxItems`) hold a pragma, a second or malformed one, a
type, and the declaration or function they meet. In the hardware description an answer depends on the rows
that share a name or an identity, of which the files have up to two with different values,
in both orders, and up to three buses, one more than `get_bus` allows. In `OmpFlatten` constructs
nest twice, in each kind of statement the walk enters and in one it does not.

The programs are states the compiler is in: the gimplifier leaves every nested body as a
statement list and calls as statements or right sides; the front end puts a dummy in
front of a statement with a call.

### Fairness and deadlock

The passes are sequential: weak fairness of the next step, the compiler runs. In
`FairSpec` of `MolenRun` the processor runs and every kernel ends; that is what
`molen_BREAK` relies on; a loop of the program may run for ever, so `Terminates` is about
constructs without (`LoopFree`). Deadlock is checked in every run: `Return` and `Stopped`, the
code after the construct and after the pass, are explicit, as are the end of the compiler and,
in `CallHw`, the bound (`Full`).

## Proofs

What is proved holds for every value of the constants: any number of sections, any bodies, any
program, any source, all options.

| Module | Theorems | Argument |
|---|---|---|
| `MolenRun_proofs`, the pass | `PassInvariant`, `PassKeepsOrder`, `PassLosesNothing`, `PassKeepsJumps`, `PassStartsKernelsFirst` | `PassInv`, `KernelInv` |
| `MolenRun_proofs`, the order | `RunImplementsOmp` | `PassInv`, lemmas about `pcBar` |
| `MolenRun_proofs`, the units | `RunTyping`, `UnitInvariant`, `RunUnitsExclusive`, `RunReadsOwnResult`, `RunReturnsIdle` | `UnitInv` |
| `CallHw_proofs` | `NothingWaits`, `PragmaInvariant`, `AttributeIsOwnPragmas`, `WeakrefIsLastRead`, `ErrorsAreJustified`, `DummiesAreInPlace`, `ReportsAreJustified` | `PragmaInv`, `BodyInv`, `ReportInv` |
| `OmpFlatten_proofs` | `LoweredUntouched` | the walk stays out of the BIND_EXPRs around constructs (`LoweredInv`) |
| `TreeWalk_proofs` | (lemmas for both replacement passes) | `WalkInv`, `ListsEmbedded`, `OuterClear`, `KeptIn` |
| `FpgaReplace_proofs` | `PassTyping`, `DummiesReachTheirCalls`, `RestStays` | `WalkInv` and the two globals; `SpanInv`; `KeptIn(Rest)` |
| `DiopsisReplace_proofs` | `IdentitiesUnique`, `PragmasReachTheirCalls`, `RestStays` | `WalkInv`, `UidsBelow`, `UidsApart`; `SpanInv`; `KeptIn(Rest)` |
| `Offload_proofs` | `RemoteCallsUntouched`, `PassesAgree`; `IdentitiesUnique`, `RestStays` | `OffloadInv`; `BothInv`, `KeptIn(Rest)` |
| `Hxml_proofs` | `LinksInTables`, `UnitsAreKnown`, `CrashesKnown` | `HxmlInv` |

The inductive invariants were model-checked as invariants of runs before they were proved, on the
instances of the runs above or a part of them.

**The pass on one construct.** `OrderKept` and `NothingLost` are not inductive alone: they need
`Progress`, which relates `taken` and the position of the loops, for the moved statement to be
new and the last of its section. That a split section has no control flow behind the split needs
what the scan knows (`BreakFound`: no label or goto since `lastBreak`), carried over the hoisting
(`SplitQuiet`), and that a section is hoisted in one go (`HoistTogether`), for a gap to arise only
there (`GapQuiet`). One lemma per action, one step per conjunct the action can disturb. `KernelInv`
adds where the last `molen_BREAK` of a hoisted section is, for `KernelsFirst`.

**The run of the list.** `RunImplementsOmp`: a section whose statement the processor executes
goes on to the successor (`PcHere`, `PcBehind`), every other section stutters (`PcElsewhere`),
jumps included because they are not split. The units need more: `UnitInv` follows, for each
section, where the processor is in it (`pcBar`), and says of its units that a kernel runs only
while the statement the section is at is the `molen_BREAK` behind the start, and that argument and
result are those of the call at hand. It is the hoisting that puts statements of other sections
between the start and the wait; they leave the units of this section alone because of `OwnUnits`.

**The front end.** `PragmaInv` says what `call_hw_tree`, the component kept beside it and `cfun`
tell of the items read: which pragma waits, that none has met a declaration since, and that the component
kept is that of the last item with one (`NamedLast`). `BodyInv`
relates what the bodies hold with the pragmas and calls read, by counting; `ReportInv` says that no
statement has ended behind the pragma the flag of the parser stands for. The alternatives of `Next` are few, but each
has a case for a pragma that waits and one for none.

**The walk behind `pass_lower_omp`.** `LoweredInv`: every iterator is in a list of the source program,
none in the list of a BIND_EXPR around a construct, where the constructs are. In those lists a construct has become
a BIND_EXPR (`NoConstruct`), so the walk goes on by `Pass`, which enters nothing, by the arms
of conditions, whose lists are of the source, and by `Return`; none of these edits a list.

**The walk of the replacement passes.** `WalkTypeOK`, that every iterator is at a statement or
NULL, is a property of several lists at once: an edit shortens or lengthens one list under all
iterators that are in it. It needs that no list is walked twice at a time (`WalkedOnce`), which
the recursion into a nested statement would break if one of its lists were on the stack; so
`NotAhead`: no list on the stack is nested in what a walk has still before it. When a walk moves on or
enters a statement this is kept because a list is nested at one place (`NestedOnce`) and a list on the
stack has the list it is nested in below it (`WalkedWithin`). Edits keep all this as they put no
nested statement in (`ListsKept`). The steps are those both passes share (`MoveKeeps`, `EnterKeeps`,
`LeaveKeeps`, `EditKeeps` and so on), with the edits reduced to one description of the new list
(`Edited`, `PutFor`); each pass then has one case per action.

**Identities of remote calls.** What is linked in for a call opens it once (`EmittedOpens`, over the
ten parts of `Emitted`), under `hartes_rpc_uid`, with or without the flag. All identities in the
lists without the flag are below the counter (`UidsBelow`) and different (`UidsApart`); an edit moves
the ones behind it, which `Traced` follows back. The theorem is about identities below
`NOWAIT_FUNC`, as the property is: beyond 65536 calls it claims nothing.

**From a dummy to its call.** That the unit a dummy has left in a global meets its call and no
other is about what stands between the two while the list is edited around them. `Waiting` says
it of the state: the innermost walk is at the first of the statements in between or at the call,
and not between another dummy and its call (`Clear`). It is kept only if every dummy still in a list has its
call ahead (`ListsEmbedded`), which the builtins linked in before a call and the calls taken out
behind one must not disturb, and if the walks around the innermost one stand between no dummy and its
call (`OuterClear`), for otherwise the end of a nested list would lead into the span of a dummy.
Between a dummy and its call stand only statements the passes keep
as they are (`Between`), and builtins are linked in at a call, so nothing gets into the way of a dummy. For `FpgaReplace` this needs that no list begins with a dummy of an
FPGA unit (`HeadsFree`), the case of `fpga_dummy_at_head`, and it gives in return that neither error exit
is reached. For `DiopsisReplace` the dummy is out of the list before the walk goes on, and an FPGA
dummy in a list is noted in `pragma_on_call`, which protects the call behind it (`Spanned`).

**What stays.** That a pass leaves the rest of a list alone is `SameIn`: the places of these statements
in the list and in the source correspond one to one, in order. An edit takes out one statement or puts some in,
none of them of the rest, and shifts what is behind; so the correspondence of the old list, shifted the same way,
is that of the new (`SameEdit`). It asks nothing of the program, as what an edit takes out is a
call or a dummy wherever the walk has got to; the one thing to know is that the walk is in the list (`WalkInv`).

**Both passes.** In `Offload` a list edited by the first pass is walked by the second. One
pass moves at a time (`DspTurn`), and in its turn it is in a state it could be in without the other
(`DspAlone`, `FpgaAlone`), so the step lemmas of each pass hold here too, taken over by INSTANCE. What is new is
the hand-over: `OffloadInv` says of each global that it is set only in the turn of its pass, and that
at the end of a function the lists are again as `ListsEmbedded` asks, for the pass to come. So when the
second pass comes to something of a remote call, no dummy of its own waits.

Where the pragmas are not apart that can happen, and the second pass replaces the opening of a remote call.
Even then identities stay unique: no edit of the second pass opens a call (`OpensNothing`, over the parts of
its `Emitted`), so `NoNewUids` of the first covers it; that nothing else is moved follows from `SameIn` for the
dummies of both. These two hold for every program; on the instance of `offload` TLC finds them true as well.

**The hardware description.** `Linked` says that rows point to rows that are there. It is not
inductive alone: the callbacks write through `current_*`, the last row of a table, and what
shows that there is one is the history of the file, that the element they are in has been started
(`Placed`). An end tag sets the state back to an element that encloses it, which is in the file
before it because the XML parser checks the nesting. A unit or storage is found as the first row of its
name (`FindFirst`), whose existence is that of a least number (`LeastPlace`).

### Assumptions

* `NSAssumption` (there is a section), `ProgramsAssumption` of `MolenCode`'s programs (bodies are
  sequences of statements), `UnitAssumption`, `ItemsAssumption`, `TreesAssumption`.
* `Structured`, in the theorems about jumps, which is how the C front end builds loops
  (`c_finish_loop`); `molen_hidden_jump` shows that it is needed.
* `OwnUnits`, in the theorems about units: besides `Structured`, that the `break` of a kernel stands
  directly behind its `exec` (`WaitsAtOnce`), as `replace_call_tree_tsi` of `fpga.c` emits them, and
  that no two sections use one unit. The pass does not see to the latter; who writes `omp sections` has to, as for
  any other shared object. `ValuesOfCalls`, in `RunReadsOwnResult`: a value read is that of
  a call with an argument, so that there is an argument to compare it with.
* `ProgramsAssumption` of `TreeWalk`: the statement lists of a program are trees, each list nested
  at one place, that of a function at none. The gimplifier builds them so; GENERIC is shared
  below statements only.
* `ArgsAssumption`: the sizes of arguments are numbers. `NoBuiltinsAssumption`: the Diopsis
  pass is the first to link builtins in. `DspAssumption`, `FpgaAssumption`, `UnitsAssumption` and
  the two about options say what these constants are; in `Offload` that no unit is both.
* `SourceEmbedded` and, for the FPGA pass, `HeadsFree`, in the theorems about dummies: behind a dummy
  comes its call, with nothing but plain statements between. The front end writes dummies so but for two cases, which
  `fpga_dummy_at_head` and `diopsis_mixed` are about; `PragmasApart` of `Offload` implies both.
* `DocumentsAssumption`: an end tag is behind a start tag of its element, which the XML parser,
  external to the repository, sees to before it calls back. Otherwise any sequence of elements.

TLC evaluates the assumptions on constants in every run of their module.

### What the proofs found

An attempt to prove `TypeOK` of `FpgaReplace` failed at the dummy of an FPGA unit: in the states in
which the compiler stops there, with an error or because the iterator is NULL, the model had left the
iterator where it was although the list had become shorter. `DummyFpga` now moves it as
`fpga.c` does before it stops.

The proof of `CrashesKnown` failed at a name or type in the state of a unit: nothing in the file says that
there is one when the state was set by the end of HEADERS. So `hxml.c` 400 and 501-505 write through a NULL
pointer for a file with HEADERS before the first unit and a NAME or TYPE behind it. The model had that
crash, but no file of the run had such a HEADERS, and `ErrorsJustified` gave it no reason; both were corrected.

### Only model-checked

* Liveness (`Terminates`, `Ends`, `Returns`): out of the prover's reach.
* What is defined by recursion over the program or over a list, for which induction over data
  would be needed: `Rewritten`, `RewrittenApart`, `EachByItsUnit`, `GppStatsWaited`, `ErrorsJustified`
  of the Diopsis pass and `TwoDummiesFound` (`Wanted` and `Order`; for embedded dummies `PassesAgree` proves
  the part of them that no error is reported), `CallProtocol` of
  both passes (registers and arguments are counted by folds), `LeavesKept`, `OrderKept` and
  `FlatWhereWalked` of `OmpFlatten` (the leaves of nested constructs), and the properties of the `hxml` run, which
  read the file by its nesting (`Parents`); `HxmlInv` is what they rest on.

## Not modelled

* Of the hardware description: the bytes of the file and the work of the XML parser, lists of
  more than 100 names, DATA inside another section (its start tag sets the state and
  nothing sets it back; what it should mean there is said nowhere); text is taken whole, as `charData` joins it.
  Of the answers of buses only those from a file read to its end are compared. The getters of
  bus values are modelled though no pass asks them.
* Of the front end: the text of a pragma but for its component, the tree it becomes, and
  that the parser (`c-parser.c` 409) prints the id of a stray pragma as an integer node, which
  it no longer is; constructors, K&R parameters and pragmas inside of expressions.
* The front end, the hardware description and the passes are not composed into one module: between
  them stand the attributes and dummies that `CallHw` produces and `TreeWalk` starts from, and the
  types `Hxml` answers and the passes take as constants. That the names of
  `microblaze_check_dsp` and the hardware description agree is assumed by the runs of the Diopsis pass alone
  (`NamedDsp = Dsp`), not by `offload`; that the names
  `hartes_call_hw_get_params` returns, which point into the stack frame it has left, are
  read intact is assumed by all.
* `diopsis_omp_sections_opt`, the predecessor of the walk of `fpga.c`, in no pass list.
* The option file reader, which nothing calls, and the debug output.
* Upstream GCC and libgcc: by far most of the files, none of them changed for the offload layer
  but in the places modelled here.
* Type errors of the trees, memory exhaustion, and what the assembler and linker do with the
  DSP code.

## Plan

The components of the layer are modelled. What is left:

1. `DiopsisReplace`: disjoint registers of the values of a call (`Slot`), as lemmas about `Advance`
   where it can be had without induction over the arguments.
2. `Rewritten` for lists of a bounded number of calls, with `Wanted` unfolded, as a step towards the proof
   for all.
3. libgcc (`emutls`, `gthr`): upstream code, but threads and lazy initialisation would suit TLC.
