---------------------------------- MODULE Hxml ----------------------------------
(* The hardware description (gcc/hxml.c): hxml_read_xml reads the XML file through *)
(* the callbacks startElement, endElement and charData into linked lists, and the *)
(* replacement passes ask them what kind of unit a pragma names. The callbacks    *)
(* remember in one variable which element they are in.                            *)
(*                                                                                *)
(* A document is a sequence of events: Start(tag), End(tag), and Leaf(tag, text)   *)
(* for an element that only contains text.                                        *)
EXTENDS Integers, Sequences, FiniteSets, SequencesExt

CONSTANTS
  Documents,   \* the files considered
  Ids          \* the units pragmas name

ASSUME IdsAssumption == Ids \subseteq Nat

NotANumber == -1
Word(w) == [word |-> w, num |-> NotANumber]
Num(n) == [word |-> "number", num |-> n]
Start(tag) == [event |-> "start", tag |-> tag]
End(tag) == [event |-> "end", tag |-> tag]
Leaf(tag, text) == [event |-> "leaf", tag |-> tag, text |-> text]

NoName == "(null)"
BusNumbers == {"ADDR_BUS_WIDTH", "DATA_BUS_WIDTH", "READ_CYCLES"}
Registers == {"START_INPUT_XR", "START_OUTPUT_XR"}
Lists == {"FUNCTIONAL_COMPONENTS", "STORAGE_COMPONENTS"}
Types == {"GPP", "FPGA", "DSP"}
Memories == {"XREG", "OTHER"}

\* expat reports the end of an element behind its start only.
Events == [event : {"start", "end"}, tag : STRING]
            \cup [event : {"leaf"}, tag : STRING, text : [word : STRING, num : Int]]

ASSUME DocumentsAssumption ==
  \A d \in Documents :
    /\ d \in Seq(Events)
    /\ \A k \in DOMAIN d : d[k].event = "end" =>
         \E j \in 1 .. k - 1 : d[j].event = "start" /\ d[j].tag = d[k].tag

VARIABLES
  doc,      \* the file
  pos,      \* events read
  status,   \* "new": hxml_read_xml was not called; "parsing"; "read"; "broken": it
            \* returned 1; "exit": the compiler has exited; "crash"
  state,    \* the element the callbacks are in
  tables,   \* the linked lists, by the tag of their elements; current_* is the last
  temp,     \* temp_functional_components and temp_storage_components
  answer    \* the last answer about a unit; refused: the compiler has exited

vars == <<doc, pos, status, state, tables, temp, answer>>

NoAnswer == [question |-> "none", id |-> 0, value |-> 0, refused |-> FALSE]

\* A new element of a list: components and implementations know where they stand.
Row(tag) ==
  CASE tag = "FUNCTIONAL_COMPONENT" -> [name |-> NoName, type |-> "GPP"]
    [] tag \in {"STORAGE_COMPONENT", "OPERATION"} -> [name |-> NoName]
    [] tag = "BUS_COMPONENT" ->
         [name |-> NoName, ADDR_BUS_WIDTH |-> 0, DATA_BUS_WIDTH |-> 0, READ_CYCLES |-> 0,
          FUNCTIONAL_COMPONENTS |-> <<>>, STORAGE_COMPONENTS |-> <<>>]
    [] tag = "COMPONENT" ->
         [name |-> NoName, unit |-> 0, operation |-> Len(tables["OPERATION"])]
    [] tag = "IMPLEMENTATION" ->
         [ID |-> 0, START_INPUT_XR |-> 0, START_OUTPUT_XR |-> 0,
          component |-> Len(tables["COMPONENT"])]

Tables == {"FUNCTIONAL_COMPONENT", "STORAGE_COMPONENT", "BUS_COMPONENT",
           "OPERATION", "COMPONENT", "IMPLEMENTATION"}

Init == /\ doc \in Documents
        /\ pos = 0
        /\ status = "new"
        /\ state = "NONE"
        /\ tables = [t \in Tables |-> <<>>]
        /\ temp = [l \in Lists |-> <<>>]
        /\ answer = NoAnswer

--------------------------------------------------------------------------------
(* hxml_read_xml                                                                  *)

\* The first call opens the file.
Open == /\ status = "new"
        /\ status' \in {"parsing", "exit"}
        /\ UNCHANGED <<doc, pos, state, tables, temp, answer>>

\* The file is at its end, or expat rejects what comes next.
Return == /\ status = "parsing"
          /\ \/ status' = "broken"
             \/ pos = Len(doc) /\ status' = "read"
          /\ UNCHANGED <<doc, pos, state, tables, temp, answer>>

\* A callback for the next event.
Event(kind, tags) ==
  /\ status = "parsing" /\ pos < Len(doc)
  /\ doc[pos + 1].event = kind /\ doc[pos + 1].tag \in tags
  /\ pos' = pos + 1
  /\ UNCHANGED <<doc, answer>>
Tag == doc[pos + 1].tag
Text == doc[pos + 1].text

Exit == status' = "exit" /\ UNCHANGED <<state, tables, temp>>
Crash == status' = "crash" /\ UNCHANGED <<state, tables, temp>>
Ignore == UNCHANGED <<status, state, tables, temp>>

--------------------------------------------------------------------------------
(* startElement                                                                   *)

\* Elements that are entered wherever they stand.
StartAnywhere ==
  /\ Event("start", {"FUNCTIONAL_COMPONENT", "STORAGE_COMPONENT", "BUS_COMPONENT",
                     "VBUS_COMPONENT", "OPERATIONS", "HEADERS", "DATA"})
  /\ state' = Tag
  /\ tables' = IF Tag \in Tables THEN [tables EXCEPT ![Tag] = Append(@, Row(Tag))] ELSE tables
  /\ UNCHANGED <<status, temp>>

\* Elements that must stand in another one.
Within == [FUNCTIONAL_COMPONENTS |-> "BUS_COMPONENT", STORAGE_COMPONENTS |-> "BUS_COMPONENT",
           OPERATION |-> "OPERATIONS", COMPONENT |-> "OPERATION", IMPLEMENTATION |-> "COMPONENT"]

\* Mutant: only the lists are refused elsewhere.
FitsLoosely(tag) == tag \in Lists => state = Within[tag]
Fits(tag) == state = Within[tag]

StartWithin ==
  /\ Event("start", DOMAIN Within)
  /\ IF ~Fits(Tag) THEN Exit
     ELSE /\ state' = Tag
          /\ IF Tag \in Lists
               THEN temp' = [temp EXCEPT ![Tag] = <<>>] /\ UNCHANGED tables
               ELSE tables' = [tables EXCEPT ![Tag] = Append(@, Row(Tag))] /\ UNCHANGED temp
          /\ UNCHANGED status

\* ORGANIZATION, HARDWARE and the like.
StartOther == /\ Event("start", {doc[k].tag : k \in DOMAIN doc}
                         \ (Tables \cup DOMAIN Within
                              \cup {"VBUS_COMPONENT", "OPERATIONS", "HEADERS", "DATA"}))
              /\ Ignore

--------------------------------------------------------------------------------
(* endElement                                                                     *)

\* Mutant: HEADERS ends the component it stands in.
AfterHeaders ==
  [FUNCTIONAL_COMPONENT |-> "NONE", STORAGE_COMPONENT |-> "NONE",
   BUS_COMPONENT |-> "NONE", VBUS_COMPONENT |-> "NONE",
   FUNCTIONAL_COMPONENTS |-> "BUS_COMPONENT", STORAGE_COMPONENTS |-> "BUS_COMPONENT",
   OPERATION |-> "OPERATIONS", COMPONENT |-> "OPERATION",
   IMPLEMENTATION |-> "COMPONENT", HEADERS |-> "NONE"]

\* The element the callbacks are in after an end tag. OPERATIONS and DATA are not
\* left.
After == [FUNCTIONAL_COMPONENT |-> "NONE", STORAGE_COMPONENT |-> "NONE",
          BUS_COMPONENT |-> "NONE", VBUS_COMPONENT |-> "NONE",
          FUNCTIONAL_COMPONENTS |-> "BUS_COMPONENT", STORAGE_COMPONENTS |-> "BUS_COMPONENT",
          OPERATION |-> "OPERATIONS", COMPONENT |-> "OPERATION",
          IMPLEMENTATION |-> "COMPONENT", HEADERS |-> "FUNCTIONAL_COMPONENT"]

\* A field of the last row of a list.
Field(tag, field, value) == [tables EXCEPT ![tag][Len(tables[tag])][field] = value]

EndElement ==
  /\ Event("end", {doc[k].tag : k \in DOMAIN doc})
  /\ state' = IF Tag \in DOMAIN After THEN After[Tag] ELSE state
  /\ IF Tag \in Lists
       THEN /\ tables' = Field("BUS_COMPONENT", Tag, temp[Tag])
            /\ temp' = [temp EXCEPT ![Tag] = <<>>]
       ELSE UNCHANGED <<tables, temp>>
  /\ UNCHANGED status

\* get_functional_component and get_storage_component: the first row of that name;
\* strcmp does not survive a row before it that has none.
Find(rows, name) == SelectInSeq(rows, LAMBDA r : r.name = name)
Nameless(rows, name) ==
  \E k \in DOMAIN rows : rows[k].name = NoName /\ \A j \in 1 .. k - 1 : rows[j].name # name

ListOf == [FUNCTIONAL_COMPONENTS |-> "FUNCTIONAL_COMPONENT", COMPONENT |-> "FUNCTIONAL_COMPONENT",
           STORAGE_COMPONENTS |-> "STORAGE_COMPONENT"]

\* A name is set or, in a list and in a component, looked up.
EndName ==
  /\ Event("leaf", {"NAME"})
  /\ LET name == Text.word IN
       IF state \in DOMAIN ListOf
         THEN LET rows == tables[ListOf[state]] IN
                IF Nameless(rows, name) THEN Crash
                ELSE IF Find(rows, name) = 0 THEN Exit
                ELSE /\ IF state \in Lists
                          THEN temp' = [temp EXCEPT ![state] = Append(@, Find(rows, name))]
                               /\ UNCHANGED tables
                          ELSE tables' = [tables EXCEPT ![state][Len(tables[state])] =
                                            [@ EXCEPT !.name = name, !.unit = Find(rows, name)]]
                               /\ UNCHANGED temp
                     /\ UNCHANGED <<status, state>>
         ELSE IF state \in Tables \ {"IMPLEMENTATION"}
           THEN IF tables[state] = <<>> THEN Crash
                ELSE tables' = Field(state, "name", name) /\ UNCHANGED <<status, state, temp>>
         ELSE Ignore

\* convert_to_int, then the field of the last row.
Number(tag) ==
  IF Text.num = NotANumber THEN Exit
  ELSE tables' = Field(tag, Tag, Text.num) /\ UNCHANGED <<status, state, temp>>

EndBusNumber == /\ Event("leaf", BusNumbers)
                /\ IF state # "BUS_COMPONENT" THEN Exit ELSE Number("BUS_COMPONENT")

EndId == /\ Event("leaf", {"ID"})
         /\ IF state # "IMPLEMENTATION" THEN Exit ELSE Number("IMPLEMENTATION")

\* Wherever it stands, of the last implementation.
EndRegister == /\ Event("leaf", Registers)
               /\ IF tables["IMPLEMENTATION"] = <<>> THEN Ignore ELSE Number("IMPLEMENTATION")

EndType ==
  /\ Event("leaf", {"TYPE"})
  /\ IF state # "FUNCTIONAL_COMPONENT" THEN Ignore
     ELSE IF Text.word \notin Types THEN Exit
     ELSE IF tables[state] = <<>> THEN Crash
     ELSE tables' = Field(state, "type", Text.word) /\ UNCHANGED <<status, state, temp>>

Parse == \/ StartAnywhere \/ StartWithin \/ StartOther \/ EndElement
         \/ EndName \/ EndBusNumber \/ EndId \/ EndRegister \/ EndType

--------------------------------------------------------------------------------
(* The questions. Before each hxml_read_xml is called again, which returns at      *)
(* once; that its first call failed is not looked at.                             *)

\* get_implementation (mutant: the last one).
ImplementationLast(id) == SelectLastInSeq(tables["IMPLEMENTATION"], LAMBDA r : r.ID = id)
Implementation(id) == SelectInSeq(tables["IMPLEMENTATION"], LAMBDA r : r.ID = id)

\* get_functional_component_from_implementation; 0 is NULL.
UnitOf(id) ==
  LET k == Implementation(id) IN
    IF k = 0 THEN 0 ELSE tables["COMPONENT"][tables["IMPLEMENTATION"][k].component].unit

Reply(question, id, value, refused) ==
  /\ status \in {"read", "broken"} /\ ~answer.refused
  /\ answer' = [question |-> question, id |-> id, value |-> value, refused |-> refused]
  /\ UNCHANGED <<doc, pos, status, state, tables, temp>>

Answer(question, id, value) == Reply(question, id, value, FALSE)
Refuse(question, id) == Reply(question, id, 0, TRUE)

\* hxml_get_functional_component_type
AskType(id) ==
  IF UnitOf(id) = 0 THEN Refuse("type", id)
  ELSE Answer("type", id, tables["FUNCTIONAL_COMPONENT"][UnitOf(id)].type)

\* hxml_get_start_input_xr and hxml_get_start_output_xr
AskRegister(id, r) ==
  IF Implementation(id) = 0 THEN Refuse(r, id)
  ELSE Answer(r, id, tables["IMPLEMENTATION"][Implementation(id)][r])

\* get_bus has found a bus to each memory (mutant: to one).
FullEarly(bus) == \E k \in Memories : bus[k] # 0
Full(bus) == \A k \in Memories : bus[k] # 0

NameIn(rows, ks, n) == \E i \in DOMAIN ks : rows[ks[i]].name = n

\* The memory a bus leads to (mutant: only its first storage is looked at).
MemoryFirst(b) ==
  LET ks == b.STORAGE_COMPONENTS IN
    IF NameIn(tables["STORAGE_COMPONENT"], SubSeq(ks, 1, 1), "XREG") THEN "XREG" ELSE "OTHER"
Memory(b) ==
  IF NameIn(tables["STORAGE_COMPONENT"], b.STORAGE_COMPONENTS, "XREG") THEN "XREG" ELSE "OTHER"

\* get_bus: the bus of unit u to the memory m; 0 is NULL.
GetBus(u, m) ==
  LET units == tables["FUNCTIONAL_COMPONENT"]
      \* One more bus: what was found before it, and its number.
      visit(r, b) ==
        LET next == [r EXCEPT !.at = @ + 1] IN
          IF ~NameIn(units, b.FUNCTIONAL_COMPONENTS, units[u].name) THEN next
          ELSE IF Full(r.bus) THEN [next EXCEPT !.several = TRUE]
          ELSE [next EXCEPT !.bus[Memory(b)] = r.at]
      found == FoldLeft(visit, [at |-> 1, bus |-> [k \in Memories |-> 0], several |-> FALSE],
                        tables["BUS_COMPONENT"])
  IN IF found.several THEN 0 ELSE found.bus[m]

\* hxml_get_addr_bus_width, hxml_get_data_bus_width and hxml_get_read_cycles
AskBus(id, m) ==
  LET b == IF UnitOf(id) = 0 THEN 0 ELSE GetBus(UnitOf(id), m) IN
    IF b = 0 THEN Refuse(m, id)
    ELSE Answer(m, id, [f \in BusNumbers |-> tables["BUS_COMPONENT"][b][f]])

Ask == \E id \in Ids : \/ AskType(id)
                       \/ \E r \in Registers : AskRegister(id, r)
                       \/ \E m \in Memories : AskBus(id, m)

\* The compiler has exited.
Stopped == (status \in {"exit", "crash"} \/ answer.refused) /\ UNCHANGED vars

Next == Open \/ Parse \/ Return \/ Ask \/ Stopped
Spec == Init /\ [][Next]_vars

--------------------------------------------------------------------------------
(* The inductive invariant.                                                       *)

\* The places of the rows of a list.
Places(tag) == 1 .. Len(tables[tag])

\* The names elements can have.
Names == {NoName} \cup
  UNION {{d[k].text.word : k \in {j \in DOMAIN d : d[j].event = "leaf"}} : d \in Documents}

\* The elements of each list; what they point to is in the tables.
Rows ==
  [FUNCTIONAL_COMPONENT |-> [name : Names, type : Types],
   STORAGE_COMPONENT |-> [name : Names],
   OPERATION |-> [name : Names],
   COMPONENT |-> [name : Names, unit : {0} \cup Places("FUNCTIONAL_COMPONENT"),
                  operation : Places("OPERATION")],
   IMPLEMENTATION |-> [ID : Int, START_INPUT_XR : Int, START_OUTPUT_XR : Int,
                       component : Places("COMPONENT")],
   BUS_COMPONENT |-> [name : Names, ADDR_BUS_WIDTH : Int, DATA_BUS_WIDTH : Int,
                      READ_CYCLES : Int,
                      FUNCTIONAL_COMPONENTS : Seq(Places("FUNCTIONAL_COMPONENT")),
                      STORAGE_COMPONENTS : Seq(Places("STORAGE_COMPONENT"))]]

Linked ==
  /\ DOMAIN tables = Tables /\ \A t \in Tables : tables[t] \in Seq(Rows[t])
  /\ DOMAIN temp = Lists /\ \A l \in Lists : temp[l] \in Seq(Places(ListOf[l]))

\* The tables whose last rows the callbacks write to within an element.
Written(tag) ==
  (IF tag \in Lists THEN {"BUS_COMPONENT"} ELSE {tag} \cap Tables)
    \cup CASE tag = "COMPONENT" -> {"OPERATION"}
           [] tag = "IMPLEMENTATION" -> {"COMPONENT"}
           [] OTHER -> {}

\* Of the element the callbacks are in there is a row, but of a unit behind HEADERS,
\* and of what was started before.
Placed ==
  /\ \A t \in Written(state) \ {"FUNCTIONAL_COMPONENT"} : tables[t] # <<>>
  /\ status = "parsing" =>
       \A k \in 1 .. pos : doc[k].event = "start" => \A t \in Written(doc[k].tag) : tables[t] # <<>>

HxmlInv ==
  /\ doc \in Documents /\ pos \in 0 .. Len(doc)
  /\ status \in {"new", "parsing", "read", "broken", "exit", "crash"}
  /\ status = "new" => pos = 0
  /\ Linked /\ Placed

--------------------------------------------------------------------------------
(* What a document says, from how its elements are nested.                        *)

Known == Tables \cup Lists \cup {"VBUS_COMPONENT", "OPERATIONS", "HEADERS", "DATA"}

Marks(d, k, event) == d[k].event = event /\ d[k].tag \in Known

\* The innermost element known to the compiler that event k stands in; 0 for none.
Parents == [d \in Documents |->
  LET p[k \in DOMAIN d] == IF k = 1 THEN 0
                           ELSE IF Marks(d, k - 1, "start") THEN k - 1
                           ELSE IF Marks(d, k - 1, "end") THEN p[p[k - 1]]
                           ELSE p[k - 1] IN p]
Parent(d, k) == Parents[d][k]
ParentTag(d, k) == IF Parent(d, k) = 0 THEN "NONE" ELSE d[Parent(d, k)].tag

Elements(d, tag) == {j \in DOMAIN d : d[j].event = "start" /\ d[j].tag = tag}
First(S) == IF S = {} THEN 0 ELSE Min(S)

\* The texts of the children "tag" of element j.
Texts(d, j, tag) == {d[k].text : k \in {m \in DOMAIN d : d[m].event = "leaf" /\ d[m].tag = tag
                                                         /\ Parent(d, m) = j}}
Told(d, j, tag, default) ==
  IF Texts(d, j, tag) = {} THEN default ELSE CHOOSE t \in Texts(d, j, tag) : TRUE

ToldName(d, j) == Told(d, j, "NAME", Word(NoName)).word

ToldImplementation(d, id) ==
  First({j \in Elements(d, "IMPLEMENTATION") : Told(d, j, "ID", Num(0)).num = id})

\* The unit the document gives for an implementation.
ToldUnit(d, id) ==
  LET j == ToldImplementation(d, id) IN
    IF j = 0 THEN 0
    ELSE First({u \in Elements(d, "FUNCTIONAL_COMPONENT") :
                  Texts(d, Parent(d, j), "NAME") # {}
                    /\ ToldName(d, u) = ToldName(d, Parent(d, j))})

\* The names of the units or storages of the bus b.
Connected(d, b, l) ==
  UNION {{t.word : t \in Texts(d, j, "NAME")} : j \in {i \in Elements(d, l) : Parent(d, i) = b}}

\* The buses of a unit of the document, with or without an XREG storage.
ToldBuses(d, u, m) ==
  {b \in Elements(d, "BUS_COMPONENT") :
     /\ ToldName(d, u) \in Connected(d, b, "FUNCTIONAL_COMPONENTS")
     /\ m = "XREG" <=> "XREG" \in Connected(d, b, "STORAGE_COMPONENTS")}

\* Event k is something the compiler cannot use where it stands.
Bad(d, k) ==
  LET tag == d[k].tag
      in == ParentTag(d, k) IN
    \/ d[k].event = "start" /\ tag \in DOMAIN Within /\ in # Within[tag]
    \/ /\ d[k].event = "leaf"
       /\ \/ tag \in BusNumbers /\ (in # "BUS_COMPONENT" \/ d[k].text.num = NotANumber)
          \/ tag = "ID" /\ (in # "IMPLEMENTATION" \/ d[k].text.num = NotANumber)
          \/ tag = "TYPE" /\ in = "FUNCTIONAL_COMPONENT" /\ d[k].text.word \notin Types
          \/ tag = "NAME" /\ in \in DOMAIN ListOf
               /\ ~\E j \in Elements(d, ListOf[in]) : j < k /\ ToldName(d, j) = d[k].text.word

\* A unit or storage without a name before event k.
NamelessBefore(d, k) ==
  \E j \in Elements(d, "FUNCTIONAL_COMPONENT") \cup Elements(d, "STORAGE_COMPONENT") :
    j < k /\ ToldName(d, j) = NoName

--------------------------------------------------------------------------------

\* The last answer was one of these, and is to be relied on: of a document read in
\* part, an implementation without an identity yet answers for 0.
Answered(questions) == /\ answer.question \in questions /\ ~answer.refused
                       /\ status = "read" \/ answer.id # 0

\* The type of a unit is the one the document gives, however little of the document
\* was read.
TypeAsWritten ==
  Answered({"type"}) =>
    /\ ToldUnit(doc, answer.id) # 0
    /\ answer.value = Told(doc, ToldUnit(doc, answer.id), "TYPE", Word("GPP")).word

\* A register is the one the document gives for the implementation, or 0 when the
\* reading ended in the implementation.
RegistersAsWritten ==
  Answered(Registers) =>
    LET j == ToldImplementation(doc, answer.id) IN
      /\ j # 0
      /\ \/ answer.value = Told(doc, j, answer.question, Num(0)).num
         \/ /\ status = "broken" /\ answer.value = 0
            /\ End("IMPLEMENTATION") \notin {doc[k] : k \in j .. pos}

\* The values of a bus are those of a bus of the unit to the memory asked for; which,
\* when there are two, is the order of the document.
BusAsWritten ==
  Answered(Memories) /\ status = "read" =>
    \E b \in ToldBuses(doc, ToldUnit(doc, answer.id), answer.question) :
      \A f \in BusNumbers : answer.value[f] = Told(doc, b, f, Num(0)).num

\* Only a question the document does not answer is refused, or one about the buses of
\* a unit that has too many.
RefusedJustified ==
  answer.refused /\ status = "read" =>
    LET u == ToldUnit(doc, answer.id) IN
      IF answer.question \in Registers THEN ToldImplementation(doc, answer.id) = 0
      ELSE \/ u = 0
           \/ /\ answer.question \in Memories
              /\ \/ ToldBuses(doc, u, answer.question) = {}
                 \/ Cardinality(UNION {ToldBuses(doc, u, m) : m \in Memories}) > 2

\* HEADERS before event k, and no unit.
HeadersFirst(d, k) == /\ \E j \in Elements(d, "HEADERS") : j < k
                      /\ \A j \in Elements(d, "FUNCTIONAL_COMPONENT") : j > k

\* The reader exits at the first thing it cannot use and at nothing else; it crashes
\* on a name looked up behind a unit without one, or given behind HEADERS of no unit.
ErrorsJustified ==
  /\ pos > 0 /\ Bad(doc, pos) => status \in {"exit", "crash"}
  /\ status = "exit" => pos = 0 \/ Bad(doc, pos)
  /\ status = "crash" => NamelessBefore(doc, pos) \/ HeadersFirst(doc, pos)
================================================================================
