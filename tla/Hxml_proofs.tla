------------------------------- MODULE Hxml_proofs -------------------------------
(* Theorems about the reader of the hardware description.                         *)
EXTENDS Hxml, WellFoundedInduction, TLAPS

--------------------------------------------------------------------------------
(* The first element of a list.                                                   *)

\* A set of places that is not empty has a least one.
LEMMA LeastPlace ==
  ASSUME NEW S \in SUBSET Nat, S # {}
  PROVE  Min(S) \in S /\ \A k \in S : Min(S) <= k
<1>1. PICK n \in S : \A k \in S : <<k, n>> \notin OpToRel(<, Nat)
  BY NatLessThanWellFounded, WFMin
<1>2. \A k \in S : n <= k
  <2>1. ASSUME NEW k \in S, k < n PROVE FALSE
    <3>1. <<k, n>> \in OpToRel(<, Nat)
      BY <2>1 DEF OpToRel
    <3> QED BY <3>1, <1>1
  <2> QED BY <2>1
<1> QED BY <1>2 DEF Min

\* get_functional_component and get_storage_component return an element of the list,
\* of that name, and the first one.
LEMMA FindFirst ==
  ASSUME NEW rows, NEW name, Len(rows) \in Nat
  PROVE  \/ Find(rows, name) = 0 /\ \A k \in 1 .. Len(rows) : rows[k].name # name
         \/ /\ Find(rows, name) \in 1 .. Len(rows) /\ rows[Find(rows, name)].name = name
            /\ \A k \in 1 .. Find(rows, name) - 1 : rows[k].name # name
<1> DEFINE I == {i \in 1 .. Len(rows) : rows[i].name = name}
<1>1. Find(rows, name) = IF I # {} THEN Min(I) ELSE 0
  BY DEF Find, SelectInSeq
<1>2. I \in SUBSET Nat
  OBVIOUS
<1>3. CASE I = {}
  BY <1>1, <1>3
<1>4. CASE I # {}
  <2>1. Min(I) \in I /\ \A k \in I : Min(I) <= k
    BY <1>2, <1>4, LeastPlace
  <2> HIDE DEF I
  <2>2. Find(rows, name) = Min(I)
    BY <1>1, <1>4
  <2>3. Min(I) \in 1 .. Len(rows) /\ rows[Min(I)].name = name
    BY <2>1 DEF I
  <2>4. ASSUME NEW k \in 1 .. Min(I) - 1 PROVE rows[k].name # name
    <3>1. k \notin I
      BY <2>1, <2>3
    <3>2. k \in 1 .. Len(rows)
      BY <2>3
    <3> QED BY <3>1, <3>2 DEF I
  <2> QED BY <2>2, <2>3, <2>4
<1> QED BY <1>3, <1>4

\* get_implementation returns an element of the list or NULL.
LEMMA ImplementationPlace ==
  ASSUME NEW id, Len(tables["IMPLEMENTATION"]) \in Nat
  PROVE  Implementation(id) = 0 \/ /\ Implementation(id) \in Places("IMPLEMENTATION")
                                   /\ tables["IMPLEMENTATION"][Implementation(id)].ID = id
<1> DEFINE I == {i \in 1 .. Len(tables["IMPLEMENTATION"]) : tables["IMPLEMENTATION"][i].ID = id}
<1>1. Implementation(id) = IF I # {} THEN Min(I) ELSE 0
  BY DEF Implementation, SelectInSeq
<1>2. I # {} => Min(I) \in I
  BY LeastPlace, I \in SUBSET Nat
<1> QED BY <1>1, <1>2 DEF Places

--------------------------------------------------------------------------------
(* What the callbacks do to a list.                                               *)

\* Lists only grow.
Grown == \A t \in Tables : Len(tables[t]) <= Len(tables'[t])

\* A sequence over a set is one over a larger set.
LEMMA SeqWider ==
  ASSUME NEW S, NEW T, S \subseteq T
  PROVE  Seq(S) \subseteq Seq(T)
<1> SUFFICES ASSUME NEW s \in Seq(S) PROVE s \in Seq(T)
  OBVIOUS
<1> QED OBVIOUS

\* What was in the tables still is.
LEMMA RowsGrow ==
  ASSUME Linked, Grown, \A t \in Tables : Len(tables'[t]) \in Nat
  PROVE  /\ \A t \in Tables : Places(t) \subseteq Places(t)'
         /\ \A t \in Tables : Rows[t] \subseteq Rows'[t]
<1>1. \A t \in Tables : Len(tables[t]) \in Nat
  BY DEF Linked
<1>2. \A t \in Tables : Places(t) \subseteq Places(t)'
  BY <1>1 DEF Grown, Places
<1>3. /\ Rows["FUNCTIONAL_COMPONENT"] = Rows'["FUNCTIONAL_COMPONENT"]
      /\ Rows["STORAGE_COMPONENT"] = Rows'["STORAGE_COMPONENT"]
      /\ Rows["OPERATION"] = Rows'["OPERATION"]
  BY DEF Rows
<1>4. Rows["COMPONENT"] \subseteq Rows'["COMPONENT"]
  BY <1>2 DEF Rows, Tables
<1>5. Rows["IMPLEMENTATION"] \subseteq Rows'["IMPLEMENTATION"]
  BY <1>2 DEF Rows, Tables
<1>6. Rows["BUS_COMPONENT"] \subseteq Rows'["BUS_COMPONENT"]
  <2>1. Seq(Places("FUNCTIONAL_COMPONENT")) \subseteq Seq(Places("FUNCTIONAL_COMPONENT")')
    BY <1>2, SeqWider DEF Tables
  <2>2. Seq(Places("STORAGE_COMPONENT")) \subseteq Seq(Places("STORAGE_COMPONENT")')
    BY <1>2, SeqWider DEF Tables
  <2> QED BY <2>1, <2>2 DEF Rows
<1> QED BY <1>2, <1>3, <1>4, <1>5, <1>6 DEF Tables

\* Lists that only grow leave the links in the tables.
LEMMA LinkedStep ==
  ASSUME Linked, DOMAIN tables' = Tables, DOMAIN temp' = Lists,
         \A t \in Tables : tables'[t] \in Seq(Rows[t]) /\ Len(tables[t]) <= Len(tables'[t]),
         \A l \in Lists : temp'[l] \in Seq(Places(ListOf[l]))
  PROVE  Linked' /\ Grown
<1>2. Grown /\ \A t \in Tables : Len(tables'[t]) \in Nat
  BY DEF Grown
<1>3. \A t \in Tables : Seq(Rows[t]) \subseteq Seq(Rows'[t])
  BY <1>2, RowsGrow, SeqWider
<1>4. \A l \in Lists : Seq(Places(ListOf[l])) \subseteq Seq(Places(ListOf[l])')
  BY <1>2, RowsGrow, SeqWider DEF Lists, ListOf, Tables
<1> QED BY <1>2, <1>3, <1>4 DEF Linked

\* One list with a new or a changed last element.
LEMMA LinkedList ==
  ASSUME Linked, NEW tag \in Tables, NEW rows \in Seq(Rows[tag]),
         tables' = [tables EXCEPT ![tag] = rows], Len(tables[tag]) <= Len(rows),
         DOMAIN temp' = Lists, \A l \in Lists : temp'[l] \in Seq(Places(ListOf[l]))
  PROVE  Linked' /\ Grown /\ tables'[tag] = rows
<1>1. DOMAIN tables' = Tables /\ tables'[tag] = rows
  BY DEF Linked
<1>2. ASSUME NEW t \in Tables
      PROVE  tables'[t] \in Seq(Rows[t]) /\ Len(tables[t]) <= Len(tables'[t])
  <2>1. CASE t = tag
    BY <1>1, <2>1
  <2>2. CASE t # tag
    <3>1. tables'[t] = tables[t] /\ tables[t] \in Seq(Rows[t])
      BY <2>2 DEF Linked
    <3> QED BY <3>1
  <2> QED BY <2>1, <2>2
<1> QED BY <1>1, <1>2, LinkedStep

--------------------------------------------------------------------------------
(* What the callbacks leave in place.                                             *)

\* What a callback reads is an event of the document.
LEMMA EventRead ==
  ASSUME HxmlInv, NEW kind, NEW tags, Event(kind, tags)
  PROVE  /\ status = "parsing" /\ pos + 1 \in DOMAIN doc /\ pos \in Nat /\ pos' = pos + 1
         /\ doc' = doc /\ doc' \in Documents /\ pos' \in 0 .. Len(doc')
         /\ doc[pos + 1].event = kind /\ Tag \in tags
         /\ kind = "leaf" => Text.word \in Names /\ Text.num \in Int
<1>1. doc \in Seq(Events) /\ pos \in 0 .. Len(doc) /\ pos < Len(doc)
  BY DocumentsAssumption DEF HxmlInv, Event
<1>2. doc[pos + 1] \in Events /\ pos + 1 \in DOMAIN doc
  BY <1>1
<1>3. doc[pos + 1].event = kind /\ Tag \in tags
  BY DEF Event, Tag
<1>4. kind = "leaf" => Text.word \in Names
  BY <1>2, <1>3 DEF Names, Text, HxmlInv
<1>5. kind = "leaf" => Text.num \in Int
  BY <1>2, <1>3 DEF Events, Text
<1> QED BY <1>1, <1>2, <1>3, <1>4, <1>5 DEF Event, HxmlInv

LEMMA WrittenTables == \A tag : Written(tag) \subseteq Tables
BY DEF Written, Tables, Lists

\* When lists only grow, what was started keeps its rows: what is left to show of a
\* callback is about the element it starts and the one it goes to.
LEMMA PlacedStep ==
  ASSUME HxmlInv, NEW kind, NEW tags, Event(kind, tags), Linked', Grown,
         kind = "start" /\ status' = "parsing" => \A t \in Written(Tag) : tables'[t] # <<>>,
         \/ state' = state
         \/ \A t \in Written(state') \ {"FUNCTIONAL_COMPONENT"} : tables[t] # <<>>
         \/ \A t \in Written(state') \ {"FUNCTIONAL_COMPONENT"} : tables'[t] # <<>>
  PROVE  Placed'
<1>1. ASSUME NEW t \in Tables, tables[t] # <<>> PROVE tables'[t] # <<>>
  <2>1. tables[t] \in Seq(Rows[t]) /\ tables'[t] \in Seq(Rows'[t])
    BY DEF HxmlInv, Linked
  <2>2. Len(tables[t]) # 0
    BY <2>1, <1>1
  <2> QED BY <2>1, <2>2 DEF Grown
<1>2. \A t \in Written(state') \ {"FUNCTIONAL_COMPONENT"} : tables'[t] # <<>>
  BY <1>1, WrittenTables DEF HxmlInv, Placed
<1>3. ASSUME status' = "parsing", NEW k \in 1 .. pos + 1, doc[k].event = "start",
             NEW t \in Written(doc[k].tag)
      PROVE  tables'[t] # <<>>
  <2>1. CASE k = pos + 1
    BY <2>1, <1>3, EventRead DEF Tag
  <2>2. CASE k # pos + 1
    BY <2>2, <1>1, <1>3, EventRead, WrittenTables DEF HxmlInv, Placed
  <2> QED BY <2>1, <2>2
<1>4. doc' = doc /\ pos' = pos + 1
  BY EventRead
<1> QED BY <1>2, <1>3, <1>4 DEF Placed

\* The lists are left alone.
LEMMA LinkedSame ==
  ASSUME Linked, UNCHANGED <<tables, temp>>
  PROVE  Linked' /\ Grown
<1>1. \A t : Len(tables[t]) = Len(tables'[t]) /\ Places(t) = Places(t)'
  BY DEF Places
<1>2. Rows = Rows'
  BY <1>1 DEF Rows
<1>3. Grown
  BY DEF Grown, Linked
<1> QED BY <1>1, <1>2, <1>3 DEF Linked

\* Only what was looked up for a list of units or storages changes.
LEMMA TempSet ==
  ASSUME Linked, UNCHANGED tables, DOMAIN temp' = Lists,
         \A l \in Lists : temp'[l] \in Seq(Places(ListOf[l]))
  PROVE  Linked' /\ Grown
<1>1. \A t \in Tables : tables'[t] \in Seq(Rows[t]) /\ Len(tables[t]) <= Len(tables'[t])
  <2> TAKE t \in Tables
  <2>1. tables'[t] = tables[t] /\ tables[t] \in Seq(Rows[t])
    BY DEF Linked
  <2> QED BY <2>1
<1> QED BY <1>1, LinkedStep DEF Linked

\* A callback that exits, crashes or does nothing.
LEMMA NothingWritten ==
  ASSUME HxmlInv, NEW kind, NEW tags, Event(kind, tags), Exit \/ Crash \/ Ignore,
         kind = "start" /\ status' = "parsing" => Written(Tag) = {}
  PROVE  HxmlInv'
<1>1. Linked' /\ Grown
  BY LinkedSame DEF HxmlInv, Exit, Crash, Ignore
<1>2. state' = state
  BY DEF Exit, Crash, Ignore
<1>3. Placed'
  BY <1>1, <1>2, PlacedStep
<1>4. status' \in {"parsing", "exit", "crash"}
  BY EventRead DEF Exit, Crash, Ignore
<1> QED BY <1>1, <1>3, <1>4, EventRead DEF HxmlInv

--------------------------------------------------------------------------------
(* Each callback keeps the invariant.                                             *)

\* The tags whose start gives the list of that tag a new element, and what that is.
LEMMA NewRow ==
  ASSUME Linked, NEW tag \in Tables,
         tag = "COMPONENT" => tables["OPERATION"] # <<>>,
         tag = "IMPLEMENTATION" => tables["COMPONENT"] # <<>>
  PROVE  Row(tag) \in Rows[tag]
<1>1. ASSUME NEW t \in Tables, tables[t] # <<>> PROVE Len(tables[t]) \in Places(t)
  BY <1>1 DEF Linked, Places
<1>0. NoName \in Names
  BY DEF Names
<1>2. CASE tag = "COMPONENT"
  <2>1. Row("COMPONENT") = [name |-> NoName, unit |-> 0, operation |-> Len(tables["OPERATION"])]
    BY DEF Row
  <2> QED BY <1>0, <1>1, <1>2, <2>1 DEF Rows, Tables
<1>3. CASE tag = "IMPLEMENTATION"
  <2>1. Row("IMPLEMENTATION") = [ID |-> 0, START_INPUT_XR |-> 0, START_OUTPUT_XR |-> 0,
                                 component |-> Len(tables["COMPONENT"])]
    BY DEF Row
  <2> QED BY <1>1, <1>3, <2>1 DEF Rows, Tables
<1>4. CASE tag = "BUS_COMPONENT"
  <2>1. Row("BUS_COMPONENT") =
          [name |-> NoName, ADDR_BUS_WIDTH |-> 0, DATA_BUS_WIDTH |-> 0, READ_CYCLES |-> 0,
           FUNCTIONAL_COMPONENTS |-> <<>>, STORAGE_COMPONENTS |-> <<>>]
    BY DEF Row
  <2>2. Rows["BUS_COMPONENT"] =
          [name : Names, ADDR_BUS_WIDTH : Int, DATA_BUS_WIDTH : Int, READ_CYCLES : Int,
           FUNCTIONAL_COMPONENTS : Seq(Places("FUNCTIONAL_COMPONENT")),
           STORAGE_COMPONENTS : Seq(Places("STORAGE_COMPONENT"))]
    BY DEF Rows
  <2>3. PICK e : e = <<>>
    OBVIOUS
  <2>4. \A S : e \in Seq(S)
    BY <2>3
  <2>5. Row("BUS_COMPONENT") =
          [name |-> NoName, ADDR_BUS_WIDTH |-> 0, DATA_BUS_WIDTH |-> 0, READ_CYCLES |-> 0,
           FUNCTIONAL_COMPONENTS |-> e, STORAGE_COMPONENTS |-> e]
    BY <2>1, <2>3
  <2> QED BY <1>0, <1>4, <2>2, <2>4, <2>5
<1>5. CASE tag = "FUNCTIONAL_COMPONENT"
  <2>1. Row("FUNCTIONAL_COMPONENT") = [name |-> NoName, type |-> "GPP"]
    BY DEF Row
  <2> QED BY <1>0, <1>5, <2>1 DEF Rows, Types
<1>6. CASE tag = "STORAGE_COMPONENT"
  <2>1. Row("STORAGE_COMPONENT") = [name |-> NoName]
    BY DEF Row
  <2> QED BY <1>0, <1>6, <2>1 DEF Rows
<1>7. CASE tag = "OPERATION"
  <2>1. Row("OPERATION") = [name |-> NoName]
    BY DEF Row
  <2> QED BY <1>0, <1>7, <2>1 DEF Rows
<1> QED BY <1>2, <1>3, <1>4, <1>5, <1>6, <1>7 DEF Tables

\* The list of a tag gets a new element.
LEMMA RowAppended ==
  ASSUME Linked, NEW tag \in Tables, UNCHANGED temp,
         tables' = [tables EXCEPT ![tag] = Append(@, Row(tag))],
         tag = "COMPONENT" => tables["OPERATION"] # <<>>,
         tag = "IMPLEMENTATION" => tables["COMPONENT"] # <<>>
  PROVE  Linked' /\ Grown /\ tables'[tag] # <<>>
<1> DEFINE rows == Append(tables[tag], Row(tag))
<1>1. tables[tag] \in Seq(Rows[tag])
  BY DEF Linked
<1>2. Row(tag) \in Rows[tag]
  BY NewRow
<1>3. rows \in Seq(Rows[tag]) /\ Len(rows) = Len(tables[tag]) + 1
  <2>1. ASSUME NEW S, NEW s \in Seq(S), NEW e \in S
        PROVE  Append(s, e) \in Seq(S) /\ Len(Append(s, e)) = Len(s) + 1
    OBVIOUS
  <2> QED BY <1>1, <1>2, <2>1
<1>4. tables' = [tables EXCEPT ![tag] = rows]
  OBVIOUS
<1>5. DOMAIN temp' = Lists /\ \A l \in Lists : temp'[l] \in Seq(Places(ListOf[l]))
  BY DEF Linked
<1>6. Len(tables[tag]) <= Len(rows)
  BY <1>1, <1>3
<1> HIDE DEF rows
<1>7. rows # <<>>
  BY <1>1, <1>3
<1> QED BY <1>3, <1>4, <1>5, <1>6, <1>7, LinkedList

\* The last element of a list changes.
LEMMA RowChanged ==
  ASSUME Linked, NEW tag \in Tables, tables[tag] # <<>>,
         NEW row \in Rows[tag],
         tables' = [tables EXCEPT ![tag] = [@ EXCEPT ![Len(@)] = row]],
         DOMAIN temp' = Lists, \A l \in Lists : temp'[l] \in Seq(Places(ListOf[l]))
  PROVE  Linked' /\ Grown
<1> DEFINE rows == [tables[tag] EXCEPT ![Len(tables[tag])] = row]
<1>1. tables[tag] \in Seq(Rows[tag])
  BY DEF Linked
<1>2. rows \in Seq(Rows[tag]) /\ Len(rows) = Len(tables[tag])
  BY <1>1
<1>3. tables' = [tables EXCEPT ![tag] = rows]
  OBVIOUS
<1>4. Len(tables[tag]) <= Len(rows)
  BY <1>1, <1>2
<1> HIDE DEF rows
<1> QED BY <1>2, <1>3, <1>4, LinkedList

\* A field of the last element of a list is set.
LEMMA FieldSet ==
  ASSUME Linked, NEW tag \in Tables, tables[tag] # <<>>, NEW field, NEW value,
         [tables[tag][Len(tables[tag])] EXCEPT ![field] = value] \in Rows[tag],
         tables' = Field(tag, field, value),
         DOMAIN temp' = Lists, \A l \in Lists : temp'[l] \in Seq(Places(ListOf[l]))
  PROVE  Linked' /\ Grown
<1> DEFINE row == [tables[tag][Len(tables[tag])] EXCEPT ![field] = value]
<1>1. tables' = [tables EXCEPT ![tag] = [@ EXCEPT ![Len(@)] = row]]
  BY DEF Field, Linked
<1> HIDE DEF row
<1> QED BY <1>1, RowChanged DEF row

LEMMA LastRow ==
  ASSUME Linked, NEW tag \in Tables, tables[tag] # <<>>
  PROVE  tables[tag][Len(tables[tag])] \in Rows[tag]
BY DEF Linked

LEMMA StartAnywhereKeeps ==
  ASSUME HxmlInv, StartAnywhere
  PROVE  HxmlInv'
<1> DEFINE tags == {"FUNCTIONAL_COMPONENT", "STORAGE_COMPONENT", "BUS_COMPONENT",
                    "VBUS_COMPONENT", "OPERATIONS", "HEADERS", "DATA"}
<1>1. Event("start", tags) /\ Tag \in tags /\ state' = Tag /\ status' = status /\ UNCHANGED temp
  BY EventRead DEF StartAnywhere
<1>2. Linked' /\ Grown /\ \A t \in Written(Tag) : tables'[t] # <<>>
  <2>1. CASE Tag \in Tables
    <3>1. Linked' /\ Grown /\ tables'[Tag] # <<>>
      BY <1>1, <2>1, RowAppended DEF StartAnywhere, HxmlInv
    <3>2. Written(Tag) = {Tag}
      BY <1>1, <2>1 DEF Written, Lists
    <3> QED BY <3>1, <3>2
  <2>2. CASE Tag \notin Tables
    <3>1. Written(Tag) = {}
      BY <1>1, <2>2 DEF Written, Lists
    <3> QED BY <3>1, <1>1, <2>2, LinkedSame DEF StartAnywhere, HxmlInv
  <2> QED BY <2>1, <2>2
<1> HIDE DEF tags
<1>3. Placed'
  BY <1>1, <1>2, PlacedStep
<1> QED BY <1>1, <1>2, <1>3, EventRead DEF HxmlInv

LEMMA StartWithinKeeps ==
  ASSUME HxmlInv, StartWithin
  PROVE  HxmlInv'
<1>1. Event("start", DOMAIN Within) /\ Tag \in DOMAIN Within
  BY EventRead DEF StartWithin
<1>2. CASE ~Fits(Tag)
  BY <1>1, <1>2, NothingWritten DEF StartWithin, Exit
<1>3. CASE Fits(Tag)
  <2>1. state = Within[Tag] /\ state' = Tag /\ status' = status
    BY <1>3 DEF StartWithin, Fits
  <2>2. \A t \in Written(Within[Tag]) \ {"FUNCTIONAL_COMPONENT"} : tables[t] # <<>>
    BY <2>1 DEF HxmlInv, Placed
  <2>3. Linked' /\ Grown /\ \A t \in Written(Tag) : tables'[t] # <<>>
    <3>1. CASE Tag \in Lists
      <4>1. UNCHANGED tables /\ temp' = [temp EXCEPT ![Tag] = <<>>]
        BY <1>3, <3>1 DEF StartWithin
      <4>2. DOMAIN temp' = Lists /\ \A l \in Lists : temp'[l] \in Seq(Places(ListOf[l]))
        <5>1. \A S : <<>> \in Seq(S)
          OBVIOUS
        <5> QED BY <4>1, <3>1, <5>1 DEF HxmlInv, Linked
      <4>3. Within[Tag] = "BUS_COMPONENT"
        BY <3>1 DEF Within, Lists
      <4>4. Written("BUS_COMPONENT") = {"BUS_COMPONENT"} /\ Written(Tag) = {"BUS_COMPONENT"}
        BY <3>1 DEF Written, Lists, Tables
      <4>5. tables["BUS_COMPONENT"] # <<>>
        BY <2>2, <4>3, <4>4
      <4>6. Linked' /\ Grown
        BY <4>1, <4>2, TempSet DEF HxmlInv
      <4> QED BY <4>1, <4>4, <4>5, <4>6
    <3>2. CASE Tag \notin Lists
      <4>1. UNCHANGED temp /\ tables' = [tables EXCEPT ![Tag] = Append(@, Row(Tag))]
        BY <1>3, <3>2 DEF StartWithin
      <4>2. Tag \in {"OPERATION", "COMPONENT", "IMPLEMENTATION"}
        BY <1>1, <3>2 DEF Within, Lists
      <4>3. /\ Tag = "COMPONENT" => tables["OPERATION"] # <<>>
            /\ Tag = "IMPLEMENTATION" => tables["OPERATION"] # <<>> /\ tables["COMPONENT"] # <<>>
        <5>1. /\ Within["COMPONENT"] = "OPERATION" /\ Within["IMPLEMENTATION"] = "COMPONENT"
              /\ Written("OPERATION") = {"OPERATION"}
              /\ Written("COMPONENT") = {"COMPONENT", "OPERATION"}
          BY DEF Written, Within, Lists, Tables
        <5> QED BY <2>2, <5>1
      <4>4. Linked' /\ Grown /\ tables'[Tag] # <<>>
        BY <4>1, <4>2, <4>3, RowAppended DEF HxmlInv, Tables
      <4>5. \A t \in Written(Tag) : t = Tag \/ (tables[t] # <<>> /\ t # Tag /\ t \in Tables)
        BY <4>2, <4>3 DEF Written, Lists, Tables
      <4>6. \A t \in Tables : t # Tag => tables'[t] = tables[t]
        BY <4>1 DEF HxmlInv, Linked
      <4> QED BY <4>4, <4>5, <4>6
    <3> QED BY <3>1, <3>2
  <2>4. Placed'
    BY <1>1, <2>1, <2>3, PlacedStep
  <2> QED BY <1>1, <2>1, <2>3, <2>4, EventRead DEF HxmlInv
<1> QED BY <1>2, <1>3

LEMMA StartOtherKeeps ==
  ASSUME HxmlInv, StartOther
  PROVE  HxmlInv'
<1>1. Tag \notin Tables /\ Tag \notin Lists
  BY EventRead DEF StartOther, Within, Lists
<1>2. Written(Tag) = {}
  BY <1>1 DEF Written, Tables
<1> QED BY <1>2, NothingWritten DEF StartOther

\* A component is one of an operation.
LEMMA ComponentInOperation ==
  ASSUME Linked, tables["COMPONENT"] # <<>>
  PROVE  tables["OPERATION"] # <<>>
<1>1. tables["COMPONENT"][Len(tables["COMPONENT"])] \in Rows["COMPONENT"]
  BY LastRow DEF Tables
<1>2. Places("OPERATION") # {}
  BY <1>1 DEF Rows
<1>3. tables["OPERATION"] \in Seq(Rows["OPERATION"])
  BY DEF Linked, Tables
<1>4. Len(tables["OPERATION"]) # 0
  BY <1>2, <1>3 DEF Places
<1> QED BY <1>3, <1>4

\* What temp_functional_components and temp_storage_components are after one is emptied.
LEMMA TempEmptied ==
  ASSUME Linked, NEW l \in Lists, temp' = [temp EXCEPT ![l] = <<>>]
  PROVE  DOMAIN temp' = Lists /\ \A m \in Lists : temp'[m] \in Seq(Places(ListOf[m]))
<1>1. \A S : <<>> \in Seq(S)
  OBVIOUS
<1> QED BY <1>1 DEF Linked

LEMMA EndElementKeeps ==
  ASSUME HxmlInv, EndElement
  PROVE  HxmlInv'
<1>1. \E tags : Event("end", tags)
  BY DEF EndElement
<1>2. status' = status /\ Linked
  BY DEF EndElement, HxmlInv
<1>3. \A t \in Written(Tag) : tables[t] # <<>>
  <2>1. /\ doc \in Documents /\ pos + 1 \in DOMAIN doc /\ doc[pos + 1].event = "end"
        /\ status = "parsing" /\ pos \in Nat
    BY <1>1, EventRead DEF HxmlInv
  <2>2. PICK j \in 1 .. (pos + 1) - 1 : doc[j].event = "start" /\ doc[j].tag = doc[pos + 1].tag
    BY <2>1, DocumentsAssumption
  <2>3. j \in 1 .. pos
    BY <2>1
  <2> QED BY <2>1, <2>2, <2>3 DEF HxmlInv, Placed, Tag
<1>4. state' = state \/ \A t \in Written(state') \ {"FUNCTIONAL_COMPONENT"} : tables[t] # <<>>
  <2>1. CASE Tag \notin DOMAIN After
    BY <2>1 DEF EndElement
  <2>2. CASE Tag \in {"FUNCTIONAL_COMPONENT", "STORAGE_COMPONENT", "BUS_COMPONENT",
                      "VBUS_COMPONENT", "OPERATION", "HEADERS"}
    <3>1. state' \in {"NONE", "OPERATIONS", "FUNCTIONAL_COMPONENT"}
      BY <2>2 DEF EndElement, After
    <3> QED BY <3>1 DEF Written, Lists, Tables
  <2>3. CASE Tag \in Lists
    <3>1. state' = "BUS_COMPONENT"
      BY <2>3 DEF EndElement, After, Lists
    <3> QED BY <3>1, <2>3, <1>3 DEF Written, Lists, Tables
  <2>4. CASE Tag = "COMPONENT"
    <3>1. state' = "OPERATION"
      BY <2>4 DEF EndElement, After
    <3> QED BY <3>1, <2>4, <1>3 DEF Written, Lists, Tables
  <2>5. CASE Tag = "IMPLEMENTATION"
    <3>1. state' = "COMPONENT"
      BY <2>5 DEF EndElement, After
    <3>2. tables["COMPONENT"] # <<>>
      BY <2>5, <1>3 DEF Written, Lists, Tables
    <3>3. Written("COMPONENT") = {"COMPONENT", "OPERATION"}
      BY DEF Written, Lists, Tables
    <3> QED BY <3>1, <3>2, <3>3, <1>2, ComponentInOperation
  <2> QED BY <2>1, <2>2, <2>3, <2>4, <2>5 DEF After, Lists
<1>5. Linked' /\ Grown
  <2>1. CASE Tag \notin Lists
    BY <2>1, <1>2, LinkedSame DEF EndElement
  <2>2. CASE Tag \in Lists
    <3>1. /\ tables' = Field("BUS_COMPONENT", Tag, temp[Tag])
          /\ temp' = [temp EXCEPT ![Tag] = <<>>]
      BY <2>2 DEF EndElement
    <3>2. tables["BUS_COMPONENT"] # <<>> /\ "BUS_COMPONENT" \in Tables
      BY <2>2, <1>3 DEF Written, Tables
    <3>3. temp[Tag] \in Seq(Places(ListOf[Tag])) /\ ListOf[Tag] =
            IF Tag = "FUNCTIONAL_COMPONENTS" THEN "FUNCTIONAL_COMPONENT" ELSE "STORAGE_COMPONENT"
      BY <2>2, <1>2 DEF Linked, Lists, ListOf
    <3> DEFINE row == tables["BUS_COMPONENT"][Len(tables["BUS_COMPONENT"])]
    <3>4. row \in Rows["BUS_COMPONENT"]
      BY <3>2, <1>2, LastRow
    <3>5. [row EXCEPT ![Tag] = temp[Tag]] \in Rows["BUS_COMPONENT"]
      <4> HIDE DEF row
      <4>1. CASE Tag = "FUNCTIONAL_COMPONENTS"
        BY <3>3, <3>4, <4>1 DEF Rows
      <4>2. CASE Tag = "STORAGE_COMPONENTS"
        BY <3>3, <3>4, <4>2 DEF Rows
      <4> QED BY <2>2, <4>1, <4>2 DEF Lists
    <3>6. DOMAIN temp' = Lists /\ \A l \in Lists : temp'[l] \in Seq(Places(ListOf[l]))
      BY <2>2, <3>1, <1>2, TempEmptied
    <3> QED BY <3>1, <3>2, <3>5, <3>6, <1>2, FieldSet
  <2> QED BY <2>1, <2>2
<1>6. Placed'
  BY <1>1, <1>4, <1>5, PlacedStep
<1> QED BY <1>1, <1>2, <1>5, <1>6, EventRead DEF HxmlInv

\* A leaf that changes what is in the tables and not where the callbacks are.
LEMMA LeafKeeps ==
  ASSUME HxmlInv, NEW tags, Event("leaf", tags), Linked', Grown, UNCHANGED <<status, state>>
  PROVE  HxmlInv'
<1>1. Placed'
  BY PlacedStep
<1> QED BY <1>1, EventRead DEF HxmlInv

\* A leaf that sets a field of the last element of a list.
LEMMA FieldKeeps ==
  ASSUME HxmlInv, NEW tags, Event("leaf", tags), NEW tag \in Tables, tables[tag] # <<>>,
         NEW field, NEW value,
         \A row \in Rows[tag] : [row EXCEPT ![field] = value] \in Rows[tag],
         tables' = Field(tag, field, value), UNCHANGED <<status, state, temp>>
  PROVE  HxmlInv'
<1>1. Linked
  BY DEF HxmlInv
<1>2. [tables[tag][Len(tables[tag])] EXCEPT ![field] = value] \in Rows[tag]
  BY <1>1, LastRow
<1>3. DOMAIN temp' = Lists /\ \A l \in Lists : temp'[l] \in Seq(Places(ListOf[l]))
  BY <1>1 DEF Linked
<1>4. Linked' /\ Grown
  BY <1>1, <1>2, <1>3, FieldSet
<1> QED BY <1>4, LeafKeeps

LEMMA EndNameKeeps ==
  ASSUME HxmlInv, EndName
  PROVE  HxmlInv'
<1> DEFINE name == Text.word
           rows == tables[ListOf[state]]
<1>1. Event("leaf", {"NAME"}) /\ name \in Names /\ Linked
  BY EventRead DEF EndName, HxmlInv
<1>2. CASE Exit \/ Crash \/ Ignore
  BY <1>1, <1>2, NothingWritten
<1>3. CASE /\ state \in DOMAIN ListOf /\ Find(rows, name) # 0
           /\ UNCHANGED <<status, state>>
           /\ IF state \in Lists
                THEN /\ temp' = [temp EXCEPT ![state] = Append(@, Find(rows, name))]
                     /\ UNCHANGED tables
                ELSE /\ tables' = [tables EXCEPT ![state][Len(tables[state])] =
                                    [@ EXCEPT !.name = name, !.unit = Find(rows, name)]]
                     /\ UNCHANGED temp
  <2>1. ListOf[state] \in Tables
    BY <1>3 DEF ListOf, Tables
  <2>2. rows \in Seq(Rows[ListOf[state]])
    BY <2>1, <1>1 DEF Linked
  <2>3. Find(rows, name) \in Places(ListOf[state])
    <3>1. Len(rows) \in Nat
      BY <2>2
    <3> HIDE DEF name
    <3>2. Find(rows, name) \in 1 .. Len(rows)
      BY <3>1, <1>3, FindFirst
    <3> QED BY <3>2 DEF Places
  <2>4. CASE state \in Lists
    <3> DEFINE found == Find(rows, name)
               more == Append(temp[state], found)
    <3>1. temp' = [temp EXCEPT ![state] = more] /\ UNCHANGED tables
      BY <1>3, <2>4
    <3> HIDE DEF found
    <3>2. temp[state] \in Seq(Places(ListOf[state]))
      BY <2>4, <1>1 DEF Linked
    <3>3. more \in Seq(Places(ListOf[state]))
      BY <2>3, <3>2 DEF found
    <3> HIDE DEF more
    <3>4. DOMAIN temp' = Lists /\ \A l \in Lists : temp'[l] \in Seq(Places(ListOf[l]))
      BY <3>1, <3>3, <2>4, <1>1 DEF Linked
    <3>5. Linked' /\ Grown
      BY <3>1, <3>4, <1>1, TempSet
    <3> QED BY <3>5, <1>1, <1>3, LeafKeeps
  <2>5. CASE state \notin Lists
    <3>1. state = "COMPONENT"
      BY <2>5, <1>3 DEF ListOf, Lists
    <3>2. ListOf[state] = "FUNCTIONAL_COMPONENT"
      BY <3>1 DEF ListOf
    <3>3. tables["COMPONENT"] # <<>>
      BY <3>1 DEF HxmlInv, Placed, Written, Lists, Tables
    <3> DEFINE found == Find(rows, name)
               last == tables["COMPONENT"][Len(tables["COMPONENT"])]
               row == [last EXCEPT !.name = name, !.unit = found]
    <3>4. /\ tables' = [tables EXCEPT !["COMPONENT"] = [@ EXCEPT ![Len(@)] = row]]
          /\ UNCHANGED temp
      BY <3>1, <2>5, <1>3
    <3>5. last \in Rows["COMPONENT"]
      BY <3>3, <1>1, LastRow DEF Tables
    <3>6. found \in Places("FUNCTIONAL_COMPONENT")
      BY <2>3, <3>2
    <3> HIDE DEF found, last, name
    <3>7. row \in Rows["COMPONENT"]
      BY <3>5, <3>6, <1>1 DEF Rows
    <3> HIDE DEF row
    <3>8. DOMAIN temp' = Lists /\ \A l \in Lists : temp'[l] \in Seq(Places(ListOf[l]))
      BY <3>4, <1>1 DEF Linked
    <3>9. "COMPONENT" \in Tables
      BY DEF Tables
    <3>10. Linked' /\ Grown
      BY <3>3, <3>4, <3>7, <3>8, <3>9, <1>1, RowChanged
    <3> QED BY <3>10, <1>1, <1>3, LeafKeeps
  <2> QED BY <2>4, <2>5
<1>4. CASE /\ state \in Tables \ {"IMPLEMENTATION", "COMPONENT"} /\ tables[state] # <<>>
           /\ tables' = Field(state, "name", name) /\ UNCHANGED <<status, state, temp>>
  <2>1. \A row \in Rows[state] : [row EXCEPT !["name"] = name] \in Rows[state]
    <3> HIDE DEF name
    <3>1. CASE state = "FUNCTIONAL_COMPONENT"
      BY <1>1, <3>1 DEF Rows
    <3>2. CASE state = "STORAGE_COMPONENT"
      BY <1>1, <3>2 DEF Rows
    <3>3. CASE state = "OPERATION"
      BY <1>1, <3>3 DEF Rows
    <3>4. CASE state = "BUS_COMPONENT"
      BY <1>1, <3>4 DEF Rows
    <3> QED BY <1>4, <3>1, <3>2, <3>3, <3>4 DEF Tables
  <2> HIDE DEF name
  <2>2. state \in Tables
    BY <1>4
  <2> QED BY <2>1, <2>2, <1>1, <1>4, FieldKeeps
<1> QED BY <1>2, <1>3, <1>4 DEF EndName, ListOf

LEMMA EndBusNumberKeeps ==
  ASSUME HxmlInv, EndBusNumber
  PROVE  HxmlInv'
<1>1. Event("leaf", BusNumbers) /\ Tag \in BusNumbers /\ Text.num \in Int
  BY EventRead DEF EndBusNumber
<1>2. CASE Exit
  BY <1>1, <1>2, NothingWritten
<1>3. CASE /\ state = "BUS_COMPONENT" /\ tables' = Field("BUS_COMPONENT", Tag, Text.num)
           /\ UNCHANGED <<status, state, temp>>
  <2>1. tables["BUS_COMPONENT"] # <<>> /\ "BUS_COMPONENT" \in Tables
    BY <1>3 DEF HxmlInv, Placed, Written, Lists, Tables
  <2>2. \A row \in Rows["BUS_COMPONENT"] : [row EXCEPT ![Tag] = Text.num] \in Rows["BUS_COMPONENT"]
    BY <1>1 DEF Rows, BusNumbers
  <2> QED BY <2>1, <2>2, <1>1, <1>3, FieldKeeps
<1> QED BY <1>2, <1>3 DEF EndBusNumber, Number

LEMMA EndIdKeeps ==
  ASSUME HxmlInv, EndId
  PROVE  HxmlInv'
<1>1. Event("leaf", {"ID"}) /\ Tag = "ID" /\ Text.num \in Int
  BY EventRead DEF EndId
<1>2. CASE Exit
  BY <1>1, <1>2, NothingWritten
<1>3. CASE /\ state = "IMPLEMENTATION" /\ tables' = Field("IMPLEMENTATION", Tag, Text.num)
           /\ UNCHANGED <<status, state, temp>>
  <2>1. tables["IMPLEMENTATION"] # <<>> /\ "IMPLEMENTATION" \in Tables
    BY <1>3 DEF HxmlInv, Placed, Written, Lists, Tables
  <2>2. \A row \in Rows["IMPLEMENTATION"] : [row EXCEPT ![Tag] = Text.num] \in Rows["IMPLEMENTATION"]
    BY <1>1 DEF Rows
  <2> QED BY <2>1, <2>2, <1>1, <1>3, FieldKeeps
<1> QED BY <1>2, <1>3 DEF EndId, Number

LEMMA EndRegisterKeeps ==
  ASSUME HxmlInv, EndRegister
  PROVE  HxmlInv'
<1>1. Event("leaf", Registers) /\ Tag \in Registers /\ Text.num \in Int
  BY EventRead DEF EndRegister
<1>2. CASE Exit \/ Ignore
  BY <1>1, <1>2, NothingWritten
<1>3. CASE /\ tables["IMPLEMENTATION"] # <<>> /\ tables' = Field("IMPLEMENTATION", Tag, Text.num)
           /\ UNCHANGED <<status, state, temp>>
  <2>1. \A row \in Rows["IMPLEMENTATION"] : [row EXCEPT ![Tag] = Text.num] \in Rows["IMPLEMENTATION"]
    BY <1>1 DEF Rows, Registers
  <2>2. "IMPLEMENTATION" \in Tables
    BY DEF Tables
  <2> QED BY <2>1, <2>2, <1>1, <1>3, FieldKeeps
<1> QED BY <1>2, <1>3 DEF EndRegister, Number

LEMMA EndTypeKeeps ==
  ASSUME HxmlInv, EndType
  PROVE  HxmlInv'
<1>1. Event("leaf", {"TYPE"})
  BY DEF EndType
<1>2. CASE Exit \/ Crash \/ Ignore
  BY <1>1, <1>2, NothingWritten
<1>3. CASE /\ state = "FUNCTIONAL_COMPONENT" /\ tables[state] # <<>> /\ Text.word \in Types
           /\ tables' = Field(state, "type", Text.word) /\ UNCHANGED <<status, state, temp>>
  <2>1. \A row \in Rows[state] : [row EXCEPT !["type"] = Text.word] \in Rows[state]
    BY <1>3 DEF Rows
  <2>2. state \in Tables
    BY <1>3 DEF Tables
  <2> QED BY <2>1, <2>2, <1>1, <1>3, FieldKeeps
<1> QED BY <1>2, <1>3 DEF EndType

--------------------------------------------------------------------------------
(* The theorems.                                                                  *)

LEMMA InitHxml == Init => HxmlInv
<1> SUFFICES ASSUME Init PROVE HxmlInv
  OBVIOUS
<1>1. doc \in Seq(Events)
  BY DocumentsAssumption DEF Init
<1>2. \A S : <<>> \in Seq(S)
  OBVIOUS
<1>3. Linked
  BY <1>2 DEF Init, Linked
<1>4. Written("NONE") = {}
  BY DEF Written, Lists, Tables
<1>5. Placed
  BY <1>4 DEF Init, Placed
<1> QED BY <1>1, <1>3, <1>5 DEF Init, HxmlInv

\* Whatever leaves the file, the lists and the callbacks' element alone.
LEMMA QuietKeeps ==
  ASSUME HxmlInv, UNCHANGED <<doc, pos, state, tables, temp>>,
         \/ status' = status \/ status' \in {"read", "broken", "exit"}
         \/ status = "new" /\ status' = "parsing"
  PROVE  HxmlInv'
<1>1. Linked'
  BY LinkedSame DEF HxmlInv
<1>2. Placed'
  BY DEF HxmlInv, Placed
<1> QED BY <1>1, <1>2 DEF HxmlInv

LEMMA StepKeepsHxml ==
  ASSUME HxmlInv, [Next]_vars
  PROVE  HxmlInv'
<1>1. CASE StartAnywhere \/ StartWithin \/ StartOther
  BY <1>1, StartAnywhereKeeps, StartWithinKeeps, StartOtherKeeps
<1>2. CASE EndElement \/ EndName
  BY <1>2, EndElementKeeps, EndNameKeeps
<1>3. CASE EndBusNumber \/ EndId \/ EndRegister \/ EndType
  BY <1>3, EndBusNumberKeeps, EndIdKeeps, EndRegisterKeeps, EndTypeKeeps
<1>4. CASE Open
  BY <1>4, QuietKeeps DEF Open
<1>5. CASE Return
  BY <1>5, QuietKeeps DEF Return
<1>6. CASE Ask
  <2>1. UNCHANGED <<doc, pos, status, state, tables, temp>>
    BY <1>6 DEF Ask, AskType, AskRegister, AskBus, Answer, Refuse, Reply
  <2> QED BY <2>1, QuietKeeps
<1>7. CASE Stopped \/ UNCHANGED vars
  <2>1. UNCHANGED <<doc, pos, status, state, tables, temp>>
    BY <1>7 DEF Stopped, vars
  <2> QED BY <2>1, QuietKeeps
<1> QED BY <1>1, <1>2, <1>3, <1>4, <1>5, <1>6, <1>7 DEF Next, Parse

\* What one element of the lists points to is an element of the lists, and the
\* pointers the callbacks write through (current_*) are set when they are within an
\* element, but for a unit behind HEADERS (startElement and endElement of gcc/hxml.c).
THEOREM LinksInTables == Spec => []HxmlInv
<1> QED BY InitHxml, StepKeepsHxml, PTL DEF Spec

\* The unit an implementation leads to.
UnitsKnown == \A id \in Ids : UnitOf(id) \in {0} \cup Places("FUNCTIONAL_COMPONENT")

LEMMA UnitKnown == HxmlInv => UnitsKnown
<1> SUFFICES ASSUME HxmlInv, NEW id \in Ids, Implementation(id) # 0
             PROVE  UnitOf(id) \in {0} \cup Places("FUNCTIONAL_COMPONENT")
  BY DEF UnitsKnown, UnitOf
<1> DEFINE i == tables["IMPLEMENTATION"][Implementation(id)]
           c == tables["COMPONENT"][i.component]
<1>1. /\ tables["IMPLEMENTATION"] \in Seq(Rows["IMPLEMENTATION"])
      /\ tables["COMPONENT"] \in Seq(Rows["COMPONENT"])
  BY DEF HxmlInv, Linked, Tables
<1>2. Implementation(id) \in Places("IMPLEMENTATION")
  BY <1>1, ImplementationPlace
<1>3. i \in Rows["IMPLEMENTATION"]
  BY <1>1, <1>2 DEF Places
<1>4. i.component \in Places("COMPONENT")
  BY <1>3 DEF Rows
<1>5. c \in Rows["COMPONENT"]
  BY <1>1, <1>4 DEF Places
<1>6. c.unit \in {0} \cup Places("FUNCTIONAL_COMPONENT")
  BY <1>5 DEF Rows
<1> QED BY <1>6 DEF UnitOf

\* In every file, however much of it was read, an implementation leads to a unit of
\* the lists or to none: get_functional_component_from_implementation follows no
\* pointer that was never set.
THEOREM UnitsAreKnown == Spec => []UnitsKnown
<1> QED BY InitHxml, StepKeepsHxml, UnitKnown, PTL DEF Spec

\* A name is looked up behind a unit or storage that has none.
LookedUpNameless == state \in DOMAIN ListOf /\ Nameless(tables[ListOf[state]], Text.word)

\* No unit was started yet and HEADERS has ended.
BehindHeaders == state = "FUNCTIONAL_COMPONENT" /\ tables[state] = <<>>

CrashStep == status # "crash" /\ status' = "crash" => LookedUpNameless \/ BehindHeaders

\* The reader has two crashes and no others: strcmp of a name that was never set, and
\* a name or type of a unit behind HEADERS when there was no unit yet.
THEOREM CrashesKnown == Spec => [][CrashStep]_vars
<1>1. ASSUME HxmlInv, [Next]_vars PROVE [CrashStep]_vars
  <2> SUFFICES ASSUME status # "crash", status' = "crash"
               PROVE  LookedUpNameless \/ BehindHeaders
    BY DEF CrashStep
  <2>1. EndName \/ EndType
    BY <1>1 DEF Next, Open, Parse, Return, Ask, Stopped, vars, AskType, AskRegister, AskBus,
                Answer, Refuse, Reply, StartAnywhere, StartWithin, StartOther, EndElement,
                EndBusNumber, EndId, EndRegister, Number, Exit, Ignore
  <2>2. CASE EndName
    <3>1. \/ LookedUpNameless
          \/ state \in Tables \ {"IMPLEMENTATION"} /\ tables[state] = <<>>
      BY <2>2 DEF EndName, Exit, Ignore, LookedUpNameless
    <3>2. ASSUME state \in Tables \ {"FUNCTIONAL_COMPONENT"} PROVE tables[state] # <<>>
      BY <1>1, <3>2 DEF HxmlInv, Placed, Written, Tables, Lists
    <3> QED BY <3>1, <3>2 DEF BehindHeaders
  <2>3. CASE EndType
    BY <2>3 DEF EndType, Exit, Ignore, BehindHeaders
  <2> QED BY <2>1, <2>2, <2>3
<1> QED BY <1>1, InitHxml, StepKeepsHxml, PTL DEF Spec

================================================================================
