------------------------------ MODULE CallHw_proofs ------------------------------
(* Theorems about the pragmas that wait for a declaration.                        *)
EXTENDS CallHw, FiniteSetTheorems, TLAPS

\* The pragma of a function body never waits for a declaration, and none in front of
\* a function waits while its body is read (microblaze_insert_attributes,
\* c_parser_pragma), for every source of every length.
THEOREM NothingWaits == Spec => []NothingWaitsInBody
<1> USE DEF NothingWaitsInBody
<1>1. Init => NothingWaitsInBody
  BY DEF Init
<1>2. NothingWaitsInBody /\ [Next]_vars => NothingWaitsInBody'
  <2> SUFFICES ASSUME NothingWaitsInBody, [Next]_vars
               PROVE NothingWaitsInBody'
    OBVIOUS
  <2>1. ASSUME NEW c \in Components, ReadPragma(c) PROVE NothingWaitsInBody'
    BY <2>1 DEF ReadPragma, AfterHandler
  <2>2. ASSUME NEW c \in Components, ReadMalformed(c) PROVE NothingWaitsInBody'
    BY <2>2 DEF ReadMalformed, AfterHandler
  <2>3. CASE ReadOtherPragma
    BY <2>3 DEF ReadOtherPragma, AfterHandler
  <2>4. ASSUME NEW what \in {"function", "variable", "type"}, NEW call \in BOOLEAN,
               ReadDeclaration(what, call)
        PROVE NothingWaitsInBody'
    BY <2>4 DEF ReadDeclaration, Read, InsertAttributes, declVars
  <2>5. CASE ReadDefinition
    <3>1. CASE Takes("function")
      BY <2>5, <3>1 DEF ReadDefinition, InsertAttributes
    <3>2. CASE ~Takes("function")
      BY <2>5, <3>2 DEF ReadDefinition, InsertAttributes, Takes, declVars
    <3> QED BY <3>1, <3>2
  <2>6. ASSUME NEW call \in BOOLEAN, ReadStatement(call) PROVE NothingWaitsInBody'
    BY <2>6 DEF ReadStatement, declVars
  <2>7. CASE ReadEnd
    BY <2>7 DEF ReadEnd
  <2>8. CASE EndOfFile
    BY <2>8 DEF EndOfFile
  <2>9. CASE Stopped \/ Full \/ UNCHANGED vars
    BY <2>9 DEF Stopped, Full, vars, declVars
  <2> QED BY <2>1, <2>2, <2>3, <2>4, <2>5, <2>6, <2>7, <2>8, <2>9 DEF Next
<1> QED BY <1>1, <1>2, PTL DEF Spec

--------------------------------------------------------------------------------
(* What reading one more item does to what the source asks for.                   *)

\* What is read stays; the new item stands behind it.
LEMMA ReadGrows ==
  ASSUME source \in Seq(Items), NEW item, Read(item)
  PROVE  /\ source' \in Seq(Items)
         /\ Len(source) \in Nat /\ Len(source') = Here
         /\ DOMAIN source = 1 .. Len(source) /\ DOMAIN source' = 1 .. Here
         /\ source'[Here] = item
         /\ \A k \in 1 .. Len(source) : source'[k] = source[k]
BY DEF Read, Here

\* The places of a kind are those before and, if it is of this kind, the new one.
LEMMA PlacesGrow ==
  ASSUME source \in Seq(Items), NEW item, Read(item), NEW kind
  PROVE  /\ Places(kind) \subseteq 1 .. Len(source)
         /\ Places(kind)' = IF item.kind = kind THEN Places(kind) \cup {Here} ELSE Places(kind)
<1>1. Places(kind) \subseteq 1 .. Len(source) /\ Len(source) \in Nat
  BY DEF Places
<1>2. \A k : k \in Places(kind)' <=> k \in 1 .. Here /\ source'[k].kind = kind
  BY ReadGrows DEF Places
<1>3. \A k : k \in Places(kind) <=> k \in 1 .. Len(source) /\ source[k].kind = kind
  BY ReadGrows DEF Places
<1>4. \A k : k \in Places(kind)' <=> k \in Places(kind) \/ (k = Here /\ item.kind = kind)
  <2> SUFFICES ASSUME NEW k
               PROVE  k \in Places(kind)' <=> k \in Places(kind) \/ (k = Here /\ item.kind = kind)
    OBVIOUS
  <2>1. CASE k \in 1 .. Len(source)
    BY <1>2, <1>3, <2>1, ReadGrows DEF Here
  <2>2. CASE k = Here
    BY <1>1, <1>2, <1>3, <2>2, ReadGrows DEF Here
  <2>3. CASE k \notin 1 .. Here
    BY <1>1, <1>2, <1>3, <2>3 DEF Here
  <2> QED
    BY <1>1, <2>1, <2>2, <2>3 DEF Here
<1> QED
  BY <1>1, <1>4

\* What function a place is in is decided by what stands before it.
LEMMA FunctionStays ==
  ASSUME source \in Seq(Items), NEW item, Read(item), NEW k \in 1 .. Here
  PROVE  FunctionOf(k)' = FunctionOf(k)
<1> DEFINE F == {f \in Places("define") : f < k /\ ~\E e \in Places("end") : f < e /\ e < k}
<1>1. Len(source) \in Nat
  BY ReadGrows
<1>2. \A x \in 1 .. Here : \A kind \in {"define", "end"} :
        x < k => (x \in Places(kind)' <=> x \in Places(kind))
  BY <1>1, PlacesGrow DEF Here
<1>3. /\ Places("define") \subseteq 1 .. Here /\ Places("end") \subseteq 1 .. Here
      /\ Places("define")' \subseteq 1 .. Here /\ Places("end")' \subseteq 1 .. Here
  BY <1>1, PlacesGrow DEF Here
<1>4. F' = {f \in Places("define")' : f < k /\ ~\E e \in Places("end")' : f < e /\ e < k}
  OBVIOUS
<1>5. \A f : f \in F' <=> f \in F
  BY <1>2, <1>3, <1>4
<1>6. F' = F
  BY <1>5
<1> QED
  BY <1>6 DEF FunctionOf

\* The function whose body is read is that of the next item.
LEMMA FunctionHere ==
  ASSUME source \in Seq(Items), OpenFunction
  PROVE  FunctionOf(Here) = cfun
<1> DEFINE F == {f \in Places("define") : f < Here /\ ~\E e \in Places("end") : f < e /\ e < Here}
<1>1. Len(source) \in Nat /\ \A kind : Places(kind) \subseteq 1 .. Len(source)
  BY DEF Places
<1>2. FunctionOf(Here) = IF F = {} THEN 0 ELSE Max(F)
  BY DEF FunctionOf
<1>3. CASE cfun = 0
  <2>1. F = {}
    BY <1>1, <1>3 DEF OpenFunction, Here
  <2> QED
    BY <1>2, <1>3, <2>1
<1>4. CASE cfun # 0
  <2>1. F = {cfun}
    BY <1>1, <1>4 DEF OpenFunction, Here
  <2>2. Max({cfun}) = cfun
    BY DEF Max
  <2> QED
    BY <1>2, <2>1, <2>2
<1> QED
  BY <1>3, <1>4

\* The pragmas and declarations outside of functions are those before and, if it is one,
\* the new item.
LEMMA DemandGrows ==
  ASSUME source \in Seq(Items), NEW item, Read(item), OpenFunction
  PROVE  /\ FilePragmas \subseteq 1 .. Len(source) /\ Declarations \subseteq 1 .. Len(source)
         /\ FilePragmas' = IF item.kind = "pragma" /\ cfun = 0
                             THEN FilePragmas \cup {Here} ELSE FilePragmas
         /\ Declarations' = IF /\ item.kind \in {"declare", "define"}
                               /\ item.what # "type" /\ cfun = 0
                              THEN Declarations \cup {Here} ELSE Declarations
<1>1. Len(source) \in Nat /\ \A kind : Places(kind) \subseteq 1 .. Len(source)
  BY DEF Places
<1>2. FilePragmas \subseteq 1 .. Len(source) /\ Declarations \subseteq 1 .. Len(source)
  BY <1>1 DEF FilePragmas, Declarations
<1>3. \A k \in 1 .. Here : FunctionOf(k)' = FunctionOf(k)
  BY FunctionStays
<1>4. FunctionOf(Here) = cfun
  BY FunctionHere
<1>5. \A kind : Places(kind)' = IF item.kind = kind THEN Places(kind) \cup {Here} ELSE Places(kind)
  BY PlacesGrow
<1>6. source'[Here] = item /\ \A k \in 1 .. Len(source) : source'[k] = source[k]
  BY ReadGrows
<1>7. 1 .. Len(source) \subseteq 1 .. Here /\ Here \in 1 .. Here /\ Here \notin 1 .. Len(source)
  BY <1>1 DEF Here
<1>8. FilePragmas' = IF item.kind = "pragma" /\ cfun = 0
                       THEN FilePragmas \cup {Here} ELSE FilePragmas
  <2>1. FilePragmas' = {p \in Places("pragma")' : FunctionOf(p)' = 0}
    BY DEF FilePragmas
  <2>2. \A p : p \in FilePragmas' <=>
                 p \in FilePragmas \/ (p = Here /\ item.kind = "pragma" /\ cfun = 0)
    BY <1>1, <1>3, <1>4, <1>5, <1>7, <2>1 DEF FilePragmas
  <2> QED
    BY <2>2
<1>9. Declarations' = IF /\ item.kind \in {"declare", "define"}
                         /\ item.what # "type" /\ cfun = 0
                        THEN Declarations \cup {Here} ELSE Declarations
  <2>1. Declarations' = {d \in Places("declare")' \cup Places("define")' :
                           source'[d].what # "type" /\ FunctionOf(d)' = 0}
    BY DEF Declarations
  <2>2. \A d : d \in Declarations' <=>
                 \/ d \in Declarations
                 \/ d = Here /\ item.kind \in {"declare", "define"}
                             /\ item.what # "type" /\ cfun = 0
    BY <1>1, <1>3, <1>4, <1>5, <1>6, <1>7, <2>1 DEF Declarations
  <2> QED
    BY <2>2
<1> QED
  BY <1>2, <1>8, <1>9

\* A place keeps the pragmas it is behind and the component read last in front of it.
LEMMA OnStays ==
  ASSUME source \in Seq(Items), NEW item, Read(item), OpenFunction
  PROVE  /\ \A p, d \in 1 .. Len(source) : On(p, d)' <=> On(p, d)
         /\ \A k \in 1 .. Len(source) : \A d \in 1 .. Here : NamedLast(k, d)' <=> NamedLast(k, d)
<1>1. Len(source) \in Nat /\ Declarations \subseteq 1 .. Len(source)
  BY DemandGrows, ReadGrows
<1>2. \A x \in Declarations' : x \in Declarations \/ x = Here
  BY DemandGrows
<1>3. Declarations \subseteq Declarations' /\ FilePragmas \subseteq FilePragmas'
  BY DemandGrows
<1>5. \A p, d \in 1 .. Len(source) : On(p, d)' <=> On(p, d)
  BY <1>1, <1>2, <1>3 DEF On, Here
<1>6. ASSUME NEW k \in 1 .. Len(source), NEW d \in 1 .. Here
      PROVE  NamedLast(k, d)' <=> NamedLast(k, d)
  <2>1. \A j \in 1 .. Len(source) : Names(j)' <=> Names(j)
    BY ReadGrows DEF Names
  <2>2. (\A j \in DOMAIN source' : j < d /\ Names(j)' => j <= k)
          <=> \A j \in DOMAIN source : j < d /\ Names(j) => j <= k
    <3>1. /\ DOMAIN source = 1 .. Len(source) /\ DOMAIN source' = 1 .. Here
          /\ \A j \in 1 .. Here : j < d => j \in 1 .. Len(source)
          /\ 1 .. Len(source) \subseteq 1 .. Here
      BY <1>1, ReadGrows DEF Here
    <3> QED
      BY <2>1, <3>1
  <2>3. NamedLast(k, d)' <=> /\ k < d /\ Names(k)'
                             /\ \A j \in DOMAIN source' : j < d /\ Names(j)' => j <= k
    BY DEF NamedLast
  <2> QED
    BY <2>1, <2>2, <2>3 DEF NamedLast
<1> QED
  BY <1>5, <1>6

\* The component read last in front of a place stays.
LEMMA LastStays ==
  ASSUME source \in Seq(Items), NEW item, Read(item), OpenFunction, NEW d \in 1 .. Here
  PROVE  \A comps :
           (\E k \in DOMAIN source' : NamedLast(k, d)' /\ source'[k].comp \in comps)
             <=> \E k \in DOMAIN source : NamedLast(k, d) /\ source[k].comp \in comps
<1>1. /\ Len(source) \in Nat /\ DOMAIN source = 1 .. Len(source) /\ DOMAIN source' = 1 .. Here
      /\ \A k \in 1 .. Len(source) : source'[k] = source[k]
  BY ReadGrows
<1>2. ASSUME NEW k \in 1 .. Here PROVE NamedLast(k, d)' => k \in 1 .. Len(source)
  <2>1. NamedLast(k, d)' => k < d
    BY DEF NamedLast
  <2> QED
    BY <1>1, <2>1 DEF Here
<1>3. 1 .. Len(source) \subseteq 1 .. Here
  BY <1>1 DEF Here
<1> QED
  BY <1>1, <1>2, <1>3, OnStays

\* An item that is no declaration asks for none, be it a pragma.
LEMMA AskedStays ==
  ASSUME source \in Seq(Items), NEW item, Read(item), OpenFunction,
         Declarations' = Declarations
  PROVE  AttributesAsked' = AttributesAsked /\ ReferencesRead' = ReferencesRead
<1>1. /\ Len(source) \in Nat
      /\ Declarations \subseteq 1 .. Len(source) /\ FilePragmas \subseteq 1 .. Len(source)
      /\ FilePragmas \subseteq FilePragmas'
      /\ \A p \in FilePragmas' : p \in FilePragmas \/ p = Here
  BY DemandGrows, ReadGrows
<1>2. \A d \in Declarations : \A p \in FilePragmas' :
        On(p, d)' <=> p \in FilePragmas /\ On(p, d)
  <2> SUFFICES ASSUME NEW d \in Declarations, NEW p \in FilePragmas'
               PROVE  On(p, d)' <=> p \in FilePragmas /\ On(p, d)
    OBVIOUS
  <2>1. CASE p \in FilePragmas
    BY <1>1, <2>1, OnStays
  <2>2. CASE p = Here /\ p \notin FilePragmas
    BY <1>1, <2>2 DEF On, Here
  <2> QED
    BY <1>1, <2>1, <2>2
<1>3. \A k \in 1 .. Len(source) : source'[k] = source[k]
  BY ReadGrows
<1>4. optimize' = optimize
  BY DEF Read
<1>5. AttributesAsked' = {dp \in Declarations \X FilePragmas' :
                       optimize /\ source[dp[1]].what = "function" /\ On(dp[2], dp[1])'}
  BY <1>1, <1>3, <1>4 DEF AttributesAsked
<1>6. \A d \in Declarations : \A p \in FilePragmas' :
        <<d, p>> \in AttributesAsked' <=> <<d, p>> \in AttributesAsked
  BY <1>1, <1>2, <1>5 DEF AttributesAsked
<1>7. AttributesAsked' = AttributesAsked
  BY <1>1, <1>5, <1>6 DEF AttributesAsked
<1>8. ReferencesRead' = ReferencesRead
  <2> SUFFICES ASSUME NEW d \in Declarations
               PROVE  d \in ReferencesRead' <=> d \in ReferencesRead
    BY DEF ReferencesRead
  <2>1. (\E p \in FilePragmas' : On(p, d)') <=> \E p \in FilePragmas : On(p, d)
    BY <1>1, <1>2
  <2>2. (\E k \in DOMAIN source' : NamedLast(k, d)' /\ source'[k].comp \in DspNames)
          <=> \E k \in DOMAIN source : NamedLast(k, d) /\ source[k].comp \in DspNames
    <3>1. d \in 1 .. Here
      BY <1>1 DEF Here
    <3> QED
      BY <3>1, LastStays
  <2> QED
    <3>1. d \in ReferencesRead' <=>
            /\ \E p \in FilePragmas' : On(p, d)'
            /\ \E k \in DOMAIN source' : NamedLast(k, d)' /\ source'[k].comp \in DspNames
      BY DEF ReferencesRead
    <3> QED
      BY <2>1, <2>2, <3>1 DEF ReferencesRead
<1> QED
  BY <1>7, <1>8

\* A declaration outside of functions asks for the pragma that waits, and no other.
LEMMA WaitingIsAsked ==
  ASSUME source \in Seq(Items), NEW item, Read(item), OpenFunction, Waiting, Apart,
         Declarations' = Declarations \cup {Here}, FilePragmas' = FilePragmas
  PROVE  /\ AttributesAsked' = AttributesAsked
              \cup IF call_hw_tree # 0 /\ optimize /\ item.what = "function"
                     THEN {<<Here, call_hw_tree>>} ELSE {}
         /\ ReferencesRead' = ReferencesRead
              \cup IF call_hw_tree # 0 /\ call_hw_comp \in DspNames
                     THEN {Here} ELSE {}
<1>0. PICK h : h = Here   \* Here' is another place
  OBVIOUS
<1>1. /\ Len(source) \in Nat /\ h = Len(source) + 1 /\ h \notin 1 .. Len(source)
      /\ Declarations \subseteq 1 .. Len(source) /\ FilePragmas \subseteq 1 .. Len(source)
  BY <1>0, DemandGrows, ReadGrows DEF Here
<1>2. ASSUME NEW p \in FilePragmas PROVE On(p, h)' <=> p = call_hw_tree
  <2>1. On(p, h)' <=> ~\E x \in Declarations : p < x
    BY <1>0, <1>1 DEF On
  <2>2. CASE call_hw_tree = 0
    BY <1>1, <2>1, <2>2 DEF Waiting
  <2>3. CASE call_hw_tree # 0
    <3>1. call_hw_tree \in FilePragmas /\ \A d \in Declarations : d < call_hw_tree
      BY <2>3 DEF Waiting
    <3>2. p = call_hw_tree => ~\E x \in Declarations : p < x
      BY <1>1, <3>1
    <3>3. p < call_hw_tree => \E x \in Declarations : p < x
      BY <3>1 DEF Apart
    <3>4. ~(call_hw_tree < p)
      BY <1>1, <3>1 DEF Apart
    <3> QED
      BY <1>1, <2>1, <3>1, <3>2, <3>3, <3>4
  <2> QED
    BY <2>2, <2>3
<1>3. \A p \in FilePragmas : \A d \in Declarations : On(p, d)' <=> On(p, d)
  BY <1>1, OnStays
<1>4. /\ source'[h] = item /\ \A k \in 1 .. Len(source) : source'[k] = source[k]
      /\ optimize' = optimize
  BY <1>0, ReadGrows DEF Read
<1>5. AttributesAsked' = AttributesAsked
        \cup IF call_hw_tree # 0 /\ optimize /\ item.what = "function"
               THEN {<<h, call_hw_tree>>} ELSE {}
  <2> DEFINE new == IF call_hw_tree # 0 /\ optimize /\ item.what = "function"
                      THEN {<<h, call_hw_tree>>} ELSE {}
  <2>1. AttributesAsked' = {dp \in (Declarations \cup {h}) \X FilePragmas :
                              /\ optimize /\ source'[dp[1]].what = "function"
                              /\ On(dp[2], dp[1])'}
    BY <1>0, <1>4 DEF AttributesAsked
  <2>2. \A d \in Declarations \cup {h} : \A p \in FilePragmas :
          <<d, p>> \in AttributesAsked' <=> <<d, p>> \in AttributesAsked \cup new
    <3> SUFFICES ASSUME NEW d \in Declarations \cup {h}, NEW p \in FilePragmas
                 PROVE  <<d, p>> \in AttributesAsked' <=> <<d, p>> \in AttributesAsked \cup new
      OBVIOUS
    <3>1. CASE d = h
      <4>1. <<d, p>> \in AttributesAsked' <=>
              optimize /\ item.what = "function" /\ p = call_hw_tree
        BY <1>2, <1>4, <2>1, <3>1
      <4>2. <<d, p>> \notin AttributesAsked
        BY <1>1, <3>1 DEF AttributesAsked
      <4>3. call_hw_tree = 0 => p # call_hw_tree
        BY <1>1
      <4> QED
        BY <3>1, <4>1, <4>2, <4>3
    <3>2. CASE d # h
      <4>1. d \in Declarations /\ d \in 1 .. Len(source)
        BY <1>1, <3>2
      <4>2. <<d, p>> \in AttributesAsked' <=> <<d, p>> \in AttributesAsked
        BY <1>3, <1>4, <2>1, <4>1 DEF AttributesAsked
      <4> QED
        BY <3>2, <4>2
    <3> QED
      BY <3>1, <3>2
  <2>3. /\ AttributesAsked' \subseteq (Declarations \cup {h}) \X FilePragmas
        /\ AttributesAsked \cup new \subseteq (Declarations \cup {h}) \X FilePragmas
    BY <2>1 DEF AttributesAsked, Waiting
  <2> QED
    BY <2>2, <2>3
<1>6. ReferencesRead' = ReferencesRead
        \cup IF call_hw_tree # 0 /\ call_hw_comp \in DspNames
               THEN {h} ELSE {}
  <2> DEFINE dsp(d) == \E k \in DOMAIN source : NamedLast(k, d) /\ source[k].comp \in DspNames
  <2>1. ReferencesRead' = {d \in Declarations \cup {h} :
          /\ \E p \in FilePragmas : On(p, d)'
          /\ \E k \in DOMAIN source' : NamedLast(k, d)' /\ source'[k].comp \in DspNames}
    BY <1>0 DEF ReferencesRead
  <2>2. ASSUME NEW d \in Declarations \cup {h}
        PROVE  (\E k \in DOMAIN source' : NamedLast(k, d)' /\ source'[k].comp \in DspNames)
                 <=> dsp(d)
    <3>1. d \in 1 .. Here
      BY <1>0, <1>1
    <3> QED
      BY <3>1, LastStays
  <2>3. \A d \in Declarations : d \in ReferencesRead' <=> d \in ReferencesRead
    BY <1>3, <2>1, <2>2 DEF ReferencesRead
  <2>4. h \in ReferencesRead' <=> call_hw_tree # 0 /\ call_hw_comp \in DspNames
    <3>1. h \in ReferencesRead' <=> call_hw_tree # 0 /\ dsp(h)
      <4>1. call_hw_tree \in FilePragmas <=> call_hw_tree # 0
        BY <1>1 DEF Waiting
      <4> QED
        BY <1>2, <2>1, <2>2, <4>1
    <3>2. ASSUME call_hw_tree # 0 PROVE dsp(h) <=> call_hw_comp \in DspNames
      <4>1. PICK k \in DOMAIN source : NamedLast(k, h) /\ call_hw_comp = source[k].comp
        BY <1>0, <3>2 DEF Waiting
      <4>2. ASSUME NEW j \in DOMAIN source, NamedLast(j, h) PROVE j = k
        <5>1. j <= k /\ k <= j
          BY <4>1, <4>2 DEF NamedLast
        <5> QED
          BY <1>1, <5>1
      <4> QED
        BY <4>1, <4>2
    <3> QED
      BY <3>1, <3>2
  <2>5. ReferencesRead \subseteq Declarations /\ ReferencesRead' \subseteq Declarations \cup {h}
    BY <2>1 DEF ReferencesRead
  <2> QED
    BY <1>1, <2>3, <2>4, <2>5
<1> QED
  BY <1>0, <1>5, <1>6

--------------------------------------------------------------------------------
(* The steps of the reader.                                                       *)

\* What the invariant says while the source is read.
Settled == /\ Waiting /\ Apart
           /\ attribute = AttributesAsked
           /\ weakref = ReferencesRead

\* The item read last is the last to name a component, if it names one,
LEMMA LastIsNew ==
  ASSUME source \in Seq(Items), NEW item, Read(item), item.kind \in {"pragma", "malformed"}
  PROVE  \E j \in DOMAIN source' : NamedLast(j, Here)' /\ item.comp = source'[j].comp
<1>0. PICK h : h = Here   \* Here' is another place
  OBVIOUS
<1>1. /\ Len(source) \in Nat /\ h = Len(source) + 1 /\ DOMAIN source' = 1 .. h
      /\ source'[h] = item /\ Here' = h + 1
  BY <1>0, ReadGrows DEF Here
<1>2. Names(h)'
  BY <1>1 DEF Names
<1>3. NamedLast(h, h + 1)'
  BY <1>1, <1>2 DEF NamedLast
<1> QED
  BY <1>1, <1>3

\* and leaves the one before it the last, if not.
LEMMA LastMoves ==
  ASSUME source \in Seq(Items), OpenFunction, NEW item, Read(item), NEW h, h = Here, ~Names(h)',
         NEW k \in DOMAIN source, NamedLast(k, h)
  PROVE  NamedLast(k, h + 1)'
<1>1. /\ Len(source) \in Nat /\ h = Len(source) + 1 /\ DOMAIN source' = 1 .. h
      /\ DOMAIN source = 1 .. Len(source)
  BY ReadGrows DEF Here
<1>2. NamedLast(k, h)'
  BY <1>1, OnStays
<1>3. \A j \in 1 .. h : j < h + 1 /\ Names(j)' => j < h
  BY <1>1
<1> QED
  BY <1>1, <1>2, <1>3 DEF NamedLast

\* An item that is neither a pragma nor a declaration outside of functions leaves a
\* pragma waiting; the component kept is that of the last item that names one.
LEMMA OtherItemKeeps ==
  ASSUME source \in Seq(Items), OpenFunction, Settled, NEW item, Read(item),
         Declarations' = Declarations, FilePragmas' = FilePragmas,
         UNCHANGED <<call_hw_tree, attribute, weakref>>,
         call_hw_tree # 0 =>
           /\ cfun' = 0
           /\ \/ item.kind \notin {"pragma", "malformed"} /\ call_hw_comp' = call_hw_comp
              \/ item.kind = "malformed" /\ call_hw_comp' = item.comp
  PROVE  Settled'
<1>0. PICK h : h = Here   \* Here' is another place
  OBVIOUS
<1>1. /\ Len(source) \in Nat /\ h = Len(source) + 1
      /\ Declarations \subseteq 1 .. Len(source) /\ FilePragmas \subseteq 1 .. Len(source)
      /\ source'[h] = item /\ \A k \in 1 .. Len(source) : source'[k] = source[k]
  BY <1>0, DemandGrows, ReadGrows DEF Here
<1>2. /\ Places("malformed") \subseteq 1 .. Len(source)
      /\ Places("malformed") \subseteq Places("malformed")'
      /\ item.kind = "malformed" => h \in Places("malformed")'
  BY <1>0, PlacesGrow
<1>3. Apart'
  BY DEF Settled, Apart
<1>4. Waiting'
  <2>1. CASE call_hw_tree = 0
    BY <2>1 DEF Settled, Waiting
  <2>2. CASE call_hw_tree # 0
    <3>1. /\ call_hw_tree \in FilePragmas /\ call_hw_tree \in 1 .. Len(source)
          /\ \A d \in Declarations : d < call_hw_tree
      BY <1>1, <2>2 DEF Settled, Waiting
    <3>2. CASE item.kind \notin {"pragma", "malformed"} /\ call_hw_comp' = call_hw_comp
      <4>1. PICK k \in DOMAIN source : NamedLast(k, h) /\ call_hw_comp = source[k].comp
        BY <1>0, <2>2 DEF Settled, Waiting
      <4>2. NamedLast(k, h + 1)'
        <5>1. ~Names(h)'
          BY <1>1, <3>2 DEF Names
        <5> QED
          BY <1>0, <1>1, <4>1, <5>1, LastMoves
      <4>3. call_hw_comp' = NoComp =>
              \E m \in Places("malformed")' : source'[m].comp = NoComp
        BY <1>1, <1>2, <2>2, <3>2 DEF Settled, Waiting
      <4>4. \E j \in DOMAIN source' : NamedLast(j, Here)' /\ call_hw_comp' = source'[j].comp
        <5>1. k \in DOMAIN source' /\ source'[k] = source[k] /\ Here' = h + 1
          BY <1>0, <1>1, ReadGrows DEF Here
        <5> QED
          BY <3>2, <4>1, <4>2, <5>1
      <4> QED
        BY <2>2, <3>1, <4>3, <4>4 DEF Waiting
    <3>3. CASE item.kind = "malformed" /\ call_hw_comp' = item.comp
      <4>1. \E j \in DOMAIN source' : NamedLast(j, Here)' /\ call_hw_comp' = source'[j].comp
        BY <3>3, LastIsNew
      <4>2. call_hw_comp' = NoComp =>
              \E m \in Places("malformed")' : source'[m].comp = NoComp
        BY <1>1, <1>2, <3>3
      <4> QED
        BY <2>2, <3>1, <4>1, <4>2 DEF Waiting
    <3> QED
      BY <2>2, <3>2, <3>3
  <2> QED
    BY <2>1, <2>2
<1>5. attribute' = AttributesAsked' /\ weakref' = ReferencesRead'
  BY AskedStays DEF Settled
<1> QED
  BY <1>3, <1>4, <1>5 DEF Settled

\* A pragma outside of functions waits, where none does.
LEMMA PragmaWaits ==
  ASSUME source \in Seq(Items), OpenFunction, Settled, NEW c, Read(Pragma(c)),
         cfun = 0, call_hw_tree = 0, call_hw_tree' = Here, call_hw_comp' = c,
         UNCHANGED <<cfun, attribute, weakref>>
  PROVE  Settled'
<1>0. PICK h : h = Here   \* Here' is another place
  OBVIOUS
<1>1. /\ Len(source) \in Nat /\ h = Len(source) + 1
      /\ Declarations \subseteq 1 .. Len(source) /\ FilePragmas \subseteq 1 .. Len(source)
      /\ source'[h] = Pragma(c)
  BY <1>0, DemandGrows, ReadGrows DEF Here
<1>2. Declarations' = Declarations /\ FilePragmas' = FilePragmas \cup {h}
  BY <1>0, DemandGrows DEF Pragma
<1>3. \A p \in FilePragmas : \E d \in Declarations : p < d
  BY DEF Settled, Waiting
<1>4. Apart'
  <2>1. SUFFICES ASSUME NEW p \in FilePragmas \cup {h}, NEW q \in FilePragmas \cup {h}, p < q
                 PROVE  \E d \in Declarations : p < d /\ d < q
    BY <1>2 DEF Apart
  <2>2. p \in FilePragmas
    BY <1>1, <2>1
  <2>3. CASE q = h
    BY <1>1, <1>3, <2>2, <2>3
  <2>4. CASE q \in FilePragmas
    BY <2>1, <2>2, <2>4 DEF Settled, Apart
  <2> QED
    BY <2>3, <2>4
<1>5. Waiting'
  <2>1. c # NoComp
    BY ItemsAssumption DEF Read
  <2>2. h # 0 /\ call_hw_tree' = h /\ \A d \in Declarations : d < h
    BY <1>0, <1>1
  <2>3. \E j \in DOMAIN source' : NamedLast(j, Here)' /\ call_hw_comp' = source'[j].comp
    BY LastIsNew DEF Pragma
  <2> QED
    BY <1>2, <2>1, <2>2, <2>3 DEF Waiting
<1>6. attribute' = AttributesAsked' /\ weakref' = ReferencesRead'
  BY <1>2, AskedStays DEF Settled
<1> QED
  BY <1>4, <1>5, <1>6 DEF Settled

\* A declaration outside of functions takes the pragma that waits: only where the
\* compiler stops on the name of no component are the references not those asked for.
LEMMA DeclarationTakes ==
  ASSUME source \in Seq(Items), OpenFunction, Settled, status = "reading",
         NEW item, Read(item),
         item.kind \in {"declare", "define"}, item.what \in {"function", "variable"},
         cfun = 0, InsertAttributes(item.what)
  PROVE  /\ Settled' /\ call_hw_tree' = 0
         /\ \/ status' = "reading"
            \/ status' = "crash" /\ \E m \in Places("malformed")' : source'[m].comp = NoComp
<1>0. PICK h : h = Here   \* Here' is another place
  OBVIOUS
<1>1. /\ Len(source) \in Nat /\ h = Len(source) + 1
      /\ Declarations \subseteq 1 .. Len(source) /\ FilePragmas \subseteq 1 .. Len(source)
      /\ \A k \in 1 .. Len(source) : source'[k] = source[k]
  BY <1>0, DemandGrows, ReadGrows DEF Here
<1>2. Declarations' = Declarations \cup {Here} /\ FilePragmas' = FilePragmas
  BY DemandGrows
<1>3. call_hw_tree' = 0
  BY DEF InsertAttributes, Takes, declVars
<1>4. Waiting'
  <2>1. h \in Declarations' /\ \A p \in FilePragmas' : p < h
    <3>1. \A p \in FilePragmas : p < h
      BY <1>1
    <3> QED
      BY <1>0, <1>2, <3>1
  <2> QED
    <3>1. \A p \in FilePragmas' : \E d \in Declarations' : p < d
      BY <2>1
    <3> QED
      BY <1>3, <3>1 DEF Waiting
<1>5. Apart'
  <2>1. Declarations \subseteq Declarations'
    BY <1>2
  <2> QED
    BY <1>2, <2>1 DEF Settled, Apart
<1>6. attribute' = AttributesAsked'
  BY <1>2, WaitingIsAsked DEF Settled, InsertAttributes, Takes, Attribute, declVars
<1>7. weakref' = ReferencesRead'
  BY <1>2, WaitingIsAsked DEF Settled, InsertAttributes, Takes, declVars
<1>8. \/ status' = "reading"
      \/ status' = "crash" /\ \E m \in Places("malformed")' : source'[m].comp = NoComp
  <2>1. CASE call_hw_tree = 0
    BY <2>1 DEF InsertAttributes, Takes
  <2>2. CASE call_hw_tree # 0
    <3>1. call_hw_comp = NoComp => \E m \in Places("malformed") : source[m].comp = NoComp
      BY <2>2 DEF Settled, Waiting
    <3>2. /\ Places("malformed") \subseteq 1 .. Len(source)
          /\ Places("malformed") \subseteq Places("malformed")'
      BY PlacesGrow
    <3> QED
      BY <1>1, <2>2, <3>1, <3>2 DEF InsertAttributes, Takes
  <2> QED
    BY <2>1, <2>2
<1> QED
  BY <1>3, <1>4, <1>5, <1>6, <1>7, <1>8 DEF Settled

\* Which function is read is known after every item.
LEMMA FunctionKeeps ==
  ASSUME source \in Seq(Items), OpenFunction, [Next]_vars
  PROVE  source' \in Seq(Items) /\ OpenFunction'
<1>0. PICK h : h = Here   \* Here' is another place
  OBVIOUS
<1>1. ASSUME NEW item, Read(item) PROVE source' \in Seq(Items)
  BY <1>1, ReadGrows
<1>2. ASSUME NEW item, Read(item)
      PROVE  /\ Len(source) \in Nat /\ h = Len(source) + 1
             /\ Places("define") \subseteq 1 .. Len(source)
             /\ Places("end") \subseteq 1 .. Len(source)
             /\ Places("define")' = Places("define") \cup IF item.kind = "define" THEN {h} ELSE {}
             /\ Places("end")' = Places("end") \cup IF item.kind = "end" THEN {h} ELSE {}
  BY <1>0, <1>2, PlacesGrow, ReadGrows DEF Here
<1>3. ASSUME NEW item, Read(item), item.kind \notin {"define", "end"}, cfun' = cfun
      PROVE  OpenFunction'
  <2>1. Places("define")' = Places("define") /\ Places("end")' = Places("end")
    BY <1>2, <1>3
  <2> QED
    BY <1>3, <2>1 DEF OpenFunction
<1>4. ASSUME NEW c, ReadPragma(c) \/ ReadMalformed(c)
      PROVE  source' \in Seq(Items) /\ OpenFunction'
  <2>1. CASE ReadPragma(c)
    <3>1. Read(Pragma(c)) /\ Pragma(c).kind = "pragma" /\ cfun' = cfun
      BY <2>1 DEF ReadPragma, AfterHandler, Pragma
    <3> QED
      BY <1>1, <1>3, <3>1
  <2>2. CASE ReadMalformed(c)
    <3>1. Read(Malformed(c)) /\ Malformed(c).kind = "malformed" /\ cfun' = cfun
      BY <2>2 DEF ReadMalformed, AfterHandler, Malformed
    <3> QED
      BY <1>1, <1>3, <3>1
  <2> QED
    BY <1>4, <2>1, <2>2
<1>5. CASE ReadOtherPragma
  <2>1. Read(OtherPragma) /\ OtherPragma.kind = "otherPragma" /\ cfun' = cfun
    BY <1>5 DEF ReadOtherPragma, AfterHandler, OtherPragma
  <2> QED
    BY <1>1, <1>3, <2>1
<1>6. ASSUME NEW what, NEW call, ReadDeclaration(what, call)
      PROVE  source' \in Seq(Items) /\ OpenFunction'
  <2>1. /\ Read(Declare(what, call)) /\ Declare(what, call).kind = "declare" /\ cfun' = cfun
    BY <1>6 DEF ReadDeclaration, Declare
  <2> QED
    BY <1>1, <1>3, <2>1
<1>7. CASE ReadDefinition
  <2>1. Read(Define) /\ Define.kind = "define" /\ cfun = 0 /\ cfun' = h
    BY <1>0, <1>7 DEF ReadDefinition, Define
  <2>2. Places("define")' = Places("define") \cup {h} /\ Places("end")' = Places("end")
    <3>1. /\ Places("define")' = Places("define") \cup IF Define.kind = "define" THEN {h} ELSE {}
          /\ Places("end")' = Places("end") \cup IF Define.kind = "end" THEN {h} ELSE {}
      BY <1>2, <2>1
    <3> QED
      BY <2>1, <3>1
  <2>3. \A e \in Places("end") : e < h
    BY <1>2, <2>1
  <2>4. \A f \in Places("define") : \E e \in Places("end") : f < e
    <3>1. 0 \notin Places("define")
      BY <1>2, <2>1
    <3> QED
      BY <2>1, <3>1 DEF OpenFunction
  <2> QED
    BY <1>1, <2>1, <2>2, <2>3, <2>4 DEF OpenFunction
<1>8. ASSUME NEW call, ReadStatement(call)
      PROVE  source' \in Seq(Items) /\ OpenFunction'
  <2>1. Read(Statement(call)) /\ Statement(call).kind = "statement" /\ cfun' = cfun
    BY <1>8 DEF ReadStatement, Statement
  <2> QED
    BY <1>1, <1>3, <2>1
<1>9. CASE ReadEnd
  <2>1. Read(End) /\ End.kind = "end" /\ cfun' = 0
    BY <1>9 DEF ReadEnd, End
  <2>2. Places("define")' = Places("define") /\ h \in Places("end")'
    BY <1>2, <2>1
  <2>3. \A f \in Places("define") : f < h
    BY <1>2, <2>1
  <2> QED
    BY <1>1, <2>1, <2>2, <2>3 DEF OpenFunction
<1>10. CASE EndOfFile \/ Stopped \/ Full \/ UNCHANGED vars
  <2>1. UNCHANGED <<source, cfun>>
    BY <1>10 DEF EndOfFile, Stopped, Full, vars
  <2> QED
    BY <2>1 DEF OpenFunction, Places
<1> QED
  BY <1>4, <1>5, <1>6, <1>7, <1>8, <1>9, <1>10 DEF Next

\* The ways a step of the reader can end.
LEMMA StepEnds ==
  ASSUME source' \in Seq(Items), OpenFunction',
         \/ Settled' /\ status' \in {"reading", "done"}
         \/ status' = "crash" /\ \E m \in Places("malformed")' : source'[m].comp = NoComp
         \/ status' = "ice" /\ \E p, q \in FilePragmas' :
                                 p < q /\ ~\E d \in Declarations' : p < d /\ d < q
  PROVE  PragmaInv'
<1>1. CASE Settled' /\ status' \in {"reading", "done"}
  BY <1>1
  DEF PragmaInv, Settled, Apart, AttributeOfOwnPragma, WeakrefOfLastRead, ErrorsJustified
<1>2. CASE status' = "crash" /\ \E m \in Places("malformed")' : source'[m].comp = NoComp
  BY <1>2 DEF PragmaInv, AttributeOfOwnPragma, WeakrefOfLastRead, ErrorsJustified
<1>3. CASE status' = "ice" /\ \E p, q \in FilePragmas' :
                                p < q /\ ~\E d \in Declarations' : p < d /\ d < q
  BY <1>3 DEF PragmaInv, AttributeOfOwnPragma, WeakrefOfLastRead, ErrorsJustified
<1> QED
  BY <1>1, <1>2, <1>3

\* Pragmas,
LEMMA PragmaKeeps ==
  ASSUME PragmaInv, NothingWaitsInBody, Settled, status = "reading", OpenFunction',
         NEW c, ReadPragma(c)
  PROVE  PragmaInv'
<1> USE DEF PragmaInv
<1>0. PICK h : h = Here   \* Here' is another place
  OBVIOUS
<1>1. /\ Read(Pragma(c)) /\ Pragma(c).kind = "pragma" /\ source' \in Seq(Items)
      /\ Len(source) \in Nat /\ h = Len(source) + 1
  BY <1>0, ReadGrows DEF ReadPragma, Pragma, Here
<1>2. /\ FilePragmas \subseteq 1 .. Len(source)
      /\ FilePragmas' = IF cfun = 0 THEN FilePragmas \cup {h} ELSE FilePragmas
      /\ Declarations' = Declarations
  BY <1>0, <1>1, DemandGrows
<1>3. CASE call_hw_tree # 0
  <2>1. call_hw_tree \in FilePragmas /\ \A d \in Declarations : d < call_hw_tree /\ cfun = 0
    BY <1>3 DEF Settled, Waiting
  <2>2. cfun = 0
    BY <1>3 DEF NothingWaitsInBody
  <2>3. call_hw_tree < h /\ ~\E d \in Declarations' : call_hw_tree < d /\ d < h
    <3>1. ASSUME NEW d \in Declarations, call_hw_tree < d PROVE FALSE
      <4>1. d \in 1 .. Len(source)
        BY <1>1, DemandGrows
      <4> QED
        BY <1>2, <2>1, <3>1, <4>1
    <3> QED
      BY <1>1, <1>2, <2>1, <3>1
  <2>4. \E p, q \in FilePragmas' : p < q /\ ~\E d \in Declarations' : p < d /\ d < q
    BY <1>2, <2>1, <2>2, <2>3
  <2>5. status' = "ice"
    BY <1>3 DEF ReadPragma
  <2> QED
    BY <1>1, <2>4, <2>5, StepEnds
<1>4. CASE call_hw_tree = 0
  <2>1. /\ AfterHandler(Here) /\ call_hw_comp' = c /\ status' = status
    BY <1>4 DEF ReadPragma
  <2>2. CASE cfun = 0
    <3>1. call_hw_tree' = Here /\ UNCHANGED <<cfun, attribute, weakref>>
      BY <2>1, <2>2 DEF AfterHandler
    <3>2. Settled'
      BY <1>1, <1>4, <2>1, <2>2, <3>1, PragmaWaits
    <3> QED
      BY <1>1, <2>1, <3>2, StepEnds
  <2>3. CASE cfun # 0
    <3>1. UNCHANGED <<call_hw_tree, attribute, weakref>>
      BY <1>4, <2>1, <2>3 DEF AfterHandler
    <3>2. Settled'
      BY <1>1, <1>2, <1>4, <2>3, <3>1, OtherItemKeeps
    <3> QED
      BY <1>1, <2>1, <3>2, StepEnds
  <2> QED
    BY <2>2, <2>3
<1> QED
  BY <1>3, <1>4

\* what is no pragma but handled like one, the items of a body,
LEMMA UnaskedKeeps ==
  ASSUME PragmaInv, Settled, OpenFunction', NEW item, Read(item),
         item.kind # "pragma" \/ cfun # 0,
         item.kind \notin {"declare", "define"} \/ item.what = "type" \/ cfun # 0,
         UNCHANGED <<call_hw_tree, attribute, weakref>>,
         call_hw_tree # 0 =>
           /\ cfun' = 0
           /\ \/ item.kind \notin {"pragma", "malformed"} /\ call_hw_comp' = call_hw_comp
              \/ item.kind = "malformed" /\ call_hw_comp' = item.comp,
         status' = "reading"
  PROVE  PragmaInv'
<1> USE DEF PragmaInv
<1>1. source' \in Seq(Items)
  BY ReadGrows
<1>2. FilePragmas' = FilePragmas /\ Declarations' = Declarations
  BY DemandGrows
<1>3. Settled'
  BY <1>2, OtherItemKeeps
<1> QED
  BY <1>1, <1>3, StepEnds

\* and declarations keep the invariant.
LEMMA DeclarationKeeps ==
  ASSUME PragmaInv, NothingWaitsInBody, Settled, status = "reading", OpenFunction',
         NEW item, Read(item), item.kind \in {"declare", "define"},
         item.what \in {"function", "variable", "type"},
         InsertAttributes(item.what), item.what = "type" => cfun' = cfun
  PROVE  PragmaInv'
<1> USE DEF PragmaInv
<1>1. source' \in Seq(Items)
  BY ReadGrows
<1>2. CASE cfun = 0 /\ item.what # "type"
  <2>1. /\ Settled'
        /\ \/ status' = "reading"
           \/ status' = "crash" /\ \E m \in Places("malformed")' : source'[m].comp = NoComp
    BY <1>2, DeclarationTakes
  <2> QED
    BY <1>1, <2>1, StepEnds
<1>3. CASE cfun # 0 \/ item.what = "type"
  <2>1. cfun # 0 => call_hw_tree = 0
    BY DEF NothingWaitsInBody
  <2>2. UNCHANGED <<declVars, status>>
    BY <1>3, <2>1 DEF InsertAttributes, Takes
  <2>3. UNCHANGED <<call_hw_tree, call_hw_comp, attribute, weakref>> /\ status' = "reading"
    BY <2>2 DEF declVars
  <2>4. call_hw_tree # 0 => cfun' = 0 /\ call_hw_comp' = call_hw_comp
    BY <1>3, <2>1, <2>3
  <2>5. item.kind # "pragma" \/ cfun # 0
    OBVIOUS
  <2>6. item.kind \notin {"declare", "define"} \/ item.what = "type" \/ cfun # 0
    BY <1>3
  <2> QED
    BY <2>3, <2>4, <2>5, <2>6, UnaskedKeeps
<1> QED
  BY <1>2, <1>3

--------------------------------------------------------------------------------
(* The whole reader.                                                              *)

\* What a step leaves alone when it reads nothing.
LEMMA NothingRead ==
  ASSUME UNCHANGED <<source, optimize, cfun, declVars>>
  PROVE  /\ Settled' <=> Settled
         /\ FilePragmas' = FilePragmas /\ Declarations' = Declarations
         /\ Places("malformed")' = Places("malformed")
         /\ AttributesAsked' = AttributesAsked /\ ReferencesRead' = ReferencesRead
<1>1. \A kind : Places(kind)' = Places(kind)
  BY DEF Places
<1>2. \A k : FunctionOf(k)' = FunctionOf(k)
  BY <1>1 DEF FunctionOf
<1>3. FilePragmas' = FilePragmas /\ Declarations' = Declarations
  BY <1>1, <1>2 DEF FilePragmas, Declarations
<1>4. \A p, d : On(p, d)' <=> On(p, d)
  BY <1>3 DEF On
<1>5. Here' = Here /\ \A k, d : NamedLast(k, d)' <=> NamedLast(k, d)
  BY DEF Here, NamedLast, Names
<1>6. AttributesAsked' = AttributesAsked /\ ReferencesRead' = ReferencesRead
  BY <1>3, <1>4, <1>5 DEF AttributesAsked, ReferencesRead
<1>7. (Waiting' <=> Waiting) /\ (Apart' <=> Apart)
  BY <1>1, <1>3, <1>5 DEF Waiting, Apart, declVars
<1> QED
  BY <1>1, <1>3, <1>6, <1>7 DEF Settled, declVars

\* Every step of the reader keeps the invariant.
LEMMA ReaderKeeps ==
  ASSUME PragmaInv, NothingWaitsInBody, [Next]_vars
  PROVE  PragmaInv'
<1>1. source' \in Seq(Items) /\ OpenFunction'
  BY FunctionKeeps DEF PragmaInv
<1>2. source \in Seq(Items) /\ OpenFunction
  BY DEF PragmaInv
<1>3. ASSUME status = "reading" PROVE Settled
  BY <1>3 DEF PragmaInv, Settled, AttributeOfOwnPragma, WeakrefOfLastRead
<1>4. ASSUME NEW c, ReadPragma(c) PROVE PragmaInv'
  <2>1. status = "reading"
    BY <1>4 DEF ReadPragma, Read
  <2> QED
    BY <1>1, <1>3, <1>4, <2>1, PragmaKeeps
<1>5. ASSUME NEW c, ReadMalformed(c) PROVE PragmaInv'
  <2>1. /\ Read(Malformed(c)) /\ status = "reading" /\ Settled
        /\ Malformed(c).kind = "malformed" /\ Malformed(c).comp = c
    BY <1>3, <1>5 DEF ReadMalformed, Read, Malformed
  <2>2. /\ AfterHandler(call_hw_tree) /\ call_hw_comp' = c /\ status' = "reading"
        /\ call_hw_tree # 0 => cfun = 0
    BY <1>5, <2>1 DEF ReadMalformed, NothingWaitsInBody
  <2>3. UNCHANGED <<call_hw_tree, cfun, attribute, weakref>>
    BY <2>2 DEF AfterHandler
  <2> QED
    BY <1>1, <2>1, <2>2, <2>3, UnaskedKeeps
<1>6. CASE ReadOtherPragma
  <2>1. /\ Read(OtherPragma) /\ status = "reading" /\ Settled
        /\ OtherPragma.kind = "otherPragma"
    BY <1>3, <1>6 DEF ReadOtherPragma, Read, OtherPragma
  <2>2. /\ AfterHandler(call_hw_tree) /\ call_hw_comp' = call_hw_comp /\ status' = "reading"
        /\ call_hw_tree # 0 => cfun = 0
    BY <1>6, <2>1 DEF ReadOtherPragma, NothingWaitsInBody
  <2>3. UNCHANGED <<call_hw_tree, cfun, attribute, weakref>>
    BY <2>2 DEF AfterHandler
  <2> QED
    BY <1>1, <2>1, <2>2, <2>3, UnaskedKeeps
<1>7. ASSUME NEW what \in {"function", "variable", "type"}, NEW call,
             ReadDeclaration(what, call)
      PROVE  PragmaInv'
  <2>1. PICK item : item = Declare(what, call)
    OBVIOUS
  <2>2. item.kind = "declare" /\ item.what = what
    BY <2>1 DEF Declare
  <2>3. Read(item) /\ status = "reading" /\ InsertAttributes(item.what) /\ cfun' = cfun
    BY <1>7, <2>1, <2>2 DEF ReadDeclaration, Read
  <2> QED
    BY <1>1, <1>3, <2>2, <2>3, DeclarationKeeps
<1>8. CASE ReadDefinition
  <2>1. PICK item : item = Define
    OBVIOUS
  <2>2. item.kind = "define" /\ item.what = "function"
    BY <2>1 DEF Define
  <2>3. Read(item) /\ status = "reading" /\ InsertAttributes(item.what)
    BY <1>8, <2>1, <2>2 DEF ReadDefinition, Read
  <2> QED
    BY <1>1, <1>3, <2>2, <2>3, DeclarationKeeps
<1>9. ASSUME NEW call, ReadStatement(call) PROVE PragmaInv'
  <2>1. /\ Read(Statement(call)) /\ status = "reading" /\ Settled
        /\ Statement(call).kind = "statement"
    BY <1>3, <1>9 DEF ReadStatement, Read, Statement
  <2>2. UNCHANGED <<cfun, call_hw_tree, call_hw_comp, attribute, weakref, status>> /\ cfun # 0
    BY <1>9 DEF ReadStatement, declVars
  <2> QED
    BY <1>1, <2>1, <2>2, UnaskedKeeps DEF NothingWaitsInBody
<1>10. CASE ReadEnd
  <2>1. Read(End) /\ status = "reading" /\ Settled /\ End.kind = "end"
    BY <1>3, <1>10 DEF ReadEnd, Read, End
  <2>2. UNCHANGED <<call_hw_tree, call_hw_comp, attribute, weakref, status>> /\ cfun' = 0
    BY <1>10 DEF ReadEnd, declVars
  <2> QED
    BY <1>1, <2>1, <2>2, UnaskedKeeps
<1>11. CASE EndOfFile
  <2>1. status = "reading" /\ status' = "done" /\ UNCHANGED <<source, optimize, cfun, declVars>>
    BY <1>11 DEF EndOfFile
  <2>2. Settled'
    BY <1>3, <2>1, NothingRead
  <2> QED
    BY <1>1, <2>1, <2>2, StepEnds
<1>12. CASE Stopped \/ Full \/ UNCHANGED vars
  <2>1. UNCHANGED <<source, optimize, cfun, declVars, status>>
    BY <1>12 DEF Stopped, Full, vars
  <2>2. ErrorsJustified'
    BY <2>1, NothingRead DEF PragmaInv, ErrorsJustified
  <2>3. AttributeOfOwnPragma' /\ WeakrefOfLastRead'
    BY <2>1, NothingRead
    DEF PragmaInv, AttributeOfOwnPragma, WeakrefOfLastRead, declVars
  <2>4. status' \in {"reading", "done"} => Waiting' /\ Apart'
    BY <2>1, NothingRead
    DEF PragmaInv, Settled, AttributeOfOwnPragma, WeakrefOfLastRead
  <2> QED
    BY <1>1, <2>2, <2>3, <2>4 DEF PragmaInv
<1> QED
  BY <1>4, <1>5, <1>6, <1>7, <1>8, <1>9, <1>10, <1>11, <1>12 DEF Next

\* The inductive invariant of the reader.
THEOREM PragmaInvariant == Spec => []PragmaInv
<1>1. Init => PragmaInv
  <2> SUFFICES ASSUME Init PROVE PragmaInv
    OBVIOUS
  <2>1. \A kind : Places(kind) = {}
    BY DEF Init, Places
  <2>2. FilePragmas = {} /\ Declarations = {}
    BY <2>1 DEF FilePragmas, Declarations
  <2>3. AttributesAsked = {} /\ ReferencesRead = {}
    BY <2>2 DEF AttributesAsked, ReferencesRead
  <2>4. OpenFunction /\ Waiting /\ Apart /\ ErrorsJustified
    BY <2>1, <2>2 DEF Init, OpenFunction, Waiting, Apart, ErrorsJustified
  <2> QED
    BY <2>3, <2>4 DEF Init, PragmaInv, AttributeOfOwnPragma, WeakrefOfLastRead
<1>2. PragmaInv /\ NothingWaitsInBody /\ [Next]_vars => PragmaInv'
  BY ReaderKeeps
<1> QED
  BY <1>1, <1>2, NothingWaits, PTL DEF Spec

\* Every function has the attribute of the pragma it is the next declaration behind and
\* no other, whatever types, function bodies, malformed and other pragmas come between
\* (microblaze_insert_attributes).
THEOREM AttributeIsOwnPragmas == Spec => []AttributeOfOwnPragma
<1>1. PragmaInv => AttributeOfOwnPragma
  BY DEF PragmaInv
<1> QED
  BY <1>1, PragmaInvariant, PTL

\* A declaration refers to the text of the DSP exactly when a pragma is on it and the
\* component read last in front of it is one of a DSP (microblaze_insert_attributes).
THEOREM WeakrefIsLastRead == Spec => []WeakrefOfLastRead
<1>1. PragmaInv => WeakrefOfLastRead
  BY DEF PragmaInv
<1> QED
  BY <1>1, PragmaInvariant, PTL

\* The assertion of the handler fails for two pragmas on one declaration only, and no
\* component is compared only behind a malformed pragma.
THEOREM ErrorsAreJustified == Spec => []ErrorsJustified
<1>1. PragmaInv => ErrorsJustified
  BY DEF PragmaInv
<1> QED
  BY <1>1, PragmaInvariant, PTL

--------------------------------------------------------------------------------
(* The dummies.                                                                   *)

\* What an item that was read is stays.
LEMMA ItemsStay ==
  ASSUME source \in Seq(Items), NEW item, Read(item), NEW k \in 1 .. Len(source)
  PROVE  (Calls(k)' <=> Calls(k)) /\ (EndsStatement(k)' <=> EndsStatement(k))
BY ReadGrows DEF Calls, EndsStatement

\* What is appended comes behind what was there.
LEMMA Appended ==
  ASSUME NEW S, NEW s \in Seq(S), NEW e \in S
  PROVE  /\ DOMAIN s = 1 .. Len(s) /\ DOMAIN Append(s, e) = 1 .. Len(s) + 1
         /\ Append(s, e)[Len(s) + 1] = e
         /\ \A k \in DOMAIN s : Append(s, e)[k] = s[k]
OBVIOUS

\* A pragma read keeps its dummies, whatever call or dummy of another is added.
LEMMA DummiesStay ==
  ASSUME source \in Seq(Items), OpenFunction, BodyInv, NEW item, Read(item),
         body' = body \/ \E q \in {0, Here} : body' = Append(body, <<cfun, q>>),
         NEW p \in Places("pragma")
  PROVE  InPlace(p)'
<1>1. /\ p \in 1 .. Len(source) /\ p # Here /\ p # 0 /\ p \in 1 .. Here
      /\ Len(source) \in Nat
  BY PlacesGrow, ReadGrows DEF Here
<1>2. FunctionOf(p)' = FunctionOf(p)
  BY <1>1, FunctionStays
<1>3. /\ body \in Seq((0 .. Len(source)) \X (0 .. Len(source)))
      /\ Len(body) \in Nat /\ DOMAIN body = 1 .. Len(body)
  BY DEF BodyInv
<1>4. /\ DOMAIN body \subseteq DOMAIN body'
      /\ \A k \in DOMAIN body : body'[k] = body[k]
      /\ \A k \in DOMAIN body' : k \in DOMAIN body \/ body'[k][2] # p
  <2>1. CASE body' = body
    BY <2>1
  <2>2. ASSUME NEW q \in {0, Here}, body' = Append(body, <<cfun, q>>)
        PROVE  /\ DOMAIN body \subseteq DOMAIN body'
               /\ \A k \in DOMAIN body : body'[k] = body[k]
               /\ \A k \in DOMAIN body' : k \in DOMAIN body \/ body'[k][2] # p
    <3>1. cfun \in 0 .. Here /\ q \in 0 .. Here
      BY <1>1, PlacesGrow DEF OpenFunction, Here
    <3>2. body \in Seq((0 .. Here) \X (0 .. Here))
      <4>1. (0 .. Len(source)) \X (0 .. Len(source)) \subseteq (0 .. Here) \X (0 .. Here)
        BY <1>1 DEF Here
      <4> QED
        BY <1>3, <4>1
    <3>3. <<cfun, q>> \in (0 .. Here) \X (0 .. Here)
      BY <3>1
    <3>4. /\ DOMAIN body' = 1 .. Len(body) + 1 /\ body'[Len(body) + 1] = <<cfun, q>>
          /\ \A k \in DOMAIN body : body'[k] = body[k]
      BY <2>2, <3>2, <3>3, Appended
    <3>5. q # p /\ body'[Len(body) + 1][2] = q
      BY <1>1, <2>2, <3>4
    <3>6. \A k \in 1 .. Len(body) + 1 : k \in 1 .. Len(body) \/ k = Len(body) + 1
      BY <1>3
    <3> QED
      BY <1>3, <3>4, <3>5, <3>6
  <2>3. CASE \E q \in {0, Here} : body' = Append(body, <<cfun, q>>)
    BY <2>2, <2>3
  <2> QED
    BY <2>1, <2>3
<1>5. Dummies(p)' = Dummies(p)
  BY <1>4 DEF Dummies
<1>6. ASSUME NEW d \in Dummies(p) PROVE CallsBefore(d)' = CallsBefore(d)
  <2>1. \A k \in 1 .. d : k \in DOMAIN body /\ body'[k] = body[k]
    <3>1. d \in 1 .. Len(body) /\ d \in Nat
      BY <1>3 DEF Dummies
    <3>2. \A k \in 1 .. d : k \in DOMAIN body
      BY <1>3, <3>1
    <3> QED
      BY <1>4, <3>2
  <2> QED
    BY <2>1 DEF CallsBefore
<1>7. {k \in 1 .. p : Calls(k)'} = {k \in 1 .. p : Calls(k)}
  BY <1>1, ItemsStay
<1>8. InPlace(p)
  BY DEF BodyInv, DummyInPlace
<1>9. \A d \in Dummies(p) : body'[d] = body[d]
  BY <1>4 DEF Dummies
<1> QED
  BY <1>2, <1>5, <1>6, <1>7, <1>8, <1>9 DEF InPlace

\* An item that is no pragma of a body and calls nothing,
LEMMA NothingAdded ==
  ASSUME source \in Seq(Items), OpenFunction, BodyInv, NEW item, Read(item), body' = body,
         item.kind \notin {"statement", "declare"} \/ ~item.call,
         item.kind = "pragma" => cfun = 0
  PROVE  BodyInv'
<1>0. PICK h : h = Here   \* Here' is another place
  OBVIOUS
<1>1. /\ Len(source) \in Nat /\ h = Len(source) + 1 /\ Len(source') = h
      /\ source'[h] = item
  BY <1>0, ReadGrows DEF Here
<1>2. body' \in Seq((0 .. Len(source')) \X (0 .. Len(source')))
  <2>1. (0 .. Len(source)) \X (0 .. Len(source)) \subseteq (0 .. Len(source')) \X (0 .. Len(source'))
    BY <1>1
  <2> QED
    BY <2>1 DEF BodyInv
<1>3. CallsBefore(Len(body))' = CallsBefore(Len(body))
  BY DEF CallsBefore
<1>4. {k \in 1 .. Len(source') : Calls(k)'} = {k \in 1 .. Len(source) : Calls(k)}
  <2>1. \A k \in 1 .. Len(source) : Calls(k)' <=> Calls(k)
    BY ItemsStay
  <2>2. ~Calls(h)'
    BY <1>1 DEF Calls
  <2> QED
    BY <1>1, <2>1, <2>2
<1>5. ASSUME NEW p \in Places("pragma")' PROVE InPlace(p)'
  <2>1. CASE p \in Places("pragma")
    BY <2>1, DummiesStay
  <2>2. CASE p \notin Places("pragma")
    <3>1. p = h /\ item.kind = "pragma" /\ cfun = 0
      BY <1>0, <2>2, PlacesGrow
    <3>2. FunctionOf(p)' = 0
      <4>1. p \in 1 .. Here /\ p = Here
        BY <1>0, <1>1, <3>1
      <4>2. FunctionOf(p) = 0
        BY <3>1, <4>1, FunctionHere
      <4> QED
        BY <4>1, <4>2, FunctionStays
    <3>3. Dummies(p)' = {}
      BY <1>1, <3>1 DEF Dummies, BodyInv
    <3> QED
      BY <3>2, <3>3 DEF InPlace
  <2> QED
    BY <2>1, <2>2
<1> QED
  BY <1>2, <1>3, <1>4, <1>5 DEF BodyInv, DummyInPlace

\* a pragma of a body,
LEMMA DummyAdded ==
  ASSUME source \in Seq(Items), OpenFunction, BodyInv, NEW item, Read(item),
         item.kind = "pragma", cfun # 0, body' = Append(body, <<cfun, Here>>)
  PROVE  BodyInv'
<1>0. PICK h : h = Here   \* Here' is another place
  OBVIOUS
<1>1. /\ Len(source) \in Nat /\ h = Len(source) + 1 /\ Len(source') = h
      /\ source'[h] = item
  BY <1>0, ReadGrows DEF Here
<1>2. cfun \in 0 .. h
  BY <1>1, PlacesGrow DEF OpenFunction
<1>3. /\ body \in Seq((0 .. Len(source)) \X (0 .. Len(source)))
      /\ Len(body) \in Nat /\ DOMAIN body = 1 .. Len(body)
  BY DEF BodyInv
<1>4. /\ DOMAIN body' = 1 .. Len(body) + 1 /\ Len(body') = Len(body) + 1
      /\ body'[Len(body) + 1] = <<cfun, h>>
      /\ \A k \in DOMAIN body : body'[k] = body[k] /\ body[k][2] \in 0 .. Len(source)
  BY <1>0, <1>3
<1>5. body' \in Seq((0 .. Len(source')) \X (0 .. Len(source')))
  <2>1. body \in Seq((0 .. h) \X (0 .. h))
    <3>1. (0 .. Len(source)) \X (0 .. Len(source)) \subseteq (0 .. h) \X (0 .. h)
      BY <1>1
    <3> QED
      BY <1>3, <3>1
  <2>2. <<cfun, h>> \in (0 .. h) \X (0 .. h)
    BY <1>1, <1>2
  <2> QED
    BY <1>0, <1>1, <2>1, <2>2
<1>6. CallsBefore(Len(body))' = CallsBefore(Len(body))
  <2>1. CallsBefore(Len(body))' = {k \in 1 .. Len(body) + 1 : body'[k][2] = 0}
    BY <1>4 DEF CallsBefore
  <2> QED
    BY <1>1, <1>3, <1>4, <2>1 DEF CallsBefore
<1>7. \A k \in 1 .. Len(source) : Calls(k)' <=> Calls(k)
  BY ItemsStay
<1>8. {k \in 1 .. h : Calls(k)'} = {k \in 1 .. Len(source) : Calls(k)}
  <2>1. ~Calls(h)'
    BY <1>1 DEF Calls
  <2> QED
    BY <1>1, <1>7, <2>1
<1>9. ASSUME NEW p \in Places("pragma")' PROVE InPlace(p)'
  <2>1. CASE p \in Places("pragma")
    BY <2>1, DummiesStay
  <2>2. CASE p \notin Places("pragma")
    <3>1. p = h
      BY <1>0, <2>2, PlacesGrow
    <3>2. FunctionOf(p)' = cfun
      <4>1. p \in 1 .. Here /\ p = Here
        BY <1>0, <1>1, <3>1
      <4>2. FunctionOf(p) = cfun
        BY <4>1, FunctionHere
      <4> QED
        BY <4>1, <4>2, FunctionStays
    <3> DEFINE d == Len(body) + 1
    <3>3. Dummies(p)' = {d}
      BY <1>1, <1>3, <1>4, <3>1 DEF Dummies
    <3>4. body'[d][1] = FunctionOf(p)'
      BY <1>4, <3>2
    <3>5. PICK e : e = d
      OBVIOUS
    <3>6. CallsBefore(e)' = CallsBefore(Len(body))
      BY <1>1, <1>3, <1>4, <3>5 DEF CallsBefore
    <3>7. Cardinality(CallsBefore(e)') = Cardinality({k \in 1 .. p : Calls(k)'})
      BY <1>8, <3>1, <3>6 DEF BodyInv
    <3> QED
      BY <1>3, <1>4, <3>2, <3>3, <3>4, <3>5, <3>7, cfun # 0 DEF InPlace
  <2> QED
    BY <2>1, <2>2
<1> QED
  BY <1>1, <1>5, <1>6, <1>8, <1>9 DEF BodyInv, DummyInPlace

\* and a call keep the dummies in their places.
LEMMA CallAdded ==
  ASSUME source \in Seq(Items), OpenFunction, BodyInv, NEW item, Read(item),
         item.kind \in {"statement", "declare"}, item.call,
         cfun # 0, body' = Append(body, <<cfun, 0>>)
  PROVE  BodyInv'
<1>0. PICK h : h = Here   \* Here' is another place
  OBVIOUS
<1>1. /\ Len(source) \in Nat /\ h = Len(source) + 1 /\ Len(source') = h
      /\ source'[h] = item
  BY <1>0, ReadGrows DEF Here
<1>2. cfun \in 0 .. h
  BY <1>1, PlacesGrow DEF OpenFunction
<1>3. /\ body \in Seq((0 .. Len(source)) \X (0 .. Len(source)))
      /\ Len(body) \in Nat /\ DOMAIN body = 1 .. Len(body)
  BY DEF BodyInv
<1>4. /\ DOMAIN body' = 1 .. Len(body) + 1 /\ Len(body') = Len(body) + 1
      /\ body'[Len(body) + 1] = <<cfun, 0>>
      /\ \A k \in DOMAIN body : body'[k] = body[k]
  BY <1>3
<1>5. body' \in Seq((0 .. Len(source')) \X (0 .. Len(source')))
  <2>1. body \in Seq((0 .. h) \X (0 .. h))
    <3>1. (0 .. Len(source)) \X (0 .. Len(source)) \subseteq (0 .. h) \X (0 .. h)
      BY <1>1
    <3> QED
      BY <1>3, <3>1
  <2>2. <<cfun, 0>> \in (0 .. h) \X (0 .. h)
    BY <1>1, <1>2
  <2> QED
    BY <1>1, <2>1, <2>2
<1>6. CallsBefore(Len(body))' = CallsBefore(Len(body)) \cup {Len(body) + 1}
  <2>1. CallsBefore(Len(body))' = {k \in 1 .. Len(body) + 1 : body'[k][2] = 0}
    BY <1>4 DEF CallsBefore
  <2> QED
    BY <1>3, <1>4, <2>1 DEF CallsBefore
<1>7. \A k \in 1 .. Len(source) : Calls(k)' <=> Calls(k)
  BY ItemsStay
<1>8. {k \in 1 .. h : Calls(k)'} = {k \in 1 .. Len(source) : Calls(k)} \cup {h}
  <2>1. Calls(h)'
    BY <1>1 DEF Calls
  <2> QED
    BY <1>1, <1>7, <2>1
<1>9. /\ IsFiniteSet(CallsBefore(Len(body))) /\ Len(body) + 1 \notin CallsBefore(Len(body))
      /\ IsFiniteSet({k \in 1 .. Len(source) : Calls(k)})
      /\ h \notin {k \in 1 .. Len(source) : Calls(k)}
  <2>1. IsFiniteSet(1 .. Len(body)) /\ IsFiniteSet(1 .. Len(source))
    BY <1>1, <1>3, FS_Interval
  <2>2. CallsBefore(Len(body)) \subseteq 1 .. Len(body)
    BY DEF CallsBefore
  <2>3. {k \in 1 .. Len(source) : Calls(k)} \subseteq 1 .. Len(source)
    OBVIOUS
  <2>4. IsFiniteSet(CallsBefore(Len(body))) /\ IsFiniteSet({k \in 1 .. Len(source) : Calls(k)})
    BY <2>1, <2>2, <2>3, FS_Subset
  <2> QED
    BY <1>1, <1>3, <2>2, <2>3, <2>4
<1>10. Cardinality(CallsBefore(Len(body))') = Cardinality({k \in 1 .. h : Calls(k)'})
  <2>1. Cardinality(CallsBefore(Len(body))') = Cardinality(CallsBefore(Len(body))) + 1
    BY <1>6, <1>9, FS_AddElement
  <2>2. Cardinality({k \in 1 .. h : Calls(k)'})
          = Cardinality({k \in 1 .. Len(source) : Calls(k)}) + 1
    BY <1>8, <1>9, FS_AddElement
  <2> QED
    BY <2>1, <2>2 DEF BodyInv
<1>11. Places("pragma")' = Places("pragma")
  <2>1. item.kind # "pragma"
    OBVIOUS
  <2> QED
    BY <2>1, PlacesGrow
<1>12. \A p \in Places("pragma")' : InPlace(p)'
  BY <1>11, DummiesStay
<1> QED
  BY <1>1, <1>5, <1>10, <1>12 DEF BodyInv, DummyInPlace

\* Every step of the reader keeps the dummies in their places.
LEMMA BodiesKeep ==
  ASSUME source \in Seq(Items), OpenFunction, NothingWaitsInBody, BodyInv, [Next]_vars
  PROVE  BodyInv'
<1>1. ASSUME NEW c, ReadPragma(c) PROVE BodyInv'
  <2>1. Read(Pragma(c)) /\ Pragma(c).kind = "pragma" /\ status = "reading"
    BY <1>1 DEF ReadPragma, Read, Pragma
  <2>2. CASE cfun = 0
    <3>1. body' = body
      BY <1>1, <2>2 DEF ReadPragma, AfterHandler
    <3> QED
      BY <2>1, <2>2, <3>1, NothingAdded
  <2>3. CASE cfun # 0
    <3>1. AfterHandler(Here)
      BY <1>1, <2>1, <2>3 DEF ReadPragma, NothingWaitsInBody
    <3>2. body' = Append(body, <<cfun, Here>>)
      <4>1. Here # 0
        BY ReadGrows DEF Here
      <4> QED
        BY <2>3, <3>1, <4>1 DEF AfterHandler
    <3> QED
      BY <2>1, <2>3, <3>2, DummyAdded
  <2> QED
    BY <2>2, <2>3
<1>2. ASSUME NEW c, ReadMalformed(c) PROVE BodyInv'
  <2>1. /\ Read(Malformed(c)) /\ Malformed(c).kind = "malformed"
        /\ status = "reading" /\ AfterHandler(call_hw_tree)
    BY <1>2 DEF ReadMalformed, Read, Malformed
  <2>2. body' = body
    BY <2>1 DEF AfterHandler, NothingWaitsInBody
  <2> QED
    BY <2>1, <2>2, NothingAdded
<1>3. CASE ReadOtherPragma
  <2>1. /\ Read(OtherPragma) /\ OtherPragma.kind = "otherPragma"
        /\ status = "reading" /\ AfterHandler(call_hw_tree)
    BY <1>3 DEF ReadOtherPragma, Read, OtherPragma
  <2>2. body' = body
    BY <2>1 DEF AfterHandler, NothingWaitsInBody
  <2> QED
    BY <2>1, <2>2, NothingAdded
<1>4. ASSUME NEW item, Read(item), item.kind \in {"statement", "declare"},
             item.call \in BOOLEAN, AddCall(item.call), item.call => cfun # 0
      PROVE  BodyInv'
  <2>1. CASE item.call
    <3>1. body' = Append(body, <<cfun, 0>>)
      BY <1>4, <2>1 DEF AddCall
    <3> QED
      BY <1>4, <2>1, <3>1, CallAdded
  <2>2. CASE ~item.call
    <3>1. body' = body
      BY <2>2, <1>4 DEF AddCall
    <3>2. item.kind # "pragma"
      BY <1>4
    <3> QED
      BY <1>4, <2>2, <3>1, <3>2, NothingAdded
  <2> QED
    BY <2>1, <2>2
<1>5. ASSUME NEW what, NEW call \in BOOLEAN, ReadDeclaration(what, call) PROVE BodyInv'
  <2>1. PICK item : item = Declare(what, call)
    OBVIOUS
  <2>2. item.kind = "declare" /\ item.call = call
    BY <2>1 DEF Declare
  <2> QED
    BY <1>4, <1>5, <2>1, <2>2 DEF ReadDeclaration
<1>6. CASE ReadDefinition
  <2>1. Read(Define) /\ Define.kind = "define" /\ body' = body
    BY <1>6 DEF ReadDefinition, Define
  <2> QED
    BY <2>1, NothingAdded
<1>7. ASSUME NEW call \in BOOLEAN, ReadStatement(call) PROVE BodyInv'
  <2>1. PICK item : item = Statement(call)
    OBVIOUS
  <2>2. item.kind = "statement" /\ item.call = call
    BY <2>1 DEF Statement
  <2> QED
    BY <1>4, <1>7, <2>1, <2>2 DEF ReadStatement
<1>8. CASE ReadEnd
  <2>1. Read(End) /\ End.kind = "end" /\ body' = body
    BY <1>8 DEF ReadEnd, End
  <2> QED
    BY <2>1, NothingAdded
<1>9. CASE EndOfFile \/ Stopped \/ Full \/ UNCHANGED vars
  <2>1. source' = source /\ body' = body
    BY <1>9 DEF EndOfFile, Stopped, Full, vars
  <2>2. (\A kind : Places(kind)' = Places(kind)) /\ \A d : CallsBefore(d)' = CallsBefore(d)
    BY <2>1 DEF Places, CallsBefore
  <2>3. /\ \A k : (FunctionOf(k)' = FunctionOf(k)) /\ (Calls(k)' <=> Calls(k))
        /\ \A k : Dummies(k)' = Dummies(k)
    BY <2>1, <2>2 DEF FunctionOf, Calls, Dummies
  <2>4. \A p : InPlace(p)' <=> InPlace(p)
    BY <2>1, <2>2, <2>3 DEF InPlace
  <2>5. CallsBefore(Len(body))' = CallsBefore(Len(body))
    BY <2>1 DEF CallsBefore
  <2> QED
    BY <2>1, <2>2, <2>3, <2>4, <2>5 DEF BodyInv, DummyInPlace
<1> QED
  BY <1>1, <1>2, <1>3, <1>5, <1>6, <1>7, <1>8, <1>9 DEF Next

\* A pragma in the body of a function leaves one dummy in this function, behind exactly
\* the calls it was written behind, and a pragma outside of functions none
\* (c_parser_pragma), for every source of every length.
THEOREM DummiesAreInPlace == Spec => []DummyInPlace
<1>1. Init => BodyInv
  <2> SUFFICES ASSUME Init PROVE BodyInv
    OBVIOUS
  <2>1. source = <<>> /\ body = <<>>
    BY DEF Init
  <2>2. Places("pragma") = {} /\ {k \in 1 .. Len(source) : Calls(k)} = {}
        /\ CallsBefore(Len(body)) = {}
    BY <2>1 DEF Places, CallsBefore
  <2>3. body \in Seq((0 .. Len(source)) \X (0 .. Len(source)))
    BY <2>1
  <2>4. DummyInPlace
    BY <2>2 DEF DummyInPlace
  <2> QED
    BY <2>2, <2>3, <2>4 DEF BodyInv
<1>2. PragmaInv => source \in Seq(Items) /\ OpenFunction
  BY DEF PragmaInv
<1>3. PragmaInv /\ NothingWaitsInBody /\ BodyInv /\ [Next]_vars => BodyInv'
  BY <1>2, BodiesKeep
<1>4. BodyInv => DummyInPlace
  BY DEF BodyInv
<1> QED
  BY <1>1, <1>3, <1>4, PragmaInvariant, NothingWaits, PTL DEF Spec

--------------------------------------------------------------------------------
(* The warnings.                                                                  *)

\* Where a statement has ended behind a pragma stays.
LEMMA EndStays ==
  ASSUME source \in Seq(Items), NEW item, Read(item), NEW p \in Nat, NEW e \in DOMAIN source,
         FirstEnd(p, e)
  PROVE  e \in DOMAIN source' /\ source'[e] = source[e] /\ FirstEnd(p, e)'
<1>1. /\ Len(source) \in Nat /\ DOMAIN source = 1 .. Len(source)
      /\ DOMAIN source' = 1 .. Here /\ source'[e] = source[e]
  BY ReadGrows
<1>2. \A k \in 1 .. Len(source) : EndsStatement(k)' <=> EndsStatement(k)
  BY ItemsStay
<1> QED
  BY <1>1, <1>2 DEF FirstEnd, Here

\* A step that reports nothing keeps the invariant when no statement ends, or nothing is
\* found any more.
LEMMA NothingReported ==
  ASSUME source \in Seq(Items), ReportInv, NEW item, Read(item), reported' = reported,
         \/ cfun' = 0 \/ decl_found' = TRUE \/ pragma_found' = 0
         \/ pragma_found' = Here /\ item.kind = "pragma"
         \/ /\ item.kind \notin {"statement", "declare"} /\ cfun' = cfun
            /\ pragma_found' = pragma_found /\ decl_found' = decl_found
  PROVE  ReportInv'
<1>0. PICK h : h = Here   \* Here' is another place
  OBVIOUS
<1>1. /\ Len(source) \in Nat /\ h = Len(source) + 1 /\ DOMAIN source = 1 .. Len(source)
      /\ DOMAIN source' = 1 .. h /\ source'[h] = item
  BY <1>0, ReadGrows DEF Here
<1>2. \A k \in 1 .. Len(source) : EndsStatement(k)' <=> EndsStatement(k)
  BY ItemsStay
<1>3. \A p \in reported' : p \in Nat /\ \E e \in DOMAIN source' :
        FirstEnd(p, e)' /\ source'[e] = Statement(FALSE)
  BY EndStays DEF ReportInv
<1>4. CASE cfun' = 0 \/ decl_found' = TRUE \/ pragma_found' = 0
  BY <1>3, <1>4 DEF ReportInv
<1>5. CASE pragma_found' = Here /\ item.kind = "pragma"
  <2>1. pragma_found' \in DOMAIN source' /\ \A k \in DOMAIN source' : ~(k > pragma_found')
    <3>1. pragma_found' = h
      BY <1>0, <1>5
    <3>2. h \in 1 .. h /\ \A k \in 1 .. h : ~(k > h)
      BY <1>1
    <3> QED
      BY <1>1, <3>1, <3>2
  <2> QED
    BY <1>3, <2>1 DEF ReportInv
<1>6. CASE /\ item.kind \notin {"statement", "declare"} /\ cfun' = cfun
           /\ pragma_found' = pragma_found /\ decl_found' = decl_found
  <2>1. ~EndsStatement(h)'
    BY <1>1, <1>6 DEF EndsStatement
  <2>2. status = "reading"
    BY DEF Read
  <2>3. ASSUME cfun' # 0, pragma_found' # 0, ~decl_found'
        PROVE  /\ pragma_found' \in DOMAIN source'
               /\ \A k \in DOMAIN source' : k > pragma_found' => ~EndsStatement(k)'
    <3>1. /\ pragma_found' = pragma_found /\ pragma_found \in 1 .. Len(source)
          /\ \A k \in 1 .. Len(source) : k > pragma_found => ~EndsStatement(k)
      BY <1>1, <1>6, <2>2, <2>3 DEF ReportInv
    <3> QED
      BY <1>1, <1>2, <2>1, <3>1
  <2> QED
    BY <1>3, <2>3 DEF ReportInv
<1> QED
  BY <1>4, <1>5, <1>6

\* The end of a statement reports the pragma in front of it when it calls nothing.
LEMMA StatementReports ==
  ASSUME source \in Seq(Items), ReportInv, NEW call \in BOOLEAN, ReadStatement(call)
  PROVE  ReportInv'
<1>0. PICK item : item = Statement(call)
  OBVIOUS
<1>1. /\ Read(item) /\ item.kind = "statement" /\ cfun # 0 /\ status = "reading"
      /\ Semicolon(call_found \/ call, decl_found)
  BY <1>0 DEF ReadStatement, Read, Statement
<1>2. pragma_found' = 0
  BY <1>1 DEF Semicolon
<1>3. CASE reported' = reported
  BY <1>1, <1>2, <1>3, NothingReported
<1>4. CASE reported' # reported
  <2>1. /\ pragma_found # 0 /\ ~call /\ ~decl_found
        /\ reported' = reported \cup {pragma_found}
    BY <1>1, <1>4 DEF Semicolon
  <2>2. PICK h : h = Here   \* Here' is another place
    OBVIOUS
  <2>3. /\ Len(source) \in Nat /\ h = Len(source) + 1 /\ DOMAIN source = 1 .. Len(source)
        /\ DOMAIN source' = 1 .. h /\ source'[h] = item
    BY <1>1, <2>2, ReadGrows DEF Here
  <2>4. \A k \in 1 .. Len(source) : EndsStatement(k)' <=> EndsStatement(k)
    BY <1>1, ItemsStay
  <2>5. item = Statement(FALSE)
    BY <1>0, <2>1
  <2>6. PICK p : p = pragma_found
    OBVIOUS
  <2>7. /\ p \in 1 .. Len(source)
        /\ \A k \in 1 .. Len(source) : k > p => ~EndsStatement(k)
    BY <1>1, <2>1, <2>3, <2>6 DEF ReportInv
  <2>8. FirstEnd(p, h)'
    <3>1. EndsStatement(h)'
      BY <1>1, <2>3 DEF EndsStatement
    <3> QED
      BY <2>3, <2>4, <2>7, <3>1 DEF FirstEnd
  <2>9. \A q \in reported : q \in Nat /\ \E e \in DOMAIN source' :
          FirstEnd(q, e)' /\ source'[e] = Statement(FALSE)
    BY <1>1, EndStays DEF ReportInv
  <2>10. p \in Nat /\ h \in DOMAIN source' /\ source'[h] = Statement(FALSE)
    BY <2>3, <2>5, <2>7
  <2>11. \A q \in reported' : q \in Nat /\ \E e \in DOMAIN source' :
          FirstEnd(q, e)' /\ source'[e] = Statement(FALSE)
    BY <2>1, <2>6, <2>8, <2>9, <2>10
  <2> QED
    BY <1>2, <2>11 DEF ReportInv
<1> QED
  BY <1>3, <1>4

\* Every step of the reader keeps the reports justified.
LEMMA ReportsKeep ==
  ASSUME source \in Seq(Items), NothingWaitsInBody, ReportInv, [Next]_vars
  PROVE  ReportInv'
<1>1. ASSUME NEW c, ReadPragma(c) PROVE ReportInv'
  <2>1. Read(Pragma(c)) /\ Pragma(c).kind = "pragma" /\ status = "reading"
    BY <1>1 DEF ReadPragma, Read, Pragma
  <2>2. CASE call_hw_tree # 0
    <3>1. cfun' = 0 /\ reported' = reported
      BY <1>1, <2>1, <2>2 DEF ReadPragma, NothingWaitsInBody, flagVars
    <3> QED
      BY <2>1, <3>1, NothingReported
  <2>3. CASE call_hw_tree = 0
    <3>1. AfterHandler(Here)
      BY <1>1, <2>3 DEF ReadPragma
    <3>2. Here # 0
      BY ReadGrows DEF Here
    <3>3. pragma_found' = Here /\ reported' = reported
      BY <3>1, <3>2 DEF AfterHandler
    <3> QED
      BY <2>1, <3>3, NothingReported
  <2> QED
    BY <2>2, <2>3
<1>2. ASSUME NEW item, Read(item), item.kind \in {"malformed", "otherPragma"},
             AfterHandler(call_hw_tree)
      PROVE  ReportInv'
  <2>1. cfun' = cfun /\ reported' = reported /\ decl_found' = decl_found
    BY <1>2 DEF AfterHandler
  <2>2. CASE cfun = 0
    BY <1>2, <2>1, <2>2, NothingReported
  <2>3. CASE cfun # 0
    <3>1. pragma_found' = pragma_found
      BY <1>2, <2>3 DEF AfterHandler, NothingWaitsInBody, Read
    <3> QED
      BY <1>2, <2>1, <3>1, NothingReported
  <2> QED
    BY <2>2, <2>3
<1>3. ASSUME NEW c, ReadMalformed(c) PROVE ReportInv'
  <2>1. /\ Read(Malformed(c)) /\ Malformed(c).kind = "malformed"
        /\ AfterHandler(call_hw_tree)
    BY <1>3 DEF ReadMalformed, Malformed
  <2> QED
    BY <1>2, <2>1
<1>4. CASE ReadOtherPragma
  <2>1. /\ Read(OtherPragma) /\ OtherPragma.kind = "otherPragma"
        /\ AfterHandler(call_hw_tree)
    BY <1>4 DEF ReadOtherPragma, OtherPragma
  <2> QED
    BY <1>2, <2>1
<1>5. ASSUME NEW what, NEW call \in BOOLEAN, ReadDeclaration(what, call) PROVE ReportInv'
  <2>1. Read(Declare(what, call)) /\ pragma_found' = 0 /\ reported' = reported
    BY <1>5 DEF ReadDeclaration, Semicolon
  <2> QED
    BY <2>1, NothingReported
<1>6. CASE ReadDefinition
  <2>1. Read(Define) /\ decl_found' = TRUE /\ reported' = reported
    BY <1>6 DEF ReadDefinition
  <2> QED
    BY <2>1, NothingReported
<1>7. ASSUME NEW call \in BOOLEAN, ReadStatement(call) PROVE ReportInv'
  BY <1>7, StatementReports
<1>8. CASE ReadEnd
  <2>1. Read(End) /\ cfun' = 0 /\ reported' = reported
    BY <1>8 DEF ReadEnd, flagVars
  <2> QED
    BY <2>1, NothingReported
<1>9. CASE EndOfFile \/ Stopped \/ Full \/ UNCHANGED vars
  <2>1. UNCHANGED <<source, cfun, flagVars>> /\ (status' = status \/ status' = "done")
    BY <1>9 DEF EndOfFile, Stopped, Full, vars
  <2>2. \A k : (EndsStatement(k)' <=> EndsStatement(k))
    BY <2>1 DEF EndsStatement
  <2>3. \A p, e : (FirstEnd(p, e)' <=> FirstEnd(p, e))
    BY <2>1, <2>2 DEF FirstEnd
  <2> QED
    BY <2>1, <2>2, <2>3 DEF ReportInv, flagVars
<1> QED
  BY <1>1, <1>3, <1>4, <1>5, <1>6, <1>7, <1>8, <1>9 DEF Next

\* "not on a function decl/call" is only said of a pragma whose statement neither calls
\* nor declares anything (c_parser_compound_statement_nostart), for every source.
THEOREM ReportsAreJustified == Spec => []ReportedJustified
<1>1. Init => ReportInv
  BY DEF Init, ReportInv
<1>2. PragmaInv => source \in Seq(Items)
  BY DEF PragmaInv
<1>3. PragmaInv /\ NothingWaitsInBody /\ ReportInv /\ [Next]_vars => ReportInv'
  BY <1>2, ReportsKeep
<1>4. PragmaInv /\ ReportInv => ReportedJustified
  <2> SUFFICES ASSUME PragmaInv, ReportInv, NEW p \in reported
               PROVE  LET ends == {k \in DOMAIN source : k > p /\ EndsStatement(k)} IN
                        ends # {} /\ source[Min(ends)] = Statement(FALSE)
    BY DEF ReportedJustified
  <2> DEFINE ends == {k \in DOMAIN source : k > p /\ EndsStatement(k)}
  <2>1. PICK e \in DOMAIN source : FirstEnd(p, e) /\ source[e] = Statement(FALSE)
    BY DEF ReportInv
  <2>2. /\ e \in ends /\ \A k \in ends : e <= k
        /\ ends \subseteq Int
    BY <1>2, <2>1 DEF FirstEnd
  <2>3. Min(ends) \in ends /\ \A k \in ends : Min(ends) <= k
    BY <2>2 DEF Min
  <2>4. Min(ends) = e
    BY <2>2, <2>3
  <2> QED
    BY <2>1, <2>2, <2>4
<1> QED
  BY <1>1, <1>3, <1>4, PragmaInvariant, NothingWaits, PTL DEF Spec
==================================================================================
