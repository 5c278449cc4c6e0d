---------------------------- MODULE LoadingProofs ----------------------------
(***************************************************************************)
(* Proofs about the part of Metrical that Registry specifies: LoadConfig   *)
(* gives the collector each section of a document once and tells its name, *)
(* for every document, every set of registered types and every failure.    *)
(***************************************************************************)
EXTENDS WiringProofs

-----------------------------------------------------------------------------
(* Steps *)

LoadingStep ==
    \/ R!NextKey \/ R!UnknownName \/ R!NotAnArray \/ R!Loaded
    \/ \E ok \in BOOLEAN : R!AddSection(ok)

\* LoadConfig runs while main loads the collector; every other step leaves the
\* variables of Registry alone.
LEMMA LoadingStepKinds ==
  ASSUME [Next]_vars PROVE (main = "load" /\ LoadingStep) \/ UNCHANGED loading
<1>1. CASE Main
  <2>1. CASE MainAlone \/ Unwind \/ NewCollector \/ BuildFails \/ Start \/ LoadPanics \/ Serve
             \/ Stopped
    BY <2>1 DEF MainAlone, Unwind, NewCollector, BuildFails, Start, LoadPanics, Serve, Stopped,
                Unchanged
  <2>2. CASE LoadStep
    BY <2>2 DEF LoadStep, LoadingStep
  <2>3. CASE AddOther
    BY <2>3 DEF AddOther, LoadingStep
  <2>4. ASSUME NEW ok \in BOOLEAN, AddOpcua(ok) \/ AddDevices(ok)
        PROVE  main = "load" /\ LoadingStep
    BY <2>4 DEF AddOpcua, AddDevices, Adding, LoadingStep
  <2> QED  BY <1>1, <2>1, <2>2, <2>3, <2>4 DEF Main
<1>2. CASE Collector
  BY <1>2 DEF Collector, GatherStarts, GatherGoesOn, DeInit, GatherNet, GatherDiskIO, GatherDisk,
              PeriodEnds, OtherProduct, PostEnds
<1>3. CASE \E d \in Devices : Plug(d)
  BY <1>3 DEF Plug
<1>4. CASE UNCHANGED vars
  BY <1>4 DEF vars
<1> QED  BY <1>1, <1>2, <1>3, <1>4 DEF Next

-----------------------------------------------------------------------------
(* The registry *)

\* Registry selects as Selections does.
LEMMA RegistrySelects ==
  /\ \A S : R!Ordered(S) = Ordered(S)
  /\ \A s, S : R!Select(s, S) = Select(s, S)
<1>1. \A S : R!Cardinality(S) = Cardinality(S)
  BY DEF R!Cardinality, Cardinality
<1>2. \A S : R!Ordered(S) = Ordered(S)
  BY <1>1 DEF R!Ordered, Ordered, R!Listing, Listing
<1> QED  BY <1>1, <1>2 DEF R!Select, Select

\* A type is registered under its name and its kind, so what AddSection makes
\* of a section is an Input just if the section is an input's.
LEMMA KindsAgree ==
  ASSUME NEW k \in R!Registered
  PROVE  k[1] \in {"input", "output"} /\ (R!registry[k].input <=> k[1] = "input")
<1>1. Types \in Seq(R!Type)
  BY MetricalAssumption DEF R!RegistryAssumption
<1>2. R!Register(k) # {} /\ R!Register(k) \subseteq DOMAIN Types /\ k[1] \in {"input", "output"}
  BY DEF R!Registered, R!Register
<1>3. IsFiniteSet(R!Register(k)) /\ R!Register(k) \in SUBSET Int
  <2>1. DOMAIN Types = 1..Len(Types) /\ Len(Types) \in Nat
    BY <1>1
  <2>2. IsFiniteSet(1..Len(Types))
    BY <2>1, FS_Interval
  <2> QED  BY <1>2, <2>1, <2>2, FS_Subset
<1>4. R!Min(R!Register(k)) \in R!Register(k)
  <2>1. R!Min(R!Register(k)) = Min(R!Register(k))
    BY DEF R!Min, Min
  <2> QED  BY <1>2, <1>3, <2>1, MinMax
<1>5. PICK i \in R!Register(k) : R!registry[k] = Types[i]
  BY <1>4 DEF R!registry
<1>6. i \in DOMAIN Types /\ <<R!KindOf(Types[i]), Types[i].name>> = k
  BY <1>5 DEF R!Register
<1>7. k[1] = R!KindOf(Types[i])
  BY <1>6
<1>8. Types[i].input \in BOOLEAN
  <2>1. Types[i] \in R!Type
    BY <1>1, <1>6
  <2> QED  BY <2>1 DEF R!Type
<1> QED  BY <1>2, <1>5, <1>7, <1>8 DEF R!KindOf

-----------------------------------------------------------------------------
(* Types *)

LoadType ==
    /\ doc \in Documents
    /\ key \in 1..(Len(doc) + 1)
    /\ processed \subseteq R!Registered
    /\ sections \in Seq(DOMAIN doc)
    /\ instances \in Seq([section : DOMAIN doc, filtered : BOOLEAN])
    /\ inputs \in Seq(STRING) /\ outputs \in Seq(STRING)
    /\ load \in {"loading", "ok", "error", "panic"}

\* A document is a sequence of sections.
LEMMA DocType ==
  ASSUME doc \in Documents
  PROVE  /\ doc \in Seq(R!Section) /\ Len(doc) \in Nat /\ DOMAIN doc = 1..Len(doc)
         /\ \A i \in DOMAIN doc : doc[i] \in R!Section
<1>1. doc \in Seq(R!Section)
  BY MetricalAssumption DEF R!RegistryAssumption
<1> QED  BY <1>1

\* The positions of the sections of a name are listed in the order of the document.
LEMMA SectionsOfType ==
  ASSUME doc \in Documents, NEW s
  PROVE  LET same == {i \in DOMAIN doc : R!Named(doc[i]) = R!Named(s)}
             o == R!SectionsOf(s)
         IN  /\ o \in Seq(DOMAIN doc)
             /\ R!Named(s) \in processed => o = <<>>
             /\ R!Named(s) \notin processed =>
                   /\ \A i \in DOMAIN o : o[i] \in same
                   /\ \A x \in same : \E i \in DOMAIN o : o[i] = x
                   /\ \A i, j \in DOMAIN o : i < j => o[i] < o[j]
<1> DEFINE same == {i \in DOMAIN doc : R!Named(doc[i]) = R!Named(s)}
           c == Cardinality(same)
<1>1. CASE R!Named(s) \in processed
  BY <1>1 DEF R!SectionsOf
<1>2. CASE R!Named(s) \notin processed
  <2>1. R!SectionsOf(s) = Ordered(same)
    BY <1>2, RegistrySelects DEF R!SectionsOf
  <2>2. same \in SUBSET Int /\ IsFiniteSet(same) /\ same \subseteq DOMAIN doc
    <3>1. IsFiniteSet(1..Len(doc)) /\ DOMAIN doc \in SUBSET Int
      BY DocType, FS_Interval
    <3> QED  BY <3>1, DocType, FS_Subset
  <2> HIDE DEF same
  <2>3. /\ c \in Nat
        /\ Ordered(same) \in [1..c -> same]
        /\ \A x \in same : \E i \in 1..c : Ordered(same)[i] = x
        /\ \A i, j \in 1..c : i < j => Ordered(same)[i] < Ordered(same)[j]
    BY <2>2, OrderedFacts
  <2>4. Ordered(same) \in Seq(DOMAIN doc)
    <3>1. Ordered(same) \in [1..c -> DOMAIN doc]
      BY <2>2, <2>3
    <3> QED  BY <2>3, <3>1, FunctionIsSeq
  <2> QED  BY <1>2, <2>1, <2>3, <2>4 DEF same
<1> QED  BY <1>1, <1>2

\* LoadConfig keeps the types of its variables.
LEMMA LoadTypeStep ==
  ASSUME LoadType, LoadingStep \/ UNCHANGED loading
  PROVE  LoadType'
<1> USE DEF LoadType
<1>0. doc \in Seq(R!Section) /\ Len(doc) \in Nat /\ DOMAIN doc = 1..Len(doc)
  BY DocType
<1>1. CASE R!NextKey
  <2>1. key \in DOMAIN doc /\ key + 1 \in 1..(Len(doc) + 1)
    BY <1>0, <1>1 DEF R!NextKey, R!AtKey
  <2>2. CASE R!Plugin(doc[key])
    <3>1. sections' \in Seq(DOMAIN doc)
      BY <1>1, <2>2, SectionsOfType DEF R!NextKey
    <3>2. processed' \subseteq R!Registered
      BY <1>1, <2>2 DEF R!NextKey
    <3> QED  BY <1>1, <2>1, <3>1, <3>2 DEF R!NextKey
  <2>3. CASE ~R!Plugin(doc[key])
    BY <1>1, <2>1, <2>3 DEF R!NextKey
  <2> QED  BY <2>2, <2>3
<1>2. CASE R!UnknownName
  BY <1>2 DEF R!UnknownName
<1>3. CASE R!NotAnArray
  BY <1>3 DEF R!NotAnArray
<1>4. CASE R!Loaded
  BY <1>4 DEF R!Loaded
<1>5. ASSUME NEW ok \in BOOLEAN, R!AddSection(ok) PROVE LoadType'
  <2> DEFINE i == Head(sections)
             x == [section |-> i, filtered |-> R!Filtered(i)]
  <2>1. i \in DOMAIN doc /\ Tail(sections) \in Seq(DOMAIN doc)
    BY <1>5 DEF R!AddSection
  <2>2. x \in [section : DOMAIN doc, filtered : BOOLEAN]
    BY <2>1 DEF R!Filtered
  <2>3. doc[i].name \in STRING
    <3>1. doc[i] \in R!Section
      BY <2>1, DocType
    <3> QED  BY <3>1 DEF R!Section
  <2>4. CASE R!SectionFails(i, ok)
    BY <1>5, <2>4 DEF R!AddSection
  <2>5. CASE ~R!SectionFails(i, ok)
    <3>1. /\ sections' = Tail(sections)
          /\ instances' = Append(instances, x)
          /\ \/ inputs' = Append(inputs, doc[i].name) /\ outputs' = outputs
             \/ outputs' = Append(outputs, doc[i].name) /\ inputs' = inputs
          /\ load' = load
          /\ doc' = doc /\ key' = key /\ processed' = processed
      BY <1>5, <2>5 DEF R!AddSection
    <3> HIDE DEF i, x
    <3>2. instances' \in Seq([section : DOMAIN doc, filtered : BOOLEAN])
      BY <2>2, <3>1
    <3>3. inputs' \in Seq(STRING) /\ outputs' \in Seq(STRING)
      <4> DEFINE name == doc[i].name
                 S == STRING
      <4>1. name \in S /\ inputs \in Seq(S) /\ outputs \in Seq(S)
        BY <2>3
      <4> HIDE DEF name, S
      <4>2. Append(inputs, name) \in Seq(S) /\ Append(outputs, name) \in Seq(S)
        BY <4>1
      <4> QED  BY <3>1, <4>2, Zenon DEF name, S
    <3> QED  BY <2>1, <3>1, <3>2, <3>3
  <2> QED  BY <2>4, <2>5
<1>6. CASE UNCHANGED loading
  BY <1>6 DEF loading
<1> QED  BY <1>1, <1>2, <1>3, <1>4, <1>5, <1>6 DEF LoadingStep

-----------------------------------------------------------------------------
(* Each section once *)

Given(j) == instances[j].section

\* An instance is one of a section of the document.
LEMMA GivenType ==
  ASSUME instances \in Seq([section : DOMAIN doc, filtered : BOOLEAN])
  PROVE  \A j \in DOMAIN instances : Given(j) \in DOMAIN doc
<1> SUFFICES ASSUME NEW j \in DOMAIN instances PROVE Given(j) \in DOMAIN doc
  OBVIOUS
<1> DEFINE T == [section : DOMAIN doc, filtered : BOOLEAN]
<1>1. instances \in Seq(T)
  OBVIOUS
<1>2. \A x \in T : x.section \in DOMAIN doc
  OBVIOUS
<1> HIDE DEF T
<1>3. instances[j] \in T
  BY <1>1
<1> QED  BY <1>2, <1>3 DEF Given

\* What has been given to the collector and what is still to be instantiated
\* are, without overlap, the sections of the names processed; those of a name
\* in the order of the document; and every name before key is processed.
OnceInv ==
    /\ \A j, k \in DOMAIN instances : Given(j) = Given(k) => j = k
    /\ \A j \in DOMAIN instances, i \in DOMAIN sections : Given(j) # sections[i]
    /\ \A i, j \in DOMAIN sections : i < j => sections[i] < sections[j]
    /\ \A x \in DOMAIN doc :
          R!Named(doc[x]) \in processed <=>
              \/ \E j \in DOMAIN instances : Given(j) = x
              \/ \E i \in DOMAIN sections : sections[i] = x
    /\ \A j, k \in DOMAIN instances :
          j < k /\ R!Named(doc[Given(j)]) = R!Named(doc[Given(k)]) => Given(j) < Given(k)
    /\ \A j \in DOMAIN instances, i \in DOMAIN sections :
          R!Named(doc[Given(j)]) = R!Named(doc[sections[i]]) => Given(j) < sections[i]
    /\ \A x \in DOMAIN doc : x < key /\ R!Plugin(doc[x]) => R!Named(doc[x]) \in processed
    /\ load = "ok" => sections = <<>> /\ key > Len(doc)

\* The elements of a sequence and of its tail, by their positions.
LEMMA TailAt ==
  ASSUME NEW S, NEW s \in Seq(S), s # <<>>
  PROVE  /\ 1 \in DOMAIN s /\ Head(s) = s[1]
         /\ \A i \in DOMAIN Tail(s) : i \in Nat /\ i + 1 \in DOMAIN s /\ Tail(s)[i] = s[i + 1]
         /\ \A i \in DOMAIN s : i = 1 \/ (i - 1 \in DOMAIN Tail(s) /\ Tail(s)[i - 1] = s[i])
OBVIOUS

\* The same of a sequence to which an element is appended.
LEMMA AppendAt ==
  ASSUME NEW S, NEW s \in Seq(S), NEW e \in S
  PROVE  /\ Len(s) \in Nat /\ DOMAIN s = 1..Len(s) /\ DOMAIN Append(s, e) = 1..(Len(s) + 1)
         /\ \A i \in DOMAIN s : i \in DOMAIN Append(s, e) /\ Append(s, e)[i] = s[i] /\ i < Len(s) + 1
         /\ Append(s, e)[Len(s) + 1] = e
         /\ \A i \in DOMAIN Append(s, e) : i \in DOMAIN s \/ i = Len(s) + 1
OBVIOUS

\* A key starts all sections of its name, if the name is new.
LEMMA OnceNextKey ==
  ASSUME LoadType, OnceInv, R!NextKey PROVE OnceInv'
<1>0. /\ sections = <<>> /\ key \in DOMAIN doc /\ key' = key + 1 /\ load = "loading"
      /\ UNCHANGED <<doc, instances, inputs, outputs, load>>
      /\ \A j \in DOMAIN instances : Given(j) \in DOMAIN doc
      /\ doc \in Documents /\ DOMAIN doc = 1..Len(doc) /\ Len(doc) \in Nat
  <2>1. doc \in Documents /\ DOMAIN doc = 1..Len(doc) /\ Len(doc) \in Nat
    BY DocType DEF LoadType
  <2>2. key \in 1..(Len(doc) + 1) /\ key <= Len(doc)
    BY DEF LoadType, R!NextKey, R!AtKey
  <2>3. key \in DOMAIN doc
    BY <2>1, <2>2
  <2>4. \A j \in DOMAIN instances : instances[j].section \in DOMAIN doc
    BY GivenType DEF LoadType, Given
  <2> QED  BY <2>1, <2>3, <2>4 DEF R!NextKey, R!AtKey, Given
<1>1. \A j : Given(j)' = Given(j)
  BY <1>0 DEF Given
<1>2. CASE ~R!Plugin(doc[key]) \/ R!Named(doc[key]) \in processed
  <2>1. UNCHANGED <<sections, processed>>
    <3>1. R!Named(doc[key]) \in processed => R!SectionsOf(doc[key]) = <<>>
      BY DEF R!SectionsOf
    <3> QED  BY <1>0, <1>2, <3>1 DEF R!NextKey
  <2>2. \A x \in DOMAIN doc : x < key' /\ R!Plugin(doc[x]) => R!Named(doc[x]) \in processed
    BY <1>0, <1>2 DEF OnceInv
  <2> QED  BY <1>0, <1>1, <2>1, <2>2 DEF OnceInv
<1>3. CASE R!Plugin(doc[key]) /\ R!Named(doc[key]) \notin processed
  <2> DEFINE name == R!Named(doc[key])
             o == R!SectionsOf(doc[key])
  <2>1. sections' = o /\ processed' = processed \cup {name}
    BY <1>3 DEF R!NextKey
  <2>2. /\ \A i \in DOMAIN o : o[i] \in DOMAIN doc /\ R!Named(doc[o[i]]) = name
        /\ \A x \in DOMAIN doc : R!Named(doc[x]) = name => \E i \in DOMAIN o : o[i] = x
        /\ \A i, j \in DOMAIN o : i < j => o[i] < o[j]
    BY <1>0, <1>3, SectionsOfType
  <2>3. \A j \in DOMAIN instances : R!Named(doc[Given(j)]) \in processed
    BY <1>0 DEF OnceInv
  <2> HIDE DEF o, name
  <2>4. \A j \in DOMAIN instances, i \in DOMAIN o : R!Named(doc[Given(j)]) # R!Named(doc[o[i]])
    BY <1>3, <2>2, <2>3 DEF name
  <2>5. \A x \in DOMAIN doc :
          R!Named(doc[x]) \in processed' <=>
              \/ \E j \in DOMAIN instances : Given(j) = x
              \/ \E i \in DOMAIN o : o[i] = x
    <3>1. \A x \in DOMAIN doc :
             R!Named(doc[x]) \in processed <=> \E j \in DOMAIN instances : Given(j) = x
      BY <1>0 DEF OnceInv
    <3> QED  BY <2>1, <2>2, <3>1
  <2>6. \A x \in DOMAIN doc : x < key' /\ R!Plugin(doc[x]) => R!Named(doc[x]) \in processed'
    BY <1>0, <2>1 DEF OnceInv, name
  <2>7. \A j, k \in DOMAIN instances : Given(j) = Given(k) => j = k
    BY DEF OnceInv
  <2>8. \A j, k \in DOMAIN instances :
          j < k /\ R!Named(doc[Given(j)]) = R!Named(doc[Given(k)]) => Given(j) < Given(k)
    BY DEF OnceInv
  <2>9. \A j \in DOMAIN instances, i \in DOMAIN o : Given(j) # o[i]
    BY <2>4
  <2> QED  BY <1>0, <1>1, <2>1, <2>2, <2>4, <2>5, <2>6, <2>7, <2>8, <2>9 DEF OnceInv
<1> QED  BY <1>2, <1>3

\* A section goes from those to be instantiated to those that are.
LEMMA OnceAddSection ==
  ASSUME LoadType, OnceInv, NEW ok, R!AddSection(ok) PROVE OnceInv'
<1> DEFINE h == Head(sections)
           e == [section |-> h, filtered |-> R!Filtered(h)]
<1>0. /\ load = "loading" /\ sections # <<>>
      /\ UNCHANGED <<doc, key, processed>>
      /\ sections \in Seq(DOMAIN doc) /\ instances \in Seq([section : DOMAIN doc, filtered : BOOLEAN])
      /\ DOMAIN doc = 1..Len(doc)
  BY DocType DEF R!AddSection, LoadType
<1>1. CASE R!SectionFails(h, ok)
  <2>1. UNCHANGED <<sections, instances>> /\ load' = "error"
    BY <1>1 DEF R!AddSection
  <2> QED  BY <1>0, <2>1 DEF OnceInv, Given
<1>2. CASE ~R!SectionFails(h, ok)
  <2>1. sections' = Tail(sections) /\ instances' = Append(instances, e) /\ load' = load
    BY <1>2 DEF R!AddSection
  <2>2. /\ 1 \in DOMAIN sections /\ h = sections[1]
        /\ \A i \in DOMAIN sections' :
              i \in Nat /\ i + 1 \in DOMAIN sections /\ sections'[i] = sections[i + 1]
        /\ \A i \in DOMAIN sections :
              i = 1 \/ (i - 1 \in DOMAIN sections' /\ sections'[i - 1] = sections[i])
    BY <1>0, <2>1, TailAt
  <2>3. e \in [section : DOMAIN doc, filtered : BOOLEAN]
    <3>1. h \in DOMAIN doc
      BY <1>0, <2>2
    <3>2. R!Filtered(h) \in BOOLEAN
      BY DEF R!Filtered
    <3> QED  BY <3>1, <3>2
  <2>3a. PICK n : n = Len(instances)
    OBVIOUS
  <2>4. /\ n \in Nat /\ DOMAIN instances = 1..n /\ DOMAIN instances' = 1..(n + 1)
        /\ \A j \in DOMAIN instances :
              j \in DOMAIN instances' /\ instances'[j] = instances[j] /\ j < n + 1
        /\ instances'[n + 1] = e
        /\ \A j \in DOMAIN instances' : j \in DOMAIN instances \/ j = n + 1
    <3> HIDE DEF e
    <3> QED  BY <1>0, <2>1, <2>3, <2>3a, AppendAt
  <2>5. /\ \A j \in DOMAIN instances : Given(j)' = Given(j) /\ Given(j) \in Int
        /\ Given(n + 1)' = sections[1] /\ sections[1] \in Int
    <3>1. /\ \A j \in DOMAIN instances : instances[j].section \in DOMAIN doc
          /\ \A i \in DOMAIN sections : sections[i] \in DOMAIN doc
      BY <1>0, GivenType DEF Given
    <3>2. \A j \in DOMAIN instances : Given(j)' = Given(j)
      BY <2>4 DEF Given
    <3>3. Given(n + 1)' = h
      BY <2>4 DEF Given
    <3> QED  BY <1>0, <2>2, <3>1, <3>2, <3>3 DEF Given
  <2> HIDE DEF e, h
  <2>6. \A i \in DOMAIN sections : sections[i] \in Int
    BY <1>0
  <2>7. \A i \in DOMAIN sections' : sections[1] < sections'[i] /\ sections'[i] \in Int
    <3> SUFFICES ASSUME NEW i \in DOMAIN sections' PROVE sections[1] < sections'[i] /\ sections'[i] \in Int
      OBVIOUS
    <3>1. 1 \in DOMAIN sections /\ i + 1 \in DOMAIN sections /\ 1 < i + 1 /\ sections'[i] = sections[i + 1]
      <4>1. i \in Nat /\ i + 1 \in DOMAIN sections /\ sections'[i] = sections[i + 1]
        BY <2>2
      <4>2. i # 0
        BY <1>0, <4>1, <2>1
      <4> QED  BY <2>2, <4>1, <4>2
    <3> QED  BY <2>6, <3>1 DEF OnceInv
  <2>8. \A j, k \in DOMAIN instances' : Given(j)' = Given(k)' => j = k
    <3>1. \A j \in DOMAIN instances : Given(j) # sections[1]
      BY <2>2 DEF OnceInv
    <3>2. \A j, k \in DOMAIN instances : Given(j) = Given(k) => j = k
      BY DEF OnceInv
    <3> QED  BY <2>4, <2>5, <3>1, <3>2
  <2>9. \A j \in DOMAIN instances', i \in DOMAIN sections' : Given(j)' # sections'[i]
    <3>1. \A j \in DOMAIN instances, i \in DOMAIN sections' : Given(j) # sections'[i]
      BY <2>2 DEF OnceInv
    <3>2. \A i \in DOMAIN sections' : sections[1] # sections'[i]
      BY <2>5, <2>7
    <3> QED  BY <2>4, <2>5, <3>1, <3>2
  <2>10. \A i, j \in DOMAIN sections' : i < j => sections'[i] < sections'[j]
    BY <2>2 DEF OnceInv
  <2>11. \A x \in DOMAIN doc :
           R!Named(doc[x]) \in processed <=>
               \/ \E j \in DOMAIN instances' : Given(j)' = x
               \/ \E i \in DOMAIN sections' : sections'[i] = x
    <3> SUFFICES ASSUME NEW x \in DOMAIN doc
                 PROVE  \/ \E j \in DOMAIN instances : Given(j) = x
                        \/ \E i \in DOMAIN sections : sections[i] = x
                        <=>
                        \/ \E j \in DOMAIN instances' : Given(j)' = x
                        \/ \E i \in DOMAIN sections' : sections'[i] = x
      BY DEF OnceInv
    <3>1. (\E j \in DOMAIN instances' : Given(j)' = x)
             <=> (\E j \in DOMAIN instances : Given(j) = x) \/ sections[1] = x
      <4>1. n + 1 \in DOMAIN instances'
        BY <2>4
      <4> QED  BY <2>4, <2>5, <4>1
    <3>2. (\E i \in DOMAIN sections : sections[i] = x)
             <=> (\E i \in DOMAIN sections' : sections'[i] = x) \/ sections[1] = x
      BY <2>2
    <3> QED  BY <3>1, <3>2
  <2>12. ASSUME NEW j \in DOMAIN instances', NEW k \in DOMAIN instances', j < k,
                R!Named(doc[Given(j)'])  = R!Named(doc[Given(k)'])
         PROVE  Given(j)' < Given(k)'
    <3>1. j \in DOMAIN instances
      BY <2>4, <2>12
    <3>2. CASE k \in DOMAIN instances
      BY <2>5, <2>12, <3>1, <3>2 DEF OnceInv
    <3>3. CASE k = n + 1
      BY <2>2, <2>5, <2>12, <3>1, <3>3 DEF OnceInv
    <3> QED  BY <2>4, <3>2, <3>3
  <2>13. ASSUME NEW j \in DOMAIN instances', NEW i \in DOMAIN sections',
                R!Named(doc[Given(j)']) = R!Named(doc[sections'[i]])
         PROVE  Given(j)' < sections'[i]
    <3>1. CASE j \in DOMAIN instances
      BY <2>2, <2>5, <2>13, <3>1 DEF OnceInv
    <3>2. CASE j = n + 1
      BY <2>5, <2>7, <3>2
    <3> QED  BY <2>4, <3>1, <3>2
  <2>14. \A x \in DOMAIN doc : x < key /\ R!Plugin(doc[x]) => R!Named(doc[x]) \in processed
    BY DEF OnceInv
  <2>15. /\ doc' = doc /\ key' = key /\ processed' = processed /\ load' # "ok"
    BY <1>0, <2>1
  <2> QED  BY <2>8, <2>9, <2>10, <2>11, <2>12, <2>13, <2>14, <2>15 DEF OnceInv
<1> QED  BY <1>1, <1>2

\* LoadConfig keeps it.
LEMMA OnceStep ==
  ASSUME LoadType, OnceInv, LoadingStep \/ UNCHANGED loading
  PROVE  OnceInv'
<1>1. CASE R!NextKey
  BY <1>1, OnceNextKey
<1>2. CASE R!UnknownName \/ R!NotAnArray
  BY <1>2 DEF R!UnknownName, R!NotAnArray, OnceInv, Given
<1>3. CASE R!Loaded
  BY <1>3 DEF R!Loaded, OnceInv, Given
<1>4. ASSUME NEW ok \in BOOLEAN, R!AddSection(ok) PROVE OnceInv'
  BY <1>4, OnceAddSection
<1>5. CASE UNCHANGED loading
  BY <1>5 DEF loading, OnceInv, Given
<1> QED  BY <1>1, <1>2, <1>3, <1>4, <1>5 DEF LoadingStep

-----------------------------------------------------------------------------
(* The names *)

OfKind(kind) == {j \in DOMAIN instances : doc[Given(j)].kind = kind}

\* The names of the instances of a kind, in the order they were given.
Names(kind) ==
    LET of == Select(instances, OfKind(kind))
    IN  [j \in DOMAIN of |-> doc[of[j].section].name]

\* What NamesTold says, before a step and after it.
LEMMA NamesToldIs ==
  /\ R!NamesTold <=> inputs = Names("input") /\ outputs = Names("output")
  /\ R!NamesTold' <=> inputs' = Names("input")' /\ outputs' = Names("output")'
<1>1. R!NamesTold <=> inputs = Names("input") /\ outputs = Names("output")
  BY RegistrySelects, ZenonT(60) DEF R!NamesTold, Names, OfKind, Given
<1>2. R!NamesTold' <=> inputs' = Names("input")' /\ outputs' = Names("output")'
  BY RegistrySelects, ZenonT(60) DEF R!NamesTold, Names, OfKind, Given
<1> QED  BY <1>1, <1>2, Zenon

\* A new instance adds its name to those of its kind, and to no others.
LEMMA NamesGrow ==
  ASSUME LoadType, NEW e \in [section : DOMAIN doc, filtered : BOOLEAN],
         instances' = Append(instances, e), doc' = doc, NEW kind
  PROVE  Names(kind)' = IF doc[e.section].kind = kind
                        THEN Append(Names(kind), doc[e.section].name) ELSE Names(kind)
<1> DEFINE T == [section : DOMAIN doc, filtered : BOOLEAN]
<1>1. instances \in Seq(T) /\ e \in T
  BY DEF LoadType
<1> HIDE DEF T
<1>2. PICK n : n = Len(instances)
  OBVIOUS
<1>3. /\ n \in Nat /\ DOMAIN instances = 1..n /\ DOMAIN instances' = 1..(n + 1)
      /\ \A j \in DOMAIN instances :
            j \in DOMAIN instances' /\ instances'[j] = instances[j] /\ j < n + 1
      /\ instances'[n + 1] = e
      /\ \A j \in DOMAIN instances' : j \in DOMAIN instances \/ j = n + 1
  BY <1>1, <1>2, AppendAt
<1> DEFINE P == OfKind(kind)
<1>4. P \in SUBSET (DOMAIN instances) /\ instances' \in Seq(T)
  BY <1>1 DEF OfKind
<1>5. OfKind(kind)' = IF doc[e.section].kind = kind THEN P \cup {n + 1} ELSE P
  <2>1. OfKind(kind)' = {j \in 1..(n + 1) : doc[instances'[j].section].kind = kind}
    BY <1>3 DEF OfKind, Given
  <2>2. P = {j \in 1..n : doc[instances'[j].section].kind = kind}
    BY <1>3 DEF OfKind, Given
  <2>3. instances'[n + 1].section = e.section /\ 1..(n + 1) = (1..n) \cup {n + 1}
    BY <1>3
  <2> HIDE DEF P
  <2> QED  BY <2>1, <2>2, <2>3
<1>6. Select(instances', P) = Select(instances, P)
  BY <1>1, <1>4, SelectOfAppend
<1>7. Select(instances, P) \in Seq(T)
  BY <1>1, <1>4, SelectElems
<1> DEFINE of == Select(instances, P)
           name(x) == doc[x.section].name
<1>8. Names(kind) = [j \in DOMAIN of |-> name(of[j])]
  BY SMTT(60) DEF Names
<1>9. CASE doc[e.section].kind = kind
  <2>1. Names(kind)' = LET a == Select(instances', P \cup {n + 1}) IN [j \in DOMAIN a |-> name(a[j])]
    BY <1>5, <1>9 DEF Names
  <2>2. Select(instances', P \cup {n + 1}) = Append(of, e)
    <3> HIDE DEF P
    <3>1. P \in SUBSET (DOMAIN instances') /\ n + 1 \in DOMAIN instances' /\ \A x \in P : x < n + 1
      BY <1>3, <1>4
    <3>2. Select(instances', P \cup {n + 1}) = Append(Select(instances', P), instances'[n + 1])
      BY <1>4, <3>1, SelectNext
    <3> QED  BY <1>3, <1>6, <3>2
  <2> HIDE DEF of, P, name
  <2>3. [j \in DOMAIN Append(of, e) |-> name(Append(of, e)[j])]
           = Append([j \in DOMAIN of |-> name(of[j])], name(e))
    <3>1. DOMAIN of = 1..Len(of) /\ Len(of) \in Nat /\ of \in Seq(T)
      BY <1>7 DEF of
    <3> QED  BY <1>1, <3>1
  <2> QED  BY <1>8, <1>9, <2>1, <2>2, <2>3 DEF name
<1>10. CASE doc[e.section].kind # kind
  BY <1>5, <1>6, <1>10 DEF Names
<1> QED  BY <1>9, <1>10

\* LoadConfig keeps NamesTold: it asks the instance whether it is an Input, and
\* the type registered under the name of a section is of the section's kind.
LEMMA NamesStep ==
  ASSUME LoadType, OnceInv, R!NamesTold, LoadingStep \/ UNCHANGED loading
  PROVE  R!NamesTold'
<1>1. CASE UNCHANGED <<doc, instances, inputs, outputs>>
  <2>1. \A kind : Names(kind)' = Names(kind)
    BY <1>1 DEF Names, OfKind, Given
  <2> QED  BY <1>1, <2>1, NamesToldIs
<1>2. ASSUME NEW ok \in BOOLEAN, R!AddSection(ok), ~UNCHANGED <<doc, instances, inputs, outputs>>
      PROVE  R!NamesTold'
  <2> DEFINE h == Head(sections)
             e == [section |-> h, filtered |-> R!Filtered(h)]
  <2>1. /\ instances' = Append(instances, e) /\ doc' = doc
        /\ IF R!IsInput(h)
           THEN inputs' = Append(inputs, doc[h].name) /\ UNCHANGED outputs
           ELSE outputs' = Append(outputs, doc[h].name) /\ UNCHANGED inputs
        /\ sections # <<>>
    BY <1>2 DEF R!AddSection
  <2>2. 1 \in DOMAIN sections /\ h = sections[1] /\ h \in DOMAIN doc
    <3>1. sections \in Seq(DOMAIN doc)
      BY DEF LoadType
    <3> QED  BY <2>1, <3>1
  <2>3. R!Named(doc[h]) \in R!Registered
    BY <2>2 DEF OnceInv, LoadType
  <2>4. doc[h].kind \in {"input", "output"} /\ (R!IsInput(h) <=> doc[h].kind = "input")
    <3>1. R!Named(doc[h])[1] = doc[h].kind
      BY DEF R!Named
    <3> QED  BY <2>3, <3>1, KindsAgree DEF R!IsInput
  <2>5. e \in [section : DOMAIN doc, filtered : BOOLEAN] /\ e.section = h
    BY <2>2 DEF R!Filtered
  <2> HIDE DEF e
  <2>6. \A kind : Names(kind)' = IF doc[h].kind = kind THEN Append(Names(kind), doc[h].name)
                                 ELSE Names(kind)
    BY <2>1, <2>5, NamesGrow
  <2>7. inputs = Names("input") /\ outputs = Names("output")
    BY NamesToldIs
  <2>8. inputs' = Names("input")' /\ outputs' = Names("output")'
    BY <2>1, <2>4, <2>6, <2>7
  <2> QED  BY <2>8, NamesToldIs
<1>3. CASE R!NextKey \/ R!UnknownName \/ R!NotAnArray \/ R!Loaded
  BY <1>1, <1>3 DEF R!NextKey, R!UnknownName, R!NotAnArray, R!Loaded
<1>4. CASE UNCHANGED loading
  BY <1>1, <1>4 DEF loading
<1> QED  BY <1>1, <1>2, <1>3, <1>4 DEF LoadingStep

-----------------------------------------------------------------------------
(* LoadConfig *)

LoadInv == LoadType /\ OnceInv /\ R!NamesTold

\* LoadConfig begins with the document.
LEMMA LoadInit == R!Init => LoadInv
<1> SUFFICES ASSUME R!Init PROVE LoadInv
  OBVIOUS
<1> USE DEF R!Init
<1>1. LoadType
  BY DocType DEF LoadType
<1>2. OnceInv
  BY DocType DEF OnceInv
<1>3. R!NamesTold
  <2>1. \A kind : OfKind(kind) = {}
    BY DEF OfKind
  <2>2. \A kind : Names(kind) = <<>>
    BY <2>1, SelectNone DEF Names
  <2> QED  BY <2>2, NamesToldIs
<1> QED  BY <1>1, <1>2, <1>3 DEF LoadInv

\* LoadInv holds of every state of the daemon.
THEOREM LoadingHolds == Spec => []LoadInv
<1>1. Init => LoadInv
  BY LoadInit DEF Init
<1>2. LoadInv /\ [Next]_vars => LoadInv'
  BY LoadTypeStep, OnceStep, NamesStep, LoadingStepKinds DEF LoadInv
<1> QED  BY <1>1, <1>2, PTL DEF Spec

\* NamesTold: the names LoadConfig returns are those of the instances that the
\* collector has, in their order, also when it fails half way.
THEOREM NamesAreTold == Spec => []NamesTold
  BY LoadingHolds, PTL DEF LoadInv, NamesTold

\* EachSectionOnce: a configuration that loads is given to the collector with one
\* instance of each section, and those of a name in the order of the document.
THEOREM LoadsEachOnce == Spec => []EachSectionOnce
<1>1. LoadInv => EachSectionOnce
  <2> SUFFICES ASSUME LoadInv, load = "ok" PROVE EachSectionOnce
    BY DEF EachSectionOnce, R!EachSectionOnce
  <2> DEFINE given == [j \in DOMAIN instances |-> instances[j].section]
  <2>1. /\ DOMAIN given = DOMAIN instances /\ \A j \in DOMAIN instances : given[j] = Given(j)
        /\ \A j \in DOMAIN instances : Given(j) \in DOMAIN doc
    BY GivenType DEF LoadInv, LoadType, Given
  <2>2. sections = <<>> /\ \A x \in DOMAIN doc : x < key
    <3>1. doc \in Documents /\ key > Len(doc) /\ key \in 1..(Len(doc) + 1) /\ sections = <<>>
      BY DEF LoadInv, LoadType, OnceInv
    <3> QED  BY <3>1, DocType
  <2>3. \A x \in DOMAIN doc : R!Plugin(doc[x]) <=> \E j \in DOMAIN instances : Given(j) = x
    <3>1. \A x \in DOMAIN doc :
             R!Named(doc[x]) \in processed <=> \E j \in DOMAIN instances : Given(j) = x
      BY <2>2 DEF LoadInv, OnceInv
    <3>2. \A x \in DOMAIN doc : R!Plugin(doc[x]) => R!Named(doc[x]) \in processed
      BY <2>2 DEF LoadInv, OnceInv
    <3>3. ASSUME NEW x \in DOMAIN doc, R!Named(doc[x]) \in processed PROVE R!Plugin(doc[x])
      <4>1. R!Named(doc[x]) \in R!Registered /\ R!Named(doc[x])[1] = doc[x].kind
        BY <3>3 DEF LoadInv, LoadType, R!Named
      <4> QED  BY <4>1, KindsAgree DEF R!Plugin
    <3> QED  BY <3>1, <3>2, <3>3
  <2>4. R!IsInjective(given)
    BY <2>1 DEF R!IsInjective, LoadInv, OnceInv
  <2>5. R!Range(given) = {i \in DOMAIN doc : R!Plugin(doc[i])}
    <3> HIDE DEF given
    <3> QED  BY <2>1, <2>3 DEF R!Range
  <2>6. \A j, k \in DOMAIN given :
           j < k /\ R!Named(doc[given[j]]) = R!Named(doc[given[k]]) => given[j] < given[k]
    BY <2>1 DEF LoadInv, OnceInv
  <2> HIDE DEF given
  <2> QED  BY <2>4, <2>5, <2>6 DEF EachSectionOnce, R!EachSectionOnce, given
<1> QED  BY <1>1, LoadingHolds, PTL

=============================================================================
