------------------------------ MODULE Registry ------------------------------
(***************************************************************************)
(* The registry of inputs and outputs and LoadConfig                       *)
(* (registry/registry.go): each package registers its type before main     *)
(* runs, and the sections of a TOML document become instances of these     *)
(* types that are given to the collector, one after the other.             *)
(*                                                                         *)
(* A document is the sequence of its section headers with two keys, in the *)
(* order of meta.Keys(); an array table such as [[input.cpu]] is one entry *)
(* for each time it is written.                                            *)
(***************************************************************************)
EXTENDS Integers, SequencesExt, Selections

CONSTANTS
    Types,       \* the calls of Register, in the order of the packages
    Documents    \* documents that the configuration may be

VARIABLES
    doc,        \* the document
    key,        \* the position in meta.Keys()
    processed,  \* processedNames, as <<kind, name>>
    sections,   \* positions of the sections of a name still to be instantiated
    instances,  \* what the collector was given: [section, filtered]
    inputs,     \* the names that LoadConfig returns
    outputs,
    load        \* "loading", and what LoadConfig did: "ok", "error" or "panic"

vars == <<doc, key, processed, sections, instances, inputs, outputs, load>>

\* array tells [[kind.name]] from [kind.name]; filter is what the section's
\* filter holds; valid says that its other keys decode.
Section == [kind : STRING, name : STRING, array : BOOLEAN, valid : BOOLEAN,
            filter : {"none", "empty", "patterns", "malformed"}]

Named(s) == <<s.kind, s.name>>

\* external: what toml.Decode accepts.  A table is written once, and a name
\* is an array or a table.
WellFormed(d) ==
    \A i, j \in DOMAIN d :
        i # j /\ Named(d[i]) = Named(d[j]) => d[i].array /\ d[j].array

\* What Register is given: a name, which no package writes with its kind in
\* front, and a type with the interfaces it implements.
Type == [name : STRING, input : BOOLEAN, output : BOOLEAN]

RegistryAssumption ==
    /\ Types \in Seq(Type)
    /\ \A d \in Documents : d \in Seq(Section) /\ WellFormed(d)

\* An Input is registered as one, also when it is an Output too.
KindOf(t) == IF t.input THEN "input" ELSE "output"

\* The calls of Register with a type of one of the interfaces, under the name k.
\* A type of neither is refused; the init functions drop the error.
Register(k) ==
    {i \in DOMAIN Types : LET t == Types[i] IN
        (t.input \/ t.output) /\ <<KindOf(t), t.name>> = k}

Registered == {k \in {"input", "output"} \X {t.name : t \in Range(Types)} : Register(k) # {}}

\* A second type of a name is refused.
registry == [k \in Registered |-> Types[Min(Register(k))]]

Init ==
    /\ doc \in Documents
    /\ key = 1
    /\ processed = {}
    /\ sections = <<>>
    /\ instances = <<>>
    /\ inputs = <<>>
    /\ outputs = <<>>
    /\ load = "loading"

-----------------------------------------------------------------------------
AtKey == load = "loading" /\ sections = <<>> /\ key <= Len(doc)
Plugin(s) == s.kind \in {"input", "output"}

\* Faulty variant: the names that were processed are not looked up.
SectionsOfEach(s) ==
    Ordered({i \in DOMAIN doc : Named(doc[i]) = Named(s)})

\* cfg[kind][name]: all the sections of a name, in the order of the document.
SectionsOf(s) ==
    IF Named(s) \in processed THEN <<>>
    ELSE Ordered({i \in DOMAIN doc : Named(doc[i]) = Named(s)})

\* A key of another kind, or of a name that was processed, is passed over; the
\* first key of a name starts all its sections.
NextKey ==
    /\ AtKey
    /\ ~Plugin(doc[key]) \/ Named(doc[key]) \in Registered
    /\ Plugin(doc[key]) /\ Named(doc[key]) \notin processed => doc[key].array
    /\ key' = key + 1
    /\ IF Plugin(doc[key])
       THEN /\ sections' = SectionsOf(doc[key])
            /\ processed' = processed \cup {Named(doc[key])}
       ELSE UNCHANGED <<sections, processed>>
    /\ UNCHANGED <<doc, instances, inputs, outputs, load>>

UnknownName ==
    /\ AtKey
    /\ Plugin(doc[key]) /\ Named(doc[key]) \notin Registered
    /\ load' = "error"
    /\ UNCHANGED <<doc, key, processed, sections, instances, inputs, outputs>>

\* [kind.name] in place of [[kind.name]]: the type assertion panics.
NotAnArray ==
    /\ AtKey
    /\ Plugin(doc[key]) /\ Named(doc[key]) \in Registered \ processed
    /\ ~doc[key].array
    /\ load' = "panic"
    /\ UNCHANGED <<doc, key, processed, sections, instances, inputs, outputs>>

\* compileFilter: a section without patterns has no filter.
Filtered(i) == doc[i].filter = "patterns"

SectionFails(i, initOk) ==
    ~doc[i].valid \/ doc[i].filter = "malformed" \/ ~initOk

\* AddSection asks the instance, and not the section, what it is.
IsInput(i) == registry[Named(doc[i])].input

\* Faulty variant: the name is returned although AddInput failed.
AddSectionNamed(initOk) ==
    /\ load = "loading" /\ sections # <<>>
    /\ inputs' = IF IsInput(Head(sections))
                 THEN Append(inputs, doc[Head(sections)].name) ELSE inputs
    /\ IF SectionFails(Head(sections), initOk)
       THEN load' = "error" /\ UNCHANGED <<sections, instances>>
       ELSE /\ sections' = Tail(sections)
            /\ instances' = Append(instances,
                  [section |-> Head(sections), filtered |-> Filtered(Head(sections))])
            /\ UNCHANGED load
    /\ UNCHANGED <<doc, key, processed, outputs>>

\* Faulty variant: a section that fails is passed over.
AddSectionOrSkip(initOk) ==
    /\ load = "loading" /\ sections # <<>>
    /\ sections' = Tail(sections)
    /\ LET i == Head(sections) IN
       IF SectionFails(i, initOk)
       THEN UNCHANGED <<instances, inputs, outputs>>
       ELSE /\ instances' = Append(instances, [section |-> i, filtered |-> Filtered(i)])
            /\ IF IsInput(i)
               THEN inputs' = Append(inputs, doc[i].name) /\ UNCHANGED outputs
               ELSE outputs' = Append(outputs, doc[i].name) /\ UNCHANGED inputs
    /\ UNCHANGED <<doc, key, processed, load>>

\* One section: decode it, compile its filter, and give it to AddInput or
\* AddOutput (external), which calls its Init.  The first failure ends
\* LoadConfig; what was added before stays with the collector.
AddSection(initOk) ==
    /\ load = "loading" /\ sections # <<>>
    /\ LET i == Head(sections) IN
       IF SectionFails(i, initOk)
       THEN /\ load' = "error"
            /\ UNCHANGED <<sections, instances, inputs, outputs>>
       ELSE /\ sections' = Tail(sections)
            /\ instances' = Append(instances, [section |-> i, filtered |-> Filtered(i)])
            /\ IF IsInput(i)
               THEN inputs' = Append(inputs, doc[i].name) /\ UNCHANGED outputs
               ELSE outputs' = Append(outputs, doc[i].name) /\ UNCHANGED inputs
            /\ UNCHANGED load
    /\ UNCHANGED <<doc, key, processed>>

Loaded ==
    /\ load = "loading" /\ sections = <<>> /\ key > Len(doc)
    /\ load' = "ok"
    /\ UNCHANGED <<doc, key, processed, sections, instances, inputs, outputs>>

Next ==
    \/ NextKey \/ UnknownName \/ NotAnArray \/ Loaded
    \/ \E initOk \in BOOLEAN : AddSection(initOk)

Spec == Init /\ [][Next]_vars

-----------------------------------------------------------------------------
(* Properties *)

TypeOK ==
    /\ doc \in Seq(Section)
    /\ key \in 1..(Len(doc) + 1)
    /\ processed \subseteq Registered
    /\ sections \in Seq(DOMAIN doc)
    /\ instances \in Seq([section : DOMAIN doc, filtered : BOOLEAN])
    /\ inputs \in Seq(STRING) /\ outputs \in Seq(STRING)
    /\ load \in {"loading", "ok", "error", "panic"}

\* A configuration that loads gives the collector one instance of each input
\* and output section, however the sections of different names are mixed, and
\* those of one name in the order of the document.
EachSectionOnce ==
    load = "ok" =>
        LET given == [j \in DOMAIN instances |-> instances[j].section]
        IN  /\ IsInjective(given)
            /\ Range(given) = {i \in DOMAIN doc : Plugin(doc[i])}
            /\ \A j, k \in DOMAIN given :
                  j < k /\ Named(doc[given[j]]) = Named(doc[given[k]])
                      => given[j] < given[k]

\* The names LoadConfig returns are those of the instances the collector has,
\* in the same order, also when it fails half way: HasInput (main.go), which
\* chooses the panels of the dashboard, tells what is really gathered.
NamesTold ==
    LET names(kind) ==
          LET of == Select(instances, {j \in DOMAIN instances :
                                          doc[instances[j].section].kind = kind})
          IN  [j \in DOMAIN of |-> doc[of[j].section].name]
    IN  inputs = names("input") /\ outputs = names("output")

=============================================================================
