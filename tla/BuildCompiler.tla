--------------------------- MODULE BuildCompiler ---------------------------
(* The compiler of compatibility rules, packages/compiler/src: what          *)
(* validate() finds in a build and what repairBuild() proposes for it.       *)
(*                                                                           *)
(* A component is [id, type, attr]; attr has those attributes as its domain  *)
(* that are neither undefined nor null. A build is a set of components with  *)
(* one of each type but RAM and storage (IsBuild), which is what the slots *)
(* of a BuildPC page can hold: where a rule takes the first component of a   *)
(* type, the model takes the one there is. Findings are a set; two alike are *)
(* the same one. Messages, names and notes are left out.                     *)
EXTENDS Integers, Sequences, FiniteSets, Functions

CONSTANT Names      \* what sockets, memory generations and form factors are called, "" at times

ASSUME PlaceholdersAreNames == {"AM5", "DDR5", "ATX"} \subseteq Names

Required == {"cpu", "mainboard", "ram", "psu", "cooler", "case", "storage"}
Types == Required \cup {"gpu"}

Labels == {"socket", "generation", "form_factor"}
Lists == {"ram_gen_supported", "supported_mb_form_factors", "supported_psu_form_factors"}
Measures == {"tdp", "wattage", "height", "max_cooler_height"}

IsComponent(c) ==
    /\ c = [id |-> c.id, type |-> c.type, attr |-> [a \in DOMAIN c.attr |-> c.attr[a]]]
    /\ c.type \in Types
    /\ DOMAIN c.attr \subseteq Labels \cup Lists \cup Measures
    /\ \A a \in DOMAIN c.attr : /\ a \in Labels => c.attr[a] \in Names
                                /\ a \in Lists => c.attr[a] \in Seq(Names)
                                /\ a \in Measures => c.attr[a] \in Nat

IsBuild(build) ==
    /\ IsFiniteSet(build)
    /\ \A c \in build : IsComponent(c)
    /\ \A c, d \in build :
          c.id = d.id \/ (c.type = d.type /\ c.type \notin {"ram", "storage"}) => c = d

Of(build, type) == {c \in build : c.type = type}
Ids(build) == {c.id : c \in build}
Lacks(c, a) == a \notin DOMAIN c.attr

-----------------------------------------------------------------------------
(* The rules *)

MissingAttribute(c, a) == [code |-> "E006", refs |-> <<c.id>>, attribute |-> a]

\* The two checkAttr calls a rule begins with: the first miss is all it reports.
Given(c, a, d, b, findings) ==
    IF Lacks(c, a) THEN {MissingAttribute(c, a)}
    ELSE IF Lacks(d, b) THEN {MissingAttribute(d, b)} ELSE findings

CheckMissing(build) ==
    {[code |-> "E003", refs |-> <<>>, missing |-> t] : t \in {t \in Required : Of(build, t) = {}}}

SocketMismatch(cpu, mb) ==
    IF cpu.attr["socket"] # mb.attr["socket"] THEN {[code |-> "E001", refs |-> <<cpu.id, mb.id>>]} ELSE {}

CheckSocket(build) ==
    UNION {Given(cpu, "socket", mb, "socket", SocketMismatch(cpu, mb)) :
              cpu \in Of(build, "cpu"), mb \in Of(build, "mainboard")}

Supports(c, gen) == gen \in Range(c.attr["ram_gen_supported"])

RamMismatch(ram, cpu, mb) ==
    IF Lacks(ram, "generation") THEN {MissingAttribute(ram, "generation")}
    ELSE IF Supports(cpu, ram.attr["generation"]) /\ Supports(mb, ram.attr["generation"]) THEN {}
    ELSE {[code |-> "E002", refs |-> <<ram.id, cpu.id, mb.id>>]}

CheckRamGen(build) ==
    UNION {Given(cpu, "ram_gen_supported", mb, "ram_gen_supported", RamMismatch(ram, cpu, mb)) :
              ram \in Of(build, "ram"), cpu \in Of(build, "cpu"), mb \in Of(build, "mainboard")}

TooHigh(cooler, kase) ==
    IF cooler.attr["height"] > kase.attr["max_cooler_height"]
    THEN {[code |-> "E004", refs |-> <<cooler.id, kase.id>>]} ELSE {}

CheckCooler(build) ==
    UNION {Given(cooler, "height", kase, "max_cooler_height", TooHigh(cooler, kase)) :
              cooler \in Of(build, "cooler"), kase \in Of(build, "case")}

\* The attribute of the case that lists what it takes of a part's type.
ListFor(type) ==
    IF type = "mainboard" THEN "supported_mb_form_factors" ELSE "supported_psu_form_factors"

DoesNotFit(part, kase) ==
    IF part.attr["form_factor"] \in Range(kase.attr[ListFor(part.type)]) THEN {}
    ELSE {[code |-> "E005", refs |-> <<part.id, kase.id>>, component |-> part.type,
           actual |-> part.attr["form_factor"]]}

\* Mutant: the PSU is not held against the case.
BoardsOnly(build) ==
    UNION {Given(part, "form_factor", kase, ListFor(part.type), DoesNotFit(part, kase)) :
              part \in Of(build, "mainboard"), kase \in Of(build, "case")}

CheckFormFactor(build) ==
    UNION {Given(part, "form_factor", kase, ListFor(part.type), DoesNotFit(part, kase)) :
              part \in Of(build, "mainboard") \cup Of(build, "psu"), kase \in Of(build, "case")}

\* The sum of all tdp but the PSU's, as the size of a disjoint union: one element per watt.
Watts(c) == IF Lacks(c, "tdp") THEN {} ELSE {c.id} \X (1 .. c.attr["tdp"])
TdpTotal(build) == Cardinality(UNION {Watts(c) : c \in {c \in build : c.type # "psu"}})

\* Mutant: the repair rounds down.
RoundedDown(total) == (6 * total) \div 5

\* wattage < total * 1.2 (PSU_HEADROOM_RATIO), and the least wattage that is not: Math.ceil.
Tight(wattage, total) == 5 * wattage < 6 * total
Headroom(total) == (6 * total + 4) \div 5

PsuTight(psu, total) ==
    IF Lacks(psu, "wattage") THEN {MissingAttribute(psu, "wattage")}
    ELSE IF Tight(psu.attr["wattage"], total)
         THEN {[code |-> "W001", refs |-> <<psu.id>>, total |-> total]} ELSE {}

CheckPsu(build) == UNION {PsuTight(psu, TdpTotal(build)) : psu \in Of(build, "psu")}

Validate(build) ==
    CheckMissing(build) \cup CheckSocket(build) \cup CheckRamGen(build)
        \cup CheckCooler(build) \cup CheckFormFactor(build) \cup CheckPsu(build)

IsError(f) == f.code # "W001"
IsValid(findings) == \A f \in findings : ~IsError(f)

-----------------------------------------------------------------------------
(* The repairs. Every fix of the code has one change; a fix is that change.  *)
(* All refs of the finding are in the build: compile_build looks for both in *)
(* the same build, and repair_build turns others down (RepairLoop).          *)

Change(id, a, v) == [ref |-> id, attribute |-> a, value |-> v]
ById(build, id) == CHOOSE c \in build : c.id = id

Placeholders ==
    [socket |-> "AM5", ram_gen_supported |-> <<"DDR5">>, generation |-> "DDR5", tdp |-> 1, wattage |-> 1,
     form_factor |-> "ATX", height |-> 1, max_cooler_height |-> 999,
     supported_mb_form_factors |-> <<"ATX">>, supported_psu_form_factors |-> <<"ATX">>]

\* Two fixes, either of which makes the two agree: the first one's attribute, or the second's.
Align(c, a, d, b) ==
    IF Lacks(c, a) \/ Lacks(d, b) THEN <<>>
    ELSE <<Change(c.id, a, d.attr[b]), Change(d.id, b, c.attr[a])>>

\* The socket repair asks for two names, and an empty one counts as none.
Named(c, a) == ~Lacks(c, a) /\ c.attr[a] # ""
RepairSocket(cpu, mb) ==
    IF Named(cpu, "socket") /\ Named(mb, "socket") THEN Align(cpu, "socket", mb, "socket") ELSE <<>>

ListOf(c, a) == IF Lacks(c, a) THEN <<>> ELSE c.attr[a]
Gens(c) == ListOf(c, "ram_gen_supported")

\* The places of the CPU's list that the mainboard supports as well.
Common(cpu, mb) == {i \in DOMAIN Gens(cpu) : Gens(cpu)[i] \in Range(Gens(mb))}

\* Mutant: the repair takes the CPU's first generation, in common or not.
CpusFirst(cpu, mb) == Gens(cpu)

\* The first generation in common; without one the mainboard's first, or else the CPU's.
TargetGens(cpu, mb) ==
    LET first == CHOOSE i \in Common(cpu, mb) : \A j \in Common(cpu, mb) : i <= j
    IN  IF Common(cpu, mb) # {} THEN <<Gens(cpu)[first]>> ELSE Gens(mb) \o Gens(cpu)

RepairRamGen(ram, cpu, mb) ==
    LET target == TargetGens(cpu, mb) IN
    IF target = <<>> \/ Head(target) = "" THEN <<>> ELSE <<Change(ram, "generation", Head(target))>>

\* Mutant: what a mainboard needs ends up in the list of PSUs.
WrongList(f, kase) ==
    <<Change(kase.id, "supported_psu_form_factors", Append(ListOf(kase, ListFor(f.component)), f.actual))>>

RepairFormFactor(f, kase) ==
    LET a == ListFor(f.component)
        supported == ListOf(kase, a)
        ofPart == IF supported = <<>> THEN <<>> ELSE <<Change(f.refs[1], "form_factor", Head(supported))>>
        ofCase == IF f.actual = "" THEN <<>> ELSE <<Change(kase.id, a, Append(supported, f.actual))>>
    IN  ofPart \o ofCase

FixesFor(build, f) ==
    LET c(i) == ById(build, f.refs[i]) IN
    CASE f.code = "E001" -> RepairSocket(c(1), c(2))
      [] f.code = "E002" -> RepairRamGen(f.refs[1], c(2), c(3))
      [] f.code = "E003" -> <<Change(f.missing, "type", f.missing)>>
      [] f.code = "E004" -> Align(c(1), "height", c(2), "max_cooler_height")
      [] f.code = "E005" -> RepairFormFactor(f, c(2))
      [] f.code = "E006" -> <<Change(f.refs[1], f.attribute, Placeholders[f.attribute])>>
      [] OTHER -> <<Change(f.refs[1], "wattage", Headroom(f.total))>>

RepairBuild(build, findings) == [f \in findings |-> FixesFor(build, f)]

\* What carrying out a fix means, as the tests of the package do it.
With(c, fix) ==
    [c EXCEPT !.attr = [a \in DOMAIN c.attr \cup {fix.attribute} |->
                           IF a = fix.attribute THEN fix.value ELSE c.attr[a]]]
Bare(type) == [id |-> type, type |-> type, attr |-> [a \in {} |-> 0]]

Apply(build, fix) ==
    IF fix.attribute = "type" THEN build \cup {Bare(fix.value)}
    ELSE {IF c.id = fix.ref THEN With(c, fix) ELSE c : c \in build}
=============================================================================
