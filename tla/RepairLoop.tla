---------------------------- MODULE RepairLoop -----------------------------
(* The repair loop: the agent has a build compiled by the MCP server's tools *)
(* compile_build, detect_errors and repair_build, carries fixes out, and     *)
(* asks again. The customer may change the build in between. The server     *)
(* keeps nothing between calls: what is found and planned is the agent's.   *)
EXTENDS BuildCompiler

CONSTANTS Starts,       \* the builds a conversation may begin with
          Offers,       \* components the customer may take
          MaxMoves      \* how often the customer changes the build

ASSUME StartsAreBuilds == \A b \in Starts : IsBuild(b)
ASSUME OffersAreComponents == \A c \in Offers : IsComponent(c)
ASSUME IdsAreTheirOwn ==
    \A c \in Offers : /\ c.id \notin Types
                      /\ \A d \in Offers : c.id = d.id => c = d
                      /\ \A b \in Starts : c.id \notin Ids(b)
ASSUME StartIdsAreNoTypes == \A b \in Starts : Ids(b) \cap Types = {}
ASSUME MaxMovesIsNat == MaxMoves \in Nat

VARIABLES
    build,      \* the build in the tab, as the agent knows it
    errors,     \* what compile_build or detect_errors last returned
    plan,       \* finding |-> fixes, for the findings that are still to be repaired
    repaired,   \* findings repaired since errors were detected
    current,    \* no change but the agent's own since errors were detected
    moves

vars == <<build, errors, plan, repaired, current, moves>>

Init ==
    /\ build \in Starts
    /\ errors = {} /\ plan = [f \in {} |-> <<>>] /\ repaired = {}
    /\ current = FALSE /\ moves = 0

Detected ==
    /\ errors' = Validate(build)
    /\ repaired' = {} /\ current' = TRUE
    /\ UNCHANGED <<build, moves>>

CompileBuild == Detected /\ plan' = RepairBuild(build, errors')

DetectErrors == Detected /\ plan' = [f \in {} |-> <<>>]

\* repair_build with errors found earlier: it turns down a list that names a component
\* which is not in the build any more.
RepairTool ==
    /\ repaired = {}
    /\ plan' = IF \A f \in errors : Range(f.refs) \subseteq Ids(build)
               THEN RepairBuild(build, errors) ELSE [f \in {} |-> <<>>]
    /\ UNCHANGED <<build, errors, repaired, current, moves>>

\* Mutant: a part is added to a slot that was filled in the meantime.
ApplyToTakenSlot ==
    \E f \in DOMAIN plan : \E i \in DOMAIN plan[f] :
        /\ build' = Apply(build, plan[f][i])
        /\ plan' = [g \in DOMAIN plan \ {f} |-> plan[g]]
        /\ repaired' = repaired \cup {f}
        /\ UNCHANGED <<errors, current, moves>>

Codes == {"E001", "E002", "E003", "E004", "E005", "E006", "W001"}

\* The agent carries out one fix of one finding; it adds nothing to a slot that is taken.
ApplyFixFor(code) ==
    \E f \in DOMAIN plan : \E i \in DOMAIN plan[f] :
        /\ f.code = code
        /\ plan[f][i].attribute = "type" => Of(build, plan[f][i].value) = {}
        /\ build' = Apply(build, plan[f][i])
        /\ plan' = [g \in DOMAIN plan \ {f} |-> plan[g]]
        /\ repaired' = repaired \cup {f}
        /\ UNCHANGED <<errors, current, moves>>

ApplyFix == \E code \in Codes : ApplyFixFor(code)

\* The customer takes a component out, or an offer in the place of what has its slot.
CustomerMoves ==
    /\ moves < MaxMoves
    /\ \/ \E c \in build : build' = build \ {c}
       \/ \E c \in Offers : /\ c.id \notin Ids(build)
                            /\ build' = {d \in build : d.type # c.type} \cup {c}
    /\ current' = FALSE /\ moves' = moves + 1
    /\ UNCHANGED <<errors, plan, repaired>>

Next == CompileBuild \/ DetectErrors \/ RepairTool \/ ApplyFix \/ CustomerMoves

Spec == Init /\ [][Next]_vars

\* An agent that goes on asking, and that sooner or later sees to each kind of finding for
\* which it is offered fixes again and again.
LiveSpec == Spec /\ WF_vars(CompileBuild) /\ \A code \in Codes : SF_vars(ApplyFixFor(code))

-----------------------------------------------------------------------------
(* Properties *)

\* The build stays one with distinct ids and one component in a slot, whatever is
\* repaired; plans and repairs are about findings that were reported (compile_build).
RepairTypeOK ==
    /\ IsBuild(build) /\ Ids(build) \subseteq Types \cup UNION {Ids(b) : b \in Starts \cup {Offers}}
    /\ DOMAIN plan \subseteq errors /\ repaired \subseteq errors /\ repaired \cap DOMAIN plan = {}
    /\ current \in BOOLEAN /\ moves \in 0 .. MaxMoves

Has(c, attributes) == attributes \subseteq DOMAIN c.attr

\* What the rules are there for (FR-001 to FR-006 of specs/001-build-compiler-core): all
\* parts are there, each says what is needed to judge it, and they go together.
Compatible(b) ==
    /\ \A t \in Required : \E c \in b : c.type = t
    /\ \A cpu \in Of(b, "cpu"), mb \in Of(b, "mainboard") :
          /\ \A c \in {cpu, mb} : Has(c, {"socket", "ram_gen_supported"})
          /\ cpu.attr["socket"] = mb.attr["socket"]
          /\ \A ram \in Of(b, "ram") : /\ Has(ram, {"generation"})
                                      /\ ram.attr["generation"] \in Range(cpu.attr["ram_gen_supported"])
                                                              \cap Range(mb.attr["ram_gen_supported"])
    /\ \A kase \in Of(b, "case") :
          /\ Has(kase, {"max_cooler_height", "supported_mb_form_factors", "supported_psu_form_factors"})
          /\ \A c \in Of(b, "cooler") : Has(c, {"height"}) /\ c.attr["height"] <= kase.attr["max_cooler_height"]
          /\ \A c \in Of(b, "mainboard") : /\ Has(c, {"form_factor"})
                                          /\ c.attr["form_factor"] \in Range(kase.attr["supported_mb_form_factors"])
          /\ \A c \in Of(b, "psu") : /\ Has(c, {"wattage", "form_factor"})
                                    /\ c.attr["form_factor"] \in Range(kase.attr["supported_psu_form_factors"])

\* A build is reported valid exactly if its parts go together: no rule that gives up on
\* a missing attribute, and none that is not reached, lets a bad build through (is_valid).
ReportIsExact == current /\ repaired = {} => (IsValid(errors) <=> Compatible(build))

\* CPU and mainboard of which no RAM can please both.
NoCommonGen(b) ==
    \E cpu \in Of(b, "cpu"), mb \in Of(b, "mainboard") :
        ~Lacks(cpu, "ram_gen_supported") /\ ~Lacks(mb, "ram_gen_supported") /\ Common(cpu, mb) = {}

\* What was repaired is gone, and stays gone while the rest of the plan is carried out
\* in any order, whichever of its fixes are taken: but for RAM of which CPU and mainboard
\* have no generation in common, for which the repair is in vain every time (repairBuild;
\* EveryFixResolves is what the contract says).
RepairedIsGone ==
    current => \A f \in repaired : f \in Validate(build) <=> f.code = "E002" /\ NoCommonGen(build)

\* Any fix that is offered for a finding resolves it, as contracts/compiler-api.md:128-129
\* promises ("áp dụng bất kỳ fix nào trong `fixes[]` đều giải quyết lỗi"). It does not hold:
\* repairRamGen offers a generation that only one of CPU and mainboard supports.
EveryFixResolves == [][\A f \in DOMAIN plan : current /\ f \in repaired' => f \notin Validate(build')]_vars

\* A fix that changes what is there brings up nothing new: only one that supplies a missing
\* part or attribute can uncover what could not be judged before (repairBuild).
RepairBreaksNothing ==
    [][\A f \in DOMAIN plan :
          current /\ f \in repaired' /\ f.code \notin {"E003", "E006"} => Validate(build') \subseteq Validate(build)]_vars

\* One of the components the finding is about has an empty name, for which the repairs of
\* E001, E002 and E005 may have nothing to offer.
AboutNameless(b, f) ==
    /\ f.code \in {"E001", "E002", "E005"}
    /\ \E c \in b, a \in Labels \cup Lists :
          /\ c.id \in Range(f.refs) /\ ~Lacks(c, a)
          /\ IF a \in Lists THEN "" \in Range(c.attr[a]) ELSE c.attr[a] = ""

\* Repairing gets rid of all that can be repaired, for good: no two repairs undo each other
\* for ever, and the RAM that cannot be helped, whose repair goes on being offered, keeps none
\* of the others from its end. What is left is that RAM, and what has an empty name
\* (repairBuild, compileBuild).
RepairsEnd ==
    <>[](\A f \in Validate(build) : (f.code = "E002" /\ NoCommonGen(build)) \/ AboutNameless(build, f))
=============================================================================
