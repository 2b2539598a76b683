-------------------------- MODULE RepairLoopProofs --------------------------
(* Proofs about the compiler and the repair loop, for all builds, offers and *)
(* numbers of moves.                                                         *)
EXTENDS RepairLoop, FiniteSetTheorems, WellFoundedInduction, TLAPS

-----------------------------------------------------------------------------
(* What each rule lets through *)

LEMMA GivenIsValid ==
    ASSUME NEW c, NEW a, NEW d, NEW b, NEW findings
    PROVE  IsValid(Given(c, a, d, b, findings)) <=> ~Lacks(c, a) /\ ~Lacks(d, b) /\ IsValid(findings)
BY DEF IsValid, IsError, Given, MissingAttribute

LEMMA MissingIsValid ==
    ASSUME NEW b
    PROVE  IsValid(CheckMissing(b)) <=> \A t \in Required : \E c \in b : c.type = t
<1> DEFINE miss(t) == [code |-> "E003", refs |-> <<>>, missing |-> t]
           M == {t \in Required : Of(b, t) = {}}
<1>1. CheckMissing(b) = {miss(t) : t \in M}
    BY DEF CheckMissing
<1>2. \A t : IsError(miss(t))
    BY DEF IsError
<1>3. M = {} <=> \A t \in Required : \E c \in b : c.type = t
    BY DEF Of
<1> HIDE DEF miss, M
<1> QED BY <1>1, <1>2, <1>3 DEF IsValid

LEMMA SocketIsValid ==
    ASSUME NEW b
    PROVE  IsValid(CheckSocket(b)) <=>
               \A cpu \in Of(b, "cpu"), mb \in Of(b, "mainboard") :
                   /\ ~Lacks(cpu, "socket") /\ ~Lacks(mb, "socket")
                   /\ cpu.attr["socket"] = mb.attr["socket"]
<1> DEFINE G(cpu, mb) == Given(cpu, "socket", mb, "socket", SocketMismatch(cpu, mb))
<1>1. \A cpu, mb : IsValid(G(cpu, mb)) <=> /\ ~Lacks(cpu, "socket") /\ ~Lacks(mb, "socket")
                                          /\ cpu.attr["socket"] = mb.attr["socket"]
    <2> TAKE cpu, mb
    <2>1. IsValid(SocketMismatch(cpu, mb)) <=> cpu.attr["socket"] = mb.attr["socket"]
        BY DEF SocketMismatch, IsValid, IsError
    <2> QED BY <2>1, GivenIsValid
<1>2. CheckSocket(b) = UNION {G(cpu, mb) : cpu \in Of(b, "cpu"), mb \in Of(b, "mainboard")}
    BY DEF CheckSocket
<1> HIDE DEF G
<1>3. IsValid(CheckSocket(b)) <=> \A cpu \in Of(b, "cpu"), mb \in Of(b, "mainboard") : IsValid(G(cpu, mb))
    BY <1>2 DEF IsValid
<1> QED BY <1>1, <1>3

LEMMA RamGenIsValid ==
    ASSUME NEW b
    PROVE  IsValid(CheckRamGen(b)) <=>
               \A ram \in Of(b, "ram"), cpu \in Of(b, "cpu"), mb \in Of(b, "mainboard") :
                   /\ ~Lacks(cpu, "ram_gen_supported") /\ ~Lacks(mb, "ram_gen_supported")
                   /\ ~Lacks(ram, "generation")
                   /\ Supports(cpu, ram.attr["generation"]) /\ Supports(mb, ram.attr["generation"])
<1> DEFINE G(ram, cpu, mb) ==
               Given(cpu, "ram_gen_supported", mb, "ram_gen_supported", RamMismatch(ram, cpu, mb))
<1>1. \A ram, cpu, mb :
          IsValid(G(ram, cpu, mb)) <=>
              /\ ~Lacks(cpu, "ram_gen_supported") /\ ~Lacks(mb, "ram_gen_supported")
              /\ ~Lacks(ram, "generation")
              /\ Supports(cpu, ram.attr["generation"]) /\ Supports(mb, ram.attr["generation"])
    <2> TAKE ram, cpu, mb
    <2>1. IsValid(RamMismatch(ram, cpu, mb)) <=>
              /\ ~Lacks(ram, "generation")
              /\ Supports(cpu, ram.attr["generation"]) /\ Supports(mb, ram.attr["generation"])
        BY DEF RamMismatch, MissingAttribute, IsValid, IsError
    <2> QED BY <2>1, GivenIsValid
<1>2. CheckRamGen(b) = UNION {G(ram, cpu, mb) :
                                  ram \in Of(b, "ram"), cpu \in Of(b, "cpu"), mb \in Of(b, "mainboard")}
    BY DEF CheckRamGen
<1> HIDE DEF G
<1>3. IsValid(CheckRamGen(b)) <=>
          \A ram \in Of(b, "ram"), cpu \in Of(b, "cpu"), mb \in Of(b, "mainboard") : IsValid(G(ram, cpu, mb))
    BY <1>2 DEF IsValid
<1> QED BY <1>1, <1>3

LEMMA CoolerIsValid ==
    ASSUME NEW b
    PROVE  IsValid(CheckCooler(b)) <=>
               \A cooler \in Of(b, "cooler"), kase \in Of(b, "case") :
                   /\ ~Lacks(cooler, "height") /\ ~Lacks(kase, "max_cooler_height")
                   /\ ~(cooler.attr["height"] > kase.attr["max_cooler_height"])
<1> DEFINE G(cooler, kase) == Given(cooler, "height", kase, "max_cooler_height", TooHigh(cooler, kase))
<1>1. \A cooler, kase : IsValid(G(cooler, kase)) <=>
          /\ ~Lacks(cooler, "height") /\ ~Lacks(kase, "max_cooler_height")
          /\ ~(cooler.attr["height"] > kase.attr["max_cooler_height"])
    <2> TAKE cooler, kase
    <2>1. IsValid(TooHigh(cooler, kase)) <=> ~(cooler.attr["height"] > kase.attr["max_cooler_height"])
        BY DEF TooHigh, IsValid, IsError
    <2> QED BY <2>1, GivenIsValid
<1>2. CheckCooler(b) = UNION {G(cooler, kase) : cooler \in Of(b, "cooler"), kase \in Of(b, "case")}
    BY DEF CheckCooler
<1> HIDE DEF G
<1>3. IsValid(CheckCooler(b)) <=>
          \A cooler \in Of(b, "cooler"), kase \in Of(b, "case") : IsValid(G(cooler, kase))
    BY <1>2 DEF IsValid
<1> QED BY <1>1, <1>3

LEMMA FormFactorIsValid ==
    ASSUME NEW b
    PROVE  IsValid(CheckFormFactor(b)) <=>
               \A part \in Of(b, "mainboard") \cup Of(b, "psu"), kase \in Of(b, "case") :
                   /\ ~Lacks(part, "form_factor") /\ ~Lacks(kase, ListFor(part.type))
                   /\ part.attr["form_factor"] \in Range(kase.attr[ListFor(part.type)])
<1> DEFINE G(part, kase) == Given(part, "form_factor", kase, ListFor(part.type), DoesNotFit(part, kase))
<1>1. \A part, kase : IsValid(G(part, kase)) <=>
          /\ ~Lacks(part, "form_factor") /\ ~Lacks(kase, ListFor(part.type))
          /\ part.attr["form_factor"] \in Range(kase.attr[ListFor(part.type)])
    <2> TAKE part, kase
    <2>1. IsValid(DoesNotFit(part, kase)) <=> part.attr["form_factor"] \in Range(kase.attr[ListFor(part.type)])
        BY DEF DoesNotFit, IsValid, IsError
    <2> QED BY <2>1, GivenIsValid
<1>2. CheckFormFactor(b) =
          UNION {G(part, kase) : part \in Of(b, "mainboard") \cup Of(b, "psu"), kase \in Of(b, "case")}
    BY DEF CheckFormFactor
<1> HIDE DEF G
<1>3. IsValid(CheckFormFactor(b)) <=>
          \A part \in Of(b, "mainboard") \cup Of(b, "psu"), kase \in Of(b, "case") : IsValid(G(part, kase))
    BY <1>2 DEF IsValid
<1> QED BY <1>1, <1>3

LEMMA PsuIsValid ==
    ASSUME NEW b
    PROVE  IsValid(CheckPsu(b)) <=> \A psu \in Of(b, "psu") : ~Lacks(psu, "wattage")
<1>1. \A psu, total : IsValid(PsuTight(psu, total)) <=> ~Lacks(psu, "wattage")
    <2> TAKE psu, total
    <2>1. CASE Lacks(psu, "wattage")
        BY <2>1 DEF PsuTight, MissingAttribute, IsValid, IsError
    <2>2. CASE ~Lacks(psu, "wattage")
        BY <2>2 DEF PsuTight, IsValid, IsError
    <2> QED BY <2>1, <2>2
<1>2. IsValid(CheckPsu(b)) <=> \A psu \in Of(b, "psu") : IsValid(PsuTight(psu, TdpTotal(b)))
    BY DEF CheckPsu, IsValid
<1> QED BY <1>1, <1>2

LEMMA HasNames ==
    ASSUME NEW c, NEW x, NEW y, NEW z
    PROVE  /\ Has(c, {x}) <=> ~Lacks(c, x)
           /\ Has(c, {x, y}) <=> ~Lacks(c, x) /\ ~Lacks(c, y)
           /\ Has(c, {x, y, z}) <=> ~Lacks(c, x) /\ ~Lacks(c, y) /\ ~Lacks(c, z)
BY DEF Has, Lacks

\* For every build: the compiler calls it valid exactly if its parts are all there, say
\* what is needed to judge them and go together (validate of packages/compiler/src).
THEOREM ValidIsCompatible ==
    ASSUME NEW b, IsBuild(b)
    PROVE  IsValid(Validate(b)) <=> Compatible(b)
<1>1. IsValid(Validate(b)) <=>
          /\ IsValid(CheckMissing(b)) /\ IsValid(CheckSocket(b)) /\ IsValid(CheckRamGen(b))
          /\ IsValid(CheckCooler(b)) /\ IsValid(CheckFormFactor(b)) /\ IsValid(CheckPsu(b))
    BY DEF IsValid, Validate
<1>2. \A c \in Of(b, "cooler"), k \in Of(b, "case") :
          ~Lacks(c, "height") /\ ~Lacks(k, "max_cooler_height") =>
              (~(c.attr["height"] > k.attr["max_cooler_height"]) <=> c.attr["height"] <= k.attr["max_cooler_height"])
    <2> TAKE c \in Of(b, "cooler"), k \in Of(b, "case")
    <2>1. IsComponent(c) /\ IsComponent(k)
        BY DEF IsBuild, Of
    <2>2. ASSUME ~Lacks(c, "height"), ~Lacks(k, "max_cooler_height")
          PROVE  c.attr["height"] \in Nat /\ k.attr["max_cooler_height"] \in Nat
        BY <2>1, <2>2 DEF IsComponent, Lacks, Measures
    <2> QED BY <2>2
<1>3. \A part \in Of(b, "mainboard") : ListFor(part.type) = "supported_mb_form_factors"
    BY DEF Of, ListFor
<1>4. \A part \in Of(b, "psu") : ListFor(part.type) = "supported_psu_form_factors"
    BY DEF Of, ListFor
<1>6. CASE \E t \in Required : ~\E c \in b : c.type = t
    BY <1>1, <1>6, MissingIsValid DEF Compatible
<1>7. CASE \A t \in Required : \E c \in b : c.type = t
    <2>1. /\ Of(b, "cpu") # {} /\ Of(b, "mainboard") # {} /\ Of(b, "ram") # {}
          /\ Of(b, "case") # {} /\ Of(b, "psu") # {} /\ Of(b, "cooler") # {}
        BY <1>7 DEF Of, Required
    <2>2. IsValid(Validate(b)) => Compatible(b)
        <3> SUFFICES ASSUME IsValid(Validate(b)) PROVE Compatible(b)
            OBVIOUS
        <3>1. \A cpu \in Of(b, "cpu"), mb \in Of(b, "mainboard") :
                  /\ \A c \in {cpu, mb} : Has(c, {"socket", "ram_gen_supported"})
                  /\ cpu.attr["socket"] = mb.attr["socket"]
                  /\ \A ram \in Of(b, "ram") :
                        /\ Has(ram, {"generation"})
                        /\ ram.attr["generation"] \in Range(cpu.attr["ram_gen_supported"])
                                                          \cap Range(mb.attr["ram_gen_supported"])
            BY <1>1, <2>1, SocketIsValid, RamGenIsValid, HasNames DEF Supports
        <3>2. \A kase \in Of(b, "case") :
                  /\ Has(kase, {"max_cooler_height", "supported_mb_form_factors", "supported_psu_form_factors"})
                  /\ \A c \in Of(b, "cooler") : /\ Has(c, {"height"})
                                                /\ c.attr["height"] <= kase.attr["max_cooler_height"]
                  /\ \A c \in Of(b, "mainboard") :
                        /\ Has(c, {"form_factor"})
                        /\ c.attr["form_factor"] \in Range(kase.attr["supported_mb_form_factors"])
                  /\ \A c \in Of(b, "psu") :
                        /\ Has(c, {"wattage", "form_factor"})
                        /\ c.attr["form_factor"] \in Range(kase.attr["supported_psu_form_factors"])
            <4> TAKE kase \in Of(b, "case")
            <4>1. \A c \in Of(b, "cooler") :
                      /\ ~Lacks(kase, "max_cooler_height") /\ ~Lacks(c, "height")
                      /\ c.attr["height"] <= kase.attr["max_cooler_height"]
                BY <1>1, <1>2, CoolerIsValid
            <4>2. \A c \in Of(b, "mainboard") :
                      /\ ~Lacks(c, "form_factor") /\ ~Lacks(kase, "supported_mb_form_factors")
                      /\ c.attr["form_factor"] \in Range(kase.attr["supported_mb_form_factors"])
                BY <1>1, <1>3, FormFactorIsValid
            <4>3. \A c \in Of(b, "psu") :
                      /\ ~Lacks(c, "form_factor") /\ ~Lacks(kase, "supported_psu_form_factors")
                      /\ c.attr["form_factor"] \in Range(kase.attr["supported_psu_form_factors"])
                BY <1>1, <1>4, FormFactorIsValid
            <4>4. \A c \in Of(b, "psu") : ~Lacks(c, "wattage")
                BY <1>1, PsuIsValid
            <4>5. Has(kase, {"max_cooler_height", "supported_mb_form_factors", "supported_psu_form_factors"})
                BY <2>1, <4>1, <4>2, <4>3, HasNames
            <4>6. /\ \A c \in Of(b, "cooler") : Has(c, {"height"})
                  /\ \A c \in Of(b, "mainboard") : Has(c, {"form_factor"})
                  /\ \A c \in Of(b, "psu") : Has(c, {"wattage", "form_factor"})
                BY <4>1, <4>2, <4>3, <4>4, HasNames
            <4> QED BY <4>1, <4>2, <4>3, <4>5, <4>6
        <3> QED BY <1>7, <3>1, <3>2 DEF Compatible
    <2>3. Compatible(b) => IsValid(Validate(b))
        <3> SUFFICES ASSUME Compatible(b) PROVE IsValid(Validate(b))
            OBVIOUS
        <3>1. IsValid(CheckMissing(b))
            BY <1>7, MissingIsValid
        <3>2. IsValid(CheckSocket(b)) /\ IsValid(CheckRamGen(b))
            BY SocketIsValid, RamGenIsValid, HasNames DEF Compatible, Supports
        <3>3. IsValid(CheckCooler(b))
            BY <1>2, CoolerIsValid, HasNames DEF Compatible
        <3>4. IsValid(CheckFormFactor(b))
            BY <1>3, <1>4, FormFactorIsValid, HasNames DEF Compatible
        <3>5. IsValid(CheckPsu(b))
            BY <2>1, PsuIsValid, HasNames DEF Compatible
        <3> QED BY <1>1, <3>1, <3>2, <3>3, <3>4, <3>5
    <2> QED BY <2>2, <2>3
<1> QED BY <1>6, <1>7
-----------------------------------------------------------------------------
(* Types: what is found, and what is proposed for it *)

IsFinding(f) ==
    /\ f.code \in {"E001", "E002", "E003", "E004", "E005", "E006", "W001"}
    /\ f.code = "E003" => f.missing \in Required
    /\ f.code = "E005" => f.component \in {"mainboard", "psu"} /\ f.actual \in Names
    /\ f.code = "E006" => f.attribute \in Labels \cup Lists \cup Measures
    /\ f.code = "W001" => f.total \in Nat
    /\ f.code \in {"E001", "E004", "E005"} => {1, 2} \subseteq DOMAIN f.refs
    /\ f.code = "E002" => {1, 2, 3} \subseteq DOMAIN f.refs

IsValue(a, v) ==
    /\ a \in Labels \cup Lists \cup Measures
    /\ a \in Labels => v \in Names
    /\ a \in Lists => v \in Seq(Names)
    /\ a \in Measures => v \in Nat

IsFix(x) == IF x.attribute = "type" THEN x.value \in Required ELSE IsValue(x.attribute, x.value)

LEMMA AttributeIsValue ==
    ASSUME NEW c, IsComponent(c), NEW a, ~Lacks(c, a)
    PROVE  IsValue(a, c.attr[a])
BY DEF IsComponent, IsValue, Lacks

LEMMA ImageIsFinite ==
    ASSUME NEW S, IsFiniteSet(S), NEW f
    PROVE  IsFiniteSet({f[x] : x \in S})
<1> DEFINE g == [x \in S |-> f[x]]
           T == {f[x] : x \in S}
<1>1. g \in Surjection(S, T)
    BY DEF Surjection
<1> QED BY <1>1, FS_Surjection DEF ExistsSurjection

LEMMA TotalIsNat ==
    ASSUME NEW b, IsBuild(b)
    PROVE  TdpTotal(b) \in Nat
<1> DEFINE S == {c \in b : c.type # "psu"}
           w == [c \in S |-> Watts(c)]
           W == {Watts(c) : c \in S}
<1>1. IsFiniteSet(S)
    BY FS_Subset DEF IsBuild
<1>2. IsFiniteSet(W)
    <2>1. W = {w[c] : c \in S}
        OBVIOUS
    <2> HIDE DEF w, W
    <2> QED BY <1>1, <2>1, ImageIsFinite
<1>3. ASSUME NEW c \in S
      PROVE  IsFiniteSet(Watts(c))
    <2>1. CASE Lacks(c, "tdp")
        BY <2>1, FS_EmptySet DEF Watts
    <2>2. CASE ~Lacks(c, "tdp")
        <3>1. c.attr["tdp"] \in Int
            BY <2>2, AttributeIsValue DEF IsBuild, IsValue, Measures
        <3>2. IsFiniteSet(1 .. c.attr["tdp"])
            BY <3>1, FS_Interval
        <3>3. IsFiniteSet({c.id})
            BY FS_Singleton
        <3> QED BY <2>2, <3>2, <3>3, FS_Product DEF Watts
    <2> QED BY <2>1, <2>2
<1>4. IsFiniteSet(UNION W)
    BY <1>2, <1>3, FS_UNION
<1>5. TdpTotal(b) = Cardinality(UNION W)
    BY DEF TdpTotal
<1> QED BY <1>4, <1>5, FS_CardinalityType

Reported(b, f) == IsFinding(f) /\ Range(f.refs) \subseteq Ids(b)

LEMMA PartIsInBuild ==
    ASSUME NEW b, NEW type, NEW c \in Of(b, type)
    PROVE  c \in b /\ c.type = type /\ c.id \in Ids(b)
BY DEF Of, Ids

LEMMA MissIsReported ==
    ASSUME NEW b, NEW c \in b, NEW a \in Labels \cup Lists \cup Measures
    PROVE  Reported(b, MissingAttribute(c, a))
<1>1. c.id \in Ids(b)
    BY DEF Ids
<1>2. Range(<<c.id>>) \subseteq Ids(b)
    BY <1>1 DEF Range
<1> QED BY <1>2 DEF MissingAttribute, Reported, IsFinding

LEMMA GivenIsReported ==
    ASSUME NEW b, NEW c \in b, NEW d \in b, NEW a \in Labels \cup Lists \cup Measures,
           NEW e \in Labels \cup Lists \cup Measures, NEW findings,
           ~Lacks(c, a) /\ ~Lacks(d, e) => \A f \in findings : Reported(b, f)
    PROVE  \A f \in Given(c, a, d, e, findings) : Reported(b, f)
BY MissIsReported DEF Given

\* What validate finds names components of the build, and says what a repair needs.
LEMMA ValidateReports ==
    ASSUME NEW b, IsBuild(b)
    PROVE  \A f \in Validate(b) : Reported(b, f)
<1>1. \A f \in CheckMissing(b) : Reported(b, f)
    <2> SUFFICES ASSUME NEW t \in Required
                 PROVE  Reported(b, [code |-> "E003", refs |-> <<>>, missing |-> t])
        BY DEF CheckMissing
    <2> QED BY DEF Reported, IsFinding, Range
<1>2. \A f \in CheckSocket(b) : Reported(b, f)
    <2> SUFFICES ASSUME NEW cpu \in Of(b, "cpu"), NEW mb \in Of(b, "mainboard")
                 PROVE  \A f \in Given(cpu, "socket", mb, "socket", SocketMismatch(cpu, mb)) : Reported(b, f)
        BY DEF CheckSocket
    <2>1. cpu \in b /\ mb \in b /\ cpu.id \in Ids(b) /\ mb.id \in Ids(b)
        BY PartIsInBuild
    <2>2. Range(<<cpu.id, mb.id>>) \subseteq Ids(b)
        BY <2>1 DEF Range
    <2>3. \A f \in SocketMismatch(cpu, mb) : Reported(b, f)
        BY <2>2 DEF SocketMismatch, Reported, IsFinding
    <2> QED BY <2>1, <2>3, GivenIsReported DEF Labels
<1>3. \A f \in CheckRamGen(b) : Reported(b, f)
    <2> SUFFICES ASSUME NEW ram \in Of(b, "ram"), NEW cpu \in Of(b, "cpu"), NEW mb \in Of(b, "mainboard")
                 PROVE  \A f \in Given(cpu, "ram_gen_supported", mb, "ram_gen_supported",
                                       RamMismatch(ram, cpu, mb)) : Reported(b, f)
        BY DEF CheckRamGen
    <2>1. /\ ram \in b /\ cpu \in b /\ mb \in b
          /\ ram.id \in Ids(b) /\ cpu.id \in Ids(b) /\ mb.id \in Ids(b)
        BY PartIsInBuild
    <2>2. Range(<<ram.id, cpu.id, mb.id>>) \subseteq Ids(b)
        BY <2>1 DEF Range
    <2>3. Reported(b, [code |-> "E002", refs |-> <<ram.id, cpu.id, mb.id>>])
        BY <2>2 DEF Reported, IsFinding
    <2>4. \A f \in RamMismatch(ram, cpu, mb) : Reported(b, f)
        BY <2>1, <2>3, MissIsReported DEF RamMismatch, Labels
    <2> QED BY <2>1, <2>4, GivenIsReported DEF Lists
<1>4. \A f \in CheckCooler(b) : Reported(b, f)
    <2> SUFFICES ASSUME NEW cooler \in Of(b, "cooler"), NEW kase \in Of(b, "case")
                 PROVE  \A f \in Given(cooler, "height", kase, "max_cooler_height", TooHigh(cooler, kase)) :
                            Reported(b, f)
        BY DEF CheckCooler
    <2>1. cooler \in b /\ kase \in b /\ cooler.id \in Ids(b) /\ kase.id \in Ids(b)
        BY PartIsInBuild
    <2>2. Range(<<cooler.id, kase.id>>) \subseteq Ids(b)
        BY <2>1 DEF Range
    <2>3. \A f \in TooHigh(cooler, kase) : Reported(b, f)
        BY <2>2 DEF TooHigh, Reported, IsFinding
    <2> QED BY <2>1, <2>3, GivenIsReported DEF Measures
<1>5. \A f \in CheckFormFactor(b) : Reported(b, f)
    <2> SUFFICES ASSUME NEW part \in Of(b, "mainboard") \cup Of(b, "psu"), NEW kase \in Of(b, "case")
                 PROVE  \A f \in Given(part, "form_factor", kase, ListFor(part.type), DoesNotFit(part, kase)) :
                            Reported(b, f)
        BY DEF CheckFormFactor
    <2>1. part \in b /\ kase \in b /\ part.id \in Ids(b) /\ kase.id \in Ids(b)
        BY PartIsInBuild
    <2>2. part.type \in {"mainboard", "psu"}
        BY PartIsInBuild
    <2>3. Range(<<part.id, kase.id>>) \subseteq Ids(b)
        BY <2>1 DEF Range
    <2>4. ASSUME ~Lacks(part, "form_factor")
          PROVE  \A f \in DoesNotFit(part, kase) : Reported(b, f)
        <3>1. part.attr["form_factor"] \in Names
            BY <2>1, <2>4, AttributeIsValue DEF IsBuild, IsValue, Labels
        <3> QED BY <2>2, <2>3, <3>1 DEF DoesNotFit, Reported, IsFinding
    <2>5. ListFor(part.type) \in Lists /\ "form_factor" \in Labels
        BY DEF ListFor, Lists, Labels
    <2> QED BY <2>1, <2>4, <2>5, GivenIsReported
<1>6. \A f \in CheckPsu(b) : Reported(b, f)
    <2> SUFFICES ASSUME NEW psu \in Of(b, "psu")
                 PROVE  \A f \in PsuTight(psu, TdpTotal(b)) : Reported(b, f)
        BY DEF CheckPsu
    <2>1. psu \in b /\ psu.id \in Ids(b)
        BY PartIsInBuild
    <2>2. Range(<<psu.id>>) \subseteq Ids(b)
        BY <2>1 DEF Range
    <2>3. Reported(b, [code |-> "W001", refs |-> <<psu.id>>, total |-> TdpTotal(b)])
        BY <2>2, TotalIsNat DEF Reported, IsFinding
    <2> QED BY <2>1, <2>3, MissIsReported DEF PsuTight, Measures
<1> QED BY <1>1, <1>2, <1>3, <1>4, <1>5, <1>6 DEF Validate

LEMMA ByIdIsPart ==
    ASSUME NEW b, IsBuild(b), NEW id \in Ids(b)
    PROVE  ById(b, id) \in b /\ IsComponent(ById(b, id)) /\ ById(b, id).id = id
BY DEF Ids, ById, IsBuild

LEMMA AlignFixes ==
    ASSUME NEW c, NEW d, IsComponent(c), IsComponent(d), NEW a, NEW e,
           {a, e} \subseteq Labels \/ {a, e} \subseteq Measures
    PROVE  \A i \in DOMAIN Align(c, a, d, e) : IsFix(Align(c, a, d, e)[i])
<1>1. CASE Lacks(c, a) \/ Lacks(d, e)
    BY <1>1 DEF Align
<1>2. CASE ~Lacks(c, a) /\ ~Lacks(d, e)
    <2>1. IsValue(a, d.attr[e]) /\ IsValue(e, c.attr[a])
        BY <1>2, AttributeIsValue DEF IsValue, Labels, Measures, Lists
    <2>2. a # "type" /\ e # "type"
        BY DEF Labels, Measures
    <2>3. IsFix(Change(c.id, a, d.attr[e])) /\ IsFix(Change(d.id, e, c.attr[a]))
        BY <2>1, <2>2 DEF IsFix, Change
    <2> DEFINE x == Change(c.id, a, d.attr[e])
               y == Change(d.id, e, c.attr[a])
    <2>4. Align(c, a, d, e) = <<x, y>>
        BY <1>2 DEF Align
    <2> HIDE DEF x, y
    <2>5. \A i \in DOMAIN <<x, y>> : <<x, y>>[i] \in {x, y}
        OBVIOUS
    <2> QED BY <2>3, <2>4, <2>5 DEF x, y
<1> QED BY <1>1, <1>2

LEMMA SocketFixes ==
    ASSUME NEW cpu, NEW mb, IsComponent(cpu), IsComponent(mb)
    PROVE  \A i \in DOMAIN RepairSocket(cpu, mb) : IsFix(RepairSocket(cpu, mb)[i])
<1>1. RepairSocket(cpu, mb) = Align(cpu, "socket", mb, "socket") \/ RepairSocket(cpu, mb) = <<>>
    BY DEF RepairSocket
<1>2. CASE RepairSocket(cpu, mb) = Align(cpu, "socket", mb, "socket")
    BY <1>2, AlignFixes DEF Labels
<1>3. CASE RepairSocket(cpu, mb) = <<>>
    BY <1>3
<1> QED BY <1>1, <1>2, <1>3

LEMMA ListIsList ==
    ASSUME NEW c, IsComponent(c), NEW a \in Lists
    PROVE  ListOf(c, a) \in Seq(Names)
<1>1. CASE Lacks(c, a)
    BY <1>1 DEF ListOf
<1>2. CASE ~Lacks(c, a)
    BY <1>2, AttributeIsValue DEF ListOf, IsValue
<1> QED BY <1>1, <1>2

\* A place of the CPU's list that is in common has a first one: TargetGens is well defined.
LEMMA FirstInCommon ==
    ASSUME NEW cpu, NEW mb, IsComponent(cpu), Common(cpu, mb) # {}
    PROVE  \E i \in Common(cpu, mb) : \A j \in Common(cpu, mb) : i <= j
<1> DEFINE less == OpToRel(<, Nat)
<1>1. Gens(cpu) \in Seq(Names)
    BY ListIsList DEF Gens, Lists
<1>2. Common(cpu, mb) \subseteq Nat
    BY <1>1 DEF Common
<1>3. PICK i \in Common(cpu, mb) : \A j \in Common(cpu, mb) : ~(<<j, i>> \in less)
    <2> HIDE DEF less
    <2>1. IsWellFoundedOn(less, Nat)
        BY NatLessThanWellFounded DEF less
    <2> QED BY <1>2, <2>1, WFMin
<1>4. \A j \in Common(cpu, mb) : ~(j < i)
    BY <1>2, <1>3 DEF OpToRel
<1> QED BY <1>2, <1>4

LEMMA RamFixes ==
    ASSUME NEW ram, NEW cpu, NEW mb, IsComponent(cpu), IsComponent(mb)
    PROVE  \A i \in DOMAIN RepairRamGen(ram, cpu, mb) : IsFix(RepairRamGen(ram, cpu, mb)[i])
<1>1. Gens(cpu) \in Seq(Names) /\ Gens(mb) \in Seq(Names)
    BY ListIsList DEF Gens, Lists
<1>2. TargetGens(cpu, mb) \in Seq(Names)
    <2>1. CASE Common(cpu, mb) = {}
        BY <1>1, <2>1 DEF TargetGens
    <2>2. CASE Common(cpu, mb) # {}
        <3> DEFINE first == CHOOSE i \in Common(cpu, mb) : \A j \in Common(cpu, mb) : i <= j
        <3>1. first \in Common(cpu, mb)
            BY <2>2, FirstInCommon
        <3>2. Gens(cpu)[first] \in Names
            BY <1>1, <3>1 DEF Common
        <3>3. TargetGens(cpu, mb) = <<Gens(cpu)[first]>>
            BY <2>2 DEF TargetGens
        <3> HIDE DEF first
        <3> QED BY <3>2, <3>3
    <2> QED BY <2>1, <2>2
<1>3. CASE RepairRamGen(ram, cpu, mb) = <<>>
    BY <1>3
<1>4. CASE TargetGens(cpu, mb) # <<>> /\ Head(TargetGens(cpu, mb)) # ""
    <2> DEFINE x == Change(ram, "generation", Head(TargetGens(cpu, mb)))
    <2>1. Head(TargetGens(cpu, mb)) \in Names
        <3>1. PICK t : t = TargetGens(cpu, mb)
            OBVIOUS
        <3>2. t \in Seq(Names) /\ t # <<>>
            BY <1>2, <1>4, <3>1
        <3>3. Head(t) \in Names
            BY <3>2
        <3> QED BY <3>1, <3>3
    <2>2. IsFix(x)
        BY <2>1 DEF IsFix, IsValue, Change, Labels, Lists, Measures
    <2>3. RepairRamGen(ram, cpu, mb) = <<x>>
        BY <1>4 DEF RepairRamGen
    <2> HIDE DEF x
    <2> QED BY <2>2, <2>3
<1> QED BY <1>3, <1>4 DEF RepairRamGen

\* Of two fixes, either of which may be left out, one that is there is one of the two.
LEMMA PartsOfFixes ==
    ASSUME NEW x, NEW y, NEW p, NEW q, p = <<>> \/ p = <<x>>, q = <<>> \/ q = <<y>>, NEW i \in DOMAIN (p \o q)
    PROVE  (p \o q)[i] = y \/ (p = <<x>> /\ (p \o q)[i] = x)
<1>1. <<>> \o <<>> = <<>>
    OBVIOUS
<1>2. <<>> \o <<y>> = <<y>>
    OBVIOUS
<1>3. <<x>> \o <<>> = <<x>>
    OBVIOUS
<1>4. \A j \in DOMAIN (<<x>> \o <<y>>) : (<<x>> \o <<y>>)[j] \in {x, y}
    OBVIOUS
<1>5. CASE p = <<>> /\ q = <<>>
    BY <1>1, <1>5
<1>6. CASE p = <<>> /\ q = <<y>>
    <2>1. i \in DOMAIN <<y>> /\ p \o q = <<y>>
        BY <1>2, <1>6
    <2> QED BY <1>6, <2>1
<1>7. CASE p = <<x>> /\ q = <<>>
    BY <1>3, <1>7
<1>8. CASE p = <<x>> /\ q = <<y>>
    BY <1>4, <1>8
<1> QED BY <1>5, <1>6, <1>7, <1>8

LEMMA FormFactorFixes ==
    ASSUME NEW f, NEW kase, IsFinding(f), f.code = "E005", IsComponent(kase)
    PROVE  \A i \in DOMAIN RepairFormFactor(f, kase) : IsFix(RepairFormFactor(f, kase)[i])
<1> DEFINE a == ListFor(f.component)
           supported == ListOf(kase, a)
           x == Change(f.refs[1], "form_factor", Head(supported))
           y == Change(kase.id, a, Append(supported, f.actual))
<1>1. a \in Lists
    BY DEF ListFor, Lists
<1>2. supported \in Seq(Names)
    BY <1>1, ListIsList
<1>3. f.actual \in Names
    BY DEF IsFinding
<1>4. IsFix(y)
    <2>1. Append(supported, f.actual) \in Seq(Names)
        BY <1>2, <1>3
    <2>2. IsValue(a, Append(supported, f.actual))
        BY <1>1, <2>1 DEF IsValue, Labels, Lists, Measures
    <2>3. a # "type"
        BY <1>1 DEF Lists
    <2> HIDE DEF a, supported
    <2> QED BY <2>2, <2>3 DEF IsFix, Change
<1> DEFINE ofPart == IF supported = <<>> THEN <<>> ELSE <<x>>
           ofCase == IF f.actual = "" THEN <<>> ELSE <<y>>
<1>5. RepairFormFactor(f, kase) = ofPart \o ofCase
    BY DEF RepairFormFactor
<1>6. supported # <<>> => IsFix(x)
    <2>1. supported # <<>> => Head(supported) \in Names
        BY <1>2
    <2> HIDE DEF supported
    <2> QED BY <2>1 DEF IsFix, IsValue, Change, Labels, Lists, Measures
<1> HIDE DEF supported, x, y
<1>7. /\ ofPart = <<>> \/ (ofPart = <<x>> /\ supported # <<>>)
      /\ ofCase = <<>> \/ ofCase = <<y>>
      /\ <<x>> # <<>>
    OBVIOUS
<1> HIDE DEF ofPart, ofCase
<1>8. \A i \in DOMAIN (ofPart \o ofCase) : (ofPart \o ofCase)[i] = y \/ (ofPart = <<x>> /\ (ofPart \o ofCase)[i] = x)
    BY <1>7, PartsOfFixes
<1> QED BY <1>4, <1>5, <1>6, <1>7, <1>8

\* What is proposed for a finding that names components of the build can be carried out.
LEMMA FixesAreFixes ==
    ASSUME NEW b, IsBuild(b), NEW f, Reported(b, f)
    PROVE  \A i \in DOMAIN FixesFor(b, f) : IsFix(FixesFor(b, f)[i])
<1>1. IsFinding(f) /\ Range(f.refs) \subseteq Ids(b)
    BY DEF Reported
<1>2. \A i \in DOMAIN f.refs : IsComponent(ById(b, f.refs[i]))
    <2> TAKE i \in DOMAIN f.refs
    <2>1. f.refs[i] \in Ids(b)
        BY <1>1 DEF Range
    <2> QED BY <2>1, ByIdIsPart
<1>3. CASE f.code = "E001"
    <2>1. FixesFor(b, f) = RepairSocket(ById(b, f.refs[1]), ById(b, f.refs[2]))
        BY <1>3 DEF FixesFor
    <2>2. IsComponent(ById(b, f.refs[1])) /\ IsComponent(ById(b, f.refs[2]))
        BY <1>1, <1>2, <1>3 DEF IsFinding
    <2> QED BY <2>1, <2>2, SocketFixes
<1>4. CASE f.code = "E002"
    <2>1. FixesFor(b, f) = RepairRamGen(f.refs[1], ById(b, f.refs[2]), ById(b, f.refs[3]))
        BY <1>4 DEF FixesFor
    <2>2. IsComponent(ById(b, f.refs[2])) /\ IsComponent(ById(b, f.refs[3]))
        BY <1>1, <1>2, <1>4 DEF IsFinding
    <2> QED BY <2>1, <2>2, RamFixes
<1>5. CASE f.code = "E003"
    <2> DEFINE x == Change(f.missing, "type", f.missing)
    <2>1. FixesFor(b, f) = <<x>>
        BY <1>5 DEF FixesFor
    <2>2. IsFix(x)
        BY <1>1, <1>5 DEF IsFix, Change, IsFinding
    <2> HIDE DEF x
    <2> QED BY <2>1, <2>2
<1>6. CASE f.code = "E004"
    <2>1. FixesFor(b, f) = Align(ById(b, f.refs[1]), "height", ById(b, f.refs[2]), "max_cooler_height")
        BY <1>6 DEF FixesFor
    <2>2. IsComponent(ById(b, f.refs[1])) /\ IsComponent(ById(b, f.refs[2]))
        BY <1>1, <1>2, <1>6 DEF IsFinding
    <2> QED BY <2>1, <2>2, AlignFixes DEF Measures
<1>7. CASE f.code = "E005"
    <2>1. FixesFor(b, f) = RepairFormFactor(f, ById(b, f.refs[2]))
        BY <1>7 DEF FixesFor
    <2>2. IsComponent(ById(b, f.refs[2]))
        BY <1>1, <1>2, <1>7 DEF IsFinding
    <2> QED BY <1>1, <1>7, <2>1, <2>2, FormFactorFixes
<1>8. CASE f.code = "E006"
    <2> DEFINE x == Change(f.refs[1], f.attribute, Placeholders[f.attribute])
    <2>1. FixesFor(b, f) = <<x>>
        BY <1>8 DEF FixesFor
    <2>2. f.attribute \in Labels \cup Lists \cup Measures
        BY <1>1, <1>8 DEF IsFinding
    <2>3. IsValue(f.attribute, Placeholders[f.attribute])
        <3>1. \A l \in Labels : Placeholders[l] \in Names
            BY PlaceholdersAreNames DEF Labels, Placeholders
        <3>2. \A m \in Measures : Placeholders[m] \in Nat
            BY DEF Measures, Placeholders
        <3>3. \A l \in Lists : Placeholders[l] \in {<<"DDR5">>, <<"ATX">>}
            BY DEF Lists, Placeholders
        <3>4. \A n \in Names : <<n>> \in Seq(Names)
            OBVIOUS
        <3> QED BY <2>2, <3>1, <3>2, <3>3, <3>4, PlaceholdersAreNames DEF IsValue
    <2>4. f.attribute # "type"
        BY <2>2 DEF Labels, Lists, Measures
    <2>5. IsFix(x)
        BY <2>3, <2>4 DEF IsFix, Change
    <2> HIDE DEF x
    <2> QED BY <2>1, <2>5
<1>9. CASE f.code = "W001"
    <2> DEFINE x == Change(f.refs[1], "wattage", Headroom(f.total))
    <2>1. FixesFor(b, f) = <<x>>
        BY <1>9 DEF FixesFor
    <2>2. Headroom(f.total) \in Nat
        BY <1>1, <1>9 DEF IsFinding, Headroom
    <2>3. IsFix(x)
        BY <2>2 DEF IsFix, IsValue, Change, Labels, Lists, Measures
    <2> HIDE DEF x
    <2> QED BY <2>1, <2>3
<1> QED BY <1>1, <1>3, <1>4, <1>5, <1>6, <1>7, <1>8, <1>9 DEF IsFinding

-----------------------------------------------------------------------------
(* The loop *)

Known == Types \cup UNION {Ids(b) : b \in Starts \cup {Offers}}

\* A component that is named after a type is one that a repair of E003 has added.
BareIsBare(b) == \A c \in b : c.id \in Types => c.type = c.id

LEMMA WithIsComponent ==
    ASSUME NEW c, IsComponent(c), NEW x, IsFix(x), x.attribute # "type"
    PROVE  IsComponent(With(c, x)) /\ With(c, x).id = c.id /\ With(c, x).type = c.type
<1> DEFINE g == [a \in DOMAIN c.attr \cup {x.attribute} |-> IF a = x.attribute THEN x.value ELSE c.attr[a]]
           d == [id |-> c.id, type |-> c.type, attr |-> g]
<1>1. c = [id |-> c.id, type |-> c.type, attr |-> [a \in DOMAIN c.attr |-> c.attr[a]]]
    BY DEF IsComponent
<1>2. With(c, x) = [c EXCEPT !.attr = g]
    BY DEF With
<1> HIDE DEF g
<1>3. With(c, x) = d
    BY <1>1, <1>2
<1>4. d.id = c.id /\ d.type = c.type /\ d.attr = g
    OBVIOUS
<1>5. DOMAIN g = DOMAIN c.attr \cup {x.attribute} /\ g = [a \in DOMAIN g |-> g[a]]
    BY DEF g
<1>6. IsValue(x.attribute, x.value)
    BY DEF IsFix
<1>7. \A a \in DOMAIN g : IsValue(a, g[a])
    BY <1>6, AttributeIsValue DEF g, Lacks
<1>8. DOMAIN g \subseteq Labels \cup Lists \cup Measures
    BY <1>5, <1>6 DEF IsComponent, IsValue
<1>9. c.type \in Types
    BY DEF IsComponent
<1>10. IsComponent(d)
    <2> HIDE DEF d
    <2>1. d = [id |-> d.id, type |-> d.type, attr |-> [a \in DOMAIN d.attr |-> d.attr[a]]]
        BY <1>4, <1>5 DEF d
    <2> QED BY <1>4, <1>7, <1>8, <1>9, <2>1 DEF IsComponent, IsValue
<1> HIDE DEF d
<1> QED BY <1>3, <1>4, <1>10

\* A fix that adds nothing to a slot that is taken keeps the build a build.
LEMMA ApplyKeepsBuild ==
    ASSUME NEW b, IsBuild(b), BareIsBare(b), NEW x, IsFix(x),
           x.attribute = "type" => Of(b, x.value) = {}
    PROVE  IsBuild(Apply(b, x)) /\ BareIsBare(Apply(b, x)) /\ Ids(Apply(b, x)) \subseteq Ids(b) \cup Types
<1>1. CASE x.attribute = "type"
    <2> DEFINE c == Bare(x.value)
    <2>1. x.value \in Types
        BY <1>1 DEF IsFix, Types
    <2>2. c.id = x.value /\ c.type = x.value /\ c.attr = [a \in {} |-> 0] /\ DOMAIN c.attr = {}
        BY DEF Bare
    <2>3. c = [id |-> c.id, type |-> c.type, attr |-> [a \in DOMAIN c.attr |-> c.attr[a]]]
        BY DEF Bare
    <2>4. Apply(b, x) = b \cup {c}
        BY <1>1 DEF Apply
    <2> HIDE DEF c
    <2>5. IsComponent(c)
        BY <2>1, <2>2, <2>3 DEF IsComponent
    <2>6. \A d \in b : d.type # x.value
        BY <1>1 DEF Of
    <2>7. \A d \in b : d.id # c.id
        BY <2>1, <2>2, <2>6 DEF BareIsBare
    <2>8. IsFiniteSet(b \cup {c})
        BY FS_AddElement DEF IsBuild
    <2>9. IsBuild(b \cup {c})
        BY <2>2, <2>5, <2>6, <2>7, <2>8 DEF IsBuild
    <2> QED BY <2>1, <2>2, <2>4, <2>9 DEF BareIsBare, Ids
<1>2. CASE x.attribute # "type"
    <2> DEFINE g == [c \in b |-> IF c.id = x.ref THEN With(c, x) ELSE c]
    <2>1. Apply(b, x) = {g[c] : c \in b}
        BY <1>2 DEF Apply
    <2>2. \A c \in b : IsComponent(g[c]) /\ g[c].id = c.id /\ g[c].type = c.type
        BY <1>2, WithIsComponent DEF IsBuild
    <2> HIDE DEF g
    <2>3. IsFiniteSet({g[c] : c \in b})
        BY ImageIsFinite DEF IsBuild
    <2>4. IsBuild({g[c] : c \in b})
        BY <2>2, <2>3 DEF IsBuild
    <2>5. BareIsBare({g[c] : c \in b})
        BY <2>2 DEF BareIsBare
    <2>6. Ids({g[c] : c \in b}) = Ids(b)
        BY <2>2 DEF Ids
    <2> QED BY <2>1, <2>4, <2>5, <2>6
<1> QED BY <1>1, <1>2

Typed ==
    /\ \A f \in errors : IsFinding(f)
    /\ \A f \in DOMAIN plan : \A i \in DOMAIN plan[f] : IsFix(plan[f][i])
    /\ BareIsBare(build)

Fresh == current /\ repaired = {} => errors = Validate(build)

RepairInv == RepairTypeOK /\ Typed /\ Fresh

LEMMA InitRepairs == Init => RepairInv
<1> SUFFICES ASSUME Init PROVE RepairInv
    OBVIOUS
<1>1. IsBuild(build) /\ Ids(build) \subseteq Known /\ Ids(build) \cap Types = {}
    BY StartsAreBuilds, StartIdsAreNoTypes DEF Init, Known
<1>2. BareIsBare(build)
    BY <1>1 DEF BareIsBare, Ids
<1>3. DOMAIN plan = {} /\ repaired = {} /\ current = FALSE /\ errors = {} /\ moves \in 0 .. MaxMoves
    BY MaxMovesIsNat DEF Init
<1>4. RepairTypeOK
    BY <1>1, <1>3 DEF RepairTypeOK, Known
<1> QED BY <1>2, <1>3, <1>4 DEF RepairInv, Typed, Fresh

LEMMA PlanIsTyped ==
    ASSUME NEW b, IsBuild(b), NEW fs, \A f \in fs : Reported(b, f)
    PROVE  LET p == RepairBuild(b, fs)
           IN  DOMAIN p = fs /\ \A f \in DOMAIN p : \A i \in DOMAIN p[f] : IsFix(p[f][i])
BY FixesAreFixes DEF RepairBuild

LEMMA NextRepairs == RepairInv /\ [Next]_vars => RepairInv'
<1> SUFFICES ASSUME RepairInv, [Next]_vars PROVE RepairInv'
    OBVIOUS
<1>0. /\ IsBuild(build) /\ Ids(build) \subseteq Known /\ DOMAIN plan \subseteq errors
      /\ repaired \subseteq errors /\ repaired \cap DOMAIN plan = {}
      /\ current \in BOOLEAN /\ moves \in 0 .. MaxMoves /\ BareIsBare(build)
      /\ \A f \in errors : IsFinding(f)
      /\ \A f \in DOMAIN plan : \A i \in DOMAIN plan[f] : IsFix(plan[f][i])
    BY DEF RepairInv, RepairTypeOK, Typed, Known
<1> DEFINE none == [f \in {} |-> <<>>]
<1>n. DOMAIN none = {}
    OBVIOUS
<1>1. ASSUME Detected, DOMAIN plan' \subseteq errors',
             \A f \in DOMAIN plan' : \A i \in DOMAIN plan'[f] : IsFix(plan'[f][i])
      PROVE  RepairInv'
    <2>1. \A f \in errors' : IsFinding(f)
        BY <1>0, <1>1, ValidateReports DEF Detected, Reported
    <2>2. RepairTypeOK'
        BY <1>0, <1>1 DEF Detected, RepairTypeOK, Known
    <2>3. Typed'
        BY <1>0, <1>1, <2>1 DEF Detected, Typed, BareIsBare
    <2>4. Fresh'
        BY <1>1 DEF Detected, Fresh
    <2> QED BY <2>2, <2>3, <2>4 DEF RepairInv
<1>2. CASE CompileBuild
    <2>1. \A f \in errors' : Reported(build, f)
        BY <1>0, <1>2, ValidateReports DEF CompileBuild, Detected
    <2>2. plan' = RepairBuild(build, errors')
        BY <1>2 DEF CompileBuild
    <2>3. DOMAIN plan' = errors' /\ \A f \in DOMAIN plan' : \A i \in DOMAIN plan'[f] : IsFix(plan'[f][i])
        BY <1>0, <2>1, <2>2, PlanIsTyped
    <2> QED BY <1>1, <1>2, <2>3 DEF CompileBuild
<1>3. CASE DetectErrors
    <2>1. DOMAIN plan' = {}
        BY <1>3 DEF DetectErrors
    <2> QED BY <1>1, <1>3, <2>1 DEF DetectErrors
<1>4. CASE RepairTool
    <2>1. DOMAIN plan' \subseteq errors /\ \A f \in DOMAIN plan' : \A i \in DOMAIN plan'[f] : IsFix(plan'[f][i])
        <3>1. CASE \A f \in errors : Range(f.refs) \subseteq Ids(build)
            <4>1. \A f \in errors : Reported(build, f)
                BY <1>0, <3>1 DEF Reported
            <4>2. plan' = RepairBuild(build, errors)
                BY <1>4, <3>1 DEF RepairTool
            <4> QED BY <1>0, <4>1, <4>2, PlanIsTyped
        <3>2. CASE ~\A f \in errors : Range(f.refs) \subseteq Ids(build)
            <4>1. plan' = none
                BY <1>4, <3>2 DEF RepairTool
            <4> QED BY <1>n, <4>1
        <3> QED BY <3>1, <3>2
    <2>2. RepairTypeOK'
        BY <1>0, <1>4, <2>1 DEF RepairTool, RepairTypeOK, Known
    <2>3. Typed'
        BY <1>0, <1>4, <2>1 DEF RepairTool, Typed, BareIsBare
    <2>4. Fresh'
        BY <1>4 DEF RepairTool, Fresh, RepairInv
    <2> QED BY <2>2, <2>3, <2>4 DEF RepairInv
<1>5. CASE ApplyFix
    <2>1. PICK f \in DOMAIN plan : \E i \in DOMAIN plan[f] :
              /\ plan[f][i].attribute = "type" => Of(build, plan[f][i].value) = {}
              /\ build' = Apply(build, plan[f][i])
              /\ plan' = [g \in DOMAIN plan \ {f} |-> plan[g]]
              /\ repaired' = repaired \cup {f}
              /\ UNCHANGED <<errors, current, moves>>
        BY <1>5 DEF ApplyFix, ApplyFixFor
    <2>2. PICK x : /\ IsFix(x) /\ (x.attribute = "type" => Of(build, x.value) = {})
                   /\ build' = Apply(build, x)
        BY <1>0, <2>1
    <2>3. IsBuild(build') /\ BareIsBare(build') /\ Ids(build') \subseteq Known
        BY <1>0, <2>2, ApplyKeepsBuild DEF Known
    <2>4. /\ DOMAIN plan' = DOMAIN plan \ {f}
          /\ \A g \in DOMAIN plan' : plan'[g] = plan[g]
        BY <2>1
    <2>5. RepairTypeOK'
        BY <1>0, <2>1, <2>3, <2>4 DEF RepairTypeOK, Known
    <2>6. Typed'
        BY <1>0, <2>1, <2>3, <2>4 DEF Typed
    <2>7. Fresh'
        BY <2>1 DEF Fresh
    <2> QED BY <2>5, <2>6, <2>7 DEF RepairInv
<1>6. CASE CustomerMoves
    <2>1. moves < MaxMoves /\ moves' = moves + 1 /\ current' = FALSE /\ UNCHANGED <<errors, plan, repaired>>
        BY <1>6 DEF CustomerMoves
    <2>2. IsBuild(build') /\ BareIsBare(build') /\ Ids(build') \subseteq Known
        <3>1. CASE \E c \in build : build' = build \ {c}
            <4>1. build' \subseteq build
                BY <3>1
            <4>2. IsFiniteSet(build')
                BY <1>0, <4>1, FS_Subset DEF IsBuild
            <4> QED BY <1>0, <4>1, <4>2 DEF IsBuild, BareIsBare, Ids
        <3>2. CASE \E c \in Offers : c.id \notin Ids(build) /\ build' = {d \in build : d.type # c.type} \cup {c}
            <4>1. PICK c \in Offers : c.id \notin Ids(build) /\ build' = {d \in build : d.type # c.type} \cup {c}
                BY <3>2
            <4>2. IsComponent(c) /\ c.id \notin Types
                BY OffersAreComponents, IdsAreTheirOwn
            <4>3. IsFiniteSet({d \in build : d.type # c.type})
                BY <1>0, FS_Subset DEF IsBuild
            <4>4. IsFiniteSet(build')
                BY <4>1, <4>3, FS_AddElement
            <4>5. IsBuild(build')
                BY <1>0, <4>1, <4>2, <4>4 DEF IsBuild, Ids
            <4>6. c.id \in Known
                BY DEF Known, Ids
            <4> QED BY <1>0, <4>1, <4>2, <4>5, <4>6 DEF BareIsBare, Ids
        <3> QED BY <1>6, <3>1, <3>2 DEF CustomerMoves
    <2>3. moves' \in 0 .. MaxMoves
        BY <1>0, <2>1, MaxMovesIsNat
    <2>4. RepairTypeOK'
        BY <1>0, <2>1, <2>2, <2>3 DEF RepairTypeOK, Known
    <2> QED BY <1>0, <2>1, <2>2, <2>4 DEF RepairInv, Typed, Fresh
<1>7. CASE UNCHANGED vars
    BY <1>0, <1>7 DEF vars, RepairInv, RepairTypeOK, Typed, Fresh, BareIsBare, Known
<1> QED BY <1>2, <1>3, <1>4, <1>5, <1>6, <1>7 DEF Next

LEMMA RepairInvariant == Spec => []RepairInv
BY InitRepairs, NextRepairs, PTL DEF Spec

\* Whatever repairs are carried out and however the customer changes the build, it stays
\* one with distinct ids and one component in a slot, and a fix can be carried out.
THEOREM RepairTypes == Spec => []RepairTypeOK
<1>1. RepairInv => RepairTypeOK
    BY DEF RepairInv
<1> QED BY <1>1, RepairInvariant, PTL

\* A report nothing was done since is exact: the build is valid for compile_build exactly
\* if its parts go together, for every build, offer and order of calls.
THEOREM ReportExact == Spec => []ReportIsExact
<1>1. RepairInv => ReportIsExact
    BY ValidIsCompatible DEF RepairInv, Fresh, RepairTypeOK, ReportIsExact
<1> QED BY <1>1, RepairInvariant, PTL

-----------------------------------------------------------------------------
(* What is found, finding by finding: the components it is about and why *)

\* A part of a required type is not there (E003).
Absent(b, f) ==
    \E t \in Required : Of(b, t) = {} /\ f = [code |-> "E003", refs |-> <<>>, missing |-> t]

SocketsDiffer(b, f) ==
    \E cpu \in Of(b, "cpu"), mb \in Of(b, "mainboard") :
        /\ ~Lacks(cpu, "socket") /\ ~Lacks(mb, "socket")
        /\ cpu.attr["socket"] # mb.attr["socket"]
        /\ f = [code |-> "E001", refs |-> <<cpu.id, mb.id>>]

\* All say what is needed to judge whether CPU, mainboard and RAM go together.
RamIsJudged(ram, cpu, mb) ==
    ~Lacks(ram, "generation") /\ ~Lacks(cpu, "ram_gen_supported") /\ ~Lacks(mb, "ram_gen_supported")

BothSupport(ram, cpu, mb) == Supports(cpu, ram.attr["generation"]) /\ Supports(mb, ram.attr["generation"])

RamDiffers(b, f) ==
    \E ram \in Of(b, "ram"), cpu \in Of(b, "cpu"), mb \in Of(b, "mainboard") :
        /\ RamIsJudged(ram, cpu, mb) /\ ~BothSupport(ram, cpu, mb)
        /\ f = [code |-> "E002", refs |-> <<ram.id, cpu.id, mb.id>>]

CoolerTooHigh(b, f) ==
    \E cooler \in Of(b, "cooler"), kase \in Of(b, "case") :
        /\ ~Lacks(cooler, "height") /\ ~Lacks(kase, "max_cooler_height")
        /\ cooler.attr["height"] > kase.attr["max_cooler_height"]
        /\ f = [code |-> "E004", refs |-> <<cooler.id, kase.id>>]

Boards == {"mainboard", "psu"}

\* A mainboard or PSU and a case say what is needed to judge whether the one fits in the other.
FitIsJudged(part, kase, t) == ~Lacks(part, "form_factor") /\ ~Lacks(kase, ListFor(t))
Fits(part, kase, t) == part.attr["form_factor"] \in Range(kase.attr[ListFor(t)])

BoardUnfit(b, f) ==
    \E t \in Boards : \E part \in Of(b, t), kase \in Of(b, "case") :
        /\ FitIsJudged(part, kase, t) /\ ~Fits(part, kase, t)
        /\ f = [code |-> "E005", refs |-> <<part.id, kase.id>>, component |-> t,
                actual |-> part.attr["form_factor"]]

PsuWeak(b, f) ==
    \E psu \in Of(b, "psu") :
        /\ ~Lacks(psu, "wattage") /\ Tight(psu.attr["wattage"], TdpTotal(b))
        /\ f = [code |-> "W001", refs |-> <<psu.id>>, total |-> TdpTotal(b)]

\* What a rule asks a component for, given what else is there and what that says.
SocketAsked(b, c, a) ==
    /\ a = "socket"
    /\ \/ c \in Of(b, "cpu") /\ \E mb \in Of(b, "mainboard") : TRUE
       \/ c \in Of(b, "mainboard") /\ \E cpu \in Of(b, "cpu") : ~Lacks(cpu, "socket")

RamAsked(b, c, a) ==
    \/ /\ a = "ram_gen_supported"
       /\ \E ram \in Of(b, "ram") : TRUE
       /\ \/ c \in Of(b, "cpu") /\ \E mb \in Of(b, "mainboard") : TRUE
          \/ c \in Of(b, "mainboard") /\ \E cpu \in Of(b, "cpu") : ~Lacks(cpu, "ram_gen_supported")
    \/ /\ a = "generation" /\ c \in Of(b, "ram")
       /\ \E cpu \in Of(b, "cpu") : ~Lacks(cpu, "ram_gen_supported")
       /\ \E mb \in Of(b, "mainboard") : ~Lacks(mb, "ram_gen_supported")

CoolerAsked(b, c, a) ==
    \/ a = "height" /\ c \in Of(b, "cooler") /\ \E kase \in Of(b, "case") : TRUE
    \/ a = "max_cooler_height" /\ c \in Of(b, "case") /\ \E cooler \in Of(b, "cooler") : ~Lacks(cooler, "height")

FitAsked(b, c, a) ==
    \E t \in Boards :
        \/ a = "form_factor" /\ c \in Of(b, t) /\ \E kase \in Of(b, "case") : TRUE
        \/ a = ListFor(t) /\ c \in Of(b, "case") /\ \E part \in Of(b, t) : ~Lacks(part, "form_factor")

PsuAsked(b, c, a) == a = "wattage" /\ c \in Of(b, "psu")

Asked(b, c, a) ==
    SocketAsked(b, c, a) \/ RamAsked(b, c, a) \/ CoolerAsked(b, c, a) \/ FitAsked(b, c, a) \/ PsuAsked(b, c, a)

\* A component does not say what it is asked for (E006).
Silent(b, f) ==
    \E c \in b : \E a \in Labels \cup Lists \cup Measures :
        Lacks(c, a) /\ Asked(b, c, a) /\ f = MissingAttribute(c, a)

Found(b, f) ==
    \/ Absent(b, f) \/ SocketsDiffer(b, f) \/ RamDiffers(b, f) \/ CoolerTooHigh(b, f)
    \/ BoardUnfit(b, f) \/ PsuWeak(b, f) \/ Silent(b, f)

LEMMA GivenHas ==
    ASSUME NEW c, NEW a, NEW d, NEW e, NEW findings, NEW f
    PROVE  f \in Given(c, a, d, e, findings) <=>
               \/ Lacks(c, a) /\ f = MissingAttribute(c, a)
               \/ ~Lacks(c, a) /\ Lacks(d, e) /\ f = MissingAttribute(d, e)
               \/ ~Lacks(c, a) /\ ~Lacks(d, e) /\ f \in findings
BY DEF Given

\* The rule finds f because a component does not say what the rule asks it for.
SilentFor(b, f, c, a) == c \in b /\ Lacks(c, a) /\ f = MissingAttribute(c, a)

LEMMA SocketFinds ==
    ASSUME NEW b, NEW f
    PROVE  f \in CheckSocket(b) <=>
               SocketsDiffer(b, f) \/ \E c, a : SilentFor(b, f, c, a) /\ SocketAsked(b, c, a)
<1> DEFINE R(cpu, mb) == f \in Given(cpu, "socket", mb, "socket", SocketMismatch(cpu, mb))
<1>1. f \in CheckSocket(b) <=> \E cpu \in Of(b, "cpu"), mb \in Of(b, "mainboard") : R(cpu, mb)
    BY DEF CheckSocket
<1>2. \A cpu, mb : R(cpu, mb) <=>
          \/ Lacks(cpu, "socket") /\ f = MissingAttribute(cpu, "socket")
          \/ ~Lacks(cpu, "socket") /\ Lacks(mb, "socket") /\ f = MissingAttribute(mb, "socket")
          \/ /\ ~Lacks(cpu, "socket") /\ ~Lacks(mb, "socket") /\ cpu.attr["socket"] # mb.attr["socket"]
             /\ f = [code |-> "E001", refs |-> <<cpu.id, mb.id>>]
    BY GivenHas DEF SocketMismatch
<1> HIDE DEF R
<1>3. \A t : \A c \in Of(b, t) : c \in b
    BY DEF Of
<1> QED BY <1>1, <1>2, <1>3 DEF SocketsDiffer, SilentFor, SocketAsked

LEMMA RamFinds ==
    ASSUME NEW b, NEW f
    PROVE  f \in CheckRamGen(b) <=>
               RamDiffers(b, f) \/ \E c, a : SilentFor(b, f, c, a) /\ RamAsked(b, c, a)
<1> DEFINE g == "ram_gen_supported"
           R(ram, cpu, mb) == f \in Given(cpu, g, mb, g, RamMismatch(ram, cpu, mb))
<1>1. f \in CheckRamGen(b) <=>
          \E ram \in Of(b, "ram"), cpu \in Of(b, "cpu"), mb \in Of(b, "mainboard") : R(ram, cpu, mb)
    BY DEF CheckRamGen
<1>2. \A ram, cpu, mb : R(ram, cpu, mb) <=>
          \/ Lacks(cpu, g) /\ f = MissingAttribute(cpu, g)
          \/ ~Lacks(cpu, g) /\ Lacks(mb, g) /\ f = MissingAttribute(mb, g)
          \/ ~Lacks(cpu, g) /\ ~Lacks(mb, g) /\ Lacks(ram, "generation") /\ f = MissingAttribute(ram, "generation")
          \/ /\ RamIsJudged(ram, cpu, mb) /\ ~BothSupport(ram, cpu, mb)
             /\ f = [code |-> "E002", refs |-> <<ram.id, cpu.id, mb.id>>]
    BY GivenHas DEF RamMismatch, RamIsJudged, BothSupport
<1> HIDE DEF R
<1>3. \A t : \A c \in Of(b, t) : c \in b
    BY DEF Of
<1>4. f \in CheckRamGen(b) => RamDiffers(b, f) \/ \E c, a : SilentFor(b, f, c, a) /\ RamAsked(b, c, a)
    BY <1>1, <1>2, <1>3 DEF RamDiffers, SilentFor, RamAsked
<1>5. (\E c, a : SilentFor(b, f, c, a) /\ RamAsked(b, c, a)) => f \in CheckRamGen(b)
    BY <1>1, <1>2, <1>3 DEF SilentFor, RamAsked
<1>6. RamDiffers(b, f) => f \in CheckRamGen(b)
    BY <1>1, <1>2 DEF RamDiffers
<1> QED BY <1>4, <1>5, <1>6

LEMMA CoolerFinds ==
    ASSUME NEW b, NEW f
    PROVE  f \in CheckCooler(b) <=>
               CoolerTooHigh(b, f) \/ \E c, a : SilentFor(b, f, c, a) /\ CoolerAsked(b, c, a)
<1> DEFINE R(cooler, kase) == f \in Given(cooler, "height", kase, "max_cooler_height", TooHigh(cooler, kase))
<1>1. f \in CheckCooler(b) <=> \E cooler \in Of(b, "cooler"), kase \in Of(b, "case") : R(cooler, kase)
    BY DEF CheckCooler
<1>2. \A cooler, kase : R(cooler, kase) <=>
          \/ Lacks(cooler, "height") /\ f = MissingAttribute(cooler, "height")
          \/ ~Lacks(cooler, "height") /\ Lacks(kase, "max_cooler_height") /\ f = MissingAttribute(kase, "max_cooler_height")
          \/ /\ ~Lacks(cooler, "height") /\ ~Lacks(kase, "max_cooler_height")
             /\ cooler.attr["height"] > kase.attr["max_cooler_height"]
             /\ f = [code |-> "E004", refs |-> <<cooler.id, kase.id>>]
    BY GivenHas DEF TooHigh
<1> HIDE DEF R
<1>3. \A t : \A c \in Of(b, t) : c \in b
    BY DEF Of
<1> QED BY <1>1, <1>2, <1>3 DEF CoolerTooHigh, SilentFor, CoolerAsked

LEMMA FormFactorFinds ==
    ASSUME NEW b, NEW f
    PROVE  f \in CheckFormFactor(b) <=>
               BoardUnfit(b, f) \/ \E c, a : SilentFor(b, f, c, a) /\ FitAsked(b, c, a)
<1> DEFINE R(part, kase, t) == f \in Given(part, "form_factor", kase, ListFor(t), DoesNotFit(part, kase))
<1>1. f \in CheckFormFactor(b) <=>
          \E t \in Boards : \E part \in Of(b, t), kase \in Of(b, "case") : R(part, kase, t)
    <2>1. f \in CheckFormFactor(b) <=>
              \E part \in Of(b, "mainboard") \cup Of(b, "psu"), kase \in Of(b, "case") : R(part, kase, part.type)
        BY DEF CheckFormFactor
    <2>2. \A t \in Boards : \A part \in Of(b, t) : part.type = t
        BY DEF Of
    <2> HIDE DEF R
    <2> QED BY <2>1, <2>2 DEF Boards
<1>2. \A t, kase : \A part \in Of(b, t) : R(part, kase, t) <=>
          \/ Lacks(part, "form_factor") /\ f = MissingAttribute(part, "form_factor")
          \/ ~Lacks(part, "form_factor") /\ Lacks(kase, ListFor(t)) /\ f = MissingAttribute(kase, ListFor(t))
          \/ /\ FitIsJudged(part, kase, t) /\ ~Fits(part, kase, t)
             /\ f = [code |-> "E005", refs |-> <<part.id, kase.id>>, component |-> t,
                     actual |-> part.attr["form_factor"]]
    <2> TAKE t, kase
    <2> TAKE part \in Of(b, t)
    <2>1. part.type = t
        BY DEF Of
    <2> QED BY <2>1, GivenHas DEF DoesNotFit, FitIsJudged, Fits
<1> HIDE DEF R
<1>3. \A t : \A c \in Of(b, t) : c \in b
    BY DEF Of
<1>4. f \in CheckFormFactor(b) => BoardUnfit(b, f) \/ \E c, a : SilentFor(b, f, c, a) /\ FitAsked(b, c, a)
    BY <1>1, <1>2, <1>3 DEF BoardUnfit, SilentFor, FitAsked
<1>5. (\E c, a : SilentFor(b, f, c, a) /\ FitAsked(b, c, a)) => f \in CheckFormFactor(b)
    BY <1>1, <1>2, <1>3 DEF SilentFor, FitAsked
<1>6. BoardUnfit(b, f) => f \in CheckFormFactor(b)
    BY <1>1, <1>2 DEF BoardUnfit
<1> QED BY <1>4, <1>5, <1>6

LEMMA PsuFinds ==
    ASSUME NEW b, NEW f
    PROVE  f \in CheckPsu(b) <=> PsuWeak(b, f) \/ \E c, a : SilentFor(b, f, c, a) /\ PsuAsked(b, c, a)
<1>1. f \in CheckPsu(b) <=> \E psu \in Of(b, "psu") : f \in PsuTight(psu, TdpTotal(b))
    BY DEF CheckPsu
<1>2. \A psu, total : f \in PsuTight(psu, total) <=>
          \/ Lacks(psu, "wattage") /\ f = MissingAttribute(psu, "wattage")
          \/ /\ ~Lacks(psu, "wattage") /\ Tight(psu.attr["wattage"], total)
             /\ f = [code |-> "W001", refs |-> <<psu.id>>, total |-> total]
    BY DEF PsuTight
<1>3. \A t : \A c \in Of(b, t) : c \in b
    BY DEF Of
<1> QED BY <1>1, <1>2, <1>3 DEF PsuWeak, SilentFor, PsuAsked

\* Validate finds what the rules say, one finding for each reason, and nothing else.
LEMMA ValidateFinds ==
    ASSUME NEW b, NEW f
    PROVE  f \in Validate(b) <=> Found(b, f)
<1>1. f \in CheckMissing(b) <=> Absent(b, f)
    BY DEF CheckMissing, Absent
<1>2. \A c, a : Asked(b, c, a) => a \in Labels \cup Lists \cup Measures
    BY DEF Asked, SocketAsked, RamAsked, CoolerAsked, FitAsked, PsuAsked, ListFor, Labels, Lists, Measures
<1>3. Silent(b, f) <=> \E c, a : SilentFor(b, f, c, a) /\ Asked(b, c, a)
    BY <1>2 DEF Silent, SilentFor
<1>4. f \in Validate(b) <=>
          \/ f \in CheckMissing(b) \/ f \in CheckSocket(b) \/ f \in CheckRamGen(b)
          \/ f \in CheckCooler(b) \/ f \in CheckFormFactor(b) \/ f \in CheckPsu(b)
    BY DEF Validate
<1> QED BY <1>1, <1>3, <1>4, SocketFinds, RamFinds, CoolerFinds, FormFactorFinds, PsuFinds DEF Found, Asked
-----------------------------------------------------------------------------
(* What a change leaves alone *)

\* d is b with attribute a of p set to v, component by component: g says which is which.
Writes(b, d, g, p, a, v) ==
    /\ p \in b
    /\ d = {g[c] : c \in b}
    /\ \A c \in b : g[c].id = c.id /\ g[c].type = c.type
    /\ \A c \in b : \A z : ~(c = p /\ z = a) =>
                             /\ Lacks(g[c], z) <=> Lacks(c, z)
                             /\ ~Lacks(c, z) => g[c].attr[z] = c.attr[z]
    /\ ~Lacks(g[p], a) /\ g[p].attr[a] = v

LEMMA WithWrites ==
    ASSUME NEW c, IsComponent(c), NEW x
    PROVE  LET w == With(c, x)
           IN  /\ w.id = c.id /\ w.type = c.type
               /\ ~Lacks(w, x.attribute) /\ w.attr[x.attribute] = x.value
               /\ \A z : z # x.attribute => /\ Lacks(w, z) <=> Lacks(c, z)
                                            /\ ~Lacks(c, z) => w.attr[z] = c.attr[z]
<1> DEFINE h == [a \in DOMAIN c.attr \cup {x.attribute} |-> IF a = x.attribute THEN x.value ELSE c.attr[a]]
           d == [id |-> c.id, type |-> c.type, attr |-> h]
<1>1. c = [id |-> c.id, type |-> c.type, attr |-> [a \in DOMAIN c.attr |-> c.attr[a]]]
    BY DEF IsComponent
<1>2. With(c, x) = [c EXCEPT !.attr = h]
    BY DEF With
<1>3. /\ DOMAIN h = DOMAIN c.attr \cup {x.attribute} /\ h[x.attribute] = x.value
      /\ \A z \in DOMAIN c.attr : z # x.attribute => h[z] = c.attr[z]
    OBVIOUS
<1> HIDE DEF h
<1>4. With(c, x) = d
    BY <1>1, <1>2
<1>5. d.id = c.id /\ d.type = c.type /\ d.attr = h
    OBVIOUS
<1> HIDE DEF d
<1> QED BY <1>3, <1>4, <1>5 DEF Lacks

LEMMA ChangeWrites ==
    ASSUME NEW b, IsBuild(b), NEW x, x.attribute # "type", NEW p \in b, x.ref = p.id
    PROVE  \E g : Writes(b, Apply(b, x), g, p, x.attribute, x.value)
<1> DEFINE g == [c \in b |-> IF c.id = x.ref THEN With(c, x) ELSE c]
<1>1. Apply(b, x) = {g[c] : c \in b}
    BY DEF Apply
<1>2. \A c \in b : c.id = x.ref <=> c = p
    BY DEF IsBuild
<1>3. g[p] = With(p, x) /\ \A c \in b : c # p => g[c] = c
    BY <1>2
<1> HIDE DEF g
<1>4. \A c \in b : IsComponent(c)
    BY DEF IsBuild
<1>5. \A c \in b : g[c].id = c.id /\ g[c].type = c.type
    <2>1. With(p, x).id = p.id /\ With(p, x).type = p.type
        BY <1>4, WithWrites
    <2> QED BY <1>3, <2>1
<1>6. ASSUME NEW c \in b, NEW z, ~(c = p /\ z = x.attribute)
      PROVE  (Lacks(g[c], z) <=> Lacks(c, z)) /\ (~Lacks(c, z) => g[c].attr[z] = c.attr[z])
    <2>1. CASE c = p
        BY <1>3, <1>4, <1>6, <2>1, WithWrites
    <2>2. CASE c # p
        BY <1>3, <2>2
    <2> QED BY <2>1, <2>2
<1>7. ~Lacks(g[p], x.attribute) /\ g[p].attr[x.attribute] = x.value
    BY <1>3, <1>4, WithWrites
<1>8. Writes(b, Apply(b, x), g, p, x.attribute, x.value)
    BY <1>1, <1>5, <1>6, <1>7 DEF Writes
<1> QED BY <1>8

\* d has every component of b, which says at least what it said.
Keeps(b, d, g) ==
    \A c \in b : /\ g[c] \in d /\ g[c].id = c.id /\ g[c].type = c.type
                 /\ \A z : Lacks(g[c], z) => Lacks(c, z)

LEMMA WritesKeeps ==
    ASSUME NEW b, NEW d, NEW g, NEW p, NEW a, NEW v, Writes(b, d, g, p, a, v)
    PROVE  Keeps(b, d, g)
BY DEF Writes, Keeps

LEMMA KeepsOf ==
    ASSUME NEW b, NEW d, NEW g, Keeps(b, d, g), NEW t, NEW c \in Of(b, t)
    PROVE  c \in b /\ g[c] \in Of(d, t) /\ g[c].id = c.id /\ \A z : ~Lacks(c, z) => ~Lacks(g[c], z)
BY DEF Keeps, Of

LEMMA WritesOf ==
    ASSUME NEW b, NEW d, NEW g, NEW p, NEW a, NEW v, Writes(b, d, g, p, a, v), NEW t
    PROVE  Of(d, t) = {g[c] : c \in Of(b, t)}
BY DEF Writes, Of

\* What is asked of a component goes on being asked as more is there and said.
LEMMA AskedGrows ==
    ASSUME NEW b, NEW d, NEW g, Keeps(b, d, g), NEW c, NEW a, Asked(b, c, a)
    PROVE  Asked(d, g[c], a)
<1>1. \A t : \A e \in Of(b, t) : g[e] \in Of(d, t) /\ \A z : ~Lacks(e, z) => ~Lacks(g[e], z)
    BY KeepsOf
<1>2. SocketAsked(b, c, a) => SocketAsked(d, g[c], a)
    BY <1>1 DEF SocketAsked
<1>3. RamAsked(b, c, a) => RamAsked(d, g[c], a)
    BY <1>1 DEF RamAsked
<1>4. CoolerAsked(b, c, a) => CoolerAsked(d, g[c], a)
    BY <1>1 DEF CoolerAsked
<1>5. FitAsked(b, c, a) => FitAsked(d, g[c], a)
    BY <1>1 DEF FitAsked
<1>6. PsuAsked(b, c, a) => PsuAsked(d, g[c], a)
    BY <1>1 DEF PsuAsked
<1> QED BY <1>2, <1>3, <1>4, <1>5, <1>6 DEF Asked

\* What a component is asked for that said already what is changed was asked before.
LEMMA AskedBefore ==
    ASSUME NEW b, NEW d, NEW g, NEW p, NEW a, NEW v, Writes(b, d, g, p, a, v), ~Lacks(p, a),
           NEW c \in b, NEW z, Asked(d, g[c], z)
    PROVE  Asked(b, c, z)
<1>1. \A t : \A e \in Of(d, t) : \E o \in Of(b, t) : e = g[o] /\ \A y : ~Lacks(e, y) => ~Lacks(o, y)
    <2> TAKE t
    <2> TAKE e \in Of(d, t)
    <2>1. PICK o \in Of(b, t) : e = g[o]
        BY WritesOf
    <2>2. o \in b
        BY DEF Of
    <2>3. \A y : Lacks(o, y) => Lacks(g[o], y)
        BY <2>2 DEF Writes
    <2> QED BY <2>1, <2>3
<1>2. \A t : g[c] \in Of(d, t) => c \in Of(b, t)
    BY DEF Writes, Of
<1>3. SocketAsked(d, g[c], z) => SocketAsked(b, c, z)
    BY <1>1, <1>2 DEF SocketAsked
<1>4. RamAsked(d, g[c], z) => RamAsked(b, c, z)
    BY <1>1, <1>2 DEF RamAsked
<1>5. CoolerAsked(d, g[c], z) => CoolerAsked(b, c, z)
    BY <1>1, <1>2 DEF CoolerAsked
<1>6. FitAsked(d, g[c], z) => FitAsked(b, c, z)
    BY <1>1, <1>2 DEF FitAsked
<1>7. PsuAsked(d, g[c], z) => PsuAsked(b, c, z)
    BY <1>2 DEF PsuAsked
<1> QED BY <1>3, <1>4, <1>5, <1>6, <1>7 DEF Asked

LEMMA WritesTotal ==
    ASSUME NEW b, NEW d, NEW g, NEW p, NEW a, NEW v, Writes(b, d, g, p, a, v), a # "tdp"
    PROVE  TdpTotal(d) = TdpTotal(b)
<1>1. \A c \in b : Watts(g[c]) = Watts(c)
    <2> TAKE c \in b
    <2>1. g[c].id = c.id /\ (Lacks(g[c], "tdp") <=> Lacks(c, "tdp"))
          /\ (~Lacks(c, "tdp") => g[c].attr["tdp"] = c.attr["tdp"])
        BY DEF Writes
    <2> QED BY <2>1 DEF Watts
<1>2. {Watts(e) : e \in {e \in d : e.type # "psu"}} = {Watts(c) : c \in {c \in b : c.type # "psu"}}
    BY <1>1 DEF Writes
<1> QED BY <1>2 DEF TdpTotal

LEMMA BareTotal ==
    ASSUME NEW b, NEW t
    PROVE  TdpTotal(b \cup {Bare(t)}) = TdpTotal(b)
<1> DEFINE W(s) == UNION {Watts(c) : c \in {c \in s : c.type # "psu"}}
<1>1. Watts(Bare(t)) = {}
    BY DEF Watts, Bare, Lacks
<1>2. W(b \cup {Bare(t)}) = W(b)
    <2>1. ASSUME NEW y \in W(b \cup {Bare(t)}) PROVE y \in W(b)
        <3>1. PICK c \in b \cup {Bare(t)} : c.type # "psu" /\ y \in Watts(c)
            OBVIOUS
        <3>2. c \in b
            BY <1>1, <3>1
        <3> QED BY <3>1, <3>2
    <2>2. W(b) \subseteq W(b \cup {Bare(t)})
        OBVIOUS
    <2> QED BY <2>1, <2>2
<1> HIDE DEF W
<1>3. TdpTotal(b) = Cardinality(W(b)) /\ TdpTotal(b \cup {Bare(t)}) = Cardinality(W(b \cup {Bare(t)}))
    BY DEF TdpTotal, W
<1> QED BY <1>2, <1>3

\* There is one component of a type that has one slot.
LEMMA OneOfType ==
    ASSUME NEW b, IsBuild(b), NEW t, t \notin {"ram", "storage"}, NEW c \in Of(b, t), NEW d \in Of(b, t)
    PROVE  c = d
BY DEF IsBuild, Of

LEMMA ByIdIs ==
    ASSUME NEW b, IsBuild(b), NEW c \in b
    PROVE  ById(b, c.id) = c
BY DEF ById, IsBuild
-----------------------------------------------------------------------------
(* What a fix brings about, for each reason of a finding *)

AlignsSocket(b, h, p, a, v) ==
    \E cpu \in Of(b, "cpu"), mb \in Of(b, "mainboard") :
        /\ ~Lacks(cpu, "socket") /\ ~Lacks(mb, "socket")
        /\ cpu.attr["socket"] # mb.attr["socket"]
        /\ h = [code |-> "E001", refs |-> <<cpu.id, mb.id>>]
        /\ a = "socket"
        /\ \/ p = cpu /\ v = mb.attr["socket"]
           \/ p = mb /\ v = cpu.attr["socket"]

ReplacesRam(b, h, p, a, v) ==
    \E ram \in Of(b, "ram"), cpu \in Of(b, "cpu"), mb \in Of(b, "mainboard") :
        /\ RamIsJudged(ram, cpu, mb) /\ ~BothSupport(ram, cpu, mb)
        /\ h = [code |-> "E002", refs |-> <<ram.id, cpu.id, mb.id>>]
        /\ a = "generation" /\ p = ram
        /\ Common(cpu, mb) = {} \/ (Supports(cpu, v) /\ Supports(mb, v))

LowersCooler(b, h, p, a, v) ==
    \E cooler \in Of(b, "cooler"), kase \in Of(b, "case") :
        /\ ~Lacks(cooler, "height") /\ ~Lacks(kase, "max_cooler_height")
        /\ cooler.attr["height"] > kase.attr["max_cooler_height"]
        /\ h = [code |-> "E004", refs |-> <<cooler.id, kase.id>>]
        /\ \/ p = cooler /\ a = "height" /\ v = kase.attr["max_cooler_height"]
           \/ p = kase /\ a = "max_cooler_height" /\ v = cooler.attr["height"]

FitsBoard(b, h, p, a, v) ==
    \E t \in Boards : \E part \in Of(b, t), kase \in Of(b, "case") :
        /\ FitIsJudged(part, kase, t) /\ ~Fits(part, kase, t)
        /\ h = [code |-> "E005", refs |-> <<part.id, kase.id>>, component |-> t,
                actual |-> part.attr["form_factor"]]
        /\ \/ p = part /\ a = "form_factor" /\ v \in Range(kase.attr[ListFor(t)])
           \/ p = kase /\ a = ListFor(t) /\ part.attr["form_factor"] \in Range(v)

RaisesPsu(b, h, p, a, v) ==
    \E psu \in Of(b, "psu") :
        /\ ~Lacks(psu, "wattage") /\ Tight(psu.attr["wattage"], TdpTotal(b))
        /\ h = [code |-> "W001", refs |-> <<psu.id>>, total |-> TdpTotal(b)]
        /\ p = psu /\ a = "wattage" /\ v = Headroom(TdpTotal(b))

\* The change makes two components agree that did not: it supplies nothing.
Corrects(b, h, p, a, v) ==
    \/ AlignsSocket(b, h, p, a, v) \/ ReplacesRam(b, h, p, a, v) \/ LowersCooler(b, h, p, a, v)
    \/ FitsBoard(b, h, p, a, v) \/ RaisesPsu(b, h, p, a, v)

Supplies(h, p, a) == Lacks(p, a) /\ h = MissingAttribute(p, a)

Adds(b, h, d) ==
    \E t \in Required : /\ Of(b, t) = {}
                        /\ h = [code |-> "E003", refs |-> <<>>, missing |-> t]
                        /\ d = b \cup {Bare(t)}

Changes(b, h, d, g, p, a, v) ==
    Writes(b, d, g, p, a, v) /\ a # "tdp" /\ (Supplies(h, p, a) \/ Corrects(b, h, p, a, v))

\* What carrying out a fix of h makes of b.
Repairs(b, h, d) == Adds(b, h, d) \/ \E g, p, a, v : Changes(b, h, d, g, p, a, v)

LEMMA CorrectsGiven ==
    ASSUME NEW b, NEW h, NEW p, NEW a, NEW v, Corrects(b, h, p, a, v)
    PROVE  p \in b /\ ~Lacks(p, a) /\ a \notin {"tdp", "type", "ram_gen_supported"}
<1>1. \A t : \A c \in Of(b, t) : c \in b
    BY DEF Of
<1>2. AlignsSocket(b, h, p, a, v) => p \in b /\ ~Lacks(p, a) /\ a = "socket"
    BY <1>1 DEF AlignsSocket
<1>3. ReplacesRam(b, h, p, a, v) => p \in b /\ ~Lacks(p, a) /\ a = "generation"
    BY <1>1 DEF ReplacesRam, RamIsJudged
<1>4. LowersCooler(b, h, p, a, v) => p \in b /\ ~Lacks(p, a) /\ a \in {"height", "max_cooler_height"}
    BY <1>1 DEF LowersCooler
<1>5. FitsBoard(b, h, p, a, v) =>
          p \in b /\ ~Lacks(p, a) /\ a \in {"form_factor", "supported_mb_form_factors", "supported_psu_form_factors"}
    BY <1>1 DEF FitsBoard, FitIsJudged, ListFor
<1>6. RaisesPsu(b, h, p, a, v) => p \in b /\ ~Lacks(p, a) /\ a = "wattage"
    BY <1>1 DEF RaisesPsu
<1> QED BY <1>2, <1>3, <1>4, <1>5, <1>6 DEF Corrects

LEMMA CorrectionRepairs ==
    ASSUME NEW b, IsBuild(b), NEW h, NEW p, NEW x, x.ref = p.id, Corrects(b, h, p, x.attribute, x.value)
    PROVE  Repairs(b, h, Apply(b, x))
<1>1. p \in b /\ x.attribute \notin {"tdp", "type"}
    BY CorrectsGiven
<1>2. PICK g : Writes(b, Apply(b, x), g, p, x.attribute, x.value)
    BY <1>1, ChangeWrites
<1> QED BY <1>1, <1>2 DEF Repairs, Changes

\* A generation that the repair takes because it is in common is supported by both.
LEMMA TargetIsCommon ==
    ASSUME NEW cpu, NEW mb, IsComponent(cpu),
           ~Lacks(cpu, "ram_gen_supported"), ~Lacks(mb, "ram_gen_supported"), Common(cpu, mb) # {}
    PROVE  Supports(cpu, Head(TargetGens(cpu, mb))) /\ Supports(mb, Head(TargetGens(cpu, mb)))
<1> DEFINE first == CHOOSE i \in Common(cpu, mb) : \A j \in Common(cpu, mb) : i <= j
<1>1. first \in Common(cpu, mb)
    BY FirstInCommon
<1>2. TargetGens(cpu, mb) = <<Gens(cpu)[first]>>
    BY DEF TargetGens
<1>3. Gens(cpu) = cpu.attr["ram_gen_supported"] /\ Gens(mb) = mb.attr["ram_gen_supported"]
    BY DEF Gens, ListOf
<1> HIDE DEF first
<1>4. Head(TargetGens(cpu, mb)) = Gens(cpu)[first]
    BY <1>2
<1> QED BY <1>1, <1>3, <1>4 DEF Common, Supports, Range

LEMMA PairOfFixes ==
    ASSUME NEW x, NEW y, NEW i \in DOMAIN <<x, y>>
    PROVE  <<x, y>>[i] \in {x, y}
OBVIOUS

LEMMA SocketRepairs ==
    ASSUME NEW b, IsBuild(b), NEW h, SocketsDiffer(b, h), NEW i \in DOMAIN FixesFor(b, h)
    PROVE  Repairs(b, h, Apply(b, FixesFor(b, h)[i]))
<1>1. PICK cpu \in Of(b, "cpu"), mb \in Of(b, "mainboard") :
          /\ ~Lacks(cpu, "socket") /\ ~Lacks(mb, "socket")
          /\ cpu.attr["socket"] # mb.attr["socket"]
          /\ h = [code |-> "E001", refs |-> <<cpu.id, mb.id>>]
    BY DEF SocketsDiffer
<1>2. cpu \in b /\ mb \in b
    BY DEF Of
<1> DEFINE x == Change(cpu.id, "socket", mb.attr["socket"])
           y == Change(mb.id, "socket", cpu.attr["socket"])
<1>3. FixesFor(b, h) = <<x, y>> \/ FixesFor(b, h) = <<>>
    <2>1. FixesFor(b, h) = RepairSocket(ById(b, cpu.id), ById(b, mb.id))
        BY <1>1 DEF FixesFor
    <2>2. FixesFor(b, h) = RepairSocket(cpu, mb)
        BY <1>2, <2>1, ByIdIs
    <2> QED BY <1>1, <2>2 DEF RepairSocket, Align
<1>4. Corrects(b, h, cpu, x.attribute, x.value) /\ x.ref = cpu.id
    BY <1>1 DEF Corrects, AlignsSocket, Change
<1>5. Corrects(b, h, mb, y.attribute, y.value) /\ y.ref = mb.id
    BY <1>1 DEF Corrects, AlignsSocket, Change
<1> HIDE DEF x, y
<1>6. FixesFor(b, h)[i] \in {x, y}
    BY <1>3, PairOfFixes
<1> QED BY <1>4, <1>5, <1>6, CorrectionRepairs

LEMMA RamRepairs ==
    ASSUME NEW b, IsBuild(b), NEW h, RamDiffers(b, h), NEW i \in DOMAIN FixesFor(b, h)
    PROVE  Repairs(b, h, Apply(b, FixesFor(b, h)[i]))
<1>1. PICK ram \in Of(b, "ram"), cpu \in Of(b, "cpu"), mb \in Of(b, "mainboard") :
          /\ RamIsJudged(ram, cpu, mb) /\ ~BothSupport(ram, cpu, mb)
          /\ h = [code |-> "E002", refs |-> <<ram.id, cpu.id, mb.id>>]
    BY DEF RamDiffers
<1>2. cpu \in b /\ mb \in b /\ IsComponent(cpu)
    BY DEF Of, IsBuild
<1> DEFINE x == Change(ram.id, "generation", Head(TargetGens(cpu, mb)))
<1>3. FixesFor(b, h) = <<>> \/ FixesFor(b, h) = <<x>>
    <2>1. FixesFor(b, h) = RepairRamGen(ram.id, ById(b, cpu.id), ById(b, mb.id))
        BY <1>1 DEF FixesFor
    <2> QED BY <1>2, <2>1, ByIdIs DEF RepairRamGen
<1>4. x.ref = ram.id /\ x.attribute = "generation" /\ x.value = Head(TargetGens(cpu, mb))
    BY DEF Change
<1>5. Common(cpu, mb) = {} \/ (Supports(cpu, x.value) /\ Supports(mb, x.value))
    BY <1>1, <1>2, <1>4, TargetIsCommon DEF RamIsJudged
<1> HIDE DEF x
<1>6. ReplacesRam(b, h, ram, x.attribute, x.value)
    BY <1>1, <1>4, <1>5 DEF ReplacesRam
<1>7. FixesFor(b, h)[i] = x
    BY <1>3
<1> QED BY <1>4, <1>6, <1>7, CorrectionRepairs DEF Corrects

LEMMA CoolerRepairs ==
    ASSUME NEW b, IsBuild(b), NEW h, CoolerTooHigh(b, h), NEW i \in DOMAIN FixesFor(b, h)
    PROVE  Repairs(b, h, Apply(b, FixesFor(b, h)[i]))
<1>1. PICK cooler \in Of(b, "cooler"), kase \in Of(b, "case") :
          /\ ~Lacks(cooler, "height") /\ ~Lacks(kase, "max_cooler_height")
          /\ cooler.attr["height"] > kase.attr["max_cooler_height"]
          /\ h = [code |-> "E004", refs |-> <<cooler.id, kase.id>>]
    BY DEF CoolerTooHigh
<1>2. cooler \in b /\ kase \in b
    BY DEF Of
<1> DEFINE x == Change(cooler.id, "height", kase.attr["max_cooler_height"])
           y == Change(kase.id, "max_cooler_height", cooler.attr["height"])
<1>3. FixesFor(b, h) = <<x, y>>
    <2>1. FixesFor(b, h) = Align(ById(b, cooler.id), "height", ById(b, kase.id), "max_cooler_height")
        BY <1>1 DEF FixesFor
    <2> QED BY <1>1, <1>2, <2>1, ByIdIs DEF Align
<1>4. Corrects(b, h, cooler, x.attribute, x.value) /\ x.ref = cooler.id
    BY <1>1 DEF Corrects, LowersCooler, Change
<1>5. Corrects(b, h, kase, y.attribute, y.value) /\ y.ref = kase.id
    BY <1>1 DEF Corrects, LowersCooler, Change
<1> HIDE DEF x, y
<1>6. FixesFor(b, h)[i] \in {x, y}
    BY <1>3, PairOfFixes
<1> QED BY <1>4, <1>5, <1>6, CorrectionRepairs

LEMMA BoardRepairs ==
    ASSUME NEW b, IsBuild(b), NEW h, BoardUnfit(b, h), NEW i \in DOMAIN FixesFor(b, h)
    PROVE  Repairs(b, h, Apply(b, FixesFor(b, h)[i]))
<1>1. PICK t \in Boards : \E part \in Of(b, t), kase \in Of(b, "case") :
          /\ FitIsJudged(part, kase, t) /\ ~Fits(part, kase, t)
          /\ h = [code |-> "E005", refs |-> <<part.id, kase.id>>, component |-> t,
                  actual |-> part.attr["form_factor"]]
    BY DEF BoardUnfit
<1>2. PICK part \in Of(b, t), kase \in Of(b, "case") :
          /\ FitIsJudged(part, kase, t) /\ ~Fits(part, kase, t)
          /\ h = [code |-> "E005", refs |-> <<part.id, kase.id>>, component |-> t,
                  actual |-> part.attr["form_factor"]]
    BY <1>1
<1>3. part \in b /\ kase \in b /\ IsComponent(part) /\ IsComponent(kase)
    BY DEF Of, IsBuild
<1> DEFINE list == kase.attr[ListFor(t)]
           x == Change(part.id, "form_factor", Head(list))
           y == Change(kase.id, ListFor(t), Append(list, part.attr["form_factor"]))
<1>4. list \in Seq(Names) /\ part.attr["form_factor"] \in Names
    <2>1. IsValue(ListFor(t), list) /\ IsValue("form_factor", part.attr["form_factor"])
        BY <1>2, <1>3, AttributeIsValue DEF FitIsJudged
    <2> QED BY <2>1 DEF IsValue, ListFor, Lists, Labels
<1> DEFINE ofPart == IF list = <<>> THEN <<>> ELSE <<x>>
           ofCase == IF part.attr["form_factor"] = "" THEN <<>> ELSE <<y>>
<1>5. FixesFor(b, h) = ofPart \o ofCase
    <2>1. FixesFor(b, h) = RepairFormFactor(h, ById(b, kase.id))
        BY <1>2 DEF FixesFor
    <2>2. ListOf(kase, ListFor(t)) = list
        BY <1>2 DEF ListOf, FitIsJudged
    <2>3. h.component = t /\ h.refs[1] = part.id /\ h.actual = part.attr["form_factor"]
        BY <1>2
    <2>4. ById(b, kase.id) = kase
        BY <1>3, ByIdIs
    <2> HIDE DEF list
    <2> QED BY <2>1, <2>2, <2>3, <2>4 DEF RepairFormFactor
<1>6. y.ref = kase.id /\ y.attribute = ListFor(t) /\ y.value = Append(list, part.attr["form_factor"])
    BY DEF Change
<1>7. part.attr["form_factor"] \in Range(Append(list, part.attr["form_factor"]))
    <2> HIDE DEF list
    <2>1. /\ Len(list) + 1 \in DOMAIN Append(list, part.attr["form_factor"])
          /\ Append(list, part.attr["form_factor"])[Len(list) + 1] = part.attr["form_factor"]
        BY <1>4
    <2> QED BY <2>1 DEF Range
<1>8. FitsBoard(b, h, kase, y.attribute, y.value)
    <2> HIDE DEF y
    <2> QED BY <1>2, <1>6, <1>7 DEF FitsBoard
<1>9. x.ref = part.id /\ x.attribute = "form_factor" /\ x.value = Head(list)
    BY DEF Change
<1>10. ASSUME list # <<>> PROVE FitsBoard(b, h, part, x.attribute, x.value)
    <2>1. 1 \in DOMAIN list /\ Head(list) = list[1]
        BY <1>4, <1>10
    <2>2. Head(list) \in Range(list)
        BY <2>1 DEF Range
    <2> HIDE DEF x
    <2> QED BY <1>2, <1>9, <2>2 DEF FitsBoard
<1>11. FixesFor(b, h)[i] = y \/ (list # <<>> /\ FixesFor(b, h)[i] = x)
    <2> HIDE DEF x, y, list
    <2>1. /\ ofPart = <<>> \/ (ofPart = <<x>> /\ list # <<>>)
          /\ ofCase = <<>> \/ ofCase = <<y>>
          /\ <<x>> # <<>>
        OBVIOUS
    <2> HIDE DEF ofPart, ofCase
    <2>2. \A j \in DOMAIN (ofPart \o ofCase) : (ofPart \o ofCase)[j] = y \/ (ofPart = <<x>> /\ (ofPart \o ofCase)[j] = x)
        BY <2>1, PartsOfFixes
    <2> QED BY <1>5, <2>1, <2>2
<1> HIDE DEF x, y, list
<1> QED BY <1>6, <1>8, <1>9, <1>10, <1>11, CorrectionRepairs DEF Corrects

LEMMA PsuRepairs ==
    ASSUME NEW b, IsBuild(b), NEW h, PsuWeak(b, h), NEW i \in DOMAIN FixesFor(b, h)
    PROVE  Repairs(b, h, Apply(b, FixesFor(b, h)[i]))
<1>1. PICK psu \in Of(b, "psu") :
          /\ ~Lacks(psu, "wattage") /\ Tight(psu.attr["wattage"], TdpTotal(b))
          /\ h = [code |-> "W001", refs |-> <<psu.id>>, total |-> TdpTotal(b)]
    BY DEF PsuWeak
<1> DEFINE x == Change(psu.id, "wattage", Headroom(TdpTotal(b)))
<1>2. FixesFor(b, h) = <<x>>
    BY <1>1 DEF FixesFor
<1>3. Corrects(b, h, psu, x.attribute, x.value) /\ x.ref = psu.id
    BY <1>1 DEF Corrects, RaisesPsu, Change
<1> HIDE DEF x
<1>4. FixesFor(b, h)[i] = x
    BY <1>2
<1> QED BY <1>3, <1>4, CorrectionRepairs

\* Every fix of a finding of the build is one of these.
LEMMA FixRepairs ==
    ASSUME NEW b, IsBuild(b), NEW h \in Validate(b), NEW i \in DOMAIN FixesFor(b, h)
    PROVE  Repairs(b, h, Apply(b, FixesFor(b, h)[i]))
<1>1. Found(b, h)
    BY ValidateFinds
<1>2. CASE Absent(b, h)
    <2>1. PICK t \in Required : Of(b, t) = {} /\ h = [code |-> "E003", refs |-> <<>>, missing |-> t]
        BY <1>2 DEF Absent
    <2> DEFINE x == Change(t, "type", t)
    <2>2. FixesFor(b, h) = <<x>>
        BY <2>1 DEF FixesFor
    <2>3. x.attribute = "type" /\ x.value = t
        BY DEF Change
    <2> HIDE DEF x
    <2>4. FixesFor(b, h)[i] = x
        BY <2>2
    <2>5. Apply(b, x) = b \cup {Bare(t)}
        BY <2>3 DEF Apply
    <2> QED BY <2>1, <2>4, <2>5 DEF Repairs, Adds
<1>3. CASE Silent(b, h)
    <2>1. PICK c \in b, a \in Labels \cup Lists \cup Measures :
              Lacks(c, a) /\ Asked(b, c, a) /\ h = MissingAttribute(c, a)
        BY <1>3 DEF Silent
    <2> DEFINE x == Change(c.id, a, Placeholders[a])
    <2>2. FixesFor(b, h) = <<x>>
        BY <2>1 DEF FixesFor, MissingAttribute
    <2>3. x.ref = c.id /\ x.attribute = a /\ x.value = Placeholders[a]
        BY DEF Change
    <2>4. a # "tdp"
        BY <2>1 DEF Asked, SocketAsked, RamAsked, CoolerAsked, FitAsked, PsuAsked, ListFor
    <2>5. a # "type"
        BY DEF Labels, Lists, Measures
    <2> HIDE DEF x
    <2>6. FixesFor(b, h)[i] = x
        BY <2>2
    <2>7. PICK g : Writes(b, Apply(b, x), g, c, a, x.value)
        BY <2>3, <2>5, ChangeWrites
    <2>8. Changes(b, h, Apply(b, x), g, c, a, x.value)
        BY <2>1, <2>4, <2>7 DEF Changes, Supplies
    <2> QED BY <2>6, <2>8 DEF Repairs
<1> QED BY <1>1, <1>2, <1>3, SocketRepairs, RamRepairs, CoolerRepairs, BoardRepairs, PsuRepairs DEF Found
-----------------------------------------------------------------------------
(* What a fix does to the other findings, and to those settled before *)

\* What f was about is there, is judged and agrees. RAM may be settled without agreeing,
\* with a CPU and a mainboard that have no generation in common.
Settled(b, f) ==
    /\ f.code = "E001" =>
          \E cpu \in Of(b, "cpu"), mb \in Of(b, "mainboard") :
              ~Lacks(cpu, "socket") /\ ~Lacks(mb, "socket") /\ cpu.attr["socket"] = mb.attr["socket"]
    /\ f.code = "E002" =>
          \E ram \in Of(b, "ram"), cpu \in Of(b, "cpu"), mb \in Of(b, "mainboard") :
              /\ f = [code |-> "E002", refs |-> <<ram.id, cpu.id, mb.id>>]
              /\ RamIsJudged(ram, cpu, mb)
              /\ Common(cpu, mb) = {} \/ BothSupport(ram, cpu, mb)
    /\ f.code = "E003" => Of(b, f.missing) # {}
    /\ f.code = "E004" =>
          \E cooler \in Of(b, "cooler"), kase \in Of(b, "case") :
              /\ ~Lacks(cooler, "height") /\ ~Lacks(kase, "max_cooler_height")
              /\ ~(cooler.attr["height"] > kase.attr["max_cooler_height"])
    /\ f.code = "E005" =>
          \E part \in Of(b, f.component), kase \in Of(b, "case") :
              FitIsJudged(part, kase, f.component) /\ Fits(part, kase, f.component)
    /\ f.code = "E006" => \E c \in b : f.refs = <<c.id>> /\ ~Lacks(c, f.attribute)
    /\ f.code = "W001" =>
          \E psu \in Of(b, "psu") : ~Lacks(psu, "wattage") /\ ~Tight(psu.attr["wattage"], f.total)

\* g says what becomes of each component: it keeps what it says, but for the correction.
Follows(b, h, d, g) ==
    /\ Keeps(b, d, g)
    /\ TdpTotal(d) = TdpTotal(b)
    /\ \A c \in b : \A z : ~Lacks(c, z) => g[c].attr[z] = c.attr[z] \/ Corrects(b, h, c, z, g[c].attr[z])

LEMMA ChangesFollows ==
    ASSUME NEW b, NEW h, NEW d, NEW g, NEW p, NEW a, NEW v, Changes(b, h, d, g, p, a, v)
    PROVE  Follows(b, h, d, g)
<1>1. Writes(b, d, g, p, a, v) /\ a # "tdp" /\ (Lacks(p, a) \/ Corrects(b, h, p, a, v))
    BY DEF Changes, Supplies
<1>2. Keeps(b, d, g) /\ TdpTotal(d) = TdpTotal(b)
    BY <1>1, WritesKeeps, WritesTotal
<1>3. ASSUME NEW c \in b, NEW z, ~Lacks(c, z)
      PROVE  g[c].attr[z] = c.attr[z] \/ Corrects(b, h, c, z, g[c].attr[z])
    BY <1>1, <1>3 DEF Writes
<1> QED BY <1>2, <1>3 DEF Follows

LEMMA AddsFollows ==
    ASSUME NEW b, NEW h, NEW d, Adds(b, h, d)
    PROVE  Follows(b, h, d, [c \in b |-> c])
<1>1. PICK t : d = b \cup {Bare(t)}
    BY DEF Adds
<1>2. TdpTotal(d) = TdpTotal(b)
    BY <1>1, BareTotal
<1> QED BY <1>1, <1>2 DEF Follows, Keeps

LEMMA RepairFollows ==
    ASSUME NEW b, NEW h, NEW d, Repairs(b, h, d)
    PROVE  \E g : Follows(b, h, d, g)
BY ChangesFollows, AddsFollows DEF Repairs

\* What becomes of a component of type t.
LEMMA FollowsOf ==
    ASSUME NEW b, NEW h, NEW d, NEW g, Follows(b, h, d, g), NEW t, NEW c \in Of(b, t)
    PROVE  /\ c \in b /\ g[c] \in Of(d, t) /\ g[c].id = c.id
           /\ \A z : ~Lacks(c, z) => /\ ~Lacks(g[c], z)
                                     /\ g[c].attr[z] = c.attr[z] \/ Corrects(b, h, c, z, g[c].attr[z])
BY KeepsOf DEF Follows

\* Whose attribute a correction changes.
LEMMA CorrectsWhich ==
    ASSUME NEW b, NEW h, NEW p, NEW a, NEW v, Corrects(b, h, p, a, v)
    PROVE  /\ a = "socket" => AlignsSocket(b, h, p, a, v)
           /\ a = "generation" => ReplacesRam(b, h, p, a, v)
           /\ a \in {"height", "max_cooler_height"} => LowersCooler(b, h, p, a, v)
           /\ a \in {"form_factor", "supported_mb_form_factors", "supported_psu_form_factors"} =>
                  FitsBoard(b, h, p, a, v)
           /\ a = "wattage" => RaisesPsu(b, h, p, a, v)
<1>1. AlignsSocket(b, h, p, a, v) => a = "socket"
    BY DEF AlignsSocket
<1>2. ReplacesRam(b, h, p, a, v) => a = "generation"
    BY DEF ReplacesRam
<1>3. LowersCooler(b, h, p, a, v) => a \in {"height", "max_cooler_height"}
    BY DEF LowersCooler
<1>4. FitsBoard(b, h, p, a, v) =>
          a \in {"form_factor", "supported_mb_form_factors", "supported_psu_form_factors"}
    BY DEF FitsBoard, ListFor
<1>5. RaisesPsu(b, h, p, a, v) => a = "wattage"
    BY DEF RaisesPsu
<1> QED BY <1>1, <1>2, <1>3, <1>4, <1>5 DEF Corrects

LEMMA HeadroomIsEnough ==
    ASSUME NEW total \in Nat
    PROVE  ~Tight(Headroom(total), total)
BY DEF Tight, Headroom

LEMMA HeadroomRaises ==
    ASSUME NEW total \in Nat, NEW w \in Nat, Tight(w, total), NEW other \in Nat, ~Tight(w, other)
    PROVE  ~Tight(Headroom(total), other)
BY DEF Tight, Headroom

LEMMA SocketStays ==
    ASSUME NEW b, IsBuild(b), NEW h, NEW d, NEW g, Follows(b, h, d, g),
           NEW cpu \in Of(b, "cpu"), NEW mb \in Of(b, "mainboard"), ~Lacks(cpu, "socket"), ~Lacks(mb, "socket"),
           h # [code |-> "E001", refs |-> <<cpu.id, mb.id>>] \/ cpu.attr["socket"] = mb.attr["socket"]
    PROVE  g[cpu].attr["socket"] = cpu.attr["socket"] /\ g[mb].attr["socket"] = mb.attr["socket"]
<1>1. ASSUME NEW p, NEW v, p \in {cpu, mb}, Corrects(b, h, p, "socket", v) PROVE FALSE
    <2>1. AlignsSocket(b, h, p, "socket", v)
        BY <1>1, CorrectsWhich
    <2>2. PICK c \in Of(b, "cpu"), m \in Of(b, "mainboard") :
              c.attr["socket"] # m.attr["socket"] /\ h = [code |-> "E001", refs |-> <<c.id, m.id>>]
        BY <2>1 DEF AlignsSocket
    <2>3. c = cpu /\ m = mb
        BY OneOfType
    <2> QED BY <2>2, <2>3
<1> QED BY <1>1, FollowsOf

LEMMA GensStay ==
    ASSUME NEW b, NEW h, NEW d, NEW g, Follows(b, h, d, g), NEW t, NEW c \in Of(b, t),
           ~Lacks(c, "ram_gen_supported")
    PROVE  g[c].attr["ram_gen_supported"] = c.attr["ram_gen_supported"] /\ Gens(g[c]) = Gens(c)
<1>1. ~Lacks(g[c], "ram_gen_supported") /\ g[c].attr["ram_gen_supported"] = c.attr["ram_gen_supported"]
    BY FollowsOf, CorrectsGiven
<1> QED BY <1>1 DEF Gens, ListOf

LEMMA RamStays ==
    ASSUME NEW b, IsBuild(b), NEW h, NEW d, NEW g, Follows(b, h, d, g),
           NEW ram \in Of(b, "ram"), NEW cpu \in Of(b, "cpu"), NEW mb \in Of(b, "mainboard"),
           RamIsJudged(ram, cpu, mb)
    PROVE  /\ RamIsJudged(g[ram], g[cpu], g[mb])
           /\ Common(g[cpu], g[mb]) = Common(cpu, mb) /\ TargetGens(g[cpu], g[mb]) = TargetGens(cpu, mb)
           /\ (h # [code |-> "E002", refs |-> <<ram.id, cpu.id, mb.id>>] \/ BothSupport(ram, cpu, mb)) =>
                  (BothSupport(g[ram], g[cpu], g[mb]) <=> BothSupport(ram, cpu, mb))
<1>1. RamIsJudged(g[ram], g[cpu], g[mb])
    BY FollowsOf DEF RamIsJudged
<1>2. /\ g[cpu].attr["ram_gen_supported"] = cpu.attr["ram_gen_supported"] /\ Gens(g[cpu]) = Gens(cpu)
      /\ g[mb].attr["ram_gen_supported"] = mb.attr["ram_gen_supported"] /\ Gens(g[mb]) = Gens(mb)
    BY GensStay DEF RamIsJudged
<1>3. Common(g[cpu], g[mb]) = Common(cpu, mb)
    BY <1>2 DEF Common
<1>4. TargetGens(g[cpu], g[mb]) = TargetGens(cpu, mb)
    BY <1>2, <1>3 DEF TargetGens
<1>5. ASSUME h # [code |-> "E002", refs |-> <<ram.id, cpu.id, mb.id>>] \/ BothSupport(ram, cpu, mb)
      PROVE  g[ram].attr["generation"] = ram.attr["generation"]
    <2>1. ASSUME NEW v, Corrects(b, h, ram, "generation", v) PROVE FALSE
        <3>1. ReplacesRam(b, h, ram, "generation", v)
            BY <2>1, CorrectsWhich
        <3>2. PICK c \in Of(b, "cpu"), m \in Of(b, "mainboard") :
                  /\ ~BothSupport(ram, c, m)
                  /\ h = [code |-> "E002", refs |-> <<ram.id, c.id, m.id>>]
            BY <3>1 DEF ReplacesRam
        <3>3. c = cpu /\ m = mb
            BY OneOfType
        <3> QED BY <1>5, <3>2, <3>3
    <2> QED BY <2>1, FollowsOf DEF RamIsJudged
<1> QED BY <1>1, <1>2, <1>3, <1>4, <1>5 DEF BothSupport, Supports

LEMMA CoolerStays ==
    ASSUME NEW b, IsBuild(b), NEW h, NEW d, NEW g, Follows(b, h, d, g),
           NEW cooler \in Of(b, "cooler"), NEW kase \in Of(b, "case"),
           ~Lacks(cooler, "height"), ~Lacks(kase, "max_cooler_height"),
           \/ h # [code |-> "E004", refs |-> <<cooler.id, kase.id>>]
           \/ ~(cooler.attr["height"] > kase.attr["max_cooler_height"])
    PROVE  /\ g[cooler].attr["height"] = cooler.attr["height"]
           /\ g[kase].attr["max_cooler_height"] = kase.attr["max_cooler_height"]
<1>1. ASSUME NEW p, NEW a, NEW v, a \in {"height", "max_cooler_height"}, Corrects(b, h, p, a, v) PROVE FALSE
    <2>1. LowersCooler(b, h, p, a, v)
        BY <1>1, CorrectsWhich
    <2>2. PICK c \in Of(b, "cooler"), k \in Of(b, "case") :
              /\ c.attr["height"] > k.attr["max_cooler_height"]
              /\ h = [code |-> "E004", refs |-> <<c.id, k.id>>]
        BY <2>1 DEF LowersCooler
    <2>3. c = cooler /\ k = kase
        BY OneOfType
    <2> QED BY <2>2, <2>3
<1> QED BY <1>1, FollowsOf

LEMMA FitStays ==
    ASSUME NEW b, IsBuild(b), NEW h, NEW d, NEW g, Follows(b, h, d, g),
           NEW t \in Boards, NEW part \in Of(b, t), NEW kase \in Of(b, "case"), FitIsJudged(part, kase, t),
           \/ h # [code |-> "E005", refs |-> <<part.id, kase.id>>, component |-> t,
                   actual |-> part.attr["form_factor"]]
           \/ Fits(part, kase, t)
    PROVE  /\ FitIsJudged(g[part], g[kase], t)
           /\ g[part].attr["form_factor"] = part.attr["form_factor"]
           /\ g[kase].attr[ListFor(t)] = kase.attr[ListFor(t)]
<1>1. FitIsJudged(g[part], g[kase], t)
    BY FollowsOf DEF FitIsJudged
<1>2. ASSUME NEW p, NEW a, NEW v, (p = part /\ a = "form_factor") \/ (p = kase /\ a = ListFor(t)),
             Corrects(b, h, p, a, v)
      PROVE  FALSE
    <2>1. FitsBoard(b, h, p, a, v)
        BY <1>2, CorrectsWhich DEF ListFor
    <2>2. PICK u \in Boards : \E c \in Of(b, u), k \in Of(b, "case") :
              /\ ~Fits(c, k, u)
              /\ h = [code |-> "E005", refs |-> <<c.id, k.id>>, component |-> u, actual |-> c.attr["form_factor"]]
              /\ (p = c /\ a = "form_factor") \/ (p = k /\ a = ListFor(u))
        BY <2>1 DEF FitsBoard
    <2>3. PICK c \in Of(b, u), k \in Of(b, "case") :
              /\ ~Fits(c, k, u)
              /\ h = [code |-> "E005", refs |-> <<c.id, k.id>>, component |-> u, actual |-> c.attr["form_factor"]]
              /\ (p = c /\ a = "form_factor") \/ (p = k /\ a = ListFor(u))
        BY <2>2
    <2>4. u = t
        BY <1>2, <2>3 DEF Of, Boards, ListFor
    <2>5. c = part /\ k = kase
        BY <2>4, OneOfType DEF Boards
    <2> QED BY <2>3, <2>4, <2>5
<1> QED BY <1>1, <1>2, FollowsOf DEF FitIsJudged
\* h was found in b, and d is what carrying out a fix of it makes of b.
Repaired(b, h, d) == IsBuild(b) /\ IsBuild(d) /\ h \in Validate(b) /\ Repairs(b, h, d)

LEMMA AbsentStays ==
    ASSUME NEW b, NEW h, NEW d, Repairs(b, h, d), NEW f, Absent(b, f), f # h
    PROVE  Absent(d, f)
<1>1. PICK t \in Required : Of(b, t) = {} /\ f = [code |-> "E003", refs |-> <<>>, missing |-> t]
    BY DEF Absent
<1>2. CASE Adds(b, h, d)
    <2>1. PICK u \in Required : /\ h = [code |-> "E003", refs |-> <<>>, missing |-> u]
                                /\ d = b \cup {Bare(u)}
        BY <1>2 DEF Adds
    <2>2. u # t /\ Bare(u).type = u
        BY <1>1, <2>1 DEF Bare
    <2>3. Of(d, t) = {}
        BY <1>1, <2>1, <2>2 DEF Of
    <2> QED BY <1>1, <2>3 DEF Absent
<1>3. ASSUME NEW g, NEW p, NEW a, NEW v, Changes(b, h, d, g, p, a, v)
      PROVE  Absent(d, f)
    BY <1>1, <1>3, WritesOf DEF Changes, Absent
<1> QED BY <1>2, <1>3 DEF Repairs

LEMMA SilentStays ==
    ASSUME NEW b, NEW h, NEW d, Repairs(b, h, d), NEW f, Silent(b, f), f # h
    PROVE  Silent(d, f)
<1>1. PICK c \in b, a \in Labels \cup Lists \cup Measures :
          Lacks(c, a) /\ Asked(b, c, a) /\ f = MissingAttribute(c, a)
    BY DEF Silent
<1>2. ASSUME NEW g, Keeps(b, d, g), Lacks(g[c], a)
      PROVE  Silent(d, f)
    <2>1. g[c] \in d /\ g[c].id = c.id
        BY <1>2 DEF Keeps
    <2>2. f = MissingAttribute(g[c], a)
        BY <1>1, <2>1 DEF MissingAttribute
    <2> QED BY <1>1, <1>2, <2>1, <2>2, AskedGrows DEF Silent
<1>3. CASE Adds(b, h, d)
    <2> DEFINE g == [e \in b |-> e]
    <2>1. Keeps(b, d, g)
        BY <1>3, AddsFollows DEF Follows
    <2>2. g[c] = c
        OBVIOUS
    <2> HIDE DEF g
    <2> QED BY <1>1, <1>2, <2>1, <2>2
<1>4. ASSUME NEW g, NEW p, NEW e, NEW v, Changes(b, h, d, g, p, e, v)
      PROVE  Silent(d, f)
    <2>1. ~(c = p /\ a = e)
        BY <1>1, <1>4, CorrectsGiven DEF Changes, Supplies
    <2>2. Writes(b, d, g, p, e, v)
        BY <1>4 DEF Changes
    <2>3. Lacks(g[c], a)
        BY <1>1, <2>1, <2>2 DEF Writes
    <2> QED BY <1>2, <2>2, <2>3, WritesKeeps
<1> QED BY <1>3, <1>4 DEF Repairs

\* Carrying out a fix leaves every other finding as it was, with the same fixes: those
\* of the plan can be carried out in any order.
THEOREM OthersStay ==
    ASSUME NEW b, NEW h, NEW d, Repaired(b, h, d), NEW f \in Validate(b), f # h
    PROVE  f \in Validate(d) /\ FixesFor(d, f) = FixesFor(b, f)
<1>1. IsBuild(b) /\ IsBuild(d) /\ Repairs(b, h, d) /\ Found(b, f)
    BY ValidateFinds DEF Repaired
<1>2. PICK g : Follows(b, h, d, g)
    BY <1>1, RepairFollows
<1>3. \A t : \A c \in Of(b, t) : /\ g[c] \in Of(d, t) /\ g[c].id = c.id
                                 /\ ById(b, c.id) = c /\ ById(d, c.id) = g[c]
                                 /\ \A z : ~Lacks(c, z) => ~Lacks(g[c], z)
    <2> TAKE t
    <2> TAKE c \in Of(b, t)
    <2>1. /\ c \in b /\ g[c] \in Of(d, t) /\ g[c].id = c.id
          /\ \A z : ~Lacks(c, z) => ~Lacks(g[c], z)
        BY <1>2, FollowsOf
    <2>2. g[c] \in d
        BY <2>1 DEF Of
    <2> QED BY <1>1, <2>1, <2>2, ByIdIs
<1> SUFFICES Found(d, f) /\ FixesFor(d, f) = FixesFor(b, f)
    BY ValidateFinds
<1>4. CASE Absent(b, f)
    <2>1. f.code = "E003"
        BY <1>4 DEF Absent
    <2> QED BY <1>1, <1>4, <2>1, AbsentStays DEF Found, FixesFor
<1>5. CASE Silent(b, f)
    <2>1. f.code = "E006"
        BY <1>5 DEF Silent, MissingAttribute
    <2> QED BY <1>1, <1>5, <2>1, SilentStays DEF Found, FixesFor
<1>6. CASE SocketsDiffer(b, f)
    <2>1. PICK cpu \in Of(b, "cpu"), mb \in Of(b, "mainboard") :
              /\ ~Lacks(cpu, "socket") /\ ~Lacks(mb, "socket")
              /\ cpu.attr["socket"] # mb.attr["socket"]
              /\ f = [code |-> "E001", refs |-> <<cpu.id, mb.id>>]
        BY <1>6 DEF SocketsDiffer
    <2>2. g[cpu].attr["socket"] = cpu.attr["socket"] /\ g[mb].attr["socket"] = mb.attr["socket"]
        BY <1>1, <1>2, <2>1, SocketStays
    <2>3. SocketsDiffer(d, f)
        BY <1>3, <2>1, <2>2 DEF SocketsDiffer
    <2>4. RepairSocket(g[cpu], g[mb]) = RepairSocket(cpu, mb)
        BY <1>3, <2>1, <2>2 DEF RepairSocket, Named, Align
    <2>5. FixesFor(b, f) = RepairSocket(ById(b, cpu.id), ById(b, mb.id))
        BY <2>1 DEF FixesFor
    <2>6. FixesFor(d, f) = RepairSocket(ById(d, cpu.id), ById(d, mb.id))
        BY <2>1 DEF FixesFor
    <2> QED BY <1>3, <2>3, <2>4, <2>5, <2>6 DEF Found
<1>7. CASE RamDiffers(b, f)
    <2>1. PICK ram \in Of(b, "ram"), cpu \in Of(b, "cpu"), mb \in Of(b, "mainboard") :
              /\ RamIsJudged(ram, cpu, mb) /\ ~BothSupport(ram, cpu, mb)
              /\ f = [code |-> "E002", refs |-> <<ram.id, cpu.id, mb.id>>]
        BY <1>7 DEF RamDiffers
    <2>2. /\ RamIsJudged(g[ram], g[cpu], g[mb]) /\ ~BothSupport(g[ram], g[cpu], g[mb])
          /\ TargetGens(g[cpu], g[mb]) = TargetGens(cpu, mb)
        BY <1>1, <1>2, <2>1, RamStays
    <2>3. RamDiffers(d, f)
        <3>1. /\ g[ram] \in Of(d, "ram") /\ g[cpu] \in Of(d, "cpu") /\ g[mb] \in Of(d, "mainboard")
              /\ f = [code |-> "E002", refs |-> <<g[ram].id, g[cpu].id, g[mb].id>>]
            BY <1>3, <2>1
        <3> QED BY <2>2, <3>1 DEF RamDiffers
    <2>4. FixesFor(b, f) = RepairRamGen(ram.id, ById(b, cpu.id), ById(b, mb.id))
        BY <2>1 DEF FixesFor
    <2>5. FixesFor(d, f) = RepairRamGen(ram.id, ById(d, cpu.id), ById(d, mb.id))
        BY <2>1 DEF FixesFor
    <2>6. RepairRamGen(ram.id, g[cpu], g[mb]) = RepairRamGen(ram.id, cpu, mb)
        BY <2>2 DEF RepairRamGen
    <2> QED BY <1>3, <2>3, <2>4, <2>5, <2>6 DEF Found
<1>8. CASE CoolerTooHigh(b, f)
    <2>1. PICK cooler \in Of(b, "cooler"), kase \in Of(b, "case") :
              /\ ~Lacks(cooler, "height") /\ ~Lacks(kase, "max_cooler_height")
              /\ cooler.attr["height"] > kase.attr["max_cooler_height"]
              /\ f = [code |-> "E004", refs |-> <<cooler.id, kase.id>>]
        BY <1>8 DEF CoolerTooHigh
    <2>2. /\ g[cooler].attr["height"] = cooler.attr["height"]
          /\ g[kase].attr["max_cooler_height"] = kase.attr["max_cooler_height"]
        BY <1>1, <1>2, <2>1, CoolerStays
    <2>3. CoolerTooHigh(d, f)
        BY <1>3, <2>1, <2>2 DEF CoolerTooHigh
    <2>4. Align(g[cooler], "height", g[kase], "max_cooler_height") = Align(cooler, "height", kase, "max_cooler_height")
        BY <1>3, <2>1, <2>2 DEF Align
    <2>5. FixesFor(b, f) = Align(ById(b, cooler.id), "height", ById(b, kase.id), "max_cooler_height")
        BY <2>1 DEF FixesFor
    <2>6. FixesFor(d, f) = Align(ById(d, cooler.id), "height", ById(d, kase.id), "max_cooler_height")
        BY <2>1 DEF FixesFor
    <2> QED BY <1>3, <2>3, <2>4, <2>5, <2>6 DEF Found
<1>9. CASE BoardUnfit(b, f)
    <2>1. PICK t \in Boards : \E part \in Of(b, t), kase \in Of(b, "case") :
              /\ FitIsJudged(part, kase, t) /\ ~Fits(part, kase, t)
              /\ f = [code |-> "E005", refs |-> <<part.id, kase.id>>, component |-> t,
                      actual |-> part.attr["form_factor"]]
        BY <1>9 DEF BoardUnfit
    <2>2. PICK part \in Of(b, t), kase \in Of(b, "case") :
              /\ FitIsJudged(part, kase, t) /\ ~Fits(part, kase, t)
              /\ f = [code |-> "E005", refs |-> <<part.id, kase.id>>, component |-> t,
                      actual |-> part.attr["form_factor"]]
        BY <2>1
    <2>3. /\ FitIsJudged(g[part], g[kase], t)
          /\ g[part].attr["form_factor"] = part.attr["form_factor"]
          /\ g[kase].attr[ListFor(t)] = kase.attr[ListFor(t)]
        BY <1>1, <1>2, <2>2, FitStays
    <2>4. BoardUnfit(d, f)
        BY <1>3, <2>2, <2>3 DEF BoardUnfit, Fits
    <2>5. FixesFor(b, f) = RepairFormFactor(f, ById(b, kase.id))
        BY <2>2 DEF FixesFor
    <2>6. FixesFor(d, f) = RepairFormFactor(f, ById(d, kase.id))
        BY <2>2 DEF FixesFor
    <2>7. f.component = t /\ ListOf(g[kase], ListFor(t)) = ListOf(kase, ListFor(t))
        BY <2>2, <2>3 DEF ListOf, FitIsJudged
    <2>8. RepairFormFactor(f, g[kase]) = RepairFormFactor(f, kase)
        BY <1>3, <2>7 DEF RepairFormFactor
    <2> QED BY <1>3, <2>4, <2>5, <2>6, <2>8 DEF Found
<1>10. CASE PsuWeak(b, f)
    <2>1. PICK psu \in Of(b, "psu") :
              /\ ~Lacks(psu, "wattage") /\ Tight(psu.attr["wattage"], TdpTotal(b))
              /\ f = [code |-> "W001", refs |-> <<psu.id>>, total |-> TdpTotal(b)]
        BY <1>10 DEF PsuWeak
    <2>2. TdpTotal(d) = TdpTotal(b)
        BY <1>2 DEF Follows
    <2>3. ASSUME NEW v, Corrects(b, h, psu, "wattage", v) PROVE FALSE
        <3>1. RaisesPsu(b, h, psu, "wattage", v)
            BY <2>3, CorrectsWhich
        <3> QED BY <2>1, <3>1 DEF RaisesPsu
    <2>4. g[psu].attr["wattage"] = psu.attr["wattage"]
        BY <1>2, <2>1, <2>3, FollowsOf
    <2>5. PsuWeak(d, f)
        BY <1>3, <2>1, <2>2, <2>4 DEF PsuWeak
    <2>6. f.code = "W001"
        BY <2>1
    <2> QED BY <2>5, <2>6 DEF Found, FixesFor
<1> QED BY <1>1, <1>4, <1>5, <1>6, <1>7, <1>8, <1>9, <1>10 DEF Found

\* What was settled stays so.
LEMMA SettledStays ==
    ASSUME NEW b, NEW h, NEW d, Repaired(b, h, d), NEW f, IsFinding(f), Settled(b, f)
    PROVE  Settled(d, f)
<1>1. IsBuild(b) /\ IsBuild(d) /\ Repairs(b, h, d)
    BY DEF Repaired
<1>2. PICK g : Follows(b, h, d, g)
    BY <1>1, RepairFollows
<1>3. \A t : \A c \in Of(b, t) : /\ g[c] \in Of(d, t) /\ g[c].id = c.id
                                 /\ \A z : ~Lacks(c, z) => ~Lacks(g[c], z)
    BY <1>2, FollowsOf
<1>4. CASE f.code = "E001"
    <2>1. PICK cpu \in Of(b, "cpu"), mb \in Of(b, "mainboard") :
              ~Lacks(cpu, "socket") /\ ~Lacks(mb, "socket") /\ cpu.attr["socket"] = mb.attr["socket"]
        BY <1>4 DEF Settled
    <2>2. g[cpu].attr["socket"] = cpu.attr["socket"] /\ g[mb].attr["socket"] = mb.attr["socket"]
        BY <1>1, <1>2, <2>1, SocketStays
    <2> QED BY <1>3, <1>4, <2>1, <2>2 DEF Settled
<1>5. CASE f.code = "E002"
    <2>1. PICK ram \in Of(b, "ram"), cpu \in Of(b, "cpu"), mb \in Of(b, "mainboard") :
              /\ f = [code |-> "E002", refs |-> <<ram.id, cpu.id, mb.id>>]
              /\ RamIsJudged(ram, cpu, mb)
              /\ Common(cpu, mb) = {} \/ BothSupport(ram, cpu, mb)
        BY <1>5 DEF Settled
    <2>2. /\ RamIsJudged(g[ram], g[cpu], g[mb])
          /\ Common(g[cpu], g[mb]) = {} \/ BothSupport(g[ram], g[cpu], g[mb])
        BY <1>1, <1>2, <2>1, RamStays
    <2>3. f = [code |-> "E002", refs |-> <<g[ram].id, g[cpu].id, g[mb].id>>]
        BY <1>3, <2>1
    <2> QED BY <1>3, <1>5, <2>2, <2>3 DEF Settled
<1>6. CASE f.code = "E003"
    BY <1>3, <1>6 DEF Settled
<1>7. CASE f.code = "E004"
    <2>1. PICK cooler \in Of(b, "cooler"), kase \in Of(b, "case") :
              /\ ~Lacks(cooler, "height") /\ ~Lacks(kase, "max_cooler_height")
              /\ ~(cooler.attr["height"] > kase.attr["max_cooler_height"])
        BY <1>7 DEF Settled
    <2>2. /\ g[cooler].attr["height"] = cooler.attr["height"]
          /\ g[kase].attr["max_cooler_height"] = kase.attr["max_cooler_height"]
        BY <1>1, <1>2, <2>1, CoolerStays
    <2> QED BY <1>3, <1>7, <2>1, <2>2 DEF Settled
<1>8. CASE f.code = "E005"
    <2>1. PICK part \in Of(b, f.component), kase \in Of(b, "case") :
              FitIsJudged(part, kase, f.component) /\ Fits(part, kase, f.component)
        BY <1>8 DEF Settled
    <2>2. f.component \in Boards
        BY <1>8 DEF IsFinding, Boards
    <2>3. FitIsJudged(g[part], g[kase], f.component) /\ Fits(g[part], g[kase], f.component)
        BY <1>1, <1>2, <2>1, <2>2, FitStays DEF Fits
    <2> QED BY <1>3, <1>8, <2>3 DEF Settled
<1>9. CASE f.code = "E006"
    <2>1. PICK c \in b : f.refs = <<c.id>> /\ ~Lacks(c, f.attribute)
        BY <1>9 DEF Settled
    <2>2. c \in Of(b, c.type)
        BY DEF Of
    <2>3. g[c] \in d /\ g[c].id = c.id /\ ~Lacks(g[c], f.attribute)
        BY <1>3, <2>1, <2>2 DEF Of
    <2> QED BY <1>9, <2>1, <2>3 DEF Settled
<1>10. CASE f.code = "W001"
    <2>1. PICK psu \in Of(b, "psu") : ~Lacks(psu, "wattage") /\ ~Tight(psu.attr["wattage"], f.total)
        BY <1>10 DEF Settled
    <2>2. ~Tight(g[psu].attr["wattage"], f.total)
        <3>1. CASE g[psu].attr["wattage"] = psu.attr["wattage"]
            BY <2>1, <3>1
        <3>2. CASE Corrects(b, h, psu, "wattage", g[psu].attr["wattage"])
            <4>1. RaisesPsu(b, h, psu, "wattage", g[psu].attr["wattage"])
                BY <3>2, CorrectsWhich
            <4>2. /\ Tight(psu.attr["wattage"], TdpTotal(b))
                  /\ g[psu].attr["wattage"] = Headroom(TdpTotal(b))
                BY <4>1 DEF RaisesPsu
            <4>3. psu.attr["wattage"] \in Nat
                BY <1>1, <2>1, AttributeIsValue DEF IsBuild, Of, IsValue, Measures
            <4>4. TdpTotal(b) \in Nat /\ f.total \in Nat
                BY <1>1, <1>10, TotalIsNat DEF IsFinding
            <4> QED BY <2>1, <4>2, <4>3, <4>4, HeadroomRaises
        <3> QED BY <1>2, <2>1, <3>1, <3>2, FollowsOf
    <2> QED BY <1>3, <1>10, <2>1, <2>2 DEF Settled
<1> QED BY <1>4, <1>5, <1>6, <1>7, <1>8, <1>9, <1>10 DEF IsFinding
\* What a change leaves in a component of type t: all but what it sets.
LEMMA WritesTo ==
    ASSUME NEW b, NEW d, NEW g, NEW p, NEW a, NEW v, Writes(b, d, g, p, a, v), NEW t, NEW c \in Of(b, t)
    PROVE  /\ g[c] \in Of(d, t) /\ g[c].id = c.id
           /\ c = p => ~Lacks(g[c], a) /\ g[c].attr[a] = v
           /\ \A z : ~Lacks(c, z) /\ ~(c = p /\ z = a) => ~Lacks(g[c], z) /\ g[c].attr[z] = c.attr[z]
<1>1. c \in b
    BY DEF Of
<1>2. g[c] \in Of(d, t) /\ g[c].id = c.id
    BY <1>1 DEF Writes, Of
<1>3. c = p => ~Lacks(g[c], a) /\ g[c].attr[a] = v
    BY DEF Writes
<1>4. \A z : ~Lacks(c, z) /\ ~(c = p /\ z = a) => ~Lacks(g[c], z) /\ g[c].attr[z] = c.attr[z]
    BY <1>1 DEF Writes
<1> QED BY <1>2, <1>3, <1>4

\* A fix settles the finding it is for, whichever of its fixes it is.
LEMMA RepairSettles ==
    ASSUME NEW b, NEW h, NEW d, Repaired(b, h, d)
    PROVE  Settled(d, h)
<1>1. IsBuild(b) /\ IsBuild(d) /\ Repairs(b, h, d)
    BY DEF Repaired
<1>2. CASE Adds(b, h, d)
    <2>1. PICK t \in Required : h = [code |-> "E003", refs |-> <<>>, missing |-> t] /\ d = b \cup {Bare(t)}
        BY <1>2 DEF Adds
    <2>2. Bare(t) \in Of(d, t)
        BY <2>1 DEF Of, Bare
    <2>3. h.code = "E003" /\ h.missing = t
        BY <2>1
    <2> QED BY <2>2, <2>3 DEF Settled
<1>3. ASSUME NEW g, NEW p, NEW a, NEW v, Changes(b, h, d, g, p, a, v)
      PROVE  Settled(d, h)
    <2>1. Writes(b, d, g, p, a, v) /\ (Supplies(h, p, a) \/ Corrects(b, h, p, a, v))
        BY <1>3 DEF Changes
    <2>2. \A t : \A c \in Of(b, t) :
              /\ g[c] \in Of(d, t) /\ g[c].id = c.id
              /\ c = p => ~Lacks(g[c], a) /\ g[c].attr[a] = v
              /\ \A z : ~Lacks(c, z) /\ ~(c = p /\ z = a) => ~Lacks(g[c], z) /\ g[c].attr[z] = c.attr[z]
        BY <2>1, WritesTo
    <2>3. CASE Supplies(h, p, a)
        <3>1. g[p] \in d /\ g[p].id = p.id /\ ~Lacks(g[p], a)
            BY <2>1 DEF Writes
        <3>2. h.code = "E006" /\ h.refs = <<p.id>> /\ h.attribute = a
            BY <2>3 DEF Supplies, MissingAttribute
        <3> QED BY <3>1, <3>2 DEF Settled
    <2>4. CASE AlignsSocket(b, h, p, a, v)
        <3>1. PICK cpu \in Of(b, "cpu"), mb \in Of(b, "mainboard") :
                  /\ ~Lacks(cpu, "socket") /\ ~Lacks(mb, "socket") /\ h.code = "E001" /\ a = "socket"
                  /\ (p = cpu /\ v = mb.attr["socket"]) \/ (p = mb /\ v = cpu.attr["socket"])
            BY <2>4 DEF AlignsSocket
        <3>2. cpu # mb
            BY DEF Of
        <3>3. /\ ~Lacks(g[cpu], "socket") /\ ~Lacks(g[mb], "socket")
              /\ g[cpu].attr["socket"] = g[mb].attr["socket"]
            BY <2>2, <3>1, <3>2
        <3> QED BY <2>2, <3>1, <3>3 DEF Settled
    <2>5. CASE ReplacesRam(b, h, p, a, v)
        <3>1. PICK ram \in Of(b, "ram"), cpu \in Of(b, "cpu"), mb \in Of(b, "mainboard") :
                  /\ RamIsJudged(ram, cpu, mb)
                  /\ h = [code |-> "E002", refs |-> <<ram.id, cpu.id, mb.id>>]
                  /\ a = "generation" /\ p = ram
                  /\ Common(cpu, mb) = {} \/ (Supports(cpu, v) /\ Supports(mb, v))
            BY <2>5 DEF ReplacesRam
        <3>2. /\ ~Lacks(g[cpu], "ram_gen_supported") /\ ~Lacks(g[mb], "ram_gen_supported")
              /\ g[cpu].attr["ram_gen_supported"] = cpu.attr["ram_gen_supported"]
              /\ g[mb].attr["ram_gen_supported"] = mb.attr["ram_gen_supported"]
            BY <2>2, <3>1 DEF RamIsJudged
        <3>3. ~Lacks(g[ram], "generation") /\ g[ram].attr["generation"] = v
            BY <2>2, <3>1
        <3>4. RamIsJudged(g[ram], g[cpu], g[mb])
            BY <3>2, <3>3 DEF RamIsJudged
        <3>5. Common(g[cpu], g[mb]) = Common(cpu, mb)
            BY <3>1, <3>2 DEF Common, Gens, ListOf, RamIsJudged
        <3>6. Common(g[cpu], g[mb]) = {} \/ BothSupport(g[ram], g[cpu], g[mb])
            BY <3>1, <3>2, <3>3, <3>5 DEF BothSupport, Supports
        <3>7. h = [code |-> "E002", refs |-> <<g[ram].id, g[cpu].id, g[mb].id>>]
            BY <2>2, <3>1
        <3>8. h.code = "E002"
            BY <3>7
        <3> QED BY <2>2, <3>4, <3>6, <3>7, <3>8 DEF Settled
    <2>6. CASE LowersCooler(b, h, p, a, v)
        <3>1. PICK cooler \in Of(b, "cooler"), kase \in Of(b, "case") :
                  /\ ~Lacks(cooler, "height") /\ ~Lacks(kase, "max_cooler_height") /\ h.code = "E004"
                  /\ \/ p = cooler /\ a = "height" /\ v = kase.attr["max_cooler_height"]
                     \/ p = kase /\ a = "max_cooler_height" /\ v = cooler.attr["height"]
            BY <2>6 DEF LowersCooler
        <3>2. cooler # kase
            BY DEF Of
        <3>3. /\ ~Lacks(g[cooler], "height") /\ ~Lacks(g[kase], "max_cooler_height")
              /\ g[cooler].attr["height"] = g[kase].attr["max_cooler_height"]
              /\ \/ g[cooler].attr["height"] = cooler.attr["height"]
                 \/ g[cooler].attr["height"] = kase.attr["max_cooler_height"]
            BY <2>2, <3>1, <3>2
        <3>4. cooler.attr["height"] \in Nat /\ kase.attr["max_cooler_height"] \in Nat
            BY <1>1, <3>1, AttributeIsValue DEF IsBuild, Of, IsValue, Measures
        <3>5. ~(g[cooler].attr["height"] > g[kase].attr["max_cooler_height"])
            BY <3>3, <3>4
        <3> QED BY <2>2, <3>1, <3>3, <3>5 DEF Settled
    <2>7. CASE FitsBoard(b, h, p, a, v)
        <3>1. PICK t \in Boards : \E part \in Of(b, t), kase \in Of(b, "case") :
                  /\ FitIsJudged(part, kase, t) /\ h.code = "E005" /\ h.component = t
                  /\ \/ p = part /\ a = "form_factor" /\ v \in Range(kase.attr[ListFor(t)])
                     \/ p = kase /\ a = ListFor(t) /\ part.attr["form_factor"] \in Range(v)
            BY <2>7 DEF FitsBoard
        <3>2. PICK part \in Of(b, t), kase \in Of(b, "case") :
                  /\ FitIsJudged(part, kase, t) /\ h.code = "E005" /\ h.component = t
                  /\ \/ p = part /\ a = "form_factor" /\ v \in Range(kase.attr[ListFor(t)])
                     \/ p = kase /\ a = ListFor(t) /\ part.attr["form_factor"] \in Range(v)
            BY <3>1
        <3>3. part # kase
            BY DEF Of, Boards
        <3>4. FitIsJudged(g[part], g[kase], t) /\ Fits(g[part], g[kase], t)
            BY <2>2, <3>2, <3>3 DEF FitIsJudged, Fits
        <3> QED BY <2>2, <3>2, <3>4 DEF Settled
    <2>8. CASE RaisesPsu(b, h, p, a, v)
        <3>1. PICK psu \in Of(b, "psu") :
                  /\ h = [code |-> "W001", refs |-> <<psu.id>>, total |-> TdpTotal(b)]
                  /\ p = psu /\ a = "wattage" /\ v = Headroom(TdpTotal(b))
            BY <2>8 DEF RaisesPsu
        <3>2. ~Lacks(g[psu], "wattage") /\ g[psu].attr["wattage"] = Headroom(TdpTotal(b))
            BY <2>2, <3>1
        <3>3. ~Tight(g[psu].attr["wattage"], TdpTotal(b))
            BY <1>1, <3>2, TotalIsNat, HeadroomIsEnough
        <3>4. h.code = "W001" /\ h.total = TdpTotal(b)
            BY <3>1
        <3> QED BY <2>2, <3>2, <3>3, <3>4 DEF Settled
    <2> QED BY <2>1, <2>3, <2>4, <2>5, <2>6, <2>7, <2>8 DEF Corrects
<1> QED BY <1>1, <1>2, <1>3 DEF Repairs

\* Nothing that is settled is found again, but for RAM that nothing can fit.
LEMMA SettledIsGone ==
    ASSUME NEW b, IsBuild(b), NEW f \in Validate(b), Settled(b, f)
    PROVE  f.code = "E002" /\ NoCommonGen(b)
<1>1. Found(b, f)
    BY ValidateFinds
<1>2. \A t : t \notin {"ram", "storage"} => \A c, e \in Of(b, t) : c = e
    BY OneOfType
<1>3. CASE Absent(b, f)
    BY <1>3 DEF Absent, Settled
<1>4. CASE SocketsDiffer(b, f)
    BY <1>2, <1>4 DEF SocketsDiffer, Settled
<1>5. CASE RamDiffers(b, f)
    <2>1. PICK ram \in Of(b, "ram"), cpu \in Of(b, "cpu"), mb \in Of(b, "mainboard") :
              /\ RamIsJudged(ram, cpu, mb) /\ ~BothSupport(ram, cpu, mb)
              /\ f = [code |-> "E002", refs |-> <<ram.id, cpu.id, mb.id>>]
        BY <1>5 DEF RamDiffers
    <2>2. PICK r \in Of(b, "ram"), c \in Of(b, "cpu"), m \in Of(b, "mainboard") :
              /\ f = [code |-> "E002", refs |-> <<r.id, c.id, m.id>>]
              /\ Common(c, m) = {} \/ BothSupport(r, c, m)
        BY <2>1 DEF Settled
    <2>3. c = cpu /\ m = mb
        BY <1>2
    <2>4. r.id = ram.id
        BY <2>1, <2>2
    <2>5. r = ram
        BY <2>4 DEF IsBuild, Of
    <2>6. Common(cpu, mb) = {}
        BY <2>1, <2>2, <2>3, <2>5
    <2> QED BY <2>1, <2>6 DEF NoCommonGen, RamIsJudged
<1>6. CASE CoolerTooHigh(b, f)
    BY <1>2, <1>6 DEF CoolerTooHigh, Settled
<1>7. CASE BoardUnfit(b, f)
    <2>1. PICK t \in Boards : \E part \in Of(b, t), kase \in Of(b, "case") :
              ~Fits(part, kase, t) /\ f.code = "E005" /\ f.component = t
        BY <1>7 DEF BoardUnfit
    <2>2. \E part \in Of(b, t), kase \in Of(b, "case") : Fits(part, kase, t)
        BY <2>1 DEF Settled
    <2> QED BY <1>2, <2>1, <2>2 DEF Boards
<1>8. CASE PsuWeak(b, f)
    BY <1>2, <1>8 DEF PsuWeak, Settled
<1>9. CASE Silent(b, f)
    <2>1. PICK c \in b, a \in Labels \cup Lists \cup Measures : Lacks(c, a) /\ f = MissingAttribute(c, a)
        BY <1>9 DEF Silent
    <2>2. f.code = "E006" /\ f.refs = <<c.id>> /\ f.attribute = a
        BY <2>1 DEF MissingAttribute
    <2>3. PICK e \in b : f.refs = <<e.id>> /\ ~Lacks(e, a)
        BY <2>2 DEF Settled
    <2>4. e.id = c.id
        BY <2>2, <2>3
    <2>5. e = c
        BY <2>4 DEF IsBuild
    <2> QED BY <2>1, <2>3, <2>5
<1> QED BY <1>1, <1>3, <1>4, <1>5, <1>6, <1>7, <1>8, <1>9 DEF Found

\* RAM that nothing can fit is found as long as it is there: what was done about it was in vain.
LEMMA HopelessIsFound ==
    ASSUME NEW b, IsBuild(b), NEW f, Settled(b, f), f.code = "E002", NoCommonGen(b)
    PROVE  f \in Validate(b)
<1>1. PICK ram \in Of(b, "ram"), cpu \in Of(b, "cpu"), mb \in Of(b, "mainboard") :
          /\ f = [code |-> "E002", refs |-> <<ram.id, cpu.id, mb.id>>]
          /\ RamIsJudged(ram, cpu, mb)
    BY DEF Settled
<1>2. PICK c \in Of(b, "cpu"), m \in Of(b, "mainboard") : Common(c, m) = {}
    BY DEF NoCommonGen
<1>3. c = cpu /\ m = mb
    BY OneOfType
<1>4. ~BothSupport(ram, cpu, mb)
    <2> SUFFICES ASSUME Supports(cpu, ram.attr["generation"]), Supports(mb, ram.attr["generation"])
                 PROVE  FALSE
        BY DEF BothSupport
    <2>1. /\ Gens(cpu) = cpu.attr["ram_gen_supported"]
          /\ Gens(mb) = mb.attr["ram_gen_supported"]
        BY <1>1 DEF RamIsJudged, Gens, ListOf
    <2>2. PICK i \in DOMAIN Gens(cpu) : Gens(cpu)[i] = ram.attr["generation"]
        BY <2>1 DEF Supports, Range
    <2>3. i \in Common(cpu, mb)
        BY <2>1, <2>2 DEF Supports, Common
    <2> QED BY <1>2, <1>3, <2>3
<1>5. RamDiffers(b, f)
    BY <1>1, <1>4 DEF RamDiffers
<1> QED BY <1>5, ValidateFinds DEF Found

\* A fix that supplies nothing brings up nothing new.
LEMMA CorrectionUncoversNothing ==
    ASSUME NEW b, NEW h, NEW d, Repaired(b, h, d), h.code \notin {"E003", "E006"}
    PROVE  Validate(d) \subseteq Validate(b)
<1>1. IsBuild(b) /\ IsBuild(d) /\ h \in Validate(b) /\ Repairs(b, h, d)
    BY DEF Repaired
<1>2. ~Adds(b, h, d) /\ \A p, a : ~Supplies(h, p, a)
    BY DEF Adds, Supplies, MissingAttribute
<1>3. PICK g, p, a, v : Changes(b, h, d, g, p, a, v)
    BY <1>1, <1>2 DEF Repairs
<1>4. Writes(b, d, g, p, a, v) /\ Corrects(b, h, p, a, v) /\ ~Lacks(p, a)
    BY <1>2, <1>3, CorrectsGiven DEF Changes
<1>5. Follows(b, h, d, g)
    BY <1>3, ChangesFollows
<1>6. \A c \in b : g[c].id = c.id /\ \A z : Lacks(g[c], z) <=> Lacks(c, z)
    <2> TAKE c \in b
    <2>1. g[c].id = c.id /\ \A z : ~(c = p /\ z = a) => (Lacks(g[c], z) <=> Lacks(c, z))
        BY <1>4 DEF Writes
    <2>2. c = p => (Lacks(g[c], a) <=> Lacks(c, a))
        BY <1>4 DEF Writes
    <2> QED BY <2>1, <2>2
<1>7. \A t : Of(d, t) = {g[c] : c \in Of(b, t)} /\ Of(b, t) \subseteq b
    <2> TAKE t
    <2>1. Of(d, t) = {g[c] : c \in Of(b, t)}
        BY <1>4, WritesOf
    <2>2. Of(b, t) \subseteq b
        BY DEF Of
    <2> QED BY <2>1, <2>2
<1> SUFFICES ASSUME NEW f, Found(d, f) PROVE f \in Validate(b)
    BY ValidateFinds
<1> SUFFICES ASSUME f # h PROVE Found(b, f)
    BY <1>1, ValidateFinds
<1>8. CASE Absent(d, f)
    <2>1. PICK t \in Required : Of(d, t) = {} /\ f = [code |-> "E003", refs |-> <<>>, missing |-> t]
        BY <1>8 DEF Absent
    <2>2. Of(b, t) = {}
        BY <1>7, <2>1
    <2> QED BY <2>1, <2>2 DEF Absent, Found
<1>9. CASE SocketsDiffer(d, f)
    <2>1. PICK cpu \in Of(b, "cpu"), mb \in Of(b, "mainboard") :
              /\ ~Lacks(g[cpu], "socket") /\ ~Lacks(g[mb], "socket")
              /\ g[cpu].attr["socket"] # g[mb].attr["socket"]
              /\ f = [code |-> "E001", refs |-> <<g[cpu].id, g[mb].id>>]
        BY <1>7, <1>9 DEF SocketsDiffer
    <2>2. /\ ~Lacks(cpu, "socket") /\ ~Lacks(mb, "socket")
          /\ f = [code |-> "E001", refs |-> <<cpu.id, mb.id>>]
        BY <1>6, <1>7, <2>1
    <2>3. g[cpu].attr["socket"] = cpu.attr["socket"] /\ g[mb].attr["socket"] = mb.attr["socket"]
        BY <1>1, <1>5, <2>2, SocketStays
    <2> QED BY <2>1, <2>2, <2>3 DEF SocketsDiffer, Found
<1>10. CASE RamDiffers(d, f)
    <2>1. PICK ram \in Of(b, "ram"), cpu \in Of(b, "cpu"), mb \in Of(b, "mainboard") :
              /\ RamIsJudged(g[ram], g[cpu], g[mb]) /\ ~BothSupport(g[ram], g[cpu], g[mb])
              /\ f = [code |-> "E002", refs |-> <<g[ram].id, g[cpu].id, g[mb].id>>]
        BY <1>7, <1>10 DEF RamDiffers
    <2>2. RamIsJudged(ram, cpu, mb)
        BY <1>6, <1>7, <2>1 DEF RamIsJudged
    <2>3. f = [code |-> "E002", refs |-> <<ram.id, cpu.id, mb.id>>]
        BY <1>6, <1>7, <2>1
    <2>4. ~BothSupport(ram, cpu, mb)
        BY <1>1, <1>5, <2>1, <2>2, <2>3, RamStays
    <2> QED BY <2>2, <2>3, <2>4 DEF RamDiffers, Found
<1>11. CASE CoolerTooHigh(d, f)
    <2>1. PICK cooler \in Of(b, "cooler"), kase \in Of(b, "case") :
              /\ ~Lacks(g[cooler], "height") /\ ~Lacks(g[kase], "max_cooler_height")
              /\ g[cooler].attr["height"] > g[kase].attr["max_cooler_height"]
              /\ f = [code |-> "E004", refs |-> <<g[cooler].id, g[kase].id>>]
        BY <1>7, <1>11 DEF CoolerTooHigh
    <2>2. /\ ~Lacks(cooler, "height") /\ ~Lacks(kase, "max_cooler_height")
          /\ f = [code |-> "E004", refs |-> <<cooler.id, kase.id>>]
        BY <1>6, <1>7, <2>1
    <2>3. /\ g[cooler].attr["height"] = cooler.attr["height"]
          /\ g[kase].attr["max_cooler_height"] = kase.attr["max_cooler_height"]
        BY <1>1, <1>5, <2>2, CoolerStays
    <2> QED BY <2>1, <2>2, <2>3 DEF CoolerTooHigh, Found
<1>12. CASE BoardUnfit(d, f)
    <2>1. PICK t \in Boards : \E part \in Of(d, t), kase \in Of(d, "case") :
              /\ FitIsJudged(part, kase, t) /\ ~Fits(part, kase, t)
              /\ f = [code |-> "E005", refs |-> <<part.id, kase.id>>, component |-> t,
                      actual |-> part.attr["form_factor"]]
        BY <1>12 DEF BoardUnfit
    <2>2. PICK part \in Of(b, t), kase \in Of(b, "case") :
              /\ FitIsJudged(g[part], g[kase], t) /\ ~Fits(g[part], g[kase], t)
              /\ f = [code |-> "E005", refs |-> <<g[part].id, g[kase].id>>, component |-> t,
                      actual |-> g[part].attr["form_factor"]]
        BY <1>7, <2>1
    <2>3. FitIsJudged(part, kase, t) /\ g[part].id = part.id /\ g[kase].id = kase.id
        BY <1>6, <1>7, <2>2 DEF FitIsJudged
    <2>4. h # [code |-> "E005", refs |-> <<part.id, kase.id>>, component |-> t,
               actual |-> part.attr["form_factor"]]
        <3> SUFFICES ASSUME h.code = "E005", h.component = t PROVE FALSE
            OBVIOUS
        <3>1. \E c \in Of(d, t), k \in Of(d, "case") : Fits(c, k, t)
            BY RepairSettles DEF Settled
        <3>2. g[part] \in Of(d, t) /\ g[kase] \in Of(d, "case")
            BY <1>7
        <3> QED BY <1>1, <2>2, <3>1, <3>2, OneOfType DEF Boards
    <2>5. /\ g[part].attr["form_factor"] = part.attr["form_factor"]
          /\ g[kase].attr[ListFor(t)] = kase.attr[ListFor(t)]
        BY <1>1, <1>5, <2>3, <2>4, FitStays
    <2> QED BY <2>2, <2>3, <2>5 DEF BoardUnfit, Fits, Found
<1>13. CASE PsuWeak(d, f)
    <2>1. TdpTotal(d) = TdpTotal(b)
        BY <1>5 DEF Follows
    <2>2. PICK psu \in Of(b, "psu") :
              /\ ~Lacks(g[psu], "wattage") /\ Tight(g[psu].attr["wattage"], TdpTotal(b))
              /\ f = [code |-> "W001", refs |-> <<g[psu].id>>, total |-> TdpTotal(b)]
        BY <1>7, <1>13, <2>1 DEF PsuWeak
    <2>3. ~Lacks(psu, "wattage") /\ f = [code |-> "W001", refs |-> <<psu.id>>, total |-> TdpTotal(b)]
        BY <1>6, <1>7, <2>2
    <2>4. ASSUME NEW w, Corrects(b, h, psu, "wattage", w) PROVE FALSE
        <3>1. RaisesPsu(b, h, psu, "wattage", w)
            BY <2>4, CorrectsWhich
        <3> QED BY <2>3, <3>1 DEF RaisesPsu
    <2>5. g[psu].attr["wattage"] = psu.attr["wattage"]
        BY <1>5, <2>3, <2>4, FollowsOf
    <2> QED BY <2>2, <2>3, <2>5 DEF PsuWeak, Found
<1>14. CASE Silent(d, f)
    <2>1. PICK e \in d, z \in Labels \cup Lists \cup Measures :
              Lacks(e, z) /\ Asked(d, e, z) /\ f = MissingAttribute(e, z)
        BY <1>14 DEF Silent
    <2>2. PICK c \in b : e = g[c]
        BY <1>4, <2>1 DEF Writes
    <2>3. Lacks(c, z) /\ f = MissingAttribute(c, z)
        BY <1>6, <2>1, <2>2 DEF MissingAttribute
    <2>4. Asked(b, c, z)
        BY <1>4, <2>1, <2>2, AskedBefore
    <2> QED BY <2>3, <2>4 DEF Silent, Found
<1> QED BY <1>8, <1>9, <1>10, <1>11, <1>12, <1>13, <1>14 DEF Found

-----------------------------------------------------------------------------
(* The plan *)

\* While nobody else changes the build, what is still in the plan is still found, with
\* the fixes that were planned for it, and what was repaired is settled.
PlanInv ==
    current => /\ \A f \in DOMAIN plan : f \in Validate(build) /\ plan[f] = FixesFor(build, f)
               /\ \A f \in repaired : Settled(build, f)

\* What an agent's fix is while its plan is current: a repair, of a finding of the build.
LEMMA FixIsRepair ==
    ASSUME RepairInv, PlanInv, current, NEW f \in DOMAIN plan, NEW i \in DOMAIN plan[f],
           plan[f][i].attribute = "type" => Of(build, plan[f][i].value) = {}
    PROVE  Repaired(build, f, Apply(build, plan[f][i]))
<1>1. /\ IsBuild(build) /\ BareIsBare(build) /\ IsFix(plan[f][i])
      /\ f \in Validate(build) /\ plan[f] = FixesFor(build, f)
    BY DEF RepairInv, RepairTypeOK, Typed, PlanInv
<1>2. IsBuild(Apply(build, plan[f][i]))
    BY <1>1, ApplyKeepsBuild
<1>3. Repairs(build, f, Apply(build, plan[f][i]))
    BY <1>1, FixRepairs
<1> QED BY <1>1, <1>2, <1>3 DEF Repaired

LEMMA NextPlan == RepairInv /\ PlanInv /\ [Next]_vars => PlanInv'
<1> SUFFICES ASSUME RepairInv, PlanInv, [Next]_vars, current' PROVE PlanInv'
    BY DEF PlanInv
<1> DEFINE none == [f \in {} |-> <<>>]
<1>n. DOMAIN none = {}
    OBVIOUS
<1>p. \A b, fs : DOMAIN RepairBuild(b, fs) = fs /\ \A f \in fs : RepairBuild(b, fs)[f] = FixesFor(b, f)
    BY DEF RepairBuild
<1>1. CASE CompileBuild
    <2>1. build' = build /\ errors' = Validate(build) /\ repaired' = {} /\ plan' = RepairBuild(build, errors')
        BY <1>1 DEF CompileBuild, Detected
    <2> QED BY <1>p, <2>1 DEF PlanInv
<1>2. CASE DetectErrors
    <2>1. repaired' = {} /\ plan' = none
        BY <1>2 DEF DetectErrors, Detected
    <2> HIDE DEF none
    <2> QED BY <1>n, <2>1 DEF PlanInv
<1>3. CASE RepairTool
    <2>1. current /\ repaired = {} /\ UNCHANGED <<build, errors, repaired>>
        BY <1>3 DEF RepairTool
    <2>2. errors = Validate(build)
        BY <2>1 DEF RepairInv, Fresh
    <2>3. plan' = RepairBuild(build, errors) \/ plan' = none
        BY <1>3 DEF RepairTool
    <2>4. CASE plan' = none
        <3> HIDE DEF none
        <3> QED BY <1>n, <2>1, <2>4 DEF PlanInv
    <2>5. CASE plan' = RepairBuild(build, errors)
        BY <1>p, <2>1, <2>2, <2>5 DEF PlanInv
    <2> QED BY <2>3, <2>4, <2>5
<1>4. CASE ApplyFix
    <2>1. PICK f \in DOMAIN plan : \E i \in DOMAIN plan[f] :
              /\ plan[f][i].attribute = "type" => Of(build, plan[f][i].value) = {}
              /\ build' = Apply(build, plan[f][i])
              /\ plan' = [g \in DOMAIN plan \ {f} |-> plan[g]]
              /\ repaired' = repaired \cup {f}
              /\ UNCHANGED <<errors, current, moves>>
        BY <1>4 DEF ApplyFix, ApplyFixFor
    <2>2. current /\ Repaired(build, f, build')
        BY <2>1, FixIsRepair
    <2>3. \A g \in DOMAIN plan' : g \in DOMAIN plan /\ g # f /\ plan'[g] = plan[g]
        BY <2>1
    <2>4. \A g \in DOMAIN plan' : g \in Validate(build') /\ plan'[g] = FixesFor(build', g)
        BY <2>2, <2>3, OthersStay DEF PlanInv
    <2>5. \A g \in repaired : IsFinding(g)
        BY DEF RepairInv, RepairTypeOK, Typed
    <2>6. \A g \in repaired' : Settled(build', g)
        BY <2>1, <2>2, <2>5, SettledStays, RepairSettles DEF PlanInv
    <2> QED BY <2>4, <2>6 DEF PlanInv
<1>5. CASE CustomerMoves
    BY <1>5 DEF CustomerMoves
<1>6. CASE UNCHANGED vars
    BY <1>6 DEF vars, PlanInv
<1> QED BY <1>1, <1>2, <1>3, <1>4, <1>5, <1>6 DEF Next

LEMMA PlanInvariant == Spec => [](RepairInv /\ PlanInv)
<1>1. Init => RepairInv /\ PlanInv
    BY InitRepairs DEF Init, PlanInv
<1>2. RepairInv /\ PlanInv /\ [Next]_vars => (RepairInv /\ PlanInv)'
    BY NextRepairs, NextPlan
<1> QED BY <1>1, <1>2, PTL DEF Spec

\* For every build, plan, order and choice of its fixes, while nobody else changes the build:
\* what was repaired is not found again, but for RAM of which CPU and mainboard have no
\* generation in common; that is found again whatever is done about it.
THEOREM RepairsStay == Spec => []RepairedIsGone
<1>1. RepairInv /\ PlanInv => RepairedIsGone
    <2> SUFFICES ASSUME RepairInv, PlanInv, current, NEW f \in repaired
                 PROVE  f \in Validate(build) <=> f.code = "E002" /\ NoCommonGen(build)
        BY DEF RepairedIsGone
    <2>1. IsBuild(build) /\ Settled(build, f)
        BY DEF RepairInv, RepairTypeOK, PlanInv
    <2> QED BY <2>1, SettledIsGone, HopelessIsFound
<1> QED BY <1>1, PlanInvariant, PTL

\* A step that takes a finding of a current plan among the repaired is a repair of it.
LEMMA StepRepairs ==
    ASSUME RepairInv, PlanInv, [Next]_vars, NEW f \in DOMAIN plan, current, f \in repaired', f \notin repaired
    PROVE  Repaired(build, f, build')
<1>1. ~CompileBuild /\ ~DetectErrors /\ ~RepairTool /\ ~CustomerMoves /\ ~UNCHANGED vars
    BY DEF CompileBuild, DetectErrors, Detected, RepairTool, CustomerMoves, vars
<1>2. ApplyFix
    BY <1>1 DEF Next
<1>3. PICK g \in DOMAIN plan : \E i \in DOMAIN plan[g] :
          /\ plan[g][i].attribute = "type" => Of(build, plan[g][i].value) = {}
          /\ build' = Apply(build, plan[g][i])
          /\ repaired' = repaired \cup {g}
    BY <1>2 DEF ApplyFix, ApplyFixFor
<1>4. g = f
    BY <1>3
<1> QED BY <1>3, <1>4, FixIsRepair

\* For every build: a fix that changes what is there brings up no finding that was not
\* there before; one that supplies a part or an attribute may.
THEOREM RepairsBreakNothing == Spec => RepairBreaksNothing
<1>1. RepairInv /\ PlanInv /\ [Next]_vars =>
          [\A f \in DOMAIN plan :
              current /\ f \in repaired' /\ f.code \notin {"E003", "E006"} => Validate(build') \subseteq Validate(build)]_vars
    <2> SUFFICES ASSUME RepairInv, PlanInv, [Next]_vars, NEW f \in DOMAIN plan, current, f \in repaired',
                        f.code \notin {"E003", "E006"}
                 PROVE  Validate(build') \subseteq Validate(build)
        OBVIOUS
    <2>1. f \notin repaired
        BY DEF RepairInv, RepairTypeOK
    <2> QED BY <2>1, StepRepairs, CorrectionUncoversNothing
<1> QED BY <1>1, PlanInvariant, PTL DEF Spec, RepairBreaksNothing
-----------------------------------------------------------------------------
(* Why repairing comes to an end *)

Gaps(b) == {t \in Required : Of(b, t) = {}}
Unsaid(b) == {u \in Ids(b) \X (Labels \cup Lists \cup Measures) : \E c \in b : c.id = u[1] /\ Lacks(c, u[2])}
Less(S, T) == S \subseteq T /\ S # T

\* Fewer parts are missing; or as many, and less is left unsaid; or that as well, and less
\* is found.
Progress(b, d) ==
    \/ Less(Gaps(d), Gaps(b))
    \/ Gaps(d) = Gaps(b) /\ Less(Unsaid(d), Unsaid(b))
    \/ Gaps(d) = Gaps(b) /\ Unsaid(d) = Unsaid(b) /\ Less(Validate(d), Validate(b))

\* What a repair of RAM that nothing can fit amounts to.
NothingLost(b, d) == Gaps(d) = Gaps(b) /\ Unsaid(d) = Unsaid(b) /\ Validate(d) \subseteq Validate(b)

LEMMA AddingIsProgress ==
    ASSUME NEW b, NEW h, NEW d, Adds(b, h, d)
    PROVE  Progress(b, d)
<1>1. PICK t \in Required : Of(b, t) = {} /\ d = b \cup {Bare(t)}
    BY DEF Adds
<1>2. \A u : Of(b, u) \subseteq Of(d, u)
    BY <1>1 DEF Of
<1>3. Bare(t) \in Of(d, t)
    BY <1>1 DEF Of, Bare
<1>4. t \in Gaps(b) /\ t \notin Gaps(d) /\ Gaps(d) \subseteq Gaps(b)
    BY <1>1, <1>2, <1>3 DEF Gaps
<1> QED BY <1>4 DEF Progress, Less

LEMMA WritesGaps ==
    ASSUME NEW b, IsBuild(b), NEW d, NEW g, NEW p, NEW a, NEW v, Writes(b, d, g, p, a, v)
    PROVE  /\ Gaps(d) = Gaps(b) /\ Unsaid(d) \subseteq Unsaid(b)
           /\ <<p.id, a>> \notin Unsaid(d)
           /\ ~Lacks(p, a) => Unsaid(d) = Unsaid(b)
<1>1. \A t : Of(d, t) = {} <=> Of(b, t) = {}
    <2> TAKE t
    <2>1. Of(d, t) = {g[c] : c \in Of(b, t)}
        BY WritesOf
    <2> QED BY <2>1
<1>2. Gaps(d) = Gaps(b)
    BY <1>1 DEF Gaps
<1>3. Ids(d) = Ids(b)
    BY DEF Writes, Ids
<1>4. \A id, z : (\E e \in d : e.id = id /\ Lacks(e, z)) <=> \E c \in b : c.id = id /\ Lacks(g[c], z)
    BY DEF Writes
<1>5. \A c \in b : \A z : Lacks(g[c], z) <=> Lacks(c, z) /\ ~(c = p /\ z = a)
    BY DEF Writes
<1>6. \A id, z : (\E e \in d : e.id = id /\ Lacks(e, z)) <=>
                     \E c \in b : c.id = id /\ Lacks(c, z) /\ ~(c = p /\ z = a)
    BY <1>4, <1>5
<1>7. Unsaid(d) \subseteq Unsaid(b)
    BY <1>3, <1>6 DEF Unsaid
<1>8. <<p.id, a>> \notin Unsaid(d)
    <2>1. \A c \in b : c.id = p.id => c = p
        BY DEF Writes, IsBuild
    <2> QED BY <1>6, <2>1 DEF Unsaid
<1>9. ~Lacks(p, a) => Unsaid(d) = Unsaid(b)
    BY <1>3, <1>6 DEF Unsaid
<1> QED BY <1>2, <1>7, <1>8, <1>9

\* A fix leads nearer to a build of which nothing is found; but for that of RAM that nothing
\* can fit, which at least leads no further away.
LEMMA RepairIsNearer ==
    ASSUME NEW b, NEW h, NEW d, Repaired(b, h, d)
    PROVE  Progress(b, d) \/ (h.code = "E002" /\ NoCommonGen(b) /\ NothingLost(b, d))
<1>1. IsBuild(b) /\ IsBuild(d) /\ h \in Validate(b) /\ Repairs(b, h, d)
    BY DEF Repaired
<1>2. ASSUME NEW g, NEW p, NEW a, NEW v, Changes(b, h, d, g, p, a, v)
      PROVE  Progress(b, d) \/ (h.code = "E002" /\ NoCommonGen(b) /\ NothingLost(b, d))
    <2>1. Writes(b, d, g, p, a, v) /\ p \in b
        BY <1>2 DEF Changes, Writes
    <2>2. CASE Supplies(h, p, a)
        <3>1. Lacks(p, a) /\ h = MissingAttribute(p, a)
            BY <2>2 DEF Supplies
        <3>2. IsFinding(h)
            BY <1>1, ValidateReports DEF Reported
        <3>3. a \in Labels \cup Lists \cup Measures
            BY <3>1, <3>2 DEF MissingAttribute, IsFinding
        <3>4. <<p.id, a>> \in Unsaid(b)
            BY <2>1, <3>1, <3>3 DEF Unsaid, Ids
        <3> QED BY <1>1, <2>1, <3>4, WritesGaps DEF Progress, Less
    <2>3. CASE Corrects(b, h, p, a, v)
        <3>1. ~Lacks(p, a)
            BY <2>3, CorrectsGiven
        <3>2. h.code \notin {"E003", "E006"}
            BY <2>3 DEF Corrects, AlignsSocket, ReplacesRam, LowersCooler, FitsBoard, RaisesPsu
        <3>3. Validate(d) \subseteq Validate(b)
            BY <3>2, CorrectionUncoversNothing
        <3>4. ASSUME NoCommonGen(d) PROVE NoCommonGen(b)
            <4>1. Follows(b, h, d, g)
                BY <1>2, ChangesFollows
            <4>5. PICK cpu \in Of(d, "cpu"), mb \in Of(d, "mainboard") :
                      /\ ~Lacks(cpu, "ram_gen_supported") /\ ~Lacks(mb, "ram_gen_supported")
                      /\ Common(cpu, mb) = {}
                BY <3>4 DEF NoCommonGen
            <4>2. PICK c \in Of(b, "cpu"), m \in Of(b, "mainboard") : cpu = g[c] /\ mb = g[m]
                BY <2>1, WritesOf
            <4>3. ~Lacks(c, "ram_gen_supported") /\ ~Lacks(m, "ram_gen_supported")
                <5>1. a # "ram_gen_supported" /\ c \in b /\ m \in b
                    BY <2>3, CorrectsGiven DEF Of
                <5> QED BY <2>1, <4>2, <4>5, <5>1 DEF Writes
            <4>4. Common(g[c], g[m]) = Common(c, m)
                BY <4>1, <4>3, GensStay DEF Common
            <4> QED BY <4>2, <4>3, <4>4, <4>5 DEF NoCommonGen
        <3>5. h \in Validate(d) => h.code = "E002" /\ NoCommonGen(b)
            BY <1>1, <3>4, RepairSettles, SettledIsGone
        <3>6. NothingLost(b, d)
            BY <1>1, <2>1, <3>1, <3>3, WritesGaps DEF NothingLost
        <3> QED BY <1>1, <3>5, <3>6 DEF Progress, Less, NothingLost
    <2> QED BY <1>2, <2>2, <2>3 DEF Changes
<1> QED BY <1>1, <1>2, AddingIsProgress DEF Repairs

\* While nobody else changes the build, every fix that is carried out is progress in an order
\* without infinite descent: no repairs undo each other, and the agent cannot go on with them
\* for ever. Only that of RAM that nothing can fit goes on being offered; it loses nothing that
\* the others have reached. It is the part of RepairsEnd that needs no fairness.
THEOREM RepairsMakeProgress ==
    Spec => [][\A f \in DOMAIN plan : current /\ f \in repaired' =>
                   \/ Progress(build, build')
                   \/ f.code = "E002" /\ NoCommonGen(build) /\ NothingLost(build, build')]_vars
<1>1. RepairInv /\ PlanInv /\ [Next]_vars =>
          [\A f \in DOMAIN plan : current /\ f \in repaired' =>
               \/ Progress(build, build')
               \/ f.code = "E002" /\ NoCommonGen(build) /\ NothingLost(build, build')]_vars
    <2> SUFFICES ASSUME RepairInv, PlanInv, [Next]_vars, NEW f \in DOMAIN plan, current, f \in repaired'
                 PROVE  \/ Progress(build, build')
                        \/ f.code = "E002" /\ NoCommonGen(build) /\ NothingLost(build, build')
        OBVIOUS
    <2>1. f \notin repaired
        BY DEF RepairInv, RepairTypeOK
    <2>2. Repaired(build, f, build')
        BY <2>1, StepRepairs
    <2> QED BY <2>2, RepairIsNearer
<1> QED BY <1>1, PlanInvariant, PTL DEF Spec
=============================================================================
