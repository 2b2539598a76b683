--------------------------- MODULE MCRepairLoop ----------------------------
EXTENDS RepairLoop

Part(i, t, as) == [id |-> i, type |-> t, attr |-> as]

Cpu(i, s, g) == Part(i, "cpu", [socket |-> s, ram_gen_supported |-> g, tdp |-> 5])
Board(i, s, g, f) == Part(i, "mainboard", [socket |-> s, ram_gen_supported |-> g, form_factor |-> f])
Kase(i, h, m, p) == Part(i, "case", [max_cooler_height |-> h, supported_mb_form_factors |-> m,
                                     supported_psu_form_factors |-> p])

\* A build in which all is well, with its PSU at the limit: 5 + 5 + 1 W and 20 %.
Base == {Cpu("c1", "AM5", <<"DDR5">>), Board("b1", "AM5", <<"DDR5">>, "ATX"),
         Part("r1", "ram", [generation |-> "DDR5"]), Part("p1", "psu", [wattage |-> 14, form_factor |-> "ATX"]),
         Part("h1", "cooler", [height |-> 5]), Kase("k1", 5, <<"ATX", "ITX">>, <<"ATX">>),
         Part("s1", "storage", [tdp |-> 1]), Part("g1", "gpu", [tdp |-> 5])}

\* Parts that agree with Base, or with each other, in some things and not in others.
c2 == Cpu("c2", "1700", <<"DDR4", "DDR5">>)
c3 == Part("c3", "cpu", [ram_gen_supported |-> <<"DDR4">>])
b2 == Board("b2", "1700", <<"DDR4">>, "ITX")
b3 == Part("b3", "mainboard", [socket |-> "1700", form_factor |-> "EATX"])
r2 == Part("r2", "ram", [generation |-> "DDR4"])
r3 == Part("r3", "ram", [tdp |-> 1])
p2 == Part("p2", "psu", [wattage |-> 5, form_factor |-> "SFX"])
p3 == Part("p3", "psu", [form_factor |-> "ATX"])
h2 == Part("h2", "cooler", [height |-> 6])
h3 == Part("h3", "cooler", [tdp |-> 1])
k2 == Kase("k2", 4, <<"ITX">>, <<>>)
k4 == Kase("k4", 5, <<"EATX">>, <<"ATX">>)
k3 == Part("k3", "case", [supported_psu_form_factors |-> <<"SFX">>])
c4 == Cpu("c4", "", <<"DDR5">>)
p4 == Part("p4", "psu", [wattage |-> 14, form_factor |-> ""])
g2 == Part("g2", "gpu", [tdp |-> 6])

\* A part takes the place of the one of its type; a second stick of RAM is added.
Replaced(b, c) == IF c.type = "ram" THEN b \cup {c} ELSE {d \in b : d.type # c.type} \cup {c}
StartsMC ==
    {Replaced(Base, c) : c \in {c2, c3, c4, b2, b3, r2, r3, p2, p3, h2, h3, k2, k3, g2}}
        \cup {Replaced(Replaced(Base, p[1]), p[2]) :
                 p \in {<<c2, b2>>, <<c3, b2>>, <<c2, r2>>, <<p2, k2>>, <<h3, k2>>, <<p3, g2>>, <<r2, r3>>, <<b2, r3>>, <<p4, k2>>, <<b2, k4>>}}
        \cup {Base \ {d} : d \in Base}

OffersMC == {Cpu("c9", "1700", <<"DDR4">>), Part("g9", "gpu", [tdp |-> 9])}
=============================================================================
