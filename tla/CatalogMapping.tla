-------------------------- MODULE CatalogMapping --------------------------
(* The pure part of packages/catalog/src: how a product of the shop becomes  *)
(* a component of the catalog, along three paths (the detail API, the text   *)
(* of the shop's list, a scraper's specs), and what a search keeps.          *)
(*                                                                           *)
(* A product is [sku, price, stock, text, detail, specs]; the last three     *)
(* are what the sources state of it: functions on those of the keys          *)
(*   socket, gen, ff, watts, tdp, height, sockets, liquid, boards, sfx,      *)
(*   room, length, hdd, and of the specs price                               *)
(* that a regular expression or an attribute code finds, in the source's own *)
(* words and each of them once. The shop's price 0 is one that is not given; *)
(* a scraper gives null, which is no key, or a number, which may be 0. Stock *)
(* is "some", "none" or "unknown". A component is a record of the attributes *)
(* that are not undefined. Names and promotions are left out; so is a stated *)
(* wattage or measure of 0.                                                  *)
EXTENDS Integers, Sequences, FiniteSets, SequencesExt

ALL_TYPES == <<"cpu", "mainboard", "ram", "psu", "cooler", "case", "storage", "gpu">>

Has(f, key) == key \in DOMAIN f
Or(f, key, default) == IF Has(f, key) THEN f[key] ELSE default
Only(f, key, as) == IF Has(f, key) THEN [k \in {as} |-> f[key]] ELSE <<>>
\* {...g, ...f}
Joined(f, g) == [key \in DOMAIN f \cup DOMAIN g |-> IF Has(f, key) THEN f[key] ELSE g[key]]
EachOf(s, Convert(_)) == [i \in DOMAIN s |-> Convert(s[i])]

\* s.filter(...) where it keeps what is in T, and [...new Set(s)]: the first of each; of
\* SelectSeq and the folds the provers know nothing.
Among(s, T) == FlattenSeq([i \in DOMAIN s |-> IF s[i] \in T THEN <<s[i]>> ELSE <<>>])
Distinct(s) == FlattenSeq([i \in DOMAIN s |-> IF \E j \in 1 .. i - 1 : s[j] = s[i] THEN <<>> ELSE <<s[i]>>])

-----------------------------------------------------------------------------
(* The conversions, each as a table of the forms the sources use *)

\* AMD, Intel, LGA, Socket and blanks are struck out, whatever else is there.
normalizeSocket(raw) ==
    CASE raw \in {"AMD AM5", "Socket AM5"} -> "AM5"
      [] raw \in {"AMD AM4", "Socket AM4"} -> "AM4"
      [] raw \in {"AMD sTR5", "Socket sTR5"} -> "sTR5"
      [] raw \in {"Intel LGA 1851", "LGA 1851", "LGA1851"} -> "1851"
      [] raw \in {"Intel LGA 1700", "LGA 1700", "LGA1700"} -> "1700"
      [] raw \in {"Intel LGA 1200", "LGA 1200", "LGA1200"} -> "1200"
      [] raw \in {"Intel LGA 115X", "LGA 115X", "LGA115X"} -> "115X"
      [] raw \in {"Intel LGA 1151", "LGA 1151", "LGA1151"} -> "1151"
      [] raw \in {"Intel LGA 1150", "LGA 1150", "LGA1150"} -> "1150"
      [] OTHER -> raw

\* Case, hyphens and blanks do not matter; what is none of these is taken for ATX.
normalizeFormFactor(raw) ==
    CASE raw \in {"E-ATX", "EATX", "E ATX"} -> "E-ATX"
      [] raw \in {"Micro-ATX", "MicroATX", "Micro ATX", "M-ATX", "mATX", "MATX"} -> "mATX"
      [] raw \in {"Mini-ITX", "MiniITX", "Mini ITX", "ITX"} -> "ITX"
      [] OTHER -> "ATX"

\* Mutant: what is found is looked for in any case and kept as it stands in upper case.
UpperCased(raw) ==
    CASE raw \in {"mATX", "MATX"} -> "MATX"
      [] raw \in {"Mini-ITX", "MiniITX", "Mini ITX", "ITX"} -> "ITX"
      [] OTHER -> "ATX"

\* The list's regular expression looks for ATX, mATX or ITX in upper case text.
BoardInText(raw) == IF raw \in {"Mini-ITX", "MiniITX", "Mini ITX", "ITX"} THEN "ITX" ELSE "ATX"

\* One that has SFX in it, SFX-L too.
PsuFormFactor(raw) == IF raw \in {"SFX", "SFX-L"} THEN "SFX" ELSE "ATX"

\* The scraper's looks for them in any case and makes what it found upper case.
parseFormFactor(raw) ==
    CASE raw \in {"mATX", "MATX"} -> "MATX"
      [] raw \in {"Mini-ITX", "MiniITX", "Mini ITX", "ITX"} -> "ITX"
      [] OTHER -> PsuFormFactor(raw)

cpuRamGenSupported(socket) ==
    CASE socket \in {"AM5", "STR5", "sTR5", "1851", "1700DDR5"} -> <<"DDR5">>
      [] socket \in {"AM4", "1200", "115X", "1151", "1150"} -> <<"DDR4">>
      [] OTHER -> <<"DDR4", "DDR5">>

Smaller == [ATX |-> <<"ATX", "mATX", "ITX">>, mATX |-> <<"mATX", "ITX">>, ITX |-> <<"ITX">>]
supportedMbFormFactors(ff) == IF ff = "E-ATX" THEN Smaller["ATX"] ELSE Smaller[ff]
getSupportedFormFactors(ff) == Or(Smaller, ff, <<>>)
getFormFactorRank(ff) == Or([ITX |-> 1, mATX |-> 2, ATX |-> 3], ff, 0)

-----------------------------------------------------------------------------
(* What a detail answer or a list text makes of a product *)

\* Without these, in the source that is read, a product is dropped.
Essential ==
    [cpu |-> {"socket"}, mainboard |-> {"socket", "gen", "ff"}, ram |-> {"gen"}, psu |-> {"watts"},
     cooler |-> {}, case |-> {}, storage |-> {}, gpu |-> {}]

Shared(sku, type, price, inStock) ==
    [sku |-> sku, type |-> type, price |-> price,
     stock_status |-> IF inStock THEN "in_stock" ELSE "out_of_stock"]

\* To the shop's list an unknown stock is some, to the scraper it is none. What is scraped
\* gets a sku made of the time and a random number.
extractSharedFields(p, type) == Shared(p.sku, type, p.price, p.stock # "none")
scrapedBase(p, type) == Shared("scraped", type, p.specs.price, p.stock = "some")

Cpu(says, socket) ==
    [socket |-> socket, tdp |-> Or(says, "tdp", 65), ram_gen_supported |-> cpuRamGenSupported(socket)]

Mainboard(says, socket, ff) ==
    [socket |-> socket, ram_gen |-> says.gen, ram_gen_supported |-> <<says.gen>>, form_factor |-> ff]

\* Mutant: the attribute the memory rule reads is forgotten, the one the search reads is not.
ForTheSearchOnly(says) == [ram_gen |-> says.gen, tdp |-> 3]

Ram(says) == [ram_gen |-> says.gen, generation |-> says.gen, tdp |-> 3]

Psu(says) == [wattage |-> says.watts, form_factor |-> PsuFormFactor(Or(says, "ff", "ATX"))]

Cooler(says, sockets) ==
    Joined([height |-> Or(says, "height", IF Or(says, "liquid", FALSE) THEN 60 ELSE 158)],
           IF sockets = <<>> THEN <<>> ELSE [socket |-> sockets])

Kase(says, ff, boards, psus) ==
    [form_factor |-> ff, supported_mb_form_factors |-> boards, supported_psu_form_factors |-> psus,
     max_cooler_height |-> Or(says, "height", 160), clearance_mm |-> Or(says, "room", 330)]

Gpu(says) == [tdp |-> Or(says, "tdp", 300), clearance_mm |-> Or(says, "length", 300)]

DetailCase(says) ==
    LET sizes == EachOf(Or(says, "boards", <<>>), normalizeFormFactor)
        boards == Distinct(Among(sizes, {"ATX", "mATX", "ITX"}))
    IN  Kase(says, IF sizes = <<>> THEN "ATX" ELSE sizes[1],
             IF boards = <<>> THEN supportedMbFormFactors("ATX") ELSE boards, <<"ATX">>)

DetailAttributes(says, type) ==
    CASE type = "cpu" -> Cpu(says, normalizeSocket(says.socket))
      [] type = "mainboard" -> Mainboard(says, normalizeSocket(says.socket), normalizeFormFactor(says.ff))
      [] type = "ram" -> Ram(says)
      [] type = "psu" -> Psu(says)
      [] type = "cooler" -> Cooler(says, EachOf(Or(says, "sockets", <<>>), normalizeSocket))
      [] type = "case" -> DetailCase(says)
      [] type = "storage" -> [tdp |-> IF Or(says, "hdd", FALSE) THEN 6 ELSE 5]
      [] OTHER -> Gpu(says)

TextCase(says) ==
    LET ff == normalizeFormFactor(Or(says, "ff", "ATX")) IN
    Kase(says, ff, supportedMbFormFactors(ff), IF Or(says, "sfx", FALSE) THEN <<"SFX", "ATX">> ELSE <<"ATX">>)

TextAttributes(says, type) ==
    CASE type = "cpu" -> Cpu(says, says.socket)
      [] type = "mainboard" -> Mainboard(says, says.socket, BoardInText(says.ff))
      [] type = "ram" -> Ram(says)
      [] type = "psu" -> Psu(says)
      [] type = "cooler" -> Cooler(says, Or(says, "sockets", <<>>))
      [] type = "case" -> TextCase(says)
      [] type = "storage" -> <<>>
      [] OTHER -> Gpu(says)

\* Null is the empty sequence, a component the sequence of that one.
transformPhongVuDetail(p, type) ==
    IF p.price = 0 \/ ~(Essential[type] \subseteq DOMAIN p.detail) THEN <<>>
    ELSE <<Joined(DetailAttributes(p.detail, type), extractSharedFields(p, type))>>

transformPhongVuProduct(p, type) ==
    IF p.price = 0 \/ ~(Essential[type] \subseteq DOMAIN p.text) THEN <<>>
    ELSE <<Joined(TextAttributes(p.text, type), extractSharedFields(p, type))>>

-----------------------------------------------------------------------------
(* What a scraped product becomes *)

EssentialLive ==
    [cpu |-> {"socket", "tdp", "gen"}, mainboard |-> {"socket", "gen", "ff"}, ram |-> {"gen"},
     psu |-> {"watts", "ff"}, cooler |-> {"socket", "tdp"}, case |-> {"ff"}, storage |-> {}, gpu |-> {"tdp"}]

LiveAttributes(says, type) ==
    CASE type = "cpu" -> [socket |-> says.socket, tdp |-> says.tdp, ram_gen_supported |-> <<says.gen>>]
      [] type = "mainboard" -> [socket |-> says.socket, ram_gen_supported |-> <<says.gen>>,
                                form_factor |-> parseFormFactor(says.ff)]
      [] type = "ram" -> Joined([generation |-> says.gen], Only(says, "tdp", "tdp"))
      [] type = "psu" -> [wattage |-> says.watts, form_factor |-> parseFormFactor(says.ff)]
      [] type = "cooler" -> Joined([socket |-> <<says.socket>>, tdp |-> says.tdp], Only(says, "room", "height"))
      [] type = "case" ->
            LET ff == parseFormFactor(says.ff) IN
            Joined([form_factor |-> ff, max_cooler_height |-> Or(says, "tdp", 165),
                    supported_mb_form_factors |-> getSupportedFormFactors(ff),
                    supported_psu_form_factors |-> IF ff = "ITX" THEN <<"SFX">> ELSE <<"ATX", "SFX">>],
                   Only(says, "room", "clearance_mm"))
      [] type = "storage" -> <<>>
      [] OTHER -> Joined([tdp |-> says.tdp], Only(says, "room", "clearance_mm"))

mapScrapedProduct(p, type) ==
    IF ~(EssentialLive[type] \cup {"price"} \subseteq DOMAIN p.specs) THEN <<>>
    ELSE <<Joined(LiveAttributes(p.specs, type), scrapedBase(p, type))>>

-----------------------------------------------------------------------------
(* The bundled catalog, with the first of about six of each type; prices are *)
(* in units of 100 000 dong.                                                 *)

Mock(sku, type, price) ==
    [sku |-> sku, type |-> type, price |-> price, stock_status |-> "in_stock"]

MOCK_CATALOG ==
    << Joined([socket |-> "AM5", tdp |-> 120, ram_gen_supported |-> <<"DDR5">>], Mock("cpu-001", "cpu", 95)),
       Joined([socket |-> "AM5", ram_gen_supported |-> <<"DDR5">>, form_factor |-> "ATX"],
              Mock("mb-001", "mainboard", 32)),
       Joined([generation |-> "DDR5", tdp |-> 3], Mock("ram-001", "ram", 28)),
       Joined([wattage |-> 650, form_factor |-> "ATX"], Mock("psu-001", "psu", 18)),
       Joined([socket |-> <<"AM5", "AM4", "LGA1700">>, height |-> 160, tdp |-> 250], Mock("cooler-001", "cooler", 9)),
       Joined([form_factor |-> "ATX", max_cooler_height |-> 170, supported_mb_form_factors |-> Smaller["ATX"],
               supported_psu_form_factors |-> <<"ATX", "SFX">>, clearance_mm |-> 370], Mock("case-001", "case", 35)),
       Mock("storage-001", "storage", 12),
       Joined([tdp |-> 450, clearance_mm |-> 320], Mock("gpu-001", "gpu", 350)) >>

-----------------------------------------------------------------------------
(* What a search keeps. Criteria are a function on the fields that are given. *)

Between(x, criteria, low, high) ==
    /\ Has(criteria, low) => x >= criteria[low]
    /\ Has(criteria, high) => x <= criteria[high]

SocketFits(c, socket) ==
    /\ Has(c, "socket")
    /\ \/ c.type = "cooler" /\ socket \in Range(c.socket)
       \/ c.type \in {"cpu", "mainboard"} /\ socket = c.socket

FormFactorFits(c, ff, isCase) ==
    \/ /\ isCase /\ c.type = "case"
       /\ getFormFactorRank(ff) # 0
       /\ getFormFactorRank(c.form_factor) >= getFormFactorRank(ff)
    \/ c.type = "mainboard" /\ c.form_factor = ff

\* composePredicates of all the predicates that the criteria call for.
Wanted(c, criteria) ==
    /\ Has(criteria, "socket") => SocketFits(c, criteria.socket)
    /\ Has(criteria, "ram_gen") =>
          c.type \in {"ram", "mainboard"} /\ Has(c, "ram_gen") /\ c.ram_gen = criteria.ram_gen
    /\ Has(criteria, "form_factor") =>
          FormFactorFits(c, criteria.form_factor, Has(criteria, "type") /\ criteria.type = "case")
    /\ Has(criteria, "stock_status") => c.stock_status = criteria.stock_status
    /\ Between(c.price, criteria, "price_min", "price_max")
    /\ Has(criteria, "clearance_mm") => Has(c, "clearance_mm") /\ c.clearance_mm >= criteria.clearance_mm
    /\ Has(criteria, "tdp_min") \/ Has(criteria, "tdp_max") =>
          /\ c.type \in {"cpu", "gpu", "cooler"} /\ Has(c, "tdp")
          /\ Between(c.tdp, criteria, "tdp_min", "tdp_max")
    /\ Has(criteria, "wattage_min") \/ Has(criteria, "wattage_max") =>
          c.type = "psu" /\ Has(c, "wattage") /\ Between(c.wattage, criteria, "wattage_min", "wattage_max")

\* A stable sort: a component's place is after the cheaper ones and its equals before it.
SortByPrice(s) ==
    LET place(i) == Cardinality({j \in DOMAIN s : \/ s[j].price < s[i].price
                                                  \/ s[j].price = s[i].price /\ j <= i})
    IN  [r \in DOMAIN s |-> s[CHOOSE i \in DOMAIN s : place(i) = r]]

FilterAndSort(components, criteria) ==
    IF Has(criteria, "price_min") /\ Has(criteria, "price_max") /\ criteria.price_min > criteria.price_max
    THEN <<>>
    ELSE SortByPrice(Among(components, {c \in Range(components) : Wanted(c, criteria)}))
=============================================================================
