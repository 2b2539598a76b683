----------------------------- MODULE MCCatalog -----------------------------
(* Five shops with one or two types each: together all eight types, a product *)
(* with no price and one that is scraped with price 0, one whose text does not *)
(* state the essentials, sizes in several spellings, two listings.             *)
EXTENDS Catalog

P(sku, price, stock, text, detail, specs) ==
    [sku |-> sku, price |-> price, stock |-> stock, text |-> text, detail |-> detail, specs |-> specs]

Says == [socket |-> "LGA1700", gen |-> "DDR5", ff |-> "mATX", watts |-> 750, tdp |-> 125, room |-> 300,
         price |-> 88]
Board == [socket |-> "Intel LGA 1700", gen |-> "DDR5", ff |-> "M-ATX"]

Cpus == [
    cpu |-> <<<<P("c1", 90, "some", [socket |-> "LGA1700"], [socket |-> "Intel LGA 1700", tdp |-> 125], Says),
                P("c2", 0, "none", Says, Says, Says),
                P("c3", 50, "unknown", <<>>, [socket |-> "AMD AM5"], <<>>)>>>>]
Boards == [
    mainboard |-> <<<<P("m1", 30, "none", Says, Board, Says)>>>>,
    ram |-> <<<<P("r1", 20, "some", [gen |-> "DDR4"], [gen |-> "DDR4"], Says)>>>>]
Boxes == [
    psu |-> <<<<P("p1", 18, "some", [watts |-> 700], [watts |-> 750, ff |-> "SFX-L"], Says)>>>>,
    case |-> <<<<P("k1", 15, "some", [ff |-> "E-ATX", sfx |-> TRUE], [boards |-> <<"Mini-ITX", "E-ATX", "ITX", "ATX">>], Says)>>>>]
Disks == [
    cooler |-> <<<<P("f1", 8, "some", [liquid |-> TRUE], [height |-> 155, sockets |-> <<"AMD AM5">>], [socket |-> "AM5"])>>>>,
    storage |-> <<<<P("s1", 7, "some", <<>>, [hdd |-> TRUE], [price |-> 0])>>, <<P("s2", 5, "some", <<>>, <<>>, <<>>)>>>>]
Cards == [
    gpu |-> <<<<P("g1", 300, "some", [length |-> 330], [tdp |-> 375], Says)>>>>]

MCShops == {Cpus, Boards, Boxes, Disks, Cards}
MCProducts == UNION {UNION {Range(FlattenSeq(s[t])) : t \in DOMAIN s} : s \in MCShops}
MCCriteria ==
    {[price_max |-> 95], [type |-> "cpu", socket |-> "1700", tdp_max |-> 130],
     [type |-> "mainboard", form_factor |-> "mATX", ram_gen |-> "DDR5"],
     [type |-> "case", form_factor |-> "ATX"], [type |-> "psu", wattage_min |-> 700, stock_status |-> "in_stock"],
     [type |-> "gpu", clearance_mm |-> 310]}
=============================================================================
