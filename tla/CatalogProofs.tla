--------------------------- MODULE CatalogProofs ---------------------------
(* Proofs about the catalog, for every shop, and for all sizes of a page, of *)
(* the listings and of the pool of workers.                                  *)
EXTENDS Catalog, FiniteSetTheorems, FunctionTheorems, SequenceTheorems, WellFoundedInduction, TLAPS

-----------------------------------------------------------------------------
(* Types and joined records *)

TypeNames == {ALL_TYPES[i] : i \in DOMAIN ALL_TYPES}

LEMMA TheTypes ==
    TypeNames = {"cpu", "mainboard", "ram", "psu", "cooler", "case", "storage", "gpu"}
BY DEF TypeNames, ALL_TYPES

LEMMA JoinedDomain ==
    ASSUME NEW f, NEW g
    PROVE  /\ DOMAIN Joined(f, g) = DOMAIN f \cup DOMAIN g
           /\ \A key \in DOMAIN f : Joined(f, g)[key] = f[key]
           /\ \A key \in DOMAIN g \ DOMAIN f : Joined(f, g)[key] = g[key]
BY DEF Joined, Has

-----------------------------------------------------------------------------
(* Flattening a sequence of sequences *)

LEMMA Least ==
    ASSUME NEW T, T \subseteq Nat, T # {}
    PROVE  \E n \in T : \A k \in T : n <= k
<1> DEFINE less == OpToRel(<, Nat)
<1>1. IsWellFoundedOn(less, Nat)
    BY NatLessThanWellFounded DEF less
<1>2. PICK n \in T : \A k \in T : ~(<<k, n>> \in less)
  <2> HIDE DEF less
  <2> QED BY <1>1, WFMin
<1>3. \A k \in T : ~(k < n)
    BY <1>2 DEF OpToRel
<1>4. \A k \in T : n <= k
    BY <1>3
<1> QED BY <1>4

\* Induction over the naturals for a set, which the provers can instantiate.
LEMMA Inductive ==
    ASSUME NEW P, 0 \in P, \A n \in Nat : n \in P => n + 1 \in P
    PROVE  \A n \in Nat : n \in P
<1> DEFINE T == {n \in Nat : n \notin P}
<1> SUFFICES T = {}
    OBVIOUS
<1>1. SUFFICES ASSUME T # {} PROVE FALSE
    OBVIOUS
<1>2. PICK n \in T : \A k \in T : n <= k
  <2>1. T \subseteq Nat
      OBVIOUS
  <2> HIDE DEF T
  <2> QED BY <1>1, <2>1, Least
<1>3. n # 0 /\ n \in Nat
    OBVIOUS
<1>4. n - 1 \in Nat /\ n - 1 \in P
    BY <1>2, <1>3
<1>5. QED
    BY <1>3, <1>4

\* The function that FlattenSeq recurses over, for a sequence that is not empty.
Flattens(f, ss) == f = [i \in 1 .. Len(ss) |-> IF i = 1 THEN ss[i] ELSE f[i - 1] \o ss[i]]

LEMMA FlattensExists ==
    ASSUME NEW S, NEW ss \in Seq(Seq(S)), Len(ss) # 0
    PROVE  \E f : Flattens(f, ss)
<1> DEFINE n == Len(ss)
           Upto(k) == \E f : f = [i \in 1 .. k |-> IF i = 1 THEN ss[i] ELSE f[i - 1] \o ss[i]]
           P == {k \in Nat : k <= n => Upto(k)}
<1> HIDE DEF Upto
<1>1. 0 \in P
  <2>1. Upto(0)
    <3> DEFINE f == [i \in 1 .. 0 |-> ss[i]]
    <3>1. f = [i \in 1 .. 0 |-> IF i = 1 THEN ss[i] ELSE f[i - 1] \o ss[i]]
        OBVIOUS
    <3>2. QED
        BY <3>1 DEF Upto
  <2>2. QED
      BY <2>1
<1>2. ASSUME NEW k \in Nat, k \in P PROVE k + 1 \in P
  <2>1. SUFFICES ASSUME k + 1 <= n PROVE Upto(k + 1)
      OBVIOUS
  <2>2. n \in Nat
      BY LenProperties
  <2>3. PICK f : f = [i \in 1 .. k |-> IF i = 1 THEN ss[i] ELSE f[i - 1] \o ss[i]]
    <3>1. Upto(k)
        BY <1>2, <2>1, <2>2
    <3>2. QED
        BY <3>1 DEF Upto
  <2> DEFINE g == [i \in 1 .. k + 1 |-> IF i <= k THEN f[i] ELSE IF i = 1 THEN ss[i] ELSE f[k] \o ss[i]]
  <2>4. \A i \in 1 .. k : f[i] = IF i = 1 THEN ss[i] ELSE f[i - 1] \o ss[i]
      BY <2>3
  <2>5. ASSUME NEW i \in 1 .. k + 1 PROVE g[i] = IF i = 1 THEN ss[i] ELSE g[i - 1] \o ss[i]
    <3>1. CASE i <= k
      <4>1. g[i] = f[i]
          BY <3>1
      <4>2. f[i] = IF i = 1 THEN ss[i] ELSE f[i - 1] \o ss[i]
          BY <2>4, <3>1
      <4>3. i # 1 => g[i - 1] = f[i - 1]
          BY <3>1
      <4>4. QED
        <5> HIDE DEF g
        <5> QED BY <4>1, <4>2, <4>3
    <3>2. CASE i = k + 1
      <4>1. g[i] = IF i = 1 THEN ss[i] ELSE f[k] \o ss[i]
          BY <3>2
      <4>2. i # 1 => g[i - 1] = f[k]
          BY <3>2
      <4>3. QED
          BY <4>1, <4>2
    <3>3. QED
        BY <3>1, <3>2
  <2>6. g = [i \in 1 .. k + 1 |-> IF i = 1 THEN ss[i] ELSE g[i - 1] \o ss[i]]
    <3>1. g = [i \in 1 .. k + 1 |-> g[i]]
        OBVIOUS
    <3> HIDE DEF g
    <3>2. QED
        BY <2>5, <3>1
  <2>7. QED
    <3> HIDE DEF g
    <3> QED BY <2>6 DEF Upto
<1>3. \A k \in Nat : k \in P
  <2> HIDE DEF P
  <2> QED BY <1>1, <1>2, Inductive
<1>4. Upto(n)
    BY <1>3, LenProperties
<1>5. QED
    BY <1>4 DEF Upto, Flattens

LEMMA FlattenIs ==
    ASSUME NEW S, NEW ss \in Seq(Seq(S)), Len(ss) # 0
    PROVE  \E f : Flattens(f, ss) /\ FlattenSeq(ss) = f[Len(ss)]
<1> DEFINE f == CHOOSE f : f = [i \in 1 .. Len(ss) |-> IF i = 1 THEN ss[i] ELSE f[i - 1] \o ss[i]]
<1>1. FlattenSeq(ss) = f[Len(ss)]
    BY DEF FlattenSeq
<1>2. PICK g : Flattens(g, ss)
    BY FlattensExists
<1>3. f = [i \in 1 .. Len(ss) |-> IF i = 1 THEN ss[i] ELSE f[i - 1] \o ss[i]]
    BY <1>2 DEF Flattens
<1> HIDE DEF f
<1>4. Flattens(f, ss)
    BY <1>3 DEF Flattens
<1>5. QED
    BY <1>1, <1>4

LEMMA FlattensAt ==
    ASSUME NEW ss, NEW f, Flattens(f, ss)
    PROVE  \A i \in 1 .. Len(ss) : f[i] = IF i = 1 THEN ss[i] ELSE f[i - 1] \o ss[i]
BY DEF Flattens

\* Two sequences that begin alike flatten alike as far.
LEMMA FlattensAlike ==
    ASSUME NEW S, NEW ss \in Seq(Seq(S)), NEW ts \in Seq(Seq(S)), NEW f, NEW g,
           Flattens(f, ss), Flattens(g, ts),
           Len(ss) <= Len(ts), \A i \in 1 .. Len(ss) : ss[i] = ts[i]
    PROVE  \A i \in 1 .. Len(ss) : f[i] = g[i] /\ f[i] \in Seq(S)
<1> DEFINE P == {k \in Nat : k \in 1 .. Len(ss) => f[k] = g[k] /\ f[k] \in Seq(S)}
<1>1. 0 \in P
    OBVIOUS
<1>2. ASSUME NEW k \in Nat, k \in P PROVE k + 1 \in P
  <2>1. SUFFICES ASSUME k + 1 \in 1 .. Len(ss) PROVE f[k + 1] = g[k + 1] /\ f[k + 1] \in Seq(S)
      OBVIOUS
  <2>2. Len(ss) \in Nat /\ Len(ts) \in Nat
      BY LenProperties
  <2>3. ss[k + 1] = ts[k + 1] /\ ss[k + 1] \in Seq(S)
      BY <2>1, ElementOfSeq
  <2>4. /\ k + 1 = 1 => f[k + 1] = ss[k + 1] /\ g[k + 1] = ts[k + 1]
        /\ k + 1 # 1 => f[k + 1] = f[k] \o ss[k + 1] /\ g[k + 1] = g[k] \o ts[k + 1]
    <3>1. k + 1 \in 1 .. Len(ss) /\ k + 1 \in 1 .. Len(ts) /\ k + 1 - 1 = k
        BY <2>1, <2>2
    <3>2. f[k + 1] = IF k + 1 = 1 THEN ss[k + 1] ELSE f[k + 1 - 1] \o ss[k + 1]
        BY <3>1, FlattensAt
    <3>3. g[k + 1] = IF k + 1 = 1 THEN ts[k + 1] ELSE g[k + 1 - 1] \o ts[k + 1]
        BY <3>1, FlattensAt
    <3>4. QED
        BY <3>1, <3>2, <3>3
  <2>5. CASE k = 0
      BY <2>3, <2>4, <2>5
  <2>6. CASE k # 0
    <3>1. f[k] = g[k] /\ f[k] \in Seq(S)
        BY <1>2, <2>1, <2>2, <2>6
    <3>2. f[k + 1] = f[k] \o ss[k + 1] /\ g[k + 1] = g[k] \o ts[k + 1]
      <4>1. k + 1 # 1
          BY <2>6
      <4>2. QED
          BY <2>4, <4>1
    <3>3. f[k] \o ss[k + 1] \in Seq(S)
        BY <2>3, <3>1, ConcatProperties
    <3>4. QED
        BY <2>3, <3>1, <3>2, <3>3
  <2>7. QED
      BY <2>5, <2>6
<1>3. \A k \in Nat : k \in P
  <2> HIDE DEF P
  <2> QED BY <1>1, <1>2, Inductive
<1>4. QED
    BY <1>3, LenProperties

LEMMA FlattenEmpty == FlattenSeq(<<>>) = <<>>
BY DEF FlattenSeq

LEMMA FlattenType ==
    ASSUME NEW S, NEW ss \in Seq(Seq(S))
    PROVE  FlattenSeq(ss) \in Seq(S)
<1>1. CASE Len(ss) = 0
  <2>1. ss = <<>>
      BY <1>1, EmptySeq
  <2>2. QED
      BY <2>1, FlattenEmpty, EmptySeq
<1>2. CASE Len(ss) # 0
  <2>1. PICK f : Flattens(f, ss) /\ FlattenSeq(ss) = f[Len(ss)]
      BY <1>2, FlattenIs
  <2>2. Len(ss) \in Nat
      BY LenProperties
  <2>3. \A i \in 1 .. Len(ss) : f[i] = f[i] /\ f[i] \in Seq(S)
    <3>1. Len(ss) <= Len(ss) /\ \A i \in 1 .. Len(ss) : ss[i] = ss[i]
        BY <2>2
    <3>2. QED
        BY <2>1, <3>1, FlattensAlike
  <2>4. QED
      BY <1>2, <2>1, <2>2, <2>3
<1>3. QED
    BY <1>1, <1>2

\* FlattenSeq, one sequence more.
LEMMA FlattenStep ==
    ASSUME NEW S, NEW ss \in Seq(Seq(S)), NEW s \in Seq(S)
    PROVE  FlattenSeq(Append(ss, s)) = FlattenSeq(ss) \o s
<1> DEFINE ts == Append(ss, s)
           n == Len(ss)
<1>1. /\ ts \in Seq(Seq(S)) /\ Len(ts) = n + 1 /\ n \in Nat
      /\ \A i \in 1 .. n : ts[i] = ss[i]
      /\ ts[n + 1] = s
    BY AppendProperties, LenProperties
<1> HIDE DEF ts
<1>2. PICK g : Flattens(g, ts) /\ FlattenSeq(ts) = g[Len(ts)]
  <2>1. Len(ts) # 0
      BY <1>1
  <2>2. QED
      BY <1>1, <2>1, FlattenIs
<1>3. g[n + 1] = IF n + 1 = 1 THEN s ELSE g[n + 1 - 1] \o s
  <2>1. n + 1 \in 1 .. Len(ts)
      BY <1>1
  <2>2. g[n + 1] = IF n + 1 = 1 THEN ts[n + 1] ELSE g[n + 1 - 1] \o ts[n + 1]
      BY <1>2, <2>1, FlattensAt
  <2>3. QED
      BY <1>1, <2>2
<1>4. FlattenSeq(ts) = FlattenSeq(ss) \o s
  <2>1. CASE n = 0
    <3>1. ss = <<>>
        BY <2>1, EmptySeq
    <3>2. FlattenSeq(ts) = s
        BY <1>1, <1>2, <1>3, <2>1
    <3>3. <<>> \o s = s
        BY ConcatEmptySeq
    <3>4. QED
        BY <3>1, <3>2, <3>3, FlattenEmpty
  <2>2. CASE n # 0
    <3>1. PICK f : Flattens(f, ss) /\ FlattenSeq(ss) = f[Len(ss)]
        BY <2>2, FlattenIs
    <3>2. \A i \in 1 .. n : f[i] = g[i] /\ f[i] \in Seq(S)
      <4>1. n <= Len(ts) /\ \A i \in 1 .. n : ss[i] = ts[i]
          BY <1>1
      <4>2. QED
          BY <1>1, <1>2, <3>1, <4>1, FlattensAlike
    <3>3. f[n] = g[n]
        BY <1>1, <2>2, <3>2
    <3>4. g[n + 1] = g[n] \o s
        BY <1>1, <1>3, <2>2
    <3>5. QED
        BY <1>1, <1>2, <3>1, <3>3, <3>4
  <2>3. QED
      BY <2>1, <2>2
<1>5. QED
    BY <1>4 DEF ts

-----------------------------------------------------------------------------
(* What the transformers make of a product *)

\* The fields that extractSharedFields gives to every component.
Base == {"sku", "type", "price", "stock_status"}

\* Component c is made of product p, which has a price, and the rules find in it what they read.
Made(c, p, type) ==
    /\ c.sku = p.sku /\ c.type = type /\ c.price = p.price /\ p.price # 0
    /\ Judgeable(c)

LEMMA JoinedIsMade ==
    ASSUME NEW f, NEW p, NEW type \in TypeNames, p.price # 0,
           RulesRead[type] \subseteq DOMAIN f, Base \cap DOMAIN f = {}, SizesAreKnown(f, type)
    PROVE  Made(Joined(f, extractSharedFields(p, type)), p, type)
<1> DEFINE shared == extractSharedFields(p, type)
           c == Joined(f, shared)
<1>1. /\ DOMAIN shared = Base
      /\ shared.sku = p.sku /\ shared.type = type /\ shared.price = p.price
    BY DEF extractSharedFields, Shared, Base
<1>0. \A key \in DOMAIN f : c[key] = f[key]
    BY JoinedDomain
<1> HIDE DEF shared
<1>2. /\ DOMAIN c = DOMAIN f \cup Base
      /\ \A key \in Base : c[key] = shared[key]
  <2>1. Base \subseteq DOMAIN shared \ DOMAIN f
      BY <1>1
  <2>2. \A key \in DOMAIN shared \ DOMAIN f : c[key] = shared[key]
      BY JoinedDomain
  <2>3. DOMAIN c = DOMAIN f \cup DOMAIN shared
      BY JoinedDomain
  <2>4. QED
      BY <1>1, <2>1, <2>2, <2>3
<1>3. c.sku = shared.sku /\ c.type = shared.type /\ c.price = shared.price
    BY <1>2 DEF Base
<1>4. RulesRead[c.type] \subseteq DOMAIN c
    BY <1>1, <1>2, <1>3
<1>5. SizesAreKnown(c, type)
  <2> HIDE DEF c
  <2>1. CASE type = "mainboard"
    <3>1. "form_factor" \in DOMAIN f
        BY <2>1 DEF RulesRead
    <3>2. c.form_factor = f.form_factor
        BY <1>0, <3>1
    <3>3. QED
        BY <2>1, <3>2 DEF SizesAreKnown
  <2>2. CASE type = "psu"
    <3>1. "form_factor" \in DOMAIN f
        BY <2>2 DEF RulesRead
    <3>2. c.form_factor = f.form_factor
        BY <1>0, <3>1
    <3>3. QED
        BY <2>2, <3>2 DEF SizesAreKnown
  <2>3. CASE type = "case"
    <3>1. "supported_mb_form_factors" \in DOMAIN f /\ "supported_psu_form_factors" \in DOMAIN f
        BY <2>3 DEF RulesRead
    <3>2. /\ c.supported_mb_form_factors = f.supported_mb_form_factors
          /\ c.supported_psu_form_factors = f.supported_psu_form_factors
        BY <1>0, <3>1
    <3>3. QED
        BY <2>3, <3>2 DEF SizesAreKnown
  <2>4. CASE type \notin {"mainboard", "psu", "case"}
      BY <2>4 DEF SizesAreKnown
  <2>5. QED
      BY <2>1, <2>2, <2>3, <2>4
<1>6. Made(c, p, type)
    BY <1>1, <1>3, <1>4, <1>5 DEF Made, Judgeable
<1>7. QED
    BY <1>6 DEF shared

LEMMA CoolerKeys ==
    ASSUME NEW says, NEW sockets
    PROVE  "height" \in DOMAIN Cooler(says, sockets) /\ DOMAIN Cooler(says, sockets) \subseteq {"height", "socket"}
<1> DEFINE f == [height |-> Or(says, "height", IF Or(says, "liquid", FALSE) THEN 60 ELSE 158)]
           g == IF sockets = <<>> THEN <<>> ELSE [socket |-> sockets]
<1>1. DOMAIN f = {"height"}
    OBVIOUS
<1>2. DOMAIN g \subseteq {"socket"}
  <2>1. CASE sockets = <<>>
      BY <2>1
  <2>2. CASE sockets # <<>>
      BY <2>2
  <2>3. QED
      BY <2>1, <2>2
<1>3. DOMAIN Joined(f, g) = DOMAIN f \cup DOMAIN g
    BY JoinedDomain
<1>4. Cooler(says, sockets) = Joined(f, g)
    BY DEF Cooler
<1> HIDE DEF f, g
<1>5. QED
    BY <1>1, <1>2, <1>3, <1>4

CaseKeys == {"form_factor", "supported_mb_form_factors", "supported_psu_form_factors",
             "max_cooler_height", "clearance_mm"}

Small == {"ATX", "mATX", "ITX"}

LEMMA FewerSmall ==
    ASSUME NEW s \in Seq(Small) PROVE Distinct(s) \in Seq(Small)
<1> DEFINE ss == [i \in DOMAIN s |-> IF \E j \in 1 .. i - 1 : s[j] = s[i] THEN <<>> ELSE <<s[i]>>]
<1>1. DOMAIN s = 1 .. Len(s) /\ Len(s) \in Nat
    BY LenProperties
<1>2. ASSUME NEW i \in 1 .. Len(s) PROVE ss[i] \in Seq(Small)
  <2>1. PICK x \in Small : x = s[i]
      BY ElementOfSeq
  <2>2. ss[i] = <<>> \/ ss[i] = <<x>>
      BY <1>1, <2>1
  <2>3. <<x>> \in Seq(Small) /\ <<>> \in Seq(Small)
      BY <2>1
  <2> HIDE DEF ss
  <2>4. QED
      BY <2>2, <2>3
<1>3. ss = [i \in 1 .. Len(s) |-> ss[i]]
    BY <1>1
<1>4. Distinct(s) = FlattenSeq(ss)
    BY DEF Distinct
<1> HIDE DEF ss
<1>5. ss \in Seq(Seq(Small))
    BY <1>1, <1>2, <1>3
<1>6. QED
    BY <1>4, <1>5, FlattenType

LEMMA SmallAmong ==
    ASSUME NEW S, NEW s \in Seq(S) PROVE Among(s, Small) \in Seq(Small)
<1> DEFINE ss == [i \in DOMAIN s |-> IF s[i] \in Small THEN <<s[i]>> ELSE <<>>]
<1>1. DOMAIN s = 1 .. Len(s) /\ Len(s) \in Nat
    BY LenProperties
<1>2. ASSUME NEW i \in 1 .. Len(s) PROVE ss[i] \in Seq(Small)
  <2>1. PICK x : x = s[i]
      OBVIOUS
  <2>2. ss[i] = IF x \in Small THEN <<x>> ELSE <<>>
      BY <1>1, <2>1
  <2> HIDE DEF ss
  <2>3. QED
      BY <2>2, EmptySeq
<1>3. ss = [i \in 1 .. Len(s) |-> ss[i]]
    BY <1>1
<1>4. Among(s, Small) = FlattenSeq(ss)
    BY DEF Among
<1> HIDE DEF ss
<1>5. ss \in Seq(Seq(Small))
    BY <1>1, <1>2, <1>3
<1>6. QED
    BY <1>4, <1>5, FlattenType

\* A case's own size list, down from any size, is of small boards.
LEMMA SmallerThan ==
    ASSUME NEW raw
    PROVE  supportedMbFormFactors(normalizeFormFactor(raw)) \in Seq(Small) \ {<<>>}
<1>1. PICK ff : ff = normalizeFormFactor(raw)
    OBVIOUS
<1>2. ff \in {"E-ATX", "ATX", "mATX", "ITX"}
    BY <1>1 DEF normalizeFormFactor
<1>3. /\ <<"ATX", "mATX", "ITX">> \in Seq(Small) \ {<<>>}
      /\ <<"mATX", "ITX">> \in Seq(Small) \ {<<>>}
      /\ <<"ITX">> \in Seq(Small) \ {<<>>}
    BY DEF Small
<1>4. supportedMbFormFactors(ff) \in {<<"ATX", "mATX", "ITX">>, <<"mATX", "ITX">>, <<"ITX">>}
    BY <1>2 DEF supportedMbFormFactors, Smaller
<1>5. QED
    BY <1>1, <1>3, <1>4

Boards(says) == Has(says, "boards") => says.boards \in Seq(STRING)

LEMMA CaseSizes ==
    ASSUME NEW says
    PROVE  /\ Boards(says) => SizesAreKnown(DetailCase(says), "case")
           /\ SizesAreKnown(TextCase(says), "case")
<1>1. <<"ATX">> \in Seq({"ATX", "SFX"}) \ {<<>>} /\ <<"SFX", "ATX">> \in Seq({"ATX", "SFX"}) \ {<<>>}
    OBVIOUS
<1>2. ASSUME NEW ff, NEW boards \in Seq(Small) \ {<<>>}, NEW psus \in Seq({"ATX", "SFX"}) \ {<<>>}
      PROVE  SizesAreKnown(Kase(says, ff, boards, psus), "case")
  <2>1. /\ Kase(says, ff, boards, psus).supported_mb_form_factors = boards
        /\ Kase(says, ff, boards, psus).supported_psu_form_factors = psus
      BY DEF Kase
  <2>2. QED
      BY <1>2, <2>1 DEF SizesAreKnown, Small
<1>3. Boards(says) => SizesAreKnown(DetailCase(says), "case")
  <2>1. SUFFICES ASSUME Boards(says) PROVE SizesAreKnown(DetailCase(says), "case")
      OBVIOUS
  <2> DEFINE raws == Or(says, "boards", <<>>)
             sizes == EachOf(raws, normalizeFormFactor)
             boards == Distinct(Among(sizes, Small))
             listed == IF boards = <<>> THEN supportedMbFormFactors("ATX") ELSE boards
             ff == IF sizes = <<>> THEN "ATX" ELSE sizes[1]
  <2>2. raws \in Seq(STRING)
      BY <2>1, EmptySeq DEF Boards, Or
  <2>3. sizes = [i \in 1 .. Len(raws) |-> normalizeFormFactor(raws[i])] /\ Len(raws) \in Nat
    <3>1. DOMAIN raws = 1 .. Len(raws) /\ Len(raws) \in Nat
        BY <2>2, LenProperties
    <3> HIDE DEF raws
    <3>2. QED
        BY <3>1 DEF EachOf
  <2>4. DetailCase(says) = Kase(says, ff, listed, <<"ATX">>)
      BY DEF DetailCase, Small
  <2> HIDE DEF raws, ff
  <2>5. \E S : sizes \in Seq(S)
    <3> DEFINE S == {normalizeFormFactor(raws[i]) : i \in 1 .. Len(raws)}
               n == Len(raws)
    <3>1. \A i \in 1 .. n : normalizeFormFactor(raws[i]) \in S
        OBVIOUS
    <3> HIDE DEF S
    <3>2. [i \in 1 .. n |-> normalizeFormFactor(raws[i])] \in Seq(S)
        BY <2>3, <3>1
    <3>3. QED
        BY <2>3, <3>2
  <2> HIDE DEF sizes
  <2>6. boards \in Seq(Small)
      BY <2>5, SmallAmong, FewerSmall
  <2>7. supportedMbFormFactors("ATX") \in Seq(Small) \ {<<>>}
    <3>1. normalizeFormFactor("ATX") = "ATX"
        BY DEF normalizeFormFactor
    <3>2. supportedMbFormFactors(normalizeFormFactor("ATX")) \in Seq(Small) \ {<<>>}
        BY SmallerThan
    <3>3. QED
        BY <3>1, <3>2
  <2> HIDE DEF boards
  <2>8. listed \in Seq(Small) \ {<<>>}
      BY <2>6, <2>7
  <2> HIDE DEF listed
  <2>9. QED
      BY <1>1, <1>2, <2>4, <2>8
<1>4. SizesAreKnown(TextCase(says), "case")
  <2>1. PICK ff, boards, psus :
           /\ TextCase(says) = Kase(says, ff, boards, psus)
           /\ boards \in Seq(Small) \ {<<>>} /\ psus \in Seq({"ATX", "SFX"}) \ {<<>>}
    <3>1. PICK raw : raw = Or(says, "ff", "ATX")
        OBVIOUS
    <3>2. PICK psus : /\ psus = IF Or(says, "sfx", FALSE) THEN <<"SFX", "ATX">> ELSE <<"ATX">>
                      /\ psus \in Seq({"ATX", "SFX"}) \ {<<>>}
        BY <1>1
    <3>3. TextCase(says) = Kase(says, normalizeFormFactor(raw),
                                supportedMbFormFactors(normalizeFormFactor(raw)), psus)
        BY <3>1, <3>2 DEF TextCase
    <3>4. QED
        BY <3>2, <3>3, SmallerThan
  <2>2. QED
      BY <1>2, <2>1
<1>5. QED
    BY <1>3, <1>4

LEMMA KaseKeys ==
    ASSUME NEW says
    PROVE  DOMAIN DetailCase(says) = CaseKeys /\ DOMAIN TextCase(says) = CaseKeys
<1>1. \A ff, boards, psus : DOMAIN Kase(says, ff, boards, psus) = CaseKeys
    BY DEF Kase, CaseKeys
<1>2. \E ff, boards, psus : DetailCase(says) = Kase(says, ff, boards, psus)
    BY DEF DetailCase
<1>3. \E ff, boards, psus : TextCase(says) = Kase(says, ff, boards, psus)
    BY DEF TextCase
<1>4. QED
    BY <1>1, <1>2, <1>3

\* The attributes read of the details, and below of the text, hold what the rules read of the type.
LEMMA DetailKeys ==
    ASSUME NEW says, NEW type \in TypeNames
    PROVE  /\ RulesRead[type] \subseteq DOMAIN DetailAttributes(says, type)
           /\ Base \cap DOMAIN DetailAttributes(says, type) = {}
<1>1. CASE type = "cpu"
    BY <1>1 DEF RulesRead, DetailAttributes, Cpu, Base
<1>2. CASE type = "mainboard"
    BY <1>2 DEF RulesRead, DetailAttributes, Mainboard, Base
<1>3. CASE type = "ram"
    BY <1>3 DEF RulesRead, DetailAttributes, Ram, Base
<1>4. CASE type = "psu"
    BY <1>4 DEF RulesRead, DetailAttributes, Psu, Base
<1>5. CASE type = "cooler"
  <2>1. \E sockets : DetailAttributes(says, type) = Cooler(says, sockets)
      BY <1>5 DEF DetailAttributes
  <2>2. QED
      BY <1>5, <2>1, CoolerKeys DEF RulesRead, Base
<1>6. CASE type = "case"
  <2>1. DetailAttributes(says, type) = DetailCase(says)
      BY <1>6 DEF DetailAttributes
  <2>2. QED
      BY <1>6, <2>1, KaseKeys DEF RulesRead, Base, CaseKeys
<1>7. CASE type = "storage"
    BY <1>7 DEF RulesRead, DetailAttributes, Base
<1>8. CASE type = "gpu"
    BY <1>8 DEF RulesRead, DetailAttributes, Gpu, Base
<1>9. QED
    BY <1>1, <1>2, <1>3, <1>4, <1>5, <1>6, <1>7, <1>8, TheTypes

LEMMA TextKeys ==
    ASSUME NEW says, NEW type \in TypeNames
    PROVE  /\ RulesRead[type] \subseteq DOMAIN TextAttributes(says, type)
           /\ Base \cap DOMAIN TextAttributes(says, type) = {}
<1>1. CASE type = "cpu"
    BY <1>1 DEF RulesRead, TextAttributes, Cpu, Base
<1>2. CASE type = "mainboard"
    BY <1>2 DEF RulesRead, TextAttributes, Mainboard, Base
<1>3. CASE type = "ram"
    BY <1>3 DEF RulesRead, TextAttributes, Ram, Base
<1>4. CASE type = "psu"
    BY <1>4 DEF RulesRead, TextAttributes, Psu, Base
<1>5. CASE type = "cooler"
  <2>1. \E sockets : TextAttributes(says, type) = Cooler(says, sockets)
      BY <1>5 DEF TextAttributes
  <2>2. QED
      BY <1>5, <2>1, CoolerKeys DEF RulesRead, Base
<1>6. CASE type = "case"
  <2>1. TextAttributes(says, type) = TextCase(says)
      BY <1>6 DEF TextAttributes
  <2>2. QED
      BY <1>6, <2>1, KaseKeys DEF RulesRead, Base, CaseKeys
<1>7. CASE type = "storage"
  <2>1. TextAttributes(says, type) = <<>>
      BY <1>7 DEF TextAttributes
  <2>2. DOMAIN TextAttributes(says, type) = {}
      BY <2>1
  <2>3. QED
      BY <1>7, <2>2 DEF RulesRead
<1>8. CASE type = "gpu"
    BY <1>8 DEF RulesRead, TextAttributes, Gpu, Base
<1>9. QED
    BY <1>1, <1>2, <1>3, <1>4, <1>5, <1>6, <1>7, <1>8, TheTypes

LEMMA DetailSizes ==
    ASSUME NEW says, NEW type \in TypeNames, Boards(says)
    PROVE  SizesAreKnown(DetailAttributes(says, type), type)
<1>1. CASE type = "mainboard"
  <2>1. PICK ff : ff = normalizeFormFactor(says.ff)
      OBVIOUS
  <2>2. ff \in {"ATX", "mATX", "ITX", "E-ATX"}
      BY <2>1 DEF normalizeFormFactor
  <2>3. DetailAttributes(says, type).form_factor = ff
      BY <1>1, <2>1 DEF DetailAttributes, Mainboard
  <2>4. QED
      BY <1>1, <2>2, <2>3 DEF SizesAreKnown
<1>2. CASE type = "psu"
  <2>1. DetailAttributes(says, type).form_factor \in {"ATX", "SFX"}
      BY <1>2 DEF DetailAttributes, Psu, PsuFormFactor
  <2>2. QED
      BY <1>2, <2>1 DEF SizesAreKnown
<1>3. CASE type = "case"
  <2>1. DetailAttributes(says, type) = DetailCase(says)
      BY <1>3 DEF DetailAttributes
  <2>2. QED
      BY <1>3, <2>1, CaseSizes
<1>4. CASE type \notin {"mainboard", "psu", "case"}
    BY <1>4 DEF SizesAreKnown
<1>5. QED
    BY <1>1, <1>2, <1>3, <1>4

LEMMA TextSizes ==
    ASSUME NEW says, NEW type \in TypeNames
    PROVE  SizesAreKnown(TextAttributes(says, type), type)
<1>1. CASE type = "mainboard"
  <2>1. PICK ff : ff = BoardInText(says.ff)
      OBVIOUS
  <2>2. ff \in {"ATX", "mATX", "ITX", "E-ATX"}
      BY <2>1 DEF BoardInText
  <2>3. TextAttributes(says, type).form_factor = ff
      BY <1>1, <2>1 DEF TextAttributes, Mainboard
  <2>4. QED
      BY <1>1, <2>2, <2>3 DEF SizesAreKnown
<1>2. CASE type = "psu"
  <2>1. TextAttributes(says, type).form_factor \in {"ATX", "SFX"}
      BY <1>2 DEF TextAttributes, Psu, PsuFormFactor
  <2>2. QED
      BY <1>2, <2>1 DEF SizesAreKnown
<1>3. CASE type = "case"
  <2>1. TextAttributes(says, type) = TextCase(says)
      BY <1>3 DEF TextAttributes
  <2>2. QED
      BY <1>3, <2>1, CaseSizes
<1>4. CASE type \notin {"mainboard", "psu", "case"}
    BY <1>4 DEF SizesAreKnown
<1>5. QED
    BY <1>1, <1>2, <1>3, <1>4

\* What is made of a product: nothing, or one component.
Makes(made, p, type) == made = <<>> \/ \E c : made = <<c>> /\ Made(c, p, type)

\* Whatever a product's details or its text say, and in which words, the transformers of the
\* catalog script make nothing of it, or one component of the type with the product's sku and
\* price, which is not zero, with every attribute that a rule of the compiler reads of the
\* type, and with its sizes in the words that the rules compare.
THEOREM EveryComponentIsJudgeable ==
    ASSUME NEW p \in Products, NEW type \in TypeNames
    PROVE  /\ Makes(transformPhongVuDetail(p, type), p, type)
           /\ Makes(transformPhongVuProduct(p, type), p, type)
<1>1. Makes(transformPhongVuDetail(p, type), p, type)
  <2>1. CASE p.price = 0 \/ ~(Essential[type] \subseteq DOMAIN p.detail)
      BY <2>1 DEF transformPhongVuDetail, Makes
  <2>2. CASE ~(p.price = 0 \/ ~(Essential[type] \subseteq DOMAIN p.detail))
    <3>1. Made(Joined(DetailAttributes(p.detail, type), extractSharedFields(p, type)), p, type)
        BY <2>2, DetailKeys, DetailSizes, JoinedIsMade, ProductsAssumption DEF Boards
    <3>2. transformPhongVuDetail(p, type)
             = <<Joined(DetailAttributes(p.detail, type), extractSharedFields(p, type))>>
        BY <2>2 DEF transformPhongVuDetail
    <3>3. QED
        BY <3>1, <3>2 DEF Makes
  <2>3. QED
      BY <2>1, <2>2
<1>2. Makes(transformPhongVuProduct(p, type), p, type)
  <2>1. CASE p.price = 0 \/ ~(Essential[type] \subseteq DOMAIN p.text)
      BY <2>1 DEF transformPhongVuProduct, Makes
  <2>2. CASE ~(p.price = 0 \/ ~(Essential[type] \subseteq DOMAIN p.text))
    <3>1. Made(Joined(TextAttributes(p.text, type), extractSharedFields(p, type)), p, type)
        BY <2>2, TextKeys, TextSizes, JoinedIsMade
    <3>2. transformPhongVuProduct(p, type)
             = <<Joined(TextAttributes(p.text, type), extractSharedFields(p, type))>>
        BY <2>2 DEF transformPhongVuProduct
    <3>3. QED
        BY <3>1, <3>2 DEF Makes
  <2>3. QED
      BY <2>1, <2>2
<1>3. QED
    BY <1>1, <1>2

-----------------------------------------------------------------------------
(* Leaving out, and keeping the order *)

\* The first k - 1 listings of ss in one.
Before(ss, k) == FlattenSeq(SubSeq(ss, 1, k - 1))

LEMMA BeforeSteps ==
    ASSUME NEW S, NEW ss \in Seq(Seq(S))
    PROVE  /\ Before(ss, 1) = <<>>
           /\ Before(ss, Len(ss) + 1) = FlattenSeq(ss)
           /\ \A k \in 1 .. Len(ss) : /\ Before(ss, k) \in Seq(S) /\ ss[k] \in Seq(S)
                                       /\ Before(ss, k + 1) = Before(ss, k) \o ss[k]
<1>1. Before(ss, 1) = <<>>
  <2>1. SubSeq(ss, 1, 1 - 1) = <<>>
      BY SubSeqEmpty
  <2>2. QED
      BY <2>1, FlattenEmpty DEF Before
<1>2. Before(ss, Len(ss) + 1) = FlattenSeq(ss)
  <2>1. SubSeq(ss, 1, Len(ss)) = ss
      BY SubSeqFull
  <2>2. Len(ss) + 1 - 1 = Len(ss)
      BY LenProperties
  <2>3. Before(ss, Len(ss) + 1) = FlattenSeq(SubSeq(ss, 1, Len(ss) + 1 - 1))
      BY DEF Before
  <2>4. QED
      BY <2>1, <2>2, <2>3
<1>3. ASSUME NEW k \in 1 .. Len(ss)
      PROVE  /\ Before(ss, k) \in Seq(S) /\ ss[k] \in Seq(S)
             /\ Before(ss, k + 1) = Before(ss, k) \o ss[k]
  <2> DEFINE some == SubSeq(ss, 1, k - 1)
  <2>1. Len(ss) \in Nat /\ ss[k] \in Seq(S)
      BY LenProperties, ElementOfSeq
  <2>2. some \in Seq(Seq(S))
    <3>1. \A i \in 1 .. k - 1 : ss[i] \in Seq(S)
        BY <2>1, ElementOfSeq
    <3>2. 1 \in Int /\ k - 1 \in Int
        BY <2>1
    <3>3. QED
        BY <3>1, <3>2, SubSeqProperties
  <2>3. SubSeq(ss, 1, k) = some \o <<ss[k]>>
    <3>1. 1 \in 1 .. Len(ss) /\ k \in 1 .. Len(ss)
        BY <2>1
    <3>2. QED
        BY <3>1, SubSeqRecursiveSecond
  <2> HIDE DEF some
  <2>4. SubSeq(ss, 1, k) = Append(some, ss[k])
      BY <2>1, <2>2, <2>3, AppendIsConcat
  <2>5. FlattenSeq(Append(some, ss[k])) = FlattenSeq(some) \o ss[k]
      BY <2>1, <2>2, FlattenStep
  <2>6. k + 1 - 1 = k
      BY <2>1
  <2>7. Before(ss, k + 1) = FlattenSeq(SubSeq(ss, 1, k)) /\ Before(ss, k) = FlattenSeq(some)
      BY <2>6 DEF Before, some
  <2>8. FlattenSeq(some) \in Seq(S)
      BY <2>2, FlattenType
  <2>9. QED
      BY <2>1, <2>4, <2>5, <2>7, <2>8
<1>4. QED
    BY <1>1, <1>2, <1>3

\* part is what is left of whole when some of it is left out.
Picks(from, part, whole) ==
    /\ from \in [DOMAIN part -> DOMAIN whole]
    /\ \A i \in DOMAIN part : part[i] = whole[from[i]]
    /\ \A i, j \in DOMAIN part : i < j => from[i] < from[j]
Picked(part, whole) == \E from : Picks(from, part, whole)

LEMMA NothingPicked == ASSUME NEW whole PROVE Picked(<<>>, whole)
<1> DEFINE from == [i \in DOMAIN <<>> |-> 1]
<1>1. DOMAIN <<>> = {}
    OBVIOUS
<1>2. Picks(from, <<>>, whole)
    BY <1>1 DEF Picks
<1>3. QED
    BY <1>2 DEF Picked

LEMMA AllPicked == ASSUME NEW S, NEW s \in Seq(S) PROVE Picked(s, s)
<1> DEFINE from == [i \in DOMAIN s |-> i]
<1>1. Picks(from, s, s)
    BY DEF Picks
<1>2. QED
    BY <1>1 DEF Picked

LEMMA PickedInTurn ==
    ASSUME NEW S, NEW s \in Seq(S), NEW t \in Seq(S), NEW u \in Seq(S), NEW v \in Seq(S),
           Picked(s, t), Picked(u, v)
    PROVE  Picked(s \o u, t \o v)
<1>1. PICK f : Picks(f, s, t)
    BY DEF Picked
<1>2. PICK g : Picks(g, u, v)
    BY DEF Picked
<1> DEFINE m == Len(s)
           n == Len(u)
           from == [i \in 1 .. m + n |-> IF i <= m THEN f[i] ELSE Len(t) + g[i - m]]
<1>3. /\ m \in Nat /\ DOMAIN s = 1 .. m
      /\ n \in Nat /\ DOMAIN u = 1 .. n
      /\ Len(t) \in Nat /\ DOMAIN t = 1 .. Len(t)
      /\ Len(v) \in Nat /\ DOMAIN v = 1 .. Len(v)
    BY LenProperties
<1>4. /\ s \o u \in Seq(S) /\ Len(s \o u) = m + n
      /\ \A i \in 1 .. m + n : (s \o u)[i] = IF i <= m THEN s[i] ELSE u[i - m]
    BY ConcatProperties
<1>5. /\ t \o v \in Seq(S) /\ Len(t \o v) = Len(t) + Len(v)
      /\ \A i \in 1 .. Len(t) + Len(v) : (t \o v)[i] = IF i <= Len(t) THEN t[i] ELSE v[i - Len(t)]
    BY ConcatProperties
<1>6. DOMAIN (s \o u) = 1 .. m + n /\ DOMAIN (t \o v) = 1 .. Len(t) + Len(v)
    BY <1>4, <1>5, LenProperties
<1>7. /\ \A i \in 1 .. m : f[i] \in 1 .. Len(t) /\ s[i] = t[f[i]]
      /\ \A i, j \in 1 .. m : i < j => f[i] < f[j]
    BY <1>1, <1>3 DEF Picks
<1>8. /\ \A i \in 1 .. n : g[i] \in 1 .. Len(v) /\ u[i] = v[g[i]]
      /\ \A i, j \in 1 .. n : i < j => g[i] < g[j]
    BY <1>2, <1>3 DEF Picks
<1>9. ASSUME NEW i \in 1 .. m + n
      PROVE  from[i] \in 1 .. Len(t) + Len(v) /\ (s \o u)[i] = (t \o v)[from[i]]
  <2>1. CASE i <= m
    <3>1. i \in 1 .. m /\ from[i] = f[i]
        BY <1>3, <2>1
    <3>2. f[i] \in 1 .. Len(t) /\ s[i] = t[f[i]]
        BY <1>7, <3>1
    <3>3. f[i] \in 1 .. Len(t) + Len(v) /\ f[i] <= Len(t)
        BY <1>3, <3>2
    <3>4. QED
        BY <1>4, <1>5, <2>1, <3>1, <3>2, <3>3
  <2>2. CASE ~(i <= m)
    <3>1. i - m \in 1 .. n /\ from[i] = Len(t) + g[i - m]
        BY <1>3, <2>2
    <3>2. g[i - m] \in 1 .. Len(v) /\ u[i - m] = v[g[i - m]]
        BY <1>8, <3>1
    <3>3. from[i] \in 1 .. Len(t) + Len(v) /\ ~(from[i] <= Len(t)) /\ from[i] - Len(t) = g[i - m]
        BY <1>3, <3>1, <3>2
    <3> HIDE DEF from
    <3>4. QED
        BY <1>4, <1>5, <2>2, <3>2, <3>3
  <2>3. QED
      BY <2>1, <2>2
<1>10. ASSUME NEW i \in 1 .. m + n, NEW j \in 1 .. m + n, i < j PROVE from[i] < from[j]
  <2>1. CASE j <= m
    <3>1. i \in 1 .. m /\ j \in 1 .. m /\ from[i] = f[i] /\ from[j] = f[j]
        BY <1>3, <1>10, <2>1
    <3>2. QED
        BY <1>7, <1>10, <3>1
  <2>2. CASE i <= m /\ ~(j <= m)
    <3>1. i \in 1 .. m /\ j - m \in 1 .. n /\ from[i] = f[i] /\ from[j] = Len(t) + g[j - m]
        BY <1>3, <2>2
    <3>2. f[i] \in 1 .. Len(t) /\ g[j - m] \in 1 .. Len(v)
        BY <1>7, <1>8, <3>1
    <3> HIDE DEF from
    <3>3. QED
        BY <1>3, <3>1, <3>2
  <2>3. CASE ~(i <= m)
    <3>1. /\ i - m \in 1 .. n /\ j - m \in 1 .. n /\ i - m < j - m
          /\ from[i] = Len(t) + g[i - m] /\ from[j] = Len(t) + g[j - m]
        BY <1>3, <1>10, <2>3
    <3>2. g[i - m] \in 1 .. Len(v) /\ g[j - m] \in 1 .. Len(v) /\ g[i - m] < g[j - m]
        BY <1>8, <3>1
    <3> HIDE DEF from
    <3>3. QED
        BY <1>3, <3>1, <3>2
  <2>4. QED
      BY <1>3, <2>1, <2>2, <2>3
<1>11. DOMAIN from = 1 .. m + n
    OBVIOUS
<1>12. Picks(from, s \o u, t \o v)
  <2>1. from \in [1 .. m + n -> 1 .. Len(t) + Len(v)]
      BY <1>9
  <2> HIDE DEF from
  <2>2. QED
      BY <1>6, <1>9, <1>10, <2>1 DEF Picks
<1>13. QED
  <2> HIDE DEF from
  <2> QED BY <1>12 DEF Picked

\* The components cs are made of some of the first n products of ps, in their order.
Stem(from, cs, ps, n, type) ==
    /\ from \in [DOMAIN cs -> 1 .. n]
    /\ \A i \in DOMAIN cs : Made(cs[i], ps[from[i]], type)
    /\ \A i, j \in DOMAIN cs : i < j => from[i] < from[j]

\* What is left when what was made of each product is put together and what is nothing is left out.
LEMMA MadeInTurn ==
    ASSUME NEW n \in Nat, NEW rs, rs = [i \in 1 .. n |-> rs[i]], NEW ps, NEW type,
           \A i \in 1 .. n : Makes(rs[i], ps[i], type)
    PROVE  \E from, S : FlattenSeq(rs) \in Seq(S) /\ Stem(from, FlattenSeq(rs), ps, n, type)
<1> DEFINE S == UNION {{rs[i][j] : j \in DOMAIN rs[i]} : i \in 1 .. n}
           cs(k) == FlattenSeq(SubSeq(rs, 1, k))
           P == {k \in Nat : k <= n => \E from : Stem(from, cs(k), ps, k, type)}
<1>1. ASSUME NEW i \in 1 .. n PROVE rs[i] \in Seq(S)
  <2>1. CASE rs[i] = <<>>
      BY <2>1, EmptySeq
  <2>2. CASE rs[i] # <<>>
    <3>1. PICK c : rs[i] = <<c>>
        BY <2>2 DEF Makes
    <3>2. DOMAIN rs[i] = {1} /\ rs[i][1] = c
        BY <3>1
    <3>3. c \in S
        BY <3>2
    <3> HIDE DEF S
    <3>4. <<c>> \in Seq(S)
        BY <3>3
    <3>5. QED
        BY <3>1, <3>4
  <2>3. QED
      BY <2>1, <2>2
<1> HIDE DEF S
<1>2. rs \in Seq(Seq(S)) /\ Len(rs) = n
    BY <1>1
<1>3. /\ cs(0) = <<>> /\ cs(n) = FlattenSeq(rs)
      /\ \A k \in Nat : k < n => /\ cs(k) \in Seq(S) /\ rs[k + 1] \in Seq(S)
                                /\ cs(k + 1) = cs(k) \o rs[k + 1]
  <2>1. /\ Before(rs, 1) = <<>> /\ Before(rs, n + 1) = FlattenSeq(rs)
        /\ \A k \in 1 .. n : /\ Before(rs, k) \in Seq(S) /\ rs[k] \in Seq(S)
                             /\ Before(rs, k + 1) = Before(rs, k) \o rs[k]
      BY <1>2, BeforeSteps
  <2>2. \A k \in Nat : Before(rs, k + 1) = cs(k)
    <3>1. TAKE k \in Nat
    <3>2. k + 1 - 1 = k
        OBVIOUS
    <3>3. QED
        BY <3>2 DEF Before
  <2> HIDE DEF cs
  <2>3. cs(0) = <<>> /\ cs(n) = FlattenSeq(rs)
    <3>1. Before(rs, 0 + 1) = cs(0) /\ Before(rs, n + 1) = cs(n)
        BY <2>2
    <3>2. QED
        BY <2>1, <3>1
  <2>4. ASSUME NEW k \in Nat, k < n
        PROVE  cs(k) \in Seq(S) /\ rs[k + 1] \in Seq(S) /\ cs(k + 1) = cs(k) \o rs[k + 1]
    <3>1. k + 1 \in 1 .. n
        BY <2>4
    <3>2. /\ Before(rs, k + 1) \in Seq(S) /\ rs[k + 1] \in Seq(S)
          /\ Before(rs, k + 1 + 1) = Before(rs, k + 1) \o rs[k + 1]
        BY <2>1, <3>1
    <3>3. Before(rs, k + 1) = cs(k) /\ Before(rs, k + 1 + 1) = cs(k + 1)
        BY <2>2
    <3>4. QED
        BY <3>2, <3>3
  <2>5. QED
      BY <2>3, <2>4
<1> HIDE DEF cs
<1>4. 0 \in P
  <2> DEFINE from == [i \in DOMAIN <<>> |-> 1]
  <2>1. DOMAIN <<>> = {}
      OBVIOUS
  <2>2. Stem(from, <<>>, ps, 0, type)
      BY <2>1 DEF Stem
  <2>3. \E f : Stem(f, cs(0), ps, 0, type)
      BY <1>3, <2>2
  <2>4. QED
      BY <2>3
<1>5. ASSUME NEW k \in Nat, k \in P PROVE k + 1 \in P
  <2>1. SUFFICES ASSUME k + 1 <= n PROVE \E from : Stem(from, cs(k + 1), ps, k + 1, type)
      OBVIOUS
  <2>2. PICK from : Stem(from, cs(k), ps, k, type)
      BY <1>5, <2>1
  <2>3. /\ cs(k) \in Seq(S) /\ rs[k + 1] \in Seq(S)
        /\ cs(k + 1) = cs(k) \o rs[k + 1]
    <3>1. k < n
        BY <2>1
    <3>2. QED
        BY <1>3, <3>1
  <2>4. CASE rs[k + 1] = <<>>
    <3>1. cs(k + 1) = cs(k)
        BY <2>3, <2>4, ConcatEmptySeq
    <3>2. Stem(from, cs(k), ps, k + 1, type)
        BY <2>2 DEF Stem
    <3>3. QED
        BY <3>1, <3>2
  <2>5. CASE rs[k + 1] # <<>>
    <3>1. PICK c : rs[k + 1] = <<c>> /\ Made(c, ps[k + 1], type)
        BY <2>1, <2>5 DEF Makes
    <3> DEFINE m == Len(cs(k))
               g == [i \in 1 .. m + 1 |-> IF i <= m THEN from[i] ELSE k + 1]
    <3>2. m \in Nat /\ DOMAIN cs(k) = 1 .. m
        BY <2>3, LenProperties
    <3>3. /\ \A i \in 1 .. m : from[i] \in 1 .. k /\ Made(cs(k)[i], ps[from[i]], type)
          /\ \A i, j \in 1 .. m : i < j => from[i] < from[j]
        BY <2>2, <3>2 DEF Stem
    <3>4. /\ Len(cs(k + 1)) = m + 1 /\ DOMAIN cs(k + 1) = 1 .. m + 1
          /\ \A i \in 1 .. m : cs(k + 1)[i] = cs(k)[i]
          /\ cs(k + 1)[m + 1] = c
      <4>1. Len(<<c>>) = 1 /\ <<c>>[1] = c /\ <<c>> \in Seq(S)
          BY <2>3, <3>1
      <4>2. cs(k + 1) = cs(k) \o <<c>>
          BY <2>3, <3>1
      <4>3. /\ cs(k + 1) \in Seq(S) /\ Len(cs(k + 1)) = m + 1
            /\ \A i \in 1 .. m + 1 : cs(k + 1)[i] = IF i <= m THEN cs(k)[i] ELSE <<c>>[i - m]
        <5>1. /\ cs(k) \o <<c>> \in Seq(S) /\ Len(cs(k) \o <<c>>) = m + Len(<<c>>)
              /\ \A i \in 1 .. m + Len(<<c>>) :
                    (cs(k) \o <<c>>)[i] = IF i <= m THEN cs(k)[i] ELSE <<c>>[i - m]
            BY <2>3, <4>1, ConcatProperties
        <5>2. QED
            BY <4>1, <4>2, <5>1
      <4>4. DOMAIN cs(k + 1) = 1 .. m + 1
          BY <4>3, LenProperties
      <4>5. m + 1 \in 1 .. m + 1 /\ ~(m + 1 <= m) /\ m + 1 - m = 1
          BY <3>2
      <4>6. \A i \in 1 .. m : i \in 1 .. m + 1 /\ i <= m
          BY <3>2
      <4>7. QED
          BY <4>1, <4>3, <4>4, <4>5, <4>6
    <3>5. ASSUME NEW i \in 1 .. m + 1
          PROVE  g[i] \in 1 .. k + 1 /\ Made(cs(k + 1)[i], ps[g[i]], type)
      <4>1. CASE i <= m
        <5>1. i \in 1 .. m /\ g[i] = from[i]
            BY <3>2, <4>1
        <5>2. QED
            BY <3>3, <3>4, <5>1
      <4>2. CASE ~(i <= m)
        <5>1. i = m + 1 /\ g[i] = k + 1
            BY <3>2, <4>2
        <5>2. QED
            BY <3>1, <3>2, <3>4, <5>1
      <4>3. QED
          BY <4>1, <4>2
    <3>6. ASSUME NEW i \in 1 .. m + 1, NEW j \in 1 .. m + 1, i < j
          PROVE  g[i] < g[j]
      <4>1. i \in 1 .. m /\ g[i] = from[i] /\ from[i] \in 1 .. k
          BY <3>2, <3>3, <3>6
      <4>2. CASE j <= m
        <5>1. j \in 1 .. m /\ g[j] = from[j]
            BY <3>2, <4>2
        <5>2. QED
            BY <3>3, <3>6, <4>1, <5>1
      <4>3. CASE ~(j <= m)
        <5>1. g[j] = k + 1
            BY <4>3
        <5>2. QED
            BY <4>1, <5>1
      <4>4. QED
          BY <4>2, <4>3
    <3>7. g = [i \in 1 .. m + 1 |-> g[i]]
        OBVIOUS
    <3> HIDE DEF g
    <3>8. DOMAIN cs(k + 1) = 1 .. m + 1
        BY <3>4
    <3>9. g \in [1 .. m + 1 -> 1 .. k + 1]
      <4>1. \A i \in 1 .. m + 1 : g[i] \in 1 .. k + 1
          BY <3>5
      <4>2. QED
          BY <3>7, <4>1
    <3>10. \A i \in 1 .. m + 1 : Made(cs(k + 1)[i], ps[g[i]], type)
        BY <3>5
    <3>11. Stem(g, cs(k + 1), ps, k + 1, type)
        BY <3>6, <3>8, <3>9, <3>10 DEF Stem
    <3>12. QED
        BY <3>11
  <2>6. QED
      BY <2>4, <2>5
<1>6. \A k \in Nat : k \in P
  <2> HIDE DEF P
  <2> QED BY <1>4, <1>5, Inductive
<1>7. \E from : Stem(from, cs(n), ps, n, type)
    BY <1>6
<1>8. FlattenSeq(rs) \in Seq(S)
    BY <1>2, FlattenType
<1>9. QED
    BY <1>3, <1>7, <1>8

-----------------------------------------------------------------------------
(* The script: where it stands, and what it has in hand *)

Fields == {"phase", "type", "slug", "page", "got", "next", "running", "results"}
KindOf(j) == ALL_TYPES[j.type]

\* A worker has one request open, and none has stopped while products are left.
Workers(j) ==
    /\ j.running \subseteq 1 .. j.next - 1 /\ j.next \in 1 .. Len(j.got) + 1
    /\ j.phase = "mapping" => \/ Cardinality(j.running) = Concurrency
                              \/ j.running # {} /\ j.next = Len(j.got) + 1

\* The type is one of the shop's.
OnType(j, s) == j.type \in 1 .. Len(ALL_TYPES) /\ KindOf(j) \in DOMAIN s

\* While it pages: what it has got is picked from the listings before and the pages before.
Pages(j, s) ==
    /\ j.slug \in 1 .. Len(s[KindOf(j)]) /\ j.page \in Nat \ {0} /\ j.next = 1 /\ j.running = {}
    /\ (j.page - 1) * PageSize <= Len(s[KindOf(j)][j.slug])
    /\ Picked(j.got, Before(s[KindOf(j)], j.slug) \o SubSeq(s[KindOf(j)][j.slug], 1, (j.page - 1) * PageSize))

\* After that: it has products of all listings, and of each nothing or its component.
Collected(j, s) ==
    /\ Picked(j.got, FlattenSeq(s[KindOf(j)]))
    /\ j.results = [i \in 1 .. Len(j.got) |-> j.results[i]]
    /\ \A i \in 1 .. Len(j.got) : Makes(j.results[i], j.got[i], KindOf(j))

JobOK(j, s) ==
    /\ j = [f \in Fields |-> j[f]] /\ j.got \in Seq(Products)
    /\ j.phase \in {"stopped", "paging", "mapping", "saving", "writing"}
    /\ Workers(j)
    /\ j.phase # "stopped" => OnType(j, s)
    /\ j.phase = "paging" => Pages(j, s)
    /\ j.phase \in {"mapping", "saving", "writing"} => Collected(j, s)

\* What a file holds is made of products of its type, in the order of the listings.
FileOK(file, s, t) ==
    /\ file.state \in {"missing", "torn", "whole"}
    /\ \E from, S : /\ file.components \in Seq(S)
                    /\ Stem(from, file.components, FlattenSeq(s[t]), Len(FlattenSeq(s[t])), t)

\* Inductive: what the script has in hand and what it has saved come of the listings, in their order.
ScriptInv ==
    /\ shop \in Shops /\ JobOK(job, shop)
    /\ files = [t \in Kinds |-> files[t]]
    /\ \A t \in Kinds : FileOK(files[t], shop, t)

LEMMA ShopsSell ==
    ASSUME NEW s \in Shops
    PROVE  /\ DOMAIN s # {} /\ DOMAIN s \subseteq TypeNames
           /\ \A t \in DOMAIN s : /\ s[t] # <<>> /\ s[t] \in Seq(Seq(Products))
                                  /\ Len(s[t]) \in Nat \ {0}
                                  /\ FlattenSeq(s[t]) \in Seq(Products)
<1>1. /\ DOMAIN s # {} /\ DOMAIN s \subseteq TypeNames
      /\ \A t \in DOMAIN s : s[t] # <<>> /\ s[t] \in Seq(Seq(Products))
    BY ShopsAssumption DEF TypeNames
<1>2. ASSUME NEW t \in DOMAIN s PROVE Len(s[t]) \in Nat \ {0} /\ FlattenSeq(s[t]) \in Seq(Products)
    BY <1>1, EmptySeq, FlattenType
<1>3. QED
    BY <1>1, <1>2

LEMMA AllTypes == Len(ALL_TYPES) \in Nat /\ DOMAIN ALL_TYPES = 1 .. Len(ALL_TYPES)
BY DEF ALL_TYPES

LEMMA NoWorkers ==
    ASSUME NEW j, j.phase # "mapping", j.next = 1, j.running = {}, j.got \in Seq(Products)
    PROVE  Workers(j)
<1>1. j.running \subseteq 1 .. j.next - 1
    OBVIOUS
<1>2. Len(j.got) \in Nat
    BY LenProperties
<1>3. j.next \in 1 .. Len(j.got) + 1
    BY <1>2
<1>4. QED
    BY <1>1, <1>3 DEF Workers

\* A fresh start with the next type.
LEMMA FreshIsOK ==
    ASSUME NEW n \in Nat, TypesAfter(n) # {}, shop \in Shops
    PROVE  JobOK(Fresh(Min(TypesAfter(n))), shop)
<1> DEFINE type == Min(TypesAfter(n))
<1>1. type \in TypesAfter(n)
  <2>1. TypesAfter(n) \subseteq Nat
      BY AllTypes DEF TypesAfter
  <2>2. \E i \in TypesAfter(n) : \A k \in TypesAfter(n) : i <= k
      BY <2>1, Least
  <2>3. QED
      BY <2>2 DEF Min
<1>2. type \in 1 .. Len(ALL_TYPES) /\ ALL_TYPES[type] \in Kinds
    BY <1>1, AllTypes DEF TypesAfter
<1> HIDE DEF type
<1> DEFINE j == Fresh(type)
<1>3. /\ j = [f \in Fields |-> j[f]]
      /\ j.phase = "paging" /\ j.type = type /\ j.slug = 1 /\ j.page = 1 /\ j.got = <<>>
      /\ j.next = 1 /\ j.running = {}
    BY DEF Fresh, Paging, Fields
<1> HIDE DEF j
<1>4. j.got \in Seq(Products) /\ Len(j.got) = 0
    BY <1>3, EmptySeq
<1>5. Workers(j)
    BY <1>3, <1>4, NoWorkers
<1>6. OnType(j, shop)
    BY <1>2, <1>3 DEF OnType, KindOf, Kinds
<1>7. Pages(j, shop)
  <2>1. KindOf(j) \in DOMAIN shop
      BY <1>6 DEF OnType
  <2>2. Len(shop[KindOf(j)]) \in Nat \ {0} /\ shop[KindOf(j)] \in Seq(Seq(Products))
      BY <2>1, ShopsSell
  <2>3. 1 \in 1 .. Len(shop[KindOf(j)])
      BY <2>2
  <2>4. shop[KindOf(j)][1] \in Seq(Products)
      BY <2>2, <2>3, ElementOfSeq
  <2>5. Len(shop[KindOf(j)][1]) \in Nat
      BY <2>4, LenProperties
  <2>6. (j.page - 1) * PageSize = 0
      BY <1>3, SizesAssumption
  <2>7. Picked(j.got, Before(shop[KindOf(j)], j.slug) \o SubSeq(shop[KindOf(j)][j.slug], 1, (j.page - 1) * PageSize))
      BY <1>3, NothingPicked
  <2>8. j.slug \in 1 .. Len(shop[KindOf(j)]) /\ j.page \in Nat \ {0}
      BY <1>3, <2>3
  <2>9. (j.page - 1) * PageSize <= Len(shop[KindOf(j)][j.slug])
      BY <1>3, <2>5, <2>6
  <2>10. QED
      BY <1>3, <2>7, <2>8, <2>9 DEF Pages
<1>8. JobOK(j, shop)
    BY <1>3, <1>4, <1>5, <1>6, <1>7 DEF JobOK
<1>9. QED
    BY <1>8 DEF j, type

LEMMA StoppedIsOK == JobOK(Stopped, shop)
<1>1. /\ Stopped = [f \in Fields |-> Stopped[f]]
      /\ Stopped.phase = "stopped" /\ Stopped.got = <<>> /\ Stopped.next = 1 /\ Stopped.running = {}
    BY DEF Stopped, Fresh, Paging, Fields
<1>2. Stopped.got \in Seq(Products) /\ Len(Stopped.got) = 0
    BY <1>1, EmptySeq
<1>3. Workers(Stopped)
    BY <1>1, <1>2, NoWorkers
<1>4. QED
    BY <1>1, <1>2, <1>3 DEF JobOK

\* When the last page of a listing is there the next listing begins, or the workers start.
LEMMA AfterPagesIsOK ==
    ASSUME shop \in Shops, JobOK(job, shop), job.phase = "paging", NEW got \in Seq(Products),
           Picked(got, Before(shop[Kind], job.slug + 1))
    PROVE  JobOK(AfterPages(got), shop)
<1> DEFINE ss == shop[Kind]
           workers == IF Concurrency < Len(got) THEN Concurrency ELSE Len(got)
<1>1. /\ job = [f \in Fields |-> job[f]]
      /\ job.type \in 1 .. Len(ALL_TYPES) /\ Kind \in DOMAIN shop
      /\ job.slug \in 1 .. Len(ss)
    BY DEF JobOK, OnType, Pages, KindOf, Kind
<1>2. /\ ss \in Seq(Seq(Products)) /\ Len(ss) \in Nat \ {0} /\ FlattenSeq(ss) \in Seq(Products)
    BY <1>1, ShopsSell
<1>3. Len(got) \in Nat /\ DOMAIN got = 1 .. Len(got) /\ (got = <<>> <=> Len(got) = 0)
    BY LenProperties, EmptySeq
<1>4. CASE job.slug < Len(ss)
  <2> DEFINE j == Paging(job.type, job.slug + 1, 1, got)
  <2>1. /\ j = [f \in Fields |-> j[f]]
        /\ j.phase = "paging" /\ j.type = job.type /\ j.slug = job.slug + 1 /\ j.page = 1 /\ j.got = got
        /\ j.next = 1 /\ j.running = {}
      BY DEF Paging, Fields
  <2>2. AfterPages(got) = j
      BY <1>4 DEF AfterPages
  <2> HIDE DEF j
  <2>3. KindOf(j) = Kind
      BY <2>1 DEF KindOf, Kind
  <2>4. Workers(j)
      BY <2>1, NoWorkers
  <2>5. OnType(j, shop)
      BY <1>1, <2>1, <2>3 DEF OnType
  <2>6. Pages(j, shop)
    <3>1. j.slug \in 1 .. Len(ss) /\ j.page \in Nat \ {0}
        BY <1>1, <1>2, <1>4, <2>1
    <3>2. ss[j.slug] \in Seq(Products)
        BY <1>2, <3>1, ElementOfSeq
    <3>3. Len(ss[j.slug]) \in Nat
        BY <3>2, LenProperties
    <3>4. (j.page - 1) * PageSize = 0
        BY <2>1, SizesAssumption
    <3>5. SubSeq(ss[j.slug], 1, 0) = <<>>
        BY SubSeqEmpty
    <3>6. Before(ss, j.slug) \in Seq(Products)
        BY <1>2, <3>1, BeforeSteps
    <3>7. Before(ss, j.slug) \o <<>> = Before(ss, j.slug)
        BY <3>6, ConcatEmptySeq
    <3>8. Picked(j.got, Before(ss, j.slug) \o SubSeq(ss[j.slug], 1, (j.page - 1) * PageSize))
        BY <2>1, <3>4, <3>5, <3>7
    <3>9. (j.page - 1) * PageSize <= Len(ss[j.slug])
        BY <3>3, <3>4
    <3> HIDE DEF ss
    <3>10. QED
        BY <2>1, <2>3, <3>1, <3>8, <3>9 DEF Pages, ss
  <2>7. JobOK(j, shop)
      BY <2>1, <2>4, <2>5, <2>6 DEF JobOK
  <2>8. QED
      BY <2>2, <2>7
<1>5. CASE ~(job.slug < Len(ss))
  <2> DEFINE j == [job EXCEPT !.phase = IF got = <<>> THEN "saving" ELSE "mapping", !.got = got,
                              !.running = 1 .. workers, !.next = workers + 1,
                              !.results = [i \in DOMAIN got |-> <<>>]]
  <2>1. AfterPages(got) = j
      BY <1>5 DEF AfterPages
  <2>2. /\ j = [f \in Fields |-> j[f]]
        /\ j.phase = (IF got = <<>> THEN "saving" ELSE "mapping") /\ j.type = job.type /\ j.got = got
        /\ j.running = 1 .. workers /\ j.next = workers + 1 /\ j.results = [i \in DOMAIN got |-> <<>>]
      BY <1>1 DEF Fields
  <2> HIDE DEF j
  <2>3. KindOf(j) = Kind
      BY <2>2 DEF KindOf, Kind
  <2>4. workers \in Nat /\ workers <= Len(got) /\ (workers = Concurrency \/ workers = Len(got))
        /\ (Len(got) # 0 => workers # 0)
      BY <1>3, SizesAssumption
  <2> HIDE DEF workers
  <2>5. Workers(j)
    <3>1. j.running \subseteq 1 .. j.next - 1 /\ j.next \in 1 .. Len(j.got) + 1
        BY <1>3, <2>2, <2>4
    <3>2. ASSUME j.phase = "mapping"
          PROVE  Cardinality(j.running) = Concurrency \/ (j.running # {} /\ j.next = Len(j.got) + 1)
      <4>1. Len(got) # 0
          BY <1>3, <2>2, <3>2
      <4>2. CASE workers = Concurrency
        <5>1. Cardinality(1 .. workers) = workers
            BY <2>4, FS_Interval
        <5>2. QED
            BY <2>2, <4>2, <5>1
      <4>3. CASE workers = Len(got)
        <5>1. 1 \in 1 .. workers
            BY <2>4, <4>1
        <5>2. QED
            BY <2>2, <4>3, <5>1
      <4>4. QED
          BY <2>4, <4>2, <4>3
    <3>3. QED
        BY <3>1, <3>2 DEF Workers
  <2>6. OnType(j, shop)
      BY <1>1, <2>2, <2>3 DEF OnType
  <2>7. Collected(j, shop)
    <3>1. job.slug + 1 = Len(ss) + 1
        BY <1>1, <1>2, <1>5
    <3>2. Before(ss, Len(ss) + 1) = FlattenSeq(ss)
        BY <1>2, BeforeSteps
    <3>3. Picked(got, FlattenSeq(ss))
        BY <3>1, <3>2
    <3>4. /\ j.results = [i \in 1 .. Len(j.got) |-> j.results[i]]
          /\ \A i \in 1 .. Len(j.got) : j.results[i] = <<>>
        BY <1>3, <2>2
    <3>5. \A i \in 1 .. Len(j.got) : Makes(j.results[i], j.got[i], KindOf(j))
        BY <3>4 DEF Makes
    <3>6. QED
        BY <2>2, <2>3, <3>3, <3>4, <3>5 DEF Collected
  <2>8. j.phase \in {"saving", "mapping"} /\ j.got \in Seq(Products)
      BY <2>2
  <2>9. JobOK(j, shop)
      BY <2>2, <2>5, <2>6, <2>7, <2>8 DEF JobOK
  <2>10. QED
      BY <2>1, <2>9
<1>6. QED
    BY <1>4, <1>5

LEMMA Regrouped ==
    ASSUME NEW S, NEW s \in Seq(S), NEW t \in Seq(S), NEW u \in Seq(S), NEW v, NEW w,
           v = s \o t, w = t \o u
    PROVE  v \o u = s \o w
<1>1. (s \o t) \o u = s \o (t \o u)
    BY ConcatAssociative
<1>2. QED
    BY <1>1

\* What is picked of a beginning of the listing is picked of the whole listing.
LEMMA PickedOfAll ==
    ASSUME NEW S, NEW b \in Seq(S), NEW l \in Seq(S), NEW n \in 0 .. Len(l), NEW got \in Seq(S),
           Picked(got, b \o SubSeq(l, 1, n))
    PROVE  Picked(got, b \o l)
<1>1. Len(l) \in Nat
    BY LenProperties
<1>2. \A i \in 1 .. Len(l) : l[i] \in S
    BY ElementOfSeq
<1>3. SubSeq(l, 1, n) \in Seq(S)
  <2>1. \A i \in 1 .. n : l[i] \in S
      BY <1>1, <1>2
  <2>2. QED
      BY <1>1, <2>1, SubSeqProperties
<1>4. SubSeq(l, n + 1, Len(l)) \in Seq(S)
  <2>1. \A i \in n + 1 .. Len(l) : l[i] \in S
      BY <1>1, <1>2
  <2>2. QED
      BY <1>1, <2>1, SubSeqProperties
<1>5. SubSeq(l, 1, n) \o SubSeq(l, n + 1, Len(l)) = l
  <2>1. /\ 1 \in 1 .. Len(l) + 1 /\ n \in 1 - 1 .. Len(l) /\ Len(l) \in n .. Len(l)
      BY <1>1
  <2>2. SubSeq(l, 1, n) \o SubSeq(l, n + 1, Len(l)) = SubSeq(l, 1, Len(l))
      BY <2>1, ConcatAdjacentSubSeq
  <2>3. QED
      BY <2>2, SubSeqFull
<1>6. PICK first \in Seq(S), rest \in Seq(S) : l = first \o rest /\ Picked(got, b \o first)
    BY <1>3, <1>4, <1>5
<1>7. PICK v \in Seq(S) : v = b \o first
    BY <1>6, ConcatProperties
<1>8. Picked(<<>>, rest) /\ <<>> \in Seq(S) /\ got \o <<>> = got
    BY NothingPicked, EmptySeq, ConcatEmptySeq
<1>9. Picked(got, v)
    BY <1>6, <1>7
<1>10. Picked(got \o <<>>, v \o rest)
    BY <1>6, <1>7, <1>8, <1>9, PickedInTurn
<1>11. v \o rest = b \o l
  <2>1. v = b \o first /\ l = first \o rest
      BY <1>6, <1>7
  <2>2. QED
      BY <2>1, Regrouped
<1>12. QED
    BY <1>8, <1>10, <1>11

LEMMA PageFailsIsOK ==
    ASSUME shop \in Shops, JobOK(job, shop), PageFails
    PROVE  JobOK(job', shop)
<1> DEFINE ss == shop[Kind]
<1>1. /\ job.phase = "paging" /\ job' = AfterPages(job.got)
      /\ job.got \in Seq(Products) /\ Kind \in DOMAIN shop /\ job.slug \in 1 .. Len(ss)
      /\ job.page \in Nat \ {0} /\ (job.page - 1) * PageSize <= Len(ss[job.slug])
      /\ Picked(job.got, Before(ss, job.slug) \o SubSeq(ss[job.slug], 1, (job.page - 1) * PageSize))
    BY DEF PageFails, JobOK, OnType, Pages, KindOf, Kind
<1>2. ss \in Seq(Seq(Products))
    BY <1>1, ShopsSell
<1>3. /\ Before(ss, job.slug) \in Seq(Products) /\ ss[job.slug] \in Seq(Products)
      /\ Before(ss, job.slug + 1) = Before(ss, job.slug) \o ss[job.slug]
    BY <1>1, <1>2, BeforeSteps
<1> DEFINE n == (job.page - 1) * PageSize
<1>4. n \in Nat
  <2>1. job.page - 1 \in Nat /\ PageSize \in Nat
      BY <1>1, SizesAssumption
  <2>2. QED
      BY <2>1
<1>5. n \in 0 .. Len(ss[job.slug])
    BY <1>1, <1>3, <1>4, LenProperties
<1>6. Picked(job.got, Before(ss, job.slug) \o SubSeq(ss[job.slug], 1, n))
    BY <1>1
<1> HIDE DEF ss, n
<1>7. Picked(job.got, Before(ss, job.slug + 1))
  <2>1. job.got \in Seq(Products)
      BY <1>1
  <2>2. Picked(job.got, Before(ss, job.slug) \o ss[job.slug])
      BY <1>3, <1>5, <1>6, <2>1, PickedOfAll
  <2>3. QED
      BY <1>3, <2>2
<1>8. QED
    BY <1>1, <1>7, AfterPagesIsOK DEF ss

\* A page is the part of the listing after the pages before; a full one ends a page further.
LEMMA PageIs ==
    ASSUME NEW l \in Seq(Products), NEW m \in Nat, NEW n \in m .. Len(l)
    PROVE  /\ SubSeq(l, 1, m) \in Seq(Products) /\ SubSeq(l, m + 1, n) \in Seq(Products)
           /\ Len(SubSeq(l, m + 1, n)) = n - m
           /\ SubSeq(l, 1, n) = SubSeq(l, 1, m) \o SubSeq(l, m + 1, n)
<1>1. Len(l) \in Nat /\ \A i \in 1 .. Len(l) : l[i] \in Products
    BY LenProperties, ElementOfSeq
<1>2. SubSeq(l, m + 1, n) \in Seq(Products) /\ Len(SubSeq(l, m + 1, n)) = n - m
  <2>1. \A i \in m + 1 .. n : l[i] \in Products
      BY <1>1
  <2>2. m + 1 \in Int /\ n \in Int
      BY <1>1
  <2>3. /\ SubSeq(l, m + 1, n) \in Seq(Products)
        /\ Len(SubSeq(l, m + 1, n)) = IF m + 1 <= n THEN n - (m + 1) + 1 ELSE 0
      BY <2>1, <2>2, SubSeqProperties
  <2>4. (IF m + 1 <= n THEN n - (m + 1) + 1 ELSE 0) = n - m
      BY <1>1
  <2>5. QED
      BY <2>3, <2>4
<1>3. SubSeq(l, 1, m) \in Seq(Products)
  <2>1. \A i \in 1 .. m : l[i] \in Products
      BY <1>1
  <2>2. QED
      BY <2>1, SubSeqProperties
<1>4. SubSeq(l, 1, m) \o SubSeq(l, m + 1, n) = SubSeq(l, 1, n)
  <2>1. 1 \in 1 .. Len(l) + 1 /\ m \in 1 - 1 .. Len(l) /\ n \in m .. Len(l)
      BY <1>1
  <2>2. QED
      BY <2>1, ConcatAdjacentSubSeq
<1>5. QED
    BY <1>2, <1>3, <1>4

LEMMA PageArrivesIsOK ==
    ASSUME shop \in Shops, JobOK(job, shop), PageArrives
    PROVE  JobOK(job', shop)
<1> DEFINE ss == shop[Kind]
           l == ss[job.slug]
           b == Before(ss, job.slug)
           m == (job.page - 1) * PageSize
           k == job.page * PageSize
<1>1. /\ job.phase = "paging" /\ job.got \in Seq(Products)
      /\ job.type \in 1 .. Len(ALL_TYPES) /\ Kind \in DOMAIN shop /\ job.slug \in 1 .. Len(ss)
      /\ job.page \in Nat \ {0} /\ m <= Len(l) /\ Picked(job.got, b \o SubSeq(l, 1, m))
    BY DEF PageArrives, JobOK, OnType, Pages, KindOf, Kind
<1>2. job' = IF Len(Page) = PageSize /\ job.page < PageLimit
             THEN Paging(job.type, job.slug, job.page + 1, job.got \o Page)
             ELSE AfterPages(job.got \o Page)
    BY DEF PageArrives
<1>3. ss \in Seq(Seq(Products))
    BY <1>1, ShopsSell
<1>4. b \in Seq(Products) /\ l \in Seq(Products) /\ Before(ss, job.slug + 1) = b \o l
    BY <1>1, <1>3, BeforeSteps
<1>5. m \in Nat /\ k = m + PageSize /\ PageSize \in Nat \ {0} /\ Len(l) \in Nat
  <2>1. PageSize \in Nat \ {0} /\ job.page \in Nat /\ job.page - 1 \in Nat
      BY <1>1, SizesAssumption
  <2>2. Len(l) \in Nat
      BY <1>4, LenProperties
  <2>3. QED
      BY <2>1, <2>2
<1>6. PICK n \in m .. Len(l) : /\ Page = SubSeq(l, m + 1, n)
                               /\ n = k \/ (n = Len(l) /\ n < m + PageSize)
  <2>1. Page = SubSeq(l, m + 1, IF k < Len(l) THEN k ELSE Len(l))
      BY DEF Page, Listing
  <2>2. m <= Len(l)
      BY <1>1
  <2> HIDE DEF ss, l, m, k
  <2>3. CASE k < Len(l)
    <3>1. k \in m .. Len(l) /\ Page = SubSeq(l, m + 1, k)
        BY <1>5, <2>1, <2>3
    <3>2. QED
        BY <3>1
  <2>4. CASE ~(k < Len(l))
    <3>1. Len(l) \in m .. Len(l) /\ (Len(l) = k \/ Len(l) < m + PageSize) /\ Page = SubSeq(l, m + 1, Len(l))
        BY <1>5, <2>1, <2>2, <2>4
    <3>2. QED
        BY <3>1
  <2>5. QED
      BY <2>3, <2>4
<1>7. /\ Page \in Seq(Products) /\ SubSeq(l, 1, m) \in Seq(Products)
      /\ SubSeq(l, 1, n) = SubSeq(l, 1, m) \o Page
      /\ n \in 0 .. Len(l) /\ (Len(Page) = PageSize => n = k)
  <2> HIDE DEF ss, l, m, k
  <2>1. /\ SubSeq(l, 1, m) \in Seq(Products) /\ SubSeq(l, m + 1, n) \in Seq(Products)
        /\ Len(SubSeq(l, m + 1, n)) = n - m
        /\ SubSeq(l, 1, n) = SubSeq(l, 1, m) \o SubSeq(l, m + 1, n)
      BY <1>4, <1>5, PageIs
  <2>2. n \in 0 .. Len(l) /\ (n - m = PageSize => n = k)
      BY <1>5, <1>6
  <2>3. QED
      BY <1>6, <2>1, <2>2
<1>8. PICK got \in Seq(Products) : got = job.got \o Page
    BY <1>1, <1>7, ConcatProperties
<1>9. Picked(got, b \o SubSeq(l, 1, n))
  <2> DEFINE first == SubSeq(l, 1, m)
  <2>1. first \in Seq(Products) /\ Picked(job.got, b \o first) /\ SubSeq(l, 1, n) = first \o Page
      BY <1>1, <1>7
  <2> HIDE DEF first, b, l
  <2>2. PICK v \in Seq(Products) : v = b \o first
      BY <1>4, <2>1, ConcatProperties
  <2>3. PICK w : w = first \o Page
      OBVIOUS
  <2>4. Picked(job.got \o Page, v \o Page)
    <3>1. Picked(Page, Page)
        BY <1>7, AllPicked
    <3>2. QED
        BY <1>1, <1>7, <2>1, <2>2, <3>1, PickedInTurn
  <2>5. v \o Page = b \o w
    <3>1. b \in Seq(Products) /\ first \in Seq(Products) /\ Page \in Seq(Products)
        BY <1>4, <1>7, <2>1
    <3>2. QED
        BY <2>2, <2>3, <3>1, Regrouped
  <2>6. QED
      BY <1>8, <2>1, <2>3, <2>4, <2>5
<1>10. CASE Len(Page) = PageSize /\ job.page < PageLimit
  <2> DEFINE j == Paging(job.type, job.slug, job.page + 1, got)
  <2>1. /\ j = [f \in Fields |-> j[f]]
        /\ j.phase = "paging" /\ j.type = job.type /\ j.slug = job.slug /\ j.page = job.page + 1 /\ j.got = got
        /\ j.next = 1 /\ j.running = {}
      BY DEF Paging, Fields
  <2>2. job' = j
      BY <1>2, <1>8, <1>10
  <2> HIDE DEF j
  <2>3. KindOf(j) = Kind
      BY <2>1 DEF KindOf, Kind
  <2>4. Workers(j)
      BY <2>1, NoWorkers
  <2>5. OnType(j, shop)
      BY <1>1, <2>1, <2>3 DEF OnType
  <2>6. (j.page - 1) * PageSize = n
    <3>1. j.page - 1 = job.page
        BY <1>1, <2>1
    <3>2. n = job.page * PageSize
        BY <1>7, <1>10
    <3>3. QED
        BY <3>1, <3>2
  <2>7. j.slug \in 1 .. Len(ss) /\ j.page \in Nat \ {0} /\ n <= Len(l)
    <3>1. Len(l) \in Nat
        BY <1>4, LenProperties
    <3>2. QED
        BY <1>1, <2>1, <3>1
  <2>8. Pages(j, shop)
      BY <1>9, <2>1, <2>3, <2>6, <2>7 DEF Pages
  <2>9. JobOK(j, shop)
      BY <2>1, <2>4, <2>5, <2>8 DEF JobOK
  <2>10. QED
      BY <2>2, <2>9
<1>11. CASE ~(Len(Page) = PageSize /\ job.page < PageLimit)
  <2>1. job' = AfterPages(got)
      BY <1>2, <1>8, <1>11
  <2>2. Picked(got, Before(ss, job.slug + 1))
    <3>1. Picked(got, b \o l)
      <4>1. n \in 0 .. Len(l) /\ b \in Seq(Products) /\ l \in Seq(Products)
          BY <1>4, <1>7
      <4> HIDE DEF b, l
      <4>2. QED
          BY <1>9, <4>1, PickedOfAll
    <3>2. QED
        BY <1>4, <3>1
  <2>3. QED
      BY <1>1, <2>1, <2>2, AfterPagesIsOK
<1>12. QED
    BY <1>10, <1>11

\* The detail of one product is there, or is not to be had.
LEMMA DetailEndsIsOK ==
    ASSUME shop \in Shops, JobOK(job, shop), NEW i \in job.running, NEW ok \in BOOLEAN, DetailEnds(i, ok)
    PROVE  JobOK(job', shop)
<1> DEFINE p == job.got[i]
           detailed == IF ok THEN transformPhongVuDetail(p, Kind) ELSE <<>>
           component == IF detailed # <<>> THEN detailed ELSE transformPhongVuProduct(p, Kind)
           running == (job.running \ {i}) \cup NextProduct
           n == Len(job.got)
<1>1. /\ job = [f \in Fields |-> job[f]] /\ job.phase = "mapping" /\ job.got \in Seq(Products)
      /\ OnType(job, shop) /\ Collected(job, shop) /\ Workers(job)
    BY DEF DetailEnds, JobOK
<1>2. /\ n \in Nat /\ DOMAIN job.got = 1 .. n
      /\ job.running \subseteq 1 .. job.next - 1 /\ job.next \in 1 .. n + 1
      /\ Cardinality(job.running) = Concurrency \/ (job.running # {} /\ job.next = n + 1)
    BY <1>1, LenProperties DEF Workers
<1>3. i \in 1 .. n
    BY <1>2
<1>4. Makes(component, p, Kind)
  <2>1. Kind \in TypeNames
      BY <1>1, ShopsSell DEF OnType, KindOf, Kind
  <2>2. /\ Makes(transformPhongVuDetail(p, Kind), p, Kind)
        /\ Makes(transformPhongVuProduct(p, Kind), p, Kind)
      BY <1>1, <1>3, <2>1, ElementOfSeq, EveryComponentIsJudgeable
  <2>3. QED
      BY <2>2
<1>5. job' = [job EXCEPT !.results = [job.results EXCEPT ![i] = component], !.running = running,
                         !.next = job.next + Cardinality(NextProduct),
                         !.phase = IF running = {} THEN "saving" ELSE "mapping"]
    BY DEF DetailEnds, ResultsInPlace
<1> HIDE DEF component, running
<1> DEFINE j == job'
<1>6. /\ j = [f \in Fields |-> j[f]] /\ j.type = job.type /\ j.got = job.got
      /\ j.results = [job.results EXCEPT ![i] = component] /\ j.running = running
      /\ j.next = job.next + Cardinality(NextProduct)
      /\ j.phase = IF running = {} THEN "saving" ELSE "mapping"
    BY <1>1, <1>5 DEF Fields
<1> HIDE DEF j
<1>7. KindOf(j) = Kind
    BY <1>6 DEF KindOf, Kind
<1>8. Workers(j)
  <2>1. IsFiniteSet(job.running)
    <3>1. PICK last \in Int : last = job.next - 1
        BY <1>2
    <3>2. IsFiniteSet(1 .. last)
        BY FS_Interval
    <3>3. QED
        BY <1>2, <3>1, <3>2, FS_Subset
  <2>2. CASE job.next \in 1 .. n
    <3>1. NextProduct = {job.next}
        BY <1>2, <2>2 DEF NextProduct
    <3>2. j.next = job.next + 1
        BY <1>6, <3>1, FS_Singleton
    <3>3. running = (job.running \ {i}) \cup {job.next}
        BY <3>1 DEF running
    <3>4. running \subseteq 1 .. j.next - 1 /\ j.next \in 1 .. n + 1
        BY <1>2, <2>2, <3>2, <3>3
    <3>5. Cardinality(running) = Concurrency
      <4>1. Cardinality(job.running) = Concurrency /\ Cardinality(job.running) \in Nat
          BY <1>2, <2>1, <2>2, FS_CardinalityType
      <4>2. /\ IsFiniteSet(job.running \ {i})
            /\ Cardinality(job.running \ {i}) = Cardinality(job.running) - 1
          BY <2>1, FS_RemoveElement
      <4>3. job.next \notin job.running \ {i}
          BY <1>2, <2>2
      <4>4. Cardinality(running) = Cardinality(job.running \ {i}) + 1
          BY <3>3, <4>2, <4>3, FS_AddElement
      <4>5. QED
          BY <4>1, <4>2, <4>4
    <3>6. QED
        BY <1>6, <3>4, <3>5 DEF Workers
  <2>3. CASE job.next = n + 1
    <3>1. NextProduct = {}
        BY <1>2, <2>3 DEF NextProduct
    <3>2. j.next = n + 1
        BY <1>2, <1>6, <2>3, <3>1, FS_EmptySet
    <3>3. running = job.running \ {i}
        BY <3>1 DEF running
    <3>4. running \subseteq 1 .. j.next - 1 /\ j.next \in 1 .. n + 1
        BY <1>2, <2>3, <3>2, <3>3
    <3>5. j.phase = "mapping" => running # {}
        BY <1>6
    <3>6. QED
        BY <1>6, <3>2, <3>4, <3>5 DEF Workers
  <2>4. QED
      BY <1>2, <2>2, <2>3
<1>9. OnType(j, shop)
    BY <1>1, <1>6, <1>7 DEF OnType, Kind, KindOf
<1>10. Collected(j, shop)
  <2>1. /\ Picked(job.got, FlattenSeq(shop[Kind]))
        /\ job.results = [k \in 1 .. n |-> job.results[k]]
        /\ \A k \in 1 .. n : Makes(job.results[k], job.got[k], Kind)
      BY <1>1 DEF Collected, KindOf, Kind
  <2>2. j.results = [k \in 1 .. n |-> j.results[k]]
      BY <1>6, <2>1
  <2>3. ASSUME NEW k \in 1 .. n PROVE Makes(j.results[k], job.got[k], Kind)
    <3>1. CASE k = i
      <4>1. j.results[k] = component
          BY <1>3, <1>6, <2>1, <3>1
      <4>2. QED
          BY <1>4, <3>1, <4>1
    <3>2. CASE k # i
      <4>1. j.results[k] = job.results[k]
          BY <1>6, <2>1, <3>2
      <4>2. QED
          BY <2>1, <4>1
    <3>3. QED
        BY <3>1, <3>2
  <2>4. QED
      BY <1>6, <1>7, <2>1, <2>2, <2>3 DEF Collected
<1>11. j.phase \in {"mapping", "saving"}
    BY <1>6
<1>12. JobOK(j, shop)
    BY <1>1, <1>6, <1>8, <1>9, <1>10, <1>11 DEF JobOK
<1>13. QED
    BY <1>12 DEF j

-----------------------------------------------------------------------------
(* The files *)

\* What is made of products picked of a listing is made of products of the listing.
LEMMA StemOfPicked ==
    ASSUME NEW S, NEW got \in Seq(S), NEW sold \in Seq(S), Picked(got, sold),
           NEW from, NEW cs, NEW type, Stem(from, cs, got, Len(got), type)
    PROVE  \E g : Stem(g, cs, sold, Len(sold), type)
<1>1. PICK f : Picks(f, got, sold)
    BY DEF Picked
<1>2. DOMAIN got = 1 .. Len(got) /\ DOMAIN sold = 1 .. Len(sold) /\ Len(got) \in Nat /\ Len(sold) \in Nat
    BY LenProperties
<1> DEFINE g == [i \in DOMAIN cs |-> f[from[i]]]
<1>3. ASSUME NEW i \in DOMAIN cs
      PROVE  from[i] \in 1 .. Len(got) /\ g[i] \in 1 .. Len(sold) /\ Made(cs[i], sold[g[i]], type)
  <2>1. from[i] \in 1 .. Len(got) /\ Made(cs[i], got[from[i]], type)
      BY DEF Stem
  <2>2. g[i] = f[from[i]]
      OBVIOUS
  <2>3. f[from[i]] \in 1 .. Len(sold) /\ got[from[i]] = sold[f[from[i]]]
      BY <1>1, <1>2, <2>1 DEF Picks
  <2> HIDE DEF g
  <2>4. QED
      BY <2>1, <2>2, <2>3
<1>4. ASSUME NEW i \in DOMAIN cs, NEW j \in DOMAIN cs, i < j PROVE g[i] < g[j]
  <2>1. from[i] < from[j] /\ from[i] \in 1 .. Len(got) /\ from[j] \in 1 .. Len(got)
      BY <1>3, <1>4 DEF Stem
  <2>2. f[from[i]] < f[from[j]]
      BY <1>1, <1>2, <2>1 DEF Picks
  <2>3. g[i] = f[from[i]] /\ g[j] = f[from[j]]
      OBVIOUS
  <2> HIDE DEF g
  <2>4. QED
      BY <2>2, <2>3
<1>5. g \in [DOMAIN cs -> 1 .. Len(sold)]
    BY <1>3
<1> HIDE DEF g
<1>6. \A i \in DOMAIN cs : Made(cs[i], sold[g[i]], type)
    BY <1>3
<1>7. Stem(g, cs, sold, Len(sold), type)
    BY <1>4, <1>5, <1>6 DEF Stem
<1>8. QED
    BY <1>7

LEMMA EmptyFileIsOK ==
    ASSUME NEW file, file.state \in {"missing", "torn", "whole"}, file.components = <<>>, NEW s, NEW t
    PROVE  FileOK(file, s, t)
<1> DEFINE from == [i \in DOMAIN <<>> |-> 1]
<1>1. DOMAIN <<>> = {}
    OBVIOUS
<1>2. Stem(from, <<>>, FlattenSeq(s[t]), Len(FlattenSeq(s[t])), t)
    BY <1>1 DEF Stem
<1>3. <<>> \in Seq(Products)
    BY EmptySeq
<1> HIDE DEF from
<1>4. file.components \in Seq(Products) /\ Stem(from, file.components, FlattenSeq(s[t]), Len(FlattenSeq(s[t])), t)
    BY <1>2, <1>3
<1>5. QED
    BY <1>4 DEF FileOK

LEMMA SnapshotIsOK ==
    ASSUME shop \in Shops, NEW t \in Kinds
    PROVE  FileOK(Snapshot(t), shop, t)
<1> DEFINE sold == FlattenSeq(shop[t])
           rs == [i \in DOMAIN sold |-> transformPhongVuProduct(sold[i], t)]
<1>1. sold \in Seq(Products) /\ t \in TypeNames
    BY ShopsSell DEF Kinds
<1>2. Len(sold) \in Nat /\ DOMAIN sold = 1 .. Len(sold)
    BY <1>1, LenProperties
<1>3. \A i \in 1 .. Len(sold) : rs[i] = transformPhongVuProduct(sold[i], t)
    BY <1>2
<1>4. rs = [i \in 1 .. Len(sold) |-> rs[i]]
    BY <1>2
<1>5. /\ Snapshot(t).state = "whole"
      /\ Snapshot(t).components = FlattenSeq(rs)
    BY DEF Snapshot
<1> HIDE DEF sold, rs
<1>6. \A i \in 1 .. Len(sold) : Makes(rs[i], sold[i], t)
    BY <1>1, <1>3, ElementOfSeq, EveryComponentIsJudgeable
<1>7. \E from, S : FlattenSeq(rs) \in Seq(S) /\ Stem(from, FlattenSeq(rs), sold, Len(sold), t)
    BY <1>2, <1>4, <1>6, MadeInTurn
<1>8. QED
    BY <1>5, <1>7 DEF FileOK, sold

LEMMA WrittenIsOK ==
    ASSUME shop \in Shops, JobOK(job, shop), job.phase = "writing"
    PROVE  FileOK([state |-> "whole", components |-> FlattenSeq(job.results)], shop, Kind)
<1> DEFINE sold == FlattenSeq(shop[Kind])
           got == job.got
           rs == job.results
           n == Len(got)
           file == [state |-> "whole", components |-> FlattenSeq(job.results)]
<1>1. /\ got \in Seq(Products) /\ Kind \in DOMAIN shop
      /\ Picked(got, sold) /\ rs = [i \in 1 .. n |-> rs[i]]
      /\ \A i \in 1 .. n : Makes(rs[i], got[i], Kind)
    BY DEF JobOK, OnType, Collected, KindOf, Kind
<1>2. sold \in Seq(Products) /\ n \in Nat
    BY <1>1, ShopsSell, LenProperties
<1>3. file.state = "whole" /\ file.components = FlattenSeq(rs)
    OBVIOUS
<1> HIDE DEF sold, got, rs, n, file
<1>4. PICK from, S : FlattenSeq(rs) \in Seq(S) /\ Stem(from, FlattenSeq(rs), got, n, Kind)
    BY <1>1, <1>2, MadeInTurn
<1>5. PICK g : Stem(g, FlattenSeq(rs), sold, Len(sold), Kind)
    BY <1>1, <1>2, <1>4, StemOfPicked DEF n
<1>6. FileOK(file, shop, Kind)
    BY <1>3, <1>4, <1>5 DEF FileOK, sold
<1>7. QED
    BY <1>6 DEF file

-----------------------------------------------------------------------------
(* The script's invariant *)

LEMMA InitScript == Init => ScriptInv
<1> SUFFICES ASSUME Init PROVE ScriptInv
    OBVIOUS
<1>1. shop \in Shops /\ job = Stopped
    BY DEF Init
<1>2. JobOK(job, shop)
    BY <1>1, StoppedIsOK
<1>3. CASE files = [t \in Kinds |-> Missing]
  <2>1. files = [t \in Kinds |-> files[t]]
      BY <1>3
  <2>2. \A t \in Kinds : FileOK(files[t], shop, t)
    <3>1. TAKE t \in Kinds
    <3>2. files[t].state = "missing" /\ files[t].components = <<>>
        BY <1>3 DEF Missing
    <3>3. QED
        BY <3>2, EmptyFileIsOK
  <2>3. QED
      BY <1>1, <1>2, <2>1, <2>2 DEF ScriptInv
<1>4. CASE files = [t \in Kinds |-> Snapshot(t)]
  <2>1. files = [t \in Kinds |-> files[t]]
      BY <1>4
  <2>2. \A t \in Kinds : FileOK(files[t], shop, t)
    <3>1. TAKE t \in Kinds
    <3>2. files[t] = Snapshot(t)
        BY <1>4
    <3>3. QED
        BY <1>1, <3>2, SnapshotIsOK
  <2>3. QED
      BY <1>1, <1>2, <2>1, <2>2 DEF ScriptInv
<1>5. QED
    BY <1>3, <1>4 DEF Init

LEMMA OneFileChanges ==
    ASSUME ScriptInv, NEW file, FileOK(file, shop, Kind), files' = [files EXCEPT ![Kind] = file]
    PROVE  /\ files' = [t \in Kinds |-> files'[t]]
           /\ \A t \in Kinds : FileOK(files'[t], shop, t)
<1>1. files = [t \in Kinds |-> files[t]] /\ \A t \in Kinds : FileOK(files[t], shop, t)
    BY DEF ScriptInv
<1>2. files' = [t \in Kinds |-> files'[t]]
    BY <1>1
<1>3. ASSUME NEW t \in Kinds PROVE FileOK(files'[t], shop, t)
  <2>1. files'[t] = IF t = Kind THEN file ELSE files[t]
      BY <1>1
  <2>2. QED
      BY <1>1, <2>1
<1>4. QED
    BY <1>2, <1>3

LEMMA NextScript == ScriptInv /\ [Next]_vars => ScriptInv'
<1> SUFFICES ASSUME ScriptInv, [Next]_vars PROVE ScriptInv'
    OBVIOUS
<1>1. /\ shop \in Shops /\ JobOK(job, shop)
      /\ files = [t \in Kinds |-> files[t]] /\ \A t \in Kinds : FileOK(files[t], shop, t)
    BY DEF ScriptInv
<1>2. ASSUME shop' = shop, JobOK(job', shop), files' = [t \in Kinds |-> files'[t]],
             \A t \in Kinds : FileOK(files'[t], shop, t)
      PROVE  ScriptInv'
    BY <1>1, <1>2 DEF ScriptInv, Kinds
<1>3. ASSUME shop' = shop, JobOK(job', shop), files' = files PROVE ScriptInv'
    BY <1>1, <1>2, <1>3
<1>4. ASSUME UNCHANGED <<shop, jobVars>> PROVE ScriptInv'
    BY <1>1, <1>3, <1>4 DEF jobVars
<1>5. CASE StartFetch
  <2>1. shop' = shop /\ files' = files /\ job' = Fresh(Min(TypesAfter(0)))
      BY <1>5 DEF StartFetch
  <2>2. TypesAfter(0) # {}
    <3>1. PICK t \in Kinds : t \in TypeNames
        BY <1>1, ShopsSell DEF Kinds
    <3>2. PICK i \in 1 .. Len(ALL_TYPES) : ALL_TYPES[i] = t
        BY <3>1, AllTypes DEF TypeNames
    <3>3. QED
        BY <3>1, <3>2 DEF TypesAfter
  <2>3. JobOK(job', shop)
      BY <1>1, <2>1, <2>2, FreshIsOK
  <2>4. QED
      BY <1>3, <2>1, <2>3
<1>6. CASE PageArrives
    BY <1>1, <1>3, <1>6, PageArrivesIsOK DEF PageArrives
<1>7. CASE PageFails
    BY <1>1, <1>3, <1>7, PageFailsIsOK DEF PageFails
<1>8. CASE Truncate
  <2>1. /\ shop' = shop /\ job.phase = "saving" /\ job' = [job EXCEPT !.phase = "writing"]
        /\ files' = [files EXCEPT ![Kind] = [state |-> "torn", components |-> <<>>]]
      BY <1>8 DEF Truncate
  <2>2. FileOK([state |-> "torn", components |-> <<>>], shop, Kind)
      BY EmptyFileIsOK
  <2>3. JobOK(job', shop)
    <3> DEFINE j == job'
    <3>1. /\ j = [f \in Fields |-> j[f]] /\ j.phase = "writing" /\ j.type = job.type /\ j.got = job.got
          /\ j.next = job.next /\ j.running = job.running /\ j.results = job.results
        BY <1>1, <2>1 DEF JobOK, Fields
    <3>2. /\ j.got \in Seq(Products) /\ Workers(job) /\ OnType(job, shop) /\ Collected(job, shop)
        BY <1>1, <2>1, <3>1 DEF JobOK
    <3> HIDE DEF j
    <3>3. KindOf(j) = KindOf(job)
        BY <3>1 DEF KindOf
    <3>4. Workers(j)
        BY <3>1, <3>2 DEF Workers
    <3>5. OnType(j, shop)
        BY <3>1, <3>2, <3>3 DEF OnType
    <3>6. Collected(j, shop)
        BY <3>1, <3>2, <3>3 DEF Collected
    <3>7. JobOK(j, shop)
        BY <3>1, <3>2, <3>4, <3>5, <3>6 DEF JobOK
    <3>8. QED
        BY <3>7 DEF j
  <2>4. /\ files' = [t \in Kinds |-> files'[t]]
        /\ \A t \in Kinds : FileOK(files'[t], shop, t)
      BY <2>1, <2>2, OneFileChanges
  <2>5. QED
      BY <1>2, <2>1, <2>3, <2>4
<1>9. CASE Write
  <2>1. /\ shop' = shop /\ job.phase = "writing"
        /\ files' = [files EXCEPT ![Kind] = [state |-> "whole", components |-> FlattenSeq(job.results)]]
        /\ job' = IF TypesAfter(job.type) = {} THEN Stopped ELSE Fresh(Min(TypesAfter(job.type)))
      BY <1>9 DEF Write
  <2>2. FileOK([state |-> "whole", components |-> FlattenSeq(job.results)], shop, Kind)
      BY <1>1, <2>1, WrittenIsOK
  <2>3. JobOK(job', shop)
    <3>1. job.type \in Nat
        BY <1>1, <2>1, AllTypes DEF JobOK, OnType
    <3>2. CASE TypesAfter(job.type) = {}
        BY <2>1, <3>2, StoppedIsOK
    <3>3. CASE TypesAfter(job.type) # {}
        BY <1>1, <2>1, <3>1, <3>3, FreshIsOK
    <3>4. QED
        BY <3>2, <3>3
  <2>4. /\ files' = [t \in Kinds |-> files'[t]]
        /\ \A t \in Kinds : FileOK(files'[t], shop, t)
      BY <2>1, <2>2, OneFileChanges
  <2>5. QED
      BY <1>2, <2>1, <2>3, <2>4
<1>10. CASE Interrupted
    BY <1>3, <1>10, StoppedIsOK DEF Interrupted
<1>11. CASE \E i \in job.running, ok \in BOOLEAN : DetailEnds(i, ok)
  <2>1. PICK i \in job.running, ok \in BOOLEAN : DetailEnds(i, ok)
      BY <1>11
  <2>2. shop' = shop /\ files' = files
      BY <2>1 DEF DetailEnds
  <2>3. JobOK(job', shop)
      BY <1>1, <2>1, DetailEndsIsOK
  <2>4. QED
      BY <1>3, <2>2, <2>3
<1>12. CASE \E criteria \in Asks : SearchLocal(criteria) \/ SearchLive(criteria)
    BY <1>4, <1>12 DEF SearchLocal, SearchLive
<1>13. CASE \E n \in Open, result \in fetchType : FetchEnds(n, result)
    BY <1>4, <1>13 DEF FetchEnds
<1>14. CASE Restart
    BY <1>4, <1>14 DEF Restart
<1>15. CASE UNCHANGED vars
    BY <1>4, <1>15 DEF vars
<1>16. QED
    BY <1>5, <1>6, <1>7, <1>8, <1>9, <1>10, <1>11, <1>12, <1>13, <1>14, <1>15 DEF Next

\* Through pages, details, files, errors and interruptions the script has in hand, and leaves
\* in its files, products of the listings in their order, or components made of them.
THEOREM ScriptInvariant == Spec => []ScriptInv
<1>1. Init => ScriptInv
    BY InitScript
<1>2. ScriptInv /\ [Next]_vars => ScriptInv'
    BY NextScript
<1>3. QED
    BY <1>1, <1>2, PTL DEF Spec

LEMMA ScriptSaves == ScriptInv => SavedIsJudgeable
<1> SUFFICES ASSUME ScriptInv, NEW t \in Kinds
             PROVE  LET sold == FlattenSeq(shop[t])
                        saved == files[t].components
                    IN  /\ \A i \in DOMAIN saved : /\ saved[i].type = t /\ saved[i].price > 0
                                                   /\ Judgeable(saved[i])
                        /\ \E from \in [DOMAIN saved -> DOMAIN sold] :
                              \A i \in DOMAIN saved :
                                  /\ saved[i].sku = sold[from[i]].sku /\ saved[i].price = sold[from[i]].price
                                  /\ \A j \in DOMAIN saved : i < j => from[i] < from[j]
    BY DEF SavedIsJudgeable
<1> DEFINE sold == FlattenSeq(shop[t])
           saved == files[t].components
<1>1. PICK from : Stem(from, saved, sold, Len(sold), t)
    BY DEF ScriptInv, FileOK
<1>2. sold \in Seq(Products)
    BY ShopsSell DEF ScriptInv, Kinds
<1> HIDE DEF sold, saved
<1>3. DOMAIN sold = 1 .. Len(sold) /\ \A n \in DOMAIN sold : sold[n] \in Products
    BY <1>2, LenProperties, ElementOfSeq
<1>4. from \in [DOMAIN saved -> DOMAIN sold]
    BY <1>1, <1>3 DEF Stem
<1>5. ASSUME NEW i \in DOMAIN saved
      PROVE  /\ saved[i].type = t /\ saved[i].price > 0 /\ Judgeable(saved[i])
             /\ saved[i].sku = sold[from[i]].sku /\ saved[i].price = sold[from[i]].price
  <2>1. Made(saved[i], sold[from[i]], t)
      BY <1>1 DEF Stem
  <2>2. sold[from[i]].price \in Nat
      BY <1>3, <1>4, ProductsAssumption
  <2>3. saved[i].price = sold[from[i]].price /\ sold[from[i]].price # 0
      BY <2>1 DEF Made
  <2>4. saved[i].price > 0
      BY <2>2, <2>3
  <2>5. QED
      BY <2>1, <2>4 DEF Made
<1>6. \A i, j \in DOMAIN saved : i < j => from[i] < from[j]
    BY <1>1 DEF Stem
<1>7. /\ \A i \in DOMAIN saved : saved[i].type = t /\ saved[i].price > 0 /\ Judgeable(saved[i])
      /\ \E f \in [DOMAIN saved -> DOMAIN sold] :
            \A i \in DOMAIN saved :
                /\ saved[i].sku = sold[f[i]].sku /\ saved[i].price = sold[f[i]].price
                /\ \A j \in DOMAIN saved : i < j => f[i] < f[j]
    BY <1>4, <1>5, <1>6
<1>8. QED
    BY <1>7 DEF sold, saved

\* Whatever page or detail request fails, and in whatever order they end, a file that
\* fetch-phongvu-catalog.ts has written holds priced products of its type, each place of the
\* listings once, in the shop's order, with all that the compiler's rules read and with its
\* sizes in their words.
THEOREM SavedFilesAreJudgeable == Spec => []SavedIsJudgeable
BY ScriptInvariant, ScriptSaves, PTL

-----------------------------------------------------------------------------
(* The server *)

Sources == {"unread", "mock", "phongvu"}

\* Inductive: the cache has a slice per type, from a file or the mock, or none yet.
ServerInv ==
    /\ mode \in Modes /\ fetches \in 0 .. MaxFetches /\ restarts \in 0 .. MaxRestarts
    /\ cache = [t \in Kinds |-> cache[t]]
    /\ \A t \in Kinds : cache[t].source \in Sources

LEMMA SlicesAreKnown ==
    ASSUME ServerInv, NEW t \in Kinds
    PROVE  loadCatalogFile(t).source \in Sources
<1>1. cache[t].source \in Sources
    BY DEF ServerInv
<1>2. mockSlice(t).source \in Sources
    BY DEF mockSlice, Sources
<1>3. [source |-> "phongvu", components |-> files[t].components].source \in Sources
    BY DEF Sources
<1>4. QED
    BY <1>1, <1>2, <1>3 DEF loadCatalogFile

LEMMA InitServer == Init => ServerInv
BY SizesAssumption DEF Init, ServerInv, Sources, Unread

LEMMA NextServer == ServerInv /\ [Next]_vars => ServerInv'
<1> SUFFICES ASSUME ServerInv, [Next]_vars PROVE ServerInv'
    OBVIOUS
<1>1. /\ mode \in Modes /\ fetches \in 0 .. MaxFetches /\ restarts \in 0 .. MaxRestarts
      /\ cache = [t \in Kinds |-> cache[t]]
      /\ \A t \in Kinds : cache[t].source \in Sources
    BY DEF ServerInv
<1>2. ASSUME UNCHANGED <<shop, mode, cache, restarts>>, fetches' \in 0 .. MaxFetches
      PROVE  ServerInv'
    BY <1>1, <1>2 DEF ServerInv, Kinds
<1>3. ASSUME UNCHANGED <<shop, mode, fetches>>, restarts' \in 0 .. MaxRestarts,
             cache' = [t \in Kinds |-> cache'[t]], \A t \in Kinds : cache'[t].source \in Sources
      PROVE  ServerInv'
    BY <1>1, <1>3 DEF ServerInv, Kinds
<1>4. CASE StartFetch
  <2>1. fetches' \in 0 .. MaxFetches
      BY <1>1, <1>4, SizesAssumption DEF StartFetch
  <2>2. QED
      BY <1>2, <1>4, <2>1 DEF StartFetch, serverVars
<1>5. CASE PageArrives
    BY <1>1, <1>2, <1>5 DEF PageArrives, serverVars
<1>6. CASE PageFails
    BY <1>1, <1>2, <1>6 DEF PageFails, serverVars
<1>7. CASE Truncate
    BY <1>1, <1>2, <1>7 DEF Truncate, serverVars
<1>8. CASE Write
    BY <1>1, <1>2, <1>8 DEF Write, serverVars
<1>9. CASE Interrupted
    BY <1>1, <1>2, <1>9 DEF Interrupted, serverVars
<1>10. CASE \E i \in job.running, ok \in BOOLEAN : DetailEnds(i, ok)
    BY <1>1, <1>2, <1>10 DEF DetailEnds, serverVars
<1>11. ASSUME NEW criteria \in Asks, SearchLocal(criteria) PROVE ServerInv'
  <2>1. /\ UNCHANGED <<shop, jobVars, mode, restarts>>
        /\ cache' = [t \in Kinds |-> IF t \in Range(targetTypes(criteria)) THEN loadCatalogFile(t)
                                                                          ELSE cache[t]]
      BY <1>11 DEF SearchLocal
  <2>2. cache' = [t \in Kinds |-> cache'[t]]
      BY <2>1
  <2>3. \A t \in Kinds : cache'[t].source \in Sources
      BY <1>1, <2>1, SlicesAreKnown
  <2>4. QED
      BY <1>1, <1>3, <2>1, <2>2, <2>3 DEF jobVars
<1>12. ASSUME NEW criteria \in Asks, SearchLive(criteria) PROVE ServerInv'
    BY <1>1, <1>2, <1>12 DEF SearchLive, jobVars
<1>13. ASSUME NEW n \in Open, NEW result \in fetchType, FetchEnds(n, result) PROVE ServerInv'
  <2>1. PICK t : /\ UNCHANGED <<shop, jobVars, mode, restarts>>
                 /\ cache' = cache \/ cache' = [cache EXCEPT ![t] = loadCatalogFile(t)]
      BY <1>13 DEF FetchEnds
  <2>2. cache' = [k \in Kinds |-> cache'[k]]
      BY <1>1, <2>1
  <2>3. ASSUME NEW k \in Kinds PROVE cache'[k].source \in Sources
    <3>1. cache'[k] = cache[k] \/ (t = k /\ cache'[k] = loadCatalogFile(k))
        BY <1>1, <2>1
    <3>2. QED
        BY <1>1, <3>1, SlicesAreKnown
  <2>4. QED
      BY <1>1, <1>3, <2>1, <2>2, <2>3 DEF jobVars
<1>14. CASE Restart
  <2>1. /\ UNCHANGED <<shop, jobVars, mode>> /\ cache' = [t \in Kinds |-> Unread]
        /\ restarts < MaxRestarts /\ restarts' = restarts + 1
      BY <1>14 DEF Restart
  <2>2. restarts' \in 0 .. MaxRestarts
      BY <1>1, <2>1, SizesAssumption
  <2>3. cache' = [t \in Kinds |-> cache'[t]] /\ \A t \in Kinds : cache'[t].source \in Sources
      BY <2>1 DEF Unread, Sources
  <2>4. QED
      BY <1>3, <2>1, <2>2, <2>3 DEF jobVars
<1>15. CASE UNCHANGED vars
    BY <1>1, <1>2, <1>15 DEF vars, serverVars, jobVars
<1>16. QED
    BY <1>4, <1>5, <1>6, <1>7, <1>8, <1>9, <1>10, <1>11, <1>12, <1>13, <1>14, <1>15 DEF Next

\* The script never has more than DETAIL_CONCURRENCY detail requests open, nor an idle worker
\* while products are left, and the server's cache only knows slices read from a file and mocks.
THEOREM CatalogTypes == Spec => []CatalogTypeOK
<1>1. Init => ServerInv
    BY InitServer
<1>2. ServerInv /\ [Next]_vars => ServerInv'
    BY NextServer
<1>3. ScriptInv /\ ServerInv => CatalogTypeOK
  <2> SUFFICES ASSUME ScriptInv, ServerInv PROVE CatalogTypeOK
      OBVIOUS
  <2>1. /\ shop \in Shops /\ Workers(job)
        /\ job.phase \in {"stopped", "paging", "mapping", "saving", "writing"}
        /\ \A t \in Kinds : files[t].state \in {"missing", "torn", "whole"}
      BY DEF ScriptInv, JobOK, FileOK
  <2>2. /\ mode \in Modes /\ fetches \in 0 .. MaxFetches /\ restarts \in 0 .. MaxRestarts
        /\ \A t \in Kinds : cache[t].source \in {"unread", "mock", "phongvu"}
      BY DEF ServerInv, Sources
  <2>3. QED
      BY <2>1, <2>2 DEF CatalogTypeOK, Workers
<1>4. QED
    BY <1>1, <1>2, <1>3, ScriptInvariant, PTL DEF Spec

-----------------------------------------------------------------------------
(* Filtering *)

\* Induction over the sequences, for a set.
LEMMA InductiveSeq ==
    ASSUME NEW S, NEW P, <<>> \in P, \A s \in Seq(S), x \in S : s \in P => Append(s, x) \in P
    PROVE  \A s \in Seq(S) : s \in P
<1> DEFINE Q == {n \in Nat : \A s \in Seq(S) : Len(s) = n => s \in P}
<1>1. 0 \in Q
  <2>1. \A s \in Seq(S) : Len(s) = 0 => s = <<>>
      BY EmptySeq
  <2>2. QED
      BY <2>1
<1>2. ASSUME NEW n \in Nat, n \in Q PROVE n + 1 \in Q
  <2>1. ASSUME NEW s \in Seq(S), Len(s) = n + 1 PROVE s \in P
    <3>1. s # <<>>
        BY <2>1, EmptySeq
    <3>2. PICK r \in Seq(S), x \in S : s = Append(r, x)
        BY <3>1, SequenceEmptyOrAppend
    <3>3. Len(r) = n
        BY <2>1, <3>2, AppendProperties, LenProperties
    <3>4. QED
        BY <1>2, <3>2, <3>3
  <2>2. QED
      BY <2>1
<1>3. \A n \in Nat : n \in Q
  <2> HIDE DEF Q
  <2> QED BY <1>1, <1>2, Inductive
<1>4. QED
    BY <1>3, LenProperties

\* What becomes of one element.
Sieve(x, T) == IF x \in T THEN <<x>> ELSE <<>>

LEMMA SieveType ==
    ASSUME NEW S, NEW x \in S, NEW T
    PROVE  Sieve(x, T) \in Seq(S) /\ Range(Sieve(x, T)) = {x} \cap T
<1>1. CASE x \in T
  <2>1. Sieve(x, T) = <<x>> /\ DOMAIN <<x>> = {1}
      BY <1>1 DEF Sieve
  <2>2. QED
      BY <1>1, <2>1 DEF Range
<1>2. CASE x \notin T
  <2>1. Sieve(x, T) = <<>> /\ DOMAIN <<>> = {}
      BY <1>2 DEF Sieve
  <2>2. QED
      BY <1>2, <2>1, EmptySeq DEF Range
<1>3. QED
    BY <1>1, <1>2

LEMMA AmongEmpty == ASSUME NEW T PROVE Among(<<>>, T) = <<>>
<1> DEFINE rs == [i \in DOMAIN <<>> |-> IF <<>>[i] \in T THEN <<<<>>[i]>> ELSE <<>>]
<1>1. rs = <<>>
    OBVIOUS
<1>2. Among(<<>>, T) = FlattenSeq(rs)
    BY DEF Among
<1>3. QED
    BY <1>1, <1>2, FlattenEmpty

LEMMA AmongStep ==
    ASSUME NEW S, NEW s \in Seq(S), NEW x \in S, NEW T
    PROVE  Among(Append(s, x), T) = Among(s, T) \o Sieve(x, T)
<1> DEFINE n == Len(s)
           t == Append(s, x)
           rs == [i \in DOMAIN s |-> IF s[i] \in T THEN <<s[i]>> ELSE <<>>]
           ts == [i \in DOMAIN t |-> IF t[i] \in T THEN <<t[i]>> ELSE <<>>]
<1>1. n \in Nat /\ DOMAIN s = 1 .. n
    BY LenProperties
<1>2. /\ t \in Seq(S) /\ Len(t) = n + 1 /\ t[n + 1] = x
      /\ \A i \in 1 .. n : t[i] = s[i]
    BY AppendProperties
<1>3. DOMAIN t = 1 .. n + 1
    BY <1>2, LenProperties
<1> HIDE DEF t, n
<1>4. /\ rs = [i \in 1 .. n |-> Sieve(s[i], T)]
      /\ ts = [i \in 1 .. n + 1 |-> Sieve(t[i], T)]
    BY <1>1, <1>3 DEF Sieve
<1>5. \A i \in 1 .. n : s[i] \in S /\ Sieve(s[i], T) \in Seq(S)
  <2>1. ASSUME NEW i \in 1 .. n PROVE s[i] \in S /\ Sieve(s[i], T) \in Seq(S)
    <3>1. s[i] \in S
        BY ElementOfSeq DEF n
    <3>2. QED
        BY <3>1, SieveType
  <2>2. QED
      BY <2>1
<1>6. Sieve(x, T) \in Seq(S)
    BY SieveType
<1>7. Among(s, T) = FlattenSeq(rs) /\ Among(t, T) = FlattenSeq(ts)
    BY DEF Among
<1> HIDE DEF rs, ts
<1>8. rs \in Seq(Seq(S)) /\ Len(rs) = n
    BY <1>1, <1>4, <1>5
<1>9. ts = Append(rs, Sieve(x, T))
  <2> DEFINE us == Append(rs, Sieve(x, T))
  <2>1. /\ us \in Seq(Seq(S)) /\ Len(us) = n + 1
        /\ \A i \in 1 .. n : us[i] = rs[i]
        /\ us[n + 1] = Sieve(x, T)
      BY <1>6, <1>8, AppendProperties
  <2>2. \A i \in 1 .. n + 1 : ts[i] = Sieve(t[i], T)
      BY <1>4
  <2>3. ts \in Seq(Seq(S)) /\ Len(ts) = n + 1
    <3>1. \A i \in 1 .. n + 1 : Sieve(t[i], T) \in Seq(S)
        BY <1>1, <1>2, <1>5, <1>6
    <3>2. QED
        BY <1>1, <1>4, <3>1
  <2> HIDE DEF us
  <2>4. \A i \in 1 .. n + 1 : ts[i] = us[i]
    <3>1. \A i \in 1 .. n : ts[i] = us[i]
        BY <1>1, <1>2, <1>4, <2>1, <2>2
    <3>2. ts[n + 1] = us[n + 1]
        BY <1>1, <1>2, <2>1, <2>2
    <3>3. QED
        BY <1>1, <3>1, <3>2
  <2>5. ts = us
      BY <2>1, <2>3, <2>4, SeqEqual
  <2>6. QED
      BY <2>5 DEF us
<1>10. FlattenSeq(ts) = FlattenSeq(rs) \o Sieve(x, T)
    BY <1>6, <1>8, <1>9, FlattenStep
<1>11. QED
    BY <1>7, <1>10 DEF t

\* What is kept comes in its order, and is what was there and is in T.
LEMMA AmongIs ==
    ASSUME NEW S, NEW s \in Seq(S), NEW T
    PROVE  /\ Among(s, T) \in Seq(S)
           /\ Range(Among(s, T)) = Range(s) \cap T
           /\ Picked(Among(s, T), s)
<1> DEFINE Good(r) == /\ Among(r, T) \in Seq(S)
                      /\ Range(Among(r, T)) = Range(r) \cap T
                      /\ Picked(Among(r, T), r)
           P == {r \in Seq(S) : Good(r)}
<1>1. <<>> \in P
  <2>1. Range(<<>>) = {} /\ <<>> \in Seq(S)
      BY EmptySeq DEF Range
  <2>2. QED
      BY <2>1, AmongEmpty, NothingPicked
<1>2. ASSUME NEW r \in Seq(S), NEW x \in S, r \in P PROVE Append(r, x) \in P
  <2>1. Good(r)
      BY <1>2
  <2> DEFINE u == Append(r, x)
  <2>2. u = r \o <<x>> /\ u \in Seq(S) /\ <<x>> \in Seq(S)
      BY AppendIsConcat, AppendProperties
  <2>3. Range(<<x>>) = {x}
    <3>1. DOMAIN <<x>> = {1}
        OBVIOUS
    <3>2. QED
        BY <3>1 DEF Range
  <2>4. Sieve(x, T) \in Seq(S) /\ Range(Sieve(x, T)) = {x} \cap T
      BY SieveType
  <2>5. Picked(Sieve(x, T), <<x>>)
    <3>1. CASE x \in T
      <4>1. Sieve(x, T) = <<x>>
          BY <3>1 DEF Sieve
      <4>2. QED
          BY <2>2, <4>1, AllPicked
    <3>2. CASE x \notin T
      <4>1. Sieve(x, T) = <<>>
          BY <3>2 DEF Sieve
      <4>2. QED
          BY <4>1, NothingPicked
    <3>3. QED
        BY <3>1, <3>2
  <2>6. Among(u, T) = Among(r, T) \o Sieve(x, T)
      BY AmongStep
  <2> HIDE DEF u
  <2>7. Among(u, T) \in Seq(S)
      BY <2>1, <2>4, <2>6, ConcatProperties
  <2>8. Range(Among(u, T)) = Range(u) \cap T
    <3>1. Range(Among(u, T)) = Range(Among(r, T)) \cup Range(Sieve(x, T))
        BY <2>1, <2>4, <2>6, RangeConcatenation
    <3>2. Range(u) = Range(r) \cup {x}
      <4>1. PICK one : one = <<x>>
          OBVIOUS
      <4>2. one \in Seq(S) /\ Range(one) = {x} /\ u = r \o one
          BY <2>2, <2>3, <4>1
      <4>3. QED
          BY <4>2, RangeConcatenation
    <3>3. QED
        BY <2>1, <2>4, <3>1, <3>2
  <2>9. Picked(Among(u, T), u)
      BY <2>1, <2>2, <2>4, <2>5, <2>6, PickedInTurn
  <2>10. u \in P
      BY <2>2, <2>7, <2>8, <2>9
  <2>11. QED
      BY <2>10 DEF u
<1>3. \A r \in Seq(S) : r \in P
  <2> HIDE DEF P
  <2> QED BY <1>1, <1>2, InductiveSeq
<1>4. QED
    BY <1>3

LEMMA AmongAll ==
    ASSUME NEW S, NEW s \in Seq(S), NEW T, S \subseteq T
    PROVE  Among(s, T) = s
<1> DEFINE P == {r \in Seq(S) : Among(r, T) = r}
<1>1. <<>> \in P
    BY AmongEmpty, EmptySeq
<1>2. ASSUME NEW r \in Seq(S), NEW x \in S, r \in P PROVE Append(r, x) \in P
  <2>1. Sieve(x, T) = <<x>>
      BY DEF Sieve
  <2>2. Append(r, x) = r \o <<x>> /\ Append(r, x) \in Seq(S)
      BY AppendIsConcat, AppendProperties
  <2>3. Among(r, T) = r
      BY <1>2
  <2>4. Among(Append(r, x), T) = Among(r, T) \o Sieve(x, T)
      BY AmongStep
  <2>5. Among(Append(r, x), T) = r \o <<x>>
      BY <2>1, <2>3, <2>4
  <2>6. QED
      BY <2>2, <2>5
<1>3. \A r \in Seq(S) : r \in P
  <2> HIDE DEF P
  <2> QED BY <1>1, <1>2, InductiveSeq
<1>4. QED
    BY <1>3

\* A filter keeps of two sequences, one after the other, what it keeps of each.
InParts(s, u, T) == Among(s \o u, T) = Among(s, T) \o Among(u, T)

LEMMA AmongConcat ==
    ASSUME NEW S, NEW s \in Seq(S), NEW u \in Seq(S), NEW T
    PROVE  InParts(s, u, T)
<1> DEFINE P == {r \in Seq(S) : Among(s \o r, T) = Among(s, T) \o Among(r, T)}
<1>1. <<>> \in P
  <2>1. Among(s, T) \in Seq(S) /\ <<>> \in Seq(S)
      BY AmongIs, EmptySeq
  <2>2. s \o <<>> = s /\ Among(s, T) \o <<>> = Among(s, T)
      BY <2>1, ConcatEmptySeq
  <2>3. QED
      BY <2>1, <2>2, AmongEmpty
<1>2. ASSUME NEW r \in Seq(S), NEW x \in S, r \in P PROVE Append(r, x) \in P
  <2>1. /\ Append(r, x) = r \o <<x>> /\ Append(r, x) \in Seq(S) /\ <<x>> \in Seq(S)
        /\ s \o r \in Seq(S)
      BY AppendIsConcat, AppendProperties, ConcatProperties
  <2>2. s \o Append(r, x) = Append(s \o r, x)
    <3>1. Append(s \o r, x) = (s \o r) \o <<x>>
        BY <2>1, AppendIsConcat
    <3>2. (s \o r) \o <<x>> = s \o (r \o <<x>>)
        BY <2>1, ConcatAssociative
    <3>3. QED
        BY <2>1, <3>1, <3>2
  <2>3. Among(Append(s \o r, x), T) = Among(s \o r, T) \o Sieve(x, T)
      BY <2>1, AmongStep
  <2>4. Among(Append(r, x), T) = Among(r, T) \o Sieve(x, T)
      BY AmongStep
  <2>5. Among(s, T) \in Seq(S) /\ Among(r, T) \in Seq(S) /\ Sieve(x, T) \in Seq(S)
      BY AmongIs, SieveType
  <2>6. Among(s \o r, T) = Among(s, T) \o Among(r, T)
      BY <1>2
  <2>7. (Among(s, T) \o Among(r, T)) \o Sieve(x, T) = Among(s, T) \o (Among(r, T) \o Sieve(x, T))
    <3>1. ASSUME NEW a \in Seq(S), NEW b \in Seq(S), NEW c \in Seq(S)
          PROVE  (a \o b) \o c = a \o (b \o c)
        BY ConcatAssociative
    <3>2. QED
        BY <2>5, <3>1
  <2>8. QED
      BY <2>1, <2>2, <2>3, <2>4, <2>6, <2>7
<1>3. \A r \in Seq(S) : r \in P
  <2> HIDE DEF P
  <2> QED BY <1>1, <1>2, InductiveSeq
<1>4. u \in P
    BY <1>3
<1>5. QED
    BY <1>4 DEF InParts

\* A filter that keeps all of one sequence and nothing of the others leaves that one.
LEMMA AmongOne ==
    ASSUME NEW S, NEW ss \in Seq(Seq(S)), NEW k \in 1 .. Len(ss), NEW T,
           Range(ss[k]) \subseteq T, \A i \in 1 .. Len(ss) : i # k => Range(ss[i]) \cap T = {}
    PROVE  Among(FlattenSeq(ss), T) = ss[k]
<1> DEFINE n == Len(ss)
           Left(j) == IF j <= k THEN <<>> ELSE ss[k]
           P == {j \in Nat : j + 1 <= n + 1 => Among(Before(ss, j + 1), T) = Left(j + 1)}
<1>1. /\ n \in Nat /\ Before(ss, 1) = <<>> /\ Before(ss, n + 1) = FlattenSeq(ss)
      /\ \A j \in 1 .. n : /\ Before(ss, j) \in Seq(S) /\ ss[j] \in Seq(S)
                           /\ Before(ss, j + 1) = Before(ss, j) \o ss[j]
    BY BeforeSteps, LenProperties
<1>2. 0 \in P
    BY <1>1, AmongEmpty
<1>3. ASSUME NEW j \in Nat, j \in P PROVE j + 1 \in P
  <2>1. SUFFICES ASSUME j + 1 \in 1 .. n PROVE Among(Before(ss, j + 1 + 1), T) = Left(j + 1 + 1)
      BY <1>1
  <2> DEFINE i == j + 1
  <2>2. Among(Before(ss, i), T) = Left(i)
      BY <1>1, <1>3, <2>1
  <2>3. /\ Before(ss, i) \in Seq(S) /\ ss[i] \in Seq(S)
        /\ Before(ss, i + 1) = Before(ss, i) \o ss[i]
      BY <1>1, <2>1
  <2>4. i \in Nat /\ i \in 1 .. n
      BY <2>1
  <2> HIDE DEF i, Left
  <2>5. Among(Before(ss, i + 1), T) = Left(i) \o Among(ss[i], T)
    <3>1. PICK a : a = Before(ss, i)
        OBVIOUS
    <3>2. PICK b : b = ss[i]
        OBVIOUS
    <3>3. a \in Seq(S) /\ b \in Seq(S)
        BY <2>3, <3>1, <3>2
    <3>4. InParts(a, b, T)
        BY <3>3, AmongConcat
    <3>5. Among(a \o b, T) = Among(a, T) \o Among(b, T)
        BY <3>4 DEF InParts
    <3>6. QED
        BY <2>2, <2>3, <3>1, <3>2, <3>5
  <2>6. CASE i = k
    <3>1. ss[i] \in Seq(Range(ss[i]))
        BY <2>3, SeqOfRange
    <3>2. Among(ss[i], T) = ss[i]
        BY <2>6, <3>1, AmongAll
    <3>3. Left(i) = <<>> /\ Left(i + 1) = ss[i]
        BY <2>4, <2>6 DEF Left
    <3>4. <<>> \o ss[i] = ss[i]
        BY <2>3, ConcatEmptySeq
    <3>5. QED
        BY <2>5, <3>2, <3>3, <3>4 DEF i
  <2>7. CASE i # k
    <3>1. /\ Among(ss[i], T) \in Seq(S) /\ Range(Among(ss[i], T)) = {}
        BY <2>3, <2>4, <2>7, AmongIs
    <3>2. Among(ss[i], T) = <<>>
      <4>1. Len(Among(ss[i], T)) = 0
        <5>1. SUFFICES ASSUME Len(Among(ss[i], T)) # 0 PROVE FALSE
            OBVIOUS
        <5>2. 1 \in DOMAIN Among(ss[i], T)
            BY <3>1, <5>1, LenProperties
        <5>3. Among(ss[i], T)[1] \in Range(Among(ss[i], T))
            BY <5>2 DEF Range
        <5>4. QED
            BY <3>1, <5>3
      <4>2. QED
          BY <3>1, <4>1, EmptySeq
    <3>3. Left(i + 1) = Left(i)
        BY <2>4, <2>7 DEF Left
    <3>4. Left(i) \o <<>> = Left(i)
      <4>1. Left(i) \in Seq(S)
          BY <1>1, EmptySeq DEF Left
      <4>2. QED
          BY <4>1, ConcatEmptySeq
    <3>5. QED
        BY <2>5, <3>2, <3>3, <3>4 DEF i
  <2>8. QED
      BY <2>6, <2>7
<1>4. \A j \in Nat : j \in P
  <2> HIDE DEF P
  <2> QED BY <1>2, <1>3, Inductive
<1>5. Among(Before(ss, n + 1), T) = Left(n + 1)
  <2>1. n \in P
      BY <1>1, <1>4
  <2>2. n + 1 <= n + 1
      BY <1>1
  <2>3. QED
      BY <2>1, <2>2
<1>6. QED
    BY <1>1, <1>5

\* What is in the sequences is in the one they are put together to.
LEMMA FlattenRange ==
    ASSUME NEW S, NEW ss \in Seq(Seq(S))
    PROVE  Range(FlattenSeq(ss)) = UNION {Range(ss[i]) : i \in 1 .. Len(ss)}
<1> DEFINE U(rs) == UNION {Range(rs[i]) : i \in 1 .. Len(rs)}
           P == {rs \in Seq(Seq(S)) : Range(FlattenSeq(rs)) = U(rs)}
<1>1. <<>> \in P
  <2>1. Range(<<>>) = {} /\ <<>> \in Seq(Seq(S)) /\ 1 .. Len(<<>>) = {}
      BY EmptySeq DEF Range
  <2>2. QED
      BY <2>1, FlattenEmpty
<1>2. ASSUME NEW rs \in Seq(Seq(S)), NEW s \in Seq(S), rs \in P PROVE Append(rs, s) \in P
  <2> DEFINE ts == Append(rs, s)
             n == Len(rs)
  <2>1. /\ ts \in Seq(Seq(S)) /\ Len(ts) = n + 1 /\ n \in Nat
        /\ \A i \in 1 .. n : ts[i] = rs[i]
        /\ ts[n + 1] = s
      BY AppendProperties, LenProperties
  <2>2. Range(FlattenSeq(ts)) = U(rs) \cup Range(s)
    <3>1. FlattenSeq(ts) = FlattenSeq(rs) \o s
        BY FlattenStep
    <3>2. FlattenSeq(rs) \in Seq(S)
        BY FlattenType
    <3>3. QED
        BY <1>2, <3>1, <3>2, RangeConcatenation
  <2> HIDE DEF ts
  <2>3. U(ts) = U(rs) \cup Range(s)
    <3>1. 1 .. Len(ts) = (1 .. n) \cup {n + 1}
        BY <2>1
    <3>2. \A x : x \in U(ts) <=> \E i \in 1 .. Len(ts) : x \in Range(ts[i])
        OBVIOUS
    <3>3. \A x : x \in U(rs) <=> \E i \in 1 .. n : x \in Range(rs[i])
        OBVIOUS
    <3> HIDE DEF U
    <3>4. QED
        BY <2>1, <3>1, <3>2, <3>3
  <2>4. ts \in P
      BY <2>1, <2>2, <2>3
  <2>5. QED
      BY <2>4 DEF ts
<1>3. \A rs \in Seq(Seq(S)) : rs \in P
  <2> HIDE DEF P
  <2> QED BY <1>1, <1>2, InductiveSeq
<1>4. QED
    BY <1>3

-----------------------------------------------------------------------------
(* Sorting *)

\* What comes in a stable sort not after the one at i: what is cheaper, and its equals before it.
NotAfter(price, n, i) == {j \in 1 .. n : price[j] < price[i] \/ (price[j] = price[i] /\ j <= i)}

\* The one at i comes before the one at j.
Sooner(price, i, j) == price[i] < price[j] \/ (price[i] = price[j] /\ i < j)

\* Counting them gives each its place, and each place is taken.
LEMMA EveryPlaceIsTaken ==
    ASSUME NEW n \in Nat, NEW price \in [1 .. n -> Nat]
    PROVE  /\ \A i \in 1 .. n : Cardinality(NotAfter(price, n, i)) \in 1 .. n
           /\ \A r \in 1 .. n : \E i \in 1 .. n : Cardinality(NotAfter(price, n, i)) = r
           /\ \A i, j \in 1 .. n : Sooner(price, i, j) =>
                 Cardinality(NotAfter(price, n, i)) < Cardinality(NotAfter(price, n, j))
<1> DEFINE below(i) == NotAfter(price, n, i)
           place == [i \in 1 .. n |-> Cardinality(below(i))]
<1>1. IsFiniteSet(1 .. n) /\ Cardinality(1 .. n) = n
  <2>1. 1 \in Int /\ n \in Int /\ (1 > n => n = 0)
      OBVIOUS
  <2>2. IsFiniteSet(1 .. n) /\ Cardinality(1 .. n) = IF 1 > n THEN 0 ELSE n - 1 + 1
      BY <2>1, FS_Interval
  <2>3. QED
      BY <2>1, <2>2
<1>2. ASSUME NEW i \in 1 .. n
      PROVE  /\ below(i) \subseteq 1 .. n /\ i \in below(i) /\ IsFiniteSet(below(i))
             /\ Cardinality(below(i)) \in 1 .. n
  <2>1. below(i) \subseteq 1 .. n /\ i \in below(i)
      BY DEF NotAfter
  <2> HIDE DEF below
  <2>2. IsFiniteSet(below(i)) /\ Cardinality(below(i)) <= n
      BY <1>1, <2>1, FS_Subset
  <2>3. Cardinality(below(i)) \in Nat /\ Cardinality(below(i)) # 0
      BY <2>1, <2>2, FS_CardinalityType, FS_EmptySet
  <2>4. QED
      BY <2>1, <2>2, <2>3
<1>3. ASSUME NEW i \in 1 .. n, NEW j \in 1 .. n, price[i] < price[j] \/ (price[i] = price[j] /\ i < j)
      PROVE  Cardinality(below(i)) < Cardinality(below(j))
  <2>1. below(i) \subseteq below(j) /\ j \notin below(i)
    <3>1. price[i] \in Nat /\ price[j] \in Nat /\ \A k \in 1 .. n : price[k] \in Nat
        OBVIOUS
    <3>2. QED
        BY <1>3, <3>1 DEF NotAfter
  <2>2. j \in below(j) /\ IsFiniteSet(below(j))
      BY <1>2
  <2>3. Cardinality(below(i)) \in Nat /\ Cardinality(below(j)) \in Nat
      BY <1>2
  <2> HIDE DEF below
  <2>4. /\ Cardinality(below(i)) <= Cardinality(below(j))
        /\ Cardinality(below(j)) = Cardinality(below(i)) => below(j) = below(i)
      BY <2>1, <2>2, FS_Subset
  <2>5. QED
      BY <2>1, <2>2, <2>3, <2>4
<1>4. place \in [1 .. n -> 1 .. n]
    BY <1>2
<1>5. ASSUME NEW i \in 1 .. n, NEW j \in 1 .. n, place[i] = place[j] PROVE i = j
  <2>1. SUFFICES ASSUME i # j PROVE FALSE
      OBVIOUS
  <2>2. price[i] \in Nat /\ price[j] \in Nat
      OBVIOUS
  <2>3. \/ price[i] < price[j] \/ (price[i] = price[j] /\ i < j)
        \/ price[j] < price[i] \/ (price[j] = price[i] /\ j < i)
      BY <2>1, <2>2
  <2>4. Cardinality(below(i)) = Cardinality(below(j)) /\ Cardinality(below(i)) \in Nat
      BY <1>2, <1>5
  <2> HIDE DEF below, place
  <2>5. QED
      BY <1>3, <2>3, <2>4
<1>6. place \in Injection(1 .. n, 1 .. n)
  <2> HIDE DEF place
  <2> QED BY <1>4, <1>5, Fun_IsInj
<1>7. place \in Surjection(1 .. n, 1 .. n)
  <2> HIDE DEF place
  <2> QED BY <1>1, <1>6, FS_Injection
<1>8. ASSUME NEW r \in 1 .. n PROVE \E i \in 1 .. n : Cardinality(below(i)) = r
  <2>1. \E i \in 1 .. n : place[i] = r
    <3> HIDE DEF place
    <3> QED BY <1>7 DEF Surjection
  <2>2. QED
      BY <2>1
<1>9. \A i, j \in 1 .. n : Sooner(price, i, j) => Cardinality(below(i)) < Cardinality(below(j))
  <2> HIDE DEF below
  <2> QED BY <1>3 DEF Sooner
<1>10. QED
    BY <1>2, <1>8, <1>9

\* t is s in the order of the prices, the equals in the order they had.
Sorts(pos, t, s) ==
    /\ DOMAIN t = DOMAIN s /\ pos \in [DOMAIN s -> DOMAIN s]
    /\ \A i \in DOMAIN s : t[i] = s[pos[i]]
    /\ \A k \in DOMAIN s : \E i \in DOMAIN s : pos[i] = k
    /\ \A i, j \in DOMAIN s :
          i < j => t[i].price < t[j].price \/ (t[i].price = t[j].price /\ pos[i] < pos[j])

LEMMA SortByPriceSorts ==
    ASSUME NEW S, NEW s \in Seq(S), \A i \in DOMAIN s : s[i].price \in Nat
    PROVE  \E pos : Sorts(pos, SortByPrice(s), s)
<1> DEFINE n == Len(s)
           price == [i \in 1 .. n |-> s[i].price]
           place(i) == Cardinality(NotAfter(price, n, i))
           at(r) == CHOOSE i \in DOMAIN s : place(i) = r
           pos == [r \in DOMAIN s |-> at(r)]
           t == [r \in DOMAIN s |-> s[at(r)]]
<1>1. n \in Nat /\ DOMAIN s = 1 .. n
    BY LenProperties
<1> HIDE DEF n
<1>2. price \in [1 .. n -> Nat] /\ \A i \in 1 .. n : price[i] = s[i].price
    BY <1>1
<1>3. SortByPrice(s) = t
  <2> DEFINE sought(i) == {j \in DOMAIN s : \/ s[j].price < s[i].price
                                            \/ s[j].price = s[i].price /\ j <= i}
  <2>1. \A i \in DOMAIN s : sought(i) = NotAfter(price, n, i)
      BY <1>1, <1>2 DEF NotAfter
  <2>2. SortByPrice(s) = [r \in DOMAIN s |-> s[CHOOSE i \in DOMAIN s : Cardinality(sought(i)) = r]]
      BY DEF SortByPrice
  <2> HIDE DEF sought, price
  <2>3. \A r : (CHOOSE i \in DOMAIN s : Cardinality(sought(i)) = r) = at(r)
      BY <2>1
  <2> HIDE DEF at
  <2>4. QED
      BY <2>2, <2>3
<1> HIDE DEF price
<1>4. /\ \A i \in 1 .. n : place(i) \in 1 .. n
      /\ \A r \in 1 .. n : \E i \in 1 .. n : place(i) = r
      /\ \A i, j \in 1 .. n : Sooner(price, i, j) => place(i) < place(j)
    BY <1>1, <1>2, EveryPlaceIsTaken
<1> HIDE DEF place
<1>5. \A r \in 1 .. n : at(r) \in 1 .. n /\ place(at(r)) = r
    BY <1>1, <1>4
<1> HIDE DEF at
<1>6. ASSUME NEW i \in 1 .. n, NEW j \in 1 .. n, i # j PROVE Sooner(price, i, j) \/ Sooner(price, j, i)
    BY <1>1, <1>2, <1>6 DEF Sooner
<1>7. ASSUME NEW k \in 1 .. n PROVE at(place(k)) = k
  <2>1. SUFFICES ASSUME at(place(k)) # k PROVE FALSE
      OBVIOUS
  <2>2. PICK i \in 1 .. n : i = at(place(k)) /\ place(i) = place(k) /\ place(k) \in 1 .. n
      BY <1>4, <1>5
  <2>3. place(i) < place(k) \/ place(k) < place(i)
      BY <1>4, <1>6, <2>1, <2>2
  <2>4. QED
      BY <1>1, <2>2, <2>3
<1>8. ASSUME NEW i \in 1 .. n, NEW j \in 1 .. n, i < j PROVE Sooner(price, at(i), at(j))
  <2>1. at(i) \in 1 .. n /\ at(j) \in 1 .. n /\ place(at(i)) = i /\ place(at(j)) = j
      BY <1>5
  <2>2. at(i) # at(j)
      BY <1>1, <1>8, <2>1
  <2>3. ~Sooner(price, at(j), at(i))
    <3>1. SUFFICES ASSUME Sooner(price, at(j), at(i)) PROVE FALSE
        OBVIOUS
    <3>2. place(at(j)) < place(at(i))
        BY <1>4, <2>1, <3>1
    <3>3. QED
        BY <1>1, <1>8, <2>1, <3>2
  <2>4. QED
      BY <1>6, <2>1, <2>2, <2>3
<1>9. /\ DOMAIN t = 1 .. n /\ pos \in [1 .. n -> 1 .. n]
      /\ \A i \in 1 .. n : t[i] = s[pos[i]] /\ pos[i] = at(i) /\ t[i].price = price[pos[i]]
    BY <1>1, <1>2, <1>5
<1> HIDE DEF t, pos
<1>10. \A k \in 1 .. n : \E i \in 1 .. n : pos[i] = k
    BY <1>4, <1>7, <1>9
<1>11. \A i, j \in 1 .. n :
          i < j => t[i].price < t[j].price \/ (t[i].price = t[j].price /\ pos[i] < pos[j])
    BY <1>8, <1>9 DEF Sooner
<1>12. Sorts(pos, t, s)
    BY <1>1, <1>9, <1>10, <1>11 DEF Sorts
<1>13. QED
    BY <1>3, <1>12

\* A sort loses and invents no component, and puts the cheaper before the dearer.
LEMMA SortedByPrice ==
    ASSUME NEW S, NEW s \in Seq(S), \A i \in DOMAIN s : s[i].price \in Nat
    PROVE  /\ SortByPrice(s) \in Seq(Range(s)) /\ Range(SortByPrice(s)) = Range(s)
           /\ \A i, j \in DOMAIN SortByPrice(s) : i < j => SortByPrice(s)[i].price <= SortByPrice(s)[j].price
<1>1. PICK t : t = SortByPrice(s)
    OBVIOUS
<1>2. PICK pos : Sorts(pos, t, s)
    BY <1>1, SortByPriceSorts
<1>3. PICK n \in Nat : DOMAIN s = 1 .. n
    BY LenProperties
<1>4. /\ DOMAIN t = 1 .. n /\ \A i \in 1 .. n : pos[i] \in 1 .. n /\ t[i] = s[pos[i]]
      /\ \A k \in 1 .. n : \E i \in 1 .. n : pos[i] = k
      /\ \A i, j \in 1 .. n : i < j => t[i].price < t[j].price \/ t[i].price = t[j].price
    BY <1>2, <1>3 DEF Sorts
<1>5. Range(t) = Range(s)
  <2>1. ASSUME NEW x \in Range(t) PROVE x \in Range(s)
    <3>1. PICK i \in 1 .. n : x = t[i]
        BY <1>4 DEF Range
    <3>2. QED
        BY <1>3, <1>4, <3>1 DEF Range
  <2>2. ASSUME NEW x \in Range(s) PROVE x \in Range(t)
    <3>1. PICK k \in 1 .. n : x = s[k]
        BY <1>3 DEF Range
    <3>2. PICK i \in 1 .. n : pos[i] = k
        BY <1>4
    <3>3. x = t[i] /\ i \in DOMAIN t
        BY <1>4, <3>1, <3>2
    <3>4. QED
        BY <3>3 DEF Range
  <2>3. QED
      BY <2>1, <2>2
<1>6. \A i \in 1 .. n : t[i] \in Range(s) /\ t[i].price \in Nat
    BY <1>3, <1>4 DEF Range
<1>7. t \in Seq(Range(s))
  <2>1. t = [i \in 1 .. n |-> t[i]]
      BY <1>1, <1>3 DEF SortByPrice
  <2>2. QED
      BY <1>6, <2>1
<1>8. \A i, j \in DOMAIN t : i < j => t[i].price <= t[j].price
  <2>1. SUFFICES ASSUME NEW i \in 1 .. n, NEW j \in 1 .. n, i < j PROVE t[i].price <= t[j].price
      BY <1>4
  <2>2. t[i].price < t[j].price \/ t[i].price = t[j].price
      BY <1>4, <2>1
  <2>3. t[i].price \in Nat /\ t[j].price \in Nat
      BY <1>6
  <2>4. QED
      BY <2>2, <2>3
<1>9. QED
    BY <1>1, <1>5, <1>7, <1>8

\* What FilterAndSort returns is among what it was given, cheapest first.
LEMMA FilteredAndSorted ==
    ASSUME NEW S, NEW s \in Seq(S), \A c \in S : c.price \in Nat, NEW criteria
    PROVE  /\ FilterAndSort(s, criteria) \in Seq(Range(s))
           /\ \A i, j \in DOMAIN FilterAndSort(s, criteria) :
                 i < j => FilterAndSort(s, criteria)[i].price <= FilterAndSort(s, criteria)[j].price
<1> DEFINE T == {c \in Range(s) : Wanted(c, criteria)}
           kept == Among(s, T)
<1>1. kept \in Seq(S) /\ Range(kept) = Range(s) \cap T
    BY AmongIs
<1>2. Range(kept) \subseteq Range(s)
    BY <1>1
<1>3. FilterAndSort(s, criteria) \in {<<>>, SortByPrice(kept)}
    BY DEF FilterAndSort
<1> HIDE DEF kept
<1>4. \A i \in DOMAIN kept : kept[i].price \in Nat
    BY <1>1, ElementOfSeq, LenProperties
<1>5. /\ SortByPrice(kept) \in Seq(Range(kept))
      /\ \A i, j \in DOMAIN SortByPrice(kept) : i < j => SortByPrice(kept)[i].price <= SortByPrice(kept)[j].price
    BY <1>1, <1>4, SortedByPrice
<1>6. SortByPrice(kept) \in Seq(Range(s))
    BY <1>2, <1>5, SeqMonotonic
<1>7. <<>> \in Seq(Range(s)) /\ DOMAIN <<>> = {}
    BY EmptySeq
<1>8. QED
    BY <1>3, <1>5, <1>6, <1>7

\* What one search returns of what it has found is all that its criteria want of it and nothing
\* else, the cheaper before the dearer and equals as they were found. That it returns at once for a
\* lower bound of the price above the upper one is only a shortcut.
THEOREM SearchIsExact ==
    ASSUME NEW S, NEW s \in Seq(S), \A c \in S : c.price \in Nat, NEW criteria,
           Has(criteria, "price_min") => criteria.price_min \in Nat,
           Has(criteria, "price_max") => criteria.price_max \in Nat
    PROVE  LET found == FilterAndSort(s, criteria) IN
           /\ Range(found) = {c \in Range(s) : Wanted(c, criteria)}
           /\ \E from \in [DOMAIN found -> DOMAIN s] :
                 /\ \A i \in DOMAIN found : found[i] = s[from[i]]
                 /\ \A i, j \in DOMAIN found :
                       i < j => \/ found[i].price < found[j].price
                                \/ found[i].price = found[j].price /\ from[i] < from[j]
<1> DEFINE T == {c \in Range(s) : Wanted(c, criteria)}
           void == /\ Has(criteria, "price_min") /\ Has(criteria, "price_max")
                   /\ criteria.price_min > criteria.price_max
           Right(found) ==
              /\ Range(found) = T
              /\ \E from \in [DOMAIN found -> DOMAIN s] :
                    /\ \A i \in DOMAIN found : found[i] = s[from[i]]
                    /\ \A i, j \in DOMAIN found :
                          i < j => \/ found[i].price < found[j].price
                                   \/ found[i].price = found[j].price /\ from[i] < from[j]
<1>1. Range(s) \subseteq S
    BY RangeOfSeq
<1>2. CASE void
  <2>1. T = {}
    <3>1. SUFFICES ASSUME NEW c \in T PROVE FALSE
        OBVIOUS
    <3>2. Between(c.price, criteria, "price_min", "price_max") /\ c.price \in Nat
        BY <1>1 DEF Wanted
    <3>3. criteria["price_min"] <= c.price /\ c.price <= criteria["price_max"]
        BY <1>2, <3>2 DEF Between
    <3>4. QED
        BY <1>2, <3>2, <3>3
  <2>2. FilterAndSort(s, criteria) = <<>>
      BY <1>2 DEF FilterAndSort
  <2>3. Right(<<>>)
    <3> DEFINE from == [i \in DOMAIN <<>> |-> 1]
    <3>1. DOMAIN <<>> = {} /\ Range(<<>>) = {}
        BY DEF Range
    <3>2. from \in [DOMAIN <<>> -> DOMAIN s]
        BY <3>1
    <3> HIDE DEF from
    <3>3. QED
        BY <2>1, <3>1, <3>2
  <2> HIDE DEF Right
  <2>4. Right(FilterAndSort(s, criteria))
      BY <2>2, <2>3
  <2>5. QED
      BY <2>4 DEF Right
<1>3. CASE ~void
  <2>1. PICK kept : kept = Among(s, T)
      OBVIOUS
  <2>2. PICK found : found = SortByPrice(kept)
      OBVIOUS
  <2>3. FilterAndSort(s, criteria) = found
      BY <1>3, <2>1, <2>2 DEF FilterAndSort
  <2>4. kept \in Seq(S) /\ Range(kept) = Range(s) \cap T /\ Picked(kept, s)
      BY <2>1, AmongIs
  <2>5. \A i \in DOMAIN kept : kept[i].price \in Nat
      BY <2>4, ElementOfSeq, LenProperties
  <2>6. Range(found) = T
      BY <2>2, <2>4, <2>5, SortedByPrice
  <2>7. PICK pos : Sorts(pos, found, kept)
      BY <2>2, <2>4, <2>5, SortByPriceSorts
  <2>8. PICK old : Picks(old, kept, s)
      BY <2>4 DEF Picked
  <2>9. PICK n \in Nat : DOMAIN kept = 1 .. n
      BY <2>4, LenProperties
  <2>10. /\ DOMAIN found = 1 .. n
         /\ \A i \in 1 .. n : pos[i] \in 1 .. n /\ found[i] = kept[pos[i]]
         /\ \A i, j \in 1 .. n :
               i < j => found[i].price < found[j].price \/ (found[i].price = found[j].price /\ pos[i] < pos[j])
      BY <2>7, <2>9 DEF Sorts
  <2>11. /\ \A i \in 1 .. n : old[i] \in DOMAIN s /\ kept[i] = s[old[i]]
         /\ \A i, j \in 1 .. n : i < j => old[i] < old[j]
      BY <2>8, <2>9 DEF Picks
  <2>12. PICK from : from = [i \in 1 .. n |-> old[pos[i]]]
      OBVIOUS
  <2>13. from \in [DOMAIN found -> DOMAIN s] /\ \A i \in 1 .. n : from[i] = old[pos[i]]
      BY <2>10, <2>11, <2>12
  <2>14. \A i \in 1 .. n : found[i] = s[from[i]]
      BY <2>10, <2>11, <2>13
  <2>15. ASSUME NEW i \in 1 .. n, NEW j \in 1 .. n, i < j
         PROVE  found[i].price < found[j].price \/ (found[i].price = found[j].price /\ from[i] < from[j])
    <3>1. CASE found[i].price < found[j].price
        BY <3>1
    <3>2. CASE found[i].price = found[j].price /\ pos[i] < pos[j]
      <4>1. pos[i] \in 1 .. n /\ pos[j] \in 1 .. n
          BY <2>10
      <4>2. old[pos[i]] < old[pos[j]]
          BY <2>11, <3>2, <4>1
      <4>3. QED
          BY <2>13, <3>2, <4>2
    <3>3. QED
        BY <2>10, <2>15, <3>1, <3>2
  <2>16. Right(found)
    <3> HIDE DEF T, void
    <3>1. \A i \in DOMAIN found : found[i] = s[from[i]]
        BY <2>10, <2>14
    <3>2. \A i, j \in DOMAIN found :
          i < j => \/ found[i].price < found[j].price
                   \/ found[i].price = found[j].price /\ from[i] < from[j]
        BY <2>10, <2>15
    <3>3. from \in [DOMAIN found -> DOMAIN s] /\ Range(found) = T
        BY <2>6, <2>13
    <3>4. QED
        BY <3>1, <3>2, <3>3
  <2> HIDE DEF Right
  <2>17. Right(FilterAndSort(s, criteria))
      BY <2>3, <2>16
  <2>18. QED
      BY <2>17 DEF Right
<1>4. QED
    BY <1>2, <1>3

-----------------------------------------------------------------------------
(* The types of a shop *)

LEMMA TypesAre ==
    ASSUME shop \in Shops
    PROVE  /\ types \in Seq(Kinds) /\ Range(types) = Kinds /\ types # <<>>
           /\ \A i, j \in 1 .. Len(types) : types[i] = types[j] => i = j
<1>1. ALL_TYPES \in Seq(TypeNames) /\ Range(ALL_TYPES) = TypeNames
  <2>1. Range(ALL_TYPES) = TypeNames
      BY DEF Range, TypeNames
  <2>2. ALL_TYPES \in Seq(TypeNames)
      BY TheTypes DEF ALL_TYPES
  <2>3. QED
      BY <2>1, <2>2
<1>2. \A i, j \in DOMAIN ALL_TYPES : ALL_TYPES[i] = ALL_TYPES[j] => i = j
    BY DEF ALL_TYPES
<1>3. Kinds # {} /\ Kinds \subseteq TypeNames
    BY ShopsSell DEF Kinds
<1>4. /\ types \in Seq(TypeNames) /\ Range(types) = Range(ALL_TYPES) \cap Kinds
      /\ Picked(types, ALL_TYPES)
    BY <1>1, AmongIs DEF types
<1>5. Range(types) = Kinds
    BY <1>1, <1>3, <1>4
<1>6. types \in Seq(Kinds)
    BY <1>4, <1>5, SeqOfRange
<1>7. types # <<>>
  <2>1. Range(<<>>) = {}
      BY DEF Range
  <2>2. QED
      BY <1>3, <1>5, <2>1
<1>8. PICK from : Picks(from, types, ALL_TYPES)
    BY <1>4 DEF Picked
<1>9. DOMAIN types = 1 .. Len(types) /\ Len(types) \in Nat
    BY <1>4, LenProperties
<1>10. ASSUME NEW i \in 1 .. Len(types), NEW j \in 1 .. Len(types), types[i] = types[j] PROVE i = j
  <2>1. /\ from[i] \in DOMAIN ALL_TYPES /\ types[i] = ALL_TYPES[from[i]]
        /\ from[j] \in DOMAIN ALL_TYPES /\ types[j] = ALL_TYPES[from[j]]
      BY <1>8, <1>9 DEF Picks
  <2>2. from[i] = from[j]
      BY <1>2, <1>10, <2>1
  <2>3. (i < j => from[i] < from[j]) /\ (j < i => from[j] < from[i])
      BY <1>8, <1>9 DEF Picks
  <2>4. from[i] \in Nat
      BY <2>1, AllTypes
  <2>5. QED
      BY <1>9, <2>2, <2>3, <2>4
<1>11. QED
    BY <1>5, <1>6, <1>7, <1>10

-----------------------------------------------------------------------------
(* Where components come from *)

LEMMA JoinedMock ==
    ASSUME NEW f, NEW sku, NEW type, NEW price, Base \cap DOMAIN f = {}
    PROVE  LET c == Joined(f, Mock(sku, type, price)) IN c.sku = sku /\ c.type = type /\ c.price = price
<1> DEFINE g == Mock(sku, type, price)
           c == Joined(f, g)
<1>1. DOMAIN g = Base /\ g.sku = sku /\ g.type = type /\ g.price = price
    BY DEF Mock, Base
<1> HIDE DEF g
<1>2. \A key \in DOMAIN g \ DOMAIN f : c[key] = g[key]
    BY JoinedDomain
<1>3. \A key \in Base : c[key] = g[key]
    BY <1>1, <1>2
<1> HIDE DEF c
<1>4. c.sku = sku /\ c.type = type /\ c.price = price
    BY <1>1, <1>3 DEF Base
<1>5. QED
    BY <1>4 DEF c, g

LEMMA MockIsBundled ==
    /\ MOCK_CATALOG \in Seq(Range(MOCK_CATALOG))
    /\ \A c \in Range(MOCK_CATALOG) : c.sku # "scraped" /\ c.price \in Nat
<1> DEFINE Bundled(c) == c.sku # "scraped" /\ c.price \in Nat
           f1 == [socket |-> "AM5", tdp |-> 120, ram_gen_supported |-> <<"DDR5">>]
           f2 == [socket |-> "AM5", ram_gen_supported |-> <<"DDR5">>, form_factor |-> "ATX"]
           f3 == [generation |-> "DDR5", tdp |-> 3]
           f4 == [wattage |-> 650, form_factor |-> "ATX"]
           f5 == [socket |-> <<"AM5", "AM4", "LGA1700">>, height |-> 160, tdp |-> 250]
           f6 == [form_factor |-> "ATX", max_cooler_height |-> 170, supported_mb_form_factors |-> Smaller["ATX"],
                  supported_psu_form_factors |-> <<"ATX", "SFX">>, clearance_mm |-> 370]
           f8 == [tdp |-> 450, clearance_mm |-> 320]
           m1 == Joined(f1, Mock("cpu-001", "cpu", 95))
           m2 == Joined(f2, Mock("mb-001", "mainboard", 32))
           m3 == Joined(f3, Mock("ram-001", "ram", 28))
           m4 == Joined(f4, Mock("psu-001", "psu", 18))
           m5 == Joined(f5, Mock("cooler-001", "cooler", 9))
           m6 == Joined(f6, Mock("case-001", "case", 35))
           m7 == Mock("storage-001", "storage", 12)
           m8 == Joined(f8, Mock("gpu-001", "gpu", 350))
<1>1. /\ Base \cap DOMAIN f1 = {} /\ Base \cap DOMAIN f2 = {} /\ Base \cap DOMAIN f3 = {}
      /\ Base \cap DOMAIN f4 = {} /\ Base \cap DOMAIN f5 = {} /\ Base \cap DOMAIN f6 = {}
      /\ Base \cap DOMAIN f8 = {}
    BY DEF Base
<1>2. MOCK_CATALOG = <<m1, m2, m3, m4, m5, m6, m7, m8>>
    BY DEF MOCK_CATALOG
<1>3. Bundled(m7)
    BY DEF Mock
<1> HIDE DEF f1, f2, f3, f4, f5, f6, f8
<1>4. /\ m1.sku = "cpu-001" /\ m1.price = 95 /\ m2.sku = "mb-001" /\ m2.price = 32
      /\ m3.sku = "ram-001" /\ m3.price = 28 /\ m4.sku = "psu-001" /\ m4.price = 18
    BY <1>1, JoinedMock
<1>5. /\ m5.sku = "cooler-001" /\ m5.price = 9 /\ m6.sku = "case-001" /\ m6.price = 35
      /\ m8.sku = "gpu-001" /\ m8.price = 350
    BY <1>1, JoinedMock
<1> HIDE DEF m1, m2, m3, m4, m5, m6, m7, m8
<1>6. \A m \in {m1, m2, m3, m4, m5, m6, m7, m8} : Bundled(m)
    BY <1>3, <1>4, <1>5
<1>7. MOCK_CATALOG \in Seq({m1, m2, m3, m4, m5, m6, m7, m8})
    BY <1>2
<1>8. Range(MOCK_CATALOG) \subseteq {m1, m2, m3, m4, m5, m6, m7, m8}
    BY <1>7, RangeOfSeq
<1>9. MOCK_CATALOG \in Seq(Range(MOCK_CATALOG))
    BY <1>7, SeqOfRange
<1>10. QED
    BY <1>6, <1>8, <1>9

\* What loadCatalogFile returns: components of the type, of the source that it names.
SliceOK(slice, type) ==
    /\ slice.source \in {"mock", "phongvu"}
    /\ slice.components \in Seq(Range(slice.components))
    /\ \A c \in Range(slice.components) : c.type = type /\ c.price \in Nat /\ Origin(c) = slice.source

LEMMA MockSliceIsOK == ASSUME NEW type PROVE SliceOK(mockSlice(type), type)
<1> DEFINE cs == Among(MOCK_CATALOG, {c \in Range(MOCK_CATALOG) : c.type = type})
<1>1. /\ cs \in Seq(Range(MOCK_CATALOG))
      /\ Range(cs) = Range(MOCK_CATALOG) \cap {c \in Range(MOCK_CATALOG) : c.type = type}
    BY MockIsBundled, AmongIs
<1>2. mockSlice(type).source = "mock" /\ mockSlice(type).components = cs
    BY DEF mockSlice
<1> HIDE DEF cs
<1>3. cs \in Seq(Range(cs))
    BY <1>1, SeqOfRange
<1>4. \A c \in Range(cs) : c.type = type /\ c.price \in Nat /\ Origin(c) = "mock"
    BY <1>1, MockIsBundled DEF Origin
<1>5. QED
    BY <1>2, <1>3, <1>4 DEF SliceOK

LEMMA FileSliceIsOK ==
    ASSUME shop \in Shops, NEW type \in Kinds, NEW file, FileOK(file, shop, type)
    PROVE  SliceOK([source |-> "phongvu", components |-> file.components], type)
<1> DEFINE sold == FlattenSeq(shop[type])
           cs == file.components
           slice == [source |-> "phongvu", components |-> file.components]
<1>1. PICK from, S : cs \in Seq(S) /\ Stem(from, cs, sold, Len(sold), type)
    BY DEF FileOK
<1>2. sold \in Seq(Products)
    BY ShopsSell DEF Kinds
<1>3. slice.source = "phongvu" /\ slice.components = cs
    OBVIOUS
<1> HIDE DEF sold, cs, slice
<1>4. cs \in Seq(Range(cs))
    BY <1>1, SeqOfRange
<1>5. ASSUME NEW c \in Range(cs) PROVE c.type = type /\ c.price \in Nat /\ Origin(c) = "phongvu"
  <2>1. PICK i \in DOMAIN cs : cs[i] = c
      BY <1>5 DEF Range
  <2>2. Made(c, sold[from[i]], type) /\ from[i] \in 1 .. Len(sold)
      BY <1>1, <2>1 DEF Stem
  <2>3. PICK p \in Products : p = sold[from[i]]
      BY <1>2, <2>2, ElementOfSeq
  <2>4. c.sku = p.sku /\ c.type = type /\ c.price = p.price
      BY <2>2, <2>3 DEF Made
  <2>5. c.sku # "scraped" /\ ~(\E m \in Range(MOCK_CATALOG) : m.sku = c.sku)
      BY <2>4, SkusAssumption
  <2>6. c.price \in Nat
      BY <2>4, ProductsAssumption
  <2>7. QED
      BY <2>4, <2>5, <2>6 DEF Origin
<1>6. SliceOK(slice, type)
    BY <1>3, <1>4, <1>5 DEF SliceOK
<1>7. QED
    BY <1>6 DEF slice

LEMMA OnlyKeys == ASSUME NEW f, NEW key, NEW as PROVE DOMAIN Only(f, key, as) \subseteq {as}
<1>1. CASE Has(f, key)
    BY <1>1 DEF Only
<1>2. CASE ~Has(f, key)
  <2>1. Only(f, key, as) = <<>> /\ DOMAIN <<>> = {}
      BY <1>2 DEF Only
  <2>2. QED
      BY <2>1
<1>3. QED
    BY <1>1, <1>2

\* What mapScrapedProduct reads of the specs is neither a sku nor a price.
LEMMA LiveKeys ==
    ASSUME NEW says, NEW type \in TypeNames
    PROVE  DOMAIN LiveAttributes(says, type) \cap {"sku", "price"} = {}
<1>1. ASSUME NEW f, NEW g, DOMAIN f \cap {"sku", "price"} = {}, DOMAIN g \cap {"sku", "price"} = {}
      PROVE  DOMAIN Joined(f, g) \cap {"sku", "price"} = {}
    BY <1>1, JoinedDomain
<1>2. ASSUME NEW key, NEW as, as \notin {"sku", "price"}
      PROVE  DOMAIN Only(says, key, as) \cap {"sku", "price"} = {}
  <2>1. DOMAIN Only(says, key, as) \subseteq {as}
      BY OnlyKeys
  <2>2. QED
      BY <1>2, <2>1
<1>3. CASE type = "cpu"
    BY <1>3 DEF LiveAttributes
<1>4. CASE type = "mainboard"
    BY <1>4 DEF LiveAttributes
<1>5. CASE type = "ram"
  <2> DEFINE f == [generation |-> says.gen]
             g == Only(says, "tdp", "tdp")
  <2>1. LiveAttributes(says, type) = Joined(f, g)
      BY <1>5 DEF LiveAttributes
  <2>2. DOMAIN f \cap {"sku", "price"} = {} /\ DOMAIN g \cap {"sku", "price"} = {}
      BY <1>2
  <2> HIDE DEF f, g
  <2>3. QED
      BY <1>1, <2>1, <2>2
<1>6. CASE type = "psu"
    BY <1>6 DEF LiveAttributes
<1>7. CASE type = "cooler"
  <2> DEFINE f == [socket |-> <<says.socket>>, tdp |-> says.tdp]
             g == Only(says, "room", "height")
  <2>1. LiveAttributes(says, type) = Joined(f, g)
      BY <1>7 DEF LiveAttributes
  <2>2. DOMAIN f \cap {"sku", "price"} = {} /\ DOMAIN g \cap {"sku", "price"} = {}
      BY <1>2
  <2> HIDE DEF f, g
  <2>3. QED
      BY <1>1, <2>1, <2>2
<1>8. CASE type = "case"
  <2> DEFINE ff == parseFormFactor(says.ff)
             f == [form_factor |-> ff, max_cooler_height |-> Or(says, "tdp", 165),
                   supported_mb_form_factors |-> getSupportedFormFactors(ff),
                   supported_psu_form_factors |-> IF ff = "ITX" THEN <<"SFX">> ELSE <<"ATX", "SFX">>]
             g == Only(says, "room", "clearance_mm")
  <2>1. LiveAttributes(says, type) = Joined(f, g)
      BY <1>8 DEF LiveAttributes
  <2>2. DOMAIN f \cap {"sku", "price"} = {} /\ DOMAIN g \cap {"sku", "price"} = {}
      BY <1>2
  <2> HIDE DEF f, g
  <2>3. QED
      BY <1>1, <2>1, <2>2
<1>9. CASE type = "storage"
  <2>1. LiveAttributes(says, type) = <<>> /\ DOMAIN <<>> = {}
      BY <1>9 DEF LiveAttributes
  <2>2. QED
      BY <2>1
<1>10. CASE type = "gpu"
  <2> DEFINE f == [tdp |-> says.tdp]
             g == Only(says, "room", "clearance_mm")
  <2>1. LiveAttributes(says, type) = Joined(f, g)
      BY <1>10 DEF LiveAttributes
  <2>2. DOMAIN f \cap {"sku", "price"} = {} /\ DOMAIN g \cap {"sku", "price"} = {}
      BY <1>2
  <2> HIDE DEF f, g
  <2>3. QED
      BY <1>1, <2>1, <2>2
<1>11. QED
    BY <1>3, <1>4, <1>5, <1>6, <1>7, <1>8, <1>9, <1>10, TheTypes

\* What mapScrapedProduct makes of a product: nothing, or a component without a sku of the shop.
FromLive(c) == c.price \in Nat /\ Origin(c) = "live"

LEMMA ScrapedIsLive ==
    ASSUME NEW p \in Products, NEW type \in TypeNames
    PROVE  mapScrapedProduct(p, type) = <<>> \/ \E c : mapScrapedProduct(p, type) = <<c>> /\ FromLive(c)
<1> DEFINE f == LiveAttributes(p.specs, type)
           g == scrapedBase(p, type)
           c == Joined(f, g)
<1>1. \/ mapScrapedProduct(p, type) = <<>>
      \/ mapScrapedProduct(p, type) = <<c>> /\ Has(p.specs, "price")
    BY DEF mapScrapedProduct, Has
<1>2. "sku" \in DOMAIN g /\ "price" \in DOMAIN g /\ g.sku = "scraped" /\ g.price = p.specs.price
    BY DEF scrapedBase, Shared
<1>3. DOMAIN f \cap {"sku", "price"} = {}
    BY LiveKeys
<1> HIDE DEF f, g
<1>4. \A key \in DOMAIN g \ DOMAIN f : c[key] = g[key]
    BY JoinedDomain
<1>5. c.sku = "scraped" /\ c.price = p.specs.price
    BY <1>2, <1>3, <1>4
<1> HIDE DEF c
<1>6. Has(p.specs, "price") => FromLive(c)
    BY <1>5, ProductsAssumption DEF FromLive, Origin
<1>7. QED
    BY <1>1, <1>6

LEMMA AllScrapedIsLive ==
    ASSUME shop \in Shops, NEW type \in Kinds
    PROVE  Scraped(type) \in Seq(Range(Scraped(type))) /\ \A c \in Range(Scraped(type)) : FromLive(c)
<1> DEFINE found == FlattenSeq(shop[type])
           rs == [i \in DOMAIN found |-> mapScrapedProduct(found[i], type)]
           S == {c \in UNION {Range(rs[i]) : i \in DOMAIN found} : FromLive(c)}
           n == Len(found)
<1>1. found \in Seq(Products) /\ type \in TypeNames
    BY ShopsSell DEF Kinds
<1>2. Scraped(type) = FlattenSeq(rs)
    BY DEF Scraped
<1> HIDE DEF found
<1>3. n \in Nat /\ DOMAIN found = 1 .. n
    BY <1>1, LenProperties
<1>4. ASSUME NEW i \in 1 .. n PROVE rs[i] \in Seq(S)
  <2>1. found[i] \in Products
      BY <1>1, ElementOfSeq
  <2>2. rs[i] = mapScrapedProduct(found[i], type)
      BY <1>3
  <2> HIDE DEF rs
  <2>3. CASE rs[i] = <<>>
      BY <2>3, EmptySeq
  <2>4. CASE rs[i] # <<>>
    <3>1. PICK c : rs[i] = <<c>> /\ FromLive(c)
        BY <1>1, <2>1, <2>2, <2>4, ScrapedIsLive
    <3>2. DOMAIN rs[i] = {1} /\ rs[i][1] = c
        BY <3>1
    <3>3. c \in Range(rs[i])
        BY <3>2 DEF Range
    <3>4. c \in S
        BY <1>3, <3>1, <3>3
    <3> HIDE DEF S
    <3>5. QED
        BY <3>1, <3>4
  <2>5. QED
      BY <2>3, <2>4
<1>5. rs = [i \in 1 .. n |-> rs[i]]
    BY <1>3
<1>6. \A c \in S : FromLive(c)
    OBVIOUS
<1> HIDE DEF rs, S
<1>7. rs \in Seq(Seq(S))
    BY <1>3, <1>4, <1>5
<1>8. FlattenSeq(rs) \in Seq(S)
    BY <1>7, FlattenType
<1>9. FlattenSeq(rs) \in Seq(Range(FlattenSeq(rs))) /\ Range(FlattenSeq(rs)) \subseteq S
    BY <1>8, SeqOfRange, RangeOfSeq
<1>10. QED
    BY <1>2, <1>6, <1>9

-----------------------------------------------------------------------------
(* The searches *)

SearchFields == {"criteria", "left", "results", "errors", "sources"}

\* What a search has found comes of the sources it names.
FoundOK(s) ==
    /\ s = [f \in SearchFields |-> s[f]]
    /\ s.results \in Seq(Range(s.results))
    /\ \A c \in Range(s.results) : c.price \in Nat /\ Origin(c) \in s.sources
    /\ s.sources \subseteq {"live", "mock", "phongvu"} /\ (s.left = <<>> => s.sources # {})

\* With a scraper: every type taken was scraped or failed, the failed ones have local components.
LiveOK(s, targets) ==
    /\ s.left \in Seq(Range(targets)) /\ s.errors \subseteq Range(targets)
    /\ s.errors = {} <=> s.sources \subseteq {"live"}
    /\ "live" \notin s.sources => Range(targets) = s.errors \cup Range(s.left)

\* Without: what was found is what the cache still has of the types.
LocalOK(s, kept, targets) ==
    /\ s.left = <<>>
    /\ \A t \in Range(targets) : kept[t] # Unread
    /\ s.results = FlattenSeq([i \in DOMAIN targets |-> kept[targets[i]].components])

SearchOK(s, kept, m, targets) ==
    /\ FoundOK(s)
    /\ m = "live" => LiveOK(s, targets)
    /\ m # "live" => LocalOK(s, kept, targets)

\* The types that a search is about are those it is asked for, of those the shop has.
AnswerOK(s) == s.criteria \in Asks /\ SearchOK(s, cache, mode, targetTypes(s.criteria))

\* Inductive: the cache keeps what it has, and every search agrees with it or with the scraper.
AnswersInv ==
    /\ \A t \in Kinds : cache[t] = Unread \/ SliceOK(cache[t], t)
    /\ searches \in Seq(Range(searches))
    /\ \A s \in Range(searches) : AnswerOK(s)

\* What loadCatalogFile returns is kept, once it was read.
LEMMA SliceIsOK ==
    ASSUME ScriptInv, AnswersInv, NEW t \in Kinds
    PROVE  /\ SliceOK(loadCatalogFile(t), t) /\ loadCatalogFile(t) # Unread
           /\ cache[t] # Unread => loadCatalogFile(t) = cache[t]
<1>1. cache[t] = Unread \/ SliceOK(cache[t], t)
    BY DEF AnswersInv
<1>2. SliceOK(mockSlice(t), t)
    BY MockSliceIsOK
<1>3. SliceOK([source |-> "phongvu", components |-> files[t].components], t)
    BY FileSliceIsOK DEF ScriptInv
<1>4. SliceOK(loadCatalogFile(t), t)
    BY <1>1, <1>2, <1>3 DEF loadCatalogFile
<1>5. Unread.source = "unread"
    BY DEF Unread
<1>6. loadCatalogFile(t) # Unread
    BY <1>4, <1>5 DEF SliceOK
<1>7. cache[t] # Unread => loadCatalogFile(t) = cache[t]
    BY DEF loadCatalogFile
<1>8. QED
    BY <1>4, <1>6, <1>7

LEMMA TargetsAre ==
    ASSUME shop \in Shops, NEW criteria \in Asks
    PROVE  /\ targetTypes(criteria) \in Seq(Kinds) /\ Range(targetTypes(criteria)) \subseteq Kinds
           /\ targetTypes(criteria) # <<>>
<1>1. CASE Has(criteria, "type")
  <2>1. PICK t : t = criteria.type
      OBVIOUS
  <2>2. targetTypes(criteria) = <<t>> /\ t \in Kinds
      BY <1>1, <2>1 DEF targetTypes, Asks
  <2>3. DOMAIN <<t>> = {1} /\ <<t>>[1] = t
      OBVIOUS
  <2>4. <<t>> \in Seq(Kinds) /\ <<t>> # <<>>
      BY <2>2
  <2>5. Range(<<t>>) \subseteq Kinds
      BY <2>4, RangeOfSeq
  <2>6. QED
      BY <2>2, <2>4, <2>5
<1>2. CASE ~Has(criteria, "type")
  <2>1. targetTypes(criteria) = types
      BY <1>2 DEF targetTypes
  <2>2. QED
      BY <2>1, TypesAre
<1>3. QED
    BY <1>1, <1>2

LEMMA SameTargets ==
    ASSUME shop' = shop
    PROVE  /\ Kinds' = Kinds /\ Asks' = Asks /\ types' = types
           /\ \A criteria : targetTypes(criteria)' = targetTypes(criteria)
<1>1. Kinds' = Kinds
    BY DEF Kinds
<1>2. types' = types
    BY <1>1 DEF types
<1>3. QED
    BY <1>1, <1>2 DEF Asks, targetTypes

\* A search that is not answered anew stays as good when more is read.
LEMMA SearchStaysOK ==
    ASSUME NEW s, NEW kept, NEW kept2, NEW m, NEW targets, SearchOK(s, kept, m, targets),
           \A t \in Range(targets) : kept[t] # Unread => kept2[t] = kept[t]
    PROVE  SearchOK(s, kept2, m, targets)
<1>1. FoundOK(s) /\ (m = "live" => LiveOK(s, targets))
    BY DEF SearchOK
<1>2. ASSUME m # "live" PROVE LocalOK(s, kept2, targets)
  <2>1. LocalOK(s, kept, targets)
      BY <1>2 DEF SearchOK
  <2>2. \A t \in Range(targets) : kept2[t] = kept[t] /\ kept[t] # Unread
      BY <2>1 DEF LocalOK
  <2>3. \A i \in DOMAIN targets : kept2[targets[i]].components = kept[targets[i]].components
      BY <2>2 DEF Range
  <2>4. [i \in DOMAIN targets |-> kept2[targets[i]].components]
           = [i \in DOMAIN targets |-> kept[targets[i]].components]
      BY <2>3
  <2>5. QED
      BY <2>1, <2>2, <2>4 DEF LocalOK
<1>3. QED
    BY <1>1, <1>2 DEF SearchOK

LEMMA FirstAndRest ==
    ASSUME NEW S, NEW s \in Seq(S), s # <<>>
    PROVE  /\ s[1] \in S /\ Tail(s) \in Seq(S) /\ Range(s) = {s[1]} \cup Range(Tail(s))
<1>1. /\ Tail(s) \in Seq(S) /\ Len(Tail(s)) = Len(s) - 1
      /\ \A i \in 1 .. Len(Tail(s)) : Tail(s)[i] = s[i + 1]
    BY HeadTailProperties
<1>2. Len(s) \in Nat \ {0} /\ DOMAIN s = 1 .. Len(s) /\ DOMAIN Tail(s) = 1 .. Len(Tail(s))
    BY <1>1, LenProperties, EmptySeq
<1>3. s[1] \in S
    BY <1>2, ElementOfSeq
<1>4. PICK r : r = Tail(s)
    OBVIOUS
<1>5. /\ DOMAIN r = 1 .. Len(s) - 1 /\ \A i \in 1 .. Len(s) - 1 : r[i] = s[i + 1]
    BY <1>1, <1>2, <1>4
<1>6. Range(s) \subseteq {s[1]} \cup Range(r)
  <2>1. ASSUME NEW x \in Range(s) PROVE x \in {s[1]} \cup Range(r)
    <3>1. PICK i \in 1 .. Len(s) : s[i] = x
        BY <1>2 DEF Range
    <3>2. CASE i = 1
        BY <3>1, <3>2
    <3>3. CASE i # 1
      <4>1. i - 1 \in 1 .. Len(s) - 1 /\ i - 1 + 1 = i
          BY <1>2, <3>3
      <4>2. r[i - 1] = x /\ i - 1 \in DOMAIN r
          BY <1>5, <3>1, <4>1
      <4>3. QED
          BY <4>2 DEF Range
    <3>4. QED
        BY <3>2, <3>3
  <2>2. QED
      BY <2>1
<1>7. {s[1]} \cup Range(r) \subseteq Range(s)
  <2>1. s[1] \in Range(s)
      BY <1>2 DEF Range
  <2>2. ASSUME NEW x \in Range(r) PROVE x \in Range(s)
    <3>1. PICK i \in 1 .. Len(s) - 1 : r[i] = x
        BY <1>5 DEF Range
    <3>2. i + 1 \in 1 .. Len(s) /\ s[i + 1] = x
        BY <1>2, <1>5, <3>1
    <3>3. QED
        BY <1>2, <3>2 DEF Range
  <2>3. QED
      BY <2>1, <2>2
<1>8. QED
    BY <1>1, <1>3, <1>4, <1>6, <1>7

\* A turn of the loop with a scraper: the type was scraped, or it failed and is there locally.
LEMMA TurnIsOK ==
    ASSUME NEW s, NEW targets, FoundOK(s), LiveOK(s, targets), s.left # <<>>,
           NEW cs, NEW source \in {"live", "mock", "phongvu"}, NEW errors,
           cs \in Seq(Range(cs)), \A c \in Range(cs) : c.price \in Nat /\ Origin(c) = source,
           errors = IF source = "live" THEN {} ELSE {s.left[1]}
    PROVE  /\ FoundOK(Took(s, cs, source, errors)) /\ LiveOK(Took(s, cs, source, errors), targets)
           /\ Took(s, cs, source, errors).criteria = s.criteria
<1> DEFINE u == Took(s, cs, source, errors)
<1>1. s = [f \in SearchFields |-> s[f]]
    BY DEF FoundOK
<1>2. /\ u = [f \in SearchFields |-> u[f]]
      /\ u.criteria = s.criteria /\ u.left = Tail(s.left) /\ u.results = s.results \o cs
      /\ u.errors = s.errors \cup errors /\ u.sources = s.sources \cup {source}
    BY <1>1 DEF Took, SearchFields
<1> HIDE DEF u
<1>3. FoundOK(u)
  <2> DEFINE S == Range(s.results) \cup Range(cs)
  <2>1. /\ s.results \in Seq(Range(s.results))
        /\ \A c \in Range(s.results) : c.price \in Nat /\ Origin(c) \in s.sources
      BY DEF FoundOK
  <2>2. PICK a : a = s.results
      OBVIOUS
  <2>3. a \in Seq(S) /\ cs \in Seq(S)
      BY <2>1, <2>2, SeqMonotonic
  <2>4. PICK b : b = a \o cs
      OBVIOUS
  <2>5. u.results = b
      BY <1>2, <2>2, <2>4
  <2>6. b \in Seq(S) /\ Range(b) = Range(a) \cup Range(cs)
      BY <2>3, <2>4, ConcatProperties, RangeConcatenation
  <2>7. b \in Seq(Range(b))
      BY <2>6, SeqOfRange
  <2>8. \A c \in Range(b) : c.price \in Nat /\ Origin(c) \in u.sources
      BY <1>2, <2>1, <2>2, <2>6
  <2>9. u.sources # {} /\ u.sources \subseteq {"live", "mock", "phongvu"}
      BY <1>2 DEF FoundOK
  <2>10. QED
      BY <1>2, <2>5, <2>7, <2>8, <2>9 DEF FoundOK
<1>4. LiveOK(u, targets)
  <2>1. /\ s.left \in Seq(Range(targets)) /\ s.errors \subseteq Range(targets)
        /\ s.errors = {} <=> s.sources \subseteq {"live"}
        /\ "live" \notin s.sources => Range(targets) = s.errors \cup Range(s.left)
      BY DEF LiveOK
  <2>2. /\ s.left[1] \in Range(targets) /\ Tail(s.left) \in Seq(Range(targets))
        /\ Range(s.left) = {s.left[1]} \cup Range(Tail(s.left))
      BY <2>1, FirstAndRest
  <2>3. CASE source = "live"
    <3>1. errors = {} /\ u.errors = s.errors /\ "live" \in u.sources
        BY <1>2, <2>3
    <3>2. u.sources \subseteq {"live"} <=> s.sources \subseteq {"live"}
        BY <1>2, <2>3
    <3>3. QED
        BY <1>2, <2>1, <2>2, <3>1, <3>2 DEF LiveOK
  <2>4. CASE source # "live"
    <3>1. u.errors = s.errors \cup {s.left[1]} /\ ~(u.sources \subseteq {"live"})
        BY <1>2, <2>4
    <3>2. "live" \notin u.sources => Range(targets) = u.errors \cup Range(u.left)
        BY <1>2, <2>1, <2>2, <3>1
    <3>3. QED
        BY <1>2, <2>1, <2>2, <3>1, <3>2 DEF LiveOK
  <2>5. QED
      BY <2>3, <2>4
<1>5. QED
    BY <1>2, <1>3, <1>4 DEF u

\* The slices of some types, and what all of them hold.
Slices(some) == [i \in DOMAIN some |-> loadCatalogFile(some[i]).components]
Stock(some) == UNION {Range(loadCatalogFile(some[i]).components) : i \in DOMAIN some}

LEMMA LoadedIs ==
    ASSUME ScriptInv, AnswersInv, NEW some \in Seq(Kinds)
    PROVE  /\ Slices(some) \in Seq(Seq(Stock(some))) /\ Len(Slices(some)) = Len(some)
           /\ \A i \in 1 .. Len(some) : Slices(some)[i] = loadCatalogFile(some[i]).components
           /\ Loaded(some) = FlattenSeq(Slices(some)) /\ Range(Loaded(some)) = Stock(some)
           /\ Loaded(some) \in Seq(Stock(some))
           /\ \A c \in Stock(some) :
                 c.price \in Nat /\ \E t \in Range(some) : Origin(c) = loadCatalogFile(t).source
<1> DEFINE S == Stock(some)
           ss == Slices(some)
           n == Len(some)
<1>1. n \in Nat /\ DOMAIN some = 1 .. n /\ \A i \in 1 .. n : some[i] \in Kinds
    BY LenProperties, ElementOfSeq
<1> HIDE DEF n
<1>2. Loaded(some) = FlattenSeq(ss)
    BY DEF Loaded, Slices
<1>3. ss = [i \in 1 .. n |-> ss[i]] /\ \A i \in 1 .. n : ss[i] = loadCatalogFile(some[i]).components
    BY <1>1 DEF Slices
<1>4. ASSUME NEW i \in 1 .. n
      PROVE  /\ ss[i] \in Seq(S) /\ Range(ss[i]) \subseteq S
             /\ \A c \in Range(ss[i]) : c.price \in Nat /\ Origin(c) = loadCatalogFile(some[i]).source
  <2>1. SliceOK(loadCatalogFile(some[i]), some[i])
      BY <1>1, SliceIsOK
  <2>2. /\ ss[i] \in Seq(Range(ss[i]))
        /\ \A c \in Range(ss[i]) : c.price \in Nat /\ Origin(c) = loadCatalogFile(some[i]).source
      BY <1>3, <2>1 DEF SliceOK
  <2>3. Range(ss[i]) \subseteq S
      BY <1>1, <1>3 DEF Stock
  <2> HIDE DEF S, ss
  <2>4. ss[i] \in Seq(S)
      BY <2>2, <2>3, SeqMonotonic
  <2>5. QED
      BY <2>2, <2>3, <2>4
<1>5. S = UNION {Range(ss[i]) : i \in 1 .. n}
    BY <1>1, <1>3 DEF Stock
<1>6. ASSUME NEW c \in S
      PROVE  c.price \in Nat /\ \E t \in Range(some) : Origin(c) = loadCatalogFile(t).source
  <2>1. PICK i \in 1 .. n : c \in Range(ss[i])
      BY <1>5
  <2>2. some[i] \in Range(some)
      BY <1>1 DEF Range
  <2>3. QED
      BY <1>4, <2>1, <2>2
<1> HIDE DEF S, ss
<1>7. ss \in Seq(Seq(S)) /\ Len(ss) = n
    BY <1>1, <1>3, <1>4
<1>8. FlattenSeq(ss) \in Seq(S) /\ Range(FlattenSeq(ss)) = UNION {Range(ss[i]) : i \in 1 .. n}
    BY <1>7, FlattenType, FlattenRange
<1>9. QED
    BY <1>2, <1>3, <1>5, <1>6, <1>7, <1>8 DEF S, ss, n

\* A search without a scraper finds what the cache then has.
LEMMA LocalIsOK ==
    ASSUME ScriptInv, AnswersInv, NEW criteria \in Asks, SearchLocal(criteria)
    PROVE  \E s : /\ searches' = Append(searches, s) /\ s.criteria = criteria
                  /\ FoundOK(s) /\ LocalOK(s, cache', targetTypes(criteria))
<1> DEFINE targets == targetTypes(criteria)
           s == [Asked(criteria) EXCEPT !.left = <<>>, !.results = Loaded(targets),
                                        !.sources = {loadCatalogFile(t).source : t \in Range(targets)}]
<1>1. /\ searches' = Append(searches, s)
      /\ cache' = [t \in Kinds |-> IF t \in Range(targets) THEN loadCatalogFile(t) ELSE cache[t]]
    BY DEF SearchLocal
<1>2. /\ s = [f \in SearchFields |-> s[f]] /\ s.criteria = criteria /\ s.left = <<>>
      /\ s.results = Loaded(targets) /\ s.sources = {loadCatalogFile(t).source : t \in Range(targets)}
    BY DEF Asked, SearchFields
<1>3. shop \in Shops
    BY DEF ScriptInv
<1>4. targets \in Seq(Kinds) /\ Range(targets) \subseteq Kinds /\ targets # <<>>
    BY <1>3, TargetsAre
<1> HIDE DEF s, targets
<1>5. /\ Loaded(targets) = FlattenSeq(Slices(targets)) /\ Range(Loaded(targets)) = Stock(targets)
      /\ Loaded(targets) \in Seq(Stock(targets))
      /\ \A c \in Stock(targets) :
            c.price \in Nat /\ \E t \in Range(targets) : Origin(c) = loadCatalogFile(t).source
    BY <1>4, LoadedIs
<1>6. s.sources # {} /\ s.sources \subseteq {"live", "mock", "phongvu"}
  <2>1. 1 \in DOMAIN targets
      BY <1>4, LenProperties, EmptySeq
  <2>2. targets[1] \in Range(targets)
      BY <2>1 DEF Range
  <2>3. \A t \in Range(targets) : loadCatalogFile(t).source \in {"mock", "phongvu"}
    <3>1. \A t \in Range(targets) : SliceOK(loadCatalogFile(t), t)
        BY <1>4, SliceIsOK
    <3>2. QED
        BY <3>1 DEF SliceOK
  <2>4. QED
      BY <1>2, <2>2, <2>3
<1>7. FoundOK(s)
  <2>1. s.results \in Seq(Range(s.results))
      BY <1>2, <1>5
  <2>2. \A c \in Range(s.results) : c.price \in Nat /\ Origin(c) \in s.sources
      BY <1>2, <1>5
  <2>3. QED
      BY <1>2, <1>6, <2>1, <2>2 DEF FoundOK
<1>8. \A t \in Range(targets) : cache'[t] = loadCatalogFile(t) /\ cache'[t] # Unread
  <2>1. \A t \in Range(targets) : cache'[t] = loadCatalogFile(t)
      BY <1>1, <1>4
  <2>2. \A t \in Range(targets) : loadCatalogFile(t) # Unread
      BY <1>4, SliceIsOK
  <2>3. QED
      BY <2>1, <2>2
<1>9. Slices(targets) = [i \in DOMAIN targets |-> cache'[targets[i]].components]
  <2>1. \A i \in DOMAIN targets : targets[i] \in Range(targets)
      BY DEF Range
  <2>2. \A i \in DOMAIN targets : cache'[targets[i]] = loadCatalogFile(targets[i])
      BY <1>8, <2>1
  <2>3. QED
      BY <2>2 DEF Slices
<1>10. LocalOK(s, cache', targets)
    BY <1>2, <1>5, <1>8, <1>9 DEF LocalOK
<1>11. QED
    BY <1>1, <1>2, <1>7, <1>10 DEF targets

\* With a scraper nothing is found yet, and all types are to come.
LEMMA AskedIsOK ==
    ASSUME shop \in Shops, NEW criteria \in Asks
    PROVE  /\ FoundOK(Asked(criteria)) /\ LiveOK(Asked(criteria), targetTypes(criteria))
           /\ Asked(criteria).criteria = criteria
<1> DEFINE s == Asked(criteria)
           targets == targetTypes(criteria)
<1>1. /\ s = [f \in SearchFields |-> s[f]]
      /\ s.criteria = criteria /\ s.left = targets /\ s.results = <<>> /\ s.errors = {} /\ s.sources = {}
    BY DEF Asked, SearchFields
<1>2. targets \in Seq(Kinds) /\ targets # <<>>
    BY TargetsAre
<1> HIDE DEF s, targets
<1>3. targets \in Seq(Range(targets))
    BY <1>2, SeqOfRange
<1>4. <<>> \in Seq(Range(<<>>)) /\ Range(<<>>) = {}
    BY EmptySeq DEF Range
<1>5. FoundOK(s)
    BY <1>1, <1>2, <1>4 DEF FoundOK
<1>6. LiveOK(s, targets)
    BY <1>1, <1>3 DEF LiveOK
<1>7. QED
    BY <1>1, <1>5, <1>6 DEF s, targets

LEMMA InitAnswers == Init => AnswersInv
<1> SUFFICES ASSUME Init PROVE AnswersInv
    OBVIOUS
<1>1. cache = [t \in Kinds |-> Unread] /\ searches = <<>>
    BY DEF Init
<1>2. \A t \in Kinds : cache[t] = Unread
    BY <1>1
<1>3. searches \in Seq(Range(searches)) /\ Range(searches) = {}
  <2>1. Range(<<>>) = {}
      BY DEF Range
  <2>2. QED
      BY <1>1, <2>1, EmptySeq
<1>4. QED
    BY <1>2, <1>3 DEF AnswersInv

\* What is read is kept.
LEMMA CacheGrows ==
    ASSUME ScriptInv, ServerInv, AnswersInv, [Next]_vars, ~Restart
    PROVE  /\ \A t \in Kinds : cache'[t] \in {cache[t], loadCatalogFile(t)}
           /\ \A t \in Kinds : cache[t] # Unread => cache'[t] = cache[t]
           /\ \A t \in Kinds : cache'[t] = Unread \/ SliceOK(cache'[t], t)
           /\ shop' = shop /\ mode' = mode
<1>1. cache = [t \in Kinds |-> cache[t]]
    BY DEF ServerInv
<1>2. shop' = shop /\ mode' = mode /\ \A t \in Kinds : cache'[t] \in {cache[t], loadCatalogFile(t)}
  <2>1. CASE StartFetch
      BY <2>1 DEF StartFetch, serverVars
  <2>2. CASE PageArrives
      BY <2>2 DEF PageArrives, serverVars
  <2>3. CASE PageFails
      BY <2>3 DEF PageFails, serverVars
  <2>4. CASE Truncate
      BY <2>4 DEF Truncate, serverVars
  <2>5. CASE Write
      BY <2>5 DEF Write, serverVars
  <2>6. CASE Interrupted
      BY <2>6 DEF Interrupted, serverVars
  <2>7. CASE \E i \in job.running, ok \in BOOLEAN : DetailEnds(i, ok)
      BY <2>7 DEF DetailEnds, serverVars
  <2>8. ASSUME NEW criteria \in Asks, SearchLocal(criteria)
        PROVE  shop' = shop /\ mode' = mode /\ \A t \in Kinds : cache'[t] \in {cache[t], loadCatalogFile(t)}
    <3>1. cache' = [t \in Kinds |-> IF t \in Range(targetTypes(criteria)) THEN loadCatalogFile(t) ELSE cache[t]]
        BY <2>8 DEF SearchLocal
    <3>2. shop' = shop /\ mode' = mode
        BY <2>8 DEF SearchLocal
    <3>3. QED
        BY <3>1, <3>2
  <2>9. ASSUME NEW criteria \in Asks, SearchLive(criteria)
        PROVE  shop' = shop /\ mode' = mode /\ cache' = cache
      BY <2>9 DEF SearchLive
  <2>10. ASSUME NEW n \in Open, NEW result \in fetchType, FetchEnds(n, result)
         PROVE  shop' = shop /\ mode' = mode /\ \A t \in Kinds : cache'[t] \in {cache[t], loadCatalogFile(t)}
    <3>1. PICK k : /\ shop' = shop /\ mode' = mode
                   /\ cache' = cache \/ cache' = [cache EXCEPT ![k] = loadCatalogFile(k)]
        BY <2>10 DEF FetchEnds
    <3>2. ASSUME NEW t \in Kinds PROVE cache'[t] = cache[t] \/ (k = t /\ cache'[t] = loadCatalogFile(t))
        BY <1>1, <3>1
    <3>3. QED
        BY <3>1, <3>2
  <2>11. CASE UNCHANGED vars
      BY <2>11 DEF vars, serverVars
  <2>12. QED
      BY <2>1, <2>2, <2>3, <2>4, <2>5, <2>6, <2>7, <2>8, <2>9, <2>10, <2>11 DEF Next
<1>3. ASSUME NEW t \in Kinds
      PROVE  /\ cache[t] # Unread => cache'[t] = cache[t]
             /\ cache'[t] = Unread \/ SliceOK(cache'[t], t)
  <2>1. /\ SliceOK(loadCatalogFile(t), t)
        /\ cache[t] # Unread => loadCatalogFile(t) = cache[t]
      BY SliceIsOK
  <2>2. cache[t] = Unread \/ SliceOK(cache[t], t)
      BY DEF AnswersInv
  <2>3. cache'[t] = cache[t] \/ cache'[t] = loadCatalogFile(t)
      BY <1>2
  <2>4. CASE cache'[t] = cache[t]
      BY <2>2, <2>4
  <2>5. CASE cache'[t] = loadCatalogFile(t)
      BY <2>1, <2>5
  <2>6. QED
      BY <2>3, <2>4, <2>5
<1>4. QED
    BY <1>2, <1>3

\* The searches there were stay as good, whatever is read.
LEMMA SearchesStayOK ==
    ASSUME ScriptInv, ServerInv, AnswersInv, [Next]_vars, ~Restart, NEW s \in Range(searches)
    PROVE  AnswerOK(s)'
<1>1. /\ shop' = shop /\ mode' = mode
      /\ \A t \in Kinds : cache[t] # Unread => cache'[t] = cache[t]
    BY CacheGrows
<1>2. s.criteria \in Asks /\ SearchOK(s, cache, mode, targetTypes(s.criteria))
    BY DEF AnswersInv, AnswerOK
<1>3. Range(targetTypes(s.criteria)) \subseteq Kinds
    BY <1>2, TargetsAre DEF ScriptInv
<1>4. \A t \in Range(targetTypes(s.criteria)) : cache[t] # Unread => cache'[t] = cache[t]
    BY <1>1, <1>3
<1>5. SearchOK(s, cache', mode, targetTypes(s.criteria))
    BY <1>2, <1>4, SearchStaysOK
<1>6. Asks' = Asks /\ targetTypes(s.criteria)' = targetTypes(s.criteria)
    BY <1>1, SameTargets
<1>7. QED
    BY <1>1, <1>2, <1>5, <1>6 DEF AnswerOK

\* A step that changes one search at most.
LEMMA OneSearchChanges ==
    ASSUME ScriptInv, ServerInv, AnswersInv, [Next]_vars, ~Restart,
           searches' \in Seq(Range(searches')), NEW s, AnswerOK(s)', Range(searches') \subseteq Range(searches) \cup {s}
    PROVE  AnswersInv'
<1>1. shop' = shop /\ \A t \in Kinds : cache'[t] = Unread \/ SliceOK(cache'[t], t)
    BY CacheGrows
<1>2. Kinds' = Kinds
    BY <1>1, SameTargets
<1>3. \A t \in Kinds' : cache'[t] = Unread \/ SliceOK(cache'[t], t)
    BY <1>1, <1>2
<1>4. \A v \in Range(searches) : AnswerOK(v)'
    BY SearchesStayOK
<1>5. \A v \in Range(searches') : AnswerOK(v)'
    BY <1>4
<1>6. QED
    BY <1>3, <1>5 DEF AnswersInv

LEMMA NoSearchChanges ==
    ASSUME ScriptInv, ServerInv, AnswersInv, [Next]_vars, ~Restart, searches' = searches
    PROVE  AnswersInv'
<1>1. shop' = shop /\ \A t \in Kinds : cache'[t] = Unread \/ SliceOK(cache'[t], t)
    BY CacheGrows
<1>2. Kinds' = Kinds
    BY <1>1, SameTargets
<1>3. \A t \in Kinds' : cache'[t] = Unread \/ SliceOK(cache'[t], t)
    BY <1>1, <1>2
<1>4. \A v \in Range(searches) : AnswerOK(v)'
    BY SearchesStayOK
<1>5. \A v \in Range(searches') : AnswerOK(v)'
    BY <1>4
<1>6. searches' \in Seq(Range(searches'))
    BY DEF AnswersInv
<1>7. QED
    BY <1>3, <1>5, <1>6 DEF AnswersInv

LEMMA AppendRange ==
    ASSUME NEW q, q \in Seq(Range(q)), NEW s
    PROVE  Append(q, s) \in Seq(Range(Append(q, s))) /\ Range(Append(q, s)) \subseteq Range(q) \cup {s}
<1> DEFINE S == Range(q) \cup {s}
<1>1. q \in Seq(S) /\ s \in S
    BY SeqMonotonic
<1>2. Append(q, s) \in Seq(S)
    BY <1>1, AppendProperties
<1>3. QED
    BY <1>2, SeqOfRange, RangeOfSeq

LEMMA ExceptRange ==
    ASSUME NEW q, q \in Seq(Range(q)), NEW n \in DOMAIN q, NEW s
    PROVE  /\ [q EXCEPT ![n] = s] \in Seq(Range([q EXCEPT ![n] = s]))
           /\ Range([q EXCEPT ![n] = s]) \subseteq Range(q) \cup {s}
<1> DEFINE S == Range(q) \cup {s}
<1>1. q \in Seq(S) /\ s \in S
    BY SeqMonotonic
<1>2. n \in 1 .. Len(q)
    BY LenProperties
<1> HIDE DEF S
<1>3. [q EXCEPT ![n] = s] \in Seq(S)
    BY <1>1, <1>2, ExceptSeq
<1>4. Range([q EXCEPT ![n] = s]) \subseteq S
    BY <1>3, RangeOfSeq
<1>5. QED
    BY <1>3, <1>4, SeqOfRange DEF S

\* The end of a scraper's run, with data or without.
LEMMA FetchEndsIsOK ==
    ASSUME ScriptInv, ServerInv, AnswersInv, [Next]_vars, ~Restart,
           NEW n \in Open, NEW result \in fetchType, FetchEnds(n, result)
    PROVE  AnswersInv'
<1>1. PICK s : s = searches[n]
    OBVIOUS
<1>2. PICK first : first = s.left[1]
    OBVIOUS
<1>3. PICK live : live = IF result = "data" THEN Scraped(first) ELSE <<>>
    OBVIOUS
<1>4. PICK slice : slice = loadCatalogFile(first)
    OBVIOUS
<1>5. n \in DOMAIN searches /\ s.left # <<>> /\ s \in Range(searches)
    BY <1>1 DEF Open, Range
<1> DEFINE u == IF live # <<>> THEN Took(s, live, "live", {})
                ELSE Took(s, slice.components, slice.source, {first})
<1>6. searches' = [searches EXCEPT ![n] = u]
    BY <1>1, <1>2, <1>3, <1>4 DEF FetchEnds, TakeLocal
<1>7. s.criteria \in Asks /\ SearchOK(s, cache, mode, targetTypes(s.criteria))
    BY <1>5 DEF AnswersInv, AnswerOK
<1>8. PICK targets : targets = targetTypes(s.criteria)
    OBVIOUS
<1>9. mode = "live" /\ FoundOK(s) /\ LiveOK(s, targets)
  <2>1. mode = "live"
      BY <1>5, <1>7 DEF SearchOK, LocalOK
  <2>2. QED
      BY <1>7, <1>8, <2>1 DEF SearchOK
<1>10. shop \in Shops /\ first \in Kinds
  <2>1. shop \in Shops
      BY DEF ScriptInv
  <2>2. s.left \in Seq(Range(targets))
      BY <1>9 DEF LiveOK
  <2>3. first \in Range(targets)
      BY <1>2, <1>5, <2>2, FirstAndRest
  <2>4. Range(targets) \subseteq Kinds
      BY <1>7, <1>8, <2>1, TargetsAre
  <2>5. QED
      BY <2>1, <2>3, <2>4
<1>11. FoundOK(u) /\ LiveOK(u, targets) /\ u.criteria = s.criteria
  <2>1. CASE live # <<>>
    <3>1. u = Took(s, live, "live", {})
        BY <2>1
    <3>2. live = Scraped(first)
        BY <1>3, <2>1
    <3>3. live \in Seq(Range(live)) /\ \A c \in Range(live) : c.price \in Nat /\ Origin(c) = "live"
        BY <1>10, <3>2, AllScrapedIsLive DEF FromLive
    <3> HIDE DEF u
    <3>4. PICK source : source = "live"
        OBVIOUS
    <3>5. PICK none : none = {}
        OBVIOUS
    <3>6. u = Took(s, live, source, none)
        BY <3>1, <3>4, <3>5
    <3>7. /\ source \in {"live", "mock", "phongvu"} /\ none = IF source = "live" THEN {} ELSE {s.left[1]}
          /\ live \in Seq(Range(live)) /\ \A c \in Range(live) : c.price \in Nat /\ Origin(c) = source
        BY <3>3, <3>4, <3>5
    <3>8. /\ FoundOK(Took(s, live, source, none)) /\ LiveOK(Took(s, live, source, none), targets)
          /\ Took(s, live, source, none).criteria = s.criteria
        BY <1>5, <1>9, <3>7, TurnIsOK
    <3>9. QED
        BY <3>6, <3>8
  <2>2. CASE live = <<>>
    <3>1. u = Took(s, slice.components, slice.source, {first})
        BY <2>2
    <3>2. SliceOK(slice, first)
        BY <1>4, <1>10, SliceIsOK
    <3>3. PICK cs : cs = slice.components
        OBVIOUS
    <3>4. PICK source : source = slice.source
        OBVIOUS
    <3>5. /\ cs \in Seq(Range(cs)) /\ source \in {"live", "mock", "phongvu"} /\ source # "live"
          /\ \A c \in Range(cs) : c.price \in Nat /\ Origin(c) = source
        BY <3>2, <3>3, <3>4 DEF SliceOK
    <3>6. PICK failed : failed = {first}
        OBVIOUS
    <3>7. failed = IF source = "live" THEN {} ELSE {s.left[1]}
        BY <1>2, <3>5, <3>6
    <3>8. u = Took(s, cs, source, failed)
        BY <3>1, <3>3, <3>4, <3>6
    <3> HIDE DEF u
    <3>9. /\ FoundOK(Took(s, cs, source, failed)) /\ LiveOK(Took(s, cs, source, failed), targets)
          /\ Took(s, cs, source, failed).criteria = s.criteria
        BY <1>5, <1>9, <3>5, <3>7, TurnIsOK
    <3>10. QED
        BY <3>8, <3>9
  <2>3. QED
      BY <2>1, <2>2
<1>12. PICK v : v = u
    OBVIOUS
<1>13. shop' = shop /\ mode' = mode
    BY CacheGrows
<1>14. Asks' = Asks /\ targetTypes(v.criteria)' = targetTypes(v.criteria)
    BY <1>13, SameTargets
<1> HIDE DEF u
<1>15. AnswerOK(v)'
  <2>1. v.criteria = s.criteria /\ FoundOK(v) /\ LiveOK(v, targets)
      BY <1>11, <1>12
  <2>2. targetTypes(v.criteria) = targets
      BY <1>8, <2>1
  <2>3. mode' = "live"
      BY <1>9, <1>13
  <2>4. SearchOK(v, cache', mode', targets)
      BY <2>1, <2>3 DEF SearchOK
  <2>5. QED
      BY <1>7, <1>14, <2>1, <2>2, <2>4 DEF AnswerOK
<1>16. /\ searches' \in Seq(Range(searches'))
       /\ Range(searches') \subseteq Range(searches) \cup {v}
  <2>1. searches \in Seq(Range(searches))
      BY DEF AnswersInv
  <2>2. QED
      BY <1>5, <1>6, <1>12, <2>1, ExceptRange
<1>17. QED
    BY <1>15, <1>16, OneSearchChanges

\* A search that begins.
LEMMA AsksIsOK ==
    ASSUME ScriptInv, ServerInv, AnswersInv, [Next]_vars, ~Restart,
           NEW criteria \in Asks, SearchLocal(criteria) \/ SearchLive(criteria)
    PROVE  AnswersInv'
<1>1. shop' = shop /\ mode' = mode
    BY CacheGrows
<1>2. Asks' = Asks /\ targetTypes(criteria)' = targetTypes(criteria)
    BY <1>1, SameTargets
<1>3. PICK s : /\ searches' = Append(searches, s) /\ s.criteria = criteria
               /\ SearchOK(s, cache', mode', targetTypes(criteria))
  <2>1. CASE SearchLocal(criteria)
    <3>1. PICK s : /\ searches' = Append(searches, s) /\ s.criteria = criteria
                   /\ FoundOK(s) /\ LocalOK(s, cache', targetTypes(criteria))
        BY <2>1, LocalIsOK
    <3>2. mode' # "live"
        BY <1>1, <2>1 DEF SearchLocal
    <3>3. SearchOK(s, cache', mode', targetTypes(criteria))
        BY <3>1, <3>2 DEF SearchOK
    <3>4. QED
        BY <3>1, <3>3
  <2>2. CASE SearchLive(criteria)
    <3>1. PICK s : s = Asked(criteria)
        OBVIOUS
    <3>2. searches' = Append(searches, s) /\ mode' = "live"
        BY <1>1, <2>2, <3>1 DEF SearchLive
    <3>3. shop \in Shops
        BY DEF ScriptInv
    <3>4. FoundOK(s) /\ LiveOK(s, targetTypes(criteria)) /\ s.criteria = criteria
        BY <3>1, <3>3, AskedIsOK
    <3>5. SearchOK(s, cache', mode', targetTypes(criteria))
        BY <3>2, <3>4 DEF SearchOK
    <3>6. QED
        BY <3>2, <3>4, <3>5
  <2>3. QED
      BY <2>1, <2>2
<1>4. AnswerOK(s)'
    BY <1>2, <1>3 DEF AnswerOK
<1>5. /\ searches' \in Seq(Range(searches'))
      /\ Range(searches') \subseteq Range(searches) \cup {s}
  <2>1. searches \in Seq(Range(searches))
      BY DEF AnswersInv
  <2>2. QED
      BY <1>3, <2>1, AppendRange
<1>6. QED
    BY <1>4, <1>5, OneSearchChanges

LEMMA NextAnswers == ScriptInv /\ ServerInv /\ AnswersInv /\ [Next]_vars => AnswersInv'
<1> SUFFICES ASSUME ScriptInv, ServerInv, AnswersInv, [Next]_vars PROVE AnswersInv'
    OBVIOUS
<1>1. CASE Restart
  <2>1. shop' = shop /\ cache' = [t \in Kinds |-> Unread] /\ searches' = <<>>
      BY <1>1 DEF Restart
  <2>2. Kinds' = Kinds
      BY <2>1, SameTargets
  <2>3. \A t \in Kinds' : cache'[t] = Unread
      BY <2>1, <2>2
  <2>4. searches' \in Seq(Range(searches')) /\ Range(searches') = {}
    <3>1. Range(<<>>) = {}
        BY DEF Range
    <3>2. QED
        BY <2>1, <3>1, EmptySeq
  <2>5. QED
      BY <2>3, <2>4 DEF AnswersInv
<1>2. CASE ~Restart
  <2>1. CASE searches' = searches
      BY <1>2, <2>1, NoSearchChanges
  <2>2. CASE \E criteria \in Asks : SearchLocal(criteria) \/ SearchLive(criteria)
      BY <1>2, <2>2, AsksIsOK
  <2>3. CASE \E n \in Open, result \in fetchType : FetchEnds(n, result)
      BY <1>2, <2>3, FetchEndsIsOK
  <2>4. ASSUME StartFetch \/ PageArrives \/ PageFails \/ Truncate \/ Write \/ Interrupted
        PROVE  searches' = searches
      BY <2>4 DEF StartFetch, PageArrives, PageFails, Truncate, Write, Interrupted, serverVars
  <2>5. ASSUME NEW i \in job.running, NEW ok \in BOOLEAN, DetailEnds(i, ok)
        PROVE  searches' = searches
      BY <2>5 DEF DetailEnds, serverVars
  <2>6. ASSUME UNCHANGED vars PROVE searches' = searches
      BY <2>6 DEF vars, serverVars
  <2>7. QED
      BY <1>2, <2>1, <2>2, <2>3, <2>4, <2>5, <2>6 DEF Next
<1>3. QED
    BY <1>1, <1>2

LEMMA ServerInvariant == Spec => []ServerInv
<1>1. Init => ServerInv
    BY InitServer
<1>2. ServerInv /\ [Next]_vars => ServerInv'
    BY NextServer
<1>3. QED
    BY <1>1, <1>2, PTL DEF Spec

LEMMA AnswersInvariant == Spec => []AnswersInv
<1>1. Init => AnswersInv
    BY InitAnswers
<1>2. ScriptInv /\ ServerInv /\ AnswersInv /\ [Next]_vars => AnswersInv'
    BY NextAnswers
<1>3. QED
    BY <1>1, <1>2, ScriptInvariant, ServerInvariant, PTL DEF Spec

\* What an answer is called: its source, when it has one, else "mixed".
LEMMA LabelIs ==
    ASSUME NEW sources, sources \subseteq {"live", "mock", "phongvu"}, sources # {}
    PROVE  \/ resolvedSource(sources) = "mixed"
           \/ sources = {resolvedSource(sources)}
<1>1. CASE \E x : sources = {x}
  <2>1. PICK x : sources = {x}
      BY <1>1
  <2>2. Cardinality(sources) = 1
      BY <2>1, FS_Singleton
  <2>3. (CHOOSE y \in sources : TRUE) = x
      BY <2>1
  <2>4. resolvedSource(sources) = x
      BY <2>1, <2>2, <2>3 DEF resolvedSource
  <2>5. QED
      BY <2>1, <2>4
<1>2. CASE ~\E x : sources = {x}
  <2>1. IsFiniteSet({"live", "mock", "phongvu"})
    <3>1. IsFiniteSet({}) /\ IsFiniteSet({"live"})
        BY FS_EmptySet, FS_Singleton
    <3>2. IsFiniteSet({"live"} \cup {"mock"})
        BY <3>1, FS_AddElement
    <3>3. IsFiniteSet(({"live"} \cup {"mock"}) \cup {"phongvu"})
        BY <3>2, FS_AddElement
    <3>4. ({"live"} \cup {"mock"}) \cup {"phongvu"} = {"live", "mock", "phongvu"}
        OBVIOUS
    <3>5. QED
        BY <3>3, <3>4
  <2>2. IsFiniteSet(sources)
      BY <2>1, FS_Subset
  <2>3. Cardinality(sources) # 1
      BY <1>2, <2>2, FS_Singleton
  <2>4. QED
      BY <2>3 DEF resolvedSource
<1>3. QED
    BY <1>1, <1>2

\* A search with one source is called after it.
LEMMA OneSource == ASSUME NEW x PROVE resolvedSource({x}) = x
<1>1. Cardinality({x}) = 1 /\ {x} # {}
    BY FS_Singleton
<1>2. (CHOOSE y \in {x} : TRUE) = x
    OBVIOUS
<1>3. QED
    BY <1>1, <1>2 DEF resolvedSource

\* One sequence in a sequence of its own.
LEMMA FlattenOne == ASSUME NEW S, NEW s \in Seq(S) PROVE FlattenSeq(<<s>>) = s
<1>1. <<>> \in Seq(Seq(S))
    BY EmptySeq
<1>2. FlattenSeq(Append(<<>>, s)) = FlattenSeq(<<>>) \o s
    BY <1>1, FlattenStep
<1>3. Append(<<>>, s) = <<s>>
    OBVIOUS
<1>4. <<>> \o s = s
    BY ConcatEmptySeq
<1>5. QED
    BY <1>2, <1>3, <1>4, FlattenEmpty

\* The components of one type, of the slices of all types, are those of its slice.
LEMMA SliceOfAll ==
    ASSUME ScriptInv, AnswersInv, NEW t \in Kinds
    PROVE  Among(Loaded(types), {c \in Range(Loaded(types)) : c.type = t}) = loadCatalogFile(t).components
<1> DEFINE T == {c \in Range(Loaded(types)) : c.type = t}
           S == Stock(types)
           ss == Slices(types)
<1>1. /\ types \in Seq(Kinds) /\ Range(types) = Kinds
      /\ \A i, j \in 1 .. Len(types) : types[i] = types[j] => i = j
    BY TypesAre DEF ScriptInv
<1>2. DOMAIN types = 1 .. Len(types) /\ \A i \in 1 .. Len(types) : types[i] \in Kinds
    BY <1>1, LenProperties, ElementOfSeq
<1>3. /\ ss \in Seq(Seq(S)) /\ Len(ss) = Len(types)
      /\ \A i \in 1 .. Len(types) : ss[i] = loadCatalogFile(types[i]).components
      /\ Loaded(types) = FlattenSeq(ss) /\ Range(Loaded(types)) = S
    BY <1>1, LoadedIs
<1>4. PICK k \in 1 .. Len(types) : types[k] = t
    BY <1>1, <1>2 DEF Range
<1> HIDE DEF S, ss
<1>5. \A i \in 1 .. Len(types) : \A c \in Range(ss[i]) : c.type = types[i]
  <2>1. ASSUME NEW i \in 1 .. Len(types) PROVE \A c \in Range(ss[i]) : c.type = types[i]
    <3>1. SliceOK(loadCatalogFile(types[i]), types[i])
        BY <1>2, SliceIsOK
    <3>2. QED
        BY <1>3, <3>1 DEF SliceOK
  <2>2. QED
      BY <2>1
<1>6. Range(ss[k]) \subseteq T
  <2>1. S = UNION {Range(ss[i]) : i \in 1 .. Len(ss)}
      BY <1>3, FlattenRange
  <2>2. Range(ss[k]) \subseteq S
      BY <1>3, <1>4, <2>1
  <2>3. \A c \in Range(ss[k]) : c.type = t
      BY <1>4, <1>5
  <2>4. QED
      BY <1>3, <2>2, <2>3
<1>7. \A i \in 1 .. Len(ss) : i # k => Range(ss[i]) \cap T = {}
  <2>1. ASSUME NEW i \in 1 .. Len(types), i # k PROVE Range(ss[i]) \cap T = {}
    <3>1. types[i] # t
        BY <1>1, <1>4, <2>1
    <3>2. \A c \in Range(ss[i]) : c.type # t
        BY <1>5, <3>1
    <3>3. QED
        BY <3>2
  <2>2. QED
      BY <1>3, <2>1
<1> HIDE DEF T
<1>8. Among(FlattenSeq(ss), T) = ss[k]
    BY <1>3, <1>4, <1>6, <1>7, AmongOne
<1>9. ss[k] = loadCatalogFile(t).components
    BY <1>3, <1>4
<1>10. QED
    BY <1>3, <1>8, <1>9 DEF T

\* What a search without a scraper found is what its synchronous twin finds now.
LEMMA TwinsAgree ==
    ASSUME ScriptInv, AnswersInv, NEW s \in Range(searches), mode # "live"
    PROVE  answer(s) = searchComponentsMock(s.criteria)
<1> DEFINE targets == targetTypes(s.criteria)
           catalog == Loaded(types)
           T == {c \in Range(catalog) : Has(s.criteria, "type") => c.type = s.criteria.type}
<1>1. AnswerOK(s) /\ shop \in Shops
    BY DEF AnswersInv, ScriptInv
<1>2. s.criteria \in Asks /\ LocalOK(s, cache, targets)
    BY <1>1 DEF AnswerOK, SearchOK
<1>3. targets \in Seq(Kinds) /\ Range(targets) \subseteq Kinds
    BY <1>1, <1>2, TargetsAre
<1>4. \A t \in Range(targets) : loadCatalogFile(t) = cache[t]
    BY <1>2, <1>3, SliceIsOK DEF LocalOK
<1>5. s.results = Loaded(targets)
  <2>1. \A i \in DOMAIN targets : targets[i] \in Range(targets)
      BY DEF Range
  <2>2. \A i \in DOMAIN targets : cache[targets[i]].components = loadCatalogFile(targets[i]).components
      BY <1>4, <2>1
  <2>3. Slices(targets) = [i \in DOMAIN targets |-> cache[targets[i]].components]
      BY <2>2 DEF Slices
  <2>4. Loaded(targets) = FlattenSeq(Slices(targets))
      BY DEF Loaded, Slices
  <2>5. s.results = FlattenSeq([i \in DOMAIN targets |-> cache[targets[i]].components])
      BY <1>2 DEF LocalOK
  <2> HIDE DEF targets
  <2>6. QED
      BY <2>3, <2>4, <2>5
<1>6. Loaded(targets) = Among(catalog, T)
  <2>1. CASE Has(s.criteria, "type")
    <3>1. PICK t \in Kinds : t = s.criteria.type
        BY <1>2, <2>1 DEF Asks
    <3>2. targets = <<t>>
        BY <2>1, <3>1 DEF targetTypes
    <3>3. Loaded(targets) = loadCatalogFile(t).components
      <4>1. PICK cs : cs = loadCatalogFile(t).components
          OBVIOUS
      <4>2. cs \in Seq(Range(cs))
          BY <4>1, SliceIsOK DEF SliceOK
      <4>3. DOMAIN <<t>> = {1} /\ <<t>>[1] = t
          OBVIOUS
      <4>4. Slices(<<t>>) = [i \in {1} |-> cs]
          BY <4>1, <4>3 DEF Slices
      <4>5. [i \in {1} |-> cs] = <<cs>>
          OBVIOUS
      <4>6. Loaded(<<t>>) = FlattenSeq(<<cs>>)
          BY <4>4, <4>5 DEF Loaded, Slices
      <4> HIDE DEF targets
      <4>7. QED
          BY <3>2, <4>1, <4>2, <4>6, FlattenOne
    <3>4. T = {c \in Range(catalog) : c.type = t}
        BY <2>1, <3>1
    <3>5. Among(catalog, {c \in Range(catalog) : c.type = t}) = loadCatalogFile(t).components
        BY SliceOfAll
    <3> HIDE DEF T, targets, catalog
    <3>6. QED
        BY <3>3, <3>4, <3>5
  <2>2. CASE ~Has(s.criteria, "type")
    <3>1. targets = types
        BY <2>2 DEF targetTypes
    <3>2. T = Range(catalog)
        BY <2>2
    <3>3. catalog \in Seq(Stock(types)) /\ Range(catalog) = Stock(types)
        BY <1>1, TypesAre, LoadedIs
    <3> HIDE DEF T, targets, catalog
    <3>4. Among(catalog, T) = catalog
        BY <3>2, <3>3, AmongAll
    <3>5. QED
        BY <3>1, <3>4 DEF catalog
  <2>3. QED
      BY <2>1, <2>2
<1>7. searchComponentsMock(s.criteria) = FilterAndSort(Among(catalog, T), s.criteria)
    BY DEF searchComponentsMock
<1> HIDE DEF T, targets, catalog
<1>8. QED
    BY <1>5, <1>6, <1>7 DEF answer

LEMMA AnswersSound == ScriptInv /\ AnswersInv => AnswersAreSound
<1> SUFFICES ASSUME ScriptInv, AnswersInv, NEW n \in DOMAIN searches, searches[n].left = <<>>
             PROVE  LET s == searches[n]
                        found == answer(s)
                        source == resolvedSource(s.sources)
                    IN  /\ \A c \in Range(found) : source \in {Origin(c), "mixed"}
                        /\ \A i, j \in DOMAIN found : i < j => found[i].price <= found[j].price
                        /\ mode = "live" /\ source = "live" => s.errors = {}
                        /\ mode = "live" /\ s.errors = {} => source = "live"
                        /\ mode = "live" /\ source \in {"mock", "phongvu"} => s.errors = Range(targetTypes(s.criteria))
                        /\ mode # "live" => found = searchComponentsMock(s.criteria)
    BY DEF AnswersAreSound
<1>1. PICK s \in Range(searches) : s = searches[n]
    BY DEF Range
<1>2. AnswerOK(s) /\ s.left = <<>>
    BY <1>1 DEF AnswersInv
<1>3. PICK source : source = resolvedSource(s.sources)
    OBVIOUS
<1>4. PICK found : found = answer(s)
    OBVIOUS
<1>5. PICK targets : targets = targetTypes(s.criteria)
    OBVIOUS
<1>6. FoundOK(s) /\ (mode = "live" => LiveOK(s, targets))
    BY <1>2, <1>5 DEF AnswerOK, SearchOK
<1>7. /\ s.results \in Seq(Range(s.results)) /\ s.sources # {}
      /\ s.sources \subseteq {"live", "mock", "phongvu"}
      /\ \A c \in Range(s.results) : c.price \in Nat /\ Origin(c) \in s.sources
    BY <1>2, <1>6 DEF FoundOK
<1>8. source = "mixed" \/ s.sources = {source}
    BY <1>3, <1>7, LabelIs
<1>9. /\ found \in Seq(Range(s.results))
      /\ \A i, j \in DOMAIN found : i < j => found[i].price <= found[j].price
  <2>1. \A c \in Range(s.results) : c.price \in Nat
      BY <1>7
  <2>2. found = FilterAndSort(s.results, s.criteria)
      BY <1>4 DEF answer
  <2>3. QED
      BY <1>7, <2>1, <2>2, FilteredAndSorted
<1>10. \A c \in Range(found) : source \in {Origin(c), "mixed"}
  <2>1. Range(found) \subseteq Range(s.results)
      BY <1>9, RangeOfSeq
  <2>2. QED
      BY <1>7, <1>8, <2>1
<1>11. ASSUME mode = "live"
       PROVE  /\ source = "live" <=> s.errors = {}
              /\ source \in {"mock", "phongvu"} => s.errors = Range(targets)
  <2>1. /\ s.errors = {} <=> s.sources \subseteq {"live"}
        /\ "live" \notin s.sources => Range(targets) = s.errors \cup Range(s.left)
      BY <1>6, <1>11 DEF LiveOK
  <2>2. Range(s.left) = {}
      BY <1>2 DEF Range
  <2>3. s.sources \subseteq {"live"} => source = "live"
    <3>1. s.sources \subseteq {"live"} => s.sources = {"live"}
        BY <1>7
    <3>2. QED
        BY <1>3, <3>1, OneSource
  <2>4. source = "live" => s.sources \subseteq {"live"}
      BY <1>8
  <2>5. source \in {"mock", "phongvu"} => "live" \notin s.sources
      BY <1>8
  <2>6. QED
      BY <2>1, <2>2, <2>3, <2>4, <2>5
<1>12. ASSUME mode # "live" PROVE found = searchComponentsMock(s.criteria)
    BY <1>4, <1>12, TwinsAgree
<1>13. /\ \A c \in Range(found) : source \in {Origin(c), "mixed"}
       /\ \A i, j \in DOMAIN found : i < j => found[i].price <= found[j].price
       /\ mode = "live" /\ source = "live" => s.errors = {}
       /\ mode = "live" /\ s.errors = {} => source = "live"
       /\ mode = "live" /\ source \in {"mock", "phongvu"} => s.errors = Range(targets)
       /\ mode # "live" => found = searchComponentsMock(s.criteria)
    BY <1>9, <1>10, <1>11, <1>12
<1>14. QED
    BY <1>1, <1>3, <1>4, <1>5, <1>13

\* Whatever the scraper does, and whatever the fetching script does to the files meanwhile, an
\* answer of the server names where its components came from and whether a type has failed, is
\* sorted by price, and without a scraper is what the synchronous search answers ever after.
THEOREM AnswersAreTrue == Spec => []AnswersAreSound
BY AnswersInvariant, ScriptInvariant, AnswersSound, PTL
=============================================================================
