------------------------------ MODULE Catalog ------------------------------
(* The catalog of components, packages/catalog: the script that fetches the  *)
(* shop's products and saves a file per type, and the server process that    *)
(* searches. They share nothing but the files. The server reads a file the   *)
(* first time a search needs it and keeps what it found for as long as it    *)
(* runs; in live mode it asks a scraper for each type before.                *)
(*                                                                           *)
(* Assumed of the shop, not of the code: its listings stay as they are while *)
(* the script goes from page to page. The script does not look for products  *)
(* it has already; one that moves to a later page meanwhile, like one that   *)
(* two listings of a type share, would be in the file twice.                 *)
EXTENDS CatalogMapping

CONSTANTS Products,     \* what there is to be sold
          Shops,        \* what the shop may sell: per type its listings, each a sequence of products;
                        \* of the eight types a shop has some, for all loops over types (bound)
          Criteria,     \* the searches the server is asked for
          PageSize, Concurrency, PageLimit,     \* PAGE_SIZE, DETAIL_CONCURRENCY, 100
          MaxSearches, MaxRestarts, MaxFetches  \* bounds of the model

Modes == {"live", "phongvu", "mock"}

ASSUME ProductsAssumption ==
    \A p \in Products :
        /\ p.price \in Nat
        /\ Has(p.specs, "price") => p.specs.price \in Nat
        /\ Has(p.detail, "boards") => p.detail.boards \in Seq(STRING)
\* The shop's skus are numbers; those of the bundled catalog are not.
ASSUME SkusAssumption ==
    \A p \in Products : p.sku # "scraped" /\ \A c \in Range(MOCK_CATALOG) : c.sku # p.sku
ASSUME ShopsAssumption ==
    \A s \in Shops :
        /\ DOMAIN s # {} /\ DOMAIN s \subseteq {ALL_TYPES[i] : i \in DOMAIN ALL_TYPES}
        /\ \A t \in DOMAIN s : s[t] # <<>> /\ s[t] \in Seq(Seq(Products))
ASSUME SizesAssumption ==
    /\ PageSize \in Nat \ {0} /\ Concurrency \in Nat \ {0} /\ PageLimit \in Nat \ {0}
    /\ MaxSearches \in Nat /\ MaxRestarts \in Nat /\ MaxFetches \in Nat

VARIABLES
    shop,       \* what the shop sells
    files,      \* data/phongvu-catalog-<type>.json: missing, torn (not all of it written) or whole
    job,        \* the fetching script
    fetches,    \* how often it was started
    mode,       \* the server's CATALOG_DATA_SOURCE
    cache,      \* CATALOG_CACHE; no entry has the source "unread"
    searches,   \* the searches of this server's life
    restarts

serverVars == <<mode, cache, searches, restarts>>
jobVars == <<files, job, fetches>>
vars == <<shop, serverVars, jobVars>>

Kinds == DOMAIN shop
types == Among(ALL_TYPES, Kinds)

-----------------------------------------------------------------------------
(* The script: main() takes one type after the other *)

Paging(type, slug, page, got) ==
    [phase |-> "paging", type |-> type, slug |-> slug, page |-> page, got |-> got,
     next |-> 1, running |-> {}, results |-> <<>>]
Fresh(type) == Paging(type, 1, 1, <<>>)
Stopped == [Fresh(1) EXCEPT !.phase = "stopped"]

\* The places in ALL_TYPES of the types that come after the first n.
TypesAfter(n) == {i \in n + 1 .. Len(ALL_TYPES) : ALL_TYPES[i] \in Kinds}

Kind == ALL_TYPES[job.type]
Listing == shop[Kind][job.slug]
Page == SubSeq(Listing, (job.page - 1) * PageSize + 1, IF job.page * PageSize < Len(Listing)
                                                       THEN job.page * PageSize ELSE Len(Listing))

StartFetch ==
    /\ job.phase = "stopped" /\ fetches < MaxFetches
    /\ job' = Fresh(Min(TypesAfter(0))) /\ fetches' = fetches + 1
    /\ UNCHANGED <<shop, files, serverVars>>

\* After the last slug the workers start, each with a product of its own.
AfterPages(got) ==
    LET workers == IF Concurrency < Len(got) THEN Concurrency ELSE Len(got) IN
    IF job.slug < Len(shop[Kind]) THEN Paging(job.type, job.slug + 1, 1, got)
    ELSE [job EXCEPT !.phase = IF got = <<>> THEN "saving" ELSE "mapping", !.got = got,
                     !.running = 1 .. workers, !.next = workers + 1, !.results = [i \in DOMAIN got |-> <<>>]]

PageArrives ==
    /\ job.phase = "paging"
    /\ job' = IF Len(Page) = PageSize /\ job.page < PageLimit
              THEN Paging(job.type, job.slug, job.page + 1, job.got \o Page)
              ELSE AfterPages(job.got \o Page)
    /\ UNCHANGED <<shop, files, fetches, serverVars>>

\* An error, or an answer without products: what was fetched until then is kept.
PageFails ==
    /\ job.phase = "paging"
    /\ job' = AfterPages(job.got)
    /\ UNCHANGED <<shop, files, fetches, serverVars>>

\* Mutant: results are in the order the detail requests end in.
ResultsAsTheyCome(i, component) ==
    [j \in DOMAIN job.got |->
        IF j = 1 + Cardinality((1 .. job.next - 1) \ job.running) THEN component ELSE job.results[j]]

ResultsInPlace(i, component) == [job.results EXCEPT ![i] = component]

\* Mutant: the loop of a worker goes on for one product too many.
OneTooMany == {job.next} \cap (1 .. Len(job.got) + 1)

\* The product a worker takes next, if one is left.
NextProduct == {job.next} \cap DOMAIN job.got

\* The detail of product i arrives, or the request fails; its worker takes the next one.
DetailEnds(i, ok) ==
    LET p == job.got[i]
        detailed == IF ok THEN transformPhongVuDetail(p, Kind) ELSE <<>>
        component == IF detailed # <<>> THEN detailed ELSE transformPhongVuProduct(p, Kind)
        running == (job.running \ {i}) \cup NextProduct
    IN  /\ job.phase = "mapping" /\ i \in job.running
        /\ job' = [job EXCEPT !.results = ResultsInPlace(i, component), !.running = running,
                              !.next = job.next + Cardinality(NextProduct),
                              !.phase = IF running = {} THEN "saving" ELSE "mapping"]
        /\ UNCHANGED <<shop, files, fetches, serverVars>>

\* writeFileSync truncates the file and fills it.
Truncate ==
    /\ job.phase = "saving"
    /\ job' = [job EXCEPT !.phase = "writing"]
    /\ files' = [files EXCEPT ![Kind] = [state |-> "torn", components |-> <<>>]]
    /\ UNCHANGED <<shop, fetches, serverVars>>

Write ==
    /\ job.phase = "writing"
    /\ files' = [files EXCEPT ![Kind] = [state |-> "whole", components |-> FlattenSeq(job.results)]]
    /\ job' = IF TypesAfter(job.type) = {} THEN Stopped ELSE Fresh(Min(TypesAfter(job.type)))
    /\ UNCHANGED <<shop, fetches, serverVars>>

\* The script is interrupted, or a file cannot be written: main() exits.
Interrupted ==
    /\ job.phase # "stopped"
    /\ job' = Stopped
    /\ UNCHANGED <<shop, files, fetches, serverVars>>

-----------------------------------------------------------------------------
(* The server *)

Unread == [source |-> "unread", components |-> <<>>]
mockSlice(type) ==
    [source |-> "mock", components |-> Among(MOCK_CATALOG, {c \in Range(MOCK_CATALOG) : c.type = type})]

\* Mutant: the mock slice that stands in for a file is not kept.
OnlyFilesAreKept(type) ==
    IF cache[type] # Unread THEN cache[type]
    ELSE IF mode # "mock" /\ files[type].state = "whole"
         THEN [source |-> "phongvu", components |-> files[type].components] ELSE Unread

loadCatalogFile(type) ==
    IF cache[type] # Unread THEN cache[type]
    ELSE IF mode # "mock" /\ files[type].state = "whole"
         THEN [source |-> "phongvu", components |-> files[type].components] ELSE mockSlice(type)

targetTypes(criteria) == IF Has(criteria, "type") THEN <<criteria.type>> ELSE types

\* The slices of some types one after the other.
Loaded(some) == FlattenSeq([i \in DOMAIN some |-> loadCatalogFile(some[i]).components])

\* searchComponentsMock: it reads the files of every type, as searchComponents does, and has a
\* predicate for the one that is asked for.
searchComponentsMock(criteria) ==
    LET catalog == Loaded(types)
        ofType == Among(catalog, {c \in Range(catalog) : Has(criteria, "type") => c.type = criteria.type})
    IN  FilterAndSort(ofType, criteria)

\* After the last type: what the search returns.
answer(s) == FilterAndSort(s.results, s.criteria)
resolvedSource(sources) ==
    IF sources = {} THEN "mock" ELSE IF Cardinality(sources) = 1 THEN CHOOSE s \in sources : TRUE ELSE "mixed"

\* results, errors and seenSources are the locals of searchComponents; left are the types to come.
Asked(criteria) ==
    [criteria |-> criteria, left |-> targetTypes(criteria), results |-> <<>>, errors |-> {}, sources |-> {}]

\* One turn of the loop over the types.
Took(s, components, source, errors) ==
    [s EXCEPT !.left = Tail(s.left), !.results = s.results \o components,
              !.sources = s.sources \cup {source}, !.errors = s.errors \cup errors]

TakeLocal(s, errors) ==
    LET slice == loadCatalogFile(s.left[1]) IN Took(s, slice.components, slice.source, errors)

\* Without a scraper nothing is awaited: a search is one step, the loop to its end.
SearchLocal(criteria) ==
    LET targets == targetTypes(criteria)
        s == [Asked(criteria) EXCEPT !.left = <<>>, !.results = Loaded(targets),
                                     !.sources = {loadCatalogFile(t).source : t \in Range(targets)}]
    IN
    /\ mode # "live" /\ Len(searches) < MaxSearches
    /\ searches' = Append(searches, s)
    /\ cache' = [t \in Kinds |-> IF t \in Range(targets) THEN loadCatalogFile(t) ELSE cache[t]]
    /\ UNCHANGED <<shop, jobVars, mode, restarts>>

SearchLive(criteria) ==
    /\ mode = "live" /\ Len(searches) < MaxSearches
    /\ searches' = Append(searches, Asked(criteria))
    /\ UNCHANGED <<shop, jobVars, mode, cache, restarts>>

Scraped(type) ==
    LET found == FlattenSeq(shop[type]) IN FlattenSeq([i \in DOMAIN found |-> mapScrapedProduct(found[i], type)])

\* Mutant: a scraper that fails or does not answer is waited for.
WithoutTimeout == {"data"}

\* How a run of the scraper may end: with data, or with null: without a key, after ten seconds,
\* for an error. Data nothing comes of is null too.
fetchType == {"data", "null"}

\* The scraper's turn for the first type left of search n ends.
FetchEnds(n, result) ==
    LET s == searches[n]
        live == IF result = "data" THEN Scraped(s.left[1]) ELSE <<>>
    IN  /\ UNCHANGED <<shop, jobVars, mode, restarts>>
        /\ s.left # <<>> /\ result \in fetchType
        /\ cache' = IF live # <<>> THEN cache ELSE [cache EXCEPT ![s.left[1]] = loadCatalogFile(s.left[1])]
        /\ searches' = [searches EXCEPT ![n] = IF live # <<>> THEN Took(s, live, "live", {})
                                              ELSE TakeLocal(s, {s.left[1]})]

\* The server process is started anew, in the same environment.
Restart ==
    /\ restarts < MaxRestarts
    /\ restarts' = restarts + 1
    /\ cache' = [t \in Kinds |-> Unread] /\ searches' = <<>>
    /\ UNCHANGED <<shop, jobVars, mode>>

-----------------------------------------------------------------------------
\* The repository has a snapshot of each type, here one that was made without any detail.
Missing == [state |-> "missing", components |-> <<>>]
Snapshot(type) ==
    LET sold == FlattenSeq(shop[type]) IN
    [state |-> "whole", components |-> FlattenSeq([i \in DOMAIN sold |-> transformPhongVuProduct(sold[i], type)])]

Init ==
    /\ shop \in Shops
    /\ files \in {[t \in Kinds |-> Missing], [t \in Kinds |-> Snapshot(t)]}
    /\ job = Stopped /\ fetches = 0
    /\ mode \in Modes /\ restarts = 0
    /\ cache = [t \in Kinds |-> Unread] /\ searches = <<>>

Asks == {criteria \in Criteria : Has(criteria, "type") => criteria.type \in Kinds}
Open == {n \in DOMAIN searches : searches[n].left # <<>>}

Next ==
    \/ StartFetch \/ PageArrives \/ PageFails \/ Truncate \/ Write \/ Interrupted
    \/ \E i \in job.running, ok \in BOOLEAN : DetailEnds(i, ok)
    \/ \E criteria \in Asks : SearchLocal(criteria) \/ SearchLive(criteria)
    \/ \E n \in Open, result \in fetchType : FetchEnds(n, result)
    \/ Restart

Spec == Init /\ [][Next]_vars

\* The timer of fetchType: a type is not waited for longer than ten seconds. That the
\* scraper ever answers is not assumed.
TimesOut(n) == n \in Open /\ FetchEnds(n, "null")
LiveSpec == Spec /\ \A n \in 1 .. MaxSearches : WF_vars(TimesOut(n))

-----------------------------------------------------------------------------
(* Properties *)

\* Every variable has its type; the script has at most DETAIL_CONCURRENCY detail requests
\* open, each for another product, and no worker is idle while products are left.
CatalogTypeOK ==
    /\ shop \in Shops /\ mode \in Modes
    /\ fetches \in 0 .. MaxFetches /\ restarts \in 0 .. MaxRestarts
    /\ \A t \in Kinds : /\ files[t].state \in {"missing", "torn", "whole"}
                        /\ cache[t].source \in {"unread", "mock", "phongvu"}
    /\ job.phase \in {"stopped", "paging", "mapping", "saving", "writing"}
    /\ job.running \subseteq 1 .. job.next - 1 /\ job.next \in 1 .. Len(job.got) + 1
    /\ job.phase = "mapping" => \/ Cardinality(job.running) = Concurrency
                                \/ job.running # {} /\ job.next = Len(job.got) + 1

\* What the rules of BuildCompiler read of a component of the type.
RulesRead ==
    [cpu |-> {"socket", "ram_gen_supported"}, ram |-> {"generation"},
     mainboard |-> {"socket", "ram_gen_supported", "form_factor"}, psu |-> {"wattage", "form_factor"},
     cooler |-> {"height"}, storage |-> {}, gpu |-> {},
     case |-> {"max_cooler_height", "supported_mb_form_factors", "supported_psu_form_factors"}]

\* The sizes that the rules compare are in one set of words, whatever the sources call them,
\* and a case lists some of each kind. (E-ATX is a board no case lists.)
SizesAreKnown(c, type) ==
    CASE type = "mainboard" -> c.form_factor \in {"ATX", "mATX", "ITX", "E-ATX"}
      [] type = "psu" -> c.form_factor \in {"ATX", "SFX"}
      [] type = "case" -> /\ c.supported_mb_form_factors \in Seq({"ATX", "mATX", "ITX"}) \ {<<>>}
                          /\ c.supported_psu_form_factors \in Seq({"ATX", "SFX"}) \ {<<>>}
      [] OTHER -> TRUE

Judgeable(c) == RulesRead[c.type] \subseteq DOMAIN c /\ SizesAreKnown(c, c.type)

\* A saved file holds products of its own type that the shop sells and prices, each place of
\* the shop's listings at most once and in the shop's order, however the pages and detail
\* requests ended: component i is the product at from[i] of all the listings. And each has
\* every attribute that a rule of the compiler reads, its sizes in the words of the rules, so
\* that no choice from a saved file is answered with "attribute missing" (E006) and none is
\* refused for a spelling. A file may lack products: a page that fails ends its listing. Of
\* what the scraper finds none of this is said: its coolers may have no height.
SavedIsJudgeable ==
    \A t \in Kinds :
        LET sold == FlattenSeq(shop[t])
            saved == files[t].components
        IN  /\ \A i \in DOMAIN saved : saved[i].type = t /\ saved[i].price > 0 /\ Judgeable(saved[i])
            /\ \E from \in [DOMAIN saved -> DOMAIN sold] :
                  \A i \in DOMAIN saved :
                      /\ saved[i].sku = sold[from[i]].sku /\ saved[i].price = sold[from[i]].price
                      /\ \A j \in DOMAIN saved : i < j => from[i] < from[j]

Origin(c) ==
    IF c.sku = "scraped" THEN "live"
    ELSE IF \E m \in Range(MOCK_CATALOG) : m.sku = c.sku THEN "mock" ELSE "phongvu"

\* The label of an answer is true: what it names is where every component came from; "live"
\* stands for no type having failed, a local label for none having succeeded. The components
\* come cheapest first. And whatever the fetching script does to the files meanwhile, an
\* answer given without a scraper is the one this server gives for the rest of its life, and
\* the one its synchronous twin gives (searchComponents, searchComponentsMock). The twin too
\* reads the saved files, whatever its name and the package's README say: between two lives
\* of a server its answers may differ.
AnswersAreSound ==
    \A n \in DOMAIN searches :
        LET s == searches[n]
            found == answer(s)
            source == resolvedSource(s.sources)
        IN  s.left = <<>> =>
            /\ \A c \in Range(found) : source \in {Origin(c), "mixed"}
            /\ \A i, j \in DOMAIN found : i < j => found[i].price <= found[j].price
            /\ mode = "live" /\ source = "live" => s.errors = {}
            /\ mode = "live" /\ s.errors = {} => source = "live"
            /\ mode = "live" /\ source \in {"mock", "phongvu"} => s.errors = Range(targetTypes(s.criteria))
            /\ mode # "live" => found = searchComponentsMock(s.criteria)

\* A search that has begun is answered, whether or not the scraper ever is, unless the server
\* is started anew.
SearchesEnd == \A n \in 1 .. MaxSearches : n \in Open ~> n \notin Open
=============================================================================
