------------------------------- MODULE Harvest -------------------------------
(***************************************************************************)
(* One source of run_all.py, from its first request to the `ok` that       *)
(* decides about its sweep: run_source(), the wrapper it calls (run_czone, *)
(* run_catalog, run_junaid), the page walk of each scraper, and the        *)
(* circuit breaker of BaseScraper.fetch().  One thread works on a source,  *)
(* so the host lock is never waited for here.                              *)
(*                                                                         *)
(* A fetch stands for its whole retry loop: it ends with a body ("ok", or  *)
(* "challenge", a 200 that is no page of the catalogue), with 404, 403,    *)
(* an exhausted 429, or an exhausted other failure.  The shop's stock does *)
(* not change while the source is walked.                                  *)
(***************************************************************************)
EXTENDS Naturals, Sequences, FiniteSets

CONSTANTS Kinds,       \* kinds of source: listing | woo | pakbyte | junaid
          NumCats,     \* categories of the source, walked in order
          Shelves,     \* what a category can hold: a sequence of pages
          PerPage,     \* PER_PAGE, PAGE_SIZE, cards of a full listing page
          MaxPages, MaxFailures, MaxSkippedPages,
          ForbiddenLimit, ThrottledLimit, \* BLOCK_AFTER_FORBIDDEN, _FAILED_FETCHES
          MinCatBase, MinSourceBase       \* MIN_CAT_BASELINE, MIN_SOURCE_BASELINE

ASSUME HarvestAssumption ==
    /\ Kinds \subseteq {"listing", "woo", "pakbyte", "junaid"}
    /\ {NumCats, PerPage, MaxPages, MaxFailures, MaxSkippedPages,
        ForbiddenLimit, ThrottledLimit, MinCatBase, MinSourceBase} \subseteq Nat \ {0}

\* Every card of the page was skipped as sold out.
SoldOut(shown) == shown.cards > 0 /\ shown.items = {}

\* A category's pages, ended before the page cap.
ASSUME PagesAssumption ==
    \A s \in Shelves : /\ s \in Seq([cards : 0 .. PerPage, items : SUBSET (1 .. PerPage)])
                       /\ Len(s) < MaxPages

\* A card is at most one product; a page is filled before another begins.
ASSUME FullPagesAssumption ==
    \A s \in Shelves : \A p \in 1 .. Len(s) : /\ s[p].items \subseteq 1 .. s[p].cards
                                              /\ p < Len(s) => s[p].cards = PerPage

\* No category has as many sold-out pages in a row as MAX_SKIPPED_PAGES.
ASSUME SoldOutRunsAssumption ==
    \A s \in Shelves : \A p \in 0 .. Len(s) : p + MaxSkippedPages <= Len(s) =>
        \E q \in p + 1 .. p + MaxSkippedPages : ~SoldOut(s[q])

\* A sold-out last page that is shown again and again makes a run of that
\* length before the page cap; p is the page before that run.
ASSUME SoldOutEndsAssumption ==
    \A s \in Shelves : \A p \in 0 .. Len(s) :
        (/\ p < Len(s) /\ \A q \in p + 1 .. Len(s) : SoldOut(s[q])
         /\ p > 0 => ~SoldOut(s[p]))
            => p + MaxSkippedPages <= MaxPages

Cats  == 1 .. NumCats
Hosts == {"site", "api"}
Faults == {"404", "403", "429", "fail"}

VARIABLES
    kind, shelf, counted,  \* the shop: is a listing's total on its pages?
    fail403, fail429, blocked,           \* _host_state
    cat, page,             \* place in the wrapper's and the walk's loop
    failures, skipped,     \* failed pages: in a row; any (sticky)
    cardsSeen, soldOutRun, \* cards so far; sold-out pages in a row
    found,                 \* products of this category so far
    kept,                  \* the wrapper's results
    missed,                \* categories that raised ScrapeIncomplete
    hidden,                \* history: categories with a loss nothing reports
    clean,                 \* history: every answer so far was a true one
    pc,                    \* token | page | report | done
    ok

shop    == <<kind, shelf, counted>>
breaker == <<fail403, fail429, blocked>>
walk    == <<page, failures, skipped, cardsSeen, soldOutRun, found>>
history == <<hidden, clean>>
vars    == <<shop, breaker, walk, cat, kept, missed, history, pc, ok>>

\* f[1] + ... + f[n]
SumTo(f, n) ==
    LET sum[i \in 0 .. n] == IF i = 0 THEN 0 ELSE sum[i - 1] + f[i] IN sum[n]

Items(c, p) == {<<c, p, i>> : i \in shelf[c][p].items}
InStock(c)  == UNION {Items(c, p) : p \in DOMAIN shelf[c]}
Start(k)    == IF k = "junaid" THEN "token" ELSE "page"

Init ==
    /\ kind \in Kinds
    /\ shelf \in [Cats -> Shelves]
    /\ counted \in BOOLEAN
    \* the junaid API filters sold-out products on the server
    /\ kind = "junaid" => \A c \in Cats : \A p \in DOMAIN shelf[c] :
                             Cardinality(shelf[c][p].items) = shelf[c][p].cards
    /\ fail403 = [h \in Hosts |-> 0]
    /\ fail429 = [h \in Hosts |-> 0]
    /\ blocked = [h \in Hosts |-> FALSE]
    /\ cat = 1 /\ page = 1 /\ failures = 0 /\ skipped = FALSE
    /\ cardsSeen = 0 /\ soldOutRun = 0 /\ found = {}
    /\ kept = {} /\ missed = {} /\ hidden = {} /\ clean = TRUE
    /\ pc = Start(kind)
    /\ ok = FALSE

-----------------------------------------------------------------------------
(* BaseScraper.fetch().                                                    *)

Count(f, h, limit) ==
    /\ f' = [f EXCEPT ![h] = @ + 1]
    /\ blocked' = [blocked EXCEPT ![h] = f[h] + 1 >= limit]

\* A 2xx, whatever the body, clears both counts.
Served(h) ==
    /\ ~blocked[h]
    /\ fail403' = [fail403 EXCEPT ![h] = 0]
    /\ fail429' = [fail429 EXCEPT ![h] = 0]
    /\ UNCHANGED blocked

\* An exception: a blocked host is not asked again.
Fails(h, o) ==
    \/ blocked[h] /\ o = "fail" /\ UNCHANGED breaker
    \/ /\ ~blocked[h]
       /\ \/ o = "403" /\ Count(fail403, h, ForbiddenLimit) /\ UNCHANGED fail429
          \/ o = "429" /\ Count(fail429, h, ThrottledLimit) /\ UNCHANGED fail403
          \/ o \in {"404", "fail"} /\ UNCHANGED breaker

\* The exception is HostBlocked, a ScrapeIncomplete, not a RuntimeError.
IsBlocked(h) == blocked'[h]

-----------------------------------------------------------------------------
(* The wrapper's loop over the categories.                                 *)

NextCategory ==
    /\ cat' = cat + 1
    /\ pc' = IF cat = NumCats THEN "report" ELSE Start(kind)
    /\ page' = 1 /\ failures' = 0 /\ skipped' = FALSE
    /\ cardsSeen' = 0 /\ soldOutRun' = 0 /\ found' = {}
    /\ UNCHANGED <<shop, ok>>

\* scrape() returned.
Complete(products) ==
    /\ kept' = kept \cup products
    /\ UNCHANGED missed
    /\ NextCategory

\* Mutant: the wrapper forgets the category that could not be seen.
IncompleteForgotten(partial) ==
    /\ kept' = kept \cup partial
    /\ UNCHANGED missed
    /\ NextCategory

\* scrape() raised ScrapeIncomplete; only run_czone keeps what it carries.
Incomplete(partial) ==
    /\ kept' = kept \cup (IF kind = "listing" THEN partial ELSE {})
    /\ missed' = missed \cup {cat}
    /\ NextCategory

\* scrape() raised anything else: printed, and not held against the source.
Swallowed ==
    /\ hidden' = hidden \cup {cat} /\ clean' = FALSE
    /\ UNCHANGED <<kept, missed>>
    /\ NextCategory

\* A parser trips over an item of page p.
ParseError(h) ==
    /\ pc = "page" /\ kind # "junaid"
    /\ page \in DOMAIN shelf[cat] /\ shelf[cat][page].cards > 0
    /\ Served(h)
    /\ Swallowed

-----------------------------------------------------------------------------
(* ListingScraper.scrape().                                                *)

Stay == UNCHANGED <<shop, cat, kept, missed, pc, ok>>

\* Mutant: only pages that failed just before the end are remembered.
EndListingForgets(products) ==
    IF failures > 0 THEN Incomplete(products) ELSE Complete(products)

\* The loop was left by a break.
EndListing(products) ==
    IF skipped THEN Incomplete(products) ELSE Complete(products)

\* Mutant: the 404 that ends a listing is counted as a page that failed.
ListingNotFoundFails ==
    /\ pc = "page" /\ kind = "listing"
    /\ page > 1 /\ page \notin DOMAIN shelf[cat]
    /\ Fails("site", "404") /\ ~blocked["site"]
    /\ Incomplete(found)
    /\ UNCHANGED history

\* 404 past page 1, where the listing has no such page.
ListingNotFound ==
    /\ pc = "page" /\ kind = "listing"
    /\ page > 1 /\ page \notin DOMAIN shelf[cat]
    /\ Fails("site", "404") /\ ~blocked["site"]
    /\ EndListing(found)
    /\ UNCHANGED history

\* Mutant: one failure in a row too many.
GiveUpLate == failures + 1 > MaxFailures

GiveUp == failures + 1 >= MaxFailures

ListingPageFails(o) ==
    /\ pc = "page" /\ kind = "listing"
    /\ o = "404" => page = 1
    /\ Fails("site", o)
    /\ clean' = FALSE /\ UNCHANGED hidden
    /\ IF GiveUp
       THEN Incomplete(found)
       ELSE IF page = MaxPages THEN Incomplete({})
       ELSE /\ failures' = failures + 1
            /\ skipped' = TRUE
            /\ page' = page + 1
            /\ Stay
            /\ UNCHANGED <<cardsSeen, soldOutRun, found>>

\* A page past the end is empty, or the last page again.
Shown(p) ==
    IF p \in DOMAIN shelf[cat] THEN {p}
    ELSE {0} \cup (IF shelf[cat] = <<>> THEN {} ELSE {Len(shelf[cat])})

CardsOn(p) == IF p = 0 THEN 0 ELSE shelf[cat][p].cards
ItemsOn(p) == IF p = 0 THEN {} ELSE Items(cat, p)

Cards(s) == [p \in DOMAIN s |-> s[p].cards]
Total    == SumTo(Cards(shelf[cat]), Len(shelf[cat]))

SoldOutPage(p) == p # 0 /\ SoldOut(shelf[cat][p])

ListingPage(p) ==
    /\ pc = "page" /\ kind = "listing" /\ p \in Shown(page)
    /\ Served("site")
    /\ UNCHANGED history
    /\ LET all  == found \cup ItemsOn(p)
           more == IF counted THEN cardsSeen + CardsOn(p) < Total
                              ELSE soldOutRun + 1 < MaxSkippedPages
           ends == \/ SoldOutPage(p) /\ ~more
                   \/ ~SoldOutPage(p) /\ all = found
                   \/ ~SoldOutPage(p) /\ counted /\ Cardinality(all) >= Total
       IN IF ends THEN EndListing(all)
          ELSE IF page = MaxPages THEN Incomplete({})
          ELSE /\ page' = page + 1
               /\ failures' = 0
               /\ cardsSeen' = cardsSeen + CardsOn(p)
               /\ soldOutRun' = IF SoldOutPage(p) THEN soldOutRun + 1 ELSE 0
               /\ found' = all
               /\ Stay
               /\ UNCHANGED skipped

\* A 200 without cards reads as the end, whatever total page 1 announced.
ListingChallenge ==
    /\ pc = "page" /\ kind = "listing"
    /\ Served("site")
    /\ hidden' = hidden \cup {cat} /\ clean' = FALSE
    /\ EndListing(found)

-----------------------------------------------------------------------------
(* WooStoreScraper.scrape() and PakByteScraper.scrape().                   *)

IsCatalog == kind \in {"woo", "pakbyte"}

\* `len(items) < PER_PAGE`: counted before sold-out items are dropped.
LastPage(p) == CardsOn(p) < PerPage

CatalogPage ==
    /\ pc = "page" /\ IsCatalog
    /\ Served("site")
    /\ UNCHANGED history
    /\ LET p   == IF page \in DOMAIN shelf[cat] THEN page ELSE 0
           all == found \cup ItemsOn(p)
       IN IF LastPage(p) THEN Complete(all)
          ELSE IF page = MaxPages THEN Incomplete({})
          ELSE /\ page' = page + 1
               /\ found' = all
               /\ Stay
               /\ UNCHANGED <<failures, skipped, cardsSeen, soldOutRun>>

\* A failed fetch, or a body that is no JSON list of products.
CatalogFails ==
    /\ pc = "page" /\ IsCatalog
    /\ Served("site") \/ \E o \in Faults : Fails("site", o)
    /\ clean' = FALSE /\ UNCHANGED hidden
    /\ Incomplete(found)

-----------------------------------------------------------------------------
(* JunaidTechScraper.scrape().                                             *)

JunaidToken ==
    /\ pc = "token"
    /\ Served("site")
    /\ pc' = "page"
    /\ UNCHANGED <<shop, walk, cat, kept, missed, history, ok>>

\* The page that carries the token: a RuntimeError is nobody's ScrapeIncomplete.
JunaidTokenFails(o) ==
    /\ pc = "token"
    /\ Fails("site", o)
    /\ IF IsBlocked("site") THEN Incomplete({}) /\ clean' = FALSE /\ UNCHANGED hidden
                          ELSE Swallowed

JunaidPage ==
    /\ pc = "page" /\ kind = "junaid"
    /\ Served("api")
    /\ UNCHANGED history
    /\ LET p   == IF page \in DOMAIN shelf[cat] THEN page ELSE 0
           all == found \cup ItemsOn(p)
       IN IF p = 0 \/ Cardinality(all) >= Total THEN Complete(all)
          ELSE /\ page' = page + 1
               /\ found' = all
               /\ Stay
               /\ UNCHANGED <<failures, skipped, cardsSeen, soldOutRun>>

\* Nothing collected: ScrapeIncomplete.  Otherwise "stopping, keeping".
JunaidPageFails ==
    /\ pc = "page" /\ kind = "junaid"
    /\ Served("api") \/ \E o \in Faults : Fails("api", o)
    /\ clean' = FALSE
    /\ IF found = {} THEN Incomplete({}) /\ UNCHANGED hidden
                     ELSE Complete(found) /\ hidden' = hidden \cup {cat}

\* A 200 whose JSON holds no results reads as the end, whatever totalRecords
\* was before.
JunaidEmptyAnswer ==
    /\ pc = "page" /\ kind = "junaid"
    /\ Served("api")
    /\ hidden' = hidden \cup {cat} /\ clean' = FALSE
    /\ Complete(found)

-----------------------------------------------------------------------------
(* run_source().                                                           *)

\* host_blocked(label): the label is the host only where the site has no www.
LabelBlocked == kind = "woo" /\ blocked["site"]

Report ==
    /\ pc = "report"
    /\ ok' = (kept # {} /\ missed = {} /\ ~LabelBlocked)
    /\ pc' = "done"
    /\ UNCHANGED <<shop, breaker, walk, cat, kept, missed, history>>

Done == pc = "done" /\ UNCHANGED vars

Next ==
    \/ ListingNotFound \/ ListingChallenge \/ ParseError("site")
    \/ \E o \in Faults : ListingPageFails(o) \/ JunaidTokenFails(o)
    \/ \E p \in 0 .. MaxPages : ListingPage(p)
    \/ CatalogPage \/ CatalogFails
    \/ JunaidToken \/ JunaidPage \/ JunaidPageFails \/ JunaidEmptyAnswer
    \/ Report \/ Done

Spec == Init /\ [][Next]_vars

-----------------------------------------------------------------------------
(* health.evaluate_parts(): the verdict of --strict, on a shop that holds  *)
(* what it held at the last run; what a run kept is what is active after   *)
(* it, once it was swept.                                                  *)

Before(c) == Cardinality(InStock(c))
After(c)  == IF ok THEN Cardinality(InStock(c) \cap kept) ELSE Before(c)

SumBefore == SumTo([c \in Cats |-> Before(c)], NumCats)
SumAfter  == SumTo([c \in Cats |-> After(c)], NumCats)

\* A failed run, or more than half of a source gone.
SourceAnomaly ==
    \/ ~ok
    \/ SumBefore >= MinSourceBase /\ 2 * SumAfter < SumBefore

\* Mutant: the loop is over the categories that still have rows.
JudgedIfPresent(c) == After(c) > 0

\* The loop is over the categories that had rows.
Judged(c) == Before(c) >= MinCatBase

\* Empty, or more than 70% gone, in a run that is trusted.
CategoryAnomaly(c) == ok /\ Judged(c) /\ 10 * After(c) < 3 * Before(c)

Red == SourceAnomaly \/ \E c \in Cats : CategoryAnomaly(c)

-----------------------------------------------------------------------------
(* Properties.                                                             *)

\* Every variable stays in its type; the walk stays within its page cap and
\* its failure bounds.
TypeOK ==
    /\ page \in 1 .. MaxPages /\ cat \in 1 .. NumCats + 1
    /\ failures \in 0 .. MaxFailures - 1
    /\ {skipped, ok, counted} \subseteq BOOLEAN
    /\ blocked \in [Hosts -> BOOLEAN]
    /\ missed \subseteq Cats /\ hidden \subseteq Cats
    /\ pc \in {"token", "page", "report", "done"}

\* The sweep gate: a source reported ok has harvested everything in stock in
\* every category, except where one of the swallowed losses struck (a plain
\* exception in a wrapper, junaid's mid-walk error, a 200 that reads as the end
\* of a listing or of junaid's results).  Skipped pages, page caps, blocks, sold-out pages
\* and short pages never pass as a smaller shop.
OkHasNoOtherHole ==
    ok => \A c \in Cats \ hidden : InStock(c) \subseteq kept

\* "Only the first should ever reach the freshness sweep": a source that is
\* swept was seen completely.
OkMeansComplete == ok => \A c \in Cats : InStock(c) \subseteq kept

\* A host that cut the source off is never a trusted run: the walk that met
\* the block reports it, whether or not run_source can match it by its label.
\* (junaid's walk does not: OkMeansComplete.)
BlockedIsNotOk == kind # "junaid" /\ blocked["site"] => ~ok

\* A shop that answers every request as it is gets a trusted run with all it
\* has in stock: the end of a listing (a 404, an empty page, the last page
\* again), sold-out pages and half-empty pages are never taken for faults, and such
\* a run starts no heal session.
HealthyShopIsOk ==
    pc = "done" /\ clean =>
        /\ kept = UNION {InStock(c) : c \in Cats}
        /\ ok <=> kept # {}
        /\ ok => ~Red

\* "An emptied category on an `ok` run is the signature of the sweep hole": a
\* category that had products and lost every one of them to the walk, however
\* the loss was swallowed, turns the run red.
EmptiedCategoryIsRed ==
    pc = "done" =>
        \A c \in Cats : Before(c) >= MinCatBase /\ InStock(c) \cap kept = {} => Red

=============================================================================
