------------------------------ MODULE Prebuilts ------------------------------
(***************************************************************************)
(* run_prebuilts.py: one source after the other, each walked by its own    *)
(* scrape_all() (zestro, redtech, techmatched), then written, swept and    *)
(* recorded.  A fetch is one step (see HostGate): it answers with the page,*)
(* raises a 404 or another failure, or trips the breaker of its host,      *)
(* which every source has for itself.  A product page yields a prebuilt    *)
(* or, sold out or no prebuilt at all, nothing.  The shop does not change  *)
(* during its walk.                                                        *)
(***************************************************************************)
EXTENDS Naturals, Sequences, FiniteSets

CONSTANTS Targets,    \* the sources a run may be asked for, in order
          Pcs,        \* products; every source has its own
          Stores,     \* what a shop can be: its categories, each the links on
                      \* its pages, and what it answers past the last page
          OldRows,    \* active rows of a source that a run may find
          MaxListPages,   \* MAX_PAGES of redtech and techmatched
          GiveUpAfter \* page failures in a row

Sources == {"zestro", "redtech", "techmatched"}

ASSUME PrebuiltAssumption ==
    /\ Targets \subseteq Seq(Sources) \ {<<>>}
    /\ {MaxListPages, GiveUpAfter} \subseteq Nat \ {0}
    /\ OldRows \subseteq SUBSET Pcs
    /\ \A s \in Stores : /\ s.past \in {"empty", "again", "404"}
                         /\ s.lists \in Seq(Seq(SUBSET Pcs)) \ {<<>>}

VARIABLES
    targets,    \* sources still to come, the one under way first
    store,      \* its shop
    onSale,     \* the products its product pages offer
    onList,     \* its rows with is_active = 1
    walking,    \* list | product | write | sweep | record | over | died
    place,      \* category, page, page failures in a row
    links,      \* product links seen
    toFetch,    \* links whose product page is still to be fetched
    results,
    failed,     \* error is not None
    hostBlocked,
    cut,        \* history: the walk was cut off by failures, page cap or block
    overlooked, \* history: a page of the shop failed, or a category was left
                \* that held links the walk had not seen
    truthful    \* history: every answer so far was a true one

prebuiltVars == <<targets, store, onSale, onList, walking, place, links, toFetch,
                  results, failed, hostBlocked, cut, overlooked, truthful>>
source       == <<targets, store, onSale>>

Is(s) == Head(targets) = s
FirstPage(i) == [list |-> i, page |-> 1, fails |-> 0]
Pages == store.lists[place.list]
Shelved(s) == UNION {UNION {s.lists[i][p] : p \in DOMAIN s.lists[i]} : i \in DOMAIN s.lists}

\* The links of a category's first n pages; those of the categories before i
\* and of i's first n pages.
FirstPages(l, n) == UNION {l[p] : p \in {q \in DOMAIN l : q <= n}}
LinksBefore(s, i)  == UNION {FirstPages(s.lists[j], Len(s.lists[j])) : j \in 1 .. i - 1}
LinksUpTo(s, i, n) == LinksBefore(s, i) \cup FirstPages(s.lists[i], n)

\* What the page caps take for granted of a shop: "no build category is close to
\* this many pages".
WithinCap(s) == \A i \in DOMAIN s.lists : Len(s.lists[i]) < MaxListPages

\* techmatched alone is walked by several categories.
Fits(s, name) == Len(s.lists) = 1 \/ name = "techmatched"

PrebuiltInit ==
    /\ targets \in Targets
    /\ store \in {s \in Stores : Fits(s, Head(targets))}
    /\ onSale \in SUBSET Shelved(store)
    /\ onList \in OldRows
    /\ walking = "list" /\ place = FirstPage(1)
    /\ links = {} /\ toFetch = {} /\ results = {}
    /\ failed = FALSE /\ hostBlocked = FALSE
    /\ cut = FALSE /\ overlooked = FALSE /\ truthful = TRUE

-----------------------------------------------------------------------------
(* scrape_all(): the category pages.                                       *)

\* The category is through: on to the next one, to the products, or back.
ListOver ==
    IF Is("zestro") THEN walking' = "write" /\ UNCHANGED place
    ELSE IF place.list < Len(store.lists)
    THEN place' = FirstPage(place.list + 1) /\ UNCHANGED walking
    ELSE walking' = "product" /\ UNCHANGED place

\* ScrapeIncomplete without results: the links collected so far go with it.
RaiseIncomplete ==
    /\ failed' = TRUE
    /\ toFetch' = {}
    /\ walking' = "write"
    /\ UNCHANGED <<place, links>>

NextPage(fails, seen) ==
    IF place.page = MaxListPages /\ ~Is("zestro")
    THEN IF Is("redtech")
         THEN RaiseIncomplete /\ cut' = TRUE
         ELSE /\ ListOver
              /\ links' = seen /\ toFetch' = seen
              /\ UNCHANGED <<failed, cut>>
    ELSE /\ place' = [place EXCEPT !.page = @ + 1, !.fails = fails]
         /\ links' = seen
         /\ toFetch' = toFetch \cup (seen \ links)
         /\ UNCHANGED <<walking, failed, cut>>

\* Past its last page a shop shows nothing, or that page again.
LinksOn(p) ==
    IF p \in DOMAIN Pages THEN Pages[p]
    ELSE IF store.past = "again" /\ Pages # <<>> THEN Pages[Len(Pages)] ELSE {}

\* redtech reads on where it sees the word "next": on the last page, perhaps.
MayStopHere == Is("redtech") /\ place.page >= Len(Pages)

\* The category is left at a page without a new link or at the page cap.
LeavesAt(seen)     == seen = links \/ (place.page = MaxListPages /\ ~Is("zestro"))
CategorySeen(seen) == LinksUpTo(store, place.list, Len(Pages)) \subseteq seen

ListPage ==
    LET seen == links \cup LinksOn(place.page)
    IN /\ walking = "list" /\ ~hostBlocked
       /\ place.page \in DOMAIN Pages \/ store.past # "404"
       /\ \/ /\ seen = links
             /\ ListOver
             /\ UNCHANGED <<links, toFetch, failed, cut>>
          \/ \* zestro fetches the new products before it turns the page
             /\ seen # links /\ Is("zestro")
             /\ walking' = "product" /\ place' = [place EXCEPT !.fails = 0]
             /\ links' = seen /\ toFetch' = seen \ links
             /\ UNCHANGED <<failed, cut>>
          \/ /\ seen # links /\ ~Is("zestro")
             /\ NextPage(0, seen)
          \/ /\ seen # links /\ MayStopHere
             /\ ListOver
             /\ links' = seen /\ toFetch' = seen
             /\ UNCHANGED <<failed, cut>>
       /\ overlooked' = (overlooked \/ (LeavesAt(seen) /\ ~CategorySeen(seen)))
       /\ UNCHANGED <<source, onList, results, hostBlocked, truthful>>

\* Mutant: the 404 that ends redtech's pages is a failure like any other.
NeverIs404(o) == FALSE

\* _is_404(e)
Is404(o) == o = "404" /\ Is("redtech")

\* A third failure in a row: the error is kept for the end of the walk.
GiveUpList ==
    /\ failed' = TRUE /\ cut' = TRUE
    /\ ListOver
    /\ UNCHANGED <<links, toFetch>>

TrueEnd(o) == o = "404" /\ store.past = "404" /\ place.page \notin DOMAIN Pages

ListFails(o) ==
    /\ walking = "list"
    /\ hostBlocked => o = "block"
    /\ hostBlocked' = (o = "block")
    /\ overlooked' = (overlooked \/ place.page \in DOMAIN Pages)
    /\ truthful' = (truthful /\ TrueEnd(o))
    /\ IF Is("techmatched")
       THEN \* `except RuntimeError: break`; HostBlocked is none
            IF o = "block" THEN RaiseIncomplete /\ cut' = TRUE
            ELSE ListOver /\ UNCHANGED <<links, toFetch, failed, cut>>
       ELSE IF Is404(o) THEN ListOver /\ UNCHANGED <<links, toFetch, failed, cut>>
       ELSE IF place.fails + 1 >= GiveUpAfter THEN GiveUpList
       ELSE NextPage(place.fails + 1, links)
    /\ UNCHANGED <<source, onList, results>>

-----------------------------------------------------------------------------
(* scrape_all(): the product pages.  Their failures are printed.           *)

ProductPage(p) ==
    /\ walking = "product" /\ p \in toFetch /\ ~hostBlocked
    /\ toFetch' = toFetch \ {p}
    /\ results' = results \cup ({p} \cap onSale)
    /\ UNCHANGED <<source, onList, walking, place, links, failed, hostBlocked, cut,
                   overlooked, truthful>>

ProductFails(p, o) ==
    /\ walking = "product" /\ p \in toFetch
    /\ hostBlocked => o = "block"
    /\ hostBlocked' = (o = "block")
    /\ cut' = (cut \/ o = "block")
    /\ toFetch' = toFetch \ {p}
    /\ overlooked' = TRUE /\ truthful' = FALSE
    /\ UNCHANGED <<source, onList, walking, place, links, results, failed>>

ProductsOver ==
    /\ walking = "product" /\ toFetch = {}
    /\ IF Is("zestro")
       THEN walking' = "list" /\ place' = [place EXCEPT !.page = @ + 1]
       ELSE walking' = "write" /\ UNCHANGED place
    /\ UNCHANGED <<source, onList, links, toFetch, results, failed, hostBlocked, cut,
                   overlooked, truthful>>

-----------------------------------------------------------------------------
(* main(): write, sweep, record.                                           *)

\* upsert_prebuilts(): one commit, that also brings delisted rows back.
UpsertPrebuilts ==
    /\ walking = "write"
    /\ onList' = onList \cup results
    /\ walking' = "sweep"
    /\ UNCHANGED <<source, place, links, toFetch, results, failed, hostBlocked, cut,
                   overlooked, truthful>>

\* Mutant: only what scrape_all() raised counts.
OkUnlessRaised == results # {} /\ ~failed

\* ok: newly_blocked is an error as well.
Ok == results # {} /\ ~failed /\ ~hostBlocked

\* deactivate_unseen_prebuilts(), redone whole when its stream is lost.
SweepPrebuilts ==
    /\ walking = "sweep"
    /\ onList' = IF Ok THEN onList \cap results ELSE onList
    /\ walking' = "record"
    /\ UNCHANGED <<source, place, links, toFetch, results, failed, hostBlocked, cut,
                   overlooked, truthful>>

\* record_scrape_run(), and on to the next source.
RecordPrebuilts ==
    /\ walking = "record"
    /\ IF Len(targets) = 1
       THEN walking' = "over" /\ UNCHANGED <<source, onList>>
       ELSE /\ walking' = "list"
            /\ targets' = Tail(targets)
            /\ store' \in {s \in Stores : Fits(s, Head(targets'))}
            /\ onSale' \in SUBSET Shelved(store')
            /\ onList' \in OldRows
    /\ place' = FirstPage(1)
    /\ links' = {} /\ toFetch' = {} /\ results' = {}
    /\ failed' = FALSE /\ hostBlocked' = FALSE
    /\ cut' = FALSE /\ overlooked' = FALSE /\ truthful' = TRUE

\* A database call raises for good, or the job is killed: no other source is run.
PrebuiltRunDies ==
    /\ walking \notin {"over", "died"}
    /\ walking' = "died"
    /\ UNCHANGED <<source, onList, place, links, toFetch, results, failed, hostBlocked,
                   cut, overlooked, truthful>>

PrebuiltRunOver == walking \in {"over", "died"} /\ UNCHANGED prebuiltVars

PrebuiltNext ==
    \/ ListPage
    \/ \E o \in {"404", "fail", "block"} :
          ListFails(o) \/ \E p \in Pcs : ProductFails(p, o)
    \/ \E p \in Pcs : ProductPage(p)
    \/ ProductsOver \/ UpsertPrebuilts \/ SweepPrebuilts \/ RecordPrebuilts
    \/ PrebuiltRunDies \/ PrebuiltRunOver

PrebuiltSpec == PrebuiltInit /\ [][PrebuiltNext]_prebuiltVars

-----------------------------------------------------------------------------
(* Properties.                                                             *)

\* A prebuilt that its shop still offers is delisted only by a run in which a
\* page failed and went unreported, or that left a category for a page without a
\* new link (or for techmatched's page cap) while there was more of it: never by
\* one that gave up on a category, raised at its page cap or was blocked, even in
\* the middle of the product pages, where every failure is swallowed; and never
\* where every page came.
SweepTakesOnlyTheGone ==
    [][walking = "sweep" =>
          \A p \in onList \ onList' : p \in onSale => overlooked /\ ~cut]_prebuiltVars

\* A shop that answers every request as it is, and whose categories are read to
\* their ends, ends up as it is, whatever was listed before: the end of its pages
\* (a 404, an empty page, the last page again) is not taken for a fault.
\* (zestro's walk takes the 404 for one, redtech's its page cap.)
TruthfulShopSettles ==
    walking = "record" /\ truthful /\ ~overlooked /\ WithinCap(store) /\ onSale # {}
        => onList = onSale \/ (Is("zestro") /\ store.past = "404")

\* "Returning a short list instead of raising is what produced the techmatched
\* amputation": a source that was swept lists all that its shop offers.
SweptMeansSeen == walking = "record" /\ Ok => onSale \subseteq onList

\* "A page whose links were all already seen means WooCommerce served the last
\* page again (no real page N)": when techmatched turns to the products of a
\* shop that answered every request as it is, no page of its categories is left
\* with a link the walk has not seen.
SeenBeforeIsTheEnd ==
    walking = "product" /\ Is("techmatched") /\ truthful /\ WithinCap(store)
        => links = Shelved(store)

=============================================================================
