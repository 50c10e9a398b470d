---------------------------- MODULE StellateCache ----------------------------
(* The purging of the Stellate CDN (stellate-plugin): events of the catalog   *)
(* are collected in a buffer of each rule and, after a pause, the entries     *)
(* that show what changed are purged by requests nobody waits for.  The CDN   *)
(* answers shop queries from its cache and fills it from the shop.            *)
EXTENDS Catalog, Functions

CONSTANTS
    DebugLogging, \* StellatePluginOptions.debugLogging
    LogLimit,     \* how many keys are logged of one purge
    QuickFills    \* a shop query is answered within the buffer time

ASSUME StellateAssumption ==
    /\ DebugLogging \in BOOLEAN
    /\ LogLimit \in Nat
    /\ QuickFills \in BOOLEAN

VARIABLES
    entry,        \* the entry of the cache that is followed: a type and a product
    cached,       \* the answer that the CDN keeps for it
    filling,      \* an answer of the shop under way to the CDN
    purging,      \* purge requests under way that concern the entry
    dropped       \* history: some change of what it shows will not be purged any more

stellateVars == <<entry, cached, filling, purging, dropped>>

CachedTypes == {"Product", "ProductVariant", "SearchResult"}

Nothing == <<>>

\* What an answer of each type shows of a product.  The variants listed on a
\* product's page are entries of their own.
Shown(t, k) ==
    CASE t = "Product"        -> <<catalog[k].edition>>
      [] t = "ProductVariant" -> <<catalog[k].variantEdition, rate>>
      [] t = "SearchResult"   -> <<catalog[k].edition, catalog[k].variantEdition,
                                   catalog[k].variants, rate>>

Current == Shown(entry[1], entry[2])

\* The entries of the CDN do not depend on one another: any one of them is followed.
StellateInit ==
    /\ entry \in CachedTypes \X Watched
    /\ cached = Nothing
    /\ filling = Nothing
    /\ purging = {}
    /\ dropped = FALSE

\* A shop query that the cache cannot answer reads the database ...
ShopQuery ==
    /\ Exists(entry[2])
    /\ entry[1] # "Product" => catalog[entry[2]].variants # <<>>
    /\ cached = Nothing /\ filling = Nothing
    /\ filling' = Current
    /\ UNCHANGED <<catalogVars, entry, cached, purging, dropped>>

\* ... and its answer is kept.
Fill ==
    /\ filling # Nothing
    /\ cached' = filling
    /\ filling' = Nothing
    /\ UNCHANGED <<catalogVars, entry, purging, dropped>>

\* Mutant: variants are purged without the search results that show them.
RuleForgetsSearch(kind) ==
    CASE kind = "product" -> {"Product", "SearchResult"}
      [] kind = "variant" -> {"ProductVariant"}
      [] kind = "taxRate" -> CachedTypes

\* The types that the default rule of an event purges.  The rule of tax rates names
\* SearchResponse, which contains every search result.
Rule(kind) ==
    CASE kind = "product" -> {"Product", "SearchResult"}
      [] kind = "variant" -> {"ProductVariant", "SearchResult"}
      [] kind = "taxRate" -> CachedTypes

\* The products that a batch of events names; the event of a tax rate means all.
KeysOf(batch) == IF NoKey \in {e[2] : e \in batch} THEN Watched ELSE {e[2] : e \in batch}

\* debugLogging shortens the list of keys that is logged, which is the one sent.
KeysSent(batch) ==
    IF DebugLogging /\ Cardinality(KeysOf(batch)) > LogLimit
    THEN {S \in SUBSET KeysOf(batch) : Cardinality(S) = LogLimit}
    ELSE {KeysOf(batch)}

\* The requests of a rule for these keys that concern the entry.
PurgeRequests(kind, keys) == {r \in [type : Rule(kind), keys : {keys}] :
                                 r.type = entry[1] /\ entry[2] \in r.keys}

Batch(p, kind) == {e \in events[p] : e[1] = kind}

\* The buffer of a rule is handed over when no event of its kind has come for a while.
Flush(p, kind) ==
    /\ Batch(p, kind) # {}
    /\ QuickFills => (filling # Nothing => filling = Current)
    /\ events' = [events EXCEPT ![p] = @ \ Batch(p, kind)]
    /\ \E keys \in KeysSent(Batch(p, kind)) :
          purging' = purging \cup PurgeRequests(kind, keys)
    /\ UNCHANGED <<catalog, rate, edits, entry, cached, filling, dropped>>

\* The CDN forgets the entry.
Purged(purge) ==
    /\ purge \in purging
    /\ purging' = purging \ {purge}
    /\ cached' = Nothing
    /\ UNCHANGED <<catalogVars, entry, filling, dropped>>

\* A failed request is logged; nothing repeats it.
PurgeFails(purge) ==
    /\ purge \in purging
    /\ purging' = purging \ {purge}
    /\ dropped' = TRUE
    /\ UNCHANGED <<catalogVars, entry, cached, filling>>

\* An event in the buffers of these processes whose rule purges the entry.
Awaited(ps) == \E p \in ps : \E e \in events[p] : PurgeRequests(e[1], KeysOf({e})) # {}

\* The buffers are memory of the process.
BufferLost(p) ==
    /\ events' = [events EXCEPT ![p] = {}]
    /\ dropped' = (dropped \/ Awaited({p}))
    /\ UNCHANGED <<catalog, rate, edits, entry, cached, filling, purging>>

Shopper == ShopQuery \/ Fill

Stellate ==
    \/ \E p \in Processes, kind \in Kinds : Flush(p, kind)
    \/ \E purge \in purging : Purged(purge)

StellateType ==
    /\ \A p \in Processes : events[p] \subseteq Events
    /\ entry \in CachedTypes \X Watched
    /\ Len(cached) \in {0, 1, 2, 4} /\ Len(filling) \in {0, 1, 2, 4}
    /\ purging \subseteq [type : {entry[1]}, keys : SUBSET Watched]
    /\ dropped \in BOOLEAN

=============================================================================
