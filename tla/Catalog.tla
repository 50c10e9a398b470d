------------------------------ MODULE Catalog ------------------------------
(* The products of the shop and the event bus that tells of them, as the   *)
(* import and the CDN plugins use them.  Both belong to @vendure/core: the  *)
(* services commit a product or a variant in a transaction of its own, and  *)
(* the event is delivered, in the process that made the change, after it.   *)
EXTENDS Naturals, Sequences, FiniteSets

CONSTANTS
    Processes,    \* operating-system processes: the server and the workers
    Server,       \* the process that answers the API requests
    Keys,         \* identities of products
    Watched,      \* the products that an administrator edits and a shopper asks for
    MaxEdits      \* bound: how often the administrator changes something

ASSUME CatalogAssumption ==
    /\ Server \in Processes
    /\ Watched \subseteq Keys
    /\ MaxEdits \in Nat

VARIABLES
    catalog,      \* the products of the database
    rate,         \* how often the tax rate has changed
    events,       \* what was published in a process and waits in the buffers there
    edits         \* changes made by the administrator so far

catalogVars == <<catalog, rate, events, edits>>

Absent == [edition |-> 0]

Exists(k) == catalog[k] # Absent

\* A new product has no variants; edition and variantEdition count the changes
\* of its own fields and of those of its variants.
NewProduct == [edition |-> 1, variantEdition |-> 1, variants |-> <<>>]

Kinds == {"product", "variant", "taxRate"}

\* The event of a tax rate names no product.
NoKey == <<>>

Events == ({"product", "variant"} \X Watched) \cup {<<"taxRate", NoKey>>}

CatalogInit ==
    /\ catalog = [k \in Keys |-> Absent]
    /\ rate = 0
    /\ events = [p \in Processes |-> {}]
    /\ edits = 0

\* Events of products that nobody asks for are not followed.
Publish(p, kind, k) ==
    events' = [events EXCEPT ![p] = @ \cup ({<<kind, k>>} \cap Events)]

UpdateProduct(k) ==
    /\ Exists(k) /\ edits < MaxEdits
    /\ catalog' = [catalog EXCEPT ![k].edition = @ + 1]
    /\ edits' = edits + 1
    /\ Publish(Server, "product", k)
    /\ UNCHANGED rate

UpdateVariant(k) ==
    /\ Exists(k) /\ catalog[k].variants # <<>> /\ edits < MaxEdits
    /\ catalog' = [catalog EXCEPT ![k].variantEdition = @ + 1]
    /\ edits' = edits + 1
    /\ Publish(Server, "variant", k)
    /\ UNCHANGED rate

\* Prices with tax are computed from the rate; no product changes.
UpdateTaxRate ==
    /\ edits < MaxEdits
    /\ rate' = rate + 1
    /\ edits' = edits + 1
    /\ Publish(Server, "taxRate", NoKey)
    /\ UNCHANGED catalog

Administrator ==
    \/ \E k \in Watched : UpdateProduct(k) \/ UpdateVariant(k)
    \/ UpdateTaxRate

=============================================================================
