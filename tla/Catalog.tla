------------------------------ MODULE Catalog ------------------------------
(***************************************************************************)
(* A product in the catalogue, its reviews, and its copy in the search     *)
(* index.  (services/inventory: ProductService, StockService, AdminService,*)
(* ReviewService, RedisStreamIndexEventPublisher; services/search:         *)
(* consumer, indexer)                                                      *)
(*                                                                         *)
(* A request is a PostgreSQL transaction at READ COMMITTED.  It reads the  *)
(* product, all but setStock without a lock, writes every column back at   *)
(* its commit, and appends its index event to the stream before that.  The *)
(* replicas of search share one consumer group; an entry one of them has   *)
(* read and not acknowledged is given to nobody again.                     *)
(*                                                                         *)
(* The text of a product stands for its name, description and category;    *)
(* the average rating for the reviews it is the mean of.  The stock itself *)
(* is Fulfillment's; requests that are refused change nothing and are left *)
(* out, a publication by a supplier who is not verified among them.        *)
(***************************************************************************)
EXTENDS Integers, Sequences, FiniteSetsExt

CONSTANTS
    Transactions,   \* requests that run at one time
    Consumers,      \* replicas of search
    Texts,          \* what suppliers write of the product
    Reviews,        \* reviews retailers write
    Author,         \* Author[v]: the retailer who writes v
    BatchSize,      \* entries an XREADGROUP returns at most
    MaxChanges,     \* bound: requests in all
    NoLock,         \* lock while the row is not locked
    NoDoc           \* index without the product

ASSUME BatchSizeAssumption == BatchSize \in Nat \ {0}
ASSUME MaxChangesAssumption == MaxChanges \in Nat
ASSUME NoLockAssumption == NoLock \notin Transactions
ASSUME AuthorAssumption == DOMAIN Author = Reviews

Statuses == {"DRAFT", "PUBLISHED", "UNPUBLISHED", "OUT_OF_STOCK", "REMOVED"}
Row == [status : Statuses, text : Texts, rated : SUBSET Reviews]
Doc == [status : Statuses, text : Texts]

VARIABLES
    row,            \* the product row, as committed
    reviews,        \* review rows
    hidden,         \* those an administrator has hidden
    rowLock,        \* the request with the row lock
    stage,          \* stage[w]: "idle", "find", "average", "send", "commit"
    mine,           \* mine[w]: the row w is going to write
    event,          \* event[w]: the event it sends: "none", "upsert", "delete"
    changed,        \* changed[w]: the review it inserts or hides, if any
    log,            \* the stream: a document, or NoDoc for a deletion
    next,           \* the entry the group reads next
    hand,           \* hand[c]: entries c has read and not got through
    index,          \* the document of the index
    changes,        \* bound: requests so far
    behind,         \* history: requests whose product has changed since
    raced,          \* history: one of them has committed
    lost            \* history: an event was lost, failed, came of a rollback
                    \*          or was applied out of order

committed == <<row, reviews, hidden, rowLock>>
inFlight == <<stage, mine, event, changed, changes>>
search == <<next, hand, index>>
catalogVars == <<committed, inFlight, log, search, behind, raced, lost>>

NoChange == [status |-> "DRAFT", text |-> CHOOSE t \in Texts : TRUE, rated |-> {}]
DocOf(r) == [status |-> r.status, text |-> r.text]
Visible == reviews \ hidden
Running == {w \in Transactions : stage[w] # "idle"}

(***************************************************************************)
(* A product is created as a DRAFT with no event.                          *)
(***************************************************************************)
CatalogInit ==
    /\ \E t \in Texts : row = [status |-> "DRAFT", text |-> t, rated |-> {}]
    /\ reviews = {}
    /\ hidden = {}
    /\ rowLock = NoLock
    /\ stage = [w \in Transactions |-> "idle"]
    /\ mine = [w \in Transactions |-> NoChange]
    /\ event = [w \in Transactions |-> "none"]
    /\ changed = [w \in Transactions |-> {}]
    /\ log = <<>>
    /\ next = 1
    /\ hand = [c \in Consumers |-> {}]
    /\ index = NoDoc
    /\ changes = 0
    /\ behind = {}
    /\ raced = FALSE
    /\ lost = FALSE

-----------------------------------------------------------------------------
(***************************************************************************)
(* Requests on the product: what they read, what they will write, what     *)
(* they will send.                                                         *)
(***************************************************************************)
Opens(w, r, e) ==
    /\ stage[w] = "idle"
    /\ changes < MaxChanges
    /\ changes' = changes + 1
    /\ mine' = [mine EXCEPT ![w] = r]
    /\ event' = [event EXCEPT ![w] = e]
    /\ stage' = [stage EXCEPT ![w] = IF e = "none" THEN "commit" ELSE "send"]
    /\ UNCHANGED <<row, reviews, hidden, changed, log, search, behind, raced, lost>>

publish(w) ==
    /\ Opens(w, [row EXCEPT !.status = "PUBLISHED"], "upsert")
    /\ UNCHANGED rowLock

\* Broken variant of update: the index is not told.
updateQuietly(w) ==
    /\ \E t \in Texts : Opens(w, [row EXCEPT !.text = t], "none")
    /\ UNCHANGED rowLock

updateProduct(w) ==
    /\ \E t \in Texts :
        Opens(w, [row EXCEPT !.text = t],
               IF row.status = "PUBLISHED" THEN "upsert" ELSE "none")
    /\ UNCHANGED rowLock

unpublish(w) ==
    /\ Opens(w, [row EXCEPT !.status = "UNPUBLISHED"], "delete")
    /\ UNCHANGED rowLock

removeProduct(w) ==
    /\ Opens(w, [row EXCEPT !.status = "REMOVED"], "delete")
    /\ UNCHANGED rowLock

(***************************************************************************)
(* applyStockChange: a product runs out, or is sold again.                 *)
(***************************************************************************)
applyStockChange(status, inStock) ==
    CASE ~inStock /\ status = "PUBLISHED" -> "OUT_OF_STOCK"
      [] inStock /\ status = "OUT_OF_STOCK" -> "PUBLISHED"
      [] OTHER -> status

setStock(w) ==
    /\ rowLock = NoLock
    /\ rowLock' = w
    /\ \E inStock \in BOOLEAN :
        LET status == applyStockChange(row.status, inStock)
        IN Opens(w, [row EXCEPT !.status = status],
                  IF status # row.status THEN "upsert" ELSE "none")

(***************************************************************************)
(* submit reads the product and whether the retailer has reviewed it;      *)
(* removeReview hides a review, and finds the product afterwards.  Both    *)
(* then average what is visible to their transaction by then.              *)
(***************************************************************************)
submit(w) ==
    /\ stage[w] = "idle"
    /\ changes < MaxChanges
    /\ \E v \in Reviews :
        /\ \A u \in reviews : Author[u] # Author[v]
        /\ \A x \in Running : v \notin changed[x]
        /\ changed' = [changed EXCEPT ![w] = {v}]
    /\ mine' = [mine EXCEPT ![w] = row]
    /\ stage' = [stage EXCEPT ![w] = "average"]
    /\ changes' = changes + 1
    /\ UNCHANGED <<committed, event, log, search, behind, raced, lost>>

removeReview(w) ==
    /\ stage[w] = "idle"
    /\ changes < MaxChanges
    /\ \E v \in reviews : changed' = [changed EXCEPT ![w] = {v}]
    /\ stage' = [stage EXCEPT ![w] = "find"]
    /\ changes' = changes + 1
    /\ UNCHANGED <<committed, mine, event, log, search, behind, raced, lost>>

findProduct(w) ==
    /\ stage[w] = "find"
    /\ mine' = [mine EXCEPT ![w] = row]
    /\ stage' = [stage EXCEPT ![w] = "average"]
    /\ UNCHANGED <<committed, event, changed, changes, log, search, behind, raced, lost>>

Inserts(w) == changed[w] \ reviews
Hides(w) == changed[w] \cap reviews

\* Broken variant of recalculateAverage: hidden reviews count.
recalculateAll(w) ==
    /\ stage[w] = "average"
    /\ mine' = [mine EXCEPT ![w].rated = reviews \cup Inserts(w)]
    /\ stage' = [stage EXCEPT ![w] = "commit"]
    /\ UNCHANGED <<committed, event, changed, changes, log, search, behind, raced, lost>>

recalculateAverage(w) ==
    /\ stage[w] = "average"
    /\ mine' = [mine EXCEPT ![w].rated = (Visible \ Hides(w)) \cup Inserts(w)]
    /\ stage' = [stage EXCEPT ![w] = "commit"]
    /\ UNCHANGED <<committed, event, changed, changes, log, search, behind, raced, lost>>

(***************************************************************************)
(* The event, with the document as the transaction sees it; an error of    *)
(* Redis is logged and the request goes on without it.                     *)
(***************************************************************************)
Send(w) ==
    /\ stage[w] = "send"
    /\ log' = Append(log, IF event[w] = "delete" THEN NoDoc ELSE DocOf(mine[w]))
    /\ stage' = [stage EXCEPT ![w] = "commit"]
    /\ UNCHANGED <<committed, mine, event, changed, changes, search, behind, raced, lost>>

SendFails(w) ==
    /\ stage[w] = "send"
    /\ stage' = [stage EXCEPT ![w] = "commit"]
    /\ lost' = TRUE
    /\ UNCHANGED <<committed, mine, event, changed, changes, log, search, behind, raced>>

(***************************************************************************)
(* The end of a transaction.  A row that somebody has locked is written    *)
(* after him.                                                              *)
(***************************************************************************)
Closes(w) ==
    /\ stage' = [stage EXCEPT ![w] = "idle"]
    /\ mine' = [mine EXCEPT ![w] = NoChange]
    /\ event' = [event EXCEPT ![w] = "none"]
    /\ changed' = [changed EXCEPT ![w] = {}]
    /\ rowLock' = IF rowLock = w THEN NoLock ELSE rowLock
    /\ UNCHANGED <<changes, log, search>>

Commit(w) ==
    /\ stage[w] = "commit"
    /\ rowLock \in {NoLock, w}
    /\ row' = mine[w]
    /\ reviews' = reviews \cup Inserts(w)
    /\ hidden' = hidden \cup Hides(w)
    /\ behind' = {x \in Running \ {w} : stage[x] # "find"}
    /\ raced' = (raced \/ w \in behind)
    /\ Closes(w)
    /\ UNCHANGED lost

RollsBack(w) ==
    /\ stage[w] # "idle"
    /\ behind' = behind \ {w}
    /\ lost' = (lost \/ (event[w] # "none" /\ stage[w] = "commit"))
    /\ Closes(w)
    /\ UNCHANGED <<row, reviews, hidden, raced>>

-----------------------------------------------------------------------------
\* Broken variant of Fetch: the group gives an entry to every replica.
FetchAgain(c) ==
    /\ hand[c] = {}
    /\ next <= Len(log)
    /\ hand' = [hand EXCEPT ![c] = {next}]
    /\ UNCHANGED <<committed, inFlight, log, next, index, behind, raced, lost>>

(***************************************************************************)
(* A replica of search reads what no replica has read, a batch at a time,  *)
(* and handles it in order; then it acknowledges the entry.  An error of   *)
(* the index or of the acknowledgement leaves it unacknowledged, in the    *)
(* one case before and in the other after the index has changed.  A        *)
(* replica that stops drops the rest of its batch.                         *)
(***************************************************************************)
Fetch(c) ==
    /\ hand[c] = {}
    /\ next <= Len(log)
    /\ LET last == Min({next + BatchSize - 1, Len(log)})
       IN /\ hand' = [hand EXCEPT ![c] = next .. last]
          /\ next' = last + 1
    /\ UNCHANGED <<committed, inFlight, log, index, behind, raced, lost>>

First(c) == Min(hand[c])
Passed(c) == hand' = [hand EXCEPT ![c] = @ \ {First(c)}]
Overtakes(c) == \E d \in Consumers : \E n \in hand[d] : n < First(c)

\* Broken variant of handle_event: only upserts are handled.
handle_upserts(c) ==
    /\ hand[c] # {}
    /\ index' = IF log[First(c)] = NoDoc THEN index ELSE log[First(c)]
    /\ Passed(c)
    /\ lost' = (lost \/ Overtakes(c))
    /\ UNCHANGED <<committed, inFlight, log, next, behind, raced>>

handle_event(c) ==
    /\ hand[c] # {}
    /\ index' = log[First(c)]
    /\ Passed(c)
    /\ lost' = (lost \/ Overtakes(c))
    /\ UNCHANGED <<committed, inFlight, log, next, behind, raced>>

Fails(c) ==
    /\ hand[c] # {}
    /\ Passed(c)
    /\ lost' = TRUE
    /\ UNCHANGED <<committed, inFlight, log, next, index, behind, raced>>

Stops(c) ==
    /\ hand[c] # {}
    /\ hand' = [hand EXCEPT ![c] = {}]
    /\ lost' = TRUE
    /\ UNCHANGED <<committed, inFlight, log, next, index, behind, raced>>

Request(w) ==
    publish(w) \/ updateProduct(w) \/ unpublish(w) \/ removeProduct(w) \/ setStock(w)
        \/ submit(w) \/ removeReview(w)

Continue(w) ==
    findProduct(w) \/ recalculateAverage(w) \/ Send(w) \/ SendFails(w)
        \/ Commit(w) \/ RollsBack(w)

Consume(c) == Fetch(c) \/ handle_event(c) \/ Fails(c)

CatalogNext ==
    \/ \E w \in Transactions : Request(w) \/ Continue(w)
    \/ \E c \in Consumers : Consume(c) \/ Stops(c)

(***************************************************************************)
(* A transaction goes on until it ends, and the loop of a replica until it *)
(* has no entries.                                                         *)
(***************************************************************************)
CatalogFairness ==
    /\ \A w \in Transactions : WF_catalogVars(Continue(w))
    /\ \A c \in Consumers : WF_catalogVars(Consume(c))

CatalogSpec == CatalogInit /\ [][CatalogNext]_catalogVars /\ CatalogFairness

-----------------------------------------------------------------------------
(***************************************************************************)
(* Rows, transactions, the stream and the index have the values the code   *)
(* gives them; the lock belongs to a request that runs; an entry is in at  *)
(* most one hand, and only after it was read.                              *)
(***************************************************************************)
CatalogTypeOK ==
    /\ row \in Row
    /\ hidden \subseteq reviews /\ reviews \subseteq Reviews
    /\ rowLock \in Running \cup {NoLock}
    /\ stage \in [Transactions -> {"idle", "find", "average", "send", "commit"}]
    /\ mine \in [Transactions -> Row]
    /\ event \in [Transactions -> {"none", "upsert", "delete"}]
    /\ changed \in [Transactions -> SUBSET Reviews]
    /\ log \in Seq(Doc \cup {NoDoc})
    /\ next \in 1 .. Len(log) + 1
    /\ \A c, d \in Consumers : hand[c] \subseteq 1 .. next - 1
                               /\ (c # d => hand[c] \cap hand[d] = {})
    /\ index \in Doc \cup {NoDoc}
    /\ behind \subseteq Running

Offered(d) == IF d # NoDoc /\ d.status = "PUBLISHED" THEN {d.text} ELSE {}

Agrees == Offered(index) = Offered(DocOf(row))

Settled ==
    /\ Running = {}
    /\ next > Len(log)
    /\ \A c \in Consumers : hand[c] = {}

(***************************************************************************)
(* What search offers is what is PUBLISHED, with its present text, once    *)
(* all is handled: after any requests and stock changes, sent before their *)
(* commits and read by any replica, unless requests overlapped or an event *)
(* went astray.  (ProductService.java: re-index on each change that shows) *)
(***************************************************************************)
IndexFollows == Settled /\ ~raced /\ ~lost => Agrees

(***************************************************************************)
(* The same as a promise for later: an index that has fallen behind        *)
(* catches up, for requests end and replicas go on reading.                *)
(***************************************************************************)
IndexCatchesUp == ~Agrees ~> (Agrees \/ raced \/ lost)

(***************************************************************************)
(* The rating kept with a product is that of its visible reviews, one from *)
(* each retailer, whatever else was going on at the product, unless a      *)
(* request wrote back a row that had changed since it read it.             *)
(* (RatingCalculator.java: "equals the arithmetic mean of the ratings of   *)
(* the currently visible (non-hidden) reviews")                            *)
(***************************************************************************)
RatingIsCurrent ==
    ~raced => /\ row.rated = Visible
              /\ \A u, v \in reviews : u # v => Author[u] # Author[v]

(***************************************************************************)
(* The values are those of the code, and the rating is that of the         *)
(* reviews.                                                                *)
(***************************************************************************)
ReviewsAreSound ==
    /\ CatalogTypeOK
    /\ RatingIsCurrent

(***************************************************************************)
(* ProductService.java:88: publish "Publishes a DRAFT/UNPUBLISHED product".*)
(* A product an administrator has removed is published by no single        *)
(* request.  The status is not looked at, so it is.                        *)
(***************************************************************************)
RemovedIsNotPublished ==
    [][row.status = "REMOVED" /\ row'.status = "PUBLISHED" => raced']_catalogVars
=============================================================================
