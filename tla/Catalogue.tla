------------------------------ MODULE Catalogue ------------------------------
(***************************************************************************)
(* The product catalogue: products, the receipt lines matched to them, the *)
(* price history rows the lines leave, the denormalised purchase count of  *)
(* a product, and the GTIN that identifies it (internal/api/products.go,   *)
(* matching.go, receipts.go, receipts_barcode.go, internal/prices,         *)
(* internal/identifiers).                                                  *)
(*                                                                         *)
(* A transaction is one step.  A handler that looks at the database before *)
(* it opens its transaction is two steps, and what it saw may be stale in  *)
(* the second.  db.Open switches foreign keys on for one connection of the *)
(* pool only, so a transaction runs with or without their enforcement:     *)
(* ForeignKeys is the set of settings its connection may have.             *)
(*                                                                         *)
(* A line is named by its raw name, a batch of line items is modelled by   *)
(* its one-item case, and the aliases, store codes, rules, packages and    *)
(* amounts a match also writes are left out.                               *)
(***************************************************************************)
EXTENDS Naturals, FiniteSets

CONSTANTS Product, Line, Receipt, Gtin, Client,
          ReceiptOf,    \* the receipt a line belongs to
          Printed,      \* the GTIN read from a line, or None
          ForeignKeys,  \* settings of the foreign_keys pragma in the pool
          None

\* A line's columns: the product it is matched to, and the one suggested.
Row == [product : Product \cup {None}, hint : Product \cup {None}]

ASSUME CatalogueAssumption ==
  /\ ReceiptOf \in [Line -> Receipt]
  /\ Printed \in [Line -> Gtin \cup {None}]
  /\ ForeignKeys \subseteq BOOLEAN
  /\ None \notin Product \cup Line \cup Receipt \cup Gtin \cup Row
  /\ IsFiniteSet(Line)

VARIABLES
  db,      \* the tables
  pending  \* what the request of a client found before its transaction

vars == <<db, pending>>

Tables ==
  [product : [Product -> {"absent", "live", "gone"}],
   upc     : [Product -> Gtin \cup {None}],       \* products.upc
   count   : [Product -> Nat],                    \* products.purchase_count
   owner   : [Gtin -> Product \cup {None}],       \* product_identifiers
   receipt : [Receipt -> {"absent", "bare", "stored", "gone"}],
   line    : [Line -> Row \cup {None}],           \* line_items
   price   : [Line -> Product \cup {None}]]       \* product_prices

Idle == [op |-> "idle", line |-> None, product |-> None, gtin |-> None,
         stored |-> FALSE]

Request == [op : {"idle", "manual", "add", "match", "relink", "accept",
                  "repair", "put", "suggest", "bulk", "barcode"},
            line : Line \cup Receipt \cup {None},
            product : Product \cup {None},
            gtin : Gtin \cup {None},
            stored : BOOLEAN]

Init ==
  /\ db = [product |-> [p \in Product |-> "absent"],
           upc     |-> [p \in Product |-> None],
           count   |-> [p \in Product |-> 0],
           owner   |-> [g \in Gtin |-> None],
           receipt |-> [r \in Receipt |-> "absent"],
           line    |-> [l \in Line |-> None],
           price   |-> [l \in Line |-> None]]
  /\ pending = [c \in Client |-> Idle]

-----------------------------------------------------------------------------
(* What the shared helpers do to the tables.                               *)

Live(d) == {p \in Product : d.product[p] = "live"}

Exists(d, r) == d.receipt[r] \in {"bare", "stored"}

LinesOf(d, r) == {l \in Line : ReceiptOf[l] = r /\ d.line[l] # None}

RowsOf(d, p) == {l \in Line : d.price[l] = p}

(* A reference to p can be written: the row exists, or nobody checks.      *)
MayRefer(d, fk, p) == p \in Live(d) \/ p = None \/ ~fk

(* The product RecordProductPriceFromLineItem records a row for, or None.  *)
PricedFor(d, l) ==
  IF d.line[l] # None /\ d.receipt[ReceiptOf[l]] = "stored"
  THEN d.line[l].product ELSE None

\* Mutant of CanRecord: the price is written whatever became of the product.
RecordBlindly(d, ls) == \A l \in ls : d.line[l] # None \/ PricedFor(d, l) = None

(* loadProductPriceContext fails for a product that is not there.          *)
CanRecord(d, ls) == \A l \in ls : PricedFor(d, l) \in Live(d) \cup {None}

\* Mutant of Conflict: nobody asks whose identifier it is.
NoConflict(d, p, g) == FALSE

(* Rows inserted, moved or deleted, and the products on both sides counted *)
(* again.                                                                  *)
Recorded(d, ls) ==
  LET rows == [l \in Line |-> IF l \in ls THEN PricedFor(d, l) ELSE d.price[l]]
      touched == {d.price[l] : l \in ls} \cup {rows[l] : l \in ls}
  IN [d EXCEPT
        !.price = rows,
        !.count = [p \in Product |->
                     IF p \in touched \cap Live(d)
                     THEN Cardinality({l \in Line : rows[l] = p})
                     ELSE d.count[p]]]

Conflict(d, p, g) == d.owner[g] \notin {None, p}

(* Another product's row holds the unique (household, upc).                *)
UpcTaken(d, p, g) == \E q \in Live(d) \ {p} : d.upc[q] = g

(* UpsertProductIdentifier with SetPrimaryProduct.                         *)
Identified(d, p, g) ==
  [d EXCEPT !.owner[g] = p,
            !.upc[p] = IF p \in Live(d) /\ ~UpcTaken(d, p, g) THEN g ELSE @]

(* The same where the caller only logs an error, a conflict among them.    *)
Attached(d, p, g) ==
  IF g = None \/ Conflict(d, p, g) THEN d ELSE Identified(d, p, g)

\* Mutant of WithGtin: the identifiers go and the column stays.
WithGtinShown(d, p, g) ==
  IF g = None
  THEN [d EXCEPT !.owner = [h \in Gtin |-> IF d.owner[h] = p THEN None ELSE d.owner[h]]]
  ELSE Identified(d, p, g)

(* SetProductPrimaryGTIN: p keeps g and no other, or none at all.          *)
WithGtin(d, p, g) ==
  LET dropped == {h \in Gtin : d.owner[h] = p /\ h # g}
      cleared == [d EXCEPT
                    !.owner = [h \in Gtin |-> IF h \in dropped THEN None ELSE d.owner[h]],
                    !.upc[p] = None]
  IN IF g = None THEN cleared ELSE Identified(cleared, p, g)

MaySetGtin(d, p, g) == g # None => ~(Conflict(d, p, g) \/ UpcTaken(d, p, g))

(* The product row deleted: identifiers follow it only by ON DELETE        *)
(* CASCADE.                                                                *)
Dropped(d, fk, p) ==
  [d EXCEPT
     !.product[p] = "gone", !.upc[p] = None, !.count[p] = 0,
     !.owner = [g \in Gtin |-> IF fk /\ d.owner[g] = p THEN None ELSE d.owner[g]]]

Created(d, p) == [d EXCEPT !.product[p] = "live"]

Matched(d, l, p) ==
  IF d.line[l] = None THEN d ELSE [d EXCEPT !.line[l].product = p]

-----------------------------------------------------------------------------
(* Products.                                                               *)

(* POST /products.                                                         *)
CreateProduct(p, g) ==
  /\ db.product[p] = "absent"
  /\ LET d == Created(db, p)
     IN MaySetGtin(d, p, g) /\ db' = WithGtin(d, p, g)
  /\ UNCHANGED pending

(* PUT /products/:id with every field in the request.                      *)
EditProduct(p, g) ==
  /\ p \in Live(db) /\ MaySetGtin(db, p, g)
  /\ db' = WithGtin(db, p, g)
  /\ UNCHANGED pending

(* DELETE /products/:id.                                                   *)
DeleteProduct(fk, p) ==
  /\ p \in Live(db)
  /\ db' = Dropped(
             [db EXCEPT
                !.line = [l \in Line |->
                  IF db.line[l] = None THEN None
                  ELSE [product |-> IF db.line[l].product = p THEN None ELSE db.line[l].product,
                        hint    |-> IF db.line[l].hint = p THEN None ELSE db.line[l].hint]],
                !.price = [l \in Line |-> IF db.price[l] = p THEN None ELSE db.price[l]]],
             fk, p)
  /\ UNCHANGED pending

(* POST /products/merge.  It moves no hint, so an enforced key refuses the *)
(* delete while a line is hinted at the merged product.                    *)
Moved(d, from, to) ==
  [d EXCEPT
     !.line = [l \in Line |->
       IF d.line[l] # None /\ d.line[l].product = from
       THEN [d.line[l] EXCEPT !.product = to] ELSE d.line[l]],
     !.price = [l \in Line |-> IF d.price[l] = from THEN to ELSE d.price[l]],
     !.count[to] = @ + d.count[from]]

Merge(fk, keep, merged) ==
  /\ {keep, merged} \subseteq Live(db) /\ keep # merged
  /\ fk => \A l \in Line : db.line[l] # None => db.line[l].hint # merged
  /\ db' = Dropped(Moved(db, merged, keep), fk, merged)
  /\ UNCHANGED pending

(* The price rows of p are computed again, each for its line.              *)
Recomputed(d, p) == Recorded(d, {l \in RowsOf(d, p) : PricedFor(d, l) = p})

(* POST /products/:id/recompute-prices.  One step, though the code reads   *)
(* the lines on another connection than its transaction's: a row that is   *)
(* gone by then is skipped, and a new one was computed when it was made.   *)
Recompute(p) ==
  /\ p \in Live(db)
  /\ db' = Recomputed(db, p)
  /\ UNCHANGED pending

(* DELETE /household/data: prices and lines through their receipts, then   *)
(* the receipts, then the products.                                        *)
DeleteAllData(fk) ==
  LET swept == {l \in Line : Exists(db, ReceiptOf[l])}
  IN /\ db' = [db EXCEPT
                 !.price = [l \in Line |-> IF l \in swept THEN None ELSE db.price[l]],
                 !.line = [l \in Line |-> IF l \in swept THEN None ELSE db.line[l]],
                 !.receipt = [r \in Receipt |->
                                IF Exists(db, r) THEN "gone" ELSE db.receipt[r]],
                 !.product = [p \in Product |->
                                IF p \in Live(db) THEN "gone" ELSE db.product[p]],
                 !.upc = [p \in Product |-> None],
                 !.count = [p \in Product |-> 0],
                 !.owner = [g \in Gtin |->
                              IF fk /\ db.owner[g] \in Live(db) THEN None ELSE db.owner[g]]]
     /\ UNCHANGED pending

-----------------------------------------------------------------------------
(* Receipts.                                                               *)

(* A new receipt with its line: the spreadsheet import and the scan        *)
(* worker, matched or with a suggestion.                                   *)
Ingest(l, stored, p, hint) ==
  LET r == ReceiptOf[l]
      d == [db EXCEPT !.receipt[r] = IF stored THEN "stored" ELSE "bare",
                      !.line[l] = [product |-> p, hint |-> hint]]
  IN /\ db.receipt[r] = "absent" /\ db.line[l] = None
     /\ {p, hint} \subseteq Live(db) \cup {None} /\ None \in {p, hint}
     /\ db' = IF p # None /\ stored
              THEN Recorded(Attached(d, p, Printed[l]), {l}) ELSE d
     /\ UNCHANGED pending

(* PUT /receipts/:id with a store, or with an empty one.                   *)
SetStore(r, stored) ==
  LET d == [db EXCEPT !.receipt[r] = IF stored THEN "stored" ELSE "bare"]
  IN /\ Exists(db, r) /\ CanRecord(d, LinesOf(d, r))
     /\ db' = Recorded(d, LinesOf(d, r))
     /\ UNCHANGED pending

(* DELETE /receipts/:id: no product is counted again.                      *)
DeleteReceipt(r) ==
  /\ Exists(db, r)
  /\ db' = [db EXCEPT
              !.price = [l \in Line |-> IF ReceiptOf[l] = r THEN None ELSE db.price[l]],
              !.line = [l \in Line |-> IF ReceiptOf[l] = r THEN None ELSE db.line[l]],
              !.receipt[r] = "gone"]
  /\ UNCHANGED pending

-----------------------------------------------------------------------------
(* Requests that look first and write in a transaction of their own.       *)

Asks(c, request) ==
  /\ pending[c] = Idle
  /\ pending' = [pending EXCEPT ![c] = request]
  /\ UNCHANGED db

(* The transaction of client c's request commits, or rolls back.           *)
Writes(c, ok, d) ==
  /\ db' = IF ok THEN d ELSE db
  /\ pending' = [pending EXCEPT ![c] = Idle]

(* POST /receipts/manual: the store and the product the form names are     *)
(* read first, the matcher runs inside the transaction.                    *)
ManualRead(c, l, p, stored) ==
  /\ p \in Live(db) \cup {None}
  /\ Asks(c, [Idle EXCEPT !.op = "manual", !.line = l, !.product = p,
                          !.stored = stored])

ManualCommit(fk, c) ==
  LET q == pending[c]
      r == ReceiptOf[q.line]
  IN /\ q.op = "manual" /\ db.receipt[r] = "absent" /\ db.line[q.line] = None
     /\ \E row \in IF q.product # None
                    THEN {[product |-> q.product, hint |-> None]}
                    ELSE {w \in Row : /\ {w.product, w.hint} \subseteq Live(db) \cup {None}
                                      /\ None \in {w.product, w.hint}} :
          LET d == [db EXCEPT !.receipt[r] = IF q.stored THEN "stored" ELSE "bare",
                              !.line[q.line] = row]
              learns == row.product # None /\ q.stored
          IN Writes(c, /\ MayRefer(db, fk, row.product)
                       /\ learns => CanRecord(d, {q.line}),
                    IF learns
                    THEN Recorded(Attached(d, row.product, Printed[q.line]), {q.line})
                    ELSE d)

(* POST /receipts/:id/line-items, one or several: the store and the        *)
(* product, chosen or found by the matcher, are read first.                *)
AddRead(c, l, p) ==
  /\ Exists(db, ReceiptOf[l]) /\ db.line[l] = None /\ p \in Live(db) \cup {None}
  /\ Asks(c, [Idle EXCEPT !.op = "add", !.line = l, !.product = p,
                          !.stored = db.receipt[ReceiptOf[l]] = "stored"])

AddCommit(fk, c) ==
  LET q == pending[c]
      d == [db EXCEPT !.line[q.line] = [product |-> q.product, hint |-> None]]
      learns == q.product # None /\ q.stored
      ok == /\ MayRefer(db, fk, q.product)
            /\ Exists(db, ReceiptOf[q.line]) \/ ~fk
            /\ learns => CanRecord(d, {q.line})
  IN /\ q.op = "add" /\ db.line[q.line] = None
     /\ Writes(c, ok, IF learns
                      THEN Recorded(Attached(d, q.product, Printed[q.line]), {q.line})
                      ELSE d)

(* PUT /line-items/:id/match.                                              *)
MatchRead(c, l, p) ==
  /\ p \in Live(db) /\ db.line[l] # None
  /\ Asks(c, [Idle EXCEPT !.op = "match", !.line = l, !.product = p])

MatchCommit(fk, c) ==
  LET q == pending[c]
      d == Matched(db, q.line, q.product)
  IN /\ q.op = "match"
     /\ Writes(c, MayRefer(db, fk, q.product) /\ CanRecord(d, {q.line}),
               Recorded(Attached(d, q.product, Printed[q.line]), {q.line}))

(* PUT /receipts/:id/line-items/:itemId with a product, or with an empty   *)
(* one; the other columns of the line are left out.                        *)
RelinkRead(c, l, p) ==
  /\ Exists(db, ReceiptOf[l]) /\ p \in Live(db) \cup {None}
  /\ Asks(c, [Idle EXCEPT !.op = "relink", !.line = l, !.product = p])

RelinkCommit(fk, c) ==
  LET q == pending[c]
      d == Matched(db, q.line, q.product)
  IN /\ q.op = "relink"
     /\ Writes(c, /\ db.line[q.line] # None
                  /\ MayRefer(db, fk, q.product)
                  /\ CanRecord(d, {q.line}),
               Recorded(d, {q.line}))

(* POST /receipts/:id/accept-suggestions: only the store is read first.    *)
AcceptRead(c, l) ==
  /\ Exists(db, ReceiptOf[l])
  /\ Asks(c, [Idle EXCEPT !.op = "accept", !.line = l,
                          !.stored = db.receipt[ReceiptOf[l]] = "stored"])

(* The product the suggestion names, one of that name, or a new one.       *)
Suggested(l) ==
  IF db.line[l].hint # None THEN {db.line[l].hint}
  ELSE {p \in Product : db.product[p] # "gone"}

AcceptCommit(fk, c) ==
  LET q == pending[c] IN
  /\ q.op = "accept"
  /\ \/ /\ db.line[q.line] = None
        /\ Writes(c, FALSE, db)
     \/ /\ db.line[q.line] # None
        /\ \E p \in Suggested(q.line) :
             LET made == IF db.product[p] = "absent" THEN Created(db, p) ELSE db
                 d == [made EXCEPT !.line[q.line] = [product |-> p, hint |-> None]]
             IN Writes(c, /\ MayRefer(made, fk, p)
                          /\ q.stored => CanRecord(d, {q.line}),
                       Attached(IF q.stored THEN Recorded(d, {q.line}) ELSE d,
                                p, Printed[q.line]))

(* POST /receipts/:id/repair: prices and lines go, the lines the model     *)
(* still reads come back with their matches.                               *)
RepairRead(c, r) ==
  /\ Exists(db, r)
  /\ Asks(c, [Idle EXCEPT !.op = "repair", !.line = r,
                          !.stored = db.receipt[r] = "stored"])

RepairCommit(c) ==
  LET q == pending[c] IN
  /\ q.op = "repair"
  /\ \E kept \in {{}} \cup {{l} : l \in LinesOf(db, q.line)} :
       LET d == [db EXCEPT
                   !.price = [l \in Line |->
                     IF ReceiptOf[l] = q.line THEN None ELSE db.price[l]],
                   !.line = [l \in Line |->
                     IF ReceiptOf[l] = q.line /\ l \notin kept THEN None ELSE db.line[l]]]
           learned == {l \in kept : q.stored /\ d.line[l].product # None}
       IN Writes(c, CanRecord(d, learned),
                 IF learned = {} THEN d
                 ELSE LET l == CHOOSE x \in learned : TRUE
                      IN Recorded(Attached(d, d.line[l].product, Printed[l]), {l}))

(* PUT /products/:id without a name: the fields not sent, the GTIN among   *)
(* them, are read first and written back.                                  *)
PutRead(c, p) ==
  /\ p \in Live(db)
  /\ Asks(c, [Idle EXCEPT !.op = "put", !.product = p, !.gtin = db.upc[p]])

PutCommit(c) ==
  LET q == pending[c] IN
  /\ q.op = "put"
  /\ Writes(c, q.product \in Live(db) /\ MaySetGtin(db, q.product, q.gtin),
            WithGtin(db, q.product, q.gtin))

(* POST .../suggestions/:id/accept of a suggested GTIN.                    *)
SuggestRead(c, p, g) ==
  /\ p \in Live(db)
  /\ Asks(c, [Idle EXCEPT !.op = "suggest", !.product = p, !.gtin = g])

SuggestCommit(fk, c) ==
  LET q == pending[c] IN
  /\ q.op = "suggest"
  /\ Writes(c, MayRefer(db, fk, q.product) /\ MaySetGtin(db, q.product, q.gtin),
            WithGtin(db, q.product, q.gtin))

(* POST .../suggestions/bulk-accept: what the product already shows is     *)
(* skipped before the transaction, what conflicts inside it; of the GTINs  *)
(* that are applied the last remains.                                      *)
BulkRead(c, p) ==
  /\ p \in Live(db)
  /\ Asks(c, [Idle EXCEPT !.op = "bulk", !.product = p, !.gtin = db.upc[p]])

BulkCommit(fk, c) ==
  LET q == pending[c] IN
  /\ q.op = "bulk"
  /\ \E recompute \in BOOLEAN,
        g \in {h \in Gtin \ {q.gtin} : MaySetGtin(db, q.product, h)} \cup {None} :
       LET d == IF g = None THEN db ELSE WithGtin(db, q.product, g)
       IN Writes(c, g = None \/ MayRefer(db, fk, q.product),
                 IF recompute THEN Recomputed(d, q.product) ELSE d)

(* POST .../barcode: the product of the scanned GTIN, or a new one, for a  *)
(* line that was unmatched when it was read.                               *)
FoundBy(g) ==
  IF db.owner[g] \in Live(db) THEN {db.owner[g]}
  ELSE {p \in Live(db) : db.upc[p] = g}

BarcodeRead(c, l, g) ==
  /\ Exists(db, ReceiptOf[l]) /\ db.line[l] # None
  /\ \E p \in IF FoundBy(g) = {} THEN {None} ELSE FoundBy(g) :
       /\ db.line[l].product \in {None, p}
       /\ Asks(c, [Idle EXCEPT !.op = "barcode", !.line = l, !.product = p, !.gtin = g])

BarcodeCommit(fk, c) ==
  LET q == pending[c] IN
  /\ q.op = "barcode"
  /\ \E p \in IF q.product # None THEN {q.product}
              ELSE {x \in Product : db.product[x] = "absent"} :
       LET made == IF q.product = None THEN Created(db, p) ELSE db
           d == Matched(made, q.line, p)
       IN Writes(c, /\ MayRefer(made, fk, p)
                    /\ ~Conflict(d, p, q.gtin) /\ ~UpcTaken(d, p, q.gtin)
                    /\ CanRecord(d, {q.line}),
                 Recorded(Identified(d, p, q.gtin), {q.line}))

Fails(c) ==
  /\ pending[c] # Idle
  /\ Writes(c, FALSE, db)

-----------------------------------------------------------------------------

ProductStep ==
  \E p \in Product :
    \/ \E g \in Gtin \cup {None} : CreateProduct(p, g) \/ EditProduct(p, g)
    \/ \E fk \in ForeignKeys :
         DeleteProduct(fk, p) \/ \E keep \in Product : Merge(fk, keep, p)
    \/ Recompute(p)

EverythingGoes == \E fk \in ForeignKeys : DeleteAllData(fk)

ReceiptStep ==
  \/ \E l \in Line, stored \in BOOLEAN, p, hint \in Product \cup {None} :
       Ingest(l, stored, p, hint)
  \/ \E r \in Receipt :
       DeleteReceipt(r) \/ \E stored \in BOOLEAN : SetStore(r, stored)

Look(c) ==
  \/ \E l \in Line :
       \/ AcceptRead(c, l)
       \/ \E p \in Product \cup {None} :
            \/ AddRead(c, l, p) \/ RelinkRead(c, l, p)
            \/ \E stored \in BOOLEAN : ManualRead(c, l, p, stored)
       \/ \E p \in Product : MatchRead(c, l, p)
       \/ \E g \in Gtin : BarcodeRead(c, l, g)
  \/ \E r \in Receipt : RepairRead(c, r)
  \/ \E p \in Product :
       PutRead(c, p) \/ BulkRead(c, p) \/ \E g \in Gtin : SuggestRead(c, p, g)

Transact(c) ==
  \/ \E fk \in ForeignKeys :
       \/ ManualCommit(fk, c) \/ AddCommit(fk, c) \/ MatchCommit(fk, c)
       \/ RelinkCommit(fk, c) \/ AcceptCommit(fk, c) \/ SuggestCommit(fk, c)
       \/ BulkCommit(fk, c) \/ BarcodeCommit(fk, c)
  \/ RepairCommit(c) \/ PutCommit(c) \/ Fails(c)

Next ==
  \/ ProductStep \/ ReceiptStep \/ EverythingGoes
  \/ \E c \in Client : Look(c) \/ Transact(c)

Spec == Init /\ [][Next]_vars

-----------------------------------------------------------------------------

(* The tables and the requests have their types.                           *)
CatalogueTypeOK == db \in Tables /\ pending \in [Client -> Request]

(* A price row belongs to a line that is there and to a product that is:   *)
(* neither the deletes, the merge and the repair nor a match that was      *)
(* decided before them leave history behind, foreign keys or not.          *)
RowsAreBacked ==
  \A l \in Line :
    db.price[l] # None => db.line[l] # None /\ db.price[l] \in Live(db)

(* The denormalised purchase count may be stale after a receipt is deleted *)
(* or repaired, but it never falls below the rows there are.               *)
CountsCover ==
  \A p \in Live(db) : Cardinality(RowsOf(db, p)) <= db.count[p]

(* The types, and both of them.                                            *)
CatalogueSound == CatalogueTypeOK /\ RowsAreBacked /\ CountsCover

(* The GTIN a product shows is the one the identifier table gives it, so a *)
(* scan of that GTIN finds this product and no other.                      *)
UpcIsOwned ==
  \A p \in Live(db) : db.upc[p] # None => db.owner[db.upc[p]] = p

(* A GTIN passes from a living product only by being released or with the  *)
(* product: no scan, match, import or suggestion takes it away.            *)
GtinNotStolen ==
  [][\A g \in Gtin :
       db.owner[g] \in Live(db) /\ db'.owner[g] # db.owner[g]
         => \/ db'.owner[g] = None
            \/ db.owner[g] \notin Live(db')]_vars

(* A deleted product leaves no identifier: "CASCADE handles aliases,       *)
(* images, links".                                                         *)
CascadeReaches == \A g \in Gtin : db.owner[g] \in Live(db) \cup {None}

(* A price row is of the product its line is matched to.                   *)
PricesFollow ==
  \A l \in Line : db.price[l] # None => db.line[l].product = db.price[l]
=============================================================================
