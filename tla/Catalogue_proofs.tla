--------------------------- MODULE Catalogue_proofs ---------------------------
(***************************************************************************)
(* That the tables of Catalogue stay sound, that a product shows only a    *)
(* GTIN it owns, and that no GTIN is taken from a living product, for any  *)
(* products, lines, receipts, GTINs, clients and settings of the pragma.   *)
(***************************************************************************)
EXTENDS Catalogue, FiniteSetTheorems, TLAPS

USE CatalogueAssumption

-----------------------------------------------------------------------------
(* What is true of the tables between two transactions.                    *)

\* A price row belongs to a line, a product and a receipt that are there.
Backed(d) ==
  \A l \in Line : d.price[l] # None =>
    d.line[l] # None /\ d.price[l] \in Live(d) /\ Exists(d, ReceiptOf[l])

Covered(d) == \A p \in Live(d) : Cardinality(RowsOf(d, p)) <= d.count[p]

\* Only a living product shows a GTIN, and one that is its own.
Identifies(d) ==
  /\ \A p \in Live(d) : d.upc[p] # None => d.owner[d.upc[p]] = p
  /\ \A p \in Product \ Live(d) : d.upc[p] = None

Good(d) == d \in Tables /\ Backed(d) /\ Covered(d) /\ Identifies(d)

\* Between d and e no GTIN has gone from one living product to another.
Kept(d, e) ==
  \A g \in Gtin :
    d.owner[g] \in Live(d) /\ e.owner[g] # d.owner[g]
      => e.owner[g] = None \/ d.owner[g] \notin Live(e)

\* Products and identifiers are the same in d and e.
Alike(d, e) == e.owner = d.owner /\ e.product = d.product /\ e.upc = d.upc

LEMMA AlikeKept ==
  ASSUME NEW d, NEW e, NEW f
  PROVE  /\ Alike(d, e) => Kept(d, e) /\ Live(e) = Live(d)
         /\ Alike(d, e) /\ Kept(e, f) => Kept(d, f)
         /\ Kept(d, e) /\ Alike(e, f) => Kept(d, f)
BY DEF Alike, Kept, Live

\* The rows of a product are finitely many, and fewer in a smaller set.
LEMMA RowsFinite ==
  ASSUME NEW d, NEW p
  PROVE  /\ IsFiniteSet(RowsOf(d, p)) /\ Cardinality(RowsOf(d, p)) \in Nat
         /\ \A S : S \subseteq RowsOf(d, p) =>
              Cardinality(S) \in Nat /\ Cardinality(S) <= Cardinality(RowsOf(d, p))
<1>1. RowsOf(d, p) \subseteq Line
  BY DEF RowsOf
<1>2. IsFiniteSet(RowsOf(d, p))
  BY <1>1, FS_Subset
<1>3. Cardinality(RowsOf(d, p)) \in Nat
  BY <1>2, FS_CardinalityType
<1>4. ASSUME NEW S, S \subseteq RowsOf(d, p)
      PROVE  Cardinality(S) \in Nat /\ Cardinality(S) <= Cardinality(RowsOf(d, p))
  <2>1. IsFiniteSet(S) /\ Cardinality(S) <= Cardinality(RowsOf(d, p))
    BY <1>2, <1>4, FS_Subset
  <2>2. QED
    BY <2>1, FS_CardinalityType
<1>5. QED
  BY <1>2, <1>3, <1>4

\* Lines come, change and go, receipts change, and price rows go.
LEMMA LinesWritten ==
  ASSUME NEW d, Good(d), NEW e \in Tables, Alike(d, e), e.count = d.count,
         \A l \in Line : e.price[l] # None =>
           /\ e.price[l] = d.price[l] /\ e.line[l] # None /\ Exists(e, ReceiptOf[l])
  PROVE  Good(e) /\ Kept(d, e)
<1>1. Live(e) = Live(d) /\ Kept(d, e)
  BY AlikeKept
<1>2. Backed(e)
  BY <1>1 DEF Good, Backed
<1>3. Covered(e)
  <2>1. ASSUME NEW p \in Live(e) PROVE Cardinality(RowsOf(e, p)) <= e.count[p]
    <3>1. RowsOf(e, p) \subseteq RowsOf(d, p)
      <4>1. p # None
        BY DEF Live
      <4>2. QED
        BY <4>1 DEF RowsOf
    <3>2. Cardinality(RowsOf(d, p)) <= d.count[p] /\ d.count[p] \in Nat
      BY <1>1 DEF Good, Covered, Tables, Live
    <3>3. /\ Cardinality(RowsOf(e, p)) \in Nat /\ Cardinality(RowsOf(d, p)) \in Nat
          /\ Cardinality(RowsOf(e, p)) <= Cardinality(RowsOf(d, p))
      BY <3>1, RowsFinite
    <3>4. QED
      BY <3>2, <3>3
  <2>2. QED
    BY <2>1 DEF Covered
<1>4. Identifies(e)
  BY <1>1 DEF Alike, Good, Identifies
<1>5. QED
  BY <1>1, <1>2, <1>3, <1>4 DEF Good

-----------------------------------------------------------------------------
(* The helpers.                                                            *)

\* The price rows of some lines are written again, and their products counted.
LEMMA RecordedGood ==
  ASSUME NEW d, Good(d), NEW ls \in SUBSET Line, CanRecord(d, ls)
  PROVE  Good(Recorded(d, ls)) /\ Alike(d, Recorded(d, ls))
<1> DEFINE rows == [l \in Line |-> IF l \in ls THEN PricedFor(d, l) ELSE d.price[l]]
<1> DEFINE touched == {d.price[l] : l \in ls} \cup {rows[l] : l \in ls}
<1> DEFINE counted == [p \in Product |-> IF p \in touched \cap Live(d)
                                         THEN Cardinality({l \in Line : rows[l] = p})
                                         ELSE d.count[p]]
<1> DEFINE e == Recorded(d, ls)
<1>0. d \in Tables /\ d.count \in [Product -> Nat] /\ d.price \in [Line -> Product \cup {None}]
  BY DEF Good, Tables
<1>1. e = [d EXCEPT !.price = rows, !.count = counted]
  BY DEF Recorded
<1>2. rows \in [Line -> Product \cup {None}]
  <2>1. \A l \in ls : PricedFor(d, l) \in Product \cup {None}
    BY DEF CanRecord, Live
  <2>2. QED
    BY <1>0, <2>1
<1>3. \A p : /\ IsFiniteSet({l \in Line : rows[l] = p})
             /\ Cardinality({l \in Line : rows[l] = p}) \in Nat
  <2>1. \A p : {l \in Line : rows[l] = p} \subseteq Line
    OBVIOUS
  <2>2. \A p : IsFiniteSet({l \in Line : rows[l] = p})
    BY <2>1, FS_Subset
  <2>3. QED
    BY <2>2, FS_CardinalityType
<1>4. counted \in [Product -> Nat]
  BY <1>0, <1>3
<1> HIDE DEF rows, counted
<1>5. /\ e.price = rows /\ e.count = counted /\ e \in Tables /\ Alike(d, e)
      /\ e.line = d.line /\ e.receipt = d.receipt
  BY <1>0, <1>1, <1>2, <1>4 DEF Tables, Alike
<1>6. Live(e) = Live(d)
  BY <1>5, AlikeKept
<1>7. Backed(e)
  <2>1. ASSUME NEW l \in ls, PricedFor(d, l) # None
        PROVE  d.line[l] # None /\ PricedFor(d, l) \in Live(d) /\ Exists(d, ReceiptOf[l])
    BY <2>1 DEF CanRecord, PricedFor, Exists
  <2>2. \A l \in Line : rows[l] = IF l \in ls THEN PricedFor(d, l) ELSE d.price[l]
    BY DEF rows
  <2>3. QED
    BY <1>5, <1>6, <2>1, <2>2 DEF Good, Backed, Exists
<1>8. Covered(e)
  <2>1. ASSUME NEW p \in Live(d), p \in touched
        PROVE  Cardinality(RowsOf(e, p)) <= e.count[p]
    <3>1. RowsOf(e, p) = {l \in Line : rows[l] = p}
      BY <1>5 DEF RowsOf
    <3>2. e.count[p] = Cardinality({l \in Line : rows[l] = p})
      BY <1>5, <2>1 DEF counted, Live
    <3>3. Cardinality(RowsOf(e, p)) \in Nat /\ e.count[p] = Cardinality(RowsOf(e, p))
      BY <3>1, <3>2, RowsFinite
    <3>4. QED
      BY <3>3
  <2>2. ASSUME NEW p \in Live(d), p \notin touched
        PROVE  Cardinality(RowsOf(e, p)) <= e.count[p]
    <3>1. RowsOf(e, p) = RowsOf(d, p)
      BY <1>5, <2>2 DEF RowsOf, rows
    <3>2. e.count[p] = d.count[p]
      BY <1>5, <2>2 DEF counted, Live
    <3>3. QED
      BY <3>1, <3>2 DEF Good, Covered
  <2>3. QED
    BY <1>6, <2>1, <2>2 DEF Covered
<1>9. Identifies(e)
  BY <1>5, <1>6 DEF Good, Identifies, Alike
<1>10. QED
  BY <1>5, <1>7, <1>8, <1>9 DEF Good

\* The price rows of a product are computed again.
LEMMA RecomputedGood ==
  ASSUME NEW d, Good(d), NEW p \in Product
  PROVE  Good(Recomputed(d, p)) /\ Alike(d, Recomputed(d, p))
<1> DEFINE ls == {l \in RowsOf(d, p) : PricedFor(d, l) = p}
<1>1. ls \in SUBSET Line
  BY DEF RowsOf
<1>2. CanRecord(d, ls)
  BY DEF CanRecord, RowsOf, Good, Backed
<1>3. QED
  BY <1>1, <1>2, RecordedGood DEF Recomputed

\* A GTIN that is free or the product's own is written for it.
LEMMA IdentifiedGood ==
  ASSUME NEW d, Good(d), NEW p \in Product, NEW g \in Gtin, ~Conflict(d, p, g)
  PROVE  /\ Good(Identified(d, p, g)) /\ Kept(d, Identified(d, p, g))
         /\ Identified(d, p, g).product = d.product
         /\ Identified(d, p, g).line = d.line
         /\ Identified(d, p, g).receipt = d.receipt
<1> DEFINE e == Identified(d, p, g)
<1> DEFINE shown == IF p \in Live(d) /\ ~UpcTaken(d, p, g) THEN g ELSE d.upc[p]
<1>0. /\ d \in Tables /\ d.owner \in [Gtin -> Product \cup {None}]
      /\ d.upc \in [Product -> Gtin \cup {None}]
  BY DEF Good, Tables
<1>1. /\ e.owner = [d.owner EXCEPT ![g] = p] /\ e.upc = [d.upc EXCEPT ![p] = shown]
      /\ e.product = d.product /\ e.line = d.line /\ e.receipt = d.receipt
      /\ e.price = d.price /\ e.count = d.count
  BY <1>0 DEF Identified, Tables
<1>2. e \in Tables
  <2>1. shown \in Gtin \cup {None}
    BY <1>0
  <2>2. [d.owner EXCEPT ![g] = p] \in [Gtin -> Product \cup {None}]
    BY <1>0
  <2>3. [d.upc EXCEPT ![p] = shown] \in [Product -> Gtin \cup {None}]
    BY <1>0, <2>1
  <2>4. e = [d EXCEPT !.owner = [d.owner EXCEPT ![g] = p], !.upc = [d.upc EXCEPT ![p] = shown]]
    BY <1>0 DEF Identified, Tables
  <2>5. QED
    BY <1>0, <2>2, <2>3, <2>4 DEF Tables
<1>3. Live(e) = Live(d)
  BY <1>1 DEF Live
<1>4. Backed(e) /\ Covered(e)
  BY <1>1, <1>3 DEF Good, Backed, Covered, RowsOf, Exists
<1>5. Identifies(e)
  <2>1. ASSUME NEW q \in Live(d), e.upc[q] # None PROVE e.owner[e.upc[q]] = q
    <3>1. q \in Product
      BY DEF Live
    <3>2. CASE e.upc[q] = g
      <4>1. CASE q = p
        BY <1>0, <1>1, <3>2, <4>1
      <4>2. CASE q # p
        BY <1>0, <1>1, <2>1, <3>1, <3>2, <4>2 DEF Good, Identifies, Conflict
      <4>3. QED
        BY <4>1, <4>2
    <3>3. CASE e.upc[q] # g
      BY <1>0, <1>1, <2>1, <3>1, <3>3 DEF Good, Identifies
    <3>4. QED
      BY <3>2, <3>3
  <2>2. ASSUME NEW q \in Product \ Live(d) PROVE e.upc[q] = None
    BY <1>0, <1>1 DEF Good, Identifies
  <2>3. QED
    BY <1>3, <2>1, <2>2 DEF Identifies
<1>6. Kept(d, e)
  BY <1>0, <1>1 DEF Kept, Conflict, Live
<1>7. QED
  BY <1>1, <1>2, <1>4, <1>5, <1>6 DEF Good

LEMMA AttachedGood ==
  ASSUME NEW d, Good(d), NEW p \in Product, NEW g \in Gtin \cup {None}
  PROVE  /\ Good(Attached(d, p, g)) /\ Kept(d, Attached(d, p, g))
         /\ Attached(d, p, g).product = d.product
         /\ Attached(d, p, g).line = d.line
         /\ Attached(d, p, g).receipt = d.receipt
<1>1. CASE g = None \/ Conflict(d, p, g)
  BY <1>1 DEF Attached, Kept
<1>2. CASE ~(g = None \/ Conflict(d, p, g))
  BY <1>2, IdentifiedGood DEF Attached
<1>3. QED
  BY <1>1, <1>2

\* What a match does: the line's GTIN is attached, its price recorded.
LEMMA LearnedGood ==
  ASSUME NEW d, Good(d), NEW p \in Product, NEW g \in Gtin \cup {None},
         NEW ls \in SUBSET Line, CanRecord(d, ls)
  PROVE  /\ Good(Recorded(Attached(d, p, g), ls))
         /\ Kept(d, Recorded(Attached(d, p, g), ls))
<1> DEFINE e == Attached(d, p, g)
<1>1. Good(e) /\ Kept(d, e) /\ e.product = d.product /\ e.line = d.line /\ e.receipt = d.receipt
  BY AttachedGood
<1>2. CanRecord(e, ls)
  BY <1>1 DEF CanRecord, PricedFor, Live
<1> HIDE DEF e
<1>3. Good(Recorded(e, ls)) /\ Alike(e, Recorded(e, ls))
  BY <1>1, <1>2, RecordedGood
<1>4. QED
  BY <1>1, <1>3, AlikeKept DEF e

\* Every GTIN of a product but one is released, and that one written.
LEMMA WithGtinGood ==
  ASSUME NEW d, Good(d), NEW p \in Product, NEW g \in Gtin \cup {None}, MaySetGtin(d, p, g)
  PROVE  Good(WithGtin(d, p, g)) /\ Kept(d, WithGtin(d, p, g))
<1> DEFINE dropped == {h \in Gtin : d.owner[h] = p /\ h # g}
<1> DEFINE free == [h \in Gtin |-> IF h \in dropped THEN None ELSE d.owner[h]]
<1> DEFINE c == [d EXCEPT !.owner = free, !.upc[p] = None]
<1>0. /\ d \in Tables /\ d.owner \in [Gtin -> Product \cup {None}]
      /\ d.upc \in [Product -> Gtin \cup {None}]
  BY DEF Good, Tables
<1>1. free \in [Gtin -> Product \cup {None}]
  BY <1>0
<1>2. /\ c \in Tables /\ c.owner = free /\ c.upc = [d.upc EXCEPT ![p] = None]
      /\ c.product = d.product /\ c.line = d.line /\ c.receipt = d.receipt
      /\ c.price = d.price /\ c.count = d.count
  <2>1. c = [d EXCEPT !.owner = free, !.upc = [d.upc EXCEPT ![p] = None]]
    BY <1>0 DEF Tables
  <2>2. [d.upc EXCEPT ![p] = None] \in [Product -> Gtin \cup {None}]
    BY <1>0
  <2> HIDE DEF free, c
  <2>3. QED
    BY <1>0, <1>1, <2>1, <2>2 DEF Tables
<1>3. WithGtin(d, p, g) = IF g = None THEN c ELSE Identified(c, p, g)
  BY DEF WithGtin
<1> HIDE DEF c
<1>4. Live(c) = Live(d)
  BY <1>2 DEF Live
<1>5. Backed(c) /\ Covered(c)
  BY <1>2, <1>4 DEF Good, Backed, Covered, RowsOf, Exists
<1>6. Identifies(c)
  <2>1. ASSUME NEW q \in Live(d), c.upc[q] # None PROVE c.owner[c.upc[q]] = q
    <3>1. q \in Product /\ q # p /\ c.upc[q] = d.upc[q] /\ d.upc[q] \in Gtin
      BY <1>0, <1>2, <2>1 DEF Live
    <3>2. d.owner[d.upc[q]] = q
      BY <2>1, <3>1 DEF Good, Identifies
    <3>3. QED
      BY <1>2, <3>1, <3>2
  <2>2. ASSUME NEW q \in Product \ Live(d) PROVE c.upc[q] = None
    BY <1>0, <1>2 DEF Good, Identifies
  <2>3. QED
    BY <1>4, <2>1, <2>2 DEF Identifies
<1>7. Good(c) /\ Kept(d, c)
  BY <1>2, <1>5, <1>6 DEF Good, Kept
<1>8. CASE g = None
  BY <1>3, <1>7, <1>8
<1>9. CASE g # None
  <2>1. d.owner[g] \in {None, p} /\ c.owner[g] = d.owner[g] /\ g \in Gtin
    BY <1>2, <1>9 DEF MaySetGtin, Conflict
  <2>2. ~Conflict(c, p, g)
    BY <2>1 DEF Conflict
  <2>3. Good(Identified(c, p, g)) /\ Identified(c, p, g).product = d.product
    BY <1>2, <1>7, <2>1, <2>2, IdentifiedGood
  <2>4. Identified(c, p, g).owner = [c.owner EXCEPT ![g] = p]
    BY <1>2 DEF Identified, Tables
  <2>5. Kept(d, Identified(c, p, g))
    <3>1. ASSUME NEW h \in Gtin,
                 Identified(c, p, g).owner[h] # d.owner[h],
                 d.owner[h] \in Live(d)
          PROVE  Identified(c, p, g).owner[h] = None
      BY <1>0, <1>1, <1>2, <2>1, <2>4, <3>1 DEF Live
    <3>2. QED
      BY <3>1 DEF Kept
  <2>6. QED
    BY <1>3, <1>9, <2>3, <2>5
<1>10. QED
  BY <1>8, <1>9

\* A product that was not there comes without rows and without a GTIN.
LEMMA CreatedGood ==
  ASSUME NEW d, Good(d), NEW p \in Product, d.product[p] = "absent"
  PROVE  /\ Good(Created(d, p)) /\ Created(d, p).line = d.line
         /\ \A f : Kept(Created(d, p), f) => Kept(d, f)
<1> DEFINE e == Created(d, p)
<1>0. d \in Tables /\ d.product \in [Product -> {"absent", "live", "gone"}]
  BY DEF Good, Tables
<1>1. /\ e.product = [d.product EXCEPT ![p] = "live"] /\ e.line = d.line
      /\ e.receipt = d.receipt /\ e.price = d.price /\ e.count = d.count
      /\ e.owner = d.owner /\ e.upc = d.upc /\ e \in Tables
  BY <1>0 DEF Created, Tables
<1> HIDE DEF e
<1>2. Live(e) = Live(d) \cup {p} /\ p \notin Live(d)
  BY <1>0, <1>1 DEF Live
<1>3. Backed(e)
  BY <1>1, <1>2 DEF Good, Backed, Exists
<1>4. Covered(e)
  <2>1. RowsOf(e, p) = {}
    <3>1. p # None
      OBVIOUS
    <3>2. QED
      BY <1>1, <1>2, <3>1 DEF Good, Backed, RowsOf
  <2>2. Cardinality(RowsOf(e, p)) = 0
    BY <2>1, FS_EmptySet
  <2>3. e.count[p] \in Nat
    BY <1>1 DEF Tables
  <2>4. Cardinality(RowsOf(e, p)) <= e.count[p]
    BY <2>2, <2>3
  <2>5. \A q \in Live(d) : Cardinality(RowsOf(e, q)) <= e.count[q]
    BY <1>1 DEF Good, Covered, RowsOf
  <2>6. QED
    BY <1>2, <2>4, <2>5 DEF Covered
<1>5. Identifies(e)
  BY <1>1, <1>2 DEF Good, Identifies
<1>6. QED
  BY <1>1, <1>2, <1>3, <1>4, <1>5 DEF Good, Kept, e

\* A product without price rows is deleted.
LEMMA DroppedGood ==
  ASSUME NEW d, Good(d), NEW p \in Live(d), RowsOf(d, p) = {}, NEW fk
  PROVE  Good(Dropped(d, fk, p)) /\ Kept(d, Dropped(d, fk, p))
<1> DEFINE e == Dropped(d, fk, p)
<1> DEFINE owned == [g \in Gtin |-> IF fk /\ d.owner[g] = p THEN None ELSE d.owner[g]]
<1>0. /\ d \in Tables /\ p \in Product
      /\ d.product \in [Product -> {"absent", "live", "gone"}]
      /\ d.upc \in [Product -> Gtin \cup {None}] /\ d.count \in [Product -> Nat]
      /\ d.owner \in [Gtin -> Product \cup {None}]
  BY DEF Good, Tables, Live
<1>1. owned \in [Gtin -> Product \cup {None}]
  BY <1>0
<1>2. e = [d EXCEPT !.product = [d.product EXCEPT ![p] = "gone"],
                    !.upc = [d.upc EXCEPT ![p] = None],
                    !.count = [d.count EXCEPT ![p] = 0],
                    !.owner = owned]
  BY <1>0 DEF Dropped, Tables
<1>3. /\ [d.product EXCEPT ![p] = "gone"] \in [Product -> {"absent", "live", "gone"}]
      /\ [d.upc EXCEPT ![p] = None] \in [Product -> Gtin \cup {None}]
      /\ [d.count EXCEPT ![p] = 0] \in [Product -> Nat]
  BY <1>0
<1>4. \A g \in Gtin : owned[g] \in {None, d.owner[g]} /\ (d.owner[g] # p => owned[g] = d.owner[g])
  OBVIOUS
<1> HIDE DEF owned, e
<1>5. /\ e \in Tables /\ e.product = [d.product EXCEPT ![p] = "gone"]
      /\ e.upc = [d.upc EXCEPT ![p] = None] /\ e.count = [d.count EXCEPT ![p] = 0]
      /\ e.owner = owned /\ e.line = d.line /\ e.receipt = d.receipt /\ e.price = d.price
  BY <1>0, <1>1, <1>2, <1>3 DEF Tables
<1>6. Live(e) = Live(d) \ {p}
  BY <1>0, <1>5 DEF Live
<1>7. Backed(e)
  BY <1>5, <1>6 DEF Good, Backed, Exists, RowsOf
<1>8. Covered(e)
  <2>1. ASSUME NEW q \in Live(d) \ {p} PROVE Cardinality(RowsOf(e, q)) <= e.count[q]
    <3>1. RowsOf(e, q) = RowsOf(d, q)
      BY <1>5 DEF RowsOf
    <3>2. e.count[q] = d.count[q]
      BY <1>0, <1>5 DEF Live
    <3>3. QED
      BY <3>1, <3>2 DEF Good, Covered
  <2>2. QED
    BY <1>6, <2>1 DEF Covered
<1>9. Identifies(e)
  <2>1. ASSUME NEW q \in Live(d) \ {p}, e.upc[q] # None PROVE e.owner[e.upc[q]] = q
    <3>1. q \in Product /\ e.upc[q] = d.upc[q] /\ d.upc[q] \in Gtin
      BY <1>0, <1>5, <2>1 DEF Live
    <3>2. d.owner[d.upc[q]] = q
      BY <2>1, <3>1 DEF Good, Identifies
    <3>3. QED
      BY <1>4, <1>5, <2>1, <3>1, <3>2
  <2>2. ASSUME NEW q \in Product \ (Live(d) \ {p}) PROVE e.upc[q] = None
    BY <1>0, <1>5 DEF Good, Identifies
  <2>3. QED
    BY <1>6, <2>1, <2>2 DEF Identifies
<1>10. Kept(d, e)
  BY <1>4, <1>5 DEF Kept
<1>11. QED
  BY <1>5, <1>7, <1>8, <1>9, <1>10 DEF Good, e

\* The lines and the rows of a product go to another one.
LEMMA MovedGood ==
  ASSUME NEW d, Good(d), NEW from \in Live(d), NEW to \in Live(d), from # to
  PROVE  /\ Good(Moved(d, from, to)) /\ Alike(d, Moved(d, from, to))
         /\ RowsOf(Moved(d, from, to), from) = {}
<1> DEFINE e == Moved(d, from, to)
<1> DEFINE lines == [l \in Line |->
                       IF d.line[l] # None /\ d.line[l].product = from
                       THEN [d.line[l] EXCEPT !.product = to] ELSE d.line[l]]
<1> DEFINE prices == [l \in Line |-> IF d.price[l] = from THEN to ELSE d.price[l]]
<1> DEFINE counts == [d.count EXCEPT ![to] = d.count[to] + d.count[from]]
<1>0. /\ d \in Tables /\ from \in Product /\ to \in Product
      /\ d.line \in [Line -> Row \cup {None}] /\ d.count \in [Product -> Nat]
      /\ d.price \in [Line -> Product \cup {None}]
  BY DEF Good, Tables, Live
<1>1. e = [d EXCEPT !.line = lines, !.price = prices, !.count = counts]
  BY <1>0 DEF Moved, Tables
<1>2. \A l \in Line : lines[l] \in Row \cup {None} /\ (d.line[l] # None => lines[l] # None)
  <2>1. ASSUME NEW w \in Row PROVE [w EXCEPT !.product = to] \in Row
    BY <1>0 DEF Row
  <2>2. ASSUME NEW l \in Line, d.line[l] # None PROVE lines[l] \in Row
    <3>1. d.line[l] \in Row
      BY <1>0, <2>2
    <3>2. [d.line[l] EXCEPT !.product = to] \in Row
      BY <2>1, <3>1
    <3>3. QED
      BY <3>1, <3>2
  <2>3. None \notin Row
    OBVIOUS
  <2>4. QED
    BY <2>2, <2>3
<1>3. lines \in [Line -> Row \cup {None}]
  <2>1. \A l \in Line : lines[l] \in Row \cup {None}
    BY <1>2
  <2>2. QED
    BY <2>1
<1>4. prices \in [Line -> Product \cup {None}] /\ counts \in [Product -> Nat]
  BY <1>0
<1>5. \A l \in Line : prices[l] = IF d.price[l] = from THEN to ELSE d.price[l]
  OBVIOUS
<1>6. counts[to] = d.count[to] + d.count[from] /\ \A p \in Product \ {to} : counts[p] = d.count[p]
  BY <1>0
<1> HIDE DEF lines, prices, counts, e
<1>7. /\ e.line = lines /\ e.price = prices /\ e.count = counts /\ e \in Tables
      /\ e.receipt = d.receipt /\ Alike(d, e)
  BY <1>0, <1>1, <1>3, <1>4 DEF Tables, Alike
<1>8. Live(e) = Live(d)
  BY <1>7, AlikeKept
<1>9. Backed(e)
  BY <1>0, <1>2, <1>5, <1>7, <1>8 DEF Good, Backed, Exists
<1>10. RowsOf(e, from) = {}
  BY <1>5, <1>7 DEF RowsOf
<1>11. Covered(e)
  <2>1. Cardinality(RowsOf(e, from)) <= e.count[from]
    BY <1>0, <1>7, <1>10, FS_EmptySet DEF Tables
  <2>2. Cardinality(RowsOf(e, to)) <= e.count[to]
    <3>1. RowsOf(e, to) = RowsOf(d, from) \cup RowsOf(d, to)
      BY <1>5, <1>7 DEF RowsOf
    <3>2. Cardinality(RowsOf(d, from) \cap RowsOf(d, to)) = 0
      <4>1. RowsOf(d, from) \cap RowsOf(d, to) = {}
        BY DEF RowsOf
      <4>2. QED
        BY <4>1, FS_EmptySet
    <3>3. /\ IsFiniteSet(RowsOf(d, from)) /\ IsFiniteSet(RowsOf(d, to))
          /\ Cardinality(RowsOf(d, from)) \in Nat /\ Cardinality(RowsOf(d, to)) \in Nat
      BY RowsFinite
    <3>4. Cardinality(RowsOf(e, to)) = Cardinality(RowsOf(d, from)) + Cardinality(RowsOf(d, to))
      <4>1. Cardinality(RowsOf(d, from) \cup RowsOf(d, to))
              = Cardinality(RowsOf(d, from)) + Cardinality(RowsOf(d, to))
                - Cardinality(RowsOf(d, from) \cap RowsOf(d, to))
        BY <3>3, FS_Union
      <4>2. QED
        BY <3>1, <3>2, <3>3, <4>1
    <3>5. /\ Cardinality(RowsOf(d, from)) <= d.count[from]
          /\ Cardinality(RowsOf(d, to)) <= d.count[to]
      BY DEF Good, Covered
    <3>6. d.count[from] \in Nat /\ d.count[to] \in Nat
      BY <1>0
    <3>7. QED
      BY <1>6, <1>7, <3>3, <3>4, <3>5, <3>6
  <2>3. ASSUME NEW p \in Live(d) \ {from, to} PROVE Cardinality(RowsOf(e, p)) <= e.count[p]
    <3>1. RowsOf(e, p) = RowsOf(d, p)
      BY <1>5, <1>7 DEF RowsOf
    <3>2. e.count[p] = d.count[p]
      BY <1>6, <1>7 DEF Live
    <3>3. QED
      BY <3>1, <3>2 DEF Good, Covered
  <2>4. QED
    BY <1>8, <2>1, <2>2, <2>3 DEF Covered
<1>12. Identifies(e)
  BY <1>7, <1>8 DEF Good, Identifies, Alike
<1>13. QED
  BY <1>7, <1>9, <1>10, <1>11, <1>12 DEF Good, e

\* One line is written, over another or anew, and a receipt may change.
LEMMA LineSet ==
  ASSUME NEW d, Good(d), NEW l \in Line, NEW w \in Row
  PROVE  /\ Good([d EXCEPT !.line[l] = w]) /\ Alike(d, [d EXCEPT !.line[l] = w])
         /\ [d EXCEPT !.line[l] = w].line[l] = w
         /\ [d EXCEPT !.line[l] = w].receipt = d.receipt
<1> DEFINE lines == [d.line EXCEPT ![l] = w]
<1> DEFINE e == [d EXCEPT !.line = lines]
<1>0. d \in Tables /\ d.line \in [Line -> Row \cup {None}]
  BY DEF Good, Tables
<1>1. e = [d EXCEPT !.line[l] = w]
  BY <1>0 DEF Tables
<1>2. /\ lines \in [Line -> Row \cup {None}] /\ lines[l] = w
      /\ \A k \in Line : d.line[k] # None => lines[k] # None
  <2>1. w # None
    OBVIOUS
  <2>2. QED
    BY <1>0, <2>1
<1> HIDE DEF lines
<1>3. /\ e \in Tables /\ e.line = lines /\ e.price = d.price /\ e.receipt = d.receipt
      /\ e.count = d.count /\ Alike(d, e)
  BY <1>0, <1>2 DEF Tables, Alike
<1> HIDE DEF e
<1>4. \A k \in Line : e.price[k] # None =>
        e.price[k] = d.price[k] /\ e.line[k] # None /\ Exists(e, ReceiptOf[k])
  BY <1>2, <1>3 DEF Good, Backed, Exists
<1>5. Good(e)
  BY <1>3, <1>4, LinesWritten
<1>6. QED
  BY <1>1, <1>2, <1>3, <1>5

LEMMA ReceiptSet ==
  ASSUME NEW d, Good(d), NEW r \in Receipt, NEW s \in {"bare", "stored"}
  PROVE  /\ Good([d EXCEPT !.receipt[r] = s]) /\ Alike(d, [d EXCEPT !.receipt[r] = s])
         /\ [d EXCEPT !.receipt[r] = s].line = d.line
<1> DEFINE receipts == [d.receipt EXCEPT ![r] = s]
<1> DEFINE e == [d EXCEPT !.receipt = receipts]
<1>0. d \in Tables /\ d.receipt \in [Receipt -> {"absent", "bare", "stored", "gone"}]
  BY DEF Good, Tables
<1>1. e = [d EXCEPT !.receipt[r] = s]
  BY <1>0 DEF Tables
<1>2. /\ receipts \in [Receipt -> {"absent", "bare", "stored", "gone"}]
      /\ \A k \in Receipt : d.receipt[k] \in {"bare", "stored"} => receipts[k] \in {"bare", "stored"}
  BY <1>0
<1> HIDE DEF receipts
<1>3. /\ e \in Tables /\ e.line = d.line /\ e.price = d.price /\ e.receipt = receipts
      /\ e.count = d.count /\ Alike(d, e)
  BY <1>0, <1>2 DEF Tables, Alike
<1> HIDE DEF e
<1>4. \A k \in Line : e.price[k] # None =>
        e.price[k] = d.price[k] /\ e.line[k] # None /\ Exists(e, ReceiptOf[k])
  BY <1>2, <1>3 DEF Good, Backed, Exists
<1>5. Good(e)
  BY <1>3, <1>4, LinesWritten
<1>6. QED
  BY <1>1, <1>3, <1>5

LEMMA MatchedGood ==
  ASSUME NEW d, Good(d), NEW l \in Line, NEW p \in Product \cup {None}
  PROVE  Good(Matched(d, l, p)) /\ Alike(d, Matched(d, l, p))
<1>1. CASE d.line[l] = None
  BY <1>1 DEF Matched, Alike
<1>2. CASE d.line[l] # None
  <2>1. d.line \in [Line -> Row \cup {None}] /\ d.line[l] \in Row
    BY <1>2 DEF Good, Tables
  <2>2. PICK w \in Row : w = [d.line[l] EXCEPT !.product = p]
    BY <2>1 DEF Row
  <2>3. Matched(d, l, p) = [d EXCEPT !.line[l] = w]
    BY <1>2, <2>2 DEF Matched
  <2>4. QED
    BY <2>3, LineSet
<1>3. QED
  BY <1>1, <1>2

-----------------------------------------------------------------------------
(* The actions that look and write in one step.                            *)

LEMMA CreateProductKeeps ==
  ASSUME Good(db), NEW p \in Product, NEW g \in Gtin \cup {None}, CreateProduct(p, g)
  PROVE  Good(db') /\ Kept(db, db')
<1> DEFINE d == Created(db, p)
<1>1. db.product[p] = "absent" /\ MaySetGtin(d, p, g) /\ db' = WithGtin(d, p, g)
  BY DEF CreateProduct
<1>2. Good(d) /\ \A f : Kept(d, f) => Kept(db, f)
  BY <1>1, CreatedGood
<1> HIDE DEF d
<1>3. QED
  BY <1>1, <1>2, WithGtinGood

LEMMA EditProductKeeps ==
  ASSUME Good(db), NEW p \in Product, NEW g \in Gtin \cup {None}, EditProduct(p, g)
  PROVE  Good(db') /\ Kept(db, db')
BY WithGtinGood DEF EditProduct

LEMMA DeleteProductKeeps ==
  ASSUME Good(db), NEW p \in Product, NEW fk \in ForeignKeys, DeleteProduct(fk, p)
  PROVE  Good(db') /\ Kept(db, db')
<1> DEFINE without(x) == IF x = p THEN None ELSE x
<1> DEFINE lines == [l \in Line |->
                       IF db.line[l] = None THEN None
                       ELSE [product |-> without(db.line[l].product),
                             hint    |-> without(db.line[l].hint)]]
<1> DEFINE prices == [l \in Line |-> IF db.price[l] = p THEN None ELSE db.price[l]]
<1> DEFINE d == [db EXCEPT !.line = lines, !.price = prices]
<1>0. /\ db \in Tables /\ db.line \in [Line -> Row \cup {None}]
      /\ db.price \in [Line -> Product \cup {None}] /\ p \in Live(db)
  BY DEF Good, Tables, DeleteProduct
<1>1. db' = Dropped(d, fk, p)
  BY DEF DeleteProduct
<1>2. \A l \in Line : lines[l] \in Row \cup {None} /\ (db.line[l] # None => lines[l] # None)
  <2>1. ASSUME NEW l \in Line, db.line[l] # None PROVE lines[l] \in Row
    <3>1. db.line[l].product \in Product \cup {None} /\ db.line[l].hint \in Product \cup {None}
      BY <1>0, <2>1 DEF Row
    <3>2. QED
      BY <2>1, <3>1 DEF Row
  <2>2. None \notin Row
    OBVIOUS
  <2>3. QED
    BY <2>1, <2>2
<1>3. lines \in [Line -> Row \cup {None}]
  <2>1. \A l \in Line : lines[l] \in Row \cup {None}
    BY <1>2
  <2>2. QED
    BY <2>1
<1>4. /\ prices \in [Line -> Product \cup {None}]
      /\ \A l \in Line : prices[l] # p /\ prices[l] \in {None, db.price[l]}
  BY <1>0
<1> HIDE DEF lines, prices
<1>5. /\ d \in Tables /\ d.line = lines /\ d.price = prices /\ d.receipt = db.receipt
      /\ d.count = db.count /\ Alike(db, d)
  BY <1>0, <1>3, <1>4 DEF Tables, Alike
<1> HIDE DEF d
<1>6. \A l \in Line : d.price[l] # None =>
        d.price[l] = db.price[l] /\ d.line[l] # None /\ Exists(d, ReceiptOf[l])
  BY <1>2, <1>4, <1>5 DEF Good, Backed, Exists
<1>7. Good(d) /\ RowsOf(d, p) = {} /\ p \in Live(d)
  BY <1>0, <1>4, <1>5, <1>6, LinesWritten, AlikeKept DEF RowsOf
<1>8. Good(Dropped(d, fk, p)) /\ Kept(d, Dropped(d, fk, p))
  BY <1>7, DroppedGood
<1>9. QED
  BY <1>1, <1>5, <1>8, AlikeKept

LEMMA MergeKeeps ==
  ASSUME Good(db), NEW keep \in Product, NEW merged \in Product, NEW fk \in ForeignKeys,
         Merge(fk, keep, merged)
  PROVE  Good(db') /\ Kept(db, db')
<1> DEFINE d == Moved(db, merged, keep)
<1>1. /\ keep \in Live(db) /\ merged \in Live(db) /\ merged # keep
      /\ db' = Dropped(d, fk, merged)
  BY DEF Merge
<1>2. Good(d) /\ Alike(db, d) /\ RowsOf(d, merged) = {}
  BY <1>1, MovedGood
<1> HIDE DEF d
<1>3. merged \in Live(d)
  BY <1>1, <1>2, AlikeKept
<1>4. Good(Dropped(d, fk, merged)) /\ Kept(d, Dropped(d, fk, merged))
  BY <1>2, <1>3, DroppedGood
<1>5. QED
  BY <1>1, <1>2, <1>4, AlikeKept

LEMMA RecomputeKeeps ==
  ASSUME Good(db), NEW p \in Product, Recompute(p)
  PROVE  Good(db') /\ Kept(db, db')
BY RecomputedGood, AlikeKept DEF Recompute

LEMMA DeleteAllDataKeeps ==
  ASSUME Good(db), NEW fk \in ForeignKeys, DeleteAllData(fk)
  PROVE  Good(db') /\ Kept(db, db')
<1> DEFINE swept == {l \in Line : Exists(db, ReceiptOf[l])}
<1> DEFINE prices == [l \in Line |-> IF l \in swept THEN None ELSE db.price[l]]
<1> DEFINE lines == [l \in Line |-> IF l \in swept THEN None ELSE db.line[l]]
<1> DEFINE receipts == [r \in Receipt |-> IF Exists(db, r) THEN "gone" ELSE db.receipt[r]]
<1> DEFINE products == [p \in Product |-> IF p \in Live(db) THEN "gone" ELSE db.product[p]]
<1> DEFINE owners == [g \in Gtin |-> IF fk /\ db.owner[g] \in Live(db) THEN None ELSE db.owner[g]]
<1>0. /\ db \in Tables /\ db.line \in [Line -> Row \cup {None}]
      /\ db.price \in [Line -> Product \cup {None}]
      /\ db.receipt \in [Receipt -> {"absent", "bare", "stored", "gone"}]
      /\ db.product \in [Product -> {"absent", "live", "gone"}]
      /\ db.owner \in [Gtin -> Product \cup {None}]
  BY DEF Good, Tables
<1>1. db' = [db EXCEPT !.price = prices, !.line = lines, !.receipt = receipts,
                       !.product = products, !.upc = [p \in Product |-> None],
                       !.count = [p \in Product |-> 0], !.owner = owners]
  BY DEF DeleteAllData
<1>2. /\ prices \in [Line -> Product \cup {None}] /\ lines \in [Line -> Row \cup {None}]
      /\ receipts \in [Receipt -> {"absent", "bare", "stored", "gone"}]
      /\ products \in [Product -> {"absent", "live", "gone"}]
      /\ owners \in [Gtin -> Product \cup {None}]
      /\ [p \in Product |-> None] \in [Product -> Gtin \cup {None}]
      /\ [p \in Product |-> 0] \in [Product -> Nat]
  BY <1>0
<1>3. \A l \in Line : prices[l] = None
  BY DEF Good, Backed
<1>4. \A p \in Product : products[p] # "live"
  BY DEF Live
<1>5. \A g \in Gtin : owners[g] \in {None, db.owner[g]}
  OBVIOUS
<1> HIDE DEF prices, lines, receipts, products, owners
<1>6. /\ db' \in Tables /\ db'.price = prices /\ db'.product = products
      /\ db'.upc = [p \in Product |-> None] /\ db'.owner = owners
  BY <1>0, <1>1, <1>2 DEF Tables
<1>7. Live(db') = {}
  BY <1>4, <1>6 DEF Live
<1>8. Backed(db') /\ Covered(db') /\ Identifies(db')
  BY <1>3, <1>6, <1>7 DEF Backed, Covered, Identifies
<1>9. QED
  BY <1>5, <1>6, <1>8 DEF Good, Kept

\* A new line of a receipt that is there, whose product may be learned.
LEMMA AddedGood ==
  ASSUME NEW d, Good(d), NEW l \in Line, NEW w \in Row, NEW learns \in BOOLEAN,
         learns => CanRecord([d EXCEPT !.line[l] = w], {l}) /\ w.product \in Product
  PROVE  LET e == [d EXCEPT !.line[l] = w]
             f == IF learns THEN Recorded(Attached(e, w.product, Printed[l]), {l}) ELSE e
         IN Good(f) /\ Kept(d, f)
<1> DEFINE e == [d EXCEPT !.line[l] = w]
<1>1. Good(e) /\ Alike(d, e)
  BY LineSet
<1>2. learns => CanRecord(e, {l}) /\ w.product \in Product
  OBVIOUS
<1> HIDE DEF e
<1>3. CASE ~learns
  BY <1>1, <1>3, AlikeKept DEF e
<1>4. CASE learns
  <2>1. Printed[l] \in Gtin \cup {None} /\ {l} \in SUBSET Line
    OBVIOUS
  <2>2. /\ Good(Recorded(Attached(e, w.product, Printed[l]), {l}))
        /\ Kept(e, Recorded(Attached(e, w.product, Printed[l]), {l}))
    BY <1>1, <1>2, <1>4, <2>1, LearnedGood
  <2>3. QED
    BY <1>1, <1>4, <2>2, AlikeKept DEF e
<1>5. QED
  BY <1>3, <1>4

LEMMA IngestKeeps ==
  ASSUME Good(db), NEW l \in Line, NEW stored \in BOOLEAN,
         NEW p \in Product \cup {None}, NEW hint \in Product \cup {None},
         Ingest(l, stored, p, hint)
  PROVE  Good(db') /\ Kept(db, db')
<1> DEFINE r == ReceiptOf[l]
<1> DEFINE s == IF stored THEN "stored" ELSE "bare"
<1> DEFINE w == [product |-> p, hint |-> hint]
<1> DEFINE d0 == [db EXCEPT !.receipt[r] = s]
<1> DEFINE d == [d0 EXCEPT !.line[l] = w]
<1>1. /\ {p, hint} \subseteq Live(db) \cup {None}
      /\ db' = IF p # None /\ stored THEN Recorded(Attached(d, p, Printed[l]), {l}) ELSE d
  BY DEF Ingest
<1>2. w \in Row /\ r \in Receipt /\ s \in {"bare", "stored"} /\ w.product = p
  BY DEF Row
<1>3. Good(d0) /\ Alike(db, d0)
  BY <1>2, ReceiptSet
<1> HIDE DEF d0, w
<1>4. Alike(d0, d) /\ d.line[l] = w
  BY <1>2, <1>3, LineSet
<1>5. Live(d) = Live(db)
  BY <1>3, <1>4, AlikeKept
<1>6. CanRecord(d, {l})
  <2>1. PricedFor(d, l) \in {p, None}
    BY <1>2, <1>4 DEF PricedFor
  <2>2. QED
    BY <1>1, <1>5, <2>1 DEF CanRecord
<1> DEFINE learns == p # None /\ stored
<1>7. Good(db') /\ Kept(d0, db')
  <2>1. learns \in BOOLEAN /\ (learns => w.product \in Product)
    BY <1>2
  <2>2. db' = IF learns THEN Recorded(Attached(d, w.product, Printed[l]), {l}) ELSE d
    BY <1>1, <1>2
  <2> HIDE DEF learns
  <2>3. QED
    BY <1>2, <1>3, <1>6, <2>1, <2>2, AddedGood
<1>8. QED
  BY <1>3, <1>7, AlikeKept

LEMMA SetStoreKeeps ==
  ASSUME Good(db), NEW r \in Receipt, NEW stored \in BOOLEAN, SetStore(r, stored)
  PROVE  Good(db') /\ Kept(db, db')
<1> DEFINE s == IF stored THEN "stored" ELSE "bare"
<1> DEFINE d == [db EXCEPT !.receipt[r] = s]
<1>1. CanRecord(d, LinesOf(d, r)) /\ db' = Recorded(d, LinesOf(d, r))
  BY DEF SetStore
<1>2. s \in {"bare", "stored"}
  OBVIOUS
<1>3. Good(d) /\ Alike(db, d)
  BY <1>2, ReceiptSet
<1> HIDE DEF d
<1>4. LinesOf(d, r) \in SUBSET Line
  BY DEF LinesOf
<1>5. Good(db') /\ Alike(d, db')
  BY <1>1, <1>3, <1>4, RecordedGood
<1>6. QED
  BY <1>3, <1>5, AlikeKept

LEMMA DeleteReceiptKeeps ==
  ASSUME Good(db), NEW r \in Receipt, DeleteReceipt(r)
  PROVE  Good(db') /\ Kept(db, db')
<1> DEFINE prices == [l \in Line |-> IF ReceiptOf[l] = r THEN None ELSE db.price[l]]
<1> DEFINE lines == [l \in Line |-> IF ReceiptOf[l] = r THEN None ELSE db.line[l]]
<1> DEFINE receipts == [db.receipt EXCEPT ![r] = "gone"]
<1>0. /\ db \in Tables /\ db.line \in [Line -> Row \cup {None}]
      /\ db.price \in [Line -> Product \cup {None}]
      /\ db.receipt \in [Receipt -> {"absent", "bare", "stored", "gone"}]
  BY DEF Good, Tables
<1>1. db' = [db EXCEPT !.price = prices, !.line = lines, !.receipt = receipts]
  BY <1>0 DEF DeleteReceipt, Tables
<1>2. /\ prices \in [Line -> Product \cup {None}] /\ lines \in [Line -> Row \cup {None}]
      /\ receipts \in [Receipt -> {"absent", "bare", "stored", "gone"}]
  BY <1>0
<1>3. \A l \in Line : prices[l] # None =>
        /\ prices[l] = db.price[l] /\ lines[l] = db.line[l]
        /\ receipts[ReceiptOf[l]] = db.receipt[ReceiptOf[l]]
  BY <1>0
<1> HIDE DEF prices, lines, receipts
<1>4. /\ db' \in Tables /\ db'.price = prices /\ db'.line = lines /\ db'.receipt = receipts
      /\ db'.count = db.count /\ Alike(db, db')
  BY <1>0, <1>1, <1>2 DEF Tables, Alike
<1>5. \A l \in Line : db'.price[l] # None =>
        db'.price[l] = db.price[l] /\ db'.line[l] # None /\ Exists(db', ReceiptOf[l])
  BY <1>3, <1>4 DEF Good, Backed, Exists
<1>6. QED
  BY <1>4, <1>5, LinesWritten

-----------------------------------------------------------------------------
(* The requests that look first.                                           *)

\* What the fields of a request are for its operation.
Fits(q) ==
  /\ q \in Request
  /\ q.op \in {"manual", "add", "match", "relink", "accept", "barcode"} => q.line \in Line
  /\ q.op = "repair" => q.line \in Receipt
  /\ q.op \in {"match", "put", "suggest", "bulk"} => q.product \in Product
  /\ q.op \in {"suggest", "barcode"} => q.gtin \in Gtin

AllFit == pending \in [Client -> Request] /\ \A c \in Client : Fits(pending[c])

CInv == Good(db) /\ AllFit

LEMMA IdleFits == Fits(Idle)
BY DEF Fits, Idle, Request

LEMMA RequestType ==
  ASSUME NEW q, Fits(q)
  PROVE  /\ q.line \in Line \cup Receipt \cup {None} /\ q.product \in Product \cup {None}
         /\ q.gtin \in Gtin \cup {None} /\ q.stored \in BOOLEAN
BY DEF Fits, Request

LEMMA AskedFits ==
  ASSUME AllFit, NEW c \in Client, NEW q, Fits(q), pending' = [pending EXCEPT ![c] = q]
  PROVE  AllFit'
BY DEF AllFit, Fits

\* A transaction that rolls back, or writes sound tables, ends its request.
LEMMA WritesKeeps ==
  ASSUME CInv, NEW c \in Client, NEW ok, NEW d, Writes(c, ok, d),
         ok => Good(d) /\ Kept(db, d)
  PROVE  CInv' /\ Kept(db, db')
<1>1. AllFit'
  BY IdleFits, AskedFits DEF CInv, Writes
<1>2. CASE ok
  BY <1>1, <1>2 DEF CInv, Writes, Good, Backed, Covered, Identifies, Exists, Live, RowsOf, Tables
<1>3. CASE ~ok
  <2>1. db' = db
    BY <1>3 DEF Writes
  <2>2. Good(db') /\ Kept(db, db')
    BY <2>1 DEF CInv, Kept
  <2>3. QED
    BY <1>1, <2>2 DEF CInv
<1>4. QED
  BY <1>2, <1>3

LEMMA LookFits ==
  ASSUME db \in Tables, AllFit, NEW c \in Client, Look(c)
  PROVE  AllFit' /\ db' = db
<1>1. ASSUME NEW q, Asks(c, q), Fits(q) PROVE AllFit' /\ db' = db
  BY <1>1, AskedFits DEF Asks
<1>2. ASSUME NEW l \in Line, AcceptRead(c, l) PROVE AllFit' /\ db' = db
  <2>1. PICK b \in BOOLEAN : b = (db.receipt[ReceiptOf[l]] = "stored")
    OBVIOUS
  <2>2. Asks(c, [Idle EXCEPT !.op = "accept", !.line = l, !.stored = b])
    BY <1>2, <2>1 DEF AcceptRead
  <2>3. Fits([Idle EXCEPT !.op = "accept", !.line = l, !.stored = b])
    BY DEF Fits, Request, Idle
  <2>4. QED
    BY <1>1, <2>2, <2>3
<1>3. ASSUME NEW l \in Line, NEW p \in Product \cup {None}, AddRead(c, l, p)
      PROVE  AllFit' /\ db' = db
  <2>1. PICK b \in BOOLEAN : b = (db.receipt[ReceiptOf[l]] = "stored")
    OBVIOUS
  <2>2. Asks(c, [Idle EXCEPT !.op = "add", !.line = l, !.product = p, !.stored = b])
    BY <1>3, <2>1 DEF AddRead
  <2>3. Fits([Idle EXCEPT !.op = "add", !.line = l, !.product = p, !.stored = b])
    BY DEF Fits, Request, Idle
  <2>4. QED
    BY <1>1, <2>2, <2>3
<1>4. ASSUME NEW l \in Line, NEW p \in Product \cup {None}, RelinkRead(c, l, p)
      PROVE  AllFit' /\ db' = db
  <2>1. Fits([Idle EXCEPT !.op = "relink", !.line = l, !.product = p])
    BY DEF Fits, Request, Idle
  <2>2. QED
    BY <1>1, <1>4, <2>1 DEF RelinkRead
<1>5. ASSUME NEW l \in Line, NEW p \in Product \cup {None}, NEW b \in BOOLEAN,
             ManualRead(c, l, p, b)
      PROVE  AllFit' /\ db' = db
  <2>1. Fits([Idle EXCEPT !.op = "manual", !.line = l, !.product = p, !.stored = b])
    BY DEF Fits, Request, Idle
  <2>2. QED
    BY <1>1, <1>5, <2>1 DEF ManualRead
<1>6. ASSUME NEW l \in Line, NEW p \in Product, MatchRead(c, l, p)
      PROVE  AllFit' /\ db' = db
  <2>1. Fits([Idle EXCEPT !.op = "match", !.line = l, !.product = p])
    BY DEF Fits, Request, Idle
  <2>2. QED
    BY <1>1, <1>6, <2>1 DEF MatchRead
<1>7. ASSUME NEW l \in Line, NEW g \in Gtin, BarcodeRead(c, l, g)
      PROVE  AllFit' /\ db' = db
  <2>1. FoundBy(g) \subseteq Product
    BY DEF FoundBy, Live
  <2>2. PICK p \in Product \cup {None} :
          Asks(c, [Idle EXCEPT !.op = "barcode", !.line = l, !.product = p, !.gtin = g])
    BY <1>7, <2>1 DEF BarcodeRead
  <2>3. Fits([Idle EXCEPT !.op = "barcode", !.line = l, !.product = p, !.gtin = g])
    BY DEF Fits, Request, Idle
  <2>4. QED
    BY <1>1, <2>2, <2>3
<1>8. ASSUME NEW r \in Receipt, RepairRead(c, r) PROVE AllFit' /\ db' = db
  <2>1. PICK b \in BOOLEAN : b = (db.receipt[r] = "stored")
    OBVIOUS
  <2>2. Asks(c, [Idle EXCEPT !.op = "repair", !.line = r, !.stored = b])
    BY <1>8, <2>1 DEF RepairRead
  <2>3. Fits([Idle EXCEPT !.op = "repair", !.line = r, !.stored = b])
    BY DEF Fits, Request, Idle
  <2>4. QED
    BY <1>1, <2>2, <2>3
<1>9. ASSUME NEW p \in Product, PutRead(c, p) \/ BulkRead(c, p)
      PROVE  AllFit' /\ db' = db
  <2>1. db.upc[p] \in Gtin \cup {None}
    BY DEF Tables
  <2>2. /\ Fits([Idle EXCEPT !.op = "put", !.product = p, !.gtin = db.upc[p]])
        /\ Fits([Idle EXCEPT !.op = "bulk", !.product = p, !.gtin = db.upc[p]])
    BY <2>1 DEF Fits, Request, Idle
  <2>3. QED
    BY <1>1, <1>9, <2>2 DEF PutRead, BulkRead
<1>10. ASSUME NEW p \in Product, NEW g \in Gtin, SuggestRead(c, p, g)
       PROVE  AllFit' /\ db' = db
  <2>1. Fits([Idle EXCEPT !.op = "suggest", !.product = p, !.gtin = g])
    BY DEF Fits, Request, Idle
  <2>2. QED
    BY <1>1, <1>10, <2>1 DEF SuggestRead
<1>11. QED
  BY <1>2, <1>3, <1>4, <1>5, <1>6, <1>7, <1>8, <1>9, <1>10 DEF Look
LEMMA ManualCommitKeeps ==
  ASSUME CInv, NEW c \in Client, NEW fk \in ForeignKeys, ManualCommit(fk, c)
  PROVE  CInv' /\ Kept(db, db')
<1>1. PICK q : q = pending[c]
  OBVIOUS
<1> DEFINE r == ReceiptOf[q.line]
<1> DEFINE s == IF q.stored THEN "stored" ELSE "bare"
<1> DEFINE d0 == [db EXCEPT !.receipt[r] = s]
<1>2. Fits(q) /\ q.op = "manual"
  BY <1>1 DEF CInv, AllFit, ManualCommit
<1>3. q.line \in Line /\ r \in Receipt /\ q.product \in Product \cup {None}
      /\ q.stored \in BOOLEAN /\ s \in {"bare", "stored"}
  BY <1>2, RequestType DEF Fits
<1>4. PICK w \in Row :
        Writes(c, /\ MayRefer(db, fk, w.product)
                  /\ w.product # None /\ q.stored => CanRecord([d0 EXCEPT !.line[q.line] = w], {q.line}),
               IF w.product # None /\ q.stored
               THEN Recorded(Attached([d0 EXCEPT !.line[q.line] = w], w.product, Printed[q.line]),
                             {q.line})
               ELSE [d0 EXCEPT !.line[q.line] = w])
  <2>1. [product |-> q.product, hint |-> None] \in Row
    BY <1>3 DEF Row
  <2>2. QED
    BY <1>1, <2>1 DEF ManualCommit
<1>5. Good(d0) /\ Alike(db, d0)
  BY <1>3, ReceiptSet DEF CInv
<1> HIDE DEF d0
<1>6. PICK learns \in BOOLEAN : learns = (w.product # None /\ q.stored)
  BY <1>3
<1>7. w.product \in Product \cup {None}
  BY DEF Row
<1> DEFINE d == [d0 EXCEPT !.line[q.line] = w]
<1> DEFINE f == IF learns THEN Recorded(Attached(d, w.product, Printed[q.line]), {q.line}) ELSE d
<1>8. ASSUME learns => CanRecord(d, {q.line}) PROVE Good(f) /\ Kept(db, f)
  <2>1. learns => w.product \in Product
    BY <1>6, <1>7
  <2>2. Good(f) /\ Kept(d0, f)
    BY <1>3, <1>5, <1>8, <2>1, AddedGood
  <2>3. QED
    BY <1>5, <2>2, AlikeKept
<1>9. Writes(c, MayRefer(db, fk, w.product) /\ (learns => CanRecord(d, {q.line})), f)
  BY <1>4, <1>6
<1> HIDE DEF d, f
<1>10. QED
  BY <1>8, <1>9, WritesKeeps

LEMMA AddCommitKeeps ==
  ASSUME CInv, NEW c \in Client, NEW fk \in ForeignKeys, AddCommit(fk, c)
  PROVE  CInv' /\ Kept(db, db')
<1>1. PICK q : q = pending[c]
  OBVIOUS
<1>2. Fits(q) /\ q.op = "add"
  BY <1>1 DEF CInv, AllFit, AddCommit
<1>3. q.line \in Line /\ q.product \in Product \cup {None} /\ q.stored \in BOOLEAN
  BY <1>2, RequestType DEF Fits
<1>4. PICK w \in Row : w = [product |-> q.product, hint |-> None]
  BY <1>3 DEF Row
<1>5. w.product = q.product
  BY <1>4
<1>6. PICK learns \in BOOLEAN : learns = (q.product # None /\ q.stored)
  BY <1>3
<1> DEFINE d == [db EXCEPT !.line[q.line] = w]
<1> DEFINE f == IF learns THEN Recorded(Attached(d, w.product, Printed[q.line]), {q.line}) ELSE d
<1> DEFINE ok == /\ MayRefer(db, fk, q.product)
                 /\ Exists(db, ReceiptOf[q.line]) \/ ~fk
                 /\ learns => CanRecord(d, {q.line})
<1>7. Writes(c, ok, f)
  BY <1>1, <1>4, <1>5, <1>6 DEF AddCommit
<1>8. ok => Good(f) /\ Kept(db, f)
  <2>1. learns => w.product \in Product
    BY <1>3, <1>5, <1>6
  <2>2. QED
    BY <1>3, <2>1, AddedGood DEF CInv
<1> HIDE DEF f, ok
<1>9. QED
  BY <1>7, <1>8, WritesKeeps

LEMMA MatchCommitKeeps ==
  ASSUME CInv, NEW c \in Client, NEW fk \in ForeignKeys, MatchCommit(fk, c)
  PROVE  CInv' /\ Kept(db, db')
<1>1. PICK q : q = pending[c]
  OBVIOUS
<1> DEFINE d == Matched(db, q.line, q.product)
<1> DEFINE f == Recorded(Attached(d, q.product, Printed[q.line]), {q.line})
<1>2. Fits(q) /\ q.op = "match" /\ Writes(c, MayRefer(db, fk, q.product) /\ CanRecord(d, {q.line}), f)
  BY <1>1 DEF CInv, AllFit, MatchCommit
<1>3. q.line \in Line /\ q.product \in Product /\ Printed[q.line] \in Gtin \cup {None}
  BY <1>2 DEF Fits
<1>4. Good(d) /\ Alike(db, d)
  BY <1>3, MatchedGood DEF CInv
<1> HIDE DEF d
<1>5. CanRecord(d, {q.line}) => Good(f) /\ Kept(d, f)
  BY <1>3, <1>4, LearnedGood
<1> HIDE DEF f
<1>6. CanRecord(d, {q.line}) => Good(f) /\ Kept(db, f)
  BY <1>4, <1>5, AlikeKept
<1>7. QED
  BY <1>2, <1>6, WritesKeeps

LEMMA RelinkCommitKeeps ==
  ASSUME CInv, NEW c \in Client, NEW fk \in ForeignKeys, RelinkCommit(fk, c)
  PROVE  CInv' /\ Kept(db, db')
<1>1. PICK q : q = pending[c]
  OBVIOUS
<1> DEFINE d == Matched(db, q.line, q.product)
<1> DEFINE f == Recorded(d, {q.line})
<1> DEFINE ok == /\ db.line[q.line] # None
                 /\ MayRefer(db, fk, q.product)
                 /\ CanRecord(d, {q.line})
<1>2. Fits(q) /\ q.op = "relink" /\ Writes(c, ok, f)
  BY <1>1 DEF CInv, AllFit, RelinkCommit
<1>3. q.line \in Line /\ q.product \in Product \cup {None}
  BY <1>2, RequestType DEF Fits
<1>4. Good(d) /\ Alike(db, d)
  BY <1>3, MatchedGood DEF CInv
<1> HIDE DEF d
<1>5. ok => Good(f) /\ Alike(d, f)
  BY <1>3, <1>4, RecordedGood
<1> HIDE DEF f
<1>6. ok => Good(f) /\ Kept(db, f)
  BY <1>4, <1>5, AlikeKept
<1> HIDE DEF ok
<1>7. QED
  BY <1>2, <1>6, WritesKeeps

LEMMA AcceptCommitKeeps ==
  ASSUME CInv, NEW c \in Client, NEW fk \in ForeignKeys, AcceptCommit(fk, c)
  PROVE  CInv' /\ Kept(db, db')
<1>1. PICK q : q = pending[c]
  OBVIOUS
<1>2. Fits(q) /\ q.op = "accept"
  BY <1>1 DEF CInv, AllFit, AcceptCommit
<1>3. q.line \in Line /\ q.stored \in BOOLEAN /\ Printed[q.line] \in Gtin \cup {None}
  BY <1>2, RequestType DEF Fits
<1>4. CASE Writes(c, FALSE, db)
  BY <1>4, WritesKeeps
<1>5. ASSUME db.line[q.line] # None, NEW p \in Suggested(q.line),
             LET made == IF db.product[p] = "absent" THEN Created(db, p) ELSE db
                 d == [made EXCEPT !.line[q.line] = [product |-> p, hint |-> None]]
             IN Writes(c, /\ MayRefer(made, fk, p)
                          /\ q.stored => CanRecord(d, {q.line}),
                       Attached(IF q.stored THEN Recorded(d, {q.line}) ELSE d,
                                p, Printed[q.line]))
      PROVE  CInv' /\ Kept(db, db')
  <2>1. p \in Product
    <3>1. db.line[q.line] \in Row
      BY <1>3, <1>5 DEF CInv, Good, Tables
    <3>2. QED
      BY <1>5, <3>1 DEF Suggested, Row
  <2> DEFINE made == IF db.product[p] = "absent" THEN Created(db, p) ELSE db
  <2>2. Good(made) /\ \A f : Kept(made, f) => Kept(db, f)
    BY <2>1, CreatedGood DEF CInv
  <2>3. PICK w \in Row : w = [product |-> p, hint |-> None]
    BY <2>1 DEF Row
  <2> DEFINE d == [made EXCEPT !.line[q.line] = w]
  <2> DEFINE e == IF q.stored THEN Recorded(d, {q.line}) ELSE d
  <2> DEFINE ok == MayRefer(made, fk, p) /\ (q.stored => CanRecord(d, {q.line}))
  <2>4. Writes(c, ok, Attached(e, p, Printed[q.line]))
    BY <1>5, <2>3
  <2> HIDE DEF made
  <2>5. Good(d) /\ Alike(made, d)
    BY <1>3, <2>2, LineSet
  <2> HIDE DEF d
  <2>6. ok => Good(e) /\ Alike(made, e)
    <3>1. q.stored /\ ok => Good(Recorded(d, {q.line})) /\ Alike(d, Recorded(d, {q.line}))
      BY <1>3, <2>5, RecordedGood
    <3>2. QED
      BY <2>5, <3>1 DEF Alike
  <2> HIDE DEF e
  <2>7. ok => /\ Good(Attached(e, p, Printed[q.line]))
              /\ Kept(e, Attached(e, p, Printed[q.line]))
    BY <1>3, <2>1, <2>6, AttachedGood
  <2>8. ok => Kept(db, Attached(e, p, Printed[q.line]))
    BY <2>2, <2>6, <2>7, AlikeKept
  <2> HIDE DEF ok
  <2>9. QED
    BY <2>4, <2>7, <2>8, WritesKeeps
<1>6. QED
  BY <1>1, <1>4, <1>5 DEF AcceptCommit
LEMMA RepairCommitKeeps ==
  ASSUME CInv, NEW c \in Client, RepairCommit(c)
  PROVE  CInv' /\ Kept(db, db')
<1> DEFINE q == pending[c]
<1>2. Fits(q) /\ q.op = "repair"
  BY DEF CInv, AllFit, RepairCommit
<1>3. q.line \in Receipt /\ q.stored \in BOOLEAN
  BY <1>2, RequestType DEF Fits
<1>4. PICK kept \in {{}} \cup {{l} : l \in LinesOf(db, q.line)} :
        LET d == [db EXCEPT
                    !.price = [l \in Line |->
                      IF ReceiptOf[l] = q.line THEN None ELSE db.price[l]],
                    !.line = [l \in Line |->
                      IF ReceiptOf[l] = q.line /\ l \notin kept THEN None ELSE db.line[l]]]
            learned == {l \in kept : q.stored /\ d.line[l].product # None}
        IN Writes(c, CanRecord(d, learned),
                  IF learned = {} THEN d
                  ELSE LET l == CHOOSE x \in learned : TRUE
                       IN Recorded(Attached(d, d.line[l].product, Printed[l]), {l}))
  BY DEF RepairCommit
<1> HIDE DEF q
<1> DEFINE prices == [l \in Line |-> IF ReceiptOf[l] = q.line THEN None ELSE db.price[l]]
<1> DEFINE lines == [l \in Line |->
                       IF ReceiptOf[l] = q.line /\ l \notin kept THEN None ELSE db.line[l]]
<1> DEFINE d == [db EXCEPT !.price = prices, !.line = lines]
<1> DEFINE learned == {l \in kept : q.stored /\ d.line[l].product # None}
<1> DEFINE it == CHOOSE x \in learned : TRUE
<1> DEFINE e == Recorded(Attached(d, d.line[it].product, Printed[it]), {it})
<1> DEFINE f == IF learned = {} THEN d ELSE e
<1>5. Writes(c, CanRecord(d, learned), f)
  BY <1>4
<1>6. /\ db \in Tables /\ db.line \in [Line -> Row \cup {None}]
      /\ db.price \in [Line -> Product \cup {None}]
  BY DEF CInv, Good, Tables
<1>7. /\ prices \in [Line -> Product \cup {None}] /\ lines \in [Line -> Row \cup {None}]
      /\ \A l \in Line : prices[l] # None => prices[l] = db.price[l] /\ lines[l] = db.line[l]
      /\ \A l \in kept : l \in Line /\ lines[l] \in Row
  <2>1. prices \in [Line -> Product \cup {None}]
    BY <1>6
  <2>2. lines \in [Line -> Row \cup {None}]
    BY <1>6
  <2>3. \A l \in Line : prices[l] # None => prices[l] = db.price[l] /\ lines[l] = db.line[l]
    OBVIOUS
  <2>4. ASSUME NEW l \in kept PROVE l \in Line /\ lines[l] \in Row
    <3>1. l \in LinesOf(db, q.line)
      BY <1>4
    <3>2. l \in Line /\ lines[l] = db.line[l] /\ db.line[l] # None
      BY <3>1 DEF LinesOf
    <3>3. QED
      BY <1>6, <3>2
  <2>5. QED
    BY <2>1, <2>2, <2>3, <2>4
<1> HIDE DEF prices, lines
<1>8. /\ d \in Tables /\ d.price = prices /\ d.line = lines /\ d.receipt = db.receipt
      /\ d.count = db.count /\ Alike(db, d)
  BY <1>6, <1>7 DEF Tables, Alike
<1> HIDE DEF d
<1>9. \A l \in Line : d.price[l] # None =>
        d.price[l] = db.price[l] /\ d.line[l] # None /\ Exists(d, ReceiptOf[l])
  BY <1>7, <1>8 DEF CInv, Good, Backed, Exists
<1>10. Good(d) /\ Kept(db, d)
  BY <1>8, <1>9, LinesWritten DEF CInv
<1>11. CASE learned = {}
  BY <1>5, <1>10, <1>11, WritesKeeps
<1>12. CASE learned # {}
  <2>1. it \in learned
    BY <1>12
  <2> HIDE DEF it
  <2>2. it \in Line /\ d.line[it].product \in Product
    BY <1>7, <1>8, <2>1 DEF Row
  <2>3. CanRecord(d, learned) => CanRecord(d, {it})
    BY <2>1 DEF CanRecord
  <2>4. {it} \in SUBSET Line /\ Printed[it] \in Gtin \cup {None}
    BY <2>2
  <2>5. CanRecord(d, {it}) => Good(e) /\ Kept(d, e)
    BY <1>10, <2>2, <2>4, LearnedGood
  <2>6. f = e
    BY <1>12
  <2> HIDE DEF e, f
  <2>7. CanRecord(d, learned) => Good(f) /\ Kept(db, f)
    BY <1>8, <2>3, <2>5, <2>6, AlikeKept
  <2> HIDE DEF learned
  <2>8. QED
    BY <1>5, <2>7, WritesKeeps
<1>13. QED
  BY <1>11, <1>12

LEMMA GtinCommitKeeps ==
  ASSUME CInv, NEW c \in Client,
         PutCommit(c) \/ \E fk \in ForeignKeys : SuggestCommit(fk, c)
  PROVE  CInv' /\ Kept(db, db')
<1>1. PICK q : q = pending[c]
  OBVIOUS
<1>2. Fits(q) /\ q.op \in {"put", "suggest"}
  BY <1>1 DEF CInv, AllFit, PutCommit, SuggestCommit
<1>3. q.product \in Product /\ q.gtin \in Gtin \cup {None}
  BY <1>2, RequestType DEF Fits
<1> DEFINE f == WithGtin(db, q.product, q.gtin)
<1>4. MaySetGtin(db, q.product, q.gtin) => Good(f) /\ Kept(db, f)
  BY <1>3, WithGtinGood DEF CInv
<1> HIDE DEF f
<1>5. CASE PutCommit(c)
  <2>1. Writes(c, q.product \in Live(db) /\ MaySetGtin(db, q.product, q.gtin), f)
    BY <1>1, <1>5 DEF PutCommit, f
  <2>2. QED
    BY <1>4, <2>1, WritesKeeps
<1>6. ASSUME NEW fk \in ForeignKeys, SuggestCommit(fk, c)
      PROVE  CInv' /\ Kept(db, db')
  <2>1. Writes(c, MayRefer(db, fk, q.product) /\ MaySetGtin(db, q.product, q.gtin), f)
    BY <1>1, <1>6 DEF SuggestCommit, f
  <2>2. QED
    BY <1>4, <2>1, WritesKeeps
<1>7. QED
  BY <1>5, <1>6

LEMMA BulkCommitKeeps ==
  ASSUME CInv, NEW c \in Client, NEW fk \in ForeignKeys, BulkCommit(fk, c)
  PROVE  CInv' /\ Kept(db, db')
<1>1. PICK q : q = pending[c]
  OBVIOUS
<1>2. Fits(q) /\ q.op = "bulk"
  BY <1>1 DEF CInv, AllFit, BulkCommit
<1>3. q.product \in Product
  BY <1>2 DEF Fits
<1>4. PICK recompute \in BOOLEAN,
           g \in {h \in Gtin \ {q.gtin} : MaySetGtin(db, q.product, h)} \cup {None} :
        LET d == IF g = None THEN db ELSE WithGtin(db, q.product, g)
        IN Writes(c, g = None \/ MayRefer(db, fk, q.product),
                  IF recompute THEN Recomputed(d, q.product) ELSE d)
  BY <1>1 DEF BulkCommit
<1> DEFINE d == IF g = None THEN db ELSE WithGtin(db, q.product, g)
<1> DEFINE f == IF recompute THEN Recomputed(d, q.product) ELSE d
<1>5. Good(d) /\ Kept(db, d)
  <2>1. CASE g = None
    BY <2>1 DEF CInv, Kept
  <2>2. CASE g # None
    <3>1. g \in Gtin \cup {None} /\ MaySetGtin(db, q.product, g)
      BY <1>4, <2>2
    <3>2. QED
      BY <1>3, <2>2, <3>1, WithGtinGood DEF CInv
  <2>3. QED
    BY <2>1, <2>2
<1>6. Writes(c, g = None \/ MayRefer(db, fk, q.product), f)
  BY <1>4
<1> HIDE DEF d
<1>7. Good(f) /\ Kept(db, f)
  BY <1>3, <1>5, RecomputedGood, AlikeKept
<1> HIDE DEF f
<1>8. QED
  BY <1>6, <1>7, WritesKeeps

LEMMA BarcodeCommitKeeps ==
  ASSUME CInv, NEW c \in Client, NEW fk \in ForeignKeys, BarcodeCommit(fk, c)
  PROVE  CInv' /\ Kept(db, db')
<1>1. PICK q : q = pending[c]
  OBVIOUS
<1>2. Fits(q) /\ q.op = "barcode"
  BY <1>1 DEF CInv, AllFit, BarcodeCommit
<1>3. q.line \in Line /\ q.gtin \in Gtin /\ q.product \in Product \cup {None}
  BY <1>2, RequestType DEF Fits
<1>4. PICK p \in IF q.product # None THEN {q.product}
                 ELSE {x \in Product : db.product[x] = "absent"} :
        LET made == IF q.product = None THEN Created(db, p) ELSE db
            d == Matched(made, q.line, p)
        IN Writes(c, /\ MayRefer(made, fk, p)
                     /\ ~Conflict(d, p, q.gtin) /\ ~UpcTaken(d, p, q.gtin)
                     /\ CanRecord(d, {q.line}),
                  Recorded(Identified(d, p, q.gtin), {q.line}))
  BY <1>1 DEF BarcodeCommit
<1>5. p \in Product /\ (q.product = None => db.product[p] = "absent")
  BY <1>3, <1>4
<1> DEFINE made == IF q.product = None THEN Created(db, p) ELSE db
<1> DEFINE d == Matched(made, q.line, p)
<1> DEFINE e == Identified(d, p, q.gtin)
<1> DEFINE ok == /\ MayRefer(made, fk, p)
                 /\ ~Conflict(d, p, q.gtin) /\ ~UpcTaken(d, p, q.gtin)
                 /\ CanRecord(d, {q.line})
<1>6. Writes(c, ok, Recorded(e, {q.line}))
  BY <1>4
<1>7. Good(made) /\ \A f : Kept(made, f) => Kept(db, f)
  BY <1>5, CreatedGood DEF CInv
<1> HIDE DEF made
<1>8. Good(d) /\ Alike(made, d)
  BY <1>3, <1>5, <1>7, MatchedGood
<1> HIDE DEF d
<1>9. ok => /\ Good(e) /\ Kept(d, e) /\ e.product = d.product
            /\ e.line = d.line /\ e.receipt = d.receipt
  BY <1>3, <1>5, <1>8, IdentifiedGood
<1> HIDE DEF e
<1>10. ok => CanRecord(e, {q.line})
  BY <1>9 DEF CanRecord, PricedFor, Live
<1>11. ok => Good(Recorded(e, {q.line})) /\ Alike(e, Recorded(e, {q.line}))
  BY <1>3, <1>9, <1>10, RecordedGood
<1>12. ok => Kept(d, Recorded(e, {q.line}))
  BY <1>9, <1>11, AlikeKept
<1>13. ok => Kept(db, Recorded(e, {q.line}))
  BY <1>7, <1>8, <1>12, AlikeKept
<1> HIDE DEF ok
<1>14. QED
  BY <1>6, <1>11, <1>13, WritesKeeps

-----------------------------------------------------------------------------

LEMMA CatalogueInit == Init => CInv
<1> SUFFICES ASSUME Init PROVE CInv
  OBVIOUS
<1>1. db \in Tables
  BY DEF Init, Tables
<1>2. Live(db) = {}
  BY DEF Init, Live
<1>3. Backed(db) /\ Covered(db) /\ Identifies(db)
  BY <1>2 DEF Init, Backed, Covered, Identifies
<1>4. AllFit
  BY IdleFits DEF Init, AllFit, Fits
<1>5. QED
  BY <1>1, <1>3, <1>4 DEF CInv, Good

\* Nothing that leaves the requests alone disturbs their types.
LEMMA DirectKeeps ==
  ASSUME AllFit, UNCHANGED pending, Good(db')
  PROVE  CInv'
BY DEF CInv, AllFit, Good, Backed, Covered, Identifies, Fits

LEMMA CatalogueStep == CInv /\ [Next]_vars => CInv' /\ Kept(db, db')
<1> SUFFICES ASSUME CInv, [Next]_vars PROVE CInv' /\ Kept(db, db')
  OBVIOUS
<1>0. Good(db) /\ AllFit /\ db \in Tables
  BY DEF CInv, Good
<1>1. CASE ProductStep
  <2>1. UNCHANGED pending
    BY <1>1 DEF ProductStep, CreateProduct, EditProduct, DeleteProduct, Merge, Recompute
  <2>2. Good(db') /\ Kept(db, db')
    BY <1>0, <1>1, CreateProductKeeps, EditProductKeeps, DeleteProductKeeps, MergeKeeps,
       RecomputeKeeps DEF ProductStep
  <2>3. QED
    BY <1>0, <2>1, <2>2, DirectKeeps
<1>2. CASE EverythingGoes
  BY <1>0, <1>2, DeleteAllDataKeeps, DirectKeeps DEF EverythingGoes, DeleteAllData
<1>3. CASE ReceiptStep
  <2>1. UNCHANGED pending
    BY <1>3 DEF ReceiptStep, Ingest, SetStore, DeleteReceipt
  <2>2. Good(db') /\ Kept(db, db')
    BY <1>0, <1>3, IngestKeeps, SetStoreKeeps, DeleteReceiptKeeps DEF ReceiptStep
  <2>3. QED
    BY <1>0, <2>1, <2>2, DirectKeeps
<1>4. ASSUME NEW c \in Client, Look(c) PROVE CInv' /\ Kept(db, db')
  <2>1. AllFit' /\ db' = db
    BY <1>0, <1>4, LookFits
  <2>2. Good(db') /\ Kept(db, db')
    BY <1>0, <2>1 DEF Kept
  <2>3. QED
    BY <2>1, <2>2 DEF CInv, Good, Backed, Covered, Identifies
<1>5. ASSUME NEW c \in Client, Transact(c) PROVE CInv' /\ Kept(db, db')
  <2>1. ASSUME Fails(c) PROVE CInv' /\ Kept(db, db')
    BY <2>1, WritesKeeps DEF Fails
  <2>2. QED
    BY <1>5, <2>1, ManualCommitKeeps, AddCommitKeeps, MatchCommitKeeps, RelinkCommitKeeps,
       AcceptCommitKeeps, GtinCommitKeeps, BulkCommitKeeps, BarcodeCommitKeeps,
       RepairCommitKeeps DEF Transact
<1>6. CASE UNCHANGED vars
  <2>1. db' = db /\ pending' = pending
    BY <1>6 DEF vars
  <2>2. Good(db') /\ Kept(db, db')
    BY <1>0, <2>1 DEF Kept
  <2>3. QED
    BY <1>0, <2>1, <2>2, DirectKeeps
<1>7. QED
  BY <1>1, <1>2, <1>3, <1>4, <1>5, <1>6 DEF Next

LEMMA CatalogueAlways == Spec => []CInv
<1>1. CInv /\ [Next]_vars => CInv'
  BY CatalogueStep
<1>2. QED
  BY <1>1, CatalogueInit, PTL DEF Spec

(* The tables and requests keep their types, a price row is backed by a    *)
(* line and a living product, and a purchase count covers the rows.        *)
THEOREM CatalogueIsSound == Spec => []CatalogueSound
<1>1. CInv => CatalogueSound
  BY DEF CInv, Good, AllFit, Backed, Covered, CatalogueSound, CatalogueTypeOK, RowsAreBacked,
         CountsCover
<1>2. QED
  BY <1>1, CatalogueAlways, PTL

(* A product shows only a GTIN that the identifier table gives to it.      *)
THEOREM UpcsAreOwned == Spec => []UpcIsOwned
<1>1. CInv => UpcIsOwned
  BY DEF CInv, Good, Identifies, UpcIsOwned
<1>2. QED
  BY <1>1, CatalogueAlways, PTL

(* A GTIN leaves a living product only by being released or with it.       *)
THEOREM GtinsAreNotStolen == Spec => GtinNotStolen
<1>1. CInv /\ [Next]_vars
      => [\A g \in Gtin :
            db.owner[g] \in Live(db) /\ db'.owner[g] # db.owner[g]
              => \/ db'.owner[g] = None
                 \/ db.owner[g] \notin Live(db')]_vars
  BY CatalogueStep DEF Kept
<1>2. QED
  BY <1>1, CatalogueAlways, PTL DEF Spec, GtinNotStolen
=============================================================================
