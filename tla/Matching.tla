------------------------------ MODULE Matching ------------------------------
(***************************************************************************)
(* Product matching: which product a printed name is taken for             *)
(* (internal/matcher), and what the program learns from each answer for    *)
(* the next one: aliases, store codes and rules (internal/api/aliases.go,  *)
(* matching.go, internal/storecodes).  The import and the scan worker      *)
(* match through a session, whose candidates were read when it was opened. *)
(* All lines of one receipt are one transaction, and the matcher reads     *)
(* outside of it: no line sees what the lines before it have taught.       *)
(* SQLite has one writer, so nothing else is written in between.           *)
(*                                                                         *)
(* A key is a normalised name.  Scores, priorities and conditions are      *)
(* constants; identifiers and the prices a match leaves are Catalogue's.   *)
(* SQL gives no order among equals, so a stage returns the set of answers  *)
(* it may give, and a transaction may run without foreign keys, as in      *)
(* Catalogue.                                                              *)
(***************************************************************************)
EXTENDS Naturals

CONSTANTS Product, Store, Name, Key, Code, Rule, Batch,
          Plain,        \* matcher.Normalize of a name
          Stored,       \* matcher.NormalizeProductName of it: "&" is " and "
          Title,        \* the key of a product's name
          Score,        \* similarity of two keys in tenths, 0 for no rank
          Condition,    \* the sets of keys a rule's condition may hold for
          Priority,     \* priorities of rules, 0 among them
          ForeignKeys,  \* settings of the foreign_keys pragma in the pool
          Global,       \* the scope of an alias or a rule without a store
          None

Scope == Store \cup {Global}

RuleRow == [scope : Scope, when : Condition, priority : Priority, product : Product]

ASSUME MatchingAssumption ==
  /\ Plain \in [Name -> Key] /\ Stored \in [Name -> Key]
  /\ Title \in [Product -> Key]
  /\ Score \in [Key \X Key -> 0..10] /\ \A k \in Key : Score[<<k, k>>] = 10
  /\ Condition \subseteq SUBSET Key /\ \A k \in Key : {k} \in Condition
  /\ Priority \subseteq Nat /\ 0 \in Priority
  /\ ForeignKeys \subseteq BOOLEAN
  /\ None \notin Batch
  /\ Global \notin Store /\ None \notin Product \cup Name \cup Code \cup RuleRow

VARIABLES
  db,    \* products, product_aliases, store_product_codes, matching_rules
  sess,  \* the session of a receipt job or an import group
  tx,    \* the open transaction of one of them, which has the write lock
  late   \* history: rules last written for a product that was gone

ingestion == <<sess, tx>>

vars == <<db, sess, tx, late>>

Tables ==
  [product : [Product -> {"absent", "live", "gone"}],
   alias   : [Scope \X Key -> Product \cup {None}],
   code    : [Store \X Code -> Product \cup {None}],
   rule    : [Rule -> RuleRow \cup {None}]]

(* A printed line on a receipt of a store, or of none: Global.             *)
Input == [name : Name, store : Scope, code : Code \cup {None},
          hint : Name \cup {None}]

Candidate == Key \X Product

Closed == [open |-> FALSE, cached |-> FALSE, store |-> Global, candidates |-> {}]

Session == [open : BOOLEAN, cached : BOOLEAN, store : Scope,
            candidates : SUBSET Candidate]

(* A line that has taught its name and code.                               *)
Line == [name : Name, code : Code \cup {None}, product : Product]

(* The tables as the transaction sees them, and history: its lines.        *)
Transaction == [batch : Batch \cup {None}, fk : BOOLEAN, tables : Tables,
                lines : SUBSET Line]

Empty == [product |-> [p \in Product |-> "absent"],
          alias   |-> [a \in Scope \X Key |-> None],
          code    |-> [c \in Store \X Code |-> None],
          rule    |-> [r \in Rule |-> None]]

NoTx == [batch |-> None, fk |-> FALSE, tables |-> Empty, lines |-> {}]

Init ==
  /\ db = Empty
  /\ sess = [b \in Batch |-> Closed]
  /\ tx = NoTx
  /\ late = {}

-----------------------------------------------------------------------------
(* The stages.                                                             *)

Live(d) == {p \in Product : d.product[p] = "live"}

Answer(by, products) == {[by |-> by, product |-> p] : p \in products}

ByCode(d, i) ==
  Answer("code", IF i.code = None \/ i.store = Global THEN {}
                 ELSE {d.code[<<i.store, i.code>>]} \cap Live(d))

(* The highest priority that holds; no product is looked up.               *)
ByRule(d, i) ==
  LET holds == {r \in Rule : /\ d.rule[r] # None
                             /\ d.rule[r].scope \in {Global, i.store}
                             /\ Plain[i.name] \in d.rule[r].when}
      top == {r \in holds : \A q \in holds : d.rule[q].priority <= d.rule[r].priority}
  IN Answer("rule", {d.rule[r].product : r \in top})

(* The store's own alias first, then the one of all stores.                *)
ByAlias(d, i) ==
  LET owner(scope) == {d.alias[<<scope, Plain[i.name]>>]} \cap Live(d)
  IN Answer("alias", IF owner(i.store) # {} THEN owner(i.store) ELSE owner(Global))

\* Mutant of Candidates: the aliases of every store.
CandidatesAnywhere(d, s) ==
  {c \in Candidate :
     /\ c[2] \in Live(d)
     /\ Title[c[2]] = c[1] \/ \E scope \in Scope : d.alias[<<scope, c[1]>>] = c[2]}

Candidates(d, s) ==
  {c \in Candidate :
     /\ c[2] \in Live(d)
     /\ Title[c[2]] = c[1] \/ \E scope \in {s, Global} : d.alias[<<scope, c[1]>>] = c[2]}

Threshold == 7

Nearest(candidates, k) ==
  {c[2] : c \in {x \in candidates :
                   /\ Score[<<k, x[1]>>] >= Threshold
                   /\ \A y \in candidates : Score[<<k, y[1]>>] <= Score[<<k, x[1]>>]}}

ByFuzzy(candidates, i) == Answer("fuzzy", Nearest(candidates, Plain[i.name]))

(* The model's own name for the item, when nothing else has matched: only  *)
(* proposed to the user.                                                   *)
BySuggestion(d, candidates, i) ==
  IF i.hint = None THEN {}
  ELSE LET named == {p \in Live(d) : Title[p] = Stored[i.hint]}
       IN Answer("suggested", IF named # {} THEN named
                              ELSE Nearest(candidates, Plain[i.hint]))

(* The next stage is asked when this one has no answer.                    *)
answers ?? next == IF answers # {} THEN answers ELSE next

(* Engine.MatchInput.                                                      *)
EngineMatch(d, i) ==
  ByCode(d, i) ?? ByRule(d, i) ?? ByAlias(d, i)
    ?? ByFuzzy(Candidates(d, i.store), i)
    ?? BySuggestion(d, Candidates(d, i.store), i)

\* Mutant of SessionMatch: what is in memory is asked first.
SessionMatchCachedFirst(d, s, i) ==
  ByCode(d, i) ?? ByRule(d, i) ?? ByFuzzy(s.candidates, i) ?? ByAlias(d, i)
    ?? BySuggestion(d, s.candidates, i)

(* Session.MatchInput.                                                     *)
SessionMatch(d, s, i) ==
  ByCode(d, i) ?? ByRule(d, i) ?? ByAlias(d, i) ?? ByFuzzy(s.candidates, i)
    ?? BySuggestion(d, s.candidates, i)

-----------------------------------------------------------------------------
(* What is learned.                                                        *)

\* Mutant of Upserted: the last product to have the name gets it.
UpsertedLatest(d, scope, n, p) == [d EXCEPT !.alias[<<scope, Stored[n]>>] = p]

(* UpsertAlias: a name another product has, a deleted one too, stays with  *)
(* it, and every caller but the alias endpoint goes on.                    *)
Upserted(d, scope, n, p) ==
  IF d.alias[<<scope, Stored[n]>>] = None
  THEN [d EXCEPT !.alias[<<scope, Stored[n]>>] = p] ELSE d

(* UpsertReceipt leaves a known code as it is; UpsertManual does not.      *)
Coded(d, i, p, overwrite) ==
  IF i.code # None /\ i.store # Global
     /\ (overwrite \/ d.code[<<i.store, i.code>>] = None)
  THEN [d EXCEPT !.code[<<i.store, i.code>>] = p] ELSE d

(* A reference to p can be written, and its price, which a receipt with a  *)
(* store needs, looks the product up.                                      *)
MayRefer(fk, p) == p \in Live(db) \/ (~fk /\ db.product[p] = "gone")
CanLearn(fk, i, p) == MayRefer(fk, p) /\ (i.store # Global => p \in Live(db))

LateNow(rules, p) == IF p \in Live(db) THEN late \ rules ELSE late \cup rules

-----------------------------------------------------------------------------
(* Products, aliases and rules.                                            *)

CreateProduct(p) ==
  /\ db.product[p] = "absent"
  /\ db' = [db EXCEPT !.product[p] = "live"]
  /\ UNCHANGED <<ingestion, late>>

(* Aliases and codes follow a deleted product by ON DELETE CASCADE only.   *)
Dropped(d, fk, p) ==
  LET kept(owner) == IF fk /\ owner = p THEN None ELSE owner
  IN [d EXCEPT !.product[p] = "gone",
               !.alias = [a \in DOMAIN @ |-> kept(@[a])],
               !.code = [c \in DOMAIN @ |-> kept(@[c])]]

\* Mutant of DeleteProduct: the rules are left to a cascade.
DeleteProductAlone(fk, p) ==
  /\ p \in Live(db)
  /\ db' = Dropped([db EXCEPT !.rule = [r \in Rule |->
                      IF fk /\ @[r] # None /\ @[r].product = p THEN None ELSE @[r]]],
                   fk, p)
  /\ UNCHANGED <<ingestion, late>>

(* DELETE /products/:id removes the rules itself.                          *)
DeleteProduct(fk, p) ==
  /\ p \in Live(db)
  /\ db' = Dropped([db EXCEPT !.rule = [r \in Rule |->
                      IF @[r] # None /\ @[r].product = p THEN None ELSE @[r]]],
                   fk, p)
  /\ UNCHANGED <<ingestion, late>>

\* Mutant of Moved: the aliases are left to the cascade.
MovedRulesOnly(d, from, to) ==
  [d EXCEPT !.rule = [r \in Rule |->
     IF @[r] # None /\ @[r].product = from THEN [@[r] EXCEPT !.product = to] ELSE @[r]]]

(* POST /products/merge moves aliases and rules, and no codes.             *)
Moved(d, from, to) ==
  [d EXCEPT
     !.alias = [a \in DOMAIN @ |-> IF @[a] = from THEN to ELSE @[a]],
     !.rule = [r \in Rule |->
       IF @[r] # None /\ @[r].product = from THEN [@[r] EXCEPT !.product = to] ELSE @[r]]]

Merge(fk, keep, merged) ==
  /\ {keep, merged} \subseteq Live(db) /\ keep # merged
  /\ db' = Dropped(Moved(db, merged, keep), fk, merged)
  /\ UNCHANGED <<ingestion, late>>

(* POST /products/:id/aliases: the product was there when it was looked    *)
(* up; another product's alias is a 409.                                   *)
CreateAlias(fk, scope, n, p) ==
  /\ MayRefer(fk, p)
  /\ db.alias[<<scope, Stored[n]>>] = None
  /\ db' = Upserted(db, scope, n, p)
  /\ UNCHANGED <<ingestion, late>>

(* DELETE /products/:id/aliases/:aliasId.                                  *)
DeleteAlias(scope, k) ==
  /\ db.alias[<<scope, k>>] \in Live(db)
  /\ db' = [db EXCEPT !.alias[<<scope, k>>] = None]
  /\ UNCHANGED <<ingestion, late>>

(* POST /rules, and PUT /rules/:id, which may change any part of one: only *)
(* the foreign key asks whether the product is there.                      *)
WriteRule(fk, r, row) ==
  /\ MayRefer(fk, row.product)
  /\ db' = [db EXCEPT !.rule[r] = row]
  /\ late' = LateNow({r}, row.product)
  /\ UNCHANGED ingestion

(* DELETE /rules/:id.                                                      *)
DeleteRule(r) ==
  /\ db.rule[r] # None
  /\ db' = [db EXCEPT !.rule[r] = None]
  /\ late' = late \ {r}
  /\ UNCHANGED ingestion

-----------------------------------------------------------------------------
(* Lines.                                                                  *)

(* PUT /line-items/:id/match: the product was there when it was looked up. *)
(* The name and the code are learned, and a rule if the user asks for one. *)
ManualMatch(fk, i, p, rules) ==
  /\ CanLearn(fk, i, p)
  /\ LET learned == Coded(Upserted(db, i.store, i.name, p), i, p, TRUE)
     IN db' = [learned EXCEPT !.rule = [r \in Rule |->
                 IF r \in rules
                 THEN [scope |-> i.store, when |-> {Plain[i.name]}, priority |-> 0,
                       product |-> p]
                 ELSE @[r]]]
  /\ late' = LateNow(rules, p)
  /\ UNCHANGED ingestion

Opened(s, cached) ==
  [open |-> TRUE, cached |-> cached, store |-> s,
   candidates |-> IF cached THEN Candidates(db, s) ELSE {}]

Begun(fk, b) == [batch |-> b, fk |-> fk, tables |-> db, lines |-> {}]

(* The transaction of a receipt, and in it NewSession, or the call by call *)
(* fallback where that fails.  The worker has updated the receipt by then, *)
(* and a group that has looked up its store writes only if nobody else has *)
(* written since: either has the write lock.                               *)
Open(fk, b, s, cached) ==
  /\ ~sess[b].open /\ tx = NoTx
  /\ sess' = [sess EXCEPT ![b] = Opened(s, cached)]
  /\ tx' = Begun(fk, b)
  /\ UNCHANGED <<db, late>>

(* A group without a store opens its session before it has read or written *)
(* anything ...                                                            *)
OpenAhead(b, cached) ==
  /\ ~sess[b].open
  /\ sess' = [sess EXCEPT ![b] = Opened(Global, cached)]
  /\ UNCHANGED <<db, tx, late>>

(* ... and has the lock when it writes its receipt.                        *)
Begin(fk, b) ==
  /\ sess[b].open /\ tx = NoTx
  /\ tx' = Begun(fk, b)
  /\ UNCHANGED <<db, sess, late>>

Found(b, i) ==
  IF sess[b].cached THEN SessionMatch(db, sess[b], i) ELSE EngineMatch(db, i)

Taught(d, i, p) == Coded(Upserted(d, i.store, i.name, p), i, p, FALSE)

(* One line of the receipt: what is only suggested teaches nothing, nor    *)
(* does a receipt without a store, and a reference that cannot be written  *)
(* takes the receipt with it: Drop.                                        *)
Ingest(b, i, answer) ==
  /\ tx.batch = b /\ i.store = sess[b].store
  /\ answer \in Found(b, i)
  /\ answer.by # "suggested" => CanLearn(tx.fk, i, answer.product)
  /\ tx' = IF answer.by = "suggested" \/ i.store = Global THEN tx
           ELSE [tx EXCEPT
                  !.tables = Taught(@, i, answer.product),
                  !.lines = @ \cup {[name |-> i.name, code |-> i.code,
                                     product |-> answer.product]}]
  /\ UNCHANGED <<db, sess, late>>

CommitReceipt(b) ==
  /\ tx.batch = b
  /\ db' = tx.tables
  /\ sess' = [sess EXCEPT ![b] = Closed]
  /\ tx' = NoTx
  /\ UNCHANGED late

(* Rolled back, or given up before it has begun.                           *)
Drop(b) ==
  /\ sess[b].open
  /\ sess' = [sess EXCEPT ![b] = Closed]
  /\ tx' = IF tx.batch = b THEN NoTx ELSE tx
  /\ UNCHANGED <<db, late>>

(* What backfill-store-item-codes has read: codes of lines and the         *)
(* products they were matched to.  A code of two products is reported.     *)
Conflicts(seen) ==
  {c \in Store \X Code :
     \E p, q \in Product : p # q /\ <<c, p>> \in seen /\ <<c, q>> \in seen}

(* The command's transaction, later: it fails as a whole on a product that *)
(* is gone, or learns its code like a receipt does.                        *)
Backfill(fk, seen) ==
  LET written == {s \in seen : s[1] \notin Conflicts(seen)}
  IN /\ \A s \in seen : db.product[s[2]] # "absent"
     /\ \A s \in written : MayRefer(fk, s[2])
     /\ db' = [db EXCEPT !.code = [c \in DOMAIN @ |->
                 IF @[c] = None /\ \E s \in written : s[1] = c
                 THEN CHOOSE p \in Product : <<c, p>> \in written ELSE @[c]]]
     /\ UNCHANGED <<ingestion, late>>

-----------------------------------------------------------------------------

Manage ==
  \/ \E p \in Product : CreateProduct(p)
  \/ \E fk \in ForeignKeys, p \in Product :
       \/ DeleteProduct(fk, p)
       \/ \E keep \in Product : Merge(fk, keep, p)
       \/ \E scope \in Scope, n \in Name : CreateAlias(fk, scope, n, p)
  \/ \E scope \in Scope, k \in Key : DeleteAlias(scope, k)
  \/ \E r \in Rule :
       \/ DeleteRule(r)
       \/ \E fk \in ForeignKeys, row \in RuleRow : WriteRule(fk, r, row)

ByHand ==
  \/ \E fk \in ForeignKeys, i \in Input, p \in Product,
        rules \in {{}} \cup {{r} : r \in {x \in Rule : db.rule[x] = None}} :
       i.hint = None /\ ManualMatch(fk, i, p, rules)
  \/ \E fk \in ForeignKeys, seen \in SUBSET ((Store \X Code) \X Product) :
       Backfill(fk, seen)

Receipt(b) ==
  \/ \E fk \in ForeignKeys :
       \/ \E s \in Scope, cached \in BOOLEAN : Open(fk, b, s, cached)
       \/ Begin(fk, b)
  \/ \E cached \in BOOLEAN : OpenAhead(b, cached)
  \/ \E i \in Input : \E answer \in Found(b, i) : Ingest(b, i, answer)
  \/ CommitReceipt(b)
  \/ Drop(b)

(* Whoever else writes waits for the transaction of a receipt.             *)
Next ==
  \/ tx = NoTx /\ (Manage \/ ByHand)
  \/ \E b \in Batch : Receipt(b)

Spec == Init /\ [][Next]_vars

-----------------------------------------------------------------------------

MatchTypeOK ==
  /\ db \in Tables
  /\ sess \in [Batch -> Session]
  /\ tx \in Transaction
  /\ late \subseteq Rule

(* Whatever a deleted or merged product has left behind, with foreign keys *)
(* or without, no fresh match finds it, except by a rule that was written  *)
(* for it after it had gone: neither way of losing a product, by a delete  *)
(* or into a merge, leaves a rule that still gives it.                     *)
MatchSound ==
  /\ MatchTypeOK
  /\ \A i \in Input : \A a \in EngineMatch(db, i) :
       \/ a.product \in Live(db)
       \/ a.by = "rule" /\ \E r \in late : /\ db.rule[r] # None
                                           /\ db.rule[r].product = a.product

Products(answers) == {a.product : a \in answers}

(* The session gives the engine's answers: always where it belongs to a   *)
(* store, and without a store, where it may be older than its transaction, *)
(* as long as its candidates are the database's, and whatever else it has  *)
(* missed where the answer comes from a stage before the fuzzy one.        *)
SessionAgrees ==
  \A b \in Batch, i \in Input :
    /\ sess[b].open /\ sess[b].cached /\ sess[b].store = i.store
    /\ \/ i.store # Global
       \/ sess[b].candidates = Candidates(db, i.store)
       \/ \E a \in EngineMatch(db, i) : a.by \in {"code", "rule", "alias"}
    => SessionMatch(db, sess[b], i) = EngineMatch(db, i)

Sure(answers) == /\ answers # {}
                 /\ \A a \in answers : a.by \in {"code", "rule", "alias"}

(* Products of the open receipt's lines with the name or the code of i,    *)
(* where nobody had that before.                                           *)
TaughtFor(i) ==
  {m.product : m \in {x \in tx.lines :
     \/ Stored[x.name] = Stored[i.name] /\ db.alias[<<i.store, Stored[i.name]>>] = None
     \/ i.code # None /\ x.code = i.code /\ db.code[<<i.store, i.code>>] = None}}

(* After a receipt is committed, a match in its store that a code, a rule  *)
(* or an alias decided is what it was, and a line of the receipt is        *)
(* matched at once to the product it was given, save for one thing: the    *)
(* lines did not see each other, so where several have a new name or a new *)
(* code in common, the product is that of one of them.  Not covered: names *)
(* looked up under another key than they are stored under, and those that  *)
(* a deleted product still has.                                            *)
Settles ==
  [][\A b \in Batch : CommitReceipt(b) =>
       \A i \in Input :
       /\ i.store = sess[b].store /\ i.store # Global
       /\ Plain[i.name] = Stored[i.name]
       /\ db'.alias[<<i.store, Stored[i.name]>>] \in Live(db') \cup {None}
       /\ \/ Sure(EngineMatch(db, i))
          \/ \E m \in tx.lines : m.name = i.name /\ m.code = i.code
       => \/ Sure(EngineMatch(db, i)) /\ EngineMatch(db', i) = EngineMatch(db, i)
          \/ /\ EngineMatch(db', i) # {}
             /\ Products(EngineMatch(db', i)) \subseteq TaughtFor(i)]_vars

(* What a receipt teaches about its store changes no match of another one. *)
StoresApart ==
  [][\A b \in Batch : sess[b].open /\ ~sess'[b].open =>
       \A i \in Input : i.store # sess[b].store
         => EngineMatch(db', i) = EngineMatch(db, i)]_vars

(* A line that a rule or an alias gave to a merged product goes to the     *)
(* product it was merged into.                                             *)
MergeRemembers ==
  [][\A fk \in ForeignKeys, keep, merged \in Product : Merge(fk, keep, merged) =>
       \A i \in Input :
       EngineMatch(db, i) \in (SUBSET [by : {"rule", "alias"}, product : {merged}]) \ {{}}
       => Products(EngineMatch(db', i)) = {keep}]_vars

(* "manual match, alias created, subsequent scan auto-matches".            *)
Learned ==
  \A s \in Store, n \in Name : db.alias[<<s, Stored[n]>>] \in Live(db) =>
    db.alias[<<s, Stored[n]>>] \in
      Products(ByAlias(db, [name |-> n, store |-> s, code |-> None, hint |-> None]))

(* A store code of a merged product finds the product it was merged into.  *)
MergeKeepsCodes ==
  [][\A fk \in ForeignKeys, keep, merged \in Product, c \in Store \X Code :
       Merge(fk, keep, merged) /\ db.code[c] = merged => db'.code[c] = keep]_vars

(* A rule gives a product that is there.                                   *)
RulesAreLive == \A r \in Rule : db.rule[r] # None => db.rule[r].product \in Live(db)
=============================================================================
