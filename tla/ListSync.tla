------------------------------ MODULE ListSync ------------------------------
(***************************************************************************)
(* How the tabs that show a shopping list keep up with it: the handlers    *)
(* that write it (internal/api/lists.go), the events they broadcast        *)
(* through the hub of WsHub, and the query and the listeners of the page   *)
(* (web/src/api/ws.ts, web/src/hooks/useWebSocket.ts).  The lock is        *)
(* ListLock's: a write that it refuses goes on all the same.               *)
(***************************************************************************)
EXTENDS WsHub

CONSTANTS
    Item,
    Call         \* requests that may be in progress at a time

ASSUME SyncAssumption == Message = {"item", "list"}

VARIABLES
    list,     \* whether the list is "there" or "gone"
    items,    \* its rows
    calls,    \* the requests in progress
    page,     \* the tab: "away", or on the list's page, see PageState
    view,     \* the query's data in each tab: "none", "old", or "fresh", as the rows are
    fetch,    \* the query in progress, and what it has read
    toggling, \* tabs with a check of a row shown and not yet answered
    steady,   \* history: tabs in touch since they last read the list, see InTouch
    untold    \* history: those of them that were not told of a change since

rowVars == <<list, items>>
tabVars == <<page, view, fetch, toggling, steady, untold>>
syncVars == <<hubVars, rowVars, calls, tabVars>>

\* A row, by what people change about it.
ItemState == {"none", "open", "done", "deleted"}

\* "listening": the page has put its own listener on the tab's socket; "deaf":
\* the tab was loaded on this page, whose effects run before those of AppLayout,
\* so there was no socket to listen to.
PageState == {"away", "listening", "deaf"}

\* The writes.  The last two, of the list's own columns and of the order of its
\* rows, change what the page shows and announce nothing.
CallOp == {"addItems", "setItem", "removeItem", "patchItems", "removeItems", "dropList",
           "updateList", "reorderItems"}

NoCall == [pc |-> "idle", op |-> "dropList", on |-> {}, to |-> "none"]

CallState == [pc : {"idle", "check", "validate", "commit", "readback", "announce"},
              op : CallOp, on : SUBSET Item, to : ItemState]

SyncTypeOK ==
    /\ HubTypeOK
    /\ list \in {"there", "gone"}
    /\ items \in [Item -> ItemState]
    /\ calls \in [Call -> CallState]
    /\ page \in [Client -> PageState]
    /\ view \in [Client -> {"none", "old", "fresh"}]
    /\ fetch \in [Client -> {"none", "asked", "old", "fresh"}]
    /\ toggling \subseteq Client
    /\ steady \subseteq Client
    /\ untold \subseteq steady

\* The types, no send channel closed twice or sent on when closed, and no page
\* left registered with a gap in what it was sent.
SyncSound == SyncTypeOK /\ ClosedOnce /\ NoSilentGap

SyncInit ==
    /\ HubInit
    /\ list = "there"
    /\ items = [i \in Item |-> "none"]
    /\ calls = [q \in Call |-> NoCall]
    /\ page = [c \in Client |-> "away"]
    /\ view = [c \in Client |-> "none"]
    /\ fetch = [c \in Client |-> "none"]
    /\ toggling = {}
    /\ steady = {}
    /\ untold = {}

-----------------------------------------------------------------------------
(* The handlers.                                                           *)

Reached(q, pc) == calls[q].pc = pc
Enter(q, pc) == calls' = [calls EXCEPT ![q].pc = pc]
End(q) == calls' = [calls EXCEPT ![q] = NoCall]
Present(i) == items[i] \in {"open", "done"}

Ask(q, op, on, to) ==
    calls' = [calls EXCEPT ![q] = [pc |-> IF op \in {"dropList", "updateList"} THEN "commit" ELSE "check",
                                   op |-> op, on |-> on, to |-> to]]

\* People act on rows they have seen; the ids of new ones are fresh.
BeginCall(q) ==
    /\ Reached(q, "idle")
    /\ \/ Ask(q, "dropList", {}, "none") \/ Ask(q, "updateList", {}, "none")
       \/ \E i \in Item : /\ items[i] # "none"
                          /\ \/ \E to \in {"open", "done"} : Ask(q, "setItem", {i}, to)
                             \/ Ask(q, "removeItem", {i}, "deleted")
       \/ \E S \in (SUBSET Item) \ {{}} :
             \/ /\ \A i \in S : items[i] # "none"
                /\ \/ Ask(q, "patchItems", S, "done")
                   \/ Ask(q, "removeItems", S, "deleted")
                   \/ Ask(q, "reorderItems", S, "none")
             \/ /\ \A i \in S : items[i] = "none" /\ \A o \in Call : i \notin calls[o].on
                /\ Ask(q, "addItems", S, "open")
    /\ UNCHANGED <<hubVars, rowVars, tabVars>>

CheckList(q) ==
    /\ Reached(q, "check")
    /\ IF list # "there" THEN End(q)
       ELSE Enter(q, IF calls[q].op \in {"patchItems", "removeItems"} THEN "validate" ELSE "commit")
    /\ UNCHANGED <<hubVars, rowVars, tabVars>>

\* Bulk changes look for all their rows before the transaction.
Validate(q) ==
    /\ Reached(q, "validate")
    /\ IF \A i \in calls[q].on : Present(i) THEN Enter(q, "commit") ELSE End(q)
    /\ UNCHANGED <<hubVars, rowVars, tabVars>>

\* UPDATE and DELETE touch the rows that are still there.
StillThere(S) == {i \in S : Present(i)}

\* What a commit that changes something makes of what the tabs have read.
Outdated ==
    /\ view' = [c \in Client |-> IF view[c] = "fresh" THEN "old" ELSE view[c]]
    /\ fetch' = [c \in Client |-> IF fetch[c] = "fresh" THEN "old" ELSE fetch[c]]

Rows(T, to) ==
    /\ items' = [i \in Item |-> IF i \in T THEN to ELSE items[i]]
    /\ IF T = {} THEN UNCHANGED <<view, fetch>> ELSE Outdated

\* AddItem and BulkAddItems.  Once the list is gone the foreign key stops the
\* insert, on the one connection that checks foreign keys.
Insert(q) ==
    /\ calls[q].op = "addItems"
    /\ \/ Rows(calls[q].on, "open") /\ Enter(q, "announce")
       \/ list # "there" /\ Rows({}, "open") /\ End(q)
    /\ UNCHANGED list

\* UpdateItem and DeleteItem end with 404 when their row is gone; UpdateItem
\* reads the row back.
ChangeOne(q) ==
    LET r == calls[q] T == StillThere(r.on) IN
    /\ r.op \in {"setItem", "removeItem"}
    /\ Rows(T, r.to)
    /\ IF T = {} THEN End(q)
       ELSE Enter(q, IF r.op = "setItem" THEN "readback" ELSE "announce")
    /\ UNCHANGED list

ChangeMany(q) ==
    LET r == calls[q] IN
    /\ r.op \in {"patchItems", "removeItems"}
    /\ Rows(StillThere(r.on), r.to)
    /\ Enter(q, "announce")
    /\ UNCHANGED list

\* The rows go with the list where foreign keys are checked, else they stay.
DropList(q) ==
    /\ calls[q].op = "dropList"
    /\ End(q)
    /\ IF list # "there" THEN UNCHANGED <<rowVars, view, fetch>>
       ELSE /\ list' = "gone"
            /\ \E T \in {{}, StillThere(Item)} : Rows(T, "deleted")

\* Update and ReorderItems: no tab is told.
ChangeUntold(q) ==
    LET r == calls[q] IN
    /\ r.op \in {"updateList", "reorderItems"}
    /\ IF list = "there" /\ (r.op = "reorderItems" => StillThere(r.on) # {})
       THEN Outdated /\ untold' = steady
       ELSE UNCHANGED <<view, fetch, untold>>
    /\ End(q)
    /\ UNCHANGED rowVars

Commit(q) ==
    /\ Reached(q, "commit")
    /\ \/ Insert(q) /\ UNCHANGED untold
       \/ ChangeOne(q) /\ UNCHANGED untold
       \/ ChangeMany(q) /\ UNCHANGED untold
       \/ DropList(q) /\ UNCHANGED untold
       \/ ChangeUntold(q)
    /\ UNCHANGED <<hubVars, page, toggling, steady>>

\* UpdateItem ends with 500, unannounced, if the row is gone by now.
ReadBack(q) ==
    /\ Reached(q, "readback")
    /\ IF \A i \in calls[q].on : Present(i) THEN Enter(q, "announce") ELSE End(q)
    /\ UNCHANGED <<hubVars, rowVars, tabVars>>

\* "item" is list.item.checked, added and removed, which only the page listens
\* for; "list" is list.items.bulk_*, which ws.ts handles.  (list.item.updated
\* is both; UpdateItem sends it for changes other than a check.)
EventOf(op) == IF op \in {"patchItems", "removeItems"} THEN {"list"}
               ELSE IF op = "setItem" THEN {"item", "list"} ELSE {"item"}

\* One event for a change, but one for each row that BulkAddItems inserts.
Announce(q) ==
    LET r == calls[q]
        rest == IF r.op = "addItems" THEN r.on \ {CHOOSE i \in r.on : TRUE} ELSE {}
    IN
    /\ Reached(q, "announce")
    /\ \E m \in EventOf(r.op) : Publish(m)
    /\ IF rest = {} THEN End(q) ELSE calls' = [calls EXCEPT ![q].on = rest]
    /\ UNCHANGED <<rowVars, tabVars>>

-----------------------------------------------------------------------------
(* The tab.                                                                *)

\* As wrong code might have it: a query that runs is let run.
RefetchedOnce(c) ==
    IF page[c] = "away" \/ fetch[c] # "none" THEN fetch ELSE [fetch EXCEPT ![c] = "asked"]

\* A query that has no data yet is let run when it is invalidated.
Joins(c) == view[c] = "none" /\ fetch[c] # "none"

\* invalidateQueries: a mounted query with data runs again, from the start.
Refetched(c) ==
    IF page[c] = "away" \/ Joins(c) THEN fetch ELSE [fetch EXCEPT ![c] = "asked"]

\* A mutation of the tab's own has been answered, or its window has the focus
\* again.
Refetch(c) ==
    /\ page[c] # "away"
    /\ fetch' = Refetched(c)
    /\ UNCHANGED <<hubVars, rowVars, calls, page, view, toggling, steady, untold>>

\* The check of a row is shown before it is sent: the query that runs is given up
\* and the data in the tab is nobody's.  Whatever the answer, the query runs again.
BeginToggle(c) ==
    /\ page[c] # "away" /\ view[c] # "none"
    /\ toggling' = toggling \cup {c}
    /\ fetch' = [fetch EXCEPT ![c] = "none"]
    /\ view' = [view EXCEPT ![c] = "old"]
    /\ UNCHANGED <<hubVars, rowVars, calls, page, steady, untold>>

EndToggle(c) ==
    /\ c \in toggling
    /\ toggling' = toggling \ {c}
    /\ fetch' = Refetched(c)
    /\ view' \in {view, [view EXCEPT ![c] = "old"]}
    /\ UNCHANGED <<hubVars, rowVars, calls, page, steady, untold>>

\* Coming to the list's page in a tab, or loading the tab on it.  A query that runs
\* is not run anew, and data less than a minute old is not fetched again; data no
\* page has shown for long is dropped.
OpenPage(c) ==
    /\ page[c] = "away"
    /\ \/ /\ page' = [page EXCEPT ![c] = "listening"]
          /\ \/ /\ fetch[c] # "none" \/ view[c] # "none"
                /\ UNCHANGED <<view, fetch>>
             \/ /\ fetch[c] = "none"
                /\ fetch' = [fetch EXCEPT ![c] = "asked"]
                /\ view' \in {view, [view EXCEPT ![c] = "none"]}
       \/ /\ socket[c] = "none"
          /\ page' = [page EXCEPT ![c] = "deaf"]
          /\ fetch' = [fetch EXCEPT ![c] = "asked"]
          /\ view' = [view EXCEPT ![c] = "none"]
    /\ UNCHANGED <<hubVars, rowVars, calls, toggling, steady, untold>>

\* The query goes on without the page; what it does for a check answered later is
\* a Refetch.
LeavePage(c) ==
    /\ page[c] # "away"
    /\ page' = [page EXCEPT ![c] = "away"]
    /\ toggling' = toggling \ {c}
    /\ steady' = steady \ {c}
    /\ untold' = untold \ {c}
    /\ UNCHANGED <<hubVars, rowVars, calls, view, fetch>>

\* A tab is in touch while its connection is up and no broadcast has skipped it.
InTouch(c) == c \in clients \ missed /\ socket[c] = "open"

\* GET /lists/:id reads the rows, or answers 404; the answer arrives later.
FetchRead(c) ==
    /\ fetch[c] = "asked"
    /\ IF list = "there"
       THEN /\ fetch' = [fetch EXCEPT ![c] = "fresh"]
            /\ steady' = IF InTouch(c) /\ page[c] # "away" THEN steady \cup {c} ELSE steady
            /\ untold' = untold \ {c}
       ELSE /\ fetch' = [fetch EXCEPT ![c] = "none"]
            /\ UNCHANGED <<steady, untold>>
    /\ UNCHANGED <<hubVars, rowVars, calls, page, view, toggling>>

FetchDone(c) ==
    /\ fetch[c] \in {"old", "fresh"}
    /\ view' = [view EXCEPT ![c] = fetch[c]]
    /\ fetch' = [fetch EXCEPT ![c] = "none"]
    /\ UNCHANGED <<hubVars, rowVars, calls, page, toggling, steady, untold>>

\* The request fails, and once more: the tab is steady when it has read again.
FetchFail(c) ==
    /\ fetch[c] # "none"
    /\ fetch' = [fetch EXCEPT ![c] = "none"]
    /\ steady' = steady \ {c}
    /\ untold' = untold \ {c}
    /\ UNCHANGED <<hubVars, rowVars, calls, page, view, toggling>>

\* Whether a tab on the page reacts to a message at all.
Hears(c, m) == m = "list" \/ page[c] = "listening"

\* An event that finds the query running for the first time, after it has read,
\* is lost on the tab.
ReadFrame(c) ==
    /\ TakeFrame(c)
    /\ LET frame == Head(wire[c])
           heard == Readable(frame) /\ Hears(c, Head(frame))
       IN
       /\ untold' = IF Readable(frame) /\ ~(heard /\ Joins(c) /\ fetch[c] = "old")
                    THEN untold ELSE untold \cup ({c} \cap steady)
       /\ fetch' = IF heard THEN Refetched(c) ELSE fetch
    /\ UNCHANGED <<rowVars, calls, page, view, toggling, steady>>

-----------------------------------------------------------------------------
(* The hub, the connections and the process.                               *)

HubActs ==
    /\ \/ Distribute
       \/ \E c \in Client : \/ Connect(c) \/ Register(c) \/ UnregisterEvicted(c)
                            \/ UnregisterReader(c) \/ WriteFrame(c) \/ Break(c)
    /\ steady' = {c \in steady : InTouch(c)'}
    /\ untold' = untold \cap steady'
    /\ UNCHANGED <<rowVars, calls, page, view, fetch, toggling>>

SyncRestart ==
    /\ HubRestart
    /\ calls' = [q \in Call |-> NoCall]
    /\ fetch' = [c \in Client |-> "none"]
    /\ steady' = {} /\ untold' = {}
    /\ UNCHANGED <<rowVars, page, view, toggling>>

CallStep(q) ==
    CheckList(q) \/ Validate(q) \/ Commit(q) \/ ReadBack(q) \/ Announce(q)

QueryStep(c) == FetchRead(c) \/ FetchDone(c) \/ FetchFail(c)

TabStep(c) ==
    \/ OpenPage(c) \/ LeavePage(c) \/ Refetch(c)
    \/ BeginToggle(c) \/ EndToggle(c) \/ ReadFrame(c)

SyncNext ==
    \/ \E q \in Call : BeginCall(q) \/ CallStep(q)
    \/ \E c \in Client : QueryStep(c) \/ TabStep(c)
    \/ HubActs \/ SyncRestart

SyncSpec == SyncInit /\ [][SyncNext]_syncVars

-----------------------------------------------------------------------------
\* Nothing is under way that would still change what the tab shows.
Settled(c) ==
    /\ list = "there" /\ page[c] # "away" /\ c \notin toggling
    /\ fetch[c] = "none" /\ wire[c] = <<>> /\ send[c] = <<>> /\ broadcast = <<>>
    /\ \A q \in Call : calls[q].pc \notin {"readback", "announce"}

\* A listening tab that has been in touch since it read the list, and was told of
\* every change since, shows the list as it is: a commit, its event, the queries
\* and a check shown ahead of its answer cannot pass each other so that a change is
\* missed.  Not told is a tab, until it reads the list again, after a frame it could
\* not read, a change by Update or ReorderItems, and an event that joined its first
\* fetch.
SteadySeesAll ==
    \A c \in steady \ untold :
        page[c] = "listening" /\ Settled(c) => view[c] = "fresh"

\* "All list mutations broadcast via WebSocket so the other user's view updates
\* instantly" (PLAN.md:1097): the same of every tab in touch.
BroadcastsAreSeen == \A c \in steady : Settled(c) => view[c] = "fresh"
=============================================================================
