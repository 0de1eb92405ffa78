------------------------------ MODULE Filters -------------------------------
(* The filters of the lists: what is chosen goes into the query of the     *)
(* page's address, after a delay that every other choice made with the     *)
(* same useUpdateQuery starts again, and the page is rendered again when   *)
(* its address has changed.  Meanwhile the user chooses, types, follows    *)
(* links and goes back.                                                    *)
(*                                                                         *)
(* `wanted' and `lost' are history variables: what the user last chose for *)
(* each key, and the keys that are known not to follow it.                 *)
(***************************************************************************)
EXTENDS Naturals, Sequences, SequencesExt

CONSTANTS
  MaxActs,       \* bound: what the user does
  None

(* Keys stand for groups of parameters: "one" for what is picked, "two"    *)
(* for a range (of dates, of prices), "text" for what is typed.            *)
Keys == {"one", "two", "text"}
Values == {0, 1}     \* 0: the parameter is not in the address
NoFilter == [k \in Keys |-> 0]
One(k, v) == [x \in {k} |-> v]
Over(change, query) ==
  [k \in Keys |-> IF k \in DOMAIN change THEN change[k] ELSE query[k]]

(* The pages with filters.  drafts: are choices kept until they are        *)
(* applied?  syncs: is the draft kept with the navigation bar, and filled  *)
(* again when the address changes?                                         *)
(* sheet: is it in a sheet, mounted anew (fresh) each time it opens?       *)
(* picks: what is written without a draft, one key at a time.  box: is     *)
(* there a search box with a delay of its own?  clears: a "Clear All"?     *)
GalleryFilters == [drafts |-> TRUE, syncs |-> TRUE, sheet |-> TRUE, fresh |-> FALSE,
                   price |-> FALSE, picks |-> {}, box |-> FALSE, clears |-> FALSE]
SidebarFilters == [GalleryFilters EXCEPT !.syncs = FALSE, !.sheet = FALSE, !.price = TRUE]
MobileFilter == [SidebarFilters EXCEPT !.sheet = TRUE, !.fresh = TRUE]
OrderFilters == [GalleryFilters EXCEPT !.drafts = FALSE, !.syncs = FALSE, !.sheet = FALSE,
                   !.picks = {"one", "two"}, !.box = TRUE, !.clears = TRUE]
AbandonedCarts == [OrderFilters EXCEPT !.picks = {"one"}, !.clears = FALSE]
UsersPage == [AbandonedCarts EXCEPT !.picks = {}]
ReviewsPage == UsersPage
Kinds == {GalleryFilters, SidebarFilters, MobileFilter, OrderFilters,
          AbandonedCarts, UsersPage, ReviewsPage}

VARIABLES
  kind,            \* which page it is; never changes
  path, url,       \* the address of the browser: the page or another, the query
  seen,            \* the address the components were last rendered with
  mount,           \* how often the path has changed: each has its own debounce
  open, draft,     \* the sheet and the draft
  box,             \* what is in the box (of the search, of a price)
  price,           \* the delayed normalisation of the price, or None
  timers,          \* delayed calls of updateQuery, in the order they were made
  edited,          \* has the draft been changed since it was last applied?
  wanted, lost, acts

vars == <<kind, path, url, seen, mount, open, draft, box, price, timers,
          edited, wanted, lost, acts>>
controls == <<open, draft, box, price, edited>>
address == <<path, url, seen, mount>>

Here == [path |-> path, url |-> url]

Init ==
  /\ kind \in Kinds
  /\ path = "list" /\ url = NoFilter /\ seen = Here /\ mount = 0
  /\ open = ~kind.sheet /\ draft = NoFilter /\ box = 0 /\ price = None
  /\ timers = <<>>
  /\ edited = FALSE
  /\ wanted = NoFilter /\ lost = {} /\ acts = 0

-----------------------------------------------------------------------------
Act == acts < MaxActs /\ acts' = acts + 1
Shown == seen.path = "list" /\ open

(* debounce: a call clears the timeout of the one before it, and so takes  *)
(* its place, with its keys.                                               *)
Waiting(calls, hook) ==
  {i \in 1..Len(calls) : calls[i].hook = hook /\ calls[i].mount = mount}
Replaced(calls, hook) == UNION {DOMAIN calls[i].data : i \in Waiting(calls, hook)}
Cleared(calls, hook) ==
  IF Waiting(calls, hook) = {} THEN calls
  ELSE RemoveAt(calls, CHOOSE i \in Waiting(calls, hook) : TRUE)
Debounced(calls, hook, data) ==
  Append(Cleared(calls, hook),
         [hook |-> hook, mount |-> mount, path |-> seen.path, data |-> data])
UpdateQuery(hook, data) ==
  /\ timers' = Debounced(timers, hook, data)
  /\ wanted' = Over(data, wanted)
  /\ lost' = (lost \union Replaced(timers, hook)) \ DOMAIN data

(* A choice in a draft. *)
Draft(k, v) ==
  /\ Shown /\ kind.drafts /\ Act
  /\ draft' = [draft EXCEPT ![k] = v] /\ draft' # draft
  /\ edited' = TRUE
  /\ UNCHANGED <<kind, address, open, box, price, timers, wanted, lost>>

Choose(k, v) == ~kind.price /\ Draft(k, v)

(* Of the sidebar; the choice of an order is kept elsewhere, and never read. *)
Tick(v) == kind.price /\ Draft("one", v)

(* A choice that is written at once. *)
Pick(k, v) ==
  /\ Shown /\ k \in kind.picks /\ Act
  /\ UpdateQuery("query", One(k, v))
  /\ UNCHANGED <<kind, address, controls>>

TypeText(v) ==
  /\ Shown /\ kind.box /\ Act
  /\ box' = v
  /\ UpdateQuery("box", One("text", v))
  /\ UNCHANGED <<kind, address, open, draft, price, edited>>

TypePrice(v) ==
  /\ Shown /\ kind.price /\ Act
  /\ box' = v /\ price' = v
  /\ edited' = TRUE
  /\ UNCHANGED <<kind, address, open, draft, timers, wanted, lost>>

(* Even after the draft was cleared or the address has changed. *)
Normalize ==
  /\ price # None
  /\ box' = price /\ draft' = [draft EXCEPT !["two"] = price]
  /\ price' = None
  /\ edited' = (edited \/ box # price)
  /\ UNCHANGED <<kind, address, open, timers, wanted, lost, acts>>

(* An applied draft names every key, of a price what is in its box. *)
Apply ==
  /\ Shown /\ kind.drafts /\ Act
  /\ kind.syncs => draft # seen.url
  /\ UpdateQuery("query", IF kind.price THEN [draft EXCEPT !["two"] = box] ELSE draft)
  /\ edited' = FALSE
  /\ open' = ~kind.sheet
  /\ UNCHANGED <<kind, address, draft, box, price>>

(* The gallery's filters are reset at once; the sidebar's draft only. *)
Reset ==
  /\ Shown /\ kind.drafts /\ Act
  /\ draft' = NoFilter
  /\ IF kind.syncs
     THEN /\ UpdateQuery("query", NoFilter)
          /\ open' = FALSE /\ edited' = FALSE
          /\ UNCHANGED box
     ELSE box' = 0 /\ edited' = TRUE /\ UNCHANGED <<open, timers, wanted, lost>>
  /\ UNCHANGED <<kind, address, price>>

ClearAll ==
  /\ Shown /\ kind.clears /\ Act
  /\ timers' = Debounced(Debounced(timers, "query", NoFilter), "box", One("text", 0))
  /\ wanted' = NoFilter /\ lost' = {}
  /\ box' = 0
  /\ UNCHANGED <<kind, address, open, draft, price, edited>>

Cancel ==
  /\ Shown /\ kind.syncs /\ kind.sheet
  /\ draft' = seen.url /\ edited' = FALSE
  /\ open' = FALSE
  /\ UNCHANGED <<kind, address, box, price, timers, wanted, lost, acts>>

CloseSheet ==
  /\ Shown /\ kind.sheet
  /\ open' = FALSE
  /\ UNCHANGED <<kind, address, draft, box, price, timers, edited, wanted, lost, acts>>

OpenSheet ==
  /\ seen.path = "list" /\ ~open /\ Act
  /\ open' = TRUE
  /\ IF kind.fresh
     THEN draft' = seen.url /\ box' = seen.url["two"] /\ edited' = FALSE /\ price' = None
     ELSE UNCHANGED <<draft, box, edited, price>>
  /\ UNCHANGED <<kind, address, timers, wanted, lost>>

-----------------------------------------------------------------------------
(* The address.                                                            *)

(* A link, a chip (a range and nothing else) or the browser's Back. *)
Follow(p, data) ==
  /\ Act /\ (p = "other" => data = NoFilter)
  /\ Here # [path |-> p, url |-> data]
  /\ path' = p /\ url' = data
  /\ wanted' = data
  /\ lost' = lost \union {k \in Keys : url[k] # seen.url[k]} \union
             UNION {DOMAIN timers[i].data : i \in 1..Len(timers)}
  /\ UNCHANGED <<kind, seen, mount, controls, timers>>

(* A call made before has a shorter or the same delay, except one of a box. *)
Due(i) == \A j \in 1..i - 1 : timers[j].hook = "box" /\ timers[i].hook = "query"

(* Mutant: the query that was rendered is extended, not the latest one. *)
FireOnSeen(i) ==
  /\ Due(i)
  /\ path' = timers[i].path
  /\ url' = Over(timers[i].data, seen.url)
  /\ timers' = RemoveAt(timers, i)
  /\ UNCHANGED <<kind, seen, mount, controls, wanted, lost, acts>>

(* The delay is over: navigate, to the path the call was made on. *)
Fire(i) ==
  /\ Due(i)
  /\ path' = timers[i].path
  /\ url' = Over(timers[i].data, url)
  /\ timers' = RemoveAt(timers, i)
  /\ UNCHANGED <<kind, seen, mount, controls, wanted, lost, acts>>

(* Mutant: the box keeps what was typed. *)
RenderOnly ==
  /\ seen # Here
  /\ seen' = Here
  /\ mount' = mount + (IF path # seen.path THEN 1 ELSE 0)
  /\ UNCHANGED <<kind, path, url, controls, timers, wanted, lost, acts>>

(* The page is rendered with its new address: a component that comes with  *)
(* the page starts from it, and effects follow what has changed.           *)
Render ==
  /\ seen # Here
  /\ seen' = Here
  /\ mount' = mount + (IF path # seen.path THEN 1 ELSE 0)
  /\ IF path # seen.path /\ ~kind.syncs
     THEN /\ draft' = url /\ box' = url[IF kind.price THEN "two" ELSE "text"]
          /\ open' = ~kind.sheet /\ price' = None /\ edited' = FALSE
     ELSE /\ draft' = (IF kind.syncs /\ url # seen.url THEN url ELSE draft)
          /\ edited' = (edited /\ draft' = draft)
          /\ LET k == IF kind.price THEN "two" ELSE "text"
             IN box' = IF url[k] # seen.url[k] THEN url[k] ELSE box
          /\ UNCHANGED <<open, price>>
  /\ UNCHANGED <<kind, path, url, timers, wanted, lost, acts>>

Next ==
  \/ \E k \in Keys, v \in Values : Choose(k, v) \/ Pick(k, v)
  \/ \E v \in Values : Tick(v) \/ TypeText(v) \/ TypePrice(v)
  \/ Normalize \/ Apply \/ Reset \/ ClearAll \/ Cancel \/ CloseSheet \/ OpenSheet
  \/ \E p \in {"list", "other"}, data \in {NoFilter, Over(One("two", 1), NoFilter)} :
       Follow(p, data)
  \/ \E i \in 1..Len(timers) : Fire(i)
  \/ Render

Spec == Init /\ [][Next]_vars

-----------------------------------------------------------------------------
(* Every value has its type. *)
TypeOK ==
  /\ kind \in Kinds
  /\ path \in {"list", "other"} /\ url \in [Keys -> Values]
  /\ seen \in [path : {"list", "other"}, url : [Keys -> Values]]
  /\ mount \in 0..MaxActs + MaxActs
  /\ open \in BOOLEAN /\ draft \in [Keys -> Values] /\ box \in Values
  /\ price \in Values \union {None}
  /\ \A i \in 1..Len(timers) : timers[i].data \in [DOMAIN timers[i].data -> Values]
  /\ edited \in BOOLEAN
  /\ wanted \in [Keys -> Values] /\ lost \subseteq Keys
  /\ acts \in 0..MaxActs

(* What was last chosen for a key is in the address or on its way there,   *)
(* whatever else was chosen, typed or rendered meanwhile; but a choice     *)
(* made within the delay of another one of the same updateQuery takes its  *)
(* place with fewer keys (order-filters.tsx: a status, then a date), and a *)
(* call still waiting when a link is followed comes after it.              *)
ChoicesAreOnTheirWay ==
  \A k \in Keys \ lost :
    LET holders == {i \in 1..Len(timers) : k \in DOMAIN timers[i].data}
    IN wanted[k] =
         IF holders = {} THEN url[k]
         ELSE timers[CHOOSE i \in holders : \A j \in holders : j <= i].data[k]

(* When nothing is waiting and the page is rendered, the search box shows  *)
(* the search of the address, and the gallery's draft its filters unless   *)
(* it was changed since; the sidebar's draft does not follow the address   *)
(* (filter-sidebar-logic.tsx:94), and what a link has overtaken neither.   *)
ControlsShowAddress ==
  timers = <<>> /\ seen = Here /\ path = "list" /\ lost = {} =>
    /\ kind.box => box = url["text"]
    /\ kind.syncs /\ kind.drafts /\ ~edited => draft = url
=============================================================================
