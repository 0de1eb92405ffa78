------------------------------ MODULE Console -------------------------------
(***************************************************************************)
(* The forms of the administration and of the customer's account: a page   *)
(* shows a list, a form (or a question to confirm) opens over a row of it  *)
(* or over the whole page, and what it sends changes the list, which is    *)
(* kept in the browser, at the edge of the network and by the backend.     *)
(* There is a record for each form; it says what the form's component does *)
(* where components differ, and one state machine runs any of them, while  *)
(* other administrators change the same list.                              *)
(*                                                                         *)
(* `unheard' and `refilled' are history variables: a change this page was  *)
(* not told of, and an edge that was given an outdated copy.               *)
(***************************************************************************)
EXTENDS Integers, Sequences, FiniteSets, SequencesExt

CONSTANTS
  Rows,          \* bound: rows there may ever be, 1..n
  FirstRows,     \* the rows there are at first
  MaxEvents,     \* bound: requests that change the list and failures (of
                 \* requests, connections, purges); and one more with the
                 \* openings of the form
  None

-----------------------------------------------------------------------------
(* The lists: is a change announced (told), only after the answer (later), *)
(* is there a copy at the edge (cdn) or in the browser's own cache         *)
(* (browser), and is the list asked for when a page connects again.        *)

Plain == [told |-> TRUE, later |-> FALSE, cdn |-> FALSE, browser |-> FALSE,
          again |-> FALSE]
Public == [Plain EXCEPT !.later = TRUE, !.cdn = TRUE]
Unseen == [Plain EXCEPT !.told = FALSE]

Coupons == Plain
Users == Plain
Faqs == Plain
Catalogs == Plain
Addresses == Plain
Orders == [Plain EXCEPT !.again = TRUE]
Categories == Public
Collections == Public
Reviews == Public
BankDetails == Public
Delivery == Public
Settings == [Plain EXCEPT !.cdn = TRUE, !.browser = TRUE]
Session == Unseen
Mails == Unseen

(* The forms.  keyed: does React tell the rows apart by their id or by     *)
(* their place?  captures: is the id remembered when the form is opened?   *)
(* follows: is the form filled again when its row changes?  outside: does  *)
(* what is pending outlive its sheet?  keeps: and what was typed?  page: is *)
(* it always open?  guard: is the button off while a request is pending?   *)
(* needs: and before anything is typed?  ends: what an answer does ("then" *)
(* also closes a sheet opened since, "keep" too but what was typed stays,  *)
(* "mounted" only the sheet that sent the request, "stay" none).  asks: is *)
(* the list asked for on success, by the page itself?                      *)
Edit(list) ==
  [list |-> list, op |-> "update", keyed |-> "id", captures |-> FALSE,
   follows |-> FALSE, outside |-> FALSE, keeps |-> FALSE, page |-> FALSE,
   guard |-> TRUE, needs |-> FALSE, ends |-> "then", asks |-> FALSE]
Create(list) == [Edit(list) EXCEPT !.op = "create"]

(* A ConfirmDrawer: on a small screen its button is never off. *)
Confirm(list, op) ==
  [Edit(list) EXCEPT !.op = op, !.outside = TRUE, !.guard = FALSE]

CreateCoupon == [Create(Coupons) EXCEPT !.outside = TRUE, !.keeps = TRUE]
EditCoupon == [Edit(Coupons) EXCEPT !.outside = TRUE, !.follows = TRUE]
DeleteCoupon == [Confirm(Coupons, "delete") EXCEPT !.ends = "stay"]

ChangeOrder == Confirm(Orders, "update")
ChangePayment == [Edit(Orders) EXCEPT !.needs = TRUE]
ReturnItem == [Confirm(Orders, "delete") EXCEPT !.keyed = "index"]

EditCustomer == [Edit(Users) EXCEPT !.ends = "stay"]
CreateGuest == [Create(Users) EXCEPT !.outside = TRUE, !.keeps = TRUE]
DeleteCustomer == Confirm(Users, "delete")

CreateFaq == Create(Faqs)
EditFaq == [Edit(Faqs) EXCEPT !.keyed = "index", !.ends = "stay"]
DeleteFaq ==
  [Confirm(Faqs, "delete") EXCEPT !.keyed = "index", !.captures = TRUE]

CreateCatalog == [Create(Catalogs) EXCEPT !.needs = TRUE]
EditCatalog == [Edit(Catalogs) EXCEPT !.keyed = "index", !.ends = "stay"]
DeleteCatalog == [Confirm(Catalogs, "delete") EXCEPT !.keyed = "index"]
AddToCatalog == [Edit(Catalogs) EXCEPT !.ends = "stay"]

CreateCategory == [Create(Categories) EXCEPT !.ends = "mounted"]
EditCategory ==
  [Edit(Categories) EXCEPT !.keyed = "index", !.follows = TRUE,
                           !.ends = "mounted"]
ChangeImage == [Edit(Categories) EXCEPT !.keyed = "index", !.guard = FALSE]
ReorderCategories ==
  [Edit(Categories) EXCEPT !.page = TRUE, !.follows = TRUE, !.needs = TRUE]
DeleteCategory == [Confirm(Categories, "delete") EXCEPT !.keyed = "index"]

CreateCollection == [Create(Collections) EXCEPT !.ends = "mounted"]
EditCollection ==
  [Edit(Collections) EXCEPT !.keyed = "index", !.follows = TRUE,
                            !.ends = "mounted"]
DeleteCollection == [Confirm(Collections, "delete") EXCEPT !.keyed = "index"]

WriteReview == [Create(Reviews) EXCEPT !.needs = TRUE, !.asks = TRUE]
EditReview == [Edit(Reviews) EXCEPT !.ends = "mounted", !.asks = TRUE]
DeleteReview == [Confirm(Reviews, "delete") EXCEPT !.asks = TRUE]

CreateDelivery == Create(Delivery)
EditDelivery == [Edit(Delivery) EXCEPT !.keyed = "index"]
DeleteDelivery == [Confirm(Delivery, "delete") EXCEPT !.keyed = "index"]
CreateBank == Create(BankDetails)
DeleteBank == [Confirm(BankDetails, "delete") EXCEPT !.keyed = "index"]

ShopDetails ==
  [Edit(Settings) EXCEPT !.page = TRUE, !.follows = TRUE, !.ends = "stay"]
SocialMedia == ShopDetails
(* The flag that should hold a switch back is set and reset at once. *)
Toggle == [Edit(Settings) EXCEPT !.page = TRUE, !.guard = FALSE, !.ends = "stay"]
TogglePayment == Toggle

CreateAddress == Create(Addresses)
EditAddress ==
  [Edit(Addresses) EXCEPT !.keyed = "index", !.follows = TRUE, !.needs = TRUE]
DeleteAddress == [Confirm(Addresses, "delete") EXCEPT !.keyed = "index"]
EditProfile == [Edit(Session) EXCEPT !.outside = TRUE]

Contact == [Create(Mails) EXCEPT !.page = TRUE, !.needs = TRUE]
(* Its button is given `disabled', which hides isLoading. *)
Newsletter == [Contact EXCEPT !.guard = FALSE]
SendReminder == Confirm(Mails, "create")
SendReminders == [Contact EXCEPT !.needs = FALSE, !.ends = "stay"]
Campaign ==
  [Confirm(Mails, "create") EXCEPT !.needs = TRUE, !.keeps = TRUE, !.ends = "keep"]

Forms ==
  {CreateCoupon, EditCoupon, DeleteCoupon, ChangeOrder, ChangePayment,
   ReturnItem, EditCustomer, CreateGuest, DeleteCustomer, CreateFaq, EditFaq,
   DeleteFaq, CreateCatalog, EditCatalog, DeleteCatalog, AddToCatalog,
   CreateCategory, EditCategory, ChangeImage, ReorderCategories,
   DeleteCategory, CreateCollection, EditCollection, DeleteCollection,
   WriteReview, EditReview, DeleteReview, CreateDelivery, EditDelivery,
   DeleteDelivery, CreateBank, DeleteBank, ShopDetails, SocialMedia, Toggle, TogglePayment,
   CreateAddress, EditAddress, DeleteAddress, EditProfile, Contact,
   Newsletter, SendReminder, SendReminders, Campaign}

-----------------------------------------------------------------------------
VARIABLES
  form,                \* which of the forms the page has; never changes
  rows,                \* the list in the database, in the order it is shown
  cached, edge,        \* the backend's copy and the edge's, or None
  shown, fetch,        \* the page's copy; its request for the list
  online, inbox,       \* connected?  announcements on their way
  sheet, typed,        \* the sheet that is open, or None; is anything typed?
  tasks,               \* requests being made and answered
  openings, events, unheard, refilled

vars == <<form, rows, cached, edge, shown, fetch, online, inbox, sheet, typed,
          tasks, openings, events, unheard, refilled>>
page == <<sheet, typed, openings>>
copies == <<cached, edge, shown, fetch, refilled>>
net == <<online, inbox, unheard>>

Row == [id : Rows, rev : 0..MaxEvents]
IsList(l) ==
  l \in Seq(Row) /\ \A i, j \in 1..Len(l) : l[i].id = l[j].id => i = j
Sheet == [at : 0..Cardinality(Rows), row : Rows \union {None}, no : 1..MaxEvents + 1]
Tasks ==
  [no : 1..MaxEvents, mine : BOOLEAN, op : {"create", "update", "delete"},
   row : Rows \union {None}, for : Rows \union {None}, opening : 0..MaxEvents + 1,
   pc : {"sent", "committed", "purged", "done"}, answered : BOOLEAN]

Ids(l) == {l[i].id : i \in 1..Len(l)}
At(l, id) == l[CHOOSE i \in 1..Len(l) : l[i].id = id]
Idle == [pc |-> "none", data |-> None]
Asked == [pc |-> "asked", data |-> None]

Init ==
  /\ form \in Forms
  /\ rows = [i \in 1..FirstRows |-> [id |-> i, rev |-> 0]]
  /\ cached = rows /\ edge = (IF form.list.cdn THEN rows ELSE None)
  /\ shown = rows /\ fetch = Idle
  /\ online = TRUE /\ inbox = 0
  /\ sheet = (IF form.page THEN [at |-> 0, row |-> None, no |-> 1] ELSE None)
  /\ typed = FALSE
  /\ tasks = {}
  /\ openings = (IF form.page THEN 1 ELSE 0) /\ events = 0
  /\ unheard = FALSE /\ refilled = FALSE

-----------------------------------------------------------------------------
(* The page.                                                               *)

(* One more thing happens. *)
Bounded == openings + events <= MaxEvents
Happens == Bounded /\ events < MaxEvents

(* A sheet opens over the row at a place, or over the page. *)
Open(i) ==
  /\ sheet = None /\ Bounded
  /\ IF form.op = "create" THEN i = 0 ELSE i \in 1..Len(shown)
  /\ openings' = openings + 1
  /\ sheet' = [at |-> i, row |-> IF i = 0 THEN None ELSE shown[i].id,
               no |-> openings']
  /\ typed' = (typed /\ form.keeps)
  /\ UNCHANGED <<form, rows, copies, net, tasks, events>>

Type ==
  /\ sheet # None /\ ~typed
  /\ form.op # "delete"
  /\ typed' = TRUE
  /\ UNCHANGED <<form, rows, copies, net, sheet, tasks, openings, events>>

Close ==
  /\ sheet # None /\ ~form.page
  /\ sheet' = None
  /\ typed' = (typed /\ form.keeps)
  /\ UNCHANGED <<form, rows, copies, net, tasks, openings, events>>

(* Mutant: the row that is now at the place of the sheet. *)
TargetByPlace(s) ==
  IF s.at = 0 THEN None ELSE shown[s.at].id

(* The row a form saves to: the id in its component's properties, which    *)
(* are those of the row with the component's key. *)
Target(s) ==
  IF s.at = 0 \/ form.keyed = "id" \/ form.captures THEN s.row ELSE shown[s.at].id

(* A pending request is known to the component that made it. *)
Pending ==
  \E k \in tasks : k.mine /\ ~k.answered /\ (form.outside \/ k.opening = sheet.no)

Send(mine, op, row, for, opening) ==
  /\ Happens
  /\ events' = events + 1
  /\ tasks' = tasks \union
       {[no |-> events + 1, mine |-> mine, op |-> op, row |-> row, for |-> for,
         opening |-> opening, pc |-> "sent", answered |-> ~mine]}

Press ==
  /\ sheet # None
  /\ form.needs => typed
  /\ form.guard => ~Pending
  /\ Send(TRUE, form.op, Target(sheet), sheet.row, sheet.no)
  /\ UNCHANGED <<form, rows, copies, net, page>>

(* Other administrators. *)
Elsewhere ==
  /\ \/ Send(FALSE, "create", None, None, 0)
     \/ \E id \in Ids(rows), op \in {"update", "delete"} : Send(FALSE, op, id, id, 0)
  /\ UNCHANGED <<form, rows, copies, net, page>>

-----------------------------------------------------------------------------
(* The backend.                                                            *)

(* A request is forgotten when it is done and answered. *)
Becomes(k, new) ==
  tasks' = (tasks \ {k}) \union
             (IF new.pc = "done" /\ new.answered THEN {} ELSE {new})
Step(k, pc) == Becomes(k, [k EXCEPT !.pc = pc])

Exists(k) == k.op = "create" \/ k.row = None \/ k.row \in Ids(rows)

(* What is in the database after k; a new row comes first. *)
Changed(k) ==
  CASE k.op = "create" ->
         LET new == Rows \ (Ids(rows) \union {j.row : j \in tasks} \union Ids(shown))
         IN IF new = {} THEN {}
            ELSE {<<[id |-> CHOOSE i \in new : \A j \in new : i <= j, rev |-> k.no]>>
                    \o rows}
    [] k.op = "update" ->
         {[i \in 1..Len(rows) |->
             IF k.row \in {None, rows[i].id} THEN [rows[i] EXCEPT !.rev = k.no]
             ELSE rows[i]]}
    [] k.op = "delete" ->
         {RemoveAt(rows, i) : i \in {j \in 1..Len(rows) : rows[j].id = k.row}}

Commit(k) ==
  /\ k.pc = "sent" /\ Exists(k)
  /\ rows' \in Changed(k)
  /\ Step(k, IF form.list.told THEN "committed" ELSE "done")
  /\ UNCHANGED <<form, copies, net, page, events>>

(* Mutant: the edge is left to its time to live. *)
PurgeNot(k) ==
  /\ k.pc = "committed" /\ form.list.cdn
  /\ UNCHANGED edge
  /\ Step(k, "purged")
  /\ UNCHANGED <<form, rows, cached, shown, fetch, refilled, net, page, events>>

(* purge_cloudfare comes before the backend's own copy is dropped. *)
Purge(k) ==
  /\ k.pc = "committed" /\ form.list.cdn
  /\ edge' = None
  /\ Step(k, "purged")
  /\ UNCHANGED <<form, rows, cached, shown, fetch, refilled, net, page, events>>

(* A failure of the purge is only logged. *)
PurgeFails(k) ==
  /\ k.pc = "committed" /\ form.list.cdn /\ Happens
  /\ events' = events + 1
  /\ refilled' = TRUE
  /\ Step(k, "purged")
  /\ UNCHANGED <<form, rows, cached, edge, shown, fetch, net, page>>

(* cache.invalidate, with its message to whoever is connected. *)
Invalidate(k) ==
  /\ k.pc = (IF form.list.cdn THEN "purged" ELSE "committed")
  /\ cached' = None
  /\ IF online THEN inbox' = inbox + 1 /\ UNCHANGED unheard
               ELSE unheard' = TRUE /\ UNCHANGED inbox
  /\ Step(k, "done")
  /\ UNCHANGED <<form, rows, edge, shown, fetch, refilled, online, page, events>>

-----------------------------------------------------------------------------
(* The answers.                                                            *)

(* Mutant: any answer closes whatever is open. *)
FinishAny(k) ==
  CASE form.ends \in {"then", "mounted"} ->
         /\ typed' = FALSE
         /\ sheet' = IF form.page THEN sheet ELSE None
    [] form.ends = "keep" -> sheet' = None /\ UNCHANGED typed
    [] form.ends = "stay" -> UNCHANGED <<sheet, typed>>

Finish(k) ==
  CASE form.ends = "then" ->
         /\ typed' = FALSE
         /\ sheet' = IF form.page THEN sheet ELSE None
    [] form.ends = "keep" -> sheet' = None /\ UNCHANGED typed
    [] form.ends = "mounted" ->
         IF sheet # None /\ sheet.no = k.opening
         THEN typed' = FALSE /\ sheet' = None
         ELSE UNCHANGED <<sheet, typed>>
    [] form.ends = "stay" -> UNCHANGED <<sheet, typed>>

(* The answer arrives: of a route that announces in the background, as     *)
(* soon as the change is committed, otherwise after the announcement.      *)
Succeeds(k) ==
  /\ k.mine /\ ~k.answered
  /\ k.pc = "done" \/ (form.list.later /\ k.pc # "sent")
  /\ Finish(k)
  /\ fetch' = IF form.asks THEN Asked ELSE fetch
  /\ Becomes(k, [k EXCEPT !.answered = TRUE])
  /\ UNCHANGED <<form, rows, cached, edge, shown, refilled, net, openings, events>>

(* The row is gone, or the request never gets there: a notice, and the     *)
(* form stays as it is.                                                    *)
Fails(k) ==
  /\ k.pc = "sent"
  /\ \/ ~Exists(k) /\ UNCHANGED events
     \/ k.mine /\ Happens /\ events' = events + 1
  /\ tasks' = tasks \ {k}
  /\ UNCHANGED <<form, rows, copies, net, page>>

-----------------------------------------------------------------------------
(* The list.                                                               *)

(* What a reader gets, from the edge if it has a copy, else from the       *)
(* backend; the edge keeps the answer, which is an outdated one between a  *)
(* purge and the end of the backend's copy.                                *)
Read(data) ==
  IF form.list.cdn /\ edge # None
  THEN data = edge /\ UNCHANGED <<cached, edge, refilled>>
  ELSE /\ cached' = (IF cached = None THEN rows ELSE cached)
       /\ data = cached'
       /\ edge' = (IF form.list.cdn THEN cached' ELSE None)
       /\ refilled' = (refilled \/ (cached' # rows /\ \E k \in tasks : k.pc = "purged"))

(* Somebody else's browser. *)
Visit ==
  /\ form.list.cdn /\ edge = None
  /\ \E data \in {rows, cached} \ {None} : Read(data)
  /\ UNCHANGED <<form, rows, shown, fetch, net, page, tasks, events>>

ServeList ==
  /\ fetch.pc = "asked"
  /\ \E data \in {rows, cached, edge} \ {None} :
       /\ Read(data)
       /\ fetch' = [pc |-> "answered", data |-> data]
  /\ UNCHANGED <<form, rows, shown, net, page, tasks, events>>

(* For a minute the browser answers by itself. *)
BrowserServes ==
  /\ fetch.pc = "asked" /\ form.list.browser
  /\ fetch' = [pc |-> "answered", data |-> shown]
  /\ UNCHANGED <<form, rows, cached, edge, shown, refilled, net, page, tasks,
                 events>>

Gone(l) ==
  /\ sheet # None /\ sheet.at # 0
  /\ IF form.keyed = "id" THEN sheet.row \notin Ids(l) ELSE sheet.at \notin 1..Len(l)

(* Has the row of the open form changed, or the list of a page's form? *)
Differs(l) ==
  IF sheet.at = 0 THEN l # shown
  ELSE IF form.keyed = "id" THEN At(l, sheet.row) # At(shown, sheet.row)
  ELSE l[sheet.at] # shown[sheet.at]

(* React renders the list again: the sheet of a row that is gone is gone,  *)
(* a form that follows its row is filled again.                            *)
ListArrives ==
  /\ fetch.pc = "answered"
  /\ shown' = fetch.data
  /\ fetch' = Idle
  /\ IF Gone(shown') THEN sheet' = None /\ typed' = FALSE
     ELSE /\ UNCHANGED sheet
          /\ typed' = (typed /\ ~(sheet # None /\ form.follows /\ Differs(shown')))
  /\ UNCHANGED <<form, rows, cached, edge, refilled, net, tasks, openings, events>>

(* Mutant: a request under way is thought to be recent enough. *)
HearWhenIdle ==
  /\ inbox > 0
  /\ inbox' = inbox - 1
  /\ fetch' = IF fetch = Idle THEN Asked ELSE fetch
  /\ UNCHANGED <<form, rows, cached, edge, shown, refilled, online, unheard, page,
                 tasks, events>>

(* An announcement: the list is asked for, in place of a request under way. *)
Hear ==
  /\ inbox > 0
  /\ inbox' = inbox - 1
  /\ fetch' = Asked
  /\ UNCHANGED <<form, rows, cached, edge, shown, refilled, online, unheard, page,
                 tasks, events>>

Disconnect ==
  /\ online /\ Happens
  /\ events' = events + 1
  /\ online' = FALSE /\ inbox' = 0
  /\ unheard' = (unheard \/ inbox > 0)
  /\ UNCHANGED <<form, rows, copies, page, tasks>>

(* Only orders, products and the gallery are asked for again. *)
Reconnect ==
  /\ ~online /\ online' = TRUE
  /\ fetch' = (IF form.list.again THEN Asked ELSE fetch)
  /\ unheard' = (unheard /\ ~form.list.again)
  /\ UNCHANGED <<form, rows, cached, edge, shown, refilled, inbox, page, tasks,
                 events>>

-----------------------------------------------------------------------------
Backend(k) == Commit(k) \/ Purge(k) \/ Invalidate(k) \/ Succeeds(k)
Work == \E k \in tasks : Backend(k) \/ (~Exists(k) /\ Fails(k))
Deliver == ServeList \/ ListArrives \/ Hear

Next ==
  \/ \E i \in 0..Cardinality(Rows) : Open(i)
  \/ Type \/ Close \/ Press \/ Elsewhere \/ Visit
  \/ \E k \in tasks : Backend(k) \/ PurgeFails(k) \/ Fails(k)
  \/ Deliver \/ BrowserServes \/ Disconnect \/ Reconnect

(* The backend and the network go on; nobody has to press anything. *)
Spec == Init /\ [][Next]_vars /\ WF_vars(Work) /\ WF_vars(Deliver)

-----------------------------------------------------------------------------
(* Every value has its type (the form is one of Forms, and stays it). *)
TypeOK ==
  /\ IsList(rows) /\ IsList(shown)
  /\ \A l \in {cached, edge, fetch.data} : l # None => IsList(l)
  /\ fetch.pc \in {"none", "asked", "answered"}
  /\ online \in BOOLEAN /\ inbox \in 0..MaxEvents
  /\ sheet \in Sheet \union {None} /\ typed \in BOOLEAN
  /\ tasks \subseteq Tasks
  /\ openings \in 0..MaxEvents + 1 /\ events \in 0..MaxEvents
  /\ unheard \in BOOLEAN /\ refilled \in BOOLEAN

(* A form saves to the row it was opened for, however the list has moved   *)
(* under it; only the forms over rows that React tells apart by their      *)
(* place do not promise it (faqs.lazy.tsx:62, admin.catalog.lazy.tsx:55,   *)
(* delivery-overview.tsx:147, ...).                                        *)
SavesToItsRow ==
  \A k \in tasks :
    k.mine => \/ k.row = k.for
              \/ form.keyed = "index" /\ ~form.captures

(* What was typed is lost only when the sheet is closed by hand, when what *)
(* this sheet sent was saved, when its row is gone, or when the form is    *)
(* one that follows its row; or, and this is not what one would wish, when *)
(* a late answer to a sheet closed before reaches a form whose promise     *)
(* closes whatever is open then.                                           *)
KeepsTyped ==
  typed /\ ~typed' =>
     \/ sheet' = None /\ UNCHANGED <<tasks, shown>>
     \/ \E k \in tasks :
          /\ ~k.answered /\ k.pc # "sent"
          /\ \A j \in tasks' : j.no = k.no => j.answered
          /\ form.ends = "then" \/ k.opening = sheet.no
     \/ shown' # shown /\ (form.follows \/ sheet' = None)
TypedIsKept == [][KeepsTyped]_vars

(* Once every announcement is made, the edge has no outdated copy, unless  *)
(* it was filled from the backend's copy between the purge and the end of  *)
(* that copy, or a purge failed (services/delivery.py, review.py, ...).    *)
EdgeIsCurrent ==
  (\A k \in tasks : k.pc \in {"sent", "done"}) => edge \in {None, rows} \/ refilled

(* Once nothing changes the page shows the list as the database has it,    *)
(* although an answer can come before the announcement; except the         *)
(* settings, which the browser may answer itself, lists that are not       *)
(* announced, and what was missed without a connection.                    *)
IsSaved ==
  \/ ~form.list.told \/ form.list.browser
  \/ unheard \/ refilled \/ ~online \/ shown = rows
ShownIsSaved == <>[]IsSaved
=============================================================================
