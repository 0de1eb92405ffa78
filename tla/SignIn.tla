------------------------------- MODULE SignIn -------------------------------
(* A guest fills a cart and signs in: the page that exchanges the sign-in  *)
(* provider's token for a session, the backend's merge of the guest's cart *)
(* into the customer's, and what the cookies then make the cart that is    *)
(* shown.  Two tabs of one browser share the cookies; each may exchange,   *)
(* more than once, while items are added.                                  *)
(*                                                                         *)
(* A history variable, which no guard reads: `excused', the customer did   *)
(* what the merge does not provide for (see Lost and Apply).               *)
(***************************************************************************)
EXTENDS Integers, Sequences, FiniteSetsExt, FiniteSets

CONSTANTS
  MaxCarts,      \* bound: carts created
  MaxItems,      \* bound: rows of cart_items created
  MaxActs,       \* bound: what the customer does
  MaxFaults      \* bound: answers lost, merges that fail, sessions lost

Tabs == {1, 2}
Variants == {1, 2}
Ids == 1..MaxCarts

VARIABLES
  owner,         \* the carts: not created, a guest's, the customer's, deleted
  items,         \* the rows of cart_items; the cart of a deleted one is 0
  cookie,        \* the cookie _cart_id, 0: there is none
  sid,           \* does the cookie session_id name a session of the backend?
  app,           \* does the session of the storefront's server name a user?
  tabs,          \* the tabs and the exchange each began last
  adding,        \* the request that adds an item
  added,         \* units the customer was told are added
  excused, acts, faults

carts == <<owner, items>>
cookies == <<cookie, sid, app>>
vars == <<carts, cookies, tabs, adding, added, excused, acts, faults>>

(* pc: what the exchange does next; waits: does the tab wait for it?       *)
(* cart: the cookie it was sent with; mine, his: the carts it has read and *)
(* their rows, a row with its id.                                          *)
Row == [id : 1..MaxItems, variant : Variants, quantity : 1..MaxCarts]
Read == [cart : 0..MaxCarts, rows : SUBSET Row]
Nothing == [cart |-> 0, rows |-> {}]
Idle == [pc |-> "idle", waits |-> FALSE, cart |-> 0, mine |-> Nothing, his |-> Nothing]
NoAdd == [pc |-> "idle", cart |-> 0, user |-> FALSE]

Reading(n) ==
  [cart |-> n,
   rows |-> {[id |-> i, variant |-> items[i].variant, quantity |-> items[i].quantity]
             : i \in {j \in DOMAIN items : n # 0 /\ items[j].cart = n}}]

(* The customer has a cart already, from another device, or has none. *)
Init ==
  /\ \E has \in BOOLEAN :
       /\ owner = [n \in Ids |-> IF has /\ n = 1 THEN "user" ELSE "none"]
       /\ items = IF has THEN <<[cart |-> 1, variant |-> 1, quantity |-> 1]>> ELSE <<>>
       /\ added = IF has THEN 1 ELSE 0
  /\ cookie = 0 /\ sid = FALSE /\ app = FALSE
  /\ tabs = [t \in Tabs |-> [at |-> "shop", exchanged |-> FALSE, call |-> Idle]]
  /\ adding = NoAdd /\ excused = FALSE /\ acts = 0 /\ faults = 0

-----------------------------------------------------------------------------
Act == acts < MaxActs /\ acts' = acts + 1
Fault == faults < MaxFaults /\ faults' = faults + 1
Uncreated == {n \in Ids : owner[n] = "none"}
OfUser == {n \in Ids : owner[n] = "user"}
Call(t) == tabs[t].call
Merging(t) == Call(t).pc \in {"user", "guest", "merge"}

(* The newest cart of the customer, or else the one the cookie names. *)
get_active_cart(number, user) ==
  IF user /\ OfUser # {} THEN Max(OfUser)
  ELSE IF number # 0 /\ owner[number] \in {"guest", "user"} THEN number ELSE 0

create_empty_cart(user) ==
  /\ Uncreated # {}
  /\ owner' = [owner EXCEPT ![Min(Uncreated)] = IF user THEN "user" ELSE "guest"]

(* The query ["cart"], of a page that shows the cart. *)
ShowCart ==
  LET n == get_active_cart(cookie, sid) IN
  /\ Act /\ n # cookie
  /\ \/ n # 0 /\ cookie' = n /\ UNCHANGED owner
     \/ n = 0 /\ create_empty_cart(sid) /\ cookie' = Min(Uncreated)
  /\ UNCHANGED <<items, sid, app, tabs, adding, added, excused, faults>>

AddToCart ==
  /\ Act /\ adding = NoAdd
  /\ adding' = [pc |-> "sent", cart |-> cookie, user |-> sid]
  /\ UNCHANGED <<carts, cookies, tabs, added, excused, faults>>

(* add_item_to_cart finds the cart, or creates it. *)
FindCart ==
  LET n == get_active_cart(adding.cart, adding.user) IN
  /\ adding.pc = "sent"
  /\ \/ n # 0 /\ UNCHANGED owner /\ adding' = [adding EXCEPT !.pc = "found", !.cart = n]
     \/ /\ n = 0 /\ create_empty_cart(adding.user)
        /\ adding' = [adding EXCEPT !.pc = "found", !.cart = Min(Uncreated)]
  /\ UNCHANGED <<items, cookies, tabs, added, excused, acts, faults>>

(* What a guest sent is written after the sign-in has read the guest's     *)
(* cart, or into a cart its cookie does not name: the merge misses it.     *)
Misses(call) ==
  \/ call.pc \in {"merge", "answer", "login"}
  \/ call.pc \in {"user", "guest"} /\ call.cart # adding.cart
Lost == ~adding.user /\ (sid \/ \E t \in Tabs : Misses(Call(t)))

(* The row, unless the cart is gone (its foreign key), and the answer. *)
add_item(v) ==
  /\ adding.pc = "found"
  /\ \/ owner[adding.cart] = "deleted" /\ UNCHANGED <<items, cookie, added, excused>>
     \/ /\ owner[adding.cart] # "deleted" /\ Len(items) < MaxItems
        /\ items' = Append(items, [cart |-> adding.cart, variant |-> v, quantity |-> 1])
        /\ cookie' = adding.cart /\ added' = added + 1 /\ excused' = (excused \/ Lost)
  /\ adding' = NoAdd
  /\ UNCHANGED <<owner, sid, app, tabs, acts, faults>>

-----------------------------------------------------------------------------
(* Signed in with the provider, the tab is sent to the callback page. *)
SignIn(t) ==
  /\ Act /\ tabs[t].at = "shop" /\ ~Call(t).waits
  /\ tabs' = [tabs EXCEPT ![t].at = "callback"]
  /\ UNCHANGED <<carts, cookies, adding, added, excused, faults>>

(* The page's effect: back to the shop, or the request. *)
Exchange(t) ==
  /\ tabs[t].at = "callback" /\ Call(t) = Idle
  /\ IF app /\ tabs[t].exchanged
       THEN tabs' = [tabs EXCEPT ![t].at = "shop"]
       ELSE tabs' = [tabs EXCEPT
              ![t].call = [Idle EXCEPT !.pc = "user", !.waits = TRUE, !.cart = cookie]]
  /\ UNCHANGED <<carts, cookies, adding, added, excused, acts, faults>>

(* merge_guest_into_user_cart reads the customer's cart ... *)
ReadUserCart(t) ==
  /\ Call(t).pc = "user"
  /\ \/ Call(t).cart = 0 /\ tabs' = [tabs EXCEPT ![t].call.pc = "answer"]
     \/ /\ Call(t).cart # 0
        /\ \E n \in IF OfUser = {} THEN {0} ELSE OfUser :
             tabs' = [tabs EXCEPT ![t].call.pc = "guest", ![t].call.mine = Reading(n)]
  /\ UNCHANGED <<carts, cookies, adding, added, excused, acts, faults>>

(* ... then the guest's, which must have no user ... *)
ReadGuestCart(t) ==
  /\ Call(t).pc = "guest"
  /\ IF owner[Call(t).cart] = "guest"
       THEN tabs' = [tabs EXCEPT ![t].call.pc = "merge", ![t].call.his = Reading(Call(t).cart)]
       ELSE tabs' = [tabs EXCEPT ![t].call.pc = "answer"]
  /\ UNCHANGED <<carts, cookies, adding, added, excused, acts, faults>>

(* ... and writes.  A row of the guest's is added to the customer's row of *)
(* its variant (the last one read), from the quantities that were read, or *)
(* it moves, unless it is gone (prisma's update then returns None);        *)
(* deleting the cart deletes what is left in it.                           *)
Target(mine, v) == Max({r.id : r \in {s \in mine.rows : s.variant = v}})
Has(mine, v) == \E r \in mine.rows : r.variant = v

(* Mutant: what is sent is added to what the row has when it is written. *)
QuantityOnTop(mine, sent, i) ==
  items[i].quantity + (CHOOSE g \in sent : \A h \in sent : h.id <= g.id).quantity

Quantity(mine, sent, i) ==
  (CHOOSE r \in mine.rows : r.id = i).quantity
  + (CHOOSE g \in sent : \A h \in sent : h.id <= g.id).quantity

Merged(mine, his, i) ==
  LET sent == {g \in his.rows : Has(mine, g.variant) /\ Target(mine, g.variant) = i}
      moves == /\ items[i].cart # 0 /\ \E g \in his.rows : g.id = i
               /\ ~Has(mine, items[i].variant)
  IN CASE sent # {} -> [items[i] EXCEPT !.quantity = Quantity(mine, sent, i)]
       [] sent = {} /\ moves -> [items[i] EXCEPT !.cart = mine.cart]
       [] sent = {} /\ ~moves /\ items[i].cart = his.cart -> [items[i] EXCEPT !.cart = 0]
       [] OTHER -> items[i]

(* Two rows of one variant in the guest's cart are each added to the       *)
(* quantity that was read: the first is lost.                              *)
Twice(mine, his) ==
  \E g, h \in his.rows : g # h /\ g.variant = h.variant /\ Has(mine, g.variant)

Merge(t) ==
  LET mine == Call(t).mine
      his  == Call(t).his
  IN
  /\ Call(t).pc = "merge"
  /\ \/ /\ mine.cart # 0
        /\ items' = [i \in DOMAIN items |-> Merged(mine, his, i)]
        /\ owner' = [owner EXCEPT ![his.cart] = "deleted"]
        /\ excused' = (excused \/ Twice(mine, his))
     \/ /\ mine.cart = 0
        /\ owner' = [owner EXCEPT ![his.cart] = "user"] /\ UNCHANGED <<items, excused>>
  /\ tabs' = [tabs EXCEPT ![t].call.pc = "answer"]
  /\ UNCHANGED <<cookies, adding, added, acts, faults>>

(* The transaction is rolled back; the error is logged and no one is told. *)
MergeFails(t) ==
  /\ Merging(t) /\ Fault
  /\ excused' = TRUE /\ tabs' = [tabs EXCEPT ![t].call.pc = "answer"]
  /\ UNCHANGED <<carts, cookies, adding, added, acts>>

(* The answer sets session_id; loginFn is next.  Nobody waits for an       *)
(* answer that is lost.                                                    *)
Answer(t) ==
  /\ Call(t).pc = "answer"
  /\ IF Call(t).waits
       THEN sid' = TRUE /\ tabs' = [tabs EXCEPT ![t].call = [Idle EXCEPT !.pc = "login", !.waits = TRUE]]
       ELSE UNCHANGED sid /\ tabs' = [tabs EXCEPT ![t].call = Idle]
  /\ UNCHANGED <<carts, cookie, app, adding, added, excused, acts, faults>>

Login(t) ==
  /\ Call(t).pc = "login" /\ Call(t).waits
  /\ app' = TRUE
  /\ tabs' = [tabs EXCEPT ![t] = [at |-> "shop", exchanged |-> TRUE, call |-> Idle]]
  /\ UNCHANGED <<carts, cookie, sid, adding, added, excused, acts, faults>>

(* The request fails for the tab, which goes to the shop; the backend may  *)
(* go on.  When it is loginFn, the page stays and is loaded again.         *)
Fail(t) ==
  /\ Call(t).waits /\ Fault
  /\ tabs' = [tabs EXCEPT ![t] =
       IF Call(t).pc = "login" THEN [@ EXCEPT !.call = Idle]
       ELSE [@ EXCEPT !.at = "shop", !.call.waits = FALSE]]
  /\ UNCHANGED <<carts, cookies, adding, added, excused, acts>>

(* /auth/logout, and then logoutFn. *)
SignOut(t) ==
  /\ Act /\ tabs[t].at = "shop" /\ Call(t) = Idle /\ app
  /\ sid' = FALSE /\ tabs' = [tabs EXCEPT ![t].call.pc = "logout"]
  /\ UNCHANGED <<carts, cookie, app, adding, added, excused, faults>>

LogoutFn(t) ==
  /\ Call(t).pc = "logout"
  /\ app' = FALSE /\ tabs' = [tabs EXCEPT ![t].exchanged = FALSE, ![t].call = Idle]
  /\ UNCHANGED <<carts, cookie, sid, adding, added, excused, acts, faults>>

(* The administrator clears the cache, and the sessions with it. *)
SessionIsLost ==
  /\ Fault /\ sid /\ sid' = FALSE
  /\ UNCHANGED <<carts, cookie, app, tabs, adding, added, excused, acts>>

Next ==
  \/ ShowCart \/ AddToCart \/ FindCart \/ SessionIsLost
  \/ \E v \in Variants : add_item(v)
  \/ \E t \in Tabs :
       \/ SignIn(t) \/ Exchange(t) \/ Answer(t) \/ Login(t) \/ Fail(t)
       \/ ReadUserCart(t) \/ ReadGuestCart(t) \/ Merge(t) \/ MergeFails(t)
       \/ SignOut(t) \/ LogoutFn(t)

Spec == Init /\ [][Next]_vars

-----------------------------------------------------------------------------
(* Every value has its type; a merge adds a unit to a row and takes a cart  *)
(* away, so that a row has no more units than there were carts.            *)
TypeOK ==
  /\ owner \in [Ids -> {"none", "guest", "user", "deleted"}]
  /\ items \in Seq([cart : 0..MaxCarts, variant : Variants, quantity : 1..MaxCarts])
  /\ Len(items) <= MaxItems
  /\ cookie \in 0..MaxCarts /\ sid \in BOOLEAN /\ app \in BOOLEAN
  /\ \A t \in Tabs :
       /\ tabs[t].at \in {"shop", "callback"} /\ tabs[t].exchanged \in BOOLEAN
       /\ Call(t).pc \in {"idle", "user", "guest", "merge", "answer", "login", "logout"}
       /\ Call(t).waits \in BOOLEAN /\ Call(t).cart \in 0..MaxCarts
       /\ \A r \in {Call(t).mine, Call(t).his} : r.cart \in 0..MaxCarts /\ r.rows \subseteq Row
  /\ adding \in [pc : {"idle", "sent", "found"}, cart : 0..MaxCarts, user : BOOLEAN]
  /\ added \in 0..MaxItems /\ excused \in BOOLEAN
  /\ acts \in 0..MaxActs /\ faults \in 0..MaxFaults

(* The units of a cart, each by its row and its place in it. *)
Units(n) ==
  Cardinality({x \in (DOMAIN items) \X (1..MaxCarts) :
                 n # 0 /\ items[x[1]].cart = n /\ x[2] <= items[x[1]].quantity})

(* services/cart.py:143: whoever is signed in is shown every unit they     *)
(* added, as a guest before or as a customer, and each once, however often *)
(* and in how many tabs the sign-in was exchanged.                         *)
GoodsAreKept == sid /\ ~excused => Units(get_active_cart(cookie, sid)) = added
=============================================================================
