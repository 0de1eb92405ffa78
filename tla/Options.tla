------------------------------ MODULE Options -------------------------------
(* The product's page: its options (size, colour, ...), the variant they   *)
(* select, and what its button and the cards of related products add to    *)
(* the cart.  useProductVariant keeps a state of its own for each          *)
(* component that calls it: the options and the quantity are chosen in one *)
(* (ProductVariantSelection), the button is in another                     *)
(* (ProductVariantActions).  A request of the cart is answered at once     *)
(* here; CartSync.tla is about what happens meanwhile.                     *)
(***************************************************************************)
EXTENDS Integers, Sequences, SequencesExt

CONSTANTS
  Products,      \* the products: sequences of variants, an id and its options
  Stocks,        \* the stocks there may be at first
  MaxStock,      \* bound: of a variant's stock
  MaxQuantity,   \* bound: of the quantity chosen
  MaxActs,       \* bound: what the visitor and others do
  None

(* `variant.width === value' is missing for a width and for a length. *)
Exact == {"size", "color", "age"}
Loose == {"width", "length"}
Dims == Exact \cup Loose
NoChoice == [d \in Dims |-> None]

Ids == UNION {{v.id : v \in ToSet(Products[p])} : p \in DOMAIN Products}
Of(p) == {v.id : v \in ToSet(Products[p])}
Empty == [quantity |-> 0, inventory |-> 0]

VARIABLES
  stock,         \* the inventory of each variant
  data,          \* the browser's copies of it
  page,          \* the product whose page it is
  choice,        \* the options, as ProductVariantSelection has them
  picked,        \* the variant it shows as selected, or None
  quantity,
  button,        \* the variant ProductVariantActions has selected, or None
  cart,          \* what the cart has of each variant, and the inventory it tells
  undo,          \* a notice that a variant was marked out of stock, or None
  acts

vars == <<stock, data, page, choice, picked, quantity, button, cart, undo, acts>>
hooks == <<choice, picked, quantity, button>>

-----------------------------------------------------------------------------
InStock(copy, v) == copy[v.id] > 0
SoldOut(copy, p) == \A v \in ToSet(Products[p]) : ~InStock(copy, v)

(* variants.find: the id of the first of the variants found, or None. *)
Found(p, hits) == IF hits = {} THEN None ELSE Products[p][Min(hits)].id

FirstInStock(copy, p) ==
  Found(p, {i \in DOMAIN Products[p] : InStock(copy, Products[p][i])})
OptionsOf(v) == [d \in Dims |-> v[d]]

Match(p, copy, chosen) ==
  IF Len(Products[p]) = 1 THEN Products[p][1].id
  ELSE IF chosen = NoChoice THEN FirstInStock(copy, p)
  ELSE Found(p, {i \in DOMAIN Products[p] : OptionsOf(Products[p][i]) = chosen})

(* Mutant: what else is chosen is left out. *)
IsOptionOffered(d, value) ==
  \E v \in ToSet(Products[page]) : v[d] = value /\ InStock(data, v)

IsOptionAvailable(d, value) ==
  \E v \in ToSet(Products[page]) :
     /\ d \in Exact => v[d] = value
     /\ \A e \in Dims \ {d} : choice[e] # None => v[e] = choice[e]
     /\ InStock(data, v)

(* useState: the options of the first variant, whatever its inventory. *)
First(p) == OptionsOf(Products[p][1])

Init ==
  /\ stock \in Stocks /\ data = stock
  /\ page = 1
  /\ choice = First(1) /\ picked = Match(1, data, First(1)) /\ quantity = 1
  /\ button = picked
  /\ cart = [v \in Ids |-> Empty] /\ undo = None /\ acts = 0

-----------------------------------------------------------------------------
Act == acts < MaxActs /\ acts' = acts + 1

Toggle(d, value) ==
  /\ Act /\ value # None /\ IsOptionAvailable(d, value)
  /\ choice' = [choice EXCEPT ![d] = IF @ = value THEN None ELSE value]
  /\ picked' = Match(page, data, choice')
  /\ UNCHANGED <<stock, data, page, quantity, button, cart, undo>>

ChangeQuantity(q) ==
  /\ Act /\ q \in {quantity - 1, quantity + 1} /\ q \in 1..MaxQuantity
  /\ quantity' = q
  /\ UNCHANGED <<stock, data, page, choice, picked, button, cart, undo>>

(* The server's answer: nothing changes when the stock is less than asked. *)
Put(v, n) ==
  cart' = IF n > stock[v] THEN cart
          ELSE [cart EXCEPT ![v] = [quantity |-> n, inventory |-> stock[v]]]

(* handleAddToCart, of n: a row there is has its quantity changed, unless  *)
(* the inventory its row tells is reached.                                 *)
Add(v, n) ==
  /\ cart[v].quantity = 0 \/ cart[v].quantity < cart[v].inventory
  /\ Put(v, cart[v].quantity + n)

(* The quantity is the one ProductVariantActions has, which nothing changes. *)
AddToCart ==
  /\ Act /\ ~SoldOut(data, page) /\ button # None
  /\ Add(button, 1)
  /\ UNCHANGED <<stock, data, page, hooks, undo>>

AddFromCard(p) ==
  /\ Act /\ p # page /\ ~SoldOut(data, p)
  /\ Add(FirstInStock(data, p), 1)
  /\ UNCHANGED <<stock, data, page, hooks, undo>>

Refreshed(p) == [v \in Ids |-> IF v \in Of(p) THEN stock[v] ELSE data[v]]

(* The route's component stays mounted when only its slug changes. *)
Follow(p) ==
  /\ Act /\ p # page /\ undo = None
  /\ page' = p /\ data' = Refreshed(p)
  /\ UNCHANGED <<stock, hooks, cart, undo>>

Mount(p, copies) ==
  /\ choice' = First(p) /\ picked' = Match(p, copies, First(p))
  /\ quantity' = 1 /\ button' = picked'

Reload ==
  /\ Act /\ data' = stock /\ undo' = None /\ Mount(page, data')
  /\ UNCHANGED <<stock, page, cart>>

(* An invalidation of `product:<slug>' or of `products': the effect that   *)
(* selects a variant does not depend on the product.                       *)
Refresh(p) ==
  /\ data' = Refreshed(p) /\ data' # data
  /\ UNCHANGED <<stock, page, hooks, cart, undo, acts>>

(* By an administrator; one state opens the question of every row. *)
MarkOutOfStock(v) ==
  /\ Act /\ v \in Of(page) /\ data[v] > 0 /\ undo = None
  /\ stock' = [stock EXCEPT ![v] = 0]
  /\ undo' = [id |-> v, inventory |-> data[v]]
  /\ UNCHANGED <<data, page, hooks, cart>>

Undo ==
  /\ undo # None
  /\ stock' = [stock EXCEPT ![undo.id] = undo.inventory] /\ undo' = None
  /\ UNCHANGED <<data, page, hooks, cart, acts>>

(* The notice goes away, and the page is loaded again. *)
NoticeEnds == undo # None /\ Reload

Elsewhere(v, n) ==
  /\ Act /\ n # stock[v] /\ stock' = [stock EXCEPT ![v] = n]
  /\ UNCHANGED <<data, page, hooks, cart, undo>>

Next ==
  \/ \E d \in Dims, p \in DOMAIN Products : \E v \in ToSet(Products[p]) :
        p = page /\ Toggle(d, v[d])
  \/ \E q \in 1..MaxQuantity : ChangeQuantity(q)
  \/ AddToCart \/ Reload \/ Undo \/ NoticeEnds
  \/ \E p \in DOMAIN Products : AddFromCard(p) \/ Follow(p) \/ Refresh(p)
  \/ \E v \in Ids : MarkOutOfStock(v) \/ \E n \in 0..MaxStock : Elsewhere(v, n)

Spec == Init /\ [][Next]_vars

-----------------------------------------------------------------------------
(* The variables have the values the code gives them. *)
TypeOK ==
  /\ stock \in [Ids -> 0..MaxStock] /\ data \in [Ids -> 0..MaxStock]
  /\ page \in DOMAIN Products /\ {picked, button} \subseteq Ids \cup {None}
  /\ \A d \in Dims : choice[d] = None
                       \/ \E p \in DOMAIN Products : \E v \in ToSet(Products[p]) : choice[d] = v[d]
  /\ quantity \in 1..MaxQuantity /\ acts \in 0..MaxActs
  /\ cart \in [Ids -> [quantity : 0..MaxStock, inventory : 0..MaxStock]]
  /\ undo = None \/ undo \in [id : Ids, inventory : 1..MaxStock]

(* No variant has all the options of another, which nothing in the schema  *)
(* prevents: with a size alone and with that size and a colour, the one is *)
(* available and the other is selected.                                    *)
ToldApart(p) ==
  \A v, w \in ToSet(Products[p]) : (\A d \in Dims : v[d] # None => w[d] = v[d]) => w = v

(* A size, a colour or an age that can be chosen never leads to a variant  *)
(* that is sold out: what isOptionAvailable lets through and what          *)
(* findMatchingVariant then selects agree, whatever was chosen, unchosen   *)
(* and sold before, on this product's page or on another's.  (They do not  *)
(* for a width or a length.)                                               *)
LeadsToStock ==
  ToldApart(page) /\ picked' # picked /\ choice' # choice =>
     \A d \in Exact : \A v \in ToSet(Products[page]) :
        Toggle(d, v[d]) /\ picked' # None => data[picked'] > 0
ChoiceIsInStock == [][LeadsToStock]_vars

(* While a variant is shown as `Selected variant', what the button adds is *)
(* that variant, in the quantity shown.                                    *)
AddsWhatIsShown ==
  [][AddToCart /\ cart' # cart /\ picked # None =>
       \A v \in Ids : cart'[v].quantity =
          cart[v].quantity + (IF v = picked THEN quantity ELSE 0)]_vars
=============================================================================
