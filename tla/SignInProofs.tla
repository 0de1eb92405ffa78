---------------------------- MODULE SignInProofs ----------------------------
(***************************************************************************)
(* The cart of a guest who signs in, for every value of the constants of   *)
(* Pages: whoever is signed in is shown each unit they added, and once.    *)
(***************************************************************************)
EXTENDS Pages, FiniteSetTheorems, WellFoundedInduction, TLAPS

LEMMA OnePart ==
  ASSUME [Next]_vars
  PROVE  /\ part' = part
         /\ part = "filters" => Filters!Next \/ UNCHANGED vars
         /\ part = "product" => Product!Next \/ UNCHANGED vars
         /\ part = "sign_in" => Guest!Next \/ UNCHANGED vars
BY DEF Next, InChat, InGallery, InForm, InFilters, InProduct, InPrompt,
       InSignIn, vars

LEMMA SmallestOf ==
  ASSUME NEW S, S \subseteq Nat, S # {}
  PROVE  \E x \in S : \A y \in S : x <= y
<1> DEFINE R == {ss \in Nat \X Nat : ss[1] < ss[2]}
<1>1. IsWellFoundedOn(R, Nat)
  BY NatLessThanWellFounded DEF OpToRel
<1>2. PICK x \in S : \A y \in S : ~(<<y, x>> \in R)
  BY <1>1, WFMin
<1>3. ASSUME NEW y \in S  PROVE x <= y
  <2>1. <<y, x>> \in Nat \X Nat /\ ~(<<y, x>>[1] < <<y, x>>[2])
    BY <1>2
  <2> QED BY <2>1
<1> QED BY <1>2, <1>3

-----------------------------------------------------------------------------
(* The sign-in of a guest.                                                 *)

Item == [cart : 0..MaxCarts, variant : Guest!Variants, quantity : 1..MaxCarts]
Exchanges ==
  [pc : {"idle", "user", "guest", "merge", "answer", "login", "logout"},
   waits : BOOLEAN, cart : 0..MaxCarts, mine : Guest!Read, his : Guest!Read]

GuestTypes ==
  /\ owner \in [Guest!Ids -> {"none", "guest", "user", "deleted"}]
  /\ items \in Seq(Item) /\ Len(items) <= MaxItems /\ added = Len(items)
  /\ cookie \in 0..MaxCarts /\ sid \in BOOLEAN /\ app \in BOOLEAN
  /\ tabs \in [Guest!Tabs -> [at : {"shop", "callback"}, exchanged : BOOLEAN,
                              call : Exchanges]]
  /\ adding \in [pc : {"idle", "sent", "found"}, cart : 0..MaxCarts, user : BOOLEAN]
  /\ excused \in BOOLEAN
  /\ acts \in 0..GuestActs /\ faults \in 0..GuestFaults

Created == {n \in Guest!Ids : owner[n] # "none"}
Deleted == {n \in Guest!Ids : owner[n] = "deleted"}
Live == {i \in DOMAIN items : items[i].cart # 0}
Loose(c) == {i \in Live : items[i].cart # c}
RowsIn(n) ==
  {[id |-> i, variant |-> items[i].variant, quantity |-> items[i].quantity] :
     i \in {j \in DOMAIN items : items[j].cart = n}}
UnitsThere ==
  {x \in (DOMAIN items) \X (1..MaxCarts) :
     items[x[1]].cart # 0 /\ x[2] <= items[x[1]].quantity}

(* Whatever is named is there, or was.  The customer has one cart at most,   *)
(* and its rows stay in it.                                                  *)
CallRefs(k) ==
  /\ k.cart \in Created \union {0}
  /\ k.pc \in {"guest", "merge"} => k.cart # 0
  /\ k.pc = "merge" => /\ k.his.cart = k.cart
                       /\ \A h \in k.his.rows : h.id \in DOMAIN items
  /\ k.pc \in {"guest", "merge"} /\ k.mine.cart # 0 =>
       \A r \in k.mine.rows : r.id \in DOMAIN items /\ items[r.id].cart = k.mine.cart
RefsInv ==
  /\ \A m, n \in Guest!OfUser : m = n
  /\ cookie \in Created \union {0} /\ adding.cart \in Created \union {0}
  /\ adding.pc = "found" => adding.cart # 0
  /\ \A i \in Live : owner[items[i].cart] \in {"guest", "user"}
  /\ \A t \in Guest!Tabs : CallRefs(tabs[t].call)

(* A merge adds one unit to a row at most, and deletes a cart.               *)
CallAmounts(k) ==
  /\ k.pc = "guest" /\ owner[k.cart] = "guest" =>
       \A r \in k.mine.rows : r.quantity <= 1 + Cardinality(Deleted)
  /\ k.pc = "merge" =>
       /\ \A r \in k.mine.rows : r.quantity <= 1 + Cardinality(Deleted \ {k.cart})
       /\ \A h \in k.his.rows : h.quantity = 1
AmountsInv ==
  /\ \A i \in DOMAIN items : items[i].quantity <= 1 + Cardinality(Deleted)
  /\ \A i \in Live : owner[items[i].cart] = "guest" => items[i].quantity = 1
  /\ \A t \in Guest!Tabs : CallAmounts(tabs[t].call)

(* While the customer has no cart, there is one of a guest at most, and the  *)
(* cookie names it when something is in it.                                  *)
NoUserInv ==
  Guest!OfUser = {} =>
    /\ Deleted = {} /\ \A m, n \in Created : m = n
    /\ cookie = 0 /\ Created # {} => adding.pc = "found"
    /\ adding.pc = "sent" /\ adding.cart = 0 => Created = {}
    /\ \A t \in Guest!Tabs :
         tabs[t].call.pc \in {"guest", "merge"} => tabs[t].call.mine.cart = 0
    /\ \A i \in Live : items[i].cart = cookie

CallOfUser(k, c) ==
  k.pc \in {"guest", "merge"} =>
    /\ k.mine.cart \in {0, c}
    /\ k.mine.cart = 0 => k.cart = c
    /\ k.pc = "merge" /\ k.mine.cart = c => k.cart # c
UserInv ==
  \A c \in Guest!OfUser :
    /\ adding.pc = "found" /\ adding.user => adding.cart = c
    /\ \A t \in Guest!Tabs : CallOfUser(tabs[t].call, c)

(* What is not yet in the customer's cart is where the cookie says, and      *)
(* where each exchange under way looks for it.  A merge knows the rows of    *)
(* both carts, or there is nothing left to merge and it changes nothing.     *)
Pending(k, c) ==
  /\ owner[k.cart] = "guest"
  /\ k.mine.rows = RowsIn(c) /\ k.his.rows = RowsIn(k.cart)
Applied(k) ==
  \A i \in DOMAIN items : Guest!Merged(k.mine, k.his, i) = items[i]
Parked(c) == cookie = c /\ (adding.pc # "idle" => adding.cart = c)
CallKept(k, c) ==
  /\ k.pc \in {"user", "guest", "merge"} => \A i \in Loose(c) : items[i].cart = k.cart
  /\ k.pc \in {"answer", "login"} => Loose(c) = {}
  /\ k.pc = "guest" /\ k.mine.cart = c /\ owner[k.cart] = "guest" =>
       k.mine.rows = RowsIn(c) \/ (Parked(c) /\ Loose(c) = {})
  /\ k.pc = "merge" /\ k.mine.cart = c =>
       Pending(k, c) \/ (Applied(k) /\ Loose(c) = {})
Kept(c) ==
  /\ \A i \in Loose(c) : items[i].cart = cookie
  /\ sid => Loose(c) = {}
  /\ adding.pc # "idle" /\ (adding.user \/ adding.cart # cookie) => Loose(c) = {}
  /\ \A t \in Guest!Tabs : CallKept(tabs[t].call, c)
KeptInv ==
  ~excused => /\ Cardinality(UnitsThere) = added
              /\ \A c \in Guest!OfUser : Kept(c)

GuestInv == GuestTypes /\ RefsInv /\ AmountsInv /\ NoUserInv /\ UserInv /\ KeptInv

LEMMA GuestConstants ==
  /\ MaxCarts \in Nat \ {0} /\ MaxItems \in Nat \ {0}
  /\ GuestActs \in Nat /\ GuestFaults \in Nat
  /\ Guest!Ids = 1..MaxCarts /\ Guest!Variants = {1, 2}
BY PagesAssumption DEF Guest!Ids, Guest!Variants

LEMMA FiniteUnits ==
  ASSUME GuestTypes
  PROVE  /\ IsFiniteSet(UnitsThere) /\ IsFiniteSet(Deleted)
         /\ Cardinality(UnitsThere) \in Nat /\ Cardinality(Deleted) \in Nat
         /\ DOMAIN items = 1..Len(items) /\ Len(items) \in Nat
         /\ \A i \in DOMAIN items : items[i] \in Item
<1>1. /\ DOMAIN items = 1..Len(items) /\ Len(items) \in Nat
      /\ \A i \in DOMAIN items : items[i] \in Item
  BY DEF GuestTypes
<1>2. IsFiniteSet(1..Len(items)) /\ IsFiniteSet(1..MaxCarts)
  BY <1>1, GuestConstants, FS_Interval
<1>3. IsFiniteSet((DOMAIN items) \X (1..MaxCarts))
  BY <1>1, <1>2, FS_Product
<1>4. UnitsThere \subseteq (DOMAIN items) \X (1..MaxCarts)
  BY DEF UnitsThere
<1>5. Deleted \subseteq 1..MaxCarts
  BY GuestConstants DEF Deleted
<1>6. IsFiniteSet(UnitsThere) /\ IsFiniteSet(Deleted)
  BY <1>2, <1>3, <1>4, <1>5, FS_Subset
<1> QED BY <1>1, <1>6, FS_CardinalityType

LEMMA LargestOf ==
  ASSUME NEW n \in Nat, NEW S, S \subseteq 0..n, S # {}
  PROVE  \E x \in S : \A y \in S : x >= y
<1> DEFINE R == {n - y : y \in S}
<1>1. R \subseteq Nat /\ R # {}
  <2>1. \A y \in S : y \in 0..n /\ n - y \in Nat
    OBVIOUS
  <2> QED BY <2>1
<1>2. PICK x \in R : \A y \in R : x <= y
  BY <1>1, SmallestOf
<1>3. PICK z \in S : x = n - z
  BY <1>2
<1>4. ASSUME NEW y \in S  PROVE z >= y
  BY <1>2, <1>3, <1>4
<1> QED BY <1>4

(* create_empty_cart takes a number that is not taken. *)
LEMMA FreshCart ==
  ASSUME GuestTypes, Guest!Uncreated # {}
  PROVE  /\ Guest!Min(Guest!Uncreated) \in Guest!Ids
         /\ owner[Guest!Min(Guest!Uncreated)] = "none"
<1>1. Guest!Uncreated \subseteq Nat
  BY GuestConstants DEF Guest!Uncreated
<1>2. \E x \in Guest!Uncreated : \A y \in Guest!Uncreated : x <= y
  BY <1>1, SmallestOf
<1>3. Guest!Min(Guest!Uncreated) \in Guest!Uncreated
  BY <1>2 DEF Guest!Min
<1> QED BY <1>3 DEF Guest!Uncreated

(* The cart of a request: the customer's, or the one its cookie names. *)
LEMMA ActiveCart ==
  ASSUME GuestTypes, RefsInv, NEW n, NEW u \in BOOLEAN
  PROVE  /\ \A c \in Guest!OfUser : u => Guest!get_active_cart(n, u) = c
         /\ ~u \/ Guest!OfUser = {} =>
              Guest!get_active_cart(n, u) =
                IF n # 0 /\ owner[n] \in {"guest", "user"} THEN n ELSE 0
<1>1. ASSUME NEW c \in Guest!OfUser
      PROVE  Guest!Max(Guest!OfUser) = c
  <2>1. Guest!OfUser \subseteq 0..MaxCarts /\ MaxCarts \in Nat
    BY GuestConstants DEF Guest!OfUser
  <2>2. \E x \in Guest!OfUser : \A y \in Guest!OfUser : x >= y
    BY <1>1, <2>1, LargestOf
  <2>3. Guest!Max(Guest!OfUser) \in Guest!OfUser
    BY <2>2 DEF Guest!Max
  <2> QED BY <1>1, <2>3 DEF RefsInv
<1> QED BY <1>1 DEF Guest!get_active_cart

(* What a transaction reads. *)
LEMMA ReadingOf ==
  ASSUME GuestTypes, NEW n \in 0..MaxCarts
  PROVE  /\ Guest!Reading(n) \in Guest!Read /\ Guest!Reading(n).cart = n
         /\ n # 0 => Guest!Reading(n).rows = RowsIn(n)
         /\ n = 0 => Guest!Reading(n).rows = {}
         /\ \A r \in Guest!Reading(n).rows :
              /\ r.id \in DOMAIN items /\ items[r.id].cart = n /\ n # 0
              /\ r.quantity = items[r.id].quantity /\ r.variant = items[r.id].variant
<1>1. \A i \in DOMAIN items : items[i] \in Item /\ i \in 1..MaxItems
  <2>1. DOMAIN items = 1..Len(items) /\ Len(items) \in Nat /\ Len(items) <= MaxItems
        /\ MaxItems \in Nat
    BY FiniteUnits, GuestConstants DEF GuestTypes
  <2> QED BY <2>1, FiniteUnits
<1>2. \A r \in Guest!Reading(n).rows :
        /\ r \in Guest!Row /\ r.id \in DOMAIN items /\ items[r.id].cart = n /\ n # 0
        /\ r.quantity = items[r.id].quantity /\ r.variant = items[r.id].variant
  BY <1>1 DEF Guest!Reading, Guest!Row, Item
<1>3. Guest!Reading(n).cart = n
      /\ Guest!Reading(n) = [cart |-> n, rows |-> Guest!Reading(n).rows]
  BY DEF Guest!Reading
<1>4. Guest!Reading(n) \in Guest!Read
  BY <1>2, <1>3 DEF Guest!Read
<1>5. n # 0 => Guest!Reading(n).rows = RowsIn(n)
  BY DEF Guest!Reading, RowsIn
<1> QED BY <1>2, <1>3, <1>4, <1>5

(* A merge that has read nothing of the guest's changes nothing, when        *)
(* nothing is left there.                                                    *)
LEMMA NothingToMerge ==
  ASSUME GuestTypes, NEW k, k.his.rows = {}, k.his.cart # 0,
         \A i \in Live : items[i].cart # k.his.cart
  PROVE  Applied(k)
<1>1. ASSUME NEW i \in DOMAIN items
      PROVE  Guest!Merged(k.mine, k.his, i) = items[i]
  <2>1. items[i].cart # k.his.cart
    BY <1>1 DEF Live
  <2>2. {g \in k.his.rows : /\ Guest!Has(k.mine, g.variant)
                            /\ Guest!Target(k.mine, g.variant) = i} = {}
    OBVIOUS
  <2> QED BY <2>1, <2>2 DEF Guest!Merged
<1> QED BY <1>1 DEF Applied

-----------------------------------------------------------------------------
(* What is asked of one exchange; Settled, there is nothing left to merge.  *)
Settled == \A c \in Guest!OfUser : Loose(c) = {}
CallInv(k) ==
  /\ CallRefs(k) /\ CallAmounts(k)
  /\ Guest!OfUser = {} /\ k.pc \in {"guest", "merge"} => k.mine.cart = 0
  /\ \A c \in Guest!OfUser : CallOfUser(k, c)
Keeps(k) == \A c \in Guest!OfUser : CallKept(k, c)

LEMMA CallsHold ==
  ASSUME GuestInv, NEW t \in Guest!Tabs
  PROVE  /\ tabs[t].call \in Exchanges /\ CallInv(tabs[t].call)
         /\ ~excused => Keeps(tabs[t].call)
<1>1. tabs[t].call \in Exchanges
  BY DEF GuestInv, GuestTypes
<1>2. CallInv(tabs[t].call)
  BY DEF GuestInv, RefsInv, AmountsInv, NoUserInv, UserInv, CallInv
<1>3. ~excused => Keeps(tabs[t].call)
  BY DEF GuestInv, KeptInv, Kept, Keeps
<1> QED BY <1>1, <1>2, <1>3

(* A step of the tabs, which leaves the carts alone. *)
LEMMA TabsStep ==
  ASSUME GuestInv, GuestTypes',
         UNCHANGED <<owner, items, cookie, adding>>, excused => excused',
         ~excused' /\ sid' => sid \/ Settled,
         \A t \in Guest!Tabs : /\ CallInv(tabs'[t].call)
                               /\ ~excused' => Keeps(tabs'[t].call)
  PROVE  GuestInv'
<1>1. /\ Guest!OfUser' = Guest!OfUser /\ Created' = Created /\ Deleted' = Deleted
      /\ Live' = Live /\ UnitsThere' = UnitsThere /\ Guest!Ids' = Guest!Ids
      /\ Guest!Tabs' = Guest!Tabs
  BY DEF Guest!OfUser, Created, Deleted, Live, UnitsThere
<1>2. added' = added
  BY DEF GuestInv, GuestTypes
<1>3. \A c : Loose(c)' = Loose(c) /\ RowsIn(c)' = RowsIn(c)
  BY <1>1 DEF Loose, RowsIn
<1>4. RefsInv'
  BY <1>1 DEF GuestInv, RefsInv, CallInv, CallRefs
<1>5. AmountsInv'
  BY <1>1 DEF GuestInv, AmountsInv, CallInv, CallAmounts
<1>6. NoUserInv'
  BY <1>1 DEF GuestInv, NoUserInv, CallInv
<1>7. UserInv'
  BY <1>1 DEF GuestInv, UserInv, CallInv, CallOfUser
<1>8. KeptInv'
  <2> SUFFICES ASSUME ~excused'  PROVE (Cardinality(UnitsThere) = added
                                  /\ \A c \in Guest!OfUser : Kept(c))'
    BY DEF KeptInv
  <2>1. (Cardinality(UnitsThere) = added)'
    BY <1>1, <1>2 DEF GuestInv, KeptInv
  <2>2. ASSUME NEW c \in Guest!OfUser  PROVE Kept(c)'
    <3>1. Kept(c)
      BY <2>2 DEF GuestInv, KeptInv
    <3>2. ASSUME NEW t \in Guest!Tabs  PROVE CallKept(tabs[t].call, c)'
      <4>1. CallKept(tabs'[t].call, c)
        BY <2>2, <3>2 DEF Keeps
      <4>2. \A k : Applied(k)' = Applied(k)
        BY DEF Applied, Guest!Merged, Guest!Quantity
      <4>3. \A k : Pending(k, c)' = Pending(k, c)
        BY <1>3 DEF Pending
      <4>4. Parked(c)' = Parked(c)
        BY DEF Parked
      <4> QED BY <1>1, <1>3, <4>1, <4>2, <4>3, <4>4 DEF CallKept
    <3>3. (sid => Loose(c) = {})'
      BY <1>3, <2>2, <3>1 DEF Kept, Settled
    <3> QED BY <1>1, <1>3, <3>1, <3>2, <3>3 DEF Kept
  <2> QED BY <1>1, <2>1, <2>2
<1> QED BY <1>4, <1>5, <1>6, <1>7, <1>8 DEF GuestInv

(* What an exchange does but for reading the carts and writing them. *)
Moves(k, l) ==
  \/ l.pc = k.pc /\ l.cart = k.cart /\ l.mine = k.mine /\ l.his = k.his
  \/ l.pc \in {"idle", "logout"} /\ l.cart \in {0, k.cart}
  \/ l.pc = "user" /\ l.cart = cookie
  \/ l.pc \in {"answer", "login"} /\ l.cart \in {0, k.cart} /\ (~excused' => Settled)

LEMMA MoveStep ==
  ASSUME GuestInv, excused => excused', NEW t \in Guest!Tabs, NEW l,
         Moves(tabs[t].call, l)
  PROVE  CallInv(l) /\ (~excused' => Keeps(l))
<1> DEFINE k == tabs[t].call
<1>1. CallInv(k) /\ (~excused => Keeps(k))
  BY CallsHold
<1>2. RefsInv /\ KeptInv
  BY DEF GuestInv
<1>3. CASE l.pc = k.pc /\ l.cart = k.cart /\ l.mine = k.mine /\ l.his = k.his
  <2> HIDE DEF k
  <2>1. CallInv(l)
    BY <1>1, <1>3 DEF CallInv, CallRefs, CallAmounts, CallOfUser
  <2>2. \A c : Pending(l, c) = Pending(k, c)
    BY <1>3 DEF Pending
  <2>3. Applied(l) = Applied(k)
    BY <1>3 DEF Applied
  <2>4. Keeps(k) => Keeps(l)
    BY <1>3, <2>2, <2>3 DEF Keeps, CallKept
  <2> QED BY <1>1, <2>1, <2>4
<1>4. CASE l.pc \in {"idle", "logout"} /\ l.cart \in {0, k.cart}
  <2> HIDE DEF k
  <2>1. CallInv(l)
    BY <1>1, <1>4 DEF CallInv, CallRefs, CallAmounts, CallOfUser
  <2>2. Keeps(l)
    BY <1>4 DEF Keeps, CallKept
  <2> QED BY <2>1, <2>2
<1>5. CASE l.pc = "user" /\ l.cart = cookie
  <2>1. CallInv(l)
    BY <1>2, <1>5 DEF CallInv, CallRefs, CallAmounts, CallOfUser, RefsInv
  <2>2. ~excused' => Keeps(l)
    BY <1>2, <1>5 DEF Keeps, CallKept, KeptInv, Kept
  <2> QED BY <2>1, <2>2
<1>6. CASE /\ l.pc \in {"answer", "login"} /\ l.cart \in {0, k.cart}
           /\ ~excused' => Settled
  <2> HIDE DEF k
  <2>1. CallInv(l)
    BY <1>1, <1>6 DEF CallInv, CallRefs, CallAmounts, CallOfUser
  <2>2. ~excused' => Keeps(l)
    BY <1>6 DEF Keeps, CallKept, Settled
  <2> QED BY <2>1, <2>2
<1> QED BY <1>3, <1>4, <1>5, <1>6 DEF Moves

(* When an exchange has nothing more to do, nothing is left to merge. *)
LEMMA SettledOf ==
  ASSUME GuestInv, ~excused, NEW t \in Guest!Tabs
  PROVE  /\ tabs[t].call.pc = "user" /\ tabs[t].call.cart = 0 => Settled
         /\ /\ tabs[t].call.pc = "guest"
            /\ owner[tabs[t].call.cart] # "guest"
            => Settled
         /\ tabs[t].call.pc \in {"answer", "login"} => Settled
<1> DEFINE k == tabs[t].call
<1>1. CallInv(k) /\ Keeps(k)
  BY CallsHold
<1>2. \A i \in Live : items[i].cart # 0 /\ owner[items[i].cart] \in {"guest", "user"}
  BY DEF GuestInv, RefsInv, Live
<1>3. \A c \in Guest!OfUser : \A i \in Loose(c) : i \in Live /\ items[i].cart # c
  BY DEF Loose
<1>4. \A n \in Guest!Ids : owner[n] = "user" => n \in Guest!OfUser
  BY DEF Guest!OfUser
<1>5. \A c, n \in Guest!OfUser : n = c
  BY DEF GuestInv, RefsInv
<1>6. \A i \in Live : items[i].cart \in Guest!Ids
  BY <1>2, FiniteUnits, GuestConstants DEF GuestInv, Live, Item
<1> HIDE DEF k
<1>7. k.pc = "user" /\ k.cart = 0 => Settled
  BY <1>1, <1>2, <1>3 DEF Keeps, CallKept, Settled
<1>8. k.pc = "guest" /\ owner[k.cart] # "guest" => Settled
  BY <1>1, <1>2, <1>3, <1>4, <1>5, <1>6 DEF Keeps, CallKept, Settled
<1>9. k.pc \in {"answer", "login"} => Settled
  BY <1>1 DEF Keeps, CallKept, Settled
<1> QED BY <1>7, <1>8, <1>9 DEF k

Tab == [at : {"shop", "callback"}, exchanged : BOOLEAN, call : Exchanges]

LEMMA OneTab ==
  ASSUME GuestInv, NEW t \in Guest!Tabs, NEW x \in Tab, tabs' = [tabs EXCEPT ![t] = x],
         UNCHANGED <<owner, items, cookie, adding, added>>,
         {sid', app', excused'} \subseteq BOOLEAN, excused => excused',
         acts' \in 0..GuestActs, faults' \in 0..GuestFaults,
         ~excused' /\ sid' => sid \/ Settled,
         CallInv(x.call), ~excused' => Keeps(x.call)
  PROVE  GuestInv'
<1>1. GuestTypes
  BY DEF GuestInv
<1>2. tabs' \in [Guest!Tabs -> Tab]
  BY <1>1 DEF GuestTypes, Tab
<1>3. GuestTypes'
  BY <1>1, <1>2 DEF GuestTypes, Tab, Exchanges
<1>4. ASSUME NEW s \in Guest!Tabs
      PROVE  CallInv(tabs'[s].call) /\ (~excused' => Keeps(tabs'[s].call))
  <2>1. CASE s = t
    <3>1. tabs'[s] = x
      BY <1>1, <2>1 DEF GuestTypes
    <3> QED BY <3>1
  <2>2. CASE s # t
    <3>1. tabs'[s] = tabs[s]
      BY <1>1, <1>4, <2>2 DEF GuestTypes
    <3>2. CallInv(tabs[s].call) /\ (~excused => Keeps(tabs[s].call))
      BY <1>4, CallsHold
    <3> QED BY <3>1, <3>2
  <2> QED BY <2>1, <2>2
<1> QED BY <1>3, <1>4, TabsStep

LEMMA TabTypes ==
  ASSUME GuestTypes, NEW t \in Guest!Tabs
  PROVE  /\ tabs[t] \in Tab /\ tabs[t].call \in Exchanges /\ Guest!Idle \in Exchanges
         /\ \A y \in Exchanges : [tabs[t] EXCEPT !.call = y] \in Tab
         /\ \A p \in {"guest", "merge", "answer", "logout"} :
              [tabs[t].call EXCEPT !.pc = p] \in Exchanges
         /\ [Guest!Idle EXCEPT !.pc = "login", !.waits = TRUE] \in Exchanges
         /\ [tabs[t].call EXCEPT !.waits = FALSE] \in Exchanges
<1>1. tabs[t] \in Tab /\ tabs[t].call \in Exchanges
  BY DEF GuestTypes, Tab
<1>2. \A y \in Exchanges : [tabs[t] EXCEPT !.call = y] \in Tab
  BY ONLY <1>1 DEF Tab
<1>3. /\ \A p \in {"guest", "merge", "answer", "logout"} :
           [tabs[t].call EXCEPT !.pc = p] \in Exchanges
      /\ [tabs[t].call EXCEPT !.waits = FALSE] \in Exchanges
  BY ONLY <1>1 DEF Exchanges
<1>4. Guest!Nothing \in Guest!Read
  BY GuestConstants DEF Guest!Nothing, Guest!Read
<1>5. /\ Guest!Idle \in Exchanges
      /\ [Guest!Idle EXCEPT !.pc = "login", !.waits = TRUE] \in Exchanges
  <2>1. 0 \in 0..MaxCarts
    BY GuestConstants
  <2>2. Guest!Idle \in Exchanges
    BY ONLY <1>4, <2>1 DEF Exchanges, Guest!Idle
  <2>3. [Guest!Idle EXCEPT !.pc = "login", !.waits = TRUE] \in Exchanges
    BY ONLY <2>2 DEF Exchanges
  <2> QED BY <2>2, <2>3
<1> QED BY <1>1, <1>2, <1>3, <1>5

LEMMA CounterTypes ==
  ASSUME GuestTypes
  PROVE  /\ Guest!Act => acts' \in 0..GuestActs
         /\ Guest!Fault => faults' \in 0..GuestFaults
BY GuestConstants DEF GuestTypes, Guest!Act, Guest!Fault

LEMMA SignInStep ==
  ASSUME GuestInv, NEW t \in Guest!Tabs, Guest!SignIn(t)
  PROVE  GuestInv'
<1> DEFINE x == [tabs[t] EXCEPT !.at = "callback"]
<1>1. GuestTypes
  BY DEF GuestInv
<1>2. x \in Tab /\ tabs' = [tabs EXCEPT ![t] = x] /\ x.call = tabs[t].call
  BY <1>1 DEF Guest!SignIn, GuestTypes, Tab
<1>3. CallInv(x.call) /\ (~excused' => Keeps(x.call))
  BY <1>2, CallsHold DEF Guest!SignIn
<1>4. /\ UNCHANGED <<owner, items, cookie, adding, added>> /\ acts' \in 0..GuestActs
      /\ {sid', app', excused'} \subseteq BOOLEAN /\ excused' = excused /\ sid' = sid
      /\ faults' \in 0..GuestFaults
  BY <1>1, CounterTypes DEF Guest!SignIn, GuestTypes, Guest!carts, Guest!cookies
<1> HIDE DEF x
<1> QED BY <1>2, <1>3, <1>4, OneTab

LEMMA ExchangeStep ==
  ASSUME GuestInv, NEW t \in Guest!Tabs, Guest!Exchange(t)
  PROVE  GuestInv'
<1> DEFINE x == IF app /\ tabs[t].exchanged
                  THEN [tabs[t] EXCEPT !.at = "shop"]
                  ELSE [tabs[t] EXCEPT !.call = [Guest!Idle EXCEPT
                          !.pc = "user", !.waits = TRUE, !.cart = cookie]]
<1>1. GuestTypes
  BY DEF GuestInv
<1>2. tabs' = [tabs EXCEPT ![t] = x]
  BY <1>1 DEF Guest!Exchange, GuestTypes
<1>3. Guest!Nothing \in Guest!Read
  BY GuestConstants DEF Guest!Nothing, Guest!Read
<1>4. x \in Tab
  BY <1>1, <1>3 DEF GuestTypes, Tab, Exchanges, Guest!Idle
<1>5. Moves(tabs[t].call, x.call)
  BY <1>1, <1>3 DEF Moves, GuestTypes, Tab, Exchanges, Guest!Idle
<1>6. /\ UNCHANGED <<owner, items, cookie, adding, added>> /\ acts' \in 0..GuestActs
      /\ {sid', app', excused'} \subseteq BOOLEAN /\ excused' = excused /\ sid' = sid
      /\ faults' \in 0..GuestFaults
  BY <1>1 DEF Guest!Exchange, GuestTypes, Guest!carts, Guest!cookies
<1> HIDE DEF x
<1>7. CallInv(x.call) /\ (~excused' => Keeps(x.call))
  BY <1>5, <1>6, MoveStep
<1> QED BY <1>2, <1>4, <1>6, <1>7, OneTab

LEMMA AnswerStep ==
  ASSUME GuestInv, NEW t \in Guest!Tabs, Guest!Answer(t)
  PROVE  GuestInv'
<1> DEFINE x == [tabs[t] EXCEPT !.call =
                   IF tabs[t].call.waits
                     THEN [Guest!Idle EXCEPT !.pc = "login", !.waits = TRUE]
                     ELSE Guest!Idle]
<1>1. GuestTypes
  BY DEF GuestInv
<1>2. tabs' = [tabs EXCEPT ![t] = x] /\ tabs[t].call.pc = "answer"
  BY <1>1 DEF Guest!Answer, GuestTypes, Guest!Call
<1>3. Guest!Nothing \in Guest!Read
  BY GuestConstants DEF Guest!Nothing, Guest!Read
<1>4. x \in Tab
  BY <1>1, TabTypes
<1>5. /\ UNCHANGED <<owner, items, cookie, adding, added>> /\ acts' \in 0..GuestActs
      /\ {sid', app', excused'} \subseteq BOOLEAN /\ excused' = excused
      /\ faults' \in 0..GuestFaults
  BY <1>1 DEF Guest!Answer, GuestTypes, Guest!carts
<1>6. ~excused' => Settled
  BY <1>2, <1>5, SettledOf
<1>7. Moves(tabs[t].call, x.call)
  BY <1>1, <1>3, <1>6 DEF Moves, GuestTypes, Tab, Exchanges, Guest!Idle
<1> HIDE DEF x
<1>8. CallInv(x.call) /\ (~excused' => Keeps(x.call))
  BY <1>5, <1>7, MoveStep
<1> QED BY <1>2, <1>4, <1>5, <1>6, <1>8, OneTab

LEMMA LoginStep ==
  ASSUME GuestInv, NEW t \in Guest!Tabs, Guest!Login(t)
  PROVE  GuestInv'
<1> DEFINE x == [at |-> "shop", exchanged |-> TRUE, call |-> Guest!Idle]
<1>1. GuestTypes
  BY DEF GuestInv
<1>2. tabs' = [tabs EXCEPT ![t] = x]
  BY DEF Guest!Login
<1>3. Guest!Nothing \in Guest!Read
  BY GuestConstants DEF Guest!Nothing, Guest!Read
<1>4. x \in Tab /\ x.call = Guest!Idle
  BY <1>3, GuestConstants DEF Tab, Exchanges, Guest!Idle
<1>5. /\ UNCHANGED <<owner, items, cookie, adding, added>> /\ acts' \in 0..GuestActs
      /\ {sid', app', excused'} \subseteq BOOLEAN /\ excused' = excused /\ sid' = sid
      /\ faults' \in 0..GuestFaults
  BY <1>1 DEF Guest!Login, GuestTypes, Guest!carts
<1>6. Moves(tabs[t].call, x.call)
  BY <1>4 DEF Moves, Guest!Idle
<1> HIDE DEF x
<1>7. CallInv(x.call) /\ (~excused' => Keeps(x.call))
  BY <1>5, <1>6, MoveStep
<1> QED BY <1>2, <1>4, <1>5, <1>7, OneTab

LEMMA FailStep ==
  ASSUME GuestInv, NEW t \in Guest!Tabs, Guest!Fail(t)
  PROVE  GuestInv'
<1> DEFINE x == IF tabs[t].call.pc = "login"
                  THEN [tabs[t] EXCEPT !.call = Guest!Idle]
                  ELSE [tabs[t] EXCEPT !.at = "shop", !.call.waits = FALSE]
<1>1. GuestTypes
  BY DEF GuestInv
<1>2. tabs' = [tabs EXCEPT ![t] = x]
  BY <1>1 DEF Guest!Fail, GuestTypes, Guest!Call
<1>3. Guest!Nothing \in Guest!Read
  BY GuestConstants DEF Guest!Nothing, Guest!Read
<1>4. x \in Tab
  <2>1. [tabs[t] EXCEPT !.call = [tabs[t].call EXCEPT !.waits = FALSE]] \in Tab
    BY <1>1, TabTypes
  <2>2. CASE tabs[t].call.pc = "login"
    BY <1>1, <2>2, TabTypes
  <2>3. CASE tabs[t].call.pc # "login"
    <3>1. x = [tabs[t] EXCEPT !.at = "shop", !.call = [tabs[t].call EXCEPT !.waits = FALSE]]
      BY <1>1, <2>3 DEF GuestTypes
    <3>2. [tabs[t] EXCEPT !.call = [tabs[t].call EXCEPT !.waits = FALSE]].at
             = tabs[t].at
      BY <1>1 DEF GuestTypes
    <3> HIDE DEF x
    <3> QED BY <1>1, <2>1, <3>1, TabTypes DEF Tab
  <2> QED BY <2>2, <2>3
<1>5. /\ UNCHANGED <<owner, items, cookie, adding, added>> /\ acts' \in 0..GuestActs
      /\ {sid', app', excused'} \subseteq BOOLEAN /\ excused' = excused /\ sid' = sid
      /\ faults' \in 0..GuestFaults
  BY <1>1, CounterTypes DEF Guest!Fail, GuestTypes, Guest!carts, Guest!cookies
<1>6. Moves(tabs[t].call, x.call)
  BY <1>1, <1>3 DEF Moves, GuestTypes, Tab, Exchanges, Guest!Idle
<1> HIDE DEF x
<1>7. CallInv(x.call) /\ (~excused' => Keeps(x.call))
  BY <1>5, <1>6, MoveStep
<1> QED BY <1>2, <1>4, <1>5, <1>7, OneTab

LEMMA SignOutStep ==
  ASSUME GuestInv, NEW t \in Guest!Tabs, Guest!SignOut(t)
  PROVE  GuestInv'
<1> DEFINE x == [tabs[t] EXCEPT !.call.pc = "logout"]
<1>1. GuestTypes
  BY DEF GuestInv
<1>2. tabs' = [tabs EXCEPT ![t] = x]
  BY <1>1 DEF Guest!SignOut, GuestTypes
<1>3. x \in Tab
  <2>1. x = [tabs[t] EXCEPT !.call = [tabs[t].call EXCEPT !.pc = "logout"]]
    OBVIOUS
  <2> QED BY <1>1, <2>1, TabTypes
<1>4. /\ UNCHANGED <<owner, items, cookie, adding, added>> /\ acts' \in 0..GuestActs
      /\ {sid', app', excused'} \subseteq BOOLEAN /\ excused' = excused /\ ~sid'
      /\ faults' \in 0..GuestFaults
  BY <1>1, CounterTypes DEF Guest!SignOut, GuestTypes, Guest!carts
<1>5. Moves(tabs[t].call, x.call)
  BY <1>1 DEF Moves, GuestTypes, Tab, Exchanges
<1> HIDE DEF x
<1>6. CallInv(x.call) /\ (~excused' => Keeps(x.call))
  BY <1>4, <1>5, MoveStep
<1> QED BY <1>2, <1>3, <1>4, <1>6, OneTab

LEMMA LogoutFnStep ==
  ASSUME GuestInv, NEW t \in Guest!Tabs, Guest!LogoutFn(t)
  PROVE  GuestInv'
<1> DEFINE x == [tabs[t] EXCEPT !.exchanged = FALSE, !.call = Guest!Idle]
<1>1. GuestTypes
  BY DEF GuestInv
<1>2. tabs' = [tabs EXCEPT ![t] = x]
  BY <1>1 DEF Guest!LogoutFn, GuestTypes
<1>3. Guest!Nothing \in Guest!Read
  BY GuestConstants DEF Guest!Nothing, Guest!Read
<1>4. x \in Tab /\ x.call = Guest!Idle
  <2>1. tabs[t] \in Tab /\ Guest!Idle \in Exchanges
    BY <1>1, TabTypes
  <2> QED BY <2>1 DEF Tab
<1>5. /\ UNCHANGED <<owner, items, cookie, adding, added>> /\ acts' \in 0..GuestActs
      /\ {sid', app', excused'} \subseteq BOOLEAN /\ excused' = excused /\ sid' = sid
      /\ faults' \in 0..GuestFaults
  BY <1>1 DEF Guest!LogoutFn, GuestTypes, Guest!carts
<1>6. Moves(tabs[t].call, x.call)
  BY <1>4 DEF Moves, Guest!Idle
<1> HIDE DEF x
<1>7. CallInv(x.call) /\ (~excused' => Keeps(x.call))
  BY <1>5, <1>6, MoveStep
<1> QED BY <1>2, <1>4, <1>5, <1>7, OneTab

LEMMA MergeFailsStep ==
  ASSUME GuestInv, NEW t \in Guest!Tabs, Guest!MergeFails(t)
  PROVE  GuestInv'
<1> DEFINE x == [tabs[t] EXCEPT !.call.pc = "answer"]
<1>1. GuestTypes
  BY DEF GuestInv
<1>2. tabs' = [tabs EXCEPT ![t] = x]
  BY <1>1 DEF Guest!MergeFails, GuestTypes
<1>3. x \in Tab
  <2>1. x = [tabs[t] EXCEPT !.call = [tabs[t].call EXCEPT !.pc = "answer"]]
    OBVIOUS
  <2> QED BY <1>1, <2>1, TabTypes
<1>4. /\ UNCHANGED <<owner, items, cookie, adding, added>> /\ acts' \in 0..GuestActs
      /\ {sid', app', excused'} \subseteq BOOLEAN /\ excused' = TRUE
      /\ faults' \in 0..GuestFaults
  BY <1>1, CounterTypes DEF Guest!MergeFails, GuestTypes, Guest!carts, Guest!cookies
<1>5. Moves(tabs[t].call, x.call)
  BY <1>1, <1>4 DEF Moves, GuestTypes, Tab, Exchanges
<1> HIDE DEF x
<1>6. CallInv(x.call) /\ (~excused' => Keeps(x.call))
  BY <1>4, <1>5, MoveStep
<1> QED BY <1>2, <1>3, <1>4, <1>6, OneTab

LEMMA SessionStep ==
  ASSUME GuestInv, Guest!SessionIsLost
  PROVE  GuestInv'
<1>1. GuestTypes
  BY DEF GuestInv
<1>2. GuestTypes'
  BY <1>1, CounterTypes DEF GuestTypes, Guest!SessionIsLost, Guest!carts
<1>3. \A t \in Guest!Tabs : /\ CallInv(tabs'[t].call)
                            /\ ~excused' => Keeps(tabs'[t].call)
  BY CallsHold DEF Guest!SessionIsLost
<1> QED BY <1>2, <1>3, TabsStep DEF Guest!SessionIsLost, Guest!carts

LEMMA ReadUserCartStep ==
  ASSUME GuestInv, NEW t \in Guest!Tabs, Guest!ReadUserCart(t)
  PROVE  GuestInv'
<1> DEFINE k == tabs[t].call
<1>1. GuestTypes /\ RefsInv /\ AmountsInv /\ NoUserInv /\ KeptInv
  BY DEF GuestInv
<1>2. k.pc = "user" /\ k \in Exchanges /\ CallInv(k) /\ (~excused => Keeps(k))
  BY CallsHold DEF Guest!ReadUserCart, Guest!Call
<1>3. /\ UNCHANGED <<owner, items, cookie, adding, added>> /\ acts' \in 0..GuestActs
      /\ {sid', app', excused'} \subseteq BOOLEAN /\ excused' = excused /\ sid' = sid
      /\ faults' \in 0..GuestFaults
  BY <1>1 DEF Guest!ReadUserCart, GuestTypes, Guest!carts, Guest!cookies
<1>4. CASE k.cart = 0 /\ tabs' = [tabs EXCEPT ![t].call.pc = "answer"]
  <2> DEFINE x == [tabs[t] EXCEPT !.call = [tabs[t].call EXCEPT !.pc = "answer"]]
  <2>1. x \in Tab
    BY <1>1, TabTypes
  <2>2. tabs' = [tabs EXCEPT ![t] = x]
    BY <1>1, <1>4 DEF GuestTypes
  <2>3. ~excused' => Settled
    BY <1>2, <1>3, <1>4, SettledOf
  <2>4. Moves(tabs[t].call, x.call)
    BY <1>1, <2>3 DEF Moves, GuestTypes, Exchanges
  <2> HIDE DEF x
  <2>5. CallInv(x.call) /\ (~excused' => Keeps(x.call))
    BY <1>3, <2>4, MoveStep
  <2> QED BY <1>3, <2>1, <2>2, <2>5, OneTab
<1>5. CASE /\ k.cart # 0
           /\ \E n \in IF Guest!OfUser = {} THEN {0} ELSE Guest!OfUser :
                tabs' = [tabs EXCEPT ![t].call.pc = "guest",
                                     ![t].call.mine = Guest!Reading(n)]
  <2>1. PICK n \in IF Guest!OfUser = {} THEN {0} ELSE Guest!OfUser :
                tabs' = [tabs EXCEPT ![t].call.pc = "guest",
                                     ![t].call.mine = Guest!Reading(n)]
    BY <1>5
  <2>2. n \in 0..MaxCarts /\ (n # 0 => n \in Guest!OfUser)
        /\ \A c \in Guest!OfUser : n = c /\ c # 0
    BY <1>1, GuestConstants DEF Guest!OfUser, RefsInv
  <2> DEFINE l == [k EXCEPT !.pc = "guest", !.mine = Guest!Reading(n)]
             x == [tabs[t] EXCEPT !.call = l]
  <2>3. /\ Guest!Reading(n) \in Guest!Read /\ Guest!Reading(n).cart = n
        /\ \A c \in Guest!OfUser : Guest!Reading(n).rows = RowsIn(c)
        /\ \A r \in Guest!Reading(n).rows :
              /\ r.id \in DOMAIN items /\ items[r.id].cart = n
              /\ r.quantity = items[r.id].quantity
    BY <1>1, <2>2, ReadingOf
  <2> HIDE DEF k
  <2>4. /\ l \in Exchanges /\ l.pc = "guest" /\ l.cart = k.cart /\ l.his = k.his
        /\ l.mine = Guest!Reading(n)
    BY ONLY <1>2, <2>3 DEF Exchanges
  <2> HIDE DEF l
  <2>5. x \in Tab /\ x.call = l
    <3>1. tabs[t] \in Tab
      BY <1>1, TabTypes
    <3> QED BY ONLY <2>4, <3>1 DEF Tab
  <2>6. tabs' = [tabs EXCEPT ![t] = x]
    BY <1>1, <2>1 DEF GuestTypes, k, l
  <2>7. CallInv(l)
    <3>1. CallRefs(l)
      BY <1>2, <1>5, <2>3, <2>4 DEF CallInv, CallRefs
    <3>2. CallAmounts(l)
      BY <1>1, <2>3, <2>4 DEF CallAmounts, AmountsInv
    <3>3. \A c \in Guest!OfUser : CallOfUser(l, c)
      BY <2>2, <2>3, <2>4 DEF CallOfUser
    <3>4. Guest!OfUser = {} => l.mine.cart = 0
      BY <2>3, <2>4
    <3> QED BY <3>1, <3>2, <3>3, <3>4 DEF CallInv
  <2>8. ~excused' => Keeps(l)
    BY <1>2, <1>3, <2>3, <2>4 DEF Keeps, CallKept
  <2> HIDE DEF x
  <2> QED BY <1>3, <2>5, <2>6, <2>7, <2>8, OneTab
<1> QED BY <1>4, <1>5 DEF Guest!ReadUserCart, Guest!Call

LEMMA ReadGuestCartStep ==
  ASSUME GuestInv, NEW t \in Guest!Tabs, Guest!ReadGuestCart(t)
  PROVE  GuestInv'
<1> DEFINE k == tabs[t].call
<1>1. GuestTypes /\ RefsInv /\ AmountsInv /\ NoUserInv /\ KeptInv
  BY DEF GuestInv
<1>2. k.pc = "guest" /\ k \in Exchanges /\ CallInv(k) /\ (~excused => Keeps(k))
  BY CallsHold DEF Guest!ReadGuestCart, Guest!Call
<1>3. /\ UNCHANGED <<owner, items, cookie, adding, added>> /\ acts' \in 0..GuestActs
      /\ {sid', app', excused'} \subseteq BOOLEAN /\ excused' = excused /\ sid' = sid
      /\ faults' \in 0..GuestFaults
  BY <1>1 DEF Guest!ReadGuestCart, GuestTypes, Guest!carts, Guest!cookies
<1>4. CASE owner[k.cart] # "guest" /\ tabs' = [tabs EXCEPT ![t].call.pc = "answer"]
  <2> DEFINE x == [tabs[t] EXCEPT !.call = [tabs[t].call EXCEPT !.pc = "answer"]]
  <2>1. x \in Tab
    BY <1>1, TabTypes
  <2>2. tabs' = [tabs EXCEPT ![t] = x]
    BY <1>1, <1>4 DEF GuestTypes
  <2>3. ~excused' => Settled
    BY <1>2, <1>3, <1>4, SettledOf
  <2>4. Moves(tabs[t].call, x.call)
    BY <1>1, <2>3 DEF Moves, GuestTypes, Exchanges
  <2> HIDE DEF x
  <2>5. CallInv(x.call) /\ (~excused' => Keeps(x.call))
    BY <1>3, <2>4, MoveStep
  <2> QED BY <1>3, <2>1, <2>2, <2>5, OneTab
<1>5. CASE /\ owner[k.cart] = "guest"
           /\ tabs' = [tabs EXCEPT ![t].call.pc = "merge",
                                   ![t].call.his = Guest!Reading(k.cart)]
  <2>1. k.cart \in 0..MaxCarts /\ k.cart # 0
    BY <1>2 DEF Exchanges, CallInv, CallRefs
  <2> DEFINE l == [k EXCEPT !.pc = "merge", !.his = Guest!Reading(k.cart)]
             x == [tabs[t] EXCEPT !.call = l]
  <2>3. /\ Guest!Reading(k.cart) \in Guest!Read /\ Guest!Reading(k.cart).cart = k.cart
        /\ Guest!Reading(k.cart).rows = RowsIn(k.cart)
        /\ \A r \in Guest!Reading(k.cart).rows :
              /\ r.id \in DOMAIN items /\ items[r.id].cart = k.cart
              /\ r.quantity = items[r.id].quantity
    BY <1>1, <2>1, ReadingOf
  <2> HIDE DEF k
  <2>4. /\ l \in Exchanges /\ l.pc = "merge" /\ l.cart = k.cart /\ l.mine = k.mine
        /\ l.his = Guest!Reading(k.cart)
    BY ONLY <1>2, <2>3 DEF Exchanges
  <2> HIDE DEF l
  <2>5. x \in Tab /\ x.call = l
    <3>1. tabs[t] \in Tab
      BY <1>1, TabTypes
    <3> QED BY ONLY <2>4, <3>1 DEF Tab
  <2>6. tabs' = [tabs EXCEPT ![t] = x]
    <3>1. \A y : [[tabs EXCEPT ![t].call.pc = "merge"] EXCEPT ![t].call.his = y]
              = [tabs EXCEPT ![t] = [tabs[t] EXCEPT
                   !.call = [tabs[t].call EXCEPT !.pc = "merge", !.his = y]]]
      BY <1>1 DEF GuestTypes
    <3> QED BY <1>5, <3>1 DEF k, l
  <2>7. CallInv(l)
    <3>1. CallRefs(l)
      BY <1>2, <2>1, <2>3, <2>4 DEF CallInv, CallRefs
    <3>2. CallAmounts(l)
      <4>1. Deleted \ {k.cart} = Deleted
        BY <1>5 DEF Deleted
      <4>2. \A r \in l.mine.rows : r.quantity <= 1 + Cardinality(Deleted)
        BY <1>2, <1>5, <2>4 DEF CallInv, CallAmounts
      <4>3. \A i \in DOMAIN items : items[i].cart = k.cart => items[i].quantity = 1
        BY <1>1, <1>5, <2>1 DEF AmountsInv, Live
      <4> QED BY <2>3, <2>4, <4>1, <4>2, <4>3 DEF CallAmounts
    <3>3. \A c \in Guest!OfUser : CallOfUser(l, c)
      BY <1>2, <1>5, <2>4 DEF CallInv, CallOfUser, Guest!OfUser
    <3>4. Guest!OfUser = {} => l.mine.cart = 0
      BY <1>2, <2>4 DEF CallInv
    <3> QED BY <3>1, <3>2, <3>3, <3>4 DEF CallInv
  <2>8. ASSUME ~excused', NEW c \in Guest!OfUser  PROVE CallKept(l, c)
    <3>1. CallKept(k, c)
      BY <1>2, <1>3, <2>8 DEF Keeps
    <3>2. CASE l.mine.cart # c
      BY <1>2, <2>4, <3>1, <3>2 DEF CallKept
    <3>3. CASE l.mine.rows = RowsIn(c)
      BY <1>2, <1>5, <2>3, <2>4, <3>1, <3>3 DEF CallKept, Pending
    <3>4. CASE Loose(c) = {}
      <4>1. k.cart # c
        BY <1>5 DEF Guest!OfUser
      <4>2. \A i \in Live : items[i].cart # k.cart
        BY <3>4, <4>1 DEF Loose
      <4>3. RowsIn(k.cart) = {}
        BY <2>1, <4>2 DEF RowsIn, Live
      <4>4. Applied(l)
        BY <1>1, <2>1, <2>3, <2>4, <4>2, <4>3, NothingToMerge
      <4> QED BY <2>4, <3>4, <4>4 DEF CallKept
    <3>5. l.mine.cart = c => l.mine.rows = RowsIn(c) \/ Loose(c) = {}
      BY <1>2, <1>5, <2>4, <3>1 DEF CallKept
    <3> QED BY <3>2, <3>3, <3>4, <3>5
  <2> HIDE DEF x
  <2> QED BY <1>3, <2>5, <2>6, <2>7, <2>8, OneTab DEF Keeps
<1> QED BY <1>4, <1>5 DEF Guest!ReadGuestCart, Guest!Call

-----------------------------------------------------------------------------
(* Steps of the requests, which may create a cart.                         *)
Older == \A n \in Created : owner'[n] = owner[n]

LEMMA NewCart ==
  ASSUME GuestInv, NEW u \in BOOLEAN, Guest!create_empty_cart(u)
  PROVE  /\ Guest!Min(Guest!Uncreated) \in Guest!Ids
         /\ Created' = Created \union {Guest!Min(Guest!Uncreated)}
         /\ Guest!Min(Guest!Uncreated) \notin Created
         /\ Deleted' = Deleted /\ Older
         /\ u => Guest!OfUser' = Guest!OfUser \union {Guest!Min(Guest!Uncreated)}
         /\ ~u => Guest!OfUser' = Guest!OfUser
         /\ owner' \in [Guest!Ids -> {"none", "guest", "user", "deleted"}]
<1> DEFINE m == Guest!Min(Guest!Uncreated)
<1>1. m \in Guest!Ids /\ owner[m] = "none"
  BY FreshCart DEF GuestInv, Guest!create_empty_cart
<1>2. owner' = [owner EXCEPT ![m] = IF u THEN "user" ELSE "guest"]
  BY DEF Guest!create_empty_cart
<1>3. owner \in [Guest!Ids -> {"none", "guest", "user", "deleted"}]
  BY DEF GuestInv, GuestTypes
<1> HIDE DEF m
<1>4. Guest!Ids' = Guest!Ids
  OBVIOUS
<1>5. \A n \in Guest!Ids : n # m => owner'[n] = owner[n]
  BY ONLY <1>1, <1>2, <1>3
<1>6. owner'[m] = IF u THEN "user" ELSE "guest"
  BY ONLY <1>1, <1>2, <1>3
<1>7. /\ Created' = Created \union {m} /\ Deleted' = Deleted /\ m \notin Created
      /\ u => Guest!OfUser' = Guest!OfUser \union {m}
      /\ ~u => Guest!OfUser' = Guest!OfUser
  BY <1>1, <1>4, <1>5, <1>6 DEF Created, Deleted, Guest!OfUser
<1>8. Older
  BY <1>1, <1>5 DEF Older, Created
<1>9. owner' \in [Guest!Ids -> {"none", "guest", "user", "deleted"}]
  BY ONLY <1>1, <1>2, <1>3
<1> QED BY <1>1, <1>7, <1>8, <1>9 DEF m

(* A cart that is there, or that is created, is named. *)
LEMMA NamedStep ==
  ASSUME GuestInv, UNCHANGED <<items, tabs>>,
         Created \subseteq Created', Deleted' = Deleted, Older,
         \A m, n \in Guest!OfUser' : m = n,
         cookie' \in Created' \union {0}, adding'.cart \in Created' \union {0},
         adding'.pc = "found" => adding'.cart # 0
  PROVE  RefsInv' /\ AmountsInv'
<1>1. GuestTypes /\ RefsInv /\ AmountsInv
  BY DEF GuestInv
<1>2. Live' = Live /\ Guest!Tabs' = Guest!Tabs
  BY DEF Live
<1>3. \A i \in Live : /\ items[i].cart \in Created
                      /\ owner'[items[i].cart] = owner[items[i].cart]
  <2>1. \A i \in Live : items[i].cart \in Guest!Ids
    BY <1>1, FiniteUnits, GuestConstants DEF Live, Item
  <2>2. \A i \in Live : items[i].cart \in Created
    BY <1>1, <2>1 DEF RefsInv, Created
  <2> QED BY <2>2 DEF Older
<1>4. \A t \in Guest!Tabs : /\ tabs[t].call.cart \in Created \union {0}
                            /\ tabs[t].call.pc = "guest" => tabs[t].call.cart # 0
  BY <1>1 DEF RefsInv, CallRefs
<1>5. \A t \in Guest!Tabs : CallRefs(tabs[t].call)'
  BY <1>1 DEF RefsInv, CallRefs
<1>6. RefsInv'
  BY <1>1, <1>2, <1>3, <1>5 DEF RefsInv
<1>7. \A t \in Guest!Tabs : CallAmounts(tabs[t].call)'
  BY <1>1, <1>4 DEF AmountsInv, CallAmounts, Older
<1>8. AmountsInv'
  BY <1>1, <1>2, <1>3, <1>7 DEF AmountsInv
<1> QED BY <1>6, <1>8

(* Then, if the customer has their cart, what was to be merged still is. *)
LEMMA NamedAgain ==
  ASSUME GuestInv, GuestTypes', UNCHANGED <<items, tabs, sid, excused>>,
         Created \subseteq Created', Deleted' = Deleted, Older,
         Guest!OfUser' = Guest!OfUser, NoUserInv',
         cookie' \in Created' \union {0}, adding'.cart \in Created' \union {0},
         adding'.pc = "found" => adding'.cart # 0,
         \A c \in Guest!OfUser :
           /\ adding'.pc = "found" /\ adding'.user => adding'.cart = c
           /\ ~excused =>
                /\ \A i \in Loose(c) : items[i].cart = cookie'
                /\ adding'.pc # "idle" /\ (adding'.user \/ adding'.cart # cookie') =>
                     Loose(c) = {}
                /\ Parked(c) => Parked(c)'
  PROVE  GuestInv'
<1>1. GuestTypes /\ RefsInv /\ UserInv /\ KeptInv
  BY DEF GuestInv
<1>2. RefsInv' /\ AmountsInv'
  BY <1>1, NamedStep DEF RefsInv
<1>3. UserInv'
  BY <1>1 DEF UserInv, CallOfUser
<1>4. ASSUME ~excused, NEW c \in Guest!OfUser  PROVE Kept(c)'
  <2>1. Kept(c)
    BY <1>1, <1>4 DEF KeptInv
  <2>2. Loose(c)' = Loose(c)
    BY DEF Loose, Live
  <2>3. ASSUME NEW t \in Guest!Tabs  PROVE CallKept(tabs[t].call, c)'
    <3> DEFINE k == tabs[t].call
    <3>1. CallKept(k, c) /\ tabs'[t].call = k
      BY <2>1, <2>3 DEF Kept
    <3>2. \A n : RowsIn(n)' = RowsIn(n)
      BY DEF RowsIn
    <3>3. Applied(k)' = Applied(k)
      BY DEF Applied, Guest!Merged, Guest!Quantity
    <3>4. k.pc \in {"guest", "merge"} => owner'[k.cart] = owner[k.cart]
      BY <1>1, <2>3 DEF RefsInv, CallRefs, Older
    <3>5. k.pc = "merge" /\ Pending(k, c) => Pending(k, c)'
      BY <3>2, <3>4 DEF Pending
    <3>6. Parked(c) => Parked(c)'
      BY <1>4
    <3> QED BY <2>2, <3>1, <3>2, <3>3, <3>4, <3>5, <3>6 DEF CallKept
  <2> QED BY <1>4, <2>1, <2>2, <2>3 DEF Kept
<1>5. KeptInv'
  <2>1. UnitsThere' = UnitsThere /\ added' = added
    BY <1>1 DEF UnitsThere, GuestTypes
  <2> QED BY <1>1, <1>4, <2>1 DEF KeptInv
<1> QED BY <1>2, <1>3, <1>5 DEF GuestInv

LEMMA ShowCartStep ==
  ASSUME GuestInv, Guest!ShowCart
  PROVE  GuestInv'
<1> DEFINE n == Guest!get_active_cart(cookie, sid)
           m == Guest!Min(Guest!Uncreated)
<1>1. GuestTypes /\ RefsInv /\ NoUserInv /\ UserInv /\ KeptInv
  BY DEF GuestInv
<1>2. /\ \A c \in Guest!OfUser : sid => n = c
      /\ ~sid \/ Guest!OfUser = {} =>
           n = IF cookie # 0 /\ owner[cookie] \in {"guest", "user"} THEN cookie ELSE 0
  BY <1>1, ActiveCart DEF GuestTypes
<1>3. cookie # 0 => cookie \in Created
  BY <1>1 DEF RefsInv
<1>4. \A c \in Created : owner[c] \in {"guest", "user", "deleted"}
  BY <1>1 DEF GuestTypes, Created
<1>5. n # cookie /\ UNCHANGED <<items, tabs, sid, adding, excused>>
  BY DEF Guest!ShowCart
<1>6. Guest!OfUser # {}
  BY <1>1, <1>2, <1>3, <1>4, <1>5 DEF NoUserInv, Deleted, Created
<1>7. PICK c \in Guest!OfUser : \A d \in Guest!OfUser : d = c
  BY <1>1, <1>6 DEF RefsInv
<1>8. c \in Created /\ c \in Guest!Ids
  BY DEF Guest!OfUser, Created
<1>9. UNCHANGED <<app, added, faults>> /\ acts' \in 0..GuestActs
  BY <1>1, CounterTypes DEF Guest!ShowCart
<1>10. CASE n # 0 /\ cookie' = n /\ owner' = owner
  <2>1. n = c
    BY <1>2, <1>5, <1>10
  <2>2. /\ Created' = Created /\ Deleted' = Deleted /\ Older
        /\ Guest!OfUser' = Guest!OfUser
    BY <1>10 DEF Created, Deleted, Older, Guest!OfUser
  <2>3. cookie' \in 0..MaxCarts
    BY <1>8, <1>10, <2>1, GuestConstants
  <2>4. GuestTypes'
    BY <1>1, <1>5, <1>9, <1>10, <2>3 DEF GuestTypes
  <2>5. NoUserInv'
    BY <1>6, <2>2 DEF NoUserInv
  <2>6. sid
    BY <1>2, <1>5, <1>10
  <2>7. ~excused => Loose(c) = {}
    BY <1>1, <2>6 DEF KeptInv, Kept
  <2>8. ~Parked(c)
    BY <1>5, <2>1 DEF Parked
  <2> HIDE DEF n
  <2> QED BY <1>1, <1>5, <1>7, <1>8, <1>10, <2>1, <2>2, <2>4, <2>5, <2>7, <2>8,
             NamedAgain DEF UserInv, RefsInv
<1>11. CASE n = 0 /\ Guest!create_empty_cart(sid) /\ cookie' = m
  <2>1. ~sid
    BY <1>2, <1>7, <1>8, <1>11, GuestConstants
  <2>2. cookie \in Deleted
    BY <1>2, <1>3, <1>4, <1>5, <1>11, <2>1 DEF Created, Deleted
  <2>3. /\ m \in Guest!Ids /\ Created' = Created \union {m} /\ Deleted' = Deleted /\ Older
        /\ Guest!OfUser' = Guest!OfUser
        /\ owner' \in [Guest!Ids -> {"none", "guest", "user", "deleted"}]
    BY <1>1, <1>11, <2>1, NewCart DEF GuestTypes
  <2>4. cookie' \in 0..MaxCarts
    BY <1>11, <2>3, GuestConstants
  <2> HIDE DEF n, m
  <2>5. GuestTypes'
    BY <1>1, <1>5, <1>9, <2>3, <2>4 DEF GuestTypes
  <2>6. NoUserInv'
    BY <1>6, <2>3 DEF NoUserInv
  <2>7. ~excused => Loose(c) = {}
    <3>1. \A i \in Live : items[i].cart # cookie
      BY <1>1, <2>2 DEF RefsInv, Deleted
    <3> QED BY <1>1, <3>1 DEF KeptInv, Kept, Loose
  <2>8. ~Parked(c)
    BY <2>2 DEF Parked, Deleted, Guest!OfUser
  <2> QED BY <1>1, <1>5, <1>7, <1>11, <2>3, <2>5, <2>6, <2>7, <2>8, NamedAgain
             DEF UserInv, RefsInv
<1> QED BY <1>10, <1>11 DEF Guest!ShowCart

LEMMA AddToCartStep ==
  ASSUME GuestInv, Guest!AddToCart
  PROVE  GuestInv'
<1>1. GuestTypes /\ RefsInv /\ NoUserInv /\ UserInv /\ KeptInv
  BY DEF GuestInv
<1>2. /\ UNCHANGED <<owner, items, cookie, sid, app, tabs, added, excused, faults>>
      /\ adding.pc = "idle" /\ acts' \in 0..GuestActs
      /\ adding' = [pc |-> "sent", cart |-> cookie, user |-> sid]
  BY <1>1, CounterTypes
     DEF Guest!AddToCart, Guest!NoAdd, Guest!carts, Guest!cookies
<1>3. GuestTypes'
  BY <1>1, <1>2 DEF GuestTypes
<1>4. /\ Created' = Created /\ Deleted' = Deleted /\ Older /\ Live' = Live
      /\ Guest!OfUser' = Guest!OfUser /\ Guest!Tabs' = Guest!Tabs
  BY <1>2 DEF Created, Deleted, Older, Guest!OfUser, Live
<1>5. NoUserInv'
  BY <1>1, <1>2, <1>4 DEF NoUserInv
<1>6. ASSUME NEW c \in Guest!OfUser, ~excused
      PROVE  /\ \A i \in Loose(c) : items[i].cart = cookie'
             /\ sid => Loose(c) = {}
             /\ Parked(c) => Parked(c)'
  BY <1>1, <1>2, <1>6 DEF KeptInv, Kept, Parked
<1> QED BY <1>1, <1>2, <1>3, <1>4, <1>5, <1>6, NamedAgain DEF RefsInv

LEMMA FindCartStep ==
  ASSUME GuestInv, Guest!FindCart
  PROVE  GuestInv'
<1> DEFINE u == adding.user
           n == Guest!get_active_cart(adding.cart, u)
           m == Guest!Min(Guest!Uncreated)
<1>1. GuestTypes /\ RefsInv /\ NoUserInv /\ UserInv /\ KeptInv
  BY DEF GuestInv
<1>2. /\ adding.pc = "sent" /\ u \in BOOLEAN
      /\ UNCHANGED <<items, cookie, sid, app, tabs, added, excused, acts, faults>>
  BY <1>1 DEF Guest!FindCart, GuestTypes, Guest!cookies
<1>3. /\ \A c \in Guest!OfUser : u => n = c
      /\ ~u \/ Guest!OfUser = {} =>
           n = IF adding.cart # 0 /\ owner[adding.cart] \in {"guest", "user"}
                 THEN adding.cart ELSE 0
  BY <1>1, <1>2, ActiveCart
<1>4. adding.cart # 0 => adding.cart \in Created
  BY <1>1 DEF RefsInv
<1>5. \A c \in Created : owner[c] \in {"guest", "user", "deleted"}
  BY <1>1 DEF GuestTypes, Created
<1>6. \A c \in Guest!OfUser : c \in Created /\ owner[c] = "user" /\ c # 0
  BY GuestConstants DEF Guest!OfUser, Created
<1> HIDE DEF n
<1>7. CASE n # 0 /\ owner' = owner /\ adding' = [adding EXCEPT !.pc = "found", !.cart = n]
  <2>1. /\ Created' = Created /\ Deleted' = Deleted /\ Older /\ Live' = Live
        /\ Guest!OfUser' = Guest!OfUser /\ Guest!Tabs' = Guest!Tabs
    BY <1>2, <1>7 DEF Created, Deleted, Older, Guest!OfUser, Live
  <2>2. n \in Created /\ (n = adding.cart \/ (u /\ n \in Guest!OfUser))
    BY <1>2, <1>3, <1>4, <1>6, <1>7
  <2>3. n \in 0..MaxCarts
    BY <2>2, GuestConstants DEF Created
  <2>4. adding'.pc = "found" /\ adding'.cart = n /\ adding'.user = u
    BY <1>1, <1>7 DEF GuestTypes
  <2>5. GuestTypes'
    BY <1>1, <1>2, <1>7, <2>3 DEF GuestTypes
  <2>6. NoUserInv'
    BY <1>1, <1>2, <2>1, <2>4 DEF NoUserInv
  <2>7. ASSUME NEW c \in Guest!OfUser, ~excused
        PROVE  /\ \A i \in Loose(c) : items[i].cart = cookie
               /\ u \/ n # cookie => Loose(c) = {}
               /\ Parked(c) => Parked(c)'
    <3>1. Kept(c)
      BY <1>1, <2>7 DEF KeptInv
    <3>2. \A i \in Loose(c) : items[i].cart = cookie
      BY <3>1 DEF Kept
    <3>3. u \/ n # cookie => Loose(c) = {}
      BY <1>2, <2>2, <3>1 DEF Kept
    <3>4. Parked(c) => Parked(c)'
      BY <1>1, <1>2, <2>2, <2>4, <2>7 DEF Parked, RefsInv
    <3> QED BY <3>2, <3>3, <3>4
  <2>8. \A c \in Guest!OfUser : u => n = c
    BY <1>3
  <2> HIDE DEF u
  <2> QED BY <1>2, <1>7, <2>1, <2>2, <2>4, <2>5, <2>6, <2>7, <2>8, <1>1, NamedAgain
             DEF RefsInv
<1>8. CASE /\ n = 0 /\ Guest!create_empty_cart(u)
           /\ adding' = [adding EXCEPT !.pc = "found", !.cart = m]
  <2>1. /\ m \in Guest!Ids /\ Created' = Created \union {m} /\ Deleted' = Deleted /\ Older
        /\ u => Guest!OfUser' = Guest!OfUser \union {m}
        /\ ~u => Guest!OfUser' = Guest!OfUser
        /\ m \notin Created
        /\ owner' \in [Guest!Ids -> {"none", "guest", "user", "deleted"}]
    BY <1>2, <1>8, NewCart
  <2> HIDE DEF m
  <2>2. m \in 0..MaxCarts /\ m # 0
    BY <2>1, GuestConstants
  <2>3. adding'.pc = "found" /\ adding'.cart = m /\ adding'.user = u
    BY <1>1, <1>8 DEF GuestTypes
  <2>4. GuestTypes'
    BY <1>1, <1>2, <1>8, <2>1, <2>2 DEF GuestTypes
  <2>5. ~u \/ Guest!OfUser = {}
    BY <1>3, <1>6, <1>8
  <2>6. adding.cart = 0 \/ adding.cart \in Deleted
    BY <1>3, <1>4, <1>5, <1>8, <2>5 DEF Deleted, Created
  <2>7. Guest!OfUser = {} => Created = {}
    BY <1>1, <1>2, <2>6 DEF NoUserInv
  <2>8. \A i \in Live : items[i].cart \in Created /\ items[i].cart \notin Deleted
    <3>1. \A i \in Live : items[i].cart \in Guest!Ids
      BY <1>1, FiniteUnits, GuestConstants DEF Live, Item
    <3> QED BY <1>1, <3>1 DEF RefsInv, Created, Deleted
  <2>9. CASE ~u
    <3>1. NoUserInv'
      <4>1. Live' = Live /\ Guest!Tabs' = Guest!Tabs
        BY <1>2 DEF Live
      <4>2. Guest!OfUser = {} => Live = {}
        BY <2>7, <2>8
      <4> QED BY <1>1, <1>2, <2>1, <2>3, <2>7, <2>9, <4>1, <4>2 DEF NoUserInv
    <3>2. ASSUME NEW c \in Guest!OfUser, ~excused
          PROVE  Loose(c) = {} /\ (\A i \in Loose(c) : items[i].cart = cookie)
                 /\ ~Parked(c)
      <4>1. Kept(c)
        BY <1>1, <3>2 DEF KeptInv
      <4>2. Loose(c) = {}
        <5>1. CASE adding.cart # cookie
          BY <1>2, <4>1, <5>1 DEF Kept
        <5>2. CASE adding.cart = cookie
          BY <2>6, <2>8, <4>1, <5>2 DEF Kept, Loose, Live
        <5> QED BY <5>1, <5>2
      <4>3. ~Parked(c)
        BY <1>2, <1>6, <2>6, <3>2 DEF Parked, Deleted
      <4> QED BY <4>2, <4>3
    <3> HIDE DEF u
    <3> QED BY <1>1, <1>2, <2>1, <2>2, <2>3, <2>4, <2>9, <3>1, <3>2, NamedAgain
               DEF RefsInv
  <2>10. CASE u
    <3>1. Guest!OfUser = {} /\ Created = {} /\ Live = {} /\ Live' = {}
          /\ Guest!OfUser' = {m} /\ Guest!Tabs' = Guest!Tabs
      BY <1>2, <2>1, <2>5, <2>7, <2>8, <2>10 DEF Live
    <3>2. RefsInv' /\ AmountsInv'
      BY <1>1, <1>2, <2>1, <2>3, <2>2, <3>1, NamedStep DEF RefsInv
    <3>3. NoUserInv'
      BY <3>1 DEF NoUserInv
    <3>4. \A t \in Guest!Tabs : tabs'[t].call.pc \notin {"guest", "merge"}
      BY <1>1, <1>2, <3>1 DEF RefsInv, CallRefs
    <3>5. UserInv'
      BY <2>3, <3>1, <3>4 DEF UserInv, CallOfUser
    <3>6. KeptInv'
      <4>2. ASSUME NEW c \in Guest!OfUser'  PROVE Kept(c)'
        <5>1. Loose(c)' = {}
          BY <3>1 DEF Loose
        <5> QED BY <3>1, <3>4, <5>1 DEF Kept, CallKept
      <4>3. UnitsThere' = UnitsThere
        BY <1>2 DEF UnitsThere
      <4> QED BY <1>1, <1>2, <3>1, <4>2, <4>3 DEF KeptInv
    <3> QED BY <2>4, <3>2, <3>3, <3>5, <3>6 DEF GuestInv
  <2> QED BY <2>9, <2>10
<1> QED BY <1>2, <1>7, <1>8 DEF Guest!FindCart, n, m, u

(* The cart that a merge adds to has the row that it adds to. *)
LEMMA TargetOf ==
  ASSUME GuestTypes, NEW mine, mine.rows \subseteq Guest!Row, NEW v, Guest!Has(mine, v)
  PROVE  \E r \in mine.rows : r.variant = v /\ r.id = Guest!Target(mine, v)
<1> DEFINE S == {r.id : r \in {s \in mine.rows : s.variant = v}}
<1>1. \A r \in mine.rows : r.id \in 1..MaxItems
  BY DEF Guest!Row
<1>2. S \subseteq 0..MaxItems /\ S # {} /\ MaxItems \in Nat
  BY <1>1, GuestConstants DEF Guest!Has
<1>3. \E x \in S : \A y \in S : x >= y
  BY <1>2, LargestOf
<1>4. Guest!Max(S) \in S
  BY <1>3 DEF Guest!Max
<1> QED BY <1>4 DEF Guest!Target

LEMMA AddItemGone ==
  ASSUME GuestInv, adding.pc = "found", owner[adding.cart] = "deleted",
         UNCHANGED <<owner, items, cookie, sid, app, tabs, added, excused, acts, faults>>,
         adding' = Guest!NoAdd
  PROVE  GuestInv'
<1>1. GuestTypes /\ RefsInv /\ NoUserInv /\ UserInv /\ KeptInv
  BY DEF GuestInv
<1>2. adding' = [pc |-> "idle", cart |-> 0, user |-> FALSE]
  BY DEF Guest!NoAdd
<1>3. GuestTypes'
  BY <1>1, <1>2, GuestConstants DEF GuestTypes
<1>4. /\ Created' = Created /\ Deleted' = Deleted /\ Older /\ Live' = Live
      /\ Guest!OfUser' = Guest!OfUser /\ Guest!Tabs' = Guest!Tabs
  BY DEF Created, Deleted, Older, Guest!OfUser, Live
<1>5. Deleted # {}
  BY <1>1 DEF RefsInv, Created, Deleted
<1>6. NoUserInv'
  BY <1>1, <1>4, <1>5 DEF NoUserInv
<1>7. ASSUME NEW c \in Guest!OfUser, ~excused
      PROVE  /\ \A i \in Loose(c) : items[i].cart = cookie'
             /\ Parked(c) => Parked(c)'
  BY <1>1, <1>2, <1>7 DEF KeptInv, Kept, Parked
<1> QED BY <1>1, <1>2, <1>3, <1>4, <1>6, <1>7, NamedAgain DEF RefsInv

(* A row more: what that does to the sets of rows and units. *)
LEMMA RowMore ==
  ASSUME GuestTypes, NEW a \in 1..MaxCarts, NEW v \in Guest!Variants,
         items' = Append(items, [cart |-> a, variant |-> v, quantity |-> 1]),
         Len(items) < MaxItems
  PROVE  /\ DOMAIN items' = (DOMAIN items) \union {Len(items) + 1}
         /\ Len(items) + 1 \notin DOMAIN items
         /\ \A i \in DOMAIN items : items'[i] = items[i]
         /\ items'[Len(items) + 1] = [cart |-> a, variant |-> v, quantity |-> 1]
         /\ items' \in Seq(Item) /\ Len(items') = Len(items) + 1
         /\ Live' = Live \union {Len(items) + 1}
         /\ \A n : n # a => RowsIn(n)' = RowsIn(n)
         /\ Cardinality(UnitsThere') = Cardinality(UnitsThere) + 1
<1> DEFINE j == Len(items) + 1
           w == [cart |-> a, variant |-> v, quantity |-> 1]
<1>1. /\ DOMAIN items = 1..Len(items) /\ Len(items) \in Nat /\ IsFiniteSet(UnitsThere)
      /\ \A i \in DOMAIN items : items[i] \in Item
  BY FiniteUnits
<1>2. w \in Item
  BY GuestConstants DEF Item
<1>3. items \in Seq(Item)
  BY DEF GuestTypes
<1>4. /\ items' \in Seq(Item) /\ Len(items') = j /\ DOMAIN items' = 1..j
      /\ \A i \in 1..Len(items) : items'[i] = items[i]
      /\ items'[j] = w
  BY <1>1, <1>2, <1>3
<1>5. /\ DOMAIN items' = (DOMAIN items) \union {j} /\ j \notin DOMAIN items
      /\ \A i \in DOMAIN items : items'[i] = items[i]
  BY <1>1, <1>4
<1>6. w.cart = a /\ w.quantity = 1 /\ a # 0
  OBVIOUS
<1> HIDE DEF j, w
<1>7. Live' = Live \union {j}
  BY <1>4, <1>5, <1>6 DEF Live
<1>8. ASSUME NEW n, n # a  PROVE RowsIn(n)' = RowsIn(n)
  <2>1. {i \in DOMAIN items' : items'[i].cart = n} = {i \in DOMAIN items : items[i].cart = n}
    BY <1>4, <1>5, <1>6, <1>8
  <2> QED BY <1>5, <2>1 DEF RowsIn
<1>9. UnitsThere' = UnitsThere \union {<<j, 1>>}
  <2>1. 1 \in 1..MaxCarts
    BY GuestConstants
  <2>2. \A u \in 1..MaxCarts : u <= 1 <=> u = 1
    BY GuestConstants
  <2>3. ASSUME NEW x \in UnitsThere'  PROVE x \in UnitsThere \union {<<j, 1>>}
    <3>1. PICK i \in DOMAIN items', u \in 1..MaxCarts : x = <<i, u>>
      BY <2>3 DEF UnitsThere
    <3>2. items'[i].cart # 0 /\ u <= items'[i].quantity
      BY <2>3, <3>1 DEF UnitsThere
    <3>3. CASE i \in DOMAIN items
      BY <1>5, <3>1, <3>2, <3>3 DEF UnitsThere
    <3>4. CASE i = j
      BY <1>4, <1>6, <2>2, <3>1, <3>2, <3>4
    <3> QED BY <1>5, <3>3, <3>4
  <2>4. UnitsThere \subseteq UnitsThere'
    BY <1>5 DEF UnitsThere
  <2>5. <<j, 1>> \in UnitsThere'
    BY <1>4, <1>5, <1>6, <2>1 DEF UnitsThere
  <2> QED BY <2>3, <2>4, <2>5
<1>10. <<j, 1>> \notin UnitsThere
  BY <1>5 DEF UnitsThere
<1>11. Cardinality(UnitsThere') = Cardinality(UnitsThere) + 1
  BY <1>1, <1>9, <1>10, FS_AddElement
<1> QED BY <1>4, <1>5, <1>7, <1>8, <1>11 DEF j, w

(* Where nothing is left to merge, a row more of the customer's is nothing   *)
(* to a merge under way.                                                     *)
LEMMA AppliedMore ==
  ASSUME GuestTypes, NEW k, Applied(k), NEW a, NEW j,
         k.his.cart # a, k.mine.rows \subseteq Guest!Row, j \notin DOMAIN items,
         \A r \in k.mine.rows : r.id \in DOMAIN items,
         \A h \in k.his.rows : h.id \in DOMAIN items,
         DOMAIN items' = (DOMAIN items) \union {j},
         \A i \in DOMAIN items : items'[i] = items[i], items'[j].cart = a
  PROVE  Applied(k)'
<1>1. ASSUME NEW i \in DOMAIN items  PROVE Guest!Merged(k.mine, k.his, i)' = items'[i]
  <2>1. items'[i] = items[i]
    OBVIOUS
  <2>2. Guest!Merged(k.mine, k.his, i) = items[i]
    BY DEF Applied
  <2> QED BY <2>1, <2>2 DEF Guest!Merged, Guest!Quantity
<1>2. Guest!Merged(k.mine, k.his, j)' = items'[j]
  <2>1. ASSUME NEW g \in k.his.rows, Guest!Has(k.mine, g.variant),
               Guest!Target(k.mine, g.variant) = j
        PROVE  FALSE
    <3>1. PICK r \in k.mine.rows : r.id = Guest!Target(k.mine, g.variant)
      BY <2>1, TargetOf
    <3> QED BY <2>1, <3>1
  <2>2. {g \in k.his.rows : /\ Guest!Has(k.mine, g.variant)
                            /\ Guest!Target(k.mine, g.variant) = j} = {}
    BY <2>1
  <2>3. items'[j].cart # k.his.cart /\ ~(\E g \in k.his.rows : g.id = j)
    OBVIOUS
  <2> QED BY <2>2, <2>3 DEF Guest!Merged
<1> QED BY <1>1, <1>2 DEF Applied

LEMMA AddItemThere ==
  ASSUME GuestInv, NEW v \in Guest!Variants, adding.pc = "found",
         owner[adding.cart] # "deleted", Len(items) < MaxItems,
         items' = Append(items, [cart |-> adding.cart, variant |-> v, quantity |-> 1]),
         cookie' = adding.cart, added' = added + 1, excused' = (excused \/ Guest!Lost),
         adding' = Guest!NoAdd, UNCHANGED <<owner, sid, app, tabs, acts, faults>>
  PROVE  GuestInv'
<1> DEFINE a == adding.cart
           j == Len(items) + 1
<1>1. GuestTypes /\ RefsInv /\ AmountsInv /\ NoUserInv /\ UserInv /\ KeptInv
  BY DEF GuestInv
<1>2. adding' = [pc |-> "idle", cart |-> 0, user |-> FALSE]
  BY DEF Guest!NoAdd
<1>3. a \in Created /\ a \in Guest!Ids /\ a \in 1..MaxCarts /\ a # 0
      /\ owner[a] \in {"guest", "user"}
  BY <1>1, GuestConstants DEF RefsInv, Created, GuestTypes
<1>4. /\ DOMAIN items' = (DOMAIN items) \union {j} /\ j \notin DOMAIN items
      /\ \A i \in DOMAIN items : items'[i] = items[i]
      /\ items'[j] = [cart |-> a, variant |-> v, quantity |-> 1]
      /\ items' \in Seq(Item) /\ Len(items') = Len(items) + 1
      /\ Live' = Live \union {j}
      /\ \A n : n # a => RowsIn(n)' = RowsIn(n)
      /\ Cardinality(UnitsThere') = Cardinality(UnitsThere) + 1
  BY <1>1, <1>3, RowMore
<1>5. /\ Created' = Created /\ Deleted' = Deleted
      /\ Guest!OfUser' = Guest!OfUser /\ Guest!Tabs' = Guest!Tabs
  BY DEF Created, Deleted, Guest!OfUser
<1>6. items'[j].cart = a /\ items'[j].quantity = 1
  BY <1>4
<1>0. adding'.pc = "idle" /\ adding'.cart = 0 /\ owner' = owner /\ tabs' = tabs
  BY <1>2
<1>7. GuestTypes'
  <2>1. added' = Len(items') /\ Len(items') <= MaxItems
    BY <1>1, <1>4, FiniteUnits, GuestConstants DEF GuestTypes
  <2>2. excused' \in BOOLEAN
    BY <1>1 DEF GuestTypes, Guest!Lost, Guest!Misses
  <2>3. adding' \in [pc : {"idle", "sent", "found"}, cart : 0..MaxCarts, user : BOOLEAN]
    BY <1>2, GuestConstants
  <2>4. cookie' \in 0..MaxCarts
    BY <1>3
  <2> QED BY <1>1, <1>4, <2>1, <2>2, <2>3, <2>4 DEF GuestTypes
<1> HIDE DEF a, j
<1>8. RefsInv'
  <2>1. \A t \in Guest!Tabs : CallRefs(tabs[t].call)'
    BY <1>1, <1>4, <1>5 DEF RefsInv, CallRefs
  <2>2. \A i \in Live' : owner[items'[i].cart] \in {"guest", "user"}
    BY <1>1, <1>3, <1>4, <1>6 DEF RefsInv, Live
  <2>3. cookie' \in Created \union {0}
    BY <1>3 DEF a
  <2>4. \A m, n \in Guest!OfUser : m = n
    BY <1>1 DEF RefsInv
  <2> QED BY ONLY <1>0, <1>5, <2>1, <2>2, <2>3, <2>4 DEF RefsInv
<1>9. AmountsInv'
  <2>1. \A t \in Guest!Tabs : CallAmounts(tabs[t].call)'
    BY <1>1, <1>5 DEF AmountsInv, CallAmounts
  <2>2. 1 <= 1 + Cardinality(Deleted)
    BY <1>1, FiniteUnits
  <2>3. \A i \in DOMAIN items' : items'[i].quantity <= 1 + Cardinality(Deleted)
    BY <1>1, <1>4, <1>6, <2>2 DEF AmountsInv
  <2>4. \A i \in Live' : owner[items'[i].cart] = "guest" => items'[i].quantity = 1
    BY <1>1, <1>4, <1>6 DEF AmountsInv, Live
  <2> QED BY <1>5, <2>1, <2>3, <2>4 DEF AmountsInv
<1>10. NoUserInv'
  <2> SUFFICES ASSUME Guest!OfUser = {}
               PROVE  /\ cookie' # 0 /\ Deleted = {} /\ \A m, n \in Created : m = n
                      /\ \A t \in Guest!Tabs : tabs[t].call.pc \in {"guest", "merge"} =>
                           tabs[t].call.mine.cart = 0
                      /\ \A i \in Live' : items'[i].cart = cookie'
    BY <1>0, <1>5 DEF NoUserInv
  <2>1. /\ Deleted = {} /\ \A m, n \in Created : m = n
        /\ \A t \in Guest!Tabs : tabs[t].call.pc \in {"guest", "merge"} =>
             tabs[t].call.mine.cart = 0
        /\ \A i \in Live : items[i].cart = cookie
    BY <1>1 DEF NoUserInv
  <2>2. cookie' = a /\ cookie' # 0
    BY <1>3 DEF a
  <2>3. \A i \in Live : items[i].cart = a
    BY <1>1, <1>3, <2>1 DEF RefsInv, Live
  <2>4. \A i \in Live' : items'[i].cart = cookie'
    BY <1>4, <1>6, <2>2, <2>3 DEF Live
  <2> QED BY <2>1, <2>2, <2>4
<1>11. UserInv'
  BY <1>1, <1>2, <1>5 DEF UserInv, CallOfUser
<1>12. ASSUME ~excused', NEW c \in Guest!OfUser  PROVE Kept(c)'
  <2>1. ~excused /\ ~Guest!Lost /\ Kept(c)
    BY <1>1, <1>12 DEF KeptInv
  <2>2. cookie' = a /\ adding'.pc = "idle"
    BY <1>2 DEF a
  <2>3. Loose(c)' = Loose(c) \union (IF a = c THEN {} ELSE {j})
    BY <1>4, <1>6 DEF Loose, Live
  <2>4. a # cookie => Loose(c) = {}
    BY <2>1 DEF Kept, a
  <2>5. \A i \in Loose(c) : i \in DOMAIN items /\ items'[i].cart = a
    BY <1>4, <2>1, <2>4 DEF Kept, Loose, Live
  <2>6. \A i \in Loose(c)' : items'[i].cart = cookie'
    BY <1>6, <2>2, <2>3, <2>5
  <2>7. CASE adding.user
    <3>1. a = c /\ Loose(c) = {}
      BY <1>1, <2>1, <2>7 DEF UserInv, Kept, a
    <3>2. Loose(c)' = {} /\ Parked(c)'
      BY <2>2, <2>3, <3>1 DEF Parked
    <3>3. ASSUME NEW t \in Guest!Tabs, tabs[t].call.pc = "merge", tabs[t].call.mine.cart = c
          PROVE  Applied(tabs[t].call)'
      <4> DEFINE k == tabs[t].call
      <4>1. /\ k.mine.cart = c /\ k.his.cart = k.cart /\ k.cart # c /\ k.cart # 0
            /\ k.mine.rows \subseteq Guest!Row
            /\ \A r \in k.mine.rows : r.id \in DOMAIN items
            /\ \A h \in k.his.rows : h.id \in DOMAIN items
        <5>1. k \in Exchanges
          BY <3>3, CallsHold
        <5>2. CallRefs(k)
          BY <1>1, <3>3 DEF RefsInv
        <5>3. CallOfUser(k, c)
          BY <1>1, <3>3, <1>12 DEF UserInv
        <5>4. c # 0
          BY <1>12, GuestConstants DEF Guest!OfUser
        <5> QED BY <3>3, <5>1, <5>2, <5>3, <5>4
                DEF Exchanges, Guest!Read, CallRefs, CallOfUser
      <4>2. Applied(k)
        <5>1. Pending(k, c) \/ Applied(k)
          BY <2>1, <3>3 DEF Kept, CallKept
        <5>2. CASE Pending(k, c)
          <6>1. \A i \in Live : items[i].cart # k.cart
            BY <3>1, <4>1 DEF Loose
          <6>2. k.his.rows = {}
            BY <4>1, <5>2, <6>1 DEF Pending, RowsIn, Live
          <6> QED BY <1>1, <4>1, <6>1, <6>2, NothingToMerge
        <5> QED BY <5>1, <5>2
      <4> HIDE DEF k
      <4>3. Applied(k)'
        <5>1. \A l : /\ Applied(l) /\ l.his.cart # a /\ l.mine.rows \subseteq Guest!Row
                     /\ \A r \in l.mine.rows : r.id \in DOMAIN items
                     /\ \A h \in l.his.rows : h.id \in DOMAIN items
                     => Applied(l)'
          BY <1>1, <1>4, <1>6, AppliedMore
        <5>2. k' = k
          BY DEF k
        <5> QED BY <3>1, <4>1, <4>2, <5>1, <5>2
      <4> QED BY <4>3 DEF k
    <3>4. \A t \in Guest!Tabs : CallKept(tabs[t].call, c)'
      BY <2>1, <3>2, <3>3 DEF CallKept
    <3> QED BY <1>5, <2>2, <3>2, <3>4 DEF Kept
  <2>8. CASE ~adding.user
    <3>1. /\ ~sid
          /\ \A t \in Guest!Tabs :
               /\ tabs[t].call.pc \notin {"merge", "answer", "login"}
               /\ tabs[t].call.pc \in {"user", "guest"} => tabs[t].call.cart = a
      BY <2>1, <2>8 DEF Guest!Lost, Guest!Misses, Guest!Call, a
    <3>2. ASSUME NEW t \in Guest!Tabs  PROVE CallKept(tabs[t].call, c)'
      <4> DEFINE k == tabs[t].call
      <4>1. k.pc \in {"user", "guest", "merge"} => \A i \in Loose(c)' : items'[i].cart = k.cart
        BY <2>2, <2>6, <3>1
      <4>2. k.pc = "guest" /\ k.mine.cart = c /\ owner[k.cart] = "guest" =>
              k.mine.rows = RowsIn(c)'
        <5> SUFFICES ASSUME k.pc = "guest", k.mine.cart = c, owner[k.cart] = "guest"
                     PROVE  k.mine.rows = RowsIn(c)'
          OBVIOUS
        <5>1. a # c
          BY <1>12, <3>1 DEF Guest!OfUser
        <5>2. RowsIn(c)' = RowsIn(c)
          BY <1>4, <5>1
        <5>3. ~Parked(c)
          BY <5>1 DEF Parked, a
        <5>4. CallKept(k, c)
          BY <2>1 DEF Kept
        <5> HIDE DEF k
        <5> QED BY <5>2, <5>3, <5>4 DEF CallKept
      <4>3. k.pc \notin {"merge", "answer", "login"}
        BY <3>1
      <4> QED BY <4>1, <4>2, <4>3 DEF CallKept
    <3> QED BY <1>5, <2>2, <2>6, <3>1, <3>2 DEF Kept
  <2> QED BY <2>7, <2>8, <1>1 DEF GuestTypes
<1>13. KeptInv'
  BY <1>1, <1>4, <1>5, <1>12 DEF KeptInv
<1> QED BY <1>7, <1>8, <1>9, <1>10, <1>11, <1>13 DEF GuestInv

LEMMA AddItemStep ==
  ASSUME GuestInv, NEW v \in Guest!Variants, Guest!add_item(v)
  PROVE  GuestInv'
<1>1. CASE owner[adding.cart] = "deleted" /\ UNCHANGED <<items, cookie, added, excused>>
  BY <1>1, AddItemGone DEF Guest!add_item
<1>2. CASE owner[adding.cart] # "deleted" /\ Len(items) < MaxItems
  BY <1>2, AddItemThere DEF Guest!add_item
<1> QED BY <1>1, <1>2 DEF Guest!add_item

-----------------------------------------------------------------------------
(* The merge.                                                              *)
Sent(mine, his, i) ==
  {g \in his.rows : Guest!Has(mine, g.variant) /\ Guest!Target(mine, g.variant) = i}
Moving(mine, his, i) ==
  /\ items[i].cart # 0 /\ \E g \in his.rows : g.id = i
  /\ ~Guest!Has(mine, items[i].variant)
Mergeable(mine, his) ==
  /\ mine.rows \subseteq Guest!Row /\ his.rows \subseteq Guest!Row
  /\ mine.cart \in 1..MaxCarts /\ his.cart \in 1..MaxCarts /\ mine.cart # his.cart
  /\ \A r \in mine.rows : r.id \in DOMAIN items /\ items[r.id].cart = mine.cart
  /\ \A h \in his.rows : h.quantity = 1

(* What a merge makes of a row, for each of the four things it may be. *)
LEMMA MergedOf ==
  ASSUME GuestTypes, NEW mine, NEW his, Mergeable(mine, his), NEW i \in DOMAIN items
  PROVE  /\ Sent(mine, his, i) # {} =>
              /\ items[i].cart = mine.cart
              /\ \E r \in mine.rows : r.id = i
              /\ \E r \in mine.rows :
                   /\ r.id = i
                   /\ Guest!Merged(mine, his, i)
                        = [items[i] EXCEPT !.quantity = r.quantity + 1]
         /\ Sent(mine, his, i) = {} /\ Moving(mine, his, i) =>
              Guest!Merged(mine, his, i) = [items[i] EXCEPT !.cart = mine.cart]
         /\ /\ Sent(mine, his, i) = {} /\ ~Moving(mine, his, i)
            /\ items[i].cart = his.cart
            => Guest!Merged(mine, his, i) = [items[i] EXCEPT !.cart = 0]
         /\ /\ Sent(mine, his, i) = {} /\ ~Moving(mine, his, i)
            /\ items[i].cart # his.cart
            => Guest!Merged(mine, his, i) = items[i]
<1> DEFINE S == Sent(mine, his, i)
<1>1. Guest!Merged(mine, his, i) =
        CASE S # {} -> [items[i] EXCEPT !.quantity = Guest!Quantity(mine, S, i)]
          [] S = {} /\ Moving(mine, his, i) -> [items[i] EXCEPT !.cart = mine.cart]
          [] S = {} /\ ~Moving(mine, his, i) /\ items[i].cart = his.cart ->
               [items[i] EXCEPT !.cart = 0]
          [] OTHER -> items[i]
  BY DEF Guest!Merged, Sent, Moving
<1>2. ASSUME S # {}
      PROVE  /\ items[i].cart = mine.cart
             /\ \E r \in mine.rows : r.id = i /\ Guest!Quantity(mine, S, i) = r.quantity + 1
  <2>1. PICK g \in S : TRUE
    BY <1>2
  <2>2. \E r \in mine.rows : r.id = i
    <3>1. g \in his.rows /\ Guest!Has(mine, g.variant) /\ Guest!Target(mine, g.variant) = i
      BY <2>1 DEF Sent
    <3>2. \E r \in mine.rows : r.variant = g.variant /\ r.id = Guest!Target(mine, g.variant)
      BY <3>1, TargetOf DEF Mergeable
    <3> QED BY <3>1, <3>2
  <2> DEFINE r == CHOOSE r \in mine.rows : r.id = i
             b == CHOOSE b \in S : \A h \in S : h.id <= b.id
  <2>3. r \in mine.rows /\ r.id = i
    BY <2>2
  <2>4. \E x \in S : \A h \in S : h.id <= x.id
    <3> DEFINE D == {h.id : h \in S}
    <3>1. \A h \in S : h.id \in 1..MaxItems
      BY DEF Sent, Mergeable, Guest!Row
    <3>2. D \subseteq 0..MaxItems /\ D # {} /\ MaxItems \in Nat
      BY <2>1, <3>1, GuestConstants
    <3>3. PICK x \in D : \A y \in D : x >= y
      BY <3>2, LargestOf
    <3>4. PICK z \in S : x = z.id
      BY <3>3
    <3>5. ASSUME NEW h \in S  PROVE h.id <= z.id
      BY <3>1, <3>3, <3>4, <3>5
    <3> QED BY <3>5
  <2>5. b \in S
    BY <2>4
  <2>6. b.quantity = 1
    BY <2>5 DEF Sent, Mergeable
  <2>7. Guest!Quantity(mine, S, i) = r.quantity + b.quantity
    BY DEF Guest!Quantity
  <2> HIDE DEF r, b
  <2> QED BY <2>3, <2>6, <2>7 DEF Mergeable
<1> HIDE DEF S
<1>3. S # {} =>
        /\ items[i].cart = mine.cart
        /\ \E r \in mine.rows : r.id = i
        /\ \E r \in mine.rows :
             /\ r.id = i
             /\ Guest!Merged(mine, his, i) = [items[i] EXCEPT !.quantity = r.quantity + 1]
  <2> SUFFICES ASSUME S # {}
               PROVE  /\ items[i].cart = mine.cart
                      /\ \E r \in mine.rows :
                           /\ r.id = i
                           /\ Guest!Merged(mine, his, i)
                                = [items[i] EXCEPT !.quantity = r.quantity + 1]
    OBVIOUS
  <2>1. Guest!Merged(mine, his, i) = [items[i] EXCEPT !.quantity = Guest!Quantity(mine, S, i)]
    BY <1>1
  <2> QED BY <1>2, <2>1
<1>4. S = {} /\ Moving(mine, his, i) =>
        Guest!Merged(mine, his, i) = [items[i] EXCEPT !.cart = mine.cart]
  BY <1>1
<1>5. S = {} /\ ~Moving(mine, his, i) =>
        Guest!Merged(mine, his, i) = IF items[i].cart = his.cart
                                       THEN [items[i] EXCEPT !.cart = 0] ELSE items[i]
  BY <1>1
<1> QED BY <1>3, <1>4, <1>5 DEF S

(* The guest's cart becomes the customer's, who had none. *)
LEMMA MergeClaims ==
  ASSUME GuestInv, NEW t \in Guest!Tabs, Guest!Merge(t), tabs[t].call.mine.cart = 0
  PROVE  GuestInv'
<1> DEFINE k == tabs[t].call
           x == [tabs[t] EXCEPT !.call = [k EXCEPT !.pc = "answer"]]
<1>0. PICK g : g = k.cart
  OBVIOUS
<1>1. GuestTypes /\ RefsInv /\ AmountsInv /\ NoUserInv /\ UserInv /\ KeptInv
  BY DEF GuestInv
<1>2. k.pc = "merge" /\ k \in Exchanges /\ CallInv(k) /\ (~excused => Keeps(k))
  BY CallsHold DEF Guest!Merge, Guest!Call
<1>3. k.his.cart = g /\ g # 0 /\ g \in Created /\ g \in Guest!Ids
  BY <1>0, <1>2 DEF CallInv, CallRefs, Created
<1>4. /\ owner' = [owner EXCEPT ![g] = "user"] /\ tabs' = [tabs EXCEPT ![t] = x]
      /\ UNCHANGED <<items, cookie, sid, app, adding, added, excused, acts, faults>>
  BY <1>1, <1>3 DEF Guest!Merge, Guest!Call, Guest!cookies, GuestTypes
<1>5. x \in Tab
  BY <1>1, TabTypes
<1>6. x.call.pc = "answer" /\ x.call.cart = g /\ x.call.mine = k.mine /\ x.call.his = k.his
  BY <1>0, <1>1, <1>2 DEF Exchanges, GuestTypes
<1> HIDE DEF x
<1>7. CASE Guest!OfUser # {}
  <2>1. PICK c \in Guest!OfUser : TRUE
    BY <1>7
  <2>2. g = c
    BY <1>0, <1>2 DEF CallInv, CallOfUser
  <2>3. owner' = owner
    BY <1>1, <1>4, <2>2 DEF Guest!OfUser, GuestTypes
  <2>4. ~excused' => Settled
    <3> SUFFICES ASSUME ~excused, NEW d \in Guest!OfUser  PROVE Loose(d) = {}
      BY <1>4 DEF Settled
    <3>1. d = g
      BY <1>1, <2>2 DEF RefsInv
    <3>2. \A i \in Loose(d) : items[i].cart = g
      BY <1>0, <1>2 DEF Keeps, CallKept
    <3> QED BY <3>1, <3>2 DEF Loose
  <2>5. Moves(k, x.call)
    BY <1>0, <1>6, <2>4 DEF Moves
  <2>6. CallInv(x.call) /\ (~excused' => Keeps(x.call))
    BY <1>4, <2>5, MoveStep
  <2>7. /\ {sid', app', excused'} \subseteq BOOLEAN /\ acts' \in 0..GuestActs
        /\ faults' \in 0..GuestFaults
    BY <1>1, <1>4 DEF GuestTypes
  <2> HIDE DEF k
  <2> QED BY <1>4, <1>5, <2>3, <2>6, <2>7, OneTab
<1>8. CASE Guest!OfUser = {}
  <2>1. /\ Deleted = {} /\ \A m, n \in Created : m = n
        /\ \A i \in Live : items[i].cart = cookie
        /\ \A s \in Guest!Tabs : tabs[s].call.pc \in {"guest", "merge"} =>
             tabs[s].call.mine.cart = 0
    BY <1>1, <1>8 DEF NoUserInv
  <2>2. Created = {g}
    BY <1>3, <2>1
  <2>3. owner' \in [Guest!Ids -> {"none", "guest", "user", "deleted"}]
    BY <1>1, <1>4 DEF GuestTypes
  <2>4. owner'[g] = "user" /\ \A n \in Guest!Ids : n # g => owner'[n] = owner[n]
    BY <1>1, <1>3, <1>4 DEF GuestTypes
  <2> HIDE DEF k
  <2>5. /\ Created' = Created /\ Deleted' = Deleted /\ Guest!OfUser' = {g}
        /\ Guest!Tabs' = Guest!Tabs /\ Live' = Live /\ UnitsThere' = UnitsThere
    <3>1. Guest!Ids' = Guest!Ids
      OBVIOUS
    <3>2. Created' = Created /\ Deleted' = Deleted
      BY <1>3, <2>1, <2>4, <3>1 DEF Created, Deleted
    <3>3. Guest!OfUser' = {g}
      BY <1>3, <1>8, <2>4, <3>1 DEF Guest!OfUser
    <3> QED BY <1>4, <3>2, <3>3 DEF Live, UnitsThere
  <2>6. GuestTypes'
    <3>1. tabs' \in [Guest!Tabs -> Tab]
      BY <1>1, <1>4, <1>5 DEF GuestTypes, Tab
    <3> QED BY <1>1, <1>4, <2>3, <3>1 DEF GuestTypes, Tab
  <2>7. /\ tabs'[t].call = x.call /\ \A s \in Guest!Tabs : s # t => tabs'[s] = tabs[s]
    BY <1>1, <1>4 DEF GuestTypes
  <2>8. \A i \in Live : items[i].cart = g
    BY <1>1, <2>1, <2>2 DEF RefsInv, Live
  <2>9. RefsInv'
    <3>1. ASSUME NEW s \in Guest!Tabs  PROVE CallRefs(tabs'[s].call)
      <4>1. CASE s = t
        BY <1>3, <1>6, <2>7, <4>1 DEF CallRefs
      <4>2. CASE s # t
        BY <1>1, <2>7, <4>2 DEF RefsInv
      <4> QED BY <4>1, <4>2
    <3>2. \A s \in Guest!Tabs : CallRefs(tabs[s].call)'
      BY <1>4, <2>5, <3>1 DEF CallRefs
    <3>3. \A i \in Live' : owner'[items'[i].cart] \in {"guest", "user"}
      BY <1>4, <2>4, <2>5, <2>8
    <3> QED BY <1>1, <1>4, <2>5, <3>2, <3>3 DEF RefsInv
  <2>10. AmountsInv'
    <3>1. ASSUME NEW s \in Guest!Tabs  PROVE CallAmounts(tabs[s].call)'
      <4>1. CASE s = t
        BY <1>6, <2>7, <4>1 DEF CallAmounts
      <4>2. CASE s # t
        <5>1. CallRefs(tabs[s].call) /\ CallAmounts(tabs[s].call)
          BY <1>1 DEF RefsInv, AmountsInv
        <5>2. tabs[s].call.pc = "guest" => owner'[tabs[s].call.cart] = "user"
          BY <2>2, <2>4, <5>1 DEF CallRefs
        <5> QED BY <2>5, <2>7, <4>2, <5>1, <5>2 DEF CallAmounts
      <4> QED BY <4>1, <4>2
    <3>2. \A i \in Live' : owner'[items'[i].cart] # "guest"
      BY <1>4, <2>4, <2>5, <2>8
    <3> QED BY <1>1, <1>4, <2>5, <3>1, <3>2 DEF AmountsInv
  <2>11. NoUserInv'
    BY <2>5 DEF NoUserInv
  <2>12. ASSUME NEW s \in Guest!Tabs, tabs'[s].call.pc \in {"guest", "merge"}
         PROVE  tabs'[s].call.mine.cart = 0 /\ tabs'[s].call.cart = g
    <3>1. s # t /\ tabs'[s] = tabs[s]
      BY <1>6, <2>7, <2>12
    <3>2. tabs[s].call.mine.cart = 0 /\ CallRefs(tabs[s].call)
      BY <1>1, <2>1, <2>12, <3>1 DEF RefsInv
    <3> QED BY <2>2, <2>12, <3>1, <3>2 DEF CallRefs
  <2>13. UserInv'
    <3>1. adding.pc = "found" => adding.cart = g
      BY <1>1, <2>2 DEF RefsInv
    <3>2. \A s \in Guest!Tabs : CallOfUser(tabs[s].call, g)'
      BY <1>3, <2>12 DEF CallOfUser
    <3> QED BY <1>4, <2>5, <3>1, <3>2 DEF UserInv, CallOfUser
  <2>14. KeptInv'
    <3>1. ASSUME NEW c \in Guest!OfUser'  PROVE Kept(c)'
      <4>1. c = g
        BY <2>5
      <4>2. Loose(c)' = {}
        BY <1>4, <2>5, <2>8, <4>1 DEF Loose
      <4>3. \A s \in Guest!Tabs : CallKept(tabs[s].call, c)'
        BY <1>3, <2>12, <4>1, <4>2 DEF CallKept
      <4> QED BY <2>5, <4>2, <4>3 DEF Kept
    <3> QED BY <1>1, <1>4, <2>5, <3>1 DEF KeptInv
  <2> QED BY <2>6, <2>9, <2>10, <2>11, <2>13, <2>14 DEF GuestInv
<1> QED BY <1>7, <1>8

LEMMA SameSize ==
  ASSUME NEW S, NEW T, IsFiniteSet(S), NEW F \in [S -> T],
         \A x, y \in S : F[x] = F[y] => x = y, \A z \in T : \E x \in S : F[x] = z
  PROVE  Cardinality(T) = Cardinality(S)
<1>1. F \in Bijection(S, T)
  BY DEF Bijection, Injection, Surjection, IsInjective
<1>2. ExistsBijection(S, T)
  BY <1>1 DEF ExistsBijection
<1> QED BY <1>2, FS_Bijection

LEMMA RowsOf ==
  ASSUME NEW n
  PROVE  /\ \A r \in RowsIn(n) : /\ r.id \in DOMAIN items /\ items[r.id].cart = n
                                 /\ r.variant = items[r.id].variant
                                 /\ r.quantity = items[r.id].quantity
         /\ \A r, s \in RowsIn(n) : r.id = s.id => r = s
         /\ \A i \in DOMAIN items : items[i].cart = n =>
              \E r \in RowsIn(n) : r.id = i
<1> DEFINE Is(r, i) == /\ items[i].cart = n
                       /\ r = [id |-> i, variant |-> items[i].variant,
                               quantity |-> items[i].quantity]
<1>1. \A r : r \in RowsIn(n) <=> \E i \in DOMAIN items : Is(r, i)
  BY DEF RowsIn
<1>2. \A r : \A i \in DOMAIN items : Is(r, i) =>
        r.id = i /\ r.variant = items[i].variant /\ r.quantity = items[i].quantity
  OBVIOUS
<1>3. ASSUME NEW r \in RowsIn(n), NEW s \in RowsIn(n), r.id = s.id  PROVE r = s
  <2>1. PICK i \in DOMAIN items : Is(r, i)
    BY <1>1
  <2>2. PICK j \in DOMAIN items : Is(s, j)
    BY <1>1
  <2> QED BY <1>2, <1>3, <2>1, <2>2
<1>4. ASSUME NEW i \in DOMAIN items, items[i].cart = n
      PROVE  \E r \in RowsIn(n) : r.id = i
  <2>1. PICK r : Is(r, i)
    BY <1>4
  <2> QED BY <1>1, <1>2, <2>1
<1> QED BY <1>1, <1>2, <1>3, <1>4

(* The rows after a merge. *)
LEMMA MergedRows ==
  ASSUME GuestTypes, NEW mine, NEW his, Mergeable(mine, his),
         items' = [i \in DOMAIN items |-> Guest!Merged(mine, his, i)]
  PROVE  /\ DOMAIN items' = DOMAIN items
         /\ \A i \in DOMAIN items :
              /\ items'[i] = [cart |-> items'[i].cart, variant |-> items[i].variant,
                              quantity |-> items'[i].quantity]
              /\ items'[i].cart \in {items[i].cart, mine.cart, 0}
              /\ items'[i].cart # his.cart
              /\ items[i].cart = mine.cart => items'[i].cart = mine.cart
              /\ items[i].cart = 0 => items'[i] = items[i]
              /\ \/ items'[i].quantity = items[i].quantity
                 \/ /\ items[i].cart = mine.cart
                    /\ \E r \in mine.rows : r.id = i /\ items'[i].quantity = r.quantity + 1
              /\ Sent(mine, his, i) = {} => items'[i].quantity = items[i].quantity
<1>1. DOMAIN items' = DOMAIN items
  OBVIOUS
<1>2. mine.cart # his.cart /\ mine.cart # 0 /\ his.cart # 0
  BY DEF Mergeable
<1>3. ASSUME NEW i \in DOMAIN items
      PROVE  /\ items'[i] = [cart |-> items'[i].cart, variant |-> items[i].variant,
                             quantity |-> items'[i].quantity]
             /\ items'[i].cart \in {items[i].cart, mine.cart, 0}
             /\ items'[i].cart # his.cart
             /\ items[i].cart = mine.cart => items'[i].cart = mine.cart
             /\ items[i].cart = 0 => items'[i] = items[i]
             /\ \/ items'[i].quantity = items[i].quantity
                \/ /\ items[i].cart = mine.cart
                   /\ \E r \in mine.rows : r.id = i /\ items'[i].quantity = r.quantity + 1
             /\ Sent(mine, his, i) = {} => items'[i].quantity = items[i].quantity
  <2> DEFINE w == items'[i]
             b == items[i]
  <2>1. w = Guest!Merged(mine, his, i)
    BY <1>3
  <2>2. b \in Item
    BY <1>3, FiniteUnits
  <2>3. b = [cart |-> b.cart, variant |-> b.variant, quantity |-> b.quantity]
    BY ONLY <2>2 DEF Item
  <2>4. CASE Sent(mine, his, i) # {}
    <3>1. b.cart = mine.cart /\ \E r \in mine.rows : /\ r.id = i
                                  /\ w = [b EXCEPT !.quantity = r.quantity + 1]
      BY <1>3, <2>1, <2>4, MergedOf
    <3> HIDE DEF w, b
    <3>2. \E r \in mine.rows :
            /\ r.id = i
            /\ w = [cart |-> b.cart, variant |-> b.variant, quantity |-> r.quantity + 1]
      BY <2>3, <3>1
    <3> QED BY <1>2, <2>4, <3>1, <3>2 DEF w, b
  <2>5. CASE Sent(mine, his, i) = {} /\ Moving(mine, his, i)
    <3>1. w = [b EXCEPT !.cart = mine.cart] /\ b.cart # 0
      BY <1>3, <2>1, <2>5, MergedOf DEF Moving
    <3> HIDE DEF w, b
    <3>2. w = [cart |-> mine.cart, variant |-> b.variant, quantity |-> b.quantity]
      BY <2>3, <3>1
    <3> QED BY <1>2, <3>1, <3>2 DEF w, b
  <2>6. CASE Sent(mine, his, i) = {} /\ ~Moving(mine, his, i) /\ b.cart = his.cart
    <3>1. w = [b EXCEPT !.cart = 0]
      BY <1>3, <2>1, <2>6, MergedOf
    <3> HIDE DEF w, b
    <3>2. w = [cart |-> 0, variant |-> b.variant, quantity |-> b.quantity]
      BY <2>3, <3>1
    <3> QED BY <1>2, <2>6, <3>2 DEF w, b
  <2>7. CASE Sent(mine, his, i) = {} /\ ~Moving(mine, his, i) /\ b.cart # his.cart
    <3>1. w = b
      BY <1>3, <2>1, <2>7, MergedOf
    <3> HIDE DEF w, b
    <3> QED BY <1>2, <2>3, <2>7, <3>1 DEF w, b
  <2> QED BY <2>4, <2>5, <2>6, <2>7
<1> QED BY <1>1, <1>3

(* A merge that knows the rows of both carts takes every unit to the         *)
(* customer's, and each once.                                                *)
LEMMA MergedUnits ==
  ASSUME GuestTypes, NEW mine, NEW his, Mergeable(mine, his),
         mine.rows = RowsIn(mine.cart), his.rows = RowsIn(his.cart),
         \A i \in Live : items[i].cart \in {mine.cart, his.cart},
         ~Guest!Twice(mine, his),
         items' = [i \in DOMAIN items |-> Guest!Merged(mine, his, i)],
         \A i \in DOMAIN items' : items'[i].quantity <= MaxCarts
  PROVE  /\ Cardinality(UnitsThere') = Cardinality(UnitsThere)
         /\ \A i \in Live' : items'[i].cart = mine.cart
<1> DEFINE c == mine.cart
           g == his.cart
           Absorbed(i) == items[i].cart = g /\ Guest!Has(mine, items[i].variant)
           T(i) == Guest!Target(mine, items[i].variant)
<1>1. /\ DOMAIN items = 1..Len(items) /\ Len(items) \in Nat /\ IsFiniteSet(UnitsThere)
      /\ \A i \in DOMAIN items : items[i] \in Item
  BY FiniteUnits
<1>2. c # g /\ c # 0 /\ g # 0
  BY DEF Mergeable
<1>3. /\ DOMAIN items' = DOMAIN items
      /\ \A i \in DOMAIN items :
           /\ items'[i].cart \in {items[i].cart, c, 0} /\ items'[i].cart # g
           /\ items[i].cart = c => items'[i].cart = c
           /\ items[i].cart = 0 => items'[i] = items[i]
           /\ Sent(mine, his, i) = {} => items'[i].quantity = items[i].quantity
  BY MergedRows
<1>4. ASSUME NEW i \in DOMAIN items, Absorbed(i)
      PROVE  /\ T(i) \in DOMAIN items /\ items[T(i)].cart = c
             /\ items[T(i)].variant = items[i].variant
             /\ Sent(mine, his, T(i)) # {}
  <2>1. \E r \in mine.rows : r.variant = items[i].variant /\ r.id = T(i)
    BY <1>4, TargetOf DEF Mergeable
  <2>2. \E h \in his.rows : h.id = i
    BY <1>4, RowsOf
  <2>3. \A h \in his.rows : h.id = i => h.variant = items[i].variant
    BY RowsOf
  <2> QED BY <1>4, <2>1, <2>2, <2>3, RowsOf DEF Sent
<1>5. ASSUME NEW j \in DOMAIN items, Sent(mine, his, j) # {}
      PROVE  /\ items'[j].quantity = items[j].quantity + 1 /\ items[j].cart = c
             /\ \E i \in DOMAIN items : Absorbed(i) /\ T(i) = j
  <2>1. /\ items[j].cart = c
        /\ \E r \in mine.rows : r.id = j /\ items'[j] = [items[j] EXCEPT !.quantity = r.quantity + 1]
    BY <1>5, MergedOf
  <2>2. items'[j].quantity = items[j].quantity + 1
    <3>1. \A r \in mine.rows : r.id = j => r.quantity = items[j].quantity
      BY RowsOf
    <3>2. items[j] \in Item
      BY <1>1
    <3>3. items'[j] = [items[j] EXCEPT !.quantity = items[j].quantity + 1]
      BY <2>1, <3>1
    <3> HIDE DEF c, g
    <3> QED BY ONLY <3>2, <3>3 DEF Item
  <2>3. PICK h \in his.rows : Guest!Has(mine, h.variant) /\ Guest!Target(mine, h.variant) = j
    BY <1>5 DEF Sent
  <2>4. h.id \in DOMAIN items /\ items[h.id].cart = g /\ h.variant = items[h.id].variant
    BY RowsOf
  <2> QED BY <2>1, <2>2, <2>3, <2>4
<1>6. ASSUME NEW i \in DOMAIN items, items[i].cart = g
      PROVE  /\ items[i].quantity = 1
             /\ Absorbed(i) => items'[i].cart = 0
             /\ ~Absorbed(i) => items'[i].cart = c /\ items'[i].quantity = 1
  <2>1. PICK h \in his.rows : h.id = i
    BY <1>6, RowsOf
  <2>2. items[i].quantity = 1
    <3>1. h.quantity = 1 /\ h.quantity = items[i].quantity
      BY <2>1, RowsOf DEF Mergeable
    <3> QED BY <3>1
  <2>3. Sent(mine, his, i) = {}
    BY <1>2, <1>5, <1>6
  <2>4. items[i] \in Item
    BY <1>1
  <2>5. CASE Absorbed(i)
    <3>1. ~Moving(mine, his, i)
      BY <2>5 DEF Moving
    <3>2. items'[i] = [items[i] EXCEPT !.cart = 0]
      BY <1>6, <2>3, <3>1, MergedOf
    <3>3. items'[i].cart = 0
      BY ONLY <2>4, <3>2 DEF Item
    <3> QED BY <2>2, <2>5, <3>3
  <2>6. CASE ~Absorbed(i)
    <3>1. Moving(mine, his, i)
      BY <1>2, <1>6, <2>1, <2>6 DEF Moving
    <3>2. items'[i] = [items[i] EXCEPT !.cart = mine.cart]
      BY <2>3, <3>1, MergedOf
    <3>3. items'[i].cart = mine.cart
      BY ONLY <2>4, <3>2 DEF Item
    <3> QED BY <1>3, <2>2, <2>3, <2>6, <3>3
  <2> QED BY <2>5, <2>6
<1>7. ASSUME NEW i \in DOMAIN items, NEW j \in DOMAIN items,
             Absorbed(i), Absorbed(j), T(i) = T(j)
      PROVE  i = j
  <2>1. items[i].variant = items[j].variant
    BY <1>4, <1>7
  <2>2. PICK h \in his.rows : h.id = i
    BY <1>7, RowsOf
  <2>3. PICK s \in his.rows : s.id = j
    BY <1>7, RowsOf
  <2>4. h.variant = items[i].variant /\ s.variant = items[j].variant
    BY <2>2, <2>3, RowsOf
  <2> QED BY <1>7, <2>1, <2>2, <2>3, <2>4 DEF Guest!Twice
<1>8. \A i \in Live' : items'[i].cart = c
  <2> SUFFICES ASSUME NEW i \in Live'  PROVE items'[i].cart = c
    OBVIOUS
  <2>1. i \in DOMAIN items /\ items'[i].cart # 0
    BY <1>3 DEF Live
  <2>2. items[i].cart # 0
    BY <1>3, <2>1
  <2> QED BY <1>3, <2>1, <2>2 DEF Live
<1> DEFINE F == [x \in UnitsThere |->
                   IF Absorbed(x[1]) THEN <<T(x[1]), items[T(x[1])].quantity + 1>> ELSE x]
<1>9. \A x : x \in UnitsThere <=> \E i \in DOMAIN items, u \in 1..MaxCarts :
               x = <<i, u>> /\ items[i].cart # 0 /\ u <= items[i].quantity
  BY DEF UnitsThere
<1>10. \A x : x \in UnitsThere' <=> \E i \in DOMAIN items, u \in 1..MaxCarts :
               x = <<i, u>> /\ items'[i].cart # 0 /\ u <= items'[i].quantity
  BY <1>3 DEF UnitsThere
<1>11. \A i \in DOMAIN items : /\ items[i].quantity \in 1..MaxCarts
                               /\ items[i].cart # 0 => items[i].cart \in {c, g}
  BY <1>1 DEF Item, Live
<1>12. \A i \in DOMAIN items : items'[i].quantity \in {items[i].quantity, items[i].quantity + 1}
  BY <1>3, <1>5
<1>13. MaxCarts \in Nat
  BY GuestConstants
<1> HIDE DEF c, g, Absorbed, T
<1>14. ASSUME NEW x \in UnitsThere
       PROVE  /\ F[x] \in UnitsThere'
              /\ Absorbed(x[1]) => F[x] = <<T(x[1]), items[T(x[1])].quantity + 1>>
              /\ ~Absorbed(x[1]) => F[x] = x
  <2>1. PICK i \in DOMAIN items, u \in 1..MaxCarts :
          x = <<i, u>> /\ items[i].cart # 0 /\ u <= items[i].quantity
    BY <1>9
  <2>2. CASE Absorbed(i)
    <3>1. F[x] = <<T(i), items[T(i)].quantity + 1>>
      BY <2>1, <2>2
    <3>2. /\ T(i) \in DOMAIN items /\ items'[T(i)].cart = c
          /\ items'[T(i)].quantity = items[T(i)].quantity + 1
      BY <1>3, <1>4, <1>5, <2>2
    <3>3. items[T(i)].quantity + 1 \in 1..MaxCarts
      BY <1>3, <1>11, <1>13, <3>2
    <3>4. <<T(i), items[T(i)].quantity + 1>> \in UnitsThere'
      BY <1>2, <1>10, <3>2, <3>3
    <3> QED BY <2>1, <2>2, <3>1, <3>4
  <2>3. CASE ~Absorbed(i)
    <3>1. F[x] = x
      BY <2>1, <2>3
    <3>2. items'[i].cart # 0
      BY <1>2, <1>3, <1>6, <1>11, <2>1, <2>3
    <3>3. u <= items'[i].quantity
      BY <1>11, <1>12, <1>13, <2>1
    <3> QED BY <1>10, <2>1, <2>3, <3>1, <3>2, <3>3
  <2> QED BY <2>2, <2>3
<1>15. F \in [UnitsThere -> UnitsThere']
  BY <1>14
<1>16. ASSUME NEW x \in UnitsThere, NEW y \in UnitsThere, F[x] = F[y]
       PROVE  x = y
  <2>1. PICK i \in DOMAIN items, u \in 1..MaxCarts :
          x = <<i, u>> /\ items[i].cart # 0 /\ u <= items[i].quantity
    BY <1>9
  <2>2. PICK j \in DOMAIN items, w \in 1..MaxCarts :
          y = <<j, w>> /\ items[j].cart # 0 /\ w <= items[j].quantity
    BY <1>9
  <2>3. /\ Absorbed(i) => F[x] = <<T(i), items[T(i)].quantity + 1>>
        /\ ~Absorbed(i) => F[x] = x
        /\ Absorbed(j) => F[y] = <<T(j), items[T(j)].quantity + 1>>
        /\ ~Absorbed(j) => F[y] = y
    BY <1>14, <2>1, <2>2
  <2>4. Absorbed(i) => u = 1
    BY <1>6, <1>13, <2>1 DEF Absorbed
  <2>5. Absorbed(j) => w = 1
    BY <1>6, <1>13, <2>2 DEF Absorbed
  <2> HIDE DEF F
  <2>6. CASE Absorbed(i) /\ Absorbed(j)
    <3>1. T(i) = T(j)
      BY <1>16, <2>3, <2>6
    <3>2. i = j
      BY <1>7, <2>6, <3>1
    <3> QED BY <2>1, <2>2, <2>4, <2>5, <2>6, <3>2
  <2>7. CASE Absorbed(i) /\ ~Absorbed(j)
    <3>1. j = T(i) /\ w = items[T(i)].quantity + 1
      BY <1>16, <2>2, <2>3, <2>7
    <3> QED BY <1>11, <1>13, <2>2, <3>1
  <2>8. CASE ~Absorbed(i) /\ Absorbed(j)
    <3>1. i = T(j) /\ u = items[T(j)].quantity + 1
      BY <1>16, <2>1, <2>3, <2>8
    <3> QED BY <1>11, <1>13, <2>1, <3>1
  <2>9. CASE ~Absorbed(i) /\ ~Absorbed(j)
    BY <1>16, <2>3, <2>9
  <2> QED BY <2>6, <2>7, <2>8, <2>9
<1>17. ASSUME NEW z \in UnitsThere'  PROVE \E x \in UnitsThere : F[x] = z
  <2>1. PICK j \in DOMAIN items, u \in 1..MaxCarts :
          z = <<j, u>> /\ items'[j].cart # 0 /\ u <= items'[j].quantity
    BY <1>10
  <2>2. CASE items[j].cart # 0 /\ u <= items[j].quantity
    <3>1. z \in UnitsThere
      BY <1>9, <2>1, <2>2
    <3>2. ~Absorbed(j)
      BY <1>6, <2>1 DEF Absorbed
    <3>3. z[1] = j
      BY <2>1
    <3> QED BY <1>14, <3>1, <3>2, <3>3
  <2>3. CASE items[j].cart = 0
    BY <1>3, <2>1, <2>3
  <2>4. CASE items[j].cart # 0 /\ ~(u <= items[j].quantity)
    <3>1. Sent(mine, his, j) # {} /\ u = items[j].quantity + 1
      BY <1>3, <1>5, <1>11, <1>13, <2>1, <2>4
    <3>2. PICK i \in DOMAIN items : Absorbed(i) /\ T(i) = j
      BY <1>5, <3>1
    <3>3. <<i, 1>> \in UnitsThere
      BY <1>2, <1>6, <1>9, <1>11, <1>13, <3>2 DEF Absorbed
    <3>4. F[<<i, 1>>] = <<T(i), items[T(i)].quantity + 1>>
      BY <1>14, <3>2, <3>3
    <3> QED BY <2>1, <3>1, <3>2, <3>3, <3>4
  <2> QED BY <2>2, <2>3, <2>4
<1> HIDE DEF F
<1>18. Cardinality(UnitsThere') = Cardinality(UnitsThere)
  BY <1>1, <1>15, <1>16, <1>17, SameSize
<1> QED BY <1>8, <1>18 DEF c

(* The step of a merge into the customer's cart. *)
MergeOf(t, mine, his) ==
  /\ mine = tabs[t].call.mine /\ his = tabs[t].call.his
  /\ Guest!Merge(t) /\ mine.cart # 0

LEMMA MergeBasics ==
  ASSUME GuestInv, NEW t \in Guest!Tabs, NEW mine, NEW his, MergeOf(t, mine, his)
  PROVE  /\ Mergeable(mine, his) /\ Guest!OfUser = {mine.cart}
         /\ tabs[t].call.pc = "merge" /\ tabs[t].call.cart = his.cart
         /\ mine.cart \in Guest!Ids /\ his.cart \in Created
         /\ \A h \in his.rows : h.id \in DOMAIN items
         /\ items' = [i \in DOMAIN items |-> Guest!Merged(mine, his, i)]
         /\ owner' \in [Guest!Ids -> {"none", "guest", "user", "deleted"}]
         /\ owner'[his.cart] = "deleted"
         /\ \A n \in Guest!Ids : n # his.cart => owner'[n] = owner[n]
         /\ excused' = (excused \/ Guest!Twice(mine, his))
         /\ UNCHANGED <<cookie, sid, app, adding, added, acts, faults>>
         /\ tabs' \in [Guest!Tabs -> Tab]
         /\ tabs'[t].call.pc = "answer" /\ tabs'[t].call.cart = his.cart
         /\ \A s \in Guest!Tabs : s # t => tabs'[s] = tabs[s]
         /\ Created' = Created /\ Guest!OfUser' = Guest!OfUser
         /\ Deleted' = Deleted \union {his.cart}
<1> DEFINE k == tabs[t].call
           x == [tabs[t] EXCEPT !.call = [k EXCEPT !.pc = "answer"]]
<1>1. GuestTypes /\ RefsInv
  BY DEF GuestInv
<1>2. k.pc = "merge" /\ k \in Exchanges /\ CallInv(k) /\ k.mine = mine /\ k.his = his
  BY CallsHold DEF Guest!Merge, Guest!Call, MergeOf
<1>3. his.cart = k.cart /\ k.cart # 0 /\ k.cart \in Created /\ k.cart \in Guest!Ids
  BY <1>2 DEF CallInv, CallRefs, Created
<1>4. Guest!OfUser # {} /\ mine.cart # 0
  BY <1>2 DEF CallInv, MergeOf
<1>5. Guest!OfUser = {mine.cart} /\ k.cart # mine.cart
  BY <1>1, <1>2, <1>4 DEF CallInv, CallOfUser, RefsInv
<1>6. mine.cart \in Guest!Ids /\ owner[mine.cart] = "user"
  BY <1>5 DEF Guest!OfUser
<1>7. Mergeable(mine, his)
  <2>1. mine \in Guest!Read /\ his \in Guest!Read
    BY <1>2 DEF Exchanges
  <2>2. mine.rows \subseteq Guest!Row /\ his.rows \subseteq Guest!Row
    BY ONLY <2>1 DEF Guest!Read
  <2>3. \A h \in his.rows : h.quantity = 1
    BY <1>2 DEF CallInv, CallAmounts
  <2>4. \A r \in mine.rows : r.id \in DOMAIN items /\ items[r.id].cart = mine.cart
    BY <1>2, <1>4 DEF CallInv, CallRefs
  <2> QED BY <1>3, <1>5, <1>6, <2>2, <2>3, <2>4, GuestConstants DEF Mergeable
<1>8. \A h \in his.rows : h.id \in DOMAIN items
  BY <1>2 DEF CallInv, CallRefs
<1>9. /\ items' = [i \in DOMAIN items |-> Guest!Merged(mine, his, i)]
      /\ owner' = [owner EXCEPT ![his.cart] = "deleted"]
      /\ excused' = (excused \/ Guest!Twice(mine, his))
      /\ UNCHANGED <<cookie, sid, app, adding, added, acts, faults>>
  BY <1>2, <1>4 DEF MergeOf, Guest!Merge, Guest!Call, Guest!cookies
<1>10. tabs' = [tabs EXCEPT ![t] = x]
  BY <1>1 DEF MergeOf, Guest!Merge, GuestTypes
<1>11. x \in Tab
  BY <1>1, TabTypes
<1>12. x.call.pc = "answer" /\ x.call.cart = his.cart
  BY <1>1, <1>2, <1>3 DEF Exchanges, GuestTypes
<1> HIDE DEF x
<1>13. /\ tabs' \in [Guest!Tabs -> Tab] /\ tabs'[t] = x
       /\ \A s \in Guest!Tabs : s # t => tabs'[s] = tabs[s]
  BY <1>1, <1>10, <1>11 DEF GuestTypes, Tab
<1>14. owner \in [Guest!Ids -> {"none", "guest", "user", "deleted"}]
  BY <1>1 DEF GuestTypes
<1>15. his.cart \in Guest!Ids /\ his.cart \in Created
  BY <1>3
<1>16. /\ owner' \in [Guest!Ids -> {"none", "guest", "user", "deleted"}]
       /\ owner'[his.cart] = "deleted"
       /\ \A n \in Guest!Ids : n # his.cart => owner'[n] = owner[n]
  BY ONLY <1>9, <1>14, <1>15
<1>17. /\ Created' = Created /\ Guest!OfUser' = Guest!OfUser
       /\ Deleted' = Deleted \union {his.cart}
  <2>1. Guest!Ids' = Guest!Ids
    OBVIOUS
  <2>2. owner[his.cart] # "user"
    BY <1>3, <1>5 DEF Guest!OfUser
  <2> QED BY <1>15, <1>16, <2>1, <2>2 DEF Created, Guest!OfUser, Deleted
<1> QED BY <1>2, <1>3, <1>5, <1>6, <1>7, <1>8, <1>9, <1>12, <1>13, <1>15, <1>16, <1>17

(* A merge deletes a cart, but not the customer's. *)
LEMMA OneDeleted ==
  ASSUME GuestInv, NEW t \in Guest!Tabs, NEW mine, NEW his, MergeOf(t, mine, his)
  PROVE  /\ Cardinality(Deleted') = Cardinality(Deleted \ {his.cart}) + 1
         /\ Cardinality(Deleted \ {his.cart}) \in Nat
         /\ Cardinality(Deleted') \in Nat /\ Cardinality(Deleted) \in Nat
         /\ Cardinality(Deleted) <= Cardinality(Deleted')
         /\ Cardinality(Deleted') + 1 <= MaxCarts
         /\ \A n : /\ Cardinality(Deleted \ {n}) <= Cardinality(Deleted' \ {n})
                   /\ Cardinality(Deleted \ {n}) \in Nat
                   /\ Cardinality(Deleted' \ {n}) \in Nat
<1>1. GuestTypes
  BY DEF GuestInv
<1>2. /\ Deleted' = Deleted \union {his.cart} /\ Guest!OfUser' = {mine.cart}
      /\ mine.cart \in Guest!Ids
  BY MergeBasics
<1>3. IsFiniteSet(Deleted) /\ Cardinality(Deleted) \in Nat
  BY <1>1, FiniteUnits
<1>4. IsFiniteSet(Deleted')
  BY <1>2, <1>3, FS_AddElement
<1>5. \A n : /\ IsFiniteSet(Deleted \ {n}) /\ Cardinality(Deleted \ {n}) \in Nat
             /\ IsFiniteSet(Deleted' \ {n}) /\ Cardinality(Deleted' \ {n}) \in Nat
  BY <1>3, <1>4, FS_RemoveElement, FS_CardinalityType
<1>6. Cardinality(Deleted') = Cardinality(Deleted \ {his.cart}) + 1
  <2>1. Deleted' = (Deleted \ {his.cart}) \union {his.cart}
    BY <1>2
  <2> QED BY <1>5, <2>1, FS_AddElement
<1>7. Cardinality(Deleted') \in Nat /\ Cardinality(Deleted) <= Cardinality(Deleted')
  <2>1. Deleted \subseteq Deleted'
    BY <1>2
  <2> QED BY <1>4, <2>1, FS_Subset, FS_CardinalityType
<1>8. \A n : Cardinality(Deleted \ {n}) <= Cardinality(Deleted' \ {n})
  <2>1. \A n : Deleted \ {n} \subseteq Deleted' \ {n}
    BY <1>2
  <2> QED BY <1>5, <2>1, FS_Subset
<1>9. Cardinality(Deleted') + 1 <= MaxCarts
  <2>1. mine.cart \notin Deleted' /\ Deleted' \subseteq Guest!Ids
    <3>1. Guest!Ids' = Guest!Ids
      OBVIOUS
    <3>2. Deleted' \subseteq Guest!Ids
      BY <3>1 DEF Deleted
    <3>3. \A n \in Deleted' : n \notin Guest!OfUser'
      BY DEF Deleted, Guest!OfUser
    <3> QED BY <1>2, <3>2, <3>3
  <2>2. Cardinality(Deleted' \union {mine.cart}) = Cardinality(Deleted') + 1
    BY <1>4, <2>1, FS_AddElement
  <2>3. Deleted' \union {mine.cart} \subseteq 1..MaxCarts /\ MaxCarts \in Nat \ {0}
    BY <1>2, <2>1, GuestConstants
  <2>4. IsFiniteSet(1..MaxCarts) /\ Cardinality(1..MaxCarts) = MaxCarts
    BY <2>3, FS_Interval
  <2> QED BY <2>2, <2>3, <2>4, FS_Subset
<1> QED BY <1>3, <1>5, <1>6, <1>7, <1>8, <1>9

LEMMA MergeTypes ==
  ASSUME GuestInv, NEW t \in Guest!Tabs, NEW mine, NEW his, MergeOf(t, mine, his)
  PROVE  /\ GuestTypes'
         /\ \A i \in DOMAIN items : items'[i].quantity <= 1 + Cardinality(Deleted')
<1>1. GuestTypes /\ AmountsInv
  BY DEF GuestInv
<1>2. /\ DOMAIN items = 1..Len(items) /\ Len(items) \in Nat
      /\ \A i \in DOMAIN items : items[i] \in Item
  BY <1>1, FiniteUnits
<1>3. /\ DOMAIN items' = DOMAIN items
      /\ \A i \in DOMAIN items :
           /\ items'[i] = [cart |-> items'[i].cart, variant |-> items[i].variant,
                           quantity |-> items'[i].quantity]
           /\ items'[i].cart \in {items[i].cart, mine.cart, 0}
           /\ \/ items'[i].quantity = items[i].quantity
              \/ \E r \in mine.rows : r.id = i /\ items'[i].quantity = r.quantity + 1
  <2>1. Mergeable(mine, his) /\ items' = [i \in DOMAIN items |-> Guest!Merged(mine, his, i)]
    BY MergeBasics
  <2> QED BY <1>1, <2>1, MergedRows
<1>4. mine.cart \in 1..MaxCarts /\ mine.rows \subseteq Guest!Row
  BY MergeBasics DEF Mergeable
<1>5. /\ \A r \in mine.rows : r.quantity <= 1 + Cardinality(Deleted \ {his.cart})
      /\ \A i \in DOMAIN items : items[i].quantity <= 1 + Cardinality(Deleted)
  <2>1. tabs[t].call.pc = "merge" /\ tabs[t].call.mine = mine /\ tabs[t].call.cart = his.cart
    BY MergeBasics DEF MergeOf
  <2> QED BY <1>1, <2>1 DEF AmountsInv, CallAmounts
<1>6. /\ \A r \in mine.rows : r.quantity \in 1..MaxCarts
      /\ \A i \in DOMAIN items : /\ items[i].quantity \in 1..MaxCarts
                                 /\ items[i].cart \in 0..MaxCarts
                                 /\ items[i].variant \in Guest!Variants
  BY <1>2, <1>4 DEF Guest!Row, Item
<1>7. MaxCarts \in Nat
  BY GuestConstants
<1>8. ASSUME NEW i \in DOMAIN items
      PROVE  /\ items'[i].quantity \in 1..MaxCarts
             /\ items'[i].quantity <= 1 + Cardinality(Deleted')
  <2>1. CASE items'[i].quantity = items[i].quantity
    BY <1>5, <1>6, <2>1, OneDeleted
  <2>2. CASE \E r \in mine.rows : r.id = i /\ items'[i].quantity = r.quantity + 1
    <3>1. PICK r \in mine.rows : items'[i].quantity = r.quantity + 1
      BY <2>2
    <3>2. r.quantity \in 1..MaxCarts /\ r.quantity <= 1 + Cardinality(Deleted \ {his.cart})
      BY <1>5, <1>6
    <3> QED BY <1>7, <3>1, <3>2, OneDeleted
  <2> QED BY <1>3, <2>1, <2>2
<1>9. ASSUME NEW i \in DOMAIN items  PROVE items'[i] \in Item
  <2>1. items'[i].cart \in 0..MaxCarts
    BY <1>3, <1>4, <1>6, <1>7
  <2>2. items'[i].quantity \in 1..MaxCarts
    BY <1>8
  <2> QED BY <1>3, <1>6, <2>1, <2>2 DEF Item
<1>10. items' \in Seq(Item) /\ Len(items') = Len(items)
  <2>1. items' = [i \in 1..Len(items) |-> items'[i]]
    <3>1. items' = [i \in DOMAIN items |-> Guest!Merged(mine, his, i)]
      BY MergeBasics
    <3> QED BY <1>2, <3>1
  <2>2. items' \in [1..Len(items) -> Item]
    BY <1>2, <1>9, <2>1
  <2> QED BY ONLY <1>2, <2>2
<1>11. GuestTypes'
  <2>1. excused' \in BOOLEAN
    BY <1>1, MergeBasics DEF GuestTypes, Guest!Twice
  <2>2. /\ owner' \in [Guest!Ids -> {"none", "guest", "user", "deleted"}]
        /\ UNCHANGED <<cookie, sid, app, adding, added, acts, faults>>
        /\ tabs' \in [Guest!Tabs -> Tab]
    BY MergeBasics
  <2> QED BY <1>1, <1>10, <2>1, <2>2 DEF GuestTypes, Tab
<1> QED BY <1>8, <1>11

LEMMA MergeRefs ==
  ASSUME GuestInv, NEW t \in Guest!Tabs, NEW mine, NEW his, MergeOf(t, mine, his)
  PROVE  RefsInv' /\ AmountsInv' /\ NoUserInv' /\ UserInv'
<1> DEFINE c == mine.cart
           g == his.cart
<1>1. GuestTypes /\ RefsInv /\ AmountsInv /\ UserInv
  BY DEF GuestInv
<1>2. /\ Mergeable(mine, his) /\ Guest!OfUser = {c} /\ g \in Created /\ c # 0 /\ c # g
      /\ items' = [i \in DOMAIN items |-> Guest!Merged(mine, his, i)]
      /\ owner'[g] = "deleted" /\ \A n \in Guest!Ids : n # g => owner'[n] = owner[n]
      /\ cookie' = cookie /\ adding' = adding
      /\ tabs'[t].call.pc = "answer" /\ tabs'[t].call.cart = g
      /\ \A s \in Guest!Tabs : s # t => tabs'[s] = tabs[s]
      /\ Created' = Created /\ Guest!OfUser' = Guest!OfUser /\ Guest!Tabs' = Guest!Tabs
  BY MergeBasics DEF Mergeable
<1>3. /\ DOMAIN items' = DOMAIN items
      /\ \A i \in DOMAIN items :
           /\ items'[i].cart \in {items[i].cart, c, 0}
           /\ items'[i].cart # g
           /\ items[i].cart = c => items'[i].cart = c
           /\ \/ items'[i].quantity = items[i].quantity
              \/ items[i].cart = c
  BY <1>1, <1>2, MergedRows
<1>4. owner[c] = "user" /\ c \in Guest!Ids /\ owner'[c] = "user"
  BY <1>2 DEF Guest!OfUser
<1>5. \A s \in Guest!Tabs : /\ CallRefs(tabs[s].call) /\ CallAmounts(tabs[s].call)
                            /\ CallOfUser(tabs[s].call, c)
  BY <1>1, <1>2 DEF RefsInv, AmountsInv, UserInv
<1>6. \A i \in Live : items[i].cart \in Guest!Ids
  BY <1>1, FiniteUnits, GuestConstants DEF Live, Item
<1>7. \A i \in Live' : /\ i \in DOMAIN items /\ items'[i].cart # 0
                       /\ \/ items'[i].cart = c
                          \/ i \in Live /\ items'[i].cart = items[i].cart /\ items[i].cart # g
                             /\ items'[i].quantity = items[i].quantity
  BY <1>3 DEF Live
<1>12. /\ Cardinality(Deleted') \in Nat /\ Cardinality(Deleted) \in Nat
       /\ Cardinality(Deleted) <= Cardinality(Deleted')
       /\ \A n : /\ Cardinality(Deleted \ {n}) <= Cardinality(Deleted' \ {n})
                 /\ Cardinality(Deleted \ {n}) \in Nat
                 /\ Cardinality(Deleted' \ {n}) \in Nat
  BY OneDeleted
<1> HIDE DEF c, g
<1>8. RefsInv'
  <2>1. \A i \in Live' : owner'[items'[i].cart] \in {"guest", "user"}
    BY <1>1, <1>2, <1>4, <1>6, <1>7 DEF RefsInv
  <2>2. ASSUME NEW s \in Guest!Tabs  PROVE CallRefs(tabs[s].call)'
    <3>1. CASE s = t
      BY <1>2, <3>1, MergeBasics DEF CallRefs, Created, g
    <3>2. CASE s # t
      <4> DEFINE l == tabs[s].call
      <4>1. tabs'[s].call = l /\ CallRefs(l) /\ CallOfUser(l, c)
        BY <1>2, <1>5, <3>2
      <4>2. l.pc \in {"guest", "merge"} /\ l.mine.cart # 0 =>
              \A r \in l.mine.rows : r.id \in DOMAIN items' /\ items'[r.id].cart = l.mine.cart
        BY <1>3, <4>1 DEF CallRefs, CallOfUser
      <4> QED BY <1>2, <1>3, <4>1, <4>2 DEF CallRefs
    <3> QED BY <3>1, <3>2
  <2> QED BY <1>1, <1>2, <2>1, <2>2 DEF RefsInv
<1>9. AmountsInv'
  <2>1. \A i \in DOMAIN items' : items'[i].quantity <= 1 + Cardinality(Deleted')
    BY <1>3, MergeTypes
  <2>2. \A i \in Live' : owner'[items'[i].cart] = "guest" => items'[i].quantity = 1
    BY <1>1, <1>2, <1>4, <1>6, <1>7 DEF AmountsInv
  <2>3. ASSUME NEW s \in Guest!Tabs  PROVE CallAmounts(tabs[s].call)'
    <3>1. CASE s = t
      BY <1>2, <3>1 DEF CallAmounts
    <3>2. CASE s # t
      <4> DEFINE l == tabs[s].call
      <4>1. tabs'[s].call = l /\ CallRefs(l) /\ CallAmounts(l) /\ l \in Exchanges
        BY <1>2, <1>5, <3>2, CallsHold
      <4>2. ASSUME l.pc = "guest", owner'[l.cart] = "guest", NEW r \in l.mine.rows
            PROVE  r.quantity <= 1 + Cardinality(Deleted')
        <5>1. l.cart \in Guest!Ids /\ l.cart # g
          BY <1>2, <4>1, <4>2 DEF CallRefs, Created
        <5>2. r.quantity <= 1 + Cardinality(Deleted)
          BY <1>2, <4>1, <4>2, <5>1 DEF CallAmounts
        <5>3. r.quantity \in Nat
          <6>1. l.mine \in Guest!Read
            BY <4>1 DEF Exchanges
          <6>2. r \in Guest!Row
            BY ONLY <4>2, <6>1 DEF Guest!Read
          <6> QED BY ONLY <6>2 DEF Guest!Row
        <5> QED BY ONLY <1>12, <5>2, <5>3
      <4>3. ASSUME l.pc = "merge", NEW r \in l.mine.rows
            PROVE  r.quantity <= 1 + Cardinality(Deleted' \ {l.cart})
        <5>1. r.quantity <= 1 + Cardinality(Deleted \ {l.cart})
          BY <4>1, <4>3 DEF CallAmounts
        <5>2. r.quantity \in Nat
          <6>1. l.mine \in Guest!Read
            BY <4>1 DEF Exchanges
          <6>2. r \in Guest!Row
            BY ONLY <4>3, <6>1 DEF Guest!Read
          <6> QED BY ONLY <6>2 DEF Guest!Row
        <5>3. PICK n : n = l.cart
          OBVIOUS
        <5>4. /\ Cardinality(Deleted \ {n}) <= Cardinality(Deleted' \ {n})
              /\ Cardinality(Deleted \ {n}) \in Nat /\ Cardinality(Deleted' \ {n}) \in Nat
          BY <1>12
        <5>5. r.quantity <= 1 + Cardinality(Deleted \ {n})
          BY <5>1, <5>3
        <5>6. r.quantity <= 1 + Cardinality(Deleted' \ {n})
          BY ONLY <5>2, <5>4, <5>5
        <5> QED BY <5>3, <5>6
      <4> QED BY <4>1, <4>2, <4>3 DEF CallAmounts
    <3> QED BY <3>1, <3>2
  <2> QED BY <1>2, <2>1, <2>2, <2>3 DEF AmountsInv
<1>10. NoUserInv'
  BY <1>2 DEF NoUserInv
<1>11. UserInv'
  <2>1. ASSUME NEW s \in Guest!Tabs, NEW d \in Guest!OfUser  PROVE CallOfUser(tabs[s].call, d)'
    BY <1>1, <1>2, <2>1 DEF UserInv, CallOfUser
  <2> QED BY <1>1, <1>2, <2>1 DEF UserInv
<1> QED BY <1>8, <1>9, <1>10, <1>11

(* A second merge of what a first has merged changes nothing. *)
LEMMA MergedTwice ==
  ASSUME GuestTypes, NEW mine, NEW his, Mergeable(mine, his),
         NEW k, k.mine = mine, k.his = his,
         items' = [i \in DOMAIN items |-> Guest!Merged(mine, his, i)],
         \A i \in Live' : items'[i].cart = mine.cart,
         items' \in Seq(Item)
  PROVE  Applied(k)'
<1> SUFFICES ASSUME NEW i \in DOMAIN items'
             PROVE  Guest!Merged(mine, his, i)' = items'[i]
  BY DEF Applied
<1>1. /\ i \in DOMAIN items /\ items'[i] = Guest!Merged(mine, his, i)
      /\ items'[i] = [cart |-> items'[i].cart, variant |-> items[i].variant,
                      quantity |-> items'[i].quantity]
      /\ items'[i].cart # his.cart
  BY MergedRows
<1> DEFINE w == items'[i]
           S == Sent(mine, his, i)
           Q == Guest!Quantity(mine, S, i)
           moves == w.cart # 0 /\ (\E g \in his.rows : g.id = i) /\ ~Guest!Has(mine, w.variant)
<1>2. Guest!Merged(mine, his, i)' =
        CASE S # {} -> [w EXCEPT !.quantity = Q]
          [] S = {} /\ moves -> [w EXCEPT !.cart = mine.cart]
          [] S = {} /\ ~moves /\ w.cart = his.cart -> [w EXCEPT !.cart = 0]
          [] OTHER -> w
  BY DEF Guest!Merged, Sent, Guest!Quantity
<1>3. Guest!Merged(mine, his, i) =
        CASE S # {} -> [items[i] EXCEPT !.quantity = Q]
          [] S = {} /\ Moving(mine, his, i) -> [items[i] EXCEPT !.cart = mine.cart]
          [] S = {} /\ ~Moving(mine, his, i) /\ items[i].cart = his.cart ->
               [items[i] EXCEPT !.cart = 0]
          [] OTHER -> items[i]
  BY DEF Guest!Merged, Sent, Moving
<1>4. w = [cart |-> w.cart, variant |-> w.variant, quantity |-> w.quantity]
      /\ items[i] \in Item
  BY <1>1, FiniteUnits
<1>5. w.cart # 0 => w.cart = mine.cart
  BY DEF Live
<1> HIDE DEF Q, S
<1>6. CASE S # {}
  <2>1. w = [items[i] EXCEPT !.quantity = Q]
    BY <1>1, <1>3, <1>6
  <2>2. w.quantity = Q
    BY <1>4, <2>1 DEF Item
  <2>3. Guest!Merged(mine, his, i)' = [w EXCEPT !.quantity = Q]
    BY <1>2, <1>6
  <2> HIDE DEF w
  <2>4. [w EXCEPT !.quantity = Q] = w
    BY <1>4, <2>2
  <2> QED BY <2>3, <2>4 DEF w
<1>7. CASE S = {} /\ moves
  <2>1. Guest!Merged(mine, his, i)' = [w EXCEPT !.cart = mine.cart]
    BY <1>2, <1>7
  <2>2. w.cart = mine.cart
    BY <1>5, <1>7
  <2> HIDE DEF w, moves
  <2>3. [w EXCEPT !.cart = mine.cart] = w
    BY <1>4, <2>2
  <2> QED BY <2>1, <2>3 DEF w
<1>8. CASE S = {} /\ ~moves
  BY <1>1, <1>2, <1>8
<1> QED BY <1>6, <1>7, <1>8

LEMMA MergeKept ==
  ASSUME GuestInv, NEW t \in Guest!Tabs, NEW mine, NEW his, MergeOf(t, mine, his)
  PROVE  KeptInv'
<1> SUFFICES ASSUME ~excused'
             PROVE  (Cardinality(UnitsThere) = added /\ \A c \in Guest!OfUser : Kept(c))'
  BY DEF KeptInv
<1>0. PICK c : c = mine.cart
  OBVIOUS
<1>1. GuestTypes /\ RefsInv /\ KeptInv /\ GuestTypes'
  BY MergeTypes DEF GuestInv
<1>20. /\ Mergeable(mine, his) /\ Guest!OfUser = {c}
       /\ items' = [i \in DOMAIN items |-> Guest!Merged(mine, his, i)]
       /\ excused' = (excused \/ Guest!Twice(mine, his))
  BY <1>0, MergeBasics
<1>21. /\ his.cart \in Created
       /\ tabs[t].call.pc = "merge" /\ tabs[t].call.cart = his.cart
       /\ owner'[his.cart] = "deleted"
       /\ \A n \in Guest!Ids : n # his.cart => owner'[n] = owner[n]
       /\ UNCHANGED <<cookie, sid, adding, added>>
       /\ tabs'[t].call.pc = "answer" /\ \A s \in Guest!Tabs : s # t => tabs'[s] = tabs[s]
       /\ Guest!OfUser' = Guest!OfUser /\ Guest!Tabs' = Guest!Tabs
  BY MergeBasics
<1>22. tabs[t].call.mine = mine /\ tabs[t].call.his = his
  BY DEF MergeOf
<1>23. c # his.cart /\ his.cart # 0
  BY <1>0, <1>20 DEF Mergeable
<1>24. ~excused /\ ~Guest!Twice(mine, his)
  BY <1>20
<1>2. /\ Mergeable(mine, his) /\ Guest!OfUser = {c} /\ his.cart \in Created
      /\ tabs[t].call.pc = "merge" /\ tabs[t].call.cart = his.cart
      /\ tabs[t].call.mine = mine /\ tabs[t].call.his = his
      /\ items' = [i \in DOMAIN items |-> Guest!Merged(mine, his, i)]
      /\ owner'[his.cart] = "deleted"
      /\ \A n \in Guest!Ids : n # his.cart => owner'[n] = owner[n]
      /\ ~excused /\ ~Guest!Twice(mine, his)
      /\ UNCHANGED <<cookie, sid, adding, added>>
      /\ tabs'[t].call.pc = "answer" /\ \A s \in Guest!Tabs : s # t => tabs'[s] = tabs[s]
      /\ Guest!OfUser' = Guest!OfUser /\ Guest!Tabs' = Guest!Tabs
      /\ c # his.cart /\ his.cart # 0
  BY ONLY <1>20, <1>21, <1>22, <1>23, <1>24
<1>3. Kept(c) /\ Cardinality(UnitsThere) = added /\ CallKept(tabs[t].call, c)
  BY <1>1, <1>2 DEF KeptInv, Kept
<1>4. \A i \in Loose(c) : i \in Live /\ items[i].cart = his.cart
  BY <1>2, <1>3 DEF CallKept, Loose
<1>5. \A s \in Guest!Tabs : /\ CallKept(tabs[s].call, c) /\ CallInv(tabs[s].call)
                            /\ CallRefs(tabs[s].call) /\ CallOfUser(tabs[s].call, c)
  BY <1>2, <1>3, CallsHold DEF Kept, CallInv
<1>6. CASE Loose(c) = {}
  <2>1. Applied(tabs[t].call)
    <3>1. Pending(tabs[t].call, c) \/ Applied(tabs[t].call)
      BY <1>0, <1>2, <1>3 DEF CallKept
    <3>2. CASE Pending(tabs[t].call, c)
      <4>1. \A i \in Live : items[i].cart # his.cart
        BY <1>2, <1>6 DEF Loose
      <4>2. his.rows = {}
        BY <1>2, <3>2, <4>1 DEF Pending, RowsIn, Live
      <4> QED BY <1>1, <1>2, <4>1, <4>2, NothingToMerge
    <3> QED BY <3>1, <3>2
  <2>2. items' = items
    <3>1. \A i \in DOMAIN items : Guest!Merged(mine, his, i) = items[i]
      BY <1>2, <2>1 DEF Applied
    <3>2. items = [i \in DOMAIN items |-> items[i]]
      <4>1. items \in Seq(Item)
        BY <1>1 DEF GuestTypes
      <4> QED BY ONLY <4>1
    <3>3. items' = [i \in DOMAIN items |-> items[i]]
      BY <1>2, <3>1
    <3> QED BY <3>2, <3>3
  <2>3. Live' = Live /\ UnitsThere' = UnitsThere /\ Loose(c)' = {}
        /\ \A n : RowsIn(n)' = RowsIn(n)
    BY <1>6, <2>2 DEF Live, UnitsThere, Loose, RowsIn
  <2>4. ASSUME NEW s \in Guest!Tabs  PROVE CallKept(tabs[s].call, c)'
    <3>1. CASE s = t
      BY <1>2, <2>3, <3>1 DEF CallKept
    <3>2. CASE s # t
      <4> DEFINE l == tabs[s].call
      <4>1. tabs'[s].call = l /\ CallKept(l, c) /\ CallRefs(l) /\ CallOfUser(l, c)
        BY <1>2, <1>5, <3>2
      <4>2. \A k : Applied(k) => Applied(k)'
        BY <2>2 DEF Applied, Guest!Merged, Guest!Quantity
      <4>3. l.pc = "guest" /\ owner'[l.cart] = "guest" => owner[l.cart] = "guest"
        BY <1>2, <4>1 DEF CallRefs, Created
      <4>4. l.pc = "merge" /\ l.mine.cart = c => Applied(l)
        <5> SUFFICES ASSUME l.pc = "merge", l.mine.cart = c, Pending(l, c)
                     PROVE  Applied(l)
          BY <4>1 DEF CallKept
        <5>1. l.cart # c /\ l.cart # 0 /\ l.his.cart = l.cart
          BY <4>1 DEF CallRefs, CallOfUser
        <5>2. \A i \in Live : items[i].cart # l.cart
          BY <1>6, <5>1 DEF Loose
        <5>3. l.his.rows = {}
          BY <5>1, <5>2 DEF Pending, RowsIn, Live
        <5> QED BY <1>1, <5>1, <5>2, <5>3, NothingToMerge
      <4>5. Parked(c)' = Parked(c)
        BY <1>2 DEF Parked
      <4> QED BY <1>2, <2>3, <4>1, <4>2, <4>3, <4>4, <4>5 DEF CallKept
    <3> QED BY <3>1, <3>2
  <2>5. Kept(c)'
    BY <1>2, <2>3, <2>4 DEF Kept
  <2>6. Cardinality(UnitsThere') = added'
    BY <1>2, <1>3, <2>3
  <2>7. ASSUME NEW d \in Guest!OfUser'  PROVE Kept(d)'
    <3>1. d = c
      BY <1>2, <2>7
    <3> QED BY <2>5, <3>1
  <2> QED BY <2>6, <2>7
<1>7. CASE Loose(c) # {}
  <2>1. Pending(tabs[t].call, c)
    BY <1>0, <1>2, <1>3, <1>7 DEF CallKept
  <2>2. mine.rows = RowsIn(mine.cart) /\ his.rows = RowsIn(his.cart)
    BY <1>0, <1>2, <2>1 DEF Pending
  <2>3. \A i \in Live : items[i].cart \in {mine.cart, his.cart}
    BY <1>0, <1>4 DEF Loose
  <2>4. /\ items' \in Seq(Item) /\ \A i \in DOMAIN items' : items'[i].quantity <= MaxCarts
    <3>1. items' \in Seq(Item) /\ MaxCarts \in Nat
      BY <1>1, GuestConstants DEF GuestTypes
    <3>2. \A i \in DOMAIN items' : items'[i] \in Item
      BY ONLY <3>1
    <3> QED BY <3>1, <3>2 DEF Item
  <2>5. /\ Cardinality(UnitsThere') = Cardinality(UnitsThere)
        /\ \A i \in Live' : items'[i].cart = mine.cart
    <3>1. GuestTypes
      BY <1>1
    <3> QED BY ONLY <1>20, <1>24, <2>2, <2>3, <2>4, <3>1, MergedUnits
  <2>6. Loose(c)' = {}
    BY <1>0, <2>5 DEF Loose
  <2>7. ASSUME NEW s \in Guest!Tabs  PROVE CallKept(tabs[s].call, c)'
    <3>1. CASE s = t
      BY <1>2, <2>6, <3>1 DEF CallKept
    <3>2. CASE s # t
      <4> DEFINE l == tabs[s].call
      <4>1. tabs'[s].call = l /\ CallKept(l, c) /\ CallRefs(l) /\ CallOfUser(l, c)
        BY <1>2, <1>5, <3>2
      <4>2. l.pc \in {"guest", "merge"} => l.cart = his.cart
        BY <1>4, <1>7, <4>1 DEF CallKept
      <4>3. l.pc = "guest" => owner'[l.cart] # "guest"
        BY <1>2, <4>2
      <4>4. l.pc = "merge" /\ l.mine.cart = c => Applied(l)'
        <5> SUFFICES ASSUME l.pc = "merge", l.mine.cart = c  PROVE Applied(l)'
          OBVIOUS
        <5>1. Pending(l, c)
          BY <1>7, <4>1 DEF CallKept
        <5>2. l.mine.rows = mine.rows /\ l.his.rows = his.rows /\ l.his.cart = his.cart
          BY <1>0, <2>2, <4>1, <4>2, <5>1 DEF Pending, CallRefs
        <5>3. l.mine = mine /\ l.his = his
          <6>1. l \in Exchanges /\ tabs[t].call \in Exchanges
            BY CallsHold
          <6>2. {l.mine, l.his, mine, his} \subseteq Guest!Read
            BY <1>2, <6>1 DEF Exchanges
          <6> HIDE DEF l
          <6>3. l.mine.cart = mine.cart
            BY <1>0
          <6> QED BY ONLY <5>2, <6>2, <6>3 DEF Guest!Read
        <5>4. ASSUME NEW k, k.mine = mine, k.his = his  PROVE Applied(k)'
          <6>1. GuestTypes
            BY <1>1
          <6> QED BY ONLY <1>20, <2>4, <2>5, <5>4, <6>1, MergedTwice
        <5> QED BY <4>1, <5>3, <5>4
      <4> QED BY <1>2, <2>6, <4>1, <4>3, <4>4 DEF CallKept
    <3> QED BY <3>1, <3>2
  <2>8. Kept(c)'
    BY <1>2, <2>6, <2>7 DEF Kept
  <2>9. Cardinality(UnitsThere') = added'
    BY <1>2, <1>3, <2>5
  <2>10. ASSUME NEW d \in Guest!OfUser'  PROVE Kept(d)'
    <3>1. d = c
      BY <1>2, <2>10
    <3> QED BY <2>8, <3>1
  <2> QED BY <2>9, <2>10
<1> QED BY <1>6, <1>7

LEMMA MergeStep ==
  ASSUME GuestInv, NEW t \in Guest!Tabs, Guest!Merge(t)
  PROVE  GuestInv'
<1>1. CASE tabs[t].call.mine.cart = 0
  BY <1>1, MergeClaims
<1>2. CASE tabs[t].call.mine.cart # 0
  <2>1. PICK mine, his : mine = tabs[t].call.mine /\ his = tabs[t].call.his
    OBVIOUS
  <2>2. MergeOf(t, mine, his)
    BY <1>2, <2>1 DEF MergeOf
  <2>3. GuestTypes' /\ RefsInv' /\ AmountsInv' /\ NoUserInv' /\ UserInv' /\ KeptInv'
    BY <2>2, MergeTypes, MergeRefs, MergeKept
  <2> QED BY <2>3 DEF GuestInv
<1> QED BY <1>1, <1>2


LEMMA GuestInit ==
  ASSUME Guest!Init
  PROVE  GuestInv
<1>1. PICK has \in BOOLEAN :
        /\ owner = [n \in Guest!Ids |-> IF has /\ n = 1 THEN "user" ELSE "none"]
        /\ items = IF has THEN <<[cart |-> 1, variant |-> 1, quantity |-> 1]>> ELSE <<>>
        /\ added = IF has THEN 1 ELSE 0
  BY DEF Guest!Init
<1>2. /\ cookie = 0 /\ sid = FALSE /\ app = FALSE /\ adding = Guest!NoAdd
      /\ tabs = [t \in Guest!Tabs |->
                   [at |-> "shop", exchanged |-> FALSE, call |-> Guest!Idle]]
      /\ excused = FALSE /\ acts = 0 /\ faults = 0
  BY DEF Guest!Init
<1>3. \A t \in Guest!Tabs : tabs[t].call = Guest!Idle
  BY <1>2
<1>4. /\ Guest!Idle.pc = "idle" /\ Guest!Idle.cart = 0 /\ Guest!Idle \in Exchanges
      /\ adding.pc = "idle" /\ adding.cart = 0
      /\ adding \in [pc : {"idle", "sent", "found"}, cart : 0..MaxCarts, user : BOOLEAN]
  BY <1>2, GuestConstants
     DEF Guest!Idle, Guest!Nothing, Guest!NoAdd, Exchanges, Guest!Read
<1>5. /\ \A n \in Guest!Ids : owner[n] = IF has /\ n = 1 THEN "user" ELSE "none"
      /\ Deleted = {} /\ Created = Guest!OfUser
      /\ Guest!OfUser = IF has THEN {1} ELSE {}
  <2>1. \A n \in Guest!Ids : owner[n] = IF has /\ n = 1 THEN "user" ELSE "none"
    BY <1>1
  <2>2. 1 \in Guest!Ids
    BY GuestConstants
  <2> QED BY <2>1, <2>2 DEF Deleted, Created, Guest!OfUser
<1>6. /\ DOMAIN items = (IF has THEN {1} ELSE {}) /\ items \in Seq(Item)
      /\ Len(items) = IF has THEN 1 ELSE 0
      /\ \A i \in DOMAIN items : items[i] = [cart |-> 1, variant |-> 1, quantity |-> 1]
  <2>1. [cart |-> 1, variant |-> 1, quantity |-> 1] \in Item
    BY GuestConstants DEF Item
  <2>2. CASE has
    BY <1>1, <2>1, <2>2
  <2>3. CASE ~has
    BY <1>1, <2>3
  <2> QED BY <2>2, <2>3
<1>7. Cardinality(Deleted) = 0
  BY <1>5, FS_EmptySet
<1>8. Cardinality(UnitsThere) = added
  <2>1. CASE has
    <3>1. UnitsThere = {<<1, 1>>}
      <4>1. DOMAIN items = {1} /\ 1 \in 1..MaxCarts /\ \A w \in 1..MaxCarts : w <= 1 <=> w = 1
        BY <1>6, <2>1, GuestConstants
      <4>2. items[1].cart = 1 /\ items[1].quantity = 1
        BY <1>6, <4>1
      <4>3. \A x \in (DOMAIN items) \X (1..MaxCarts) : x = <<1, x[2]>> /\ x[1] = 1
                                                      /\ x[2] \in 1..MaxCarts
        BY <4>1
      <4>4. \A x \in UnitsThere : x = <<1, 1>>
        BY <4>1, <4>2, <4>3 DEF UnitsThere
      <4>5. <<1, 1>> \in UnitsThere
        BY <4>1, <4>2 DEF UnitsThere
      <4> QED BY <4>4, <4>5
    <3> QED BY <1>1, <2>1, <3>1, FS_Singleton
  <2>2. CASE ~has
    <3>1. UnitsThere = {}
      BY <1>6, <2>2 DEF UnitsThere
    <3> QED BY <1>1, <2>2, <3>1, FS_EmptySet
  <2> QED BY <2>1, <2>2
<1>9. GuestTypes
  <2>1. owner \in [Guest!Ids -> {"none", "guest", "user", "deleted"}]
    BY <1>1
  <2>2. tabs \in [Guest!Tabs -> [at : {"shop", "callback"}, exchanged : BOOLEAN,
                                 call : Exchanges]]
    BY <1>2, <1>4
  <2>3. added = Len(items) /\ Len(items) <= MaxItems
    BY <1>1, <1>6, GuestConstants
  <2>4. sid \in BOOLEAN /\ app \in BOOLEAN /\ excused \in BOOLEAN
    BY <1>2
  <2>5. cookie \in 0..MaxCarts /\ acts \in 0..GuestActs /\ faults \in 0..GuestFaults
    BY <1>2, GuestConstants
  <2> QED BY <1>4, <1>6, <2>1, <2>2, <2>3, <2>4, <2>5 DEF GuestTypes
<1>10. RefsInv
  <2>1. \A i \in Live : has /\ items[i].cart = 1 /\ owner[1] = "user"
    BY <1>5, <1>6, GuestConstants DEF Live
  <2> QED BY <1>2, <1>3, <1>4, <1>5, <2>1 DEF RefsInv, CallRefs
<1>11. AmountsInv
  <2>1. \A i \in DOMAIN items : items[i].quantity = 1
    BY <1>6
  <2>2. \A i \in DOMAIN items : items[i].quantity <= 1 + Cardinality(Deleted)
    BY <1>7, <2>1
  <2>3. \A t \in Guest!Tabs : CallAmounts(tabs[t].call)
    BY <1>3, <1>4 DEF CallAmounts
  <2>4. \A i \in Live : items[i].quantity = 1
    BY <2>1 DEF Live
  <2> QED BY <2>2, <2>3, <2>4 DEF AmountsInv
<1>12. NoUserInv
  BY <1>2, <1>3, <1>4, <1>5, <1>6 DEF NoUserInv, Live
<1>13. UserInv
  BY <1>3, <1>4 DEF UserInv, CallOfUser
<1>14. KeptInv
  <2>1. ASSUME NEW c \in Guest!OfUser  PROVE Kept(c)
    <3>1. c = 1
      BY <1>5, <2>1
    <3>2. Loose(c) = {}
      BY <1>6, <3>1 DEF Loose, Live
    <3> QED BY <1>3, <1>4, <3>2 DEF Kept, CallKept
  <2> QED BY <1>8, <2>1 DEF KeptInv
<1> QED BY <1>9, <1>10, <1>11, <1>12, <1>13, <1>14 DEF GuestInv

LEMMA GuestNext ==
  ASSUME GuestInv, Guest!Next
  PROVE  GuestInv'
<1>1. ASSUME NEW v \in Guest!Variants, Guest!add_item(v)
      PROVE  GuestInv'
  BY <1>1, AddItemStep
<1>2. ASSUME NEW t \in Guest!Tabs,
             \/ Guest!SignIn(t) \/ Guest!Exchange(t) \/ Guest!Answer(t)
             \/ Guest!Login(t) \/ Guest!Fail(t)
      PROVE  GuestInv'
  BY <1>2, SignInStep, ExchangeStep, AnswerStep, LoginStep, FailStep
<1>3. ASSUME NEW t \in Guest!Tabs,
             \/ Guest!ReadUserCart(t) \/ Guest!ReadGuestCart(t) \/ Guest!Merge(t)
             \/ Guest!MergeFails(t) \/ Guest!SignOut(t) \/ Guest!LogoutFn(t)
      PROVE  GuestInv'
  BY <1>3, ReadUserCartStep, ReadGuestCartStep, MergeStep, MergeFailsStep, SignOutStep,
     LogoutFnStep
<1> QED BY <1>1, <1>2, <1>3, ShowCartStep, AddToCartStep, FindCartStep, SessionStep
        DEF Guest!Next

LEMMA GuestStays ==
  ASSUME part = "sign_in", GuestInv, [Next]_vars
  PROVE  GuestInv'
<1>1. CASE Guest!Next
  BY <1>1, GuestNext
<1>2. CASE UNCHANGED vars
  <2>1. UNCHANGED <<owner, items, cookie, sid, app, tabs, adding, added, excused, faults, acts>>
    BY <1>2 DEF vars, OfSignIn
  <2>2. GuestTypes'
    BY <2>1 DEF GuestInv, GuestTypes
  <2>3. RefsInv'
    BY <2>1 DEF GuestInv, RefsInv, CallRefs, Created, Live, Guest!OfUser
  <2>4. AmountsInv'
    BY <2>1 DEF GuestInv, AmountsInv, CallAmounts, Deleted, Live
  <2>5. NoUserInv'
    BY <2>1 DEF GuestInv, NoUserInv, Created, Deleted, Live, Guest!OfUser
  <2>6. UserInv'
    BY <2>1 DEF GuestInv, UserInv, CallOfUser, Guest!OfUser
  <2>7. KeptInv'
    <3>1. /\ UnitsThere' = UnitsThere /\ Guest!OfUser' = Guest!OfUser
          /\ \A n : RowsIn(n)' = RowsIn(n) /\ Loose(n)' = Loose(n)
      BY <2>1 DEF UnitsThere, Guest!OfUser, RowsIn, Loose, Live
    <3>2. \A k : Applied(k)' = Applied(k)
      BY <2>1 DEF Applied, Guest!Merged, Guest!Quantity
    <3>3. \A k, c : CallKept(k, c) => CallKept(k, c)'
      BY <2>1, <3>1, <3>2 DEF CallKept, Pending, Parked
    <3>4. ASSUME NEW c, Kept(c)  PROVE Kept(c)'
      BY <2>1, <3>1, <3>3, <3>4 DEF Kept
    <3> QED BY <2>1, <3>1, <3>4 DEF GuestInv, KeptInv
  <2> QED BY <2>2, <2>3, <2>4, <2>5, <2>6, <2>7 DEF GuestInv
<1> QED BY <1>1, <1>2, OnePart

LEMMA GuestAlways == Spec => [](part = "sign_in" => GuestInv)
<1>1. Init => (part = "sign_in" => GuestInv)
  BY GuestInit DEF Init
<1>2. (part = "sign_in" => GuestInv) /\ [Next]_vars => (part = "sign_in" => GuestInv)'
  BY GuestStays, OnePart
<1> QED BY <1>1, <1>2, PTL DEF Spec


(* services/cart.py:143: whoever is signed in is shown every unit they       *)
(* added, and each once: in whatever order two tabs exchange the sign-in,    *)
(* again and again, while items are added, sessions end and answers are      *)
(* lost.  As long as the customer has no cart, what there is is in the one   *)
(* the cookie names; afterwards nothing is outside the customer's.           *)
THEOREM GoodsStay == Spec => []GoodsAreKept
<1>1. (part = "sign_in" => GuestInv) => GoodsAreKept
  <2> SUFFICES ASSUME GuestInv, sid, ~excused
               PROVE  Guest!Units(Guest!get_active_cart(cookie, sid)) = added
    BY DEF GoodsAreKept, Guest!GoodsAreKept
  <2>1. GuestTypes /\ RefsInv /\ NoUserInv /\ KeptInv
    BY DEF GuestInv
  <2>2. sid \in BOOLEAN
    BY <2>1 DEF GuestTypes
  <2>3. PICK n : n = Guest!get_active_cart(cookie, sid)
    OBVIOUS
  <2> DEFINE Shown == {x \in (DOMAIN items) \X (1..MaxCarts) :
                         n # 0 /\ items[x[1]].cart = n /\ x[2] <= items[x[1]].quantity}
  <2>4. \A i \in Live : items[i].cart = n
    <3>1. CASE Guest!OfUser = {}
      <4>1. ASSUME NEW i \in Live
            PROVE  items[i].cart = cookie /\ cookie # 0
                   /\ owner[cookie] \in {"guest", "user"}
        BY <2>1, <3>1 DEF NoUserInv, RefsInv, Live
      <4>2. n = IF cookie # 0 /\ owner[cookie] \in {"guest", "user"} THEN cookie ELSE 0
        BY <2>1, <2>2, <2>3, <3>1, ActiveCart
      <4> QED BY <4>1, <4>2
    <3>2. ASSUME NEW c \in Guest!OfUser  PROVE \A i \in Live : items[i].cart = n
      <4>1. n = c
        BY <2>1, <2>2, <2>3, ActiveCart
      <4>2. Loose(c) = {}
        BY <2>1 DEF KeptInv, Kept
      <4> QED BY <4>1, <4>2 DEF Loose
    <3> QED BY <3>1, <3>2
  <2>5. Shown = UnitsThere
    <3>1. ASSUME NEW x \in (DOMAIN items) \X (1..MaxCarts)
          PROVE  x \in Shown <=> x \in UnitsThere
      <4>1. x[1] \in DOMAIN items
        OBVIOUS
      <4>2. items[x[1]].cart # 0 => items[x[1]].cart = n
        BY <2>4, <4>1 DEF Live
      <4> QED BY <4>2 DEF UnitsThere
    <3> QED BY <3>1 DEF UnitsThere
  <2>6. Guest!Units(n) = Cardinality(Shown)
    BY DEF Guest!Units, Guest!Cardinality, Cardinality
  <2>7. Cardinality(UnitsThere) = added
    BY <2>1 DEF KeptInv
  <2> QED BY <2>3, <2>5, <2>6, <2>7
<1> QED BY <1>1, GuestAlways, PTL

LEMMA GuestTypeOK ==
  ASSUME GuestTypes
  PROVE  Guest!TypeOK
<1>1. added \in 0..MaxItems
  BY FiniteUnits, GuestConstants DEF GuestTypes
<1>2. ASSUME NEW t \in Guest!Tabs
      PROVE  /\ tabs[t].at \in {"shop", "callback"} /\ tabs[t].exchanged \in BOOLEAN
             /\ tabs[t].call \in Exchanges
  BY DEF GuestTypes
<1>3. ASSUME NEW k \in Exchanges
      PROVE  /\ k.pc \in {"idle", "user", "guest", "merge", "answer", "login", "logout"}
             /\ k.waits \in BOOLEAN /\ k.cart \in 0..MaxCarts
             /\ \A r \in {k.mine, k.his} : r.cart \in 0..MaxCarts
                                           /\ r.rows \subseteq Guest!Row
  <2>1. /\ k.pc \in {"idle", "user", "guest", "merge", "answer", "login", "logout"}
        /\ k.waits \in BOOLEAN /\ k.cart \in 0..MaxCarts
        /\ k.mine \in Guest!Read /\ k.his \in Guest!Read
    BY DEF Exchanges
  <2>2. \A r \in Guest!Read : r.cart \in 0..MaxCarts /\ r.rows \subseteq Guest!Row
    BY DEF Guest!Read
  <2> QED BY ONLY <2>1, <2>2
<1> QED BY <1>1, <1>2, <1>3 DEF GuestTypes, Guest!TypeOK, Guest!Call, Item
=============================================================================
