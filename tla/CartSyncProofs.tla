--------------------------- MODULE CartSyncProofs ---------------------------
(***************************************************************************)
(* CartSync for every value of its constants: the state keeps its types,   *)
(* the cart on the screen is the server's once nothing is on its way, and  *)
(* an order to be delivered has an address.                                *)
(***************************************************************************)
EXTENDS CartSync, FiniteSetTheorems, TLAPS

Pending(k) == mut[k].pc \in {"sent", "orphan"}

(* What a request carries.                                                 *)
RequestInv(k) ==
  Pending(k) => /\ k \in {"quantity", "remove"} => mut[k].row \in Rows
                /\ k \in {"add", "quantity"} => mut[k].val \in 1..(Stock + 2)
                /\ k = "ship" => mut[k].val \in Ships
                /\ k = "pay" => mut[k].val \in Pays
                /\ k = "wallet" => mut[k].val \in 0..1

(* Each recalculation that has not run is owed to a request of its own.    *)
Share(k) == IF Pending(k) THEN 1 ELSE 0
BudgetInv == recalc + Share("add") + Share("quantity") + Share("remove") <= sends

OrderRow == [ship : Ships \union {None}, addr : BOOLEAN, pay : Pays \union {None}]

(* The types, by the part of the state that an action disturbs.            *)
BackendInv == /\ server \in Cart /\ \A r \in Rows : server.rows[r] <= Stock
              /\ active \in BOOLEAN /\ ordered \in BOOLEAN
              /\ nextRow \in 1..(Cardinality(Rows) + 1)
              /\ orders \in Seq(OrderRow)
TabInv == /\ shown \in Cart \union {None} /\ fetch \in Query
          /\ fetch.pc = "answered" => fetch.data # None
MutInv == /\ DOMAIN mut = Kinds
          /\ \A k \in Kinds : mut[k] \in Mutation(k) /\ RequestInv(k)
CountInv == recalc \in Nat /\ sends \in 0..MaxSends /\ BudgetInv
PageInv == /\ inbox \subseteq 1..MaxCarts /\ wired \in BOOLEAN /\ at \in Pages
           /\ faults \in 0..MaxFaults
TypeInv == BackendInv /\ TabInv /\ MutInv /\ CountInv /\ PageInv

(* What will lead to another look at the server's cart.                    *)
Due == inbox # {} \/ recalc > 0 \/ mut["drop"].pc = "done"

(* A change of the items that is shown and not yet decided.                *)
Tentative == \E k \in {"add", "quantity"} :
               mut[k].pc \in {"sent", "failed"} /\ mut[k].prev # None

SettleInv ==
  /\ mut["drop"].pc \in {"sent", "done"} => shown # None
  /\ fetch.pc = "answered" /\ ~missed => fetch.data = server \/ Due
  /\ shown # None /\ ~rolledBack /\ ~missed =>
       shown = server \/ fetch.pc # "none" \/ Due \/ Tentative

(* From the payment step on the cart has an address and keeps it.          *)
AddressInv ==
  ~excused =>
    /\ active
    /\ \A i \in 1..Len(orders) : IsAddressed(orders[i])
    /\ Pending("order") => at \in {"payment", "paystack", "verify"}
    /\ at = "payment" \/ Pending("order") =>
         IsAddressed(server) /\ ~Pending("ship")

CartInv == TypeInv /\ SettleInv /\ AddressInv

-----------------------------------------------------------------------------
(* Values.                                                                 *)

LEMMA RowNumbers ==
  /\ Cardinality(Rows) \in Nat
  /\ Rows = 1..Cardinality(Rows)
BY CartSyncAssumption, FS_CardinalityType

LEMMA NoneIsNone ==
  /\ None \notin Rows /\ None \notin Nat /\ None \notin Cart
  /\ Stock \in Nat /\ MaxCarts \in Nat /\ MaxSends \in Nat /\ MaxFaults \in Nat
BY CartSyncAssumption, CartsAssumption, RowNumbers

LEMMA NewCartType ==
  ASSUME NEW n \in 1..MaxCarts, NEW p \in BOOLEAN
  PROVE  /\ NewCart(n, p) \in Cart
         /\ \A r \in Rows : NewCart(n, p).rows[r] <= Stock
BY NoneIsNone DEF NewCart, Cart

LEMMA CartFields ==
  ASSUME NEW c \in Cart
  PROVE  /\ c.num \in 1..MaxCarts /\ c.num \in Nat
         /\ c.rows \in [Rows -> 0..(Stock + 2)]
         /\ c.ship \in Ships \union {None} /\ c.pay \in Pays \union {None}
         /\ c.addr \in BOOLEAN /\ c.phone \in BOOLEAN /\ c.used \in 0..1
BY NoneIsNone DEF Cart

LEMMA CartUpdate ==
  ASSUME NEW c \in Cart
  PROVE  /\ \A s \in Ships : [c EXCEPT !.ship = s] \in Cart
         /\ \A b \in BOOLEAN : [c EXCEPT !.addr = b] \in Cart
         /\ [c EXCEPT !.phone = TRUE] \in Cart
         /\ \A p \in Pays : [c EXCEPT !.pay = p] \in Cart
         /\ \A u \in 0..1 : [c EXCEPT !.used = u] \in Cart
<1>1. \A s \in Ships : [c EXCEPT !.ship = s] \in Cart
  BY DEF Cart
<1>2. \A b \in BOOLEAN : [c EXCEPT !.addr = b] \in Cart
  BY DEF Cart
<1>3. [c EXCEPT !.phone = TRUE] \in Cart
  BY DEF Cart
<1>4. \A p \in Pays : [c EXCEPT !.pay = p] \in Cart
  BY DEF Cart
<1>5. \A u \in 0..1 : [c EXCEPT !.used = u] \in Cart
  BY DEF Cart
<1> QED BY <1>1, <1>2, <1>3, <1>4, <1>5

LEMMA RowUpdate ==
  ASSUME NEW c \in Cart, NEW r \in Rows, NEW q \in 0..(Stock + 2)
  PROVE  /\ [c EXCEPT !.rows[r] = q] \in Cart
         /\ [c EXCEPT !.rows[r] = q].rows[r] = q
         /\ \A s \in Rows \ {r} : [c EXCEPT !.rows[r] = q].rows[s] = c.rows[s]
         /\ [c EXCEPT !.rows[r] = q].ship = c.ship
         /\ [c EXCEPT !.rows[r] = q].addr = c.addr
BY DEF Cart

(* calculate_totals writes the method of payment only.                     *)
LEMMA RecalculatedType ==
  ASSUME NEW c \in Cart
  PROVE  /\ Recalculated(c) \in Cart
         /\ Recalculated(c).rows = c.rows
         /\ Recalculated(c).ship = c.ship /\ Recalculated(c).addr = c.addr
<1>1. Recalculated(c) \in {c, [c EXCEPT !.pay = "WALLET"]}
  BY DEF Recalculated
<1>2. CASE Recalculated(c) = c
  BY <1>2
<1>3. CASE Recalculated(c) = [c EXCEPT !.pay = "WALLET"]
  BY <1>3 DEF Cart, Pays
<1> QED BY <1>1, <1>2, <1>3

LEMMA FetchTypes ==
  /\ NoFetch \in Query /\ Asked \in Query
  /\ \A c \in Cart : [pc |-> "answered", data |-> c] \in Query
BY DEF NoFetch, Asked, Query

LEMMA QueryFields ==
  ASSUME NEW q \in Query
  PROVE  q.pc \in {"none", "asked", "answered"} /\ q.data \in Cart \union {None}
BY DEF Query

LEMMA MutationTypes ==
  ASSUME NEW k \in Kinds
  PROVE  /\ NoMutation \in Mutation(k)
         /\ \A row \in Rows \union {None}, val \in Values(k) \union {None},
               prev \in Cart \union {None} :
              [pc |-> "sent", row |-> row, val |-> val, prev |-> prev]
                \in Mutation(k)
         /\ \A m \in Mutation(k) :
              /\ m.prev \in Cart \union {None}
              /\ \A p \in {"idle", "sent", "orphan", "done", "failed"} :
                   [m EXCEPT !.pc = p] \in Mutation(k)
              /\ [m EXCEPT !.pc = "orphan", !.prev = None] \in Mutation(k)
<1> DEFINE V == Values(k)
<1>0. Mutation(k) = [pc   : {"idle", "sent", "orphan", "done", "failed"},
                     row  : Rows \union {None},
                     val  : V \union {None},
                     prev : Cart \union {None}]
  BY DEF Mutation
<1> HIDE DEF V
<1>1. NoMutation \in Mutation(k)
  BY <1>0 DEF NoMutation
<1>2. \A row \in Rows \union {None}, val \in V \union {None},
         prev \in Cart \union {None} :
        [pc |-> "sent", row |-> row, val |-> val, prev |-> prev] \in Mutation(k)
  BY <1>0
<1>3. ASSUME NEW m \in Mutation(k)
      PROVE  /\ m.prev \in Cart \union {None}
             /\ \A p \in {"idle", "sent", "orphan", "done", "failed"} :
                  [m EXCEPT !.pc = p] \in Mutation(k)
             /\ [m EXCEPT !.pc = "orphan", !.prev = None] \in Mutation(k)
  <2>1. m.prev \in Cart \union {None}
    BY <1>0
  <2>2. \A p \in {"idle", "sent", "orphan", "done", "failed"} :
          [m EXCEPT !.pc = p] \in Mutation(k)
    BY <1>0
  <2>3. [m EXCEPT !.pc = "orphan", !.prev = None] \in Mutation(k)
    <3> DEFINE n == [m EXCEPT !.pc = "orphan"]
    <3>1. n \in Mutation(k)
      BY <2>2
    <3>2. [m EXCEPT !.pc = "orphan", !.prev = None] = [n EXCEPT !.prev = None]
      OBVIOUS
    <3> HIDE DEF n
    <3>3. [n EXCEPT !.prev = None] \in Mutation(k)
      BY <1>0, <3>1
    <3> QED BY <3>2, <3>3
  <2> QED BY <2>1, <2>2, <2>3
<1> QED BY <1>1, <1>2, <1>3 DEF V


LEMMA ValuesOf ==
  /\ Values("add") = 1..(Stock + 2) /\ Values("quantity") = 1..(Stock + 2)
  /\ Values("wallet") = 0..1 /\ Values("ship") = Ships /\ Values("pay") = Pays
BY DEF Values

-----------------------------------------------------------------------------
(* The parts of the invariant depend on a part of the state each.          *)

LEMMA Untouched ==
  /\ BackendInv /\ UNCHANGED <<server, active, ordered, nextRow, orders>>
       => BackendInv'
  /\ TabInv /\ UNCHANGED <<shown, fetch>> => TabInv'
  /\ MutInv /\ UNCHANGED mut => MutInv'
  /\ CountInv /\ UNCHANGED <<recalc, sends, mut>> => CountInv'
  /\ PageInv /\ UNCHANGED <<inbox, wired, at, faults>> => PageInv'
<1>1. BackendInv /\ UNCHANGED <<server, active, ordered, nextRow, orders>>
        => BackendInv'
  BY DEF BackendInv
<1>2. TabInv /\ UNCHANGED <<shown, fetch>> => TabInv'
  BY DEF TabInv
<1>3. MutInv /\ UNCHANGED mut => MutInv'
  BY DEF MutInv, RequestInv, Pending
<1>4. CountInv /\ UNCHANGED <<recalc, sends, mut>> => CountInv'
  BY DEF CountInv, BudgetInv, Share, Pending
<1>5. PageInv /\ UNCHANGED <<inbox, wired, at, faults>> => PageInv'
  BY DEF PageInv
<1> QED BY <1>1, <1>2, <1>3, <1>4, <1>5

LEMMA SettleUntouched ==
  /\ SettleInv /\ UNCHANGED <<server, recalc, shown, fetch, mut, inbox,
                              rolledBack, missed>> => SettleInv'
  /\ AddressInv /\ UNCHANGED <<server, active, orders, mut, at, excused>>
       => AddressInv'
<1>1. SettleInv /\ UNCHANGED <<server, recalc, shown, fetch, mut, inbox,
                               rolledBack, missed>> => SettleInv'
  BY DEF SettleInv, Due, Tentative
<1>2. AddressInv /\ UNCHANGED <<server, active, orders, mut, at, excused>>
        => AddressInv'
  BY DEF AddressInv, Pending, IsAddressed
<1> QED BY <1>1, <1>2

(* One mutation moves, the others stay.                                    *)
LEMMA MutUpdate ==
  ASSUME MutInv, NEW k \in Kinds, NEW m \in Mutation(k),
         mut' = [mut EXCEPT ![k] = m]
  PROVE  /\ DOMAIN mut' = Kinds
         /\ mut'[k] = m /\ \A j \in Kinds \ {k} : mut'[j] = mut[j]
         /\ \A j \in Kinds : mut'[j] \in Mutation(j)
BY DEF MutInv

(* A mutation that ends up with nothing on its way asks for nothing.       *)
LEMMA MutRests ==
  ASSUME MutInv, NEW k \in Kinds, NEW m \in Mutation(k),
         m.pc \notin {"sent", "orphan"}, mut' = [mut EXCEPT ![k] = m]
  PROVE  MutInv'
<1>1. \A j \in Kinds : RequestInv(j)'
  BY MutUpdate DEF MutInv, RequestInv, Pending
<1> QED BY <1>1, MutUpdate DEF MutInv

(* The answer is taken: the hook is free for the next request.             *)
LEMMA MutResets ==
  ASSUME MutInv, NEW k \in Kinds, mut' = [mut EXCEPT ![k] = NoMutation]
  PROVE  /\ MutInv' /\ mut'[k] = NoMutation
         /\ \A j \in Kinds \ {k} : mut'[j] = mut[j]
<1>1. NoMutation \in Mutation(k)
  BY MutationTypes
<1>2. NoMutation.pc \notin {"sent", "orphan"}
  BY DEF NoMutation
<1>3. MutInv'
  BY <1>1, <1>2, MutRests
<1>4. mut'[k] = NoMutation /\ \A j \in Kinds \ {k} : mut'[j] = mut[j]
  BY <1>1, MutUpdate
<1> QED BY <1>3, <1>4

LEMMA OutcomeOf ==
  ASSUME MutInv, NEW k \in Kinds, NEW pc \in {"done", "failed"}, Pending(k),
         Outcome(k, pc)
  PROVE  /\ MutInv' /\ ~Pending(k)'
         /\ \A j \in Kinds \ {k} : mut'[j] = mut[j]
         /\ mut[k].pc = "sent" => mut'[k].pc = pc /\ mut'[k].prev = mut[k].prev
         /\ mut[k].pc = "orphan" => mut'[k].pc = "idle"
<1> DEFINE m == IF mut[k].pc = "orphan" THEN NoMutation
                ELSE [mut[k] EXCEPT !.pc = pc]
<1>0. mut[k] \in Mutation(k) /\ k \in DOMAIN mut
  BY DEF MutInv
<1>1. m \in Mutation(k)
  BY <1>0, MutationTypes
<1>2. mut' = [mut EXCEPT ![k] = m]
  BY <1>0 DEF Outcome
<1>3. mut[k].pc = "sent" => m.pc = pc /\ m.prev = mut[k].prev
  BY <1>0 DEF Mutation
<1>4. mut[k].pc = "orphan" => m.pc = "idle"
  BY DEF NoMutation
<1>5. mut[k].pc \in {"sent", "orphan"}
  BY DEF Pending
<1> HIDE DEF m
<1>6. m.pc \notin {"sent", "orphan"}
  BY <1>3, <1>4, <1>5
<1>7. MutInv'
  BY <1>1, <1>2, <1>6, MutRests
<1>8. mut'[k] = m /\ \A j \in Kinds \ {k} : mut'[j] = mut[j]
  BY <1>1, <1>2, MutUpdate
<1> QED BY <1>3, <1>4, <1>6, <1>7, <1>8 DEF Pending

LEMMA SendOf ==
  ASSUME MutInv, NEW k \in Kinds, NEW row \in Rows \union {None},
         NEW val \in Values(k) \union {None}, NEW prev \in Cart \union {None},
         k \in {"quantity", "remove"} => row \in Rows,
         k \in {"add", "quantity"} => val \in 1..(Stock + 2),
         k = "ship" => val \in Ships, k = "pay" => val \in Pays,
         k = "wallet" => val \in 0..1,
         Send(k, row, val, prev)
  PROVE  /\ MutInv' /\ mut[k].pc = "idle"
         /\ mut'[k] = [pc |-> "sent", row |-> row, val |-> val, prev |-> prev]
         /\ \A j \in Kinds \ {k} : mut'[j] = mut[j]
<1> DEFINE m == [pc |-> "sent", row |-> row, val |-> val, prev |-> prev]
<1>1. m \in Mutation(k)
  BY MutationTypes
<1>2. mut' = [mut EXCEPT ![k] = m] /\ mut[k].pc = "idle"
  BY DEF Send
<1>3. m.row = row /\ m.val = val
  OBVIOUS
<1> HIDE DEF m
<1>4. /\ DOMAIN mut' = Kinds
      /\ mut'[k] = m /\ \A j \in Kinds \ {k} : mut'[j] = mut[j]
      /\ \A j \in Kinds : mut'[j] \in Mutation(j)
  BY <1>1, <1>2, MutUpdate
<1>5. \A j \in Kinds : RequestInv(j)'
  <2>1. \A j \in Kinds \ {k} : RequestInv(j)'
    BY <1>4 DEF MutInv, RequestInv, Pending
  <2>2. RequestInv(k)'
    BY <1>3, <1>4 DEF RequestInv
  <2> QED BY <2>1, <2>2
<1> QED BY <1>2, <1>4, <1>5 DEF MutInv, m


LEMMA ReloadOf ==
  ASSUME TypeInv, NEW page \in Pages, Reload(page)
  PROVE  /\ MutInv' /\ TabInv' /\ inbox' \subseteq 1..MaxCarts
         /\ wired' \in BOOLEAN /\ at' \in Pages
         /\ \A k \in Kinds : /\ Pending(k)' = Pending(k)
                             /\ mut'[k].pc \in {"idle", "orphan"}
<1> DEFINE Kept(k) == IF mut[k].pc = "sent"
                      THEN [mut[k] EXCEPT !.pc = "orphan", !.prev = None]
                      ELSE IF mut[k].pc = "orphan" THEN mut[k] ELSE NoMutation
<1>1. mut' = [k \in Kinds |-> Kept(k)]
  BY DEF Reload
<1>2. ASSUME NEW k \in Kinds
      PROVE  /\ Kept(k) \in Mutation(k)
             /\ Kept(k).pc \in {"idle", "orphan"}
             /\ Kept(k).pc = "orphan" <=> mut[k].pc \in {"sent", "orphan"}
             /\ Kept(k).pc = "orphan" =>
                  Kept(k).row = mut[k].row /\ Kept(k).val = mut[k].val
  <2>0. mut[k] \in Mutation(k)
    BY DEF TypeInv, MutInv
  <2>1. Kept(k) \in Mutation(k)
    BY <2>0, MutationTypes
  <2>2. CASE mut[k].pc = "sent"
    <3>1. /\ [mut[k] EXCEPT !.pc = "orphan", !.prev = None].pc = "orphan"
          /\ [mut[k] EXCEPT !.pc = "orphan", !.prev = None].row = mut[k].row
          /\ [mut[k] EXCEPT !.pc = "orphan", !.prev = None].val = mut[k].val
      BY <2>0 DEF Mutation
    <3> QED BY <2>1, <2>2, <3>1
  <2>3. CASE mut[k].pc = "orphan"
    BY <2>1, <2>3
  <2>4. CASE mut[k].pc \notin {"sent", "orphan"}
    BY <2>1, <2>4 DEF NoMutation
  <2> QED BY <2>2, <2>3, <2>4
<1> HIDE DEF Kept
<1>3. DOMAIN mut' = Kinds /\ \A k \in Kinds : mut'[k] = Kept(k)
  BY <1>1
<1>4. \A k \in Kinds : RequestInv(k)'
  BY <1>2, <1>3 DEF TypeInv, MutInv, RequestInv, Pending
<1>5. MutInv'
  BY <1>2, <1>3, <1>4 DEF MutInv
<1>6. TabInv'
  BY FetchTypes DEF Reload, TabInv, NoFetch
<1>7. \A k \in Kinds : Pending(k)' = Pending(k)
  BY <1>2, <1>3 DEF Pending
<1>8. \A k \in Kinds : mut'[k].pc \in {"idle", "orphan"}
  BY <1>2, <1>3
<1> QED BY <1>5, <1>6, <1>7, <1>8 DEF Reload

LEMMA TellOf ==
  ASSUME TypeInv, Tell
  PROVE  /\ inbox' \subseteq 1..MaxCarts
         /\ missed => missed' /\ inbox \subseteq inbox'
         /\ ~missed' => inbox' # {}
BY CartFields DEF Tell, TypeInv, BackendInv, PageInv

-----------------------------------------------------------------------------
(* The initial states.                                                     *)

LEMMA InitInv == ASSUME Init PROVE CartInv
<1>1. server \in Cart /\ \A r \in Rows : server.rows[r] <= Stock
  BY CartsAssumption DEF Init
<1>2. /\ Cardinality(Items(server)) \in Nat
      /\ Cardinality(Items(server)) <= Cardinality(Rows)
  BY CartSyncAssumption, FS_Subset, FS_CardinalityType DEF Items
<1>3. BackendInv
  <2>1. nextRow \in 1..(Cardinality(Rows) + 1)
    BY <1>2, RowNumbers DEF Init
  <2>2. orders \in Seq(OrderRow)
    BY DEF Init
  <2> QED BY <1>1, <2>1, <2>2 DEF Init, BackendInv
<1>4. TabInv
  BY FetchTypes DEF Init, TabInv, NoFetch
<1>5. \A k \in Kinds : mut[k] = NoMutation /\ ~Pending(k)
  BY DEF Init, Pending, NoMutation
<1>6. MutInv
  BY <1>5, MutationTypes DEF Init, MutInv, RequestInv
<1>7. CountInv
  BY <1>5, NoneIsNone DEF Init, CountInv, BudgetInv, Share, Kinds
<1>8. PageInv
  <2>1. faults \in 0..MaxFaults
    BY NoneIsNone DEF Init
  <2> QED BY <2>1 DEF Init, PageInv, Pages
<1>9. SettleInv
  BY <1>5 DEF Init, SettleInv, NoFetch, NoMutation, Kinds
<1>10. AddressInv
  BY <1>5 DEF Init, AddressInv, Kinds
<1> QED BY <1>3, <1>4, <1>6, <1>7, <1>8, <1>9, <1>10 DEF CartInv, TypeInv

-----------------------------------------------------------------------------
(* The query and the connection.                                           *)

LEMMA LoadStep == ASSUME CartInv, Load PROVE CartInv'
<1>1. TabInv'
  BY FetchTypes DEF CartInv, TypeInv, TabInv, Load, Asked
<1>2. TypeInv'
  BY <1>1, Untouched DEF CartInv, TypeInv, Load, backend
<1>3. SettleInv'
  BY DEF CartInv, SettleInv, Load, Asked, backend, history, Due
<1>4. AddressInv'
  BY SettleUntouched DEF CartInv, Load, backend, history
<1> QED BY <1>2, <1>3, <1>4 DEF CartInv

LEMMA CurrentType ==
  ASSUME TypeInv, Open(1)
  PROVE  /\ Current \in Cart /\ \A r \in Rows : Current.rows[r] <= Stock
         /\ active => Current = server
<1>1. server.num \in 1..MaxCarts /\ server.phone \in BOOLEAN /\ server.num \in Nat
  BY CartFields DEF TypeInv, BackendInv
<1>2. CASE active
  BY <1>2 DEF Current, TypeInv, BackendInv
<1>3. CASE ~active
  <2>1. server.num + 1 \in 1..MaxCarts
    BY <1>1, <1>3, NoneIsNone DEF Open
  <2> QED BY <1>1, <1>3, <2>1, NewCartType DEF Current
<1> QED BY <1>2, <1>3

LEMMA ServeCartStep == ASSUME CartInv, ServeCart PROVE CartInv'
<1> USE DEF CartInv
<1>1. Open(1)
  BY CartFields, NoneIsNone DEF TypeInv, BackendInv, ServeCart, Open
<1>2. /\ Current \in Cart /\ \A r \in Rows : Current.rows[r] <= Stock
      /\ active => Current = server
  BY <1>1, CurrentType
<1>3. server' = Current /\ fetch' = [pc |-> "answered", data |-> Current]
  BY DEF ServeCart, Current
<1>4. BackendInv'
  BY <1>2, <1>3, RowNumbers DEF TypeInv, BackendInv, ServeCart
<1>5. TabInv'
  BY <1>2, <1>3, FetchTypes, NoneIsNone DEF TypeInv, TabInv, ServeCart
<1>6. CountInv'
  BY DEF TypeInv, CountInv, BudgetInv, Share, Pending, ServeCart
<1>7. TypeInv'
  BY <1>4, <1>5, <1>6, Untouched DEF TypeInv, ServeCart
<1>8. SettleInv'
  BY <1>3 DEF SettleInv, ServeCart, history
<1>9. AddressInv'
  BY <1>2, <1>3 DEF AddressInv, ServeCart, history, Pending, IsAddressed
<1> QED BY <1>7, <1>8, <1>9

LEMMA CartArrivesStep == ASSUME CartInv, CartArrives PROVE CartInv'
<1> USE DEF CartInv
<1>1. fetch.data \in Cart
  BY QueryFields DEF TypeInv, TabInv, CartArrives
<1>2. TabInv'
  BY <1>1, FetchTypes DEF CartArrives, TabInv, NoFetch
<1>3. TypeInv'
  BY <1>2, Untouched DEF TypeInv, CartArrives, backend
<1>4. SettleInv'
  BY <1>1, NoneIsNone DEF SettleInv, CartArrives, NoFetch, backend, Due
<1>5. AddressInv'
  BY SettleUntouched DEF CartArrives, backend
<1> QED BY <1>3, <1>4, <1>5

LEMMA MessageStepKeeps ==
  ASSUME CartInv, NEW n \in inbox, Message(n) PROVE CartInv'
<1> USE DEF CartInv
<1>1. TabInv'
  BY FetchTypes DEF TypeInv, TabInv, Message, Asked
<1>2. PageInv'
  BY DEF TypeInv, PageInv, Message
<1>3. TypeInv'
  BY <1>1, <1>2, Untouched DEF TypeInv, Message, backend
<1>4. SettleInv'
  BY DEF SettleInv, Message, Asked, backend
<1>5. AddressInv'
  BY SettleUntouched DEF Message, backend
<1> QED BY <1>3, <1>4, <1>5

LEMMA ConnectStep == ASSUME CartInv, Connect PROVE CartInv'
<1> USE DEF CartInv
<1>1. PageInv'
  BY DEF TypeInv, PageInv, Connect, client
<1>2. TypeInv'
  BY <1>1, Untouched DEF TypeInv, Connect, backend, client
<1> QED BY <1>2, SettleUntouched DEF Connect, backend, client, history

LEMMA DisconnectStep == ASSUME CartInv, Disconnect PROVE CartInv'
<1> USE DEF CartInv
<1>1. PageInv'
  <2>1. inbox' \subseteq 1..MaxCarts /\ wired' \in BOOLEAN /\ at' = at
    BY DEF Disconnect, client
  <2>2. faults' \in 0..MaxFaults
    BY NoneIsNone DEF TypeInv, PageInv, Disconnect
  <2> QED BY <2>1, <2>2 DEF TypeInv, PageInv
<1>2. TypeInv'
  BY <1>1, Untouched DEF TypeInv, Disconnect, backend, client
<1>3. SettleInv'
  BY DEF SettleInv, Disconnect, backend, client, Due, Tentative
<1>4. AddressInv'
  BY SettleUntouched DEF Disconnect, backend, client
<1> QED BY <1>2, <1>3, <1>4


-----------------------------------------------------------------------------
(* The user's requests.                                                    *)

LEMMA SendCounts ==
  ASSUME TypeInv, NEW k \in Kinds, mut[k].pc = "idle", recalc' = recalc,
         sends < MaxSends, sends' = sends + 1,
         \A j \in Kinds \ {k} : mut'[j] = mut[j]
  PROVE  CountInv'
<1>1. \A j \in Kinds \ {k} : Share(j)' = Share(j)
  BY DEF Share, Pending
<1>2. Share(k) = 0 /\ Share(k)' \in 0..1
  BY DEF Share, Pending
<1>3. \A j \in Kinds : Share(j) \in 0..1 /\ Share(j)' \in 0..1
  BY DEF Share, Pending
<1>4. {"add", "quantity", "remove"} \subseteq Kinds
  BY DEF Kinds
<1>5. Share("add")' + Share("quantity")' + Share("remove")'
        <= Share("add") + Share("quantity") + Share("remove") + 1
  BY <1>1, <1>2, <1>3, <1>4
<1>6. recalc' + Share("add")' + Share("quantity")' + Share("remove")' <= sends'
  BY <1>3, <1>4, <1>5, NoneIsNone DEF TypeInv, CountInv, BudgetInv
<1>7. recalc' \in Nat /\ sends' \in 0..MaxSends
  BY NoneIsNone DEF TypeInv, CountInv
<1> QED BY <1>6, <1>7 DEF CountInv, BudgetInv

LEMMA AddToCartStep == ASSUME CartInv, AddToCart PROVE CartInv'
<1> USE DEF CartInv
<1>1. shown \in Cart \union {None} /\ 1 \in Values("add") /\ 1 \in 1..(Stock + 2)
      /\ "add" \in Kinds
  BY ValuesOf, NoneIsNone DEF TypeInv, TabInv, Kinds
<1>2. Send("add", None, 1, shown)
  BY DEF AddToCart
<1>3. /\ MutInv' /\ mut["add"].pc = "idle"
      /\ mut'["add"] = [pc |-> "sent", row |-> None, val |-> 1, prev |-> shown]
      /\ \A j \in Kinds \ {"add"} : mut'[j] = mut[j]
  BY <1>1, <1>2, SendOf DEF TypeInv
<1>4. shown' = shown /\ fetch' = NoFetch /\ rolledBack' = rolledBack
  BY NoneIsNone DEF AddToCart, Optimistic
<1>5. CountInv'
  BY <1>1, <1>2, <1>3, SendCounts DEF Send, backend
<1>6. TabInv'
  BY <1>4, FetchTypes DEF TypeInv, TabInv, NoFetch
<1>7. TypeInv'
  BY <1>2, <1>3, <1>5, <1>6, Untouched DEF TypeInv, Send, backend
<1>8. SettleInv'
  BY <1>2, <1>3, <1>4 DEF SettleInv, Send, NoFetch, Tentative, Kinds
<1>9. AddressInv'
  BY <1>2, <1>3 DEF AddressInv, Send, backend, Pending, IsAddressed, Kinds
<1> QED BY <1>7, <1>8, <1>9

LEMMA ChangeQuantityStep ==
  ASSUME CartInv, NEW r \in Rows, NEW q \in 1..(Stock + 2), ChangeQuantity(r, q)
  PROVE  CartInv'
<1> USE DEF CartInv
<1>1. shown \in Cart /\ q \in Values("quantity") /\ "quantity" \in Kinds
  BY ValuesOf DEF TypeInv, TabInv, ChangeQuantity, Kinds
<1>2. Send("quantity", r, q, shown)
  BY DEF ChangeQuantity
<1>3. /\ MutInv' /\ mut["quantity"].pc = "idle"
      /\ mut'["quantity"] = [pc |-> "sent", row |-> r, val |-> q, prev |-> shown]
      /\ \A j \in Kinds \ {"quantity"} : mut'[j] = mut[j]
  BY <1>1, <1>2, SendOf DEF TypeInv
<1>4. /\ shown' = [shown EXCEPT !.rows[r] = q] /\ fetch' = NoFetch
      /\ rolledBack' = rolledBack
  BY DEF ChangeQuantity, Optimistic
<1>5. shown' \in Cart
  BY <1>1, <1>4, RowUpdate, NoneIsNone
<1>6. CountInv'
  BY <1>1, <1>2, <1>3, SendCounts DEF Send, backend
<1>7. TabInv'
  BY <1>4, <1>5, FetchTypes DEF TabInv, NoFetch
<1>8. TypeInv'
  BY <1>2, <1>3, <1>6, <1>7, Untouched DEF TypeInv, Send, backend
<1>9. SettleInv'
  <2>1. Tentative'
    BY <1>1, <1>3, NoneIsNone DEF Tentative
  <2> QED BY <1>3, <1>4, <1>5, <2>1, NoneIsNone DEF SettleInv, NoFetch, Kinds
<1>10. AddressInv'
  BY <1>2, <1>3 DEF AddressInv, Send, backend, Pending, IsAddressed, Kinds
<1> QED BY <1>8, <1>9, <1>10

(* The requests that change nothing on the screen.                         *)
LEMMA PlainStep ==
  ASSUME CartInv, NEW k \in Kinds \ {"add", "quantity"},
         NEW row \in Rows \union {None}, NEW val \in Values(k) \union {None},
         k = "remove" => row \in Rows,
         k = "ship" => val \in Ships /\ at = "delivery",
         k = "pay" => val \in Pays, k = "wallet" => val \in 0..1,
         k = "order" => at = "payment",
         Plain(k, row, val)
  PROVE  CartInv'
<1> USE DEF CartInv
<1>1. Send(k, row, val, None) /\ shown # None
      /\ UNCHANGED <<shown, fetch, rolledBack>>
  BY DEF Plain
<1>2. /\ MutInv' /\ mut[k].pc = "idle"
      /\ mut'[k] = [pc |-> "sent", row |-> row, val |-> val, prev |-> None]
      /\ \A j \in Kinds \ {k} : mut'[j] = mut[j]
  BY <1>1, SendOf DEF TypeInv
<1>3. CountInv'
  BY <1>1, <1>2, SendCounts DEF Send, backend
<1>4. TypeInv'
  BY <1>1, <1>2, <1>3, Untouched DEF TypeInv, Send, backend
<1>5. SettleInv'
  <2>1. /\ mut'["add"] = mut["add"] /\ mut'["quantity"] = mut["quantity"]
        /\ mut'["drop"].pc = "done" <=> mut["drop"].pc = "done"
    BY <1>2 DEF Kinds
  <2>2. (Tentative' <=> Tentative) /\ (Due' <=> Due)
    BY <1>1, <2>1 DEF Tentative, Due, Send, backend
  <2> QED BY <1>1, <2>2 DEF SettleInv, Send, backend
<1>6. AddressInv'
  <2>1. CASE k = "ship"
    BY <1>1, <1>2, <2>1 DEF AddressInv, Send, backend, Pending, IsAddressed, Kinds
  <2>2. CASE k = "order"
    BY <1>1, <1>2, <2>2 DEF AddressInv, Send, backend, Pending, IsAddressed, Kinds
  <2>3. CASE k \notin {"ship", "order"}
    BY <1>1, <1>2, <2>3 DEF AddressInv, Send, backend, Pending, IsAddressed, Kinds
  <2> QED BY <2>1, <2>2, <2>3
<1> QED BY <1>4, <1>5, <1>6

LEMMA RequestStep ==
  ASSUME CartInv,
         \/ ChooseAddress \/ EnterAddress \/ DeleteAddress
         \/ GiveContact \/ SwitchWallet
         \/ PlaceByTransfer \/ PlaceForPickup \/ PlaceForNothing
         \/ \E r \in Rows : RemoveItem(r)
         \/ \E s \in Ships : ChooseShipping(s)
         \/ \E p \in Pays : ChoosePayment(p)
  PROVE  CartInv'
<1>1. ASSUME NEW k \in {"address", "form", "drop", "phone"},
             Plain(k, None, None)
      PROVE  CartInv'
  BY <1>1, PlainStep DEF Kinds
<1>2. ASSUME Plain("order", None, None), at = "payment" PROVE CartInv'
  BY <1>2, PlainStep DEF Kinds
<1>3. ASSUME NEW r \in Rows, RemoveItem(r) PROVE CartInv'
  BY <1>3, PlainStep DEF Kinds, RemoveItem
<1>4. ASSUME NEW s \in Ships, ChooseShipping(s) PROVE CartInv'
  BY <1>4, PlainStep, ValuesOf DEF Kinds, ChooseShipping, On
<1>5. ASSUME NEW p \in Pays, ChoosePayment(p) PROVE CartInv'
  BY <1>5, PlainStep, ValuesOf DEF Kinds, ChoosePayment
<1>6. CASE SwitchWallet
  <2>1. shown.used \in 0..1
    BY <1>6, CartFields DEF SwitchWallet, On, CartInv, TypeInv, TabInv
  <2>2. 1 - shown.used \in 0..1 /\ 1 - shown.used \in Values("wallet")
    BY <2>1, ValuesOf
  <2>3. Plain("wallet", None, 1 - shown.used)
    BY <1>6 DEF SwitchWallet
  <2> DEFINE u == 1 - shown.used
  <2> HIDE DEF u
  <2> QED BY <2>2, <2>3, PlainStep DEF Kinds, u
<1>7. CASE ChooseAddress \/ EnterAddress \/ DeleteAddress \/ GiveContact
  BY <1>1, <1>7 DEF ChooseAddress, EnterAddress, DeleteAddress, GiveContact
<1>8. CASE PlaceByTransfer \/ PlaceForPickup \/ PlaceForNothing
  BY <1>2, <1>8 DEF PlaceByTransfer, PlaceForPickup, PlaceForNothing, PlaceBy, On
<1> QED BY <1>3, <1>4, <1>5, <1>6, <1>7, <1>8


-----------------------------------------------------------------------------
(* The server.                                                             *)

LEMMA OutcomeCounts ==
  ASSUME TypeInv, NEW k \in Kinds, ~Pending(k)', sends' = sends,
         \A j \in Kinds \ {k} : mut'[j] = mut[j],
         \/ recalc' \in {recalc, 0}
         \/ /\ Pending(k) /\ k \in {"add", "quantity", "remove"}
            /\ recalc' \in {recalc + 1, 1}
  PROVE  CountInv'
<1>1. \A j \in Kinds \ {k} : Share(j)' = Share(j)
  BY DEF Share, Pending
<1>2. Share(k)' = 0 /\ (Pending(k) => Share(k) = 1)
  BY DEF Share
<1>3. \A j \in Kinds : Share(j) \in 0..1 /\ Share(j)' \in 0..1
  BY DEF Share, Pending
<1>4. {"add", "quantity", "remove"} \subseteq Kinds
  BY DEF Kinds
<1>5. recalc \in Nat /\ recalc' \in Nat /\ sends' \in 0..MaxSends
  BY DEF TypeInv, CountInv
<1>6. recalc + Share("add") + Share("quantity") + Share("remove") <= sends
  BY DEF TypeInv, CountInv, BudgetInv
<1>7. recalc' + Share("add")' + Share("quantity")' + Share("remove")' <= sends'
  <2>1. CASE recalc' \in {recalc, 0}
    <3>1. \A j \in Kinds : Share(j)' <= Share(j)
      BY <1>1, <1>2, <1>3
    <3> QED BY <2>1, <3>1, <1>3, <1>4, <1>5, <1>6, NoneIsNone
  <2>2. CASE /\ Pending(k) /\ k \in {"add", "quantity", "remove"}
             /\ recalc' \in {recalc + 1, 1}
    <3>1. Share("add")' + Share("quantity")' + Share("remove")' + 1
            <= Share("add") + Share("quantity") + Share("remove")
      BY <1>1, <1>2, <1>3, <1>4, <2>2
    <3> QED BY <2>2, <3>1, <1>3, <1>4, <1>5, <1>6, NoneIsNone
  <2> QED BY <2>1, <2>2
<1> QED BY <1>5, <1>7 DEF CountInv, BudgetInv

LEMMA ServeItemStep ==
  ASSUME CartInv, NEW k \in Kinds, ServeItem(k)
  PROVE  CartInv'
<1> USE DEF CartInv
<1> DEFINE m == mut[k]
           row == IF k = "add" THEN (IF active THEN nextRow ELSE 1) ELSE m.row
           found == active /\ server.rows[row] > 0
           ok == \/ k = "add" /\ row \in Rows /\ m.val <= Stock
                 \/ k = "quantity" /\ found /\ m.val <= Stock
                 \/ k = "remove" /\ found
           q == IF k = "remove" THEN 0 ELSE m.val
<1>1. /\ k \in {"add", "quantity", "remove"} /\ Pending(k)
      /\ Outcome(k, IF ok THEN "done" ELSE "failed")
      /\ UNCHANGED <<orders, shown, fetch, at, inbox, wired, sends, faults,
                     history>>
  BY DEF ServeItem, Pending
<1>2. /\ MutInv' /\ ~Pending(k)'
      /\ \A j \in Kinds \ {k} : mut'[j] = mut[j]
      /\ mut[k].pc = "sent" => mut'[k].pc \in {"done", "failed"}
                               /\ mut'[k].prev = mut[k].prev
      /\ mut[k].pc = "orphan" => mut'[k].pc = "idle"
      /\ mut[k].pc = "sent" /\ ~ok => mut'[k].pc = "failed"
  BY <1>1, OutcomeOf DEF TypeInv
<1>3. CASE ok
  <2>1. Open(1) /\ row \in Rows /\ q \in 0..(Stock + 2) /\ q <= Stock
    <3>1. RequestInv(k)
      BY DEF TypeInv, MutInv
    <3>2. row \in Rows
      BY <1>1, <1>3, <3>1 DEF RequestInv
    <3>3. q \in 0..(Stock + 2) /\ q <= Stock
      BY <1>1, <1>3, <3>1, NoneIsNone DEF RequestInv
    <3>4. Open(1)
      BY <1>1, <1>3 DEF ServeItem, Open
    <3> QED BY <3>2, <3>3, <3>4
  <2>2. /\ server' = [Current EXCEPT !.rows[row] = q]
        /\ nextRow' = IF k = "add" THEN row + 1 ELSE nextRow
        /\ recalc' = (IF active THEN recalc ELSE 0) + 1
        /\ active' = TRUE /\ ordered' = (ordered /\ active)
    BY <1>3 DEF ServeItem, Renewed
  <2> HIDE DEF row, q, ok
  <2>3. /\ Current \in Cart /\ \A r \in Rows : Current.rows[r] <= Stock
        /\ active => Current = server
    BY <2>1, CurrentType
  <2>4. /\ server' \in Cart /\ \A r \in Rows : server'.rows[r] <= Stock
        /\ server'.ship = Current.ship /\ server'.addr = Current.addr
    BY <2>1, <2>2, <2>3, RowUpdate
  <2>5. nextRow' \in 1..(Cardinality(Rows) + 1)
    BY <2>1, <2>2, RowNumbers DEF TypeInv, BackendInv
  <2>6. BackendInv'
    BY <1>1, <2>2, <2>4, <2>5 DEF TypeInv, BackendInv
  <2>7. CountInv'
    <3>1. recalc' \in {recalc + 1, 1}
      BY <2>2
    <3> QED BY <1>1, <1>2, <3>1, OutcomeCounts
  <2>8. TypeInv'
    BY <1>1, <1>2, <2>6, <2>7, Untouched DEF TypeInv
  <2>9. SettleInv'
    <3>1. recalc' > 0
      BY <2>2 DEF TypeInv, CountInv
    <3>2. mut'["drop"] = mut["drop"]
      BY <1>1, <1>2 DEF Kinds
    <3> QED BY <1>1, <3>1, <3>2 DEF SettleInv, Due, history
  <2>10. AddressInv'
    <3>1. mut'["order"] = mut["order"] /\ mut'["ship"] = mut["ship"]
      BY <1>1, <1>2 DEF Kinds
    <3> QED BY <1>1, <2>2, <2>3, <2>4, <3>1
            DEF AddressInv, history, Pending, IsAddressed
  <2> QED BY <2>8, <2>9, <2>10
<1>4. CASE ~ok
  <2>1. UNCHANGED <<server, active, ordered, nextRow, recalc>>
    BY <1>4 DEF ServeItem
  <2>2. CountInv'
    BY <1>1, <1>2, <2>1, OutcomeCounts
  <2>3. TypeInv'
    BY <1>1, <1>2, <2>1, <2>2, Untouched DEF TypeInv
  <2>4. SettleInv'
    <3>1. mut'["drop"] = mut["drop"]
      BY <1>1, <1>2 DEF Kinds
    <3>2. mut[k].pc \in {"sent", "orphan"}
      BY <1>1 DEF Pending
    <3> HIDE DEF ok
    <3>3. Tentative => Tentative'
      BY <1>1, <1>2, <1>4, <3>2 DEF Tentative, Kinds
    <3>4. Due' <=> Due
      BY <1>1, <2>1, <3>1 DEF Due
    <3> QED BY <1>1, <2>1, <3>1, <3>3, <3>4 DEF SettleInv, history
  <2>5. AddressInv'
    <3>1. mut'["order"] = mut["order"] /\ mut'["ship"] = mut["ship"]
      BY <1>1, <1>2 DEF Kinds
    <3> QED BY <1>1, <2>1, <3>1 DEF AddressInv, history, Pending, IsAddressed
  <2> QED BY <2>3, <2>4, <2>5
<1> QED BY <1>3, <1>4

LEMMA RecalculateStep == ASSUME CartInv, Recalculate PROVE CartInv'
<1> USE DEF CartInv
<1>1. server \in Cart /\ recalc \in Nat
  BY DEF TypeInv, BackendInv, CountInv
<1>2. /\ server' = Recalculated(server) /\ server' \in Cart
      /\ server'.rows = server.rows
      /\ server'.ship = server.ship /\ server'.addr = server.addr
      /\ recalc' = recalc - 1 /\ recalc' \in Nat
  BY <1>1, RecalculatedType DEF Recalculate
<1>3. /\ inbox' \subseteq 1..MaxCarts
      /\ missed => missed'
      /\ ~missed' => inbox' # {}
  BY TellOf DEF Recalculate
<1>4. BackendInv'
  BY <1>2 DEF TypeInv, BackendInv, Recalculate
<1>5. CountInv'
  <2>1. \A j \in Kinds : Share(j) \in 0..1 /\ Share(j)' = Share(j)
    BY DEF Share, Pending, Recalculate, client
  <2>2. {"add", "quantity", "remove"} \subseteq Kinds
    BY DEF Kinds
  <2>3. sends' = sends
    BY DEF Recalculate
  <2> QED BY <1>1, <1>2, <2>1, <2>2, <2>3, NoneIsNone
          DEF TypeInv, CountInv, BudgetInv
<1>6. TypeInv'
  BY <1>3, <1>4, <1>5, Untouched DEF TypeInv, PageInv, Recalculate, client
<1>7. SettleInv'
  BY <1>3 DEF SettleInv, Recalculate, client, Due
<1>8. AddressInv'
  BY <1>2 DEF AddressInv, Recalculate, client, Pending, IsAddressed
<1> QED BY <1>6, <1>7, <1>8

LEMMA RecalculationFailsStep ==
  ASSUME CartInv, RecalculationFails PROVE CartInv'
<1> USE DEF CartInv
<1>1. CountInv'
  <2>1. \A j \in Kinds : Share(j) \in 0..1 /\ Share(j)' = Share(j)
    BY DEF Share, Pending, RecalculationFails, client
  <2>2. {"add", "quantity", "remove"} \subseteq Kinds
    BY DEF Kinds
  <2>3. sends' = sends /\ recalc' = recalc - 1 /\ recalc > 0
    BY DEF RecalculationFails
  <2> QED BY <2>1, <2>2, <2>3, NoneIsNone DEF TypeInv, CountInv, BudgetInv
<1>2. PageInv'
  <2>1. faults' \in 0..MaxFaults
    BY NoneIsNone DEF TypeInv, PageInv, RecalculationFails
  <2> QED BY <2>1 DEF TypeInv, PageInv, RecalculationFails, client
<1>3. TypeInv'
  BY <1>1, <1>2, Untouched DEF TypeInv, RecalculationFails, client
<1>4. SettleInv'
  BY DEF SettleInv, RecalculationFails, client
<1>5. AddressInv'
  BY SettleUntouched DEF RecalculationFails, client
<1> QED BY <1>3, <1>4, <1>5

LEMMA ServeDetailsStep ==
  ASSUME CartInv, NEW k \in Kinds, ServeDetails(k)
  PROVE  CartInv'
<1> USE DEF CartInv
<1>1. /\ k \in {"ship", "address", "form", "phone", "pay", "wallet"}
      /\ Pending(k) /\ Open(1) /\ Outcome(k, "done") /\ Renewed
      /\ nextRow' = (IF active THEN nextRow ELSE 1)
      /\ recalc' = (IF active THEN recalc ELSE 0)
      /\ Tell
      /\ UNCHANGED <<orders, shown, fetch, at, wired, sends, faults,
                     rolledBack, excused>>
  BY DEF ServeDetails, Pending
<1>2. /\ Current \in Cart /\ \A r \in Rows : Current.rows[r] <= Stock
      /\ active => Current = server
  BY <1>1, CurrentType
<1>3. PICK d \in Cart : /\ server' = Recalculated(d) /\ d.rows = Current.rows
                        /\ k # "ship" => d.ship = Current.ship
                        /\ d.addr \in {Current.addr, TRUE}
  <2>1. RequestInv(k)
    BY DEF TypeInv, MutInv
  <2>2. CASE k = "ship"
    <3> DEFINE d == [Current EXCEPT !.ship = mut[k].val]
    <3>1. server' = Recalculated(d)
      BY <2>2 DEF ServeDetails
    <3>2. d \in Cart /\ d.rows = Current.rows /\ d.addr = Current.addr
      BY <1>1, <1>2, <2>1, <2>2, CartUpdate DEF RequestInv, Cart
    <3> HIDE DEF d
    <3> QED BY <2>2, <3>1, <3>2
  <2>3. CASE k \in {"address", "form"}
    <3> DEFINE d == [Current EXCEPT !.addr = TRUE]
    <3>1. server' = Recalculated(d)
      BY <2>3 DEF ServeDetails
    <3>2. /\ d \in Cart /\ d.rows = Current.rows /\ d.addr = TRUE
          /\ d.ship = Current.ship
      BY <1>2, CartUpdate DEF Cart
    <3> HIDE DEF d
    <3> QED BY <3>1, <3>2
  <2>4. CASE k = "phone"
    <3> DEFINE d == [Current EXCEPT !.phone = TRUE]
    <3>1. server' = Recalculated(d)
      BY <2>4 DEF ServeDetails
    <3>2. /\ d \in Cart /\ d.rows = Current.rows /\ d.addr = Current.addr
          /\ d.ship = Current.ship
      BY <1>2, CartUpdate DEF Cart
    <3> HIDE DEF d
    <3> QED BY <3>1, <3>2
  <2>5. CASE k = "pay"
    <3> DEFINE d == [Current EXCEPT !.pay = mut[k].val]
    <3>1. server' = Recalculated(d)
      BY <2>5 DEF ServeDetails
    <3>2. /\ d \in Cart /\ d.rows = Current.rows /\ d.addr = Current.addr
          /\ d.ship = Current.ship
      BY <1>1, <1>2, <2>1, <2>5, CartUpdate DEF RequestInv, Cart
    <3> HIDE DEF d
    <3> QED BY <3>1, <3>2
  <2>6. CASE k = "wallet"
    <3> DEFINE d == [Current EXCEPT !.used = mut[k].val]
    <3>1. server' = Recalculated(d)
      BY <2>6 DEF ServeDetails
    <3>2. /\ d \in Cart /\ d.rows = Current.rows /\ d.addr = Current.addr
          /\ d.ship = Current.ship
      BY <1>1, <1>2, <2>1, <2>6, CartUpdate DEF RequestInv, Cart
    <3> HIDE DEF d
    <3> QED BY <3>1, <3>2
  <2> QED BY <1>1, <2>2, <2>3, <2>4, <2>5, <2>6
<1>4. /\ server' \in Cart /\ \A r \in Rows : server'.rows[r] <= Stock
      /\ k # "ship" => server'.ship = Current.ship
      /\ server'.addr \in {Current.addr, TRUE}
  BY <1>2, <1>3, RecalculatedType
<1>5. /\ MutInv' /\ ~Pending(k)'
      /\ \A j \in Kinds \ {k} : mut'[j] = mut[j]
  BY <1>1, OutcomeOf DEF TypeInv
<1>6. /\ inbox' \subseteq 1..MaxCarts
      /\ missed => missed'
      /\ ~missed' => inbox' # {}
  BY <1>1, TellOf
<1>7. BackendInv'
  BY <1>1, <1>4, RowNumbers DEF TypeInv, BackendInv, Renewed
<1>8. CountInv'
  BY <1>1, <1>5, OutcomeCounts
<1>9. TypeInv'
  BY <1>1, <1>5, <1>6, <1>7, <1>8, Untouched DEF TypeInv, PageInv
<1>10. SettleInv'
  <2>1. mut'["drop"] = mut["drop"]
    BY <1>1, <1>5 DEF Kinds
  <2> QED BY <1>1, <1>6, <2>1 DEF SettleInv, Due
<1>11. AddressInv'
  <2>1. mut'["order"] = mut["order"] /\ (Pending("ship")' => Pending("ship"))
    BY <1>1, <1>5 DEF Kinds, Pending
  <2>2. k = "ship" => Pending("ship")
    BY <1>1
  <2> QED BY <1>1, <1>2, <1>4, <2>1, <2>2
          DEF AddressInv, Pending, IsAddressed, Renewed
<1> QED BY <1>9, <1>10, <1>11


LEMMA ServeDropStep == ASSUME CartInv, ServeDrop PROVE CartInv'
<1> USE DEF CartInv
<1>1. /\ "drop" \in Kinds /\ Pending("drop") /\ Outcome("drop", "done")
      /\ mut["drop"].pc \in {"sent", "orphan"}
  BY DEF ServeDrop, Pending, Kinds
<1>2. /\ MutInv' /\ ~Pending("drop")'
      /\ \A j \in Kinds \ {"drop"} : mut'[j] = mut[j]
      /\ mut["drop"].pc = "sent" => mut'["drop"].pc = "done"
      /\ mut["drop"].pc = "orphan" => mut'["drop"].pc = "idle"
  BY <1>1, OutcomeOf DEF TypeInv
<1>3. BackendInv'
  <2>1. /\ server' \in Cart /\ server'.rows = server.rows
    BY CartUpdate DEF TypeInv, BackendInv, ServeDrop, Cart
  <2> QED BY <2>1 DEF TypeInv, BackendInv, ServeDrop
<1>4. CountInv'
  BY <1>1, <1>2, OutcomeCounts DEF ServeDrop
<1>5. TypeInv'
  BY <1>2, <1>3, <1>4, Untouched DEF TypeInv, ServeDrop
<1>6. SettleInv'
  BY <1>1, <1>2 DEF SettleInv, ServeDrop, Due
<1>7. AddressInv'
  BY DEF AddressInv, ServeDrop
<1> QED BY <1>5, <1>6, <1>7

LEMMA OrderType ==
  ASSUME server \in Cart
  PROVE  /\ Order \in OrderRow
         /\ IsAddressed(server) => IsAddressed(Order)
BY CartFields DEF Order, OrderRow, IsAddressed

LEMMA ServeOrderStep == ASSUME CartInv, ServeOrder PROVE CartInv'
<1> USE DEF CartInv
<1> DEFINE ok == active /\ ~ordered /\ Items(server) # {}
<1>1. /\ "order" \in Kinds /\ Pending("order")
      /\ Outcome("order", IF ok THEN "done" ELSE "failed")
      /\ UNCHANGED <<server, active, nextRow, recalc, shown, fetch, at, wired,
                     sends, faults, rolledBack, excused>>
  BY DEF ServeOrder, Pending, Kinds
<1>2. /\ MutInv' /\ ~Pending("order")'
      /\ \A j \in Kinds \ {"order"} : mut'[j] = mut[j]
  BY <1>1, OutcomeOf DEF TypeInv
<1>3. /\ mut'["add"] = mut["add"] /\ mut'["quantity"] = mut["quantity"]
      /\ mut'["drop"] = mut["drop"] /\ mut'["ship"] = mut["ship"]
  BY <1>2 DEF Kinds
<1>4. CountInv'
  BY <1>1, <1>2, OutcomeCounts
<1>5. Order \in OrderRow /\ orders \in Seq(OrderRow)
      /\ (IsAddressed(server) => IsAddressed(Order))
  BY OrderType DEF TypeInv, BackendInv
<1>6. CASE ok
  <2>1. orders' = Append(orders, Order) /\ ordered' = TRUE /\ Tell
    BY <1>6 DEF ServeOrder
  <2>2. /\ inbox' \subseteq 1..MaxCarts
        /\ missed => missed'
        /\ ~missed' => inbox' # {}
    BY <2>1, TellOf
  <2>3. BackendInv'
    BY <1>1, <1>5, <2>1 DEF TypeInv, BackendInv
  <2>4. TypeInv'
    BY <1>1, <1>2, <1>4, <2>2, <2>3, Untouched DEF TypeInv, PageInv
  <2>5. SettleInv'
    BY <1>1, <1>3, <2>2 DEF SettleInv, Due
  <2>6. AddressInv'
    <3>1. ASSUME ~excused
          PROVE  \A i \in 1..Len(orders') : IsAddressed(orders'[i])
      <4>1. IsAddressed(Order) /\ \A i \in 1..Len(orders) : IsAddressed(orders[i])
        BY <1>1, <1>5, <3>1 DEF AddressInv
      <4> QED BY <1>5, <2>1, <4>1
    <3> QED BY <1>1, <1>2, <1>3, <3>1 DEF AddressInv, Pending, IsAddressed
  <2> QED BY <2>4, <2>5, <2>6
<1>7. CASE ~ok
  <2>1. UNCHANGED <<orders, ordered, inbox, missed>>
    BY <1>7 DEF ServeOrder
  <2>2. TypeInv'
    BY <1>1, <1>2, <1>4, <2>1, Untouched DEF TypeInv
  <2>3. SettleInv'
    BY <1>1, <1>3, <2>1 DEF SettleInv, Due, Tentative
  <2>4. AddressInv'
    BY <1>1, <1>2, <1>3, <2>1 DEF AddressInv, Pending, IsAddressed
  <2> QED BY <2>2, <2>3, <2>4
<1> QED BY <1>6, <1>7

LEMMA ConvertStep == ASSUME CartInv, Convert PROVE CartInv'
<1> USE DEF CartInv
<1>1. BackendInv'
  BY DEF TypeInv, BackendInv, Convert
<1>2. TypeInv'
  BY <1>1, Untouched DEF TypeInv, Convert, client
<1> QED BY <1>2 DEF SettleInv, AddressInv, Convert, client

LEMMA ElsewhereStep ==
  ASSUME CartInv, NEW s \in Ships, Elsewhere(s)
  PROVE  CartInv'
<1> USE DEF CartInv
<1> DEFINE d == [server EXCEPT !.ship = s]
<1>1. d \in Cart /\ d.rows = server.rows
  BY CartUpdate DEF TypeInv, BackendInv, Cart
<1>2. server' = Recalculated(d)
  BY DEF Elsewhere
<1> HIDE DEF d
<1>3. server' \in Cart /\ server'.rows = server.rows
  BY <1>1, <1>2, RecalculatedType
<1>4. /\ inbox' \subseteq 1..MaxCarts
      /\ missed => missed'
      /\ ~missed' => inbox' # {}
  BY TellOf DEF Elsewhere
<1>5. BackendInv'
  BY <1>3 DEF TypeInv, BackendInv, Elsewhere
<1>6. CountInv'
  <2>1. \A j \in Kinds : Share(j) \in 0..1 /\ Share(j)' = Share(j)
    BY DEF Share, Pending, Elsewhere, client
  <2>2. {"add", "quantity", "remove"} \subseteq Kinds
    BY DEF Kinds
  <2>3. sends' = sends + 1 /\ recalc' = recalc /\ sends < MaxSends
    BY DEF Elsewhere
  <2> QED BY <2>1, <2>2, <2>3, NoneIsNone DEF TypeInv, CountInv, BudgetInv
<1>7. TypeInv'
  BY <1>4, <1>5, <1>6, Untouched DEF TypeInv, PageInv, Elsewhere, client
<1>8. SettleInv'
  BY <1>4 DEF SettleInv, Elsewhere, client, Due
<1>9. AddressInv'
  BY DEF AddressInv, Elsewhere
<1> QED BY <1>7, <1>8, <1>9

-----------------------------------------------------------------------------
(* The answers.                                                            *)

LEMMA SucceedsStep ==
  ASSUME CartInv, NEW k \in Kinds, Succeeds(k)
  PROVE  CartInv'
<1> USE DEF CartInv
<1>1. /\ mut[k].pc = "done" /\ k # "order"
      /\ mut' = [mut EXCEPT ![k] = NoMutation]
      /\ fetch' = (IF k = "drop" /\ shown # None THEN Asked ELSE fetch)
      /\ UNCHANGED <<server, active, ordered, nextRow, recalc, orders, shown,
                     at, inbox, wired, sends, faults, rolledBack, missed,
                     excused>>
  BY DEF Succeeds, backend, history
<1>2. /\ MutInv' /\ mut'[k] = NoMutation
      /\ \A j \in Kinds \ {k} : mut'[j] = mut[j]
  BY <1>1, MutResets DEF TypeInv
<1>3. ~Pending(k) /\ ~Pending(k)'
  BY <1>1, <1>2 DEF Pending, NoMutation
<1>4. CountInv'
  BY <1>1, <1>2, <1>3, OutcomeCounts
<1>5. TabInv'
  BY <1>1, FetchTypes DEF TypeInv, TabInv, Asked
<1>6. TypeInv'
  BY <1>1, <1>2, <1>4, <1>5, Untouched DEF TypeInv
<1>7. Tentative => Tentative'
  BY <1>1, <1>2 DEF Tentative, Kinds
<1>8. SettleInv'
  <2>1. CASE k = "drop"
    BY <1>1, <1>2, <2>1 DEF SettleInv, Asked, NoMutation
  <2>2. CASE k # "drop"
    <3>1. mut'["drop"] = mut["drop"]
      BY <1>2, <2>2 DEF Kinds
    <3> QED BY <1>1, <1>7, <2>2, <3>1 DEF SettleInv, Due
  <2> QED BY <2>1, <2>2
<1>9. AddressInv'
  <2>1. mut'["order"] = mut["order"] /\ (Pending("ship")' => Pending("ship"))
    BY <1>1, <1>2, <1>3 DEF Kinds, Pending
  <2> QED BY <1>1, <2>1 DEF AddressInv, Pending, IsAddressed
<1> QED BY <1>6, <1>8, <1>9

LEMMA ReloadCounts ==
  ASSUME TypeInv, recalc' = recalc, sends' = sends,
         \A k \in Kinds : Pending(k)' = Pending(k)
  PROVE  CountInv'
<1>1. \A k \in Kinds : Share(k)' = Share(k)
  BY DEF Share
<1> QED BY <1>1 DEF TypeInv, CountInv, BudgetInv, Kinds

LEMMA ReloadSettles ==
  ASSUME CartInv, NEW page \in Pages, Reload(page)
  PROVE  SettleInv'
<1>1. mut'["drop"].pc \in {"idle", "orphan"}
  BY ReloadOf DEF CartInv, Kinds
<1>2. shown' = None /\ fetch' = NoFetch
  BY DEF Reload
<1> QED BY <1>1, <1>2 DEF SettleInv, NoFetch

LEMMA OrderedStep == ASSUME CartInv, Ordered PROVE CartInv'
<1> USE DEF CartInv
<1>1. Reload("confirmed") /\ "confirmed" \in Pages
      /\ UNCHANGED <<server, active, ordered, nextRow, recalc, orders, sends,
                     faults, excused>>
  BY DEF Ordered, Pages, backend
<1>2. /\ MutInv' /\ TabInv' /\ inbox' \subseteq 1..MaxCarts
      /\ wired' \in BOOLEAN /\ at' \in Pages
      /\ \A k \in Kinds : Pending(k)' = Pending(k)
  BY <1>1, ReloadOf
<1>3. TypeInv'
  BY <1>1, <1>2, ReloadCounts, Untouched DEF TypeInv, PageInv
<1>4. SettleInv'
  BY <1>1, ReloadSettles
<1>5. AddressInv'
  <2>1. ~Pending("order")' /\ at' = "confirmed"
    BY <1>1, <1>2 DEF Ordered, Pending, Reload, Kinds
  <2> QED BY <1>1, <2>1 DEF AddressInv, IsAddressed
<1> QED BY <1>3, <1>4, <1>5

LEMMA FailsStep ==
  ASSUME CartInv, NEW k \in Kinds, Fails(k)
  PROVE  CartInv'
<1> USE DEF CartInv
<1>1. /\ mut[k].pc = "failed"
      /\ mut' = [mut EXCEPT ![k] = NoMutation]
      /\ shown' = (IF mut[k].prev # None THEN mut[k].prev ELSE shown)
      /\ rolledBack' = (rolledBack \/ mut[k].prev # None)
      /\ at' = (IF k = "order" THEN "shop" ELSE at)
      /\ UNCHANGED <<server, active, ordered, nextRow, recalc, orders, fetch,
                     inbox, wired, sends, faults, missed, excused>>
  BY DEF Fails, backend
<1>2. /\ MutInv' /\ mut'[k] = NoMutation
      /\ \A j \in Kinds \ {k} : mut'[j] = mut[j]
  BY <1>1, MutResets DEF TypeInv
<1>3. ~Pending(k) /\ ~Pending(k)'
  BY <1>1, <1>2 DEF Pending, NoMutation
<1>4. CountInv'
  BY <1>1, <1>2, <1>3, OutcomeCounts
<1>5. mut[k].prev \in Cart \union {None}
  BY MutationTypes DEF TypeInv, MutInv
<1>6. TabInv'
  BY <1>1, <1>5 DEF TypeInv, TabInv
<1>7. TypeInv'
  BY <1>1, <1>2, <1>4, <1>6, Untouched DEF TypeInv, PageInv, Pages
<1>8. SettleInv'
  <2>1. mut[k].prev = None /\ Tentative => Tentative'
    BY <1>2 DEF Tentative, Kinds
  <2>2. mut'["drop"].pc \in {"sent", "done"} => mut'["drop"] = mut["drop"]
    BY <1>2 DEF NoMutation, Kinds
  <2>3. Due => Due'
    BY <1>1, <1>2 DEF Due, Kinds
  <2> QED BY <1>1, <1>5, <2>1, <2>2, <2>3, NoneIsNone DEF SettleInv
<1>9. AddressInv'
  <2>1. (Pending("ship")' => Pending("ship"))
    BY <1>2, <1>3 DEF Kinds, Pending
  <2>2. CASE k = "order"
    BY <1>1, <1>3, <2>1, <2>2 DEF AddressInv, IsAddressed
  <2>3. CASE k # "order"
    <3>1. mut'["order"] = mut["order"]
      BY <1>2, <2>3 DEF Kinds
    <3> QED BY <1>1, <2>1, <2>3, <3>1 DEF AddressInv, Pending, IsAddressed
  <2> QED BY <2>2, <2>3
<1> QED BY <1>7, <1>8, <1>9

LEMMA LoseStep ==
  ASSUME CartInv, NEW k \in Kinds, Lose(k)
  PROVE  CartInv'
<1> USE DEF CartInv
<1> DEFINE m == [mut[k] EXCEPT !.pc = "failed"]
<1>1. /\ mut[k].pc \in {"sent", "done"}
      /\ mut' = [mut EXCEPT ![k] = m]
      /\ missed' = (missed \/ (k = "drop" /\ mut[k].pc = "done"))
      /\ UNCHANGED <<server, active, ordered, nextRow, recalc, orders, shown,
                     fetch, at, inbox, wired, sends, rolledBack, excused>>
  BY DEF Lose, backend
<1>2. m \in Mutation(k) /\ m.pc = "failed" /\ m.prev = mut[k].prev
  <2>1. mut[k] \in Mutation(k)
    BY DEF TypeInv, MutInv
  <2> QED BY <2>1, MutationTypes DEF Mutation
<1> HIDE DEF m
<1>3. /\ MutInv' /\ mut'[k] = m
      /\ \A j \in Kinds \ {k} : mut'[j] = mut[j]
  BY <1>1, <1>2, MutRests, MutUpdate DEF TypeInv
<1>4. ~Pending(k)'
  BY <1>2, <1>3 DEF Pending
<1>5. CountInv'
  BY <1>1, <1>3, <1>4, OutcomeCounts
<1>6. PageInv'
  <2>1. faults' \in 0..MaxFaults
    BY NoneIsNone DEF TypeInv, PageInv, Lose
  <2> QED BY <1>1, <2>1 DEF TypeInv, PageInv
<1>7. TypeInv'
  BY <1>1, <1>3, <1>5, <1>6, Untouched DEF TypeInv
<1>8. SettleInv'
  <2>1. Tentative => Tentative'
    BY <1>2, <1>3 DEF Tentative, Kinds
  <2>2. mut'["drop"].pc \in {"sent", "done"} => mut'["drop"] = mut["drop"]
    BY <1>2, <1>3 DEF Kinds
  <2>3. ~missed' /\ Due => Due'
    BY <1>1, <1>3 DEF Due, Kinds
  <2>4. ~missed' /\ Due' => Due
    BY <1>1, <2>2 DEF Due
  <2> QED BY <1>1, <2>1, <2>2, <2>3, <2>4 DEF SettleInv
<1>9. AddressInv'
  <2>1. \A j \in Kinds : Pending(j)' => Pending(j)
    BY <1>3, <1>4 DEF Pending
  <2> QED BY <1>1, <2>1 DEF AddressInv, IsAddressed, Kinds
<1> QED BY <1>7, <1>8, <1>9


-----------------------------------------------------------------------------
(* The pages.                                                              *)

(* A move between the steps of the checkout.                               *)
LEMMA MoveKeepsTypes ==
  ASSUME TypeInv, at' \in Pages,
         UNCHANGED <<backend, shown, fetch, mut, inbox, wired, sends, faults>>
  PROVE  TypeInv'
<1>1. PageInv'
  BY DEF TypeInv, PageInv
<1> QED BY <1>1, Untouched DEF TypeInv, backend

LEMMA CheckoutStep == ASSUME CartInv, Checkout PROVE CartInv'
<1> USE DEF CartInv
<1>1. TypeInv'
  BY MoveKeepsTypes DEF Checkout, Pages
<1>2. SettleInv'
  BY SettleUntouched DEF Checkout, backend, history
<1>3. AddressInv'
  BY DEF AddressInv, Checkout, backend, history, Pending, IsAddressed
<1> QED BY <1>1, <1>2, <1>3

LEMMA ContinueStep == ASSUME CartInv, Continue PROVE CartInv'
<1> USE DEF CartInv
<1>1. TypeInv'
  BY MoveKeepsTypes DEF Continue, Pages
<1>2. SettleInv'
  BY SettleUntouched DEF Continue, backend
<1>3. AddressInv'
  BY DEF AddressInv, Continue, backend, Pending, IsAddressed
<1> QED BY <1>1, <1>2, <1>3

LEMMA BackStep == ASSUME CartInv, Back PROVE CartInv'
<1> USE DEF CartInv
<1>1. TypeInv'
  BY MoveKeepsTypes DEF Back, Pages
<1>2. SettleInv'
  BY SettleUntouched DEF Back, backend
<1>3. AddressInv'
  BY DEF AddressInv, Back, backend, Pending, IsAddressed
<1> QED BY <1>1, <1>2, <1>3

LEMMA PayOnlineStep == ASSUME CartInv, PayOnline PROVE CartInv'
<1> USE DEF CartInv
<1>1. /\ at = "payment" /\ Reload("paystack") /\ "paystack" \in Pages
      /\ UNCHANGED <<server, active, ordered, nextRow, recalc, orders, sends,
                     faults, excused>>
  BY DEF PayOnline, Pages, backend
<1>2. /\ MutInv' /\ TabInv' /\ inbox' \subseteq 1..MaxCarts
      /\ wired' \in BOOLEAN /\ at' \in Pages
      /\ \A k \in Kinds : Pending(k)' = Pending(k)
  BY <1>1, ReloadOf
<1>3. TypeInv'
  BY <1>1, <1>2, ReloadCounts, Untouched DEF TypeInv, PageInv
<1>4. SettleInv'
  BY <1>1, ReloadSettles
<1>5. AddressInv'
  <2>1. /\ Pending("order")' = Pending("order")
        /\ Pending("ship")' = Pending("ship") /\ at' = "paystack"
    BY <1>1, <1>2 DEF Reload, Kinds
  <2> QED BY <1>1, <2>1 DEF AddressInv, IsAddressed
<1> QED BY <1>3, <1>4, <1>5

LEMMA ReturnStep == ASSUME CartInv, Return PROVE CartInv'
<1> USE DEF CartInv
<1>1. TypeInv'
  BY MoveKeepsTypes DEF Return, Pages
<1>2. SettleInv'
  BY SettleUntouched DEF Return, backend, history
<1>3. AddressInv'
  BY DEF AddressInv, Return, backend, history, Pending, IsAddressed
<1> QED BY <1>1, <1>2, <1>3

LEMMA VerifiedStep == ASSUME CartInv, Verified PROVE CartInv'
<1> USE DEF CartInv
<1>1. Order \in OrderRow
  BY OrderType DEF TypeInv, BackendInv
<1>2. BackendInv'
  <2>1. orders' \in Seq(OrderRow)
    BY <1>1 DEF TypeInv, BackendInv, Verified
  <2> QED BY <2>1 DEF TypeInv, BackendInv, Verified
<1>3. TabInv'
  BY FetchTypes DEF TypeInv, TabInv, Verified, Asked
<1>4. /\ inbox' \subseteq 1..MaxCarts
      /\ missed => missed'
      /\ ~missed' => inbox' # {}
  BY TellOf DEF Verified
<1>5. TypeInv'
  BY <1>2, <1>3, <1>4, Untouched DEF TypeInv, PageInv, Pages, Verified
<1>6. SettleInv'
  BY <1>4 DEF SettleInv, Verified, Due
<1>7. AddressInv'
  BY DEF AddressInv, Verified
<1> QED BY <1>5, <1>6, <1>7

LEMMA DeclinedStep == ASSUME CartInv, Declined PROVE CartInv'
<1> USE DEF CartInv
<1>1. TypeInv'
  BY MoveKeepsTypes DEF Declined, Pages
<1>2. SettleInv'
  BY SettleUntouched DEF Declined, backend
<1>3. AddressInv'
  BY DEF AddressInv, Declined, backend, Pending, IsAddressed
<1> QED BY <1>1, <1>2, <1>3

-----------------------------------------------------------------------------

(* Every step keeps the invariant, and so does a stutter.                  *)
LEMMA NextInv == ASSUME CartInv, [Next]_vars PROVE CartInv'
<1>1. CASE ServerStep
  <2>1. CASE ServeCart \/ Recalculate \/ ServeDrop \/ ServeOrder
    BY <2>1, ServeCartStep, RecalculateStep, ServeDropStep, ServeOrderStep
  <2>2. ASSUME NEW k \in Kinds, ServeItem(k) \/ ServeDetails(k)
        PROVE  CartInv'
    BY <2>2, ServeItemStep, ServeDetailsStep
  <2> QED BY <1>1, <2>1, <2>2 DEF ServerStep
<1>2. CASE AnswerStep
  BY <1>2, CartArrivesStep, OrderedStep, SucceedsStep, FailsStep DEF AnswerStep
<1>3. CASE MessageStep
  BY <1>3, ConnectStep, MessageStepKeeps DEF MessageStep
<1>4. CASE UserStep
  <2>1. CASE AddToCart
    BY <2>1, AddToCartStep
  <2>2. CASE Checkout \/ Continue \/ Back \/ PayOnline
    BY <2>2, CheckoutStep, ContinueStep, BackStep, PayOnlineStep
  <2>3. ASSUME NEW r \in Rows, NEW q \in 1..(Stock + 2), ChangeQuantity(r, q)
        PROVE  CartInv'
    BY <2>3, ChangeQuantityStep
  <2>4. CASE \/ ChooseAddress \/ EnterAddress \/ DeleteAddress
             \/ GiveContact \/ SwitchWallet
             \/ PlaceByTransfer \/ PlaceForPickup \/ PlaceForNothing
             \/ \E r \in Rows : RemoveItem(r)
             \/ \E s \in Ships : ChooseShipping(s)
             \/ \E p \in Pays : ChoosePayment(p)
    BY <2>4, RequestStep
  <2> QED BY <1>4, <2>1, <2>2, <2>3, <2>4 DEF UserStep
<1>5. CASE Load \/ Return \/ Verified \/ Declined \/ Convert
  BY <1>5, LoadStep, ReturnStep, VerifiedStep, DeclinedStep, ConvertStep
<1>6. CASE RecalculationFails \/ Disconnect
  BY <1>6, RecalculationFailsStep, DisconnectStep
<1>7. ASSUME NEW s \in Ships, Elsewhere(s) PROVE CartInv'
  BY <1>7, ElsewhereStep
<1>8. ASSUME NEW k \in Kinds, Lose(k) PROVE CartInv'
  BY <1>8, LoseStep
<1>9. CASE UNCHANGED vars
  <2>1. UNCHANGED <<server, active, ordered, nextRow, recalc, orders, shown,
                    fetch, mut, at, inbox, wired, sends, faults, rolledBack,
                    missed, excused>>
    BY <1>9 DEF vars, backend, client, history
  <2> QED BY <2>1, Untouched, SettleUntouched DEF CartInv, TypeInv
<1> QED BY <1>1, <1>2, <1>3, <1>4, <1>5, <1>6, <1>7, <1>8, <1>9 DEF Next

(* The inductive invariant holds for any number of rows, requests, carts   *)
(* and faults: types, what makes the tab look again, and where an order    *)
(* may be on its way (useCart.ts, invalidate-provider.tsx, cart.py).       *)
THEOREM CartInvariance == Spec => []CartInv
<1>1. Init => CartInv
  BY InitInv
<1>2. CartInv /\ [Next]_vars => CartInv'
  BY NextInv
<1> QED BY <1>1, <1>2, PTL DEF Spec

(* Types, with the two bounds that are not a matter of assignment: no row  *)
(* of the server's cart exceeds the inventory (add_to_cart, cart.py), and  *)
(* no more recalculations wait than requests were sent.                    *)
THEOREM CartTypeCorrect == Spec => []TypeOK
<1>1. CartInv => TypeOK
  <2> SUFFICES ASSUME CartInv PROVE TypeOK
    OBVIOUS
  <2>1. recalc \in 0..MaxSends
    <3>1. \A k \in Kinds : Share(k) \in 0..1
      BY DEF Share
    <3>2. {"add", "quantity", "remove"} \subseteq Kinds
      BY DEF Kinds
    <3> QED BY <3>1, <3>2, NoneIsNone DEF CartInv, TypeInv, CountInv, BudgetInv
  <2>2. \A i \in 1..Len(orders) : /\ orders[i].ship \in Ships \union {None}
                                  /\ orders[i].pay \in Pays \union {None}
    <3>1. \A i \in 1..Len(orders) : orders[i] \in OrderRow
      BY DEF CartInv, TypeInv, BackendInv
    <3> QED BY <3>1 DEF OrderRow
  <2> QED BY <2>1, <2>2
          DEF CartInv, TypeInv, BackendInv, TabInv, MutInv, CountInv, PageInv,
              TypeOK
<1> QED BY <1>1, CartInvariance, PTL

(* When nothing is on its way, the cart on the screen is the server's, for *)
(* a tab that was told of every change and has not rolled one back.        *)
THEOREM SettledIsServerCorrect == Spec => []SettledIsServer
<1>1. CartInv => SettledIsServer
  <2> SUFFICES ASSUME CartInv, Quiet, shown # None, ~rolledBack, ~missed
               PROVE  shown = server
    BY DEF SettledIsServer
  <2>1. {"add", "quantity", "drop"} \subseteq Kinds
    BY DEF Kinds
  <2>2. ~Tentative /\ ~Due /\ fetch.pc = "none"
    BY <2>1 DEF Quiet, Tentative, Due
  <2> QED BY <2>2 DEF CartInv, SettleInv
<1> QED BY <1>1, CartInvariance, PTL

(* An order to be delivered has an address, whatever overtakes what,       *)
(* unless the delivery step was passed on an outdated cart or the cart was *)
(* changed behind the page: the steps that set `excused'.                  *)
THEOREM OrderIsAddressedCorrect == Spec => []OrderIsAddressed
<1>1. CartInv => OrderIsAddressed
  <2> SUFFICES ASSUME CartInv, ~excused, NEW i \in 1..Len(orders)
               PROVE  \/ orders[i].ship = "PICKUP"
                      \/ orders[i].ship = "STANDARD" /\ orders[i].addr
    BY DEF OrderIsAddressed
  <2>1. orders[i] \in OrderRow
    BY DEF CartInv, TypeInv, BackendInv
  <2>2. IsAddressed(orders[i])
    BY DEF CartInv, AddressInv
  <2> QED BY <2>1, <2>2 DEF OrderRow, IsAddressed, Ships
<1> QED BY <1>1, CartInvariance, PTL
=============================================================================
