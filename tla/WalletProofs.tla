---------------------------- MODULE WalletProofs ----------------------------
(***************************************************************************)
(* Proofs about Wallet for any users, carts, prices, orders, concurrent    *)
(* calls and faults.                                                       *)
(***************************************************************************)
EXTENDS Wallet, TLAPS

OnCart == {"cart", "count", "apply", "remove", "edit", "totals", "items",
           "write"}

(* What a call may rely on at every point of its code.                     *)
CallInv(k) ==
  /\ pc[k] \in OnCart =>
       /\ call[k].user \in Users
       /\ call[k].ref \in Carts
       /\ Owner[call[k].ref] \in {call[k].user, None}
  /\ pc[k] = "cart" => call[k].kind \in {"apply", "remove", "edit"}
  /\ pc[k] \in {"check", "credit"} => call[k].ord \in Orders
  /\ pc[k] = "credit" => Referrer[call[k].ord] \in Users

CallsInv == \A k \in Calls : CallInv(k)

(* The balance a careful user's call has read is still there.              *)
MoneyIsThere(k) ==
  pc[k] \in {"cart", "count", "apply"} /\ call[k].user \in Careful =>
    call[k].money <= balance[call[k].user]

(* The use that is about to be removed is the one the cart still has.      *)
UseIsThere(k) ==
  pc[k] = "remove" /\ Owner[call[k].ref] \in Careful =>
    call[k].row.used = cart[call[k].ref].used

(* No two calls of a careful user are on their way.                        *)
OnItsWay(k) == ~Answered(k) /\ ~InBackground(k) /\ call[k].user \in Careful
OneAtATime ==
  \A j, k \in Calls :
    OnItsWay(j) /\ OnItsWay(k) /\ call[j].user = call[k].user => j = k

(* No two attempts of a job are under way, and one that is about to issue  *)
(* cashback is the first to do so.                                         *)
AttemptInv ==
  /\ \A j, k \in Calls :
       /\ pc[j] \in {"check", "credit"} /\ pc[k] \in {"check", "credit"}
       /\ call[j].ord = call[k].ord
       => j = k
  /\ \A k \in Calls : pc[k] = "credit" => cashbacks[call[k].ord] = 0

WInv == /\ TypeOK
        /\ CallsInv
        /\ OneAtATime
        /\ BalanceIsLedger
        /\ UsedWasWithdrawn
        /\ NoOverdraft
        /\ \A k \in Calls : MoneyIsThere(k)
        /\ CarefulUseIsCovered
        /\ \A k \in Calls : UseIsThere(k)
        /\ ~JobsOverlap => AttemptInv /\ CashbackOnce

-----------------------------------------------------------------------------
(* Types.                                                                  *)

LEMMA BlankTypes == NoRow \in CartRow /\ NoCall \in CallRow
BY WalletAssumption DEF NoRow, NoCall, CartRow, CallRow

LEMMA Arithmetic ==
  /\ \A x \in Int : Positive(x) \in Nat
  /\ \A x, y \in Nat : /\ Least(x, y) \in Nat
                       /\ Least(x, y) <= x
                       /\ Least(x, y) <= y
BY DEF Positive, Least

LEMMA RowTypes ==
  ASSUME TypeOK
  PROVE  /\ \A k \in Calls : call[k] \in CallRow
         /\ \A c \in Carts : cart[c] \in CartRow
         /\ \A u \in Users : balance[u] \in Int
BY DEF TypeOK

LEMMA CallFields ==
  ASSUME NEW row \in CallRow
  PROVE  row.money \in Nat /\ row.price \in Nat /\ row.row \in CartRow
BY DEF CallRow

LEMMA CartFields ==
  ASSUME NEW row \in CartRow
  PROVE  row.price \in Nat /\ row.payable \in Nat /\ row.used \in Nat
BY DEF CartRow

LEMMA CallRowUpdate ==
  ASSUME NEW row \in CallRow
  PROVE  /\ \A c \in Carts, w \in CartRow :
              [row EXCEPT !.ref = c, !.row = w] \in CallRow
         /\ \A w \in CartRow : [row EXCEPT !.row = w] \in CallRow
         /\ \A n \in Nat : [row EXCEPT !.price = n] \in CallRow
         /\ \A o \in Orders :
              [row EXCEPT !.kind = "referral", !.ord = o] \in CallRow
<1>1. \A c \in Carts, w \in CartRow :
        [row EXCEPT !.ref = c, !.row = w] \in CallRow
  BY DEF CallRow
<1>2. \A w \in CartRow : [row EXCEPT !.row = w] \in CallRow
  BY DEF CallRow
<1>3. \A n \in Nat : [row EXCEPT !.price = n] \in CallRow
  BY DEF CallRow
<1>4. \A o \in Orders :
        [row EXCEPT !.kind = "referral", !.ord = o] \in CallRow
  BY DEF CallRow, Kinds
<1> QED BY <1>1, <1>2, <1>3, <1>4

LEMMA CartRowUpdate ==
  ASSUME NEW row \in CartRow
  PROVE  /\ \A n \in Nat : [row EXCEPT !.price = n] \in CartRow
         /\ \A n \in Nat : [row EXCEPT !.used = n] \in CartRow
         /\ \A m, n \in Nat :
              [row EXCEPT !.used = m, !.total = n] \in CartRow
         /\ \A m, n \in Nat :
              [row EXCEPT !.payable = m, !.total = n] \in CartRow
         /\ [row EXCEPT !.active = FALSE] \in CartRow
<1>1. \A n \in Nat : [row EXCEPT !.price = n] \in CartRow
  BY DEF CartRow
<1>2. \A n \in Nat : [row EXCEPT !.used = n] \in CartRow
  BY DEF CartRow
<1>3. \A m, n \in Nat : [row EXCEPT !.used = m, !.total = n] \in CartRow
  BY DEF CartRow
<1>4. \A m, n \in Nat : [row EXCEPT !.payable = m, !.total = n] \in CartRow
  BY DEF CartRow
<1>5. [row EXCEPT !.active = FALSE] \in CartRow
  BY DEF CartRow
<1> QED BY <1>1, <1>2, <1>3, <1>4, <1>5

-----------------------------------------------------------------------------
(* What the parts of an action do, at every point of what they change.     *)

LEMMA GotoEffect ==
  ASSUME TypeOK, NEW k \in Calls, NEW p \in PCs, Goto(k, p)
  PROVE  /\ pc' \in [Calls -> PCs]
         /\ pc'[k] = p
         /\ \A j \in Calls \ {k} : pc'[j] = pc[j]
BY DEF Goto, TypeOK

LEMMA LocalEffect ==
  ASSUME TypeOK, NEW k \in Calls, NEW new \in CallRow, Local(k, new)
  PROVE  /\ call' \in [Calls -> CallRow]
         /\ call'[k] = new
         /\ \A j \in Calls \ {k} : call'[j] = call[j]
BY DEF Local, TypeOK

LEMMA FinishEffect ==
  ASSUME TypeOK, NEW k \in Calls, Finish(k)
  PROVE  /\ pc' \in [Calls -> PCs]
         /\ call' \in [Calls -> CallRow]
         /\ pc'[k] = "done" /\ call'[k] = NoCall
         /\ \A j \in Calls \ {k} : pc'[j] = pc[j] /\ call'[j] = call[j]
<1>1. "done" \in PCs
  BY DEF PCs
<1> QED BY <1>1, BlankTypes, GotoEffect, LocalEffect DEF Finish

LEMMA SetCartEffect ==
  ASSUME TypeOK, NEW c \in Carts, NEW row \in CartRow, SetCart(c, row)
  PROVE  /\ cart' \in [Carts -> CartRow]
         /\ cart'[c] = row
         /\ \A d \in Carts \ {c} : cart'[d] = cart[d]
BY DEF SetCart, TypeOK

LEMMA PostEffect ==
  ASSUME TypeOK, NEW u \in Users, NEW type \in TxnTypes, NEW amount \in Nat,
         NEW change \in Int, Post(u, type, amount, change)
  PROVE  /\ posted' \in [Users -> [TxnTypes -> Nat]]
         /\ balance' \in [Users -> Int]
         /\ balance'[u] = balance[u] + change
         /\ posted'[u][type] = posted[u][type] + amount
         /\ \A t \in TxnTypes \ {type} : posted'[u][t] = posted[u][t]
         /\ \A v \in Users \ {u} :
              balance'[v] = balance[v] /\ posted'[v] = posted[v]
<1>1. posted[u] \in [TxnTypes -> Nat]
  BY DEF TypeOK
<1>2. balance' \in [Users -> Int] /\ balance'[u] = balance[u] + change
  BY DEF Post, TypeOK
<1>3. posted' = [posted EXCEPT ![u] =
                   [posted[u] EXCEPT ![type] = posted[u][type] + amount]]
  BY DEF Post, TypeOK
<1>4. [posted[u] EXCEPT ![type] = posted[u][type] + amount]
        \in [TxnTypes -> Nat]
  BY <1>1
<1>5. posted' \in [Users -> [TxnTypes -> Nat]]
  BY <1>3, <1>4 DEF TypeOK
<1>6. /\ posted'[u][type] = posted[u][type] + amount
      /\ \A t \in TxnTypes \ {type} : posted'[u][t] = posted[u][t]
  BY <1>1, <1>3 DEF TypeOK
<1>7. \A v \in Users \ {u} :
        balance'[v] = balance[v] /\ posted'[v] = posted[v]
  BY <1>3 DEF Post, TypeOK
<1> QED BY <1>2, <1>5, <1>6, <1>7

-----------------------------------------------------------------------------
(* The ways in which a step can touch the ledger and what carts use.       *)

Quiet == UNCHANGED ledger /\ \A c \in Carts : cart'[c].used = cart[c].used

OnlyCart(c) ==
  \A d \in Carts \ {c} : /\ cart'[d].used = cart[d].used
                         /\ taken'[d] = taken[d]
                         /\ returned'[d] = returned[d]

OnlyUser(u) ==
  \A v \in Users \ {u} : balance'[v] = balance[v] /\ posted'[v] = posted[v]

OnlyType(u, type, amount) ==
  /\ posted'[u][type] = posted[u][type] + amount
  /\ \A t \in TxnTypes \ {type} : posted'[u][t] = posted[u][t]

Withdraws(k, u, c, n) ==
  /\ pc[k] = "apply" /\ u = call[k].user /\ c = call[k].ref
  /\ n <= call[k].money
  /\ balance'[u] = balance[u] - n /\ OnlyType(u, "WITHDRAWAL", n)
  /\ taken'[c] = taken[c] + n /\ returned'[c] = returned[c]
  /\ cart'[c].used = n
  /\ OnlyCart(c) /\ OnlyUser(u) /\ cashbacks' = cashbacks

Reverses(k, u, c, n) ==
  /\ pc[k] = "remove" /\ u = call[k].user /\ c = call[k].ref
  /\ n = call[k].row.used
  /\ balance'[u] = balance[u] + n /\ OnlyType(u, "REVERSAL", n)
  /\ taken'[c] = taken[c] /\ returned'[c] = returned[c] + n
  /\ cart'[c].used = 0
  /\ OnlyCart(c) /\ OnlyUser(u) /\ cashbacks' = cashbacks

Credits(k, u, n) ==
  /\ pc[k] = "credit" /\ u = Referrer[call[k].ord]
  /\ balance'[u] = balance[u] + n /\ OnlyType(u, "CASHBACK", n)
  /\ OnlyUser(u)
  /\ cashbacks'[call[k].ord] = cashbacks[call[k].ord] + 1
  /\ \A o \in Orders \ {call[k].ord} : cashbacks'[o] = cashbacks[o]
  /\ taken' = taken /\ returned' = returned
  /\ \A c \in Carts : cart'[c].used = cart[c].used

(* Where a step leaves its own call.                                       *)
Moves(k) ==
  \/ /\ pc'[k] = "done"
     /\ call'[k].user = None
  \/ /\ pc[k] = "idle" /\ pc'[k] = "cart" /\ Quiet
     /\ call'[k].money \in {0, Positive(balance[call'[k].user])}
     /\ call'[k].user \in Careful =>
          \A j \in Calls \ {k} :
            call[j].user = call'[k].user => Answered(j) \/ InBackground(j)
  \/ /\ pc[k] \in {"cart", "count"} /\ pc'[k] \in {"count", "apply"} /\ Quiet
     /\ call'[k].user = call[k].user /\ call'[k].money = call[k].money
  \/ /\ pc[k] = "cart" /\ pc'[k] \in {"remove", "edit"} /\ Quiet
     /\ call'[k].user = call[k].user
     /\ call'[k].row = cart[call'[k].ref]
  \/ /\ pc[k] \in {"apply", "remove", "edit", "totals", "items"}
     /\ pc'[k] \in {"totals", "items", "write"}
     /\ call'[k].user = call[k].user /\ call'[k].kind = call[k].kind
  \/ /\ pc[k] = "idle" /\ pc'[k] = "check" /\ Quiet
     /\ call'[k].user = None
     /\ ~JobsOverlap => \A j \in Calls \ {k} :
                          call[j].ord = call'[k].ord => pc[j] = "done"
  \/ /\ pc[k] = "check" /\ pc'[k] = "credit" /\ Quiet
     /\ call'[k] = call[k]
     /\ cashbacks[call[k].ord] = 0

(* All that the invariant needs to know of a step of call k.               *)
Effect(k) ==
  /\ TypeOK'
  /\ CallInv(k)'
  /\ \A j \in Calls \ {k} : pc'[j] = pc[j] /\ call'[j] = call[j]
  /\ Moves(k)
  /\ \/ Quiet
     \/ \E u \in Users, c \in Carts, n \in Nat : Withdraws(k, u, c, n)
     \/ \E u \in Users, c \in Carts, n \in Nat : Reverses(k, u, c, n)
     \/ \E u \in Users, n \in Nat : Credits(k, u, n)

LEMMA AskEffect ==
  ASSUME TypeOK, CallsInv, NEW k \in Calls,
         NEW kind \in {"apply", "remove", "edit"}, NEW u \in Users,
         NEW c \in Carts, Ask(k, kind, u, c)
  PROVE  Effect(k)
<1> DEFINE money == IF kind = "apply" THEN Positive(balance[u]) ELSE 0
           new == [NoCall EXCEPT !.kind = kind, !.user = u, !.ref = c,
                                 !.money = money]
<1>1. money \in Nat
  BY Arithmetic, RowTypes
<1>2. /\ new \in CallRow
      /\ new.user = u /\ new.ref = c /\ new.money = money /\ new.kind = kind
  <2> HIDE DEF money
  <2> QED BY <1>1, BlankTypes DEF CallRow, Kinds, NoCall
<1>3. /\ pc' \in [Calls -> PCs] /\ pc'[k] = "cart"
      /\ \A j \in Calls \ {k} : pc'[j] = pc[j]
  <2>1. "cart" \in PCs
    BY DEF PCs
  <2> QED BY <2>1, GotoEffect DEF Ask
<1>4. /\ call' \in [Calls -> CallRow] /\ call'[k] = new
      /\ \A j \in Calls \ {k} : call'[j] = call[j]
  <2>1. Local(k, new)
    BY DEF Ask
  <2> HIDE DEF new
  <2> QED BY <1>2, <2>1, LocalEffect
<1>5. Quiet
  BY DEF Ask, Quiet
<1>6. TypeOK'
  BY <1>3, <1>4 DEF Ask, TypeOK, ledger
<1>7. CallInv(k)'
  BY <1>2, <1>3, <1>4 DEF Ask, CallInv, OnCart
<1>8. Moves(k)
  BY <1>2, <1>3, <1>4, <1>5 DEF Ask, Moves
<1> QED BY <1>3, <1>4, <1>5, <1>6, <1>7, <1>8 DEF Effect

LEMMA AttemptEffect ==
  ASSUME TypeOK, CallsInv, NEW k \in Calls, NEW o \in Orders, Attempt(k, o)
  PROVE  Effect(k)
<1> DEFINE new == [NoCall EXCEPT !.kind = "referral", !.ord = o]
<1>1. new \in CallRow /\ new.user = None /\ new.ord = o
  BY BlankTypes, CallRowUpdate DEF NoCall
<1>2. /\ pc' \in [Calls -> PCs] /\ pc'[k] = "check"
      /\ \A j \in Calls \ {k} : pc'[j] = pc[j]
  <2>1. "check" \in PCs
    BY DEF PCs
  <2> QED BY <2>1, GotoEffect DEF Attempt
<1>3. /\ call' \in [Calls -> CallRow] /\ call'[k] = new
      /\ \A j \in Calls \ {k} : call'[j] = call[j]
  BY <1>1, LocalEffect DEF Attempt
<1>4. Quiet
  BY DEF Attempt, Quiet
<1>5. TypeOK'
  BY <1>2, <1>3 DEF Attempt, TypeOK, ledger
<1>6. CallInv(k)'
  BY <1>1, <1>2, <1>3 DEF CallInv, OnCart
<1>7. Moves(k)
  BY <1>1, <1>2, <1>3, <1>4 DEF Attempt, Moves
<1> QED BY <1>2, <1>3, <1>4, <1>5, <1>6, <1>7 DEF Effect

(* A step that ends its call and touches neither ledger nor carts' use.    *)
LEMMA FinishQuietly ==
  ASSUME TypeOK, NEW k \in Calls, Finish(k), Quiet,
         cart' \in [Carts -> CartRow], faults' \in Nat
  PROVE  Effect(k)
<1>1. /\ pc' \in [Calls -> PCs] /\ pc'[k] = "done"
      /\ call' \in [Calls -> CallRow] /\ call'[k] = NoCall
      /\ \A j \in Calls \ {k} : pc'[j] = pc[j] /\ call'[j] = call[j]
  BY FinishEffect
<1>2. TypeOK'
  BY <1>1 DEF TypeOK, Quiet, ledger
<1>3. CallInv(k)'
  BY <1>1 DEF CallInv, OnCart
<1>4. Moves(k)
  BY <1>1 DEF Moves, NoCall
<1> QED BY <1>1, <1>2, <1>3, <1>4 DEF Effect

LEMMA PickCartEffect ==
  ASSUME TypeOK, CallsInv, NEW k \in Calls, PickCart(k)
  PROVE  Effect(k)
<1> DEFINE active == ActiveCart(call[k].user, call[k].ref)
<1>0. Quiet /\ cart' = cart /\ UNCHANGED <<ledger, faults>>
  BY DEF PickCart, Quiet
<1>1. CASE Finish(k)
  BY <1>0, <1>1, FinishQuietly DEF TypeOK
<1>2. ASSUME NEW c \in active,
             Local(k, [call[k] EXCEPT !.ref = c, !.row = cart[c]]),
             Goto(k, IF call[k].kind = "apply" THEN "count"
                                               ELSE call[k].kind)
      PROVE  Effect(k)
  <2> DEFINE new == [call[k] EXCEPT !.ref = c, !.row = cart[c]]
             to == IF call[k].kind = "apply" THEN "count" ELSE call[k].kind
  <2>1. /\ pc[k] = "cart" /\ call[k].user \in Users /\ call[k].ref \in Carts
        /\ Owner[call[k].ref] \in {call[k].user, None}
        /\ to \in {"count", "remove", "edit"}
    BY DEF PickCart, CallsInv, CallInv, OnCart
  <2>2. c \in Carts /\ Owner[c] \in {call[k].user, None}
    BY <2>1 DEF ActiveCart
  <2>3. /\ new \in CallRow /\ new.user = call[k].user /\ new.ref = c
        /\ new.row = cart[c] /\ new.money = call[k].money
    <3>1. call[k] \in CallRow /\ cart[c] \in CartRow
      BY <2>2, RowTypes
    <3>2. new \in CallRow
      BY <2>2, <3>1, CallRowUpdate
    <3> QED BY <3>1, <3>2 DEF CallRow
  <2>4. /\ pc' \in [Calls -> PCs] /\ pc'[k] = to
        /\ \A j \in Calls \ {k} : pc'[j] = pc[j]
    <3>1. to \in PCs
      BY <2>1 DEF PCs
    <3> QED BY <1>2, <3>1, GotoEffect
  <2>5. /\ call' \in [Calls -> CallRow] /\ call'[k] = new
        /\ \A j \in Calls \ {k} : call'[j] = call[j]
    BY <1>2, <2>3, LocalEffect
  <2> HIDE DEF new, to
  <2>6. TypeOK'
    BY <1>0, <2>4, <2>5 DEF TypeOK, ledger
  <2>7. CallInv(k)'
    BY <2>1, <2>2, <2>3, <2>4, <2>5 DEF CallInv, OnCart
  <2>8. Moves(k)
    BY <1>0, <2>1, <2>3, <2>4, <2>5 DEF Moves
  <2> QED BY <1>0, <2>4, <2>5, <2>6, <2>7, <2>8 DEF Effect
<1> QED BY <1>1, <1>2 DEF PickCart

LEMMA CountItemsEffect ==
  ASSUME TypeOK, CallsInv, NEW k \in Calls, CountItems(k)
  PROVE  Effect(k)
<1>0. Quiet /\ cart' = cart /\ UNCHANGED <<ledger, faults>> /\ pc[k] = "count"
  BY DEF CountItems, Quiet
<1>1. CASE Finish(k)
  BY <1>0, <1>1, FinishQuietly DEF TypeOK
<1>2. CASE Goto(k, "apply") /\ UNCHANGED call
  <2>1. /\ pc' \in [Calls -> PCs] /\ pc'[k] = "apply"
        /\ \A j \in Calls \ {k} : pc'[j] = pc[j]
    <3>1. "apply" \in PCs
      BY DEF PCs
    <3> QED BY <1>2, <3>1, GotoEffect
  <2>2. TypeOK'
    BY <1>0, <1>2, <2>1 DEF TypeOK, ledger
  <2>3. CallInv(k)'
    BY <1>0, <1>2, <2>1 DEF CallsInv, CallInv, OnCart
  <2>4. Moves(k)
    BY <1>0, <1>2, <2>1 DEF Moves
  <2> QED BY <1>0, <1>2, <2>1, <2>2, <2>3, <2>4 DEF Effect
<1> QED BY <1>1, <1>2 DEF CountItems

LEMMA ApplyWalletEffect ==
  ASSUME TypeOK, CallsInv, NEW k \in Calls, ApplyWallet(k)
  PROVE  Effect(k)
<1>0. pc[k] = "apply" /\ faults' = faults
  BY DEF ApplyWallet
<1>1. CASE call[k].money = 0
  <2>1. Finish(k) /\ UNCHANGED <<cart, ledger>>
    BY <1>1 DEF ApplyWallet
  <2> QED BY <1>0, <2>1, FinishQuietly DEF Quiet, TypeOK
<1>2. CASE call[k].money # 0
  <2> DEFINE c == call[k].ref
             u == call[k].user
             used == ToUse(k)
             row == [cart[c] EXCEPT !.used = used,
                                    !.total = call[k].row.payable - used]
  <2>1. c \in Carts /\ u \in Users /\ Owner[c] \in {u, None}
    BY <1>0 DEF CallsInv, CallInv, OnCart
  <2>2. /\ call[k].money \in Nat /\ call[k].row.payable \in Nat
        /\ cart[c] \in CartRow
    BY <2>1, RowTypes, CallFields, CartFields
  <2>3. /\ used \in Nat /\ used <= call[k].money
        /\ call[k].row.payable - used \in Nat
    <3>1. used = Least(call[k].money, call[k].row.payable)
      BY DEF ToUse
    <3>2. /\ used \in Nat /\ used <= call[k].money
          /\ used <= call[k].row.payable
      BY <2>2, <3>1, Arithmetic
    <3> HIDE DEF used
    <3> QED BY <2>2, <3>2
  <2>4. row \in CartRow /\ row.used = used
    <3> HIDE DEF used
    <3> QED BY <2>2, <2>3, CartRowUpdate DEF CartRow
  <2>5. /\ SetCart(c, row) /\ Post(u, "WITHDRAWAL", used, -used)
        /\ taken' = [taken EXCEPT ![c] = @ + used]
        /\ Goto(k, "totals") /\ UNCHANGED <<returned, cashbacks, call>>
    BY <1>2 DEF ApplyWallet
  <2> HIDE DEF c, u, used, row
  <2>6. /\ cart' \in [Carts -> CartRow] /\ cart'[c] = row
        /\ \A d \in Carts \ {c} : cart'[d] = cart[d]
    BY <2>1, <2>4, <2>5, SetCartEffect
  <2>7. /\ posted' \in [Users -> [TxnTypes -> Nat]]
        /\ balance' \in [Users -> Int] /\ balance'[u] = balance[u] + (-used)
        /\ OnlyType(u, "WITHDRAWAL", used) /\ OnlyUser(u)
    BY <2>1, <2>3, <2>5, PostEffect DEF TxnTypes, OnlyType, OnlyUser
  <2>8. /\ taken' \in [Carts -> Nat] /\ taken'[c] = taken[c] + used
        /\ \A d \in Carts \ {c} : taken'[d] = taken[d]
    BY <2>1, <2>3, <2>5 DEF TypeOK
  <2>9. /\ pc' \in [Calls -> PCs] /\ pc'[k] = "totals"
        /\ \A j \in Calls \ {k} : pc'[j] = pc[j]
    <3>1. "totals" \in PCs
      BY DEF PCs
    <3> QED BY <2>5, <3>1, GotoEffect
  <2>10. TypeOK'
    BY <1>0, <2>5, <2>6, <2>7, <2>8, <2>9 DEF TypeOK
  <2>11. CallInv(k)'
    BY <2>1, <2>5, <2>9 DEF CallInv, OnCart, c, u
  <2>12. Moves(k)
    BY <1>0, <2>5, <2>9 DEF Moves
  <2>13. balance'[u] = balance[u] - used
    BY <2>1, <2>3, <2>7, RowTypes
  <2>14. Withdraws(k, u, c, used)
    <3>1. OnlyCart(c)
      BY <2>5, <2>6, <2>8 DEF OnlyCart
    <3>2. u = call[k].user /\ c = call[k].ref
      BY DEF u, c
    <3> QED BY <1>0, <2>3, <2>4, <2>5, <2>6, <2>7, <2>8, <2>13, <3>1, <3>2
            DEF Withdraws
  <2> QED BY <2>1, <2>3, <2>5, <2>9, <2>10, <2>11, <2>12, <2>14 DEF Effect
<1> QED BY <1>1, <1>2

LEMMA RemoveWalletEffect ==
  ASSUME TypeOK, CallsInv, NEW k \in Calls, RemoveWallet(k)
  PROVE  Effect(k)
<1>0. pc[k] = "remove" /\ faults' = faults
  BY DEF RemoveWallet
<1>1. CASE call[k].row.used = 0
  <2>1. Finish(k) /\ UNCHANGED <<cart, ledger>>
    BY <1>1 DEF RemoveWallet
  <2> QED BY <1>0, <2>1, FinishQuietly DEF Quiet, TypeOK
<1>2. CASE call[k].row.used # 0
  <2> DEFINE c == call[k].ref
             u == call[k].user
             used == call[k].row.used
             row == [cart[c] EXCEPT !.used = 0]
  <2>1. c \in Carts /\ u \in Users /\ Owner[c] \in {u, None}
    BY <1>0 DEF CallsInv, CallInv, OnCart
  <2>2. used \in Nat /\ cart[c] \in CartRow
    BY <2>1, RowTypes, CallFields, CartFields
  <2>3. row \in CartRow /\ row.used = 0
    BY <2>2, CartRowUpdate DEF CartRow
  <2>4. /\ SetCart(c, row) /\ Post(u, "REVERSAL", used, used)
        /\ returned' = [returned EXCEPT ![c] = @ + used]
        /\ Goto(k, "totals") /\ UNCHANGED <<taken, cashbacks, call>>
    BY <1>2 DEF RemoveWallet
  <2> HIDE DEF c, u, used, row
  <2>5. /\ cart' \in [Carts -> CartRow] /\ cart'[c] = row
        /\ \A d \in Carts \ {c} : cart'[d] = cart[d]
    BY <2>1, <2>3, <2>4, SetCartEffect
  <2>6. /\ posted' \in [Users -> [TxnTypes -> Nat]]
        /\ balance' \in [Users -> Int] /\ balance'[u] = balance[u] + used
        /\ OnlyType(u, "REVERSAL", used) /\ OnlyUser(u)
    BY <2>1, <2>2, <2>4, PostEffect DEF TxnTypes, OnlyType, OnlyUser
  <2>7. /\ returned' \in [Carts -> Nat]
        /\ returned'[c] = returned[c] + used
        /\ \A d \in Carts \ {c} : returned'[d] = returned[d]
    BY <2>1, <2>2, <2>4 DEF TypeOK
  <2>8. /\ pc' \in [Calls -> PCs] /\ pc'[k] = "totals"
        /\ \A j \in Calls \ {k} : pc'[j] = pc[j]
    <3>1. "totals" \in PCs
      BY DEF PCs
    <3> QED BY <2>4, <3>1, GotoEffect
  <2>9. TypeOK'
    BY <1>0, <2>4, <2>5, <2>6, <2>7, <2>8 DEF TypeOK
  <2>10. CallInv(k)'
    BY <2>1, <2>4, <2>8 DEF CallInv, OnCart, c, u
  <2>11. Moves(k)
    BY <1>0, <2>4, <2>8 DEF Moves
  <2>12. Reverses(k, u, c, used)
    <3>1. OnlyCart(c)
      BY <2>4, <2>5, <2>7 DEF OnlyCart
    <3>2. u = call[k].user /\ c = call[k].ref /\ used = call[k].row.used
      BY DEF u, c, used
    <3> QED BY <1>0, <2>3, <2>4, <2>5, <2>6, <2>7, <3>1, <3>2 DEF Reverses
  <2> QED BY <2>1, <2>2, <2>4, <2>8, <2>9, <2>10, <2>11, <2>12 DEF Effect
<1> QED BY <1>1, <1>2

LEMMA EditItemsEffect ==
  ASSUME TypeOK, CallsInv, NEW k \in Calls, NEW p \in Prices, EditItems(k, p)
  PROVE  Effect(k)
<1> DEFINE c == call[k].ref
           row == [cart[c] EXCEPT !.price = p]
<1>1. /\ pc[k] = "edit" /\ c \in Carts /\ call[k].user \in Users
      /\ Owner[c] \in {call[k].user, None}
  BY DEF EditItems, CallsInv, CallInv, OnCart
<1>2. row \in CartRow /\ row.used = cart[c].used
  <2>1. cart[c] \in CartRow /\ p \in Nat
    BY <1>1, RowTypes, WalletAssumption
  <2> QED BY <2>1, CartRowUpdate DEF CartRow
<1>3. SetCart(c, row) /\ Goto(k, "totals") /\ UNCHANGED <<ledger, call, faults>>
  BY DEF EditItems
<1> HIDE DEF row
<1>4. /\ cart' \in [Carts -> CartRow] /\ cart'[c] = row
      /\ \A d \in Carts \ {c} : cart'[d] = cart[d]
  BY <1>1, <1>2, <1>3, SetCartEffect
<1>5. /\ pc' \in [Calls -> PCs] /\ pc'[k] = "totals"
      /\ \A j \in Calls \ {k} : pc'[j] = pc[j]
  <2>1. "totals" \in PCs
    BY DEF PCs
  <2> QED BY <1>3, <2>1, GotoEffect
<1>6. Quiet
  BY <1>2, <1>3, <1>4 DEF Quiet
<1>7. TypeOK'
  BY <1>3, <1>4, <1>5 DEF TypeOK, ledger
<1>8. CallInv(k)' /\ Moves(k)
  BY <1>1, <1>3, <1>5 DEF CallInv, OnCart, Moves
<1> QED BY <1>3, <1>5, <1>6, <1>7, <1>8 DEF Effect

LEMMA RefuseEditEffect ==
  ASSUME TypeOK, CallsInv, NEW k \in Calls, RefuseEdit(k)
  PROVE  Effect(k)
<1>1. Finish(k) /\ UNCHANGED <<cart, ledger, faults>>
  BY DEF RefuseEdit
<1> QED BY <1>1, FinishQuietly DEF Quiet, TypeOK

LEMMA ReadTotalsEffect ==
  ASSUME TypeOK, CallsInv, NEW k \in Calls, ReadTotals(k)
  PROVE  Effect(k)
<1> DEFINE new == [call[k] EXCEPT !.row = cart[call[k].ref]]
<1>1. /\ pc[k] = "totals" /\ call[k].ref \in Carts /\ call[k].user \in Users
      /\ Owner[call[k].ref] \in {call[k].user, None}
  BY DEF ReadTotals, CallsInv, CallInv, OnCart
<1>2. /\ new \in CallRow /\ new.user = call[k].user
      /\ new.kind = call[k].kind /\ new.ref = call[k].ref
  <2>1. call[k] \in CallRow /\ cart[call[k].ref] \in CartRow
    BY <1>1, RowTypes
  <2> QED BY <2>1, CallRowUpdate DEF CallRow
<1>3. Local(k, new) /\ Goto(k, "items") /\ UNCHANGED <<cart, ledger, faults>>
  BY DEF ReadTotals
<1> HIDE DEF new
<1>4. /\ call' \in [Calls -> CallRow] /\ call'[k] = new
      /\ \A j \in Calls \ {k} : call'[j] = call[j]
  BY <1>2, <1>3, LocalEffect
<1>5. /\ pc' \in [Calls -> PCs] /\ pc'[k] = "items"
      /\ \A j \in Calls \ {k} : pc'[j] = pc[j]
  <2>1. "items" \in PCs
    BY DEF PCs
  <2> QED BY <1>3, <2>1, GotoEffect
<1>6. Quiet /\ TypeOK'
  BY <1>3, <1>4, <1>5 DEF Quiet, TypeOK, ledger
<1>7. CallInv(k)' /\ Moves(k)
  BY <1>1, <1>2, <1>4, <1>5 DEF CallInv, OnCart, Moves
<1> QED BY <1>4, <1>5, <1>6, <1>7 DEF Effect

LEMMA ReadItemsEffect ==
  ASSUME TypeOK, CallsInv, NEW k \in Calls, ReadItems(k)
  PROVE  Effect(k)
<1> DEFINE new == [call[k] EXCEPT !.price = cart[call[k].ref].price]
<1>1. /\ pc[k] = "items" /\ call[k].ref \in Carts /\ call[k].user \in Users
      /\ Owner[call[k].ref] \in {call[k].user, None}
  BY DEF ReadItems, CallsInv, CallInv, OnCart
<1>2. /\ new \in CallRow /\ new.user = call[k].user
      /\ new.kind = call[k].kind /\ new.ref = call[k].ref
  <2>1. call[k] \in CallRow /\ cart[call[k].ref].price \in Nat
    BY <1>1, RowTypes, CartFields
  <2> QED BY <2>1, CallRowUpdate DEF CallRow
<1>3. Local(k, new) /\ Goto(k, "write") /\ UNCHANGED <<cart, ledger, faults>>
  BY DEF ReadItems
<1> HIDE DEF new
<1>4. /\ call' \in [Calls -> CallRow] /\ call'[k] = new
      /\ \A j \in Calls \ {k} : call'[j] = call[j]
  BY <1>2, <1>3, LocalEffect
<1>5. /\ pc' \in [Calls -> PCs] /\ pc'[k] = "write"
      /\ \A j \in Calls \ {k} : pc'[j] = pc[j]
  <2>1. "write" \in PCs
    BY DEF PCs
  <2> QED BY <1>3, <2>1, GotoEffect
<1>6. Quiet /\ TypeOK'
  BY <1>3, <1>4, <1>5 DEF Quiet, TypeOK, ledger
<1>7. CallInv(k)' /\ Moves(k)
  BY <1>1, <1>2, <1>4, <1>5 DEF CallInv, OnCart, Moves
<1> QED BY <1>4, <1>5, <1>6, <1>7 DEF Effect

LEMMA WriteTotalsEffect ==
  ASSUME TypeOK, CallsInv, NEW k \in Calls, WriteTotals(k)
  PROVE  Effect(k)
<1> DEFINE c == call[k].ref
           total == Positive(call[k].price - call[k].row.used)
           row == [cart[c] EXCEPT !.payable = call[k].price, !.total = total]
<1>1. c \in Carts
  BY DEF WriteTotals, CallsInv, CallInv, OnCart
<1>2. total \in Nat /\ call[k].price \in Nat
  <2>1. call[k].price \in Nat /\ call[k].row.used \in Nat
    BY RowTypes, CallFields, CartFields
  <2>2. call[k].price - call[k].row.used \in Int
    BY <2>1
  <2> QED BY <2>1, <2>2, Arithmetic
<1>3. SetCart(c, row) /\ Finish(k) /\ UNCHANGED <<ledger, faults>>
  BY DEF WriteTotals
<1>4. row \in CartRow /\ row.used = cart[c].used
  <2>1. cart[c] \in CartRow
    BY <1>1, RowTypes
  <2> HIDE DEF total
  <2> QED BY <1>2, <2>1, CartRowUpdate DEF CartRow
<1> HIDE DEF row
<1>5. /\ cart' \in [Carts -> CartRow] /\ cart'[c] = row
      /\ \A d \in Carts \ {c} : cart'[d] = cart[d]
  BY <1>1, <1>3, <1>4, SetCartEffect
<1>6. Quiet
  BY <1>3, <1>4, <1>5 DEF Quiet
<1> QED BY <1>3, <1>5, <1>6, FinishQuietly DEF TypeOK

LEMMA CheckReferralEffect ==
  ASSUME TypeOK, CallsInv, NEW k \in Calls, CheckReferral(k)
  PROVE  Effect(k)
<1> DEFINE o == call[k].ord
<1>0. /\ pc[k] = "check" /\ o \in Orders
      /\ Quiet /\ cart' = cart /\ UNCHANGED <<ledger, faults>>
  BY DEF CheckReferral, Quiet, CallsInv, CallInv
<1>1. CASE Finish(k)
  BY <1>0, <1>1, FinishQuietly DEF TypeOK
<1>2. CASE ~Finish(k)
  <2>1. /\ Goto(k, "credit") /\ UNCHANGED call
        /\ Referrer[o] # None /\ ~(cashbacks[o] > 0)
    BY <1>2 DEF CheckReferral
  <2>2. Referrer[o] \in Users /\ cashbacks[o] = 0
    BY <1>0, <2>1, WalletAssumption DEF TypeOK
  <2>3. /\ pc' \in [Calls -> PCs] /\ pc'[k] = "credit"
        /\ \A j \in Calls \ {k} : pc'[j] = pc[j]
    <3>1. "credit" \in PCs
      BY DEF PCs
    <3> QED BY <2>1, <3>1, GotoEffect
  <2>4. TypeOK'
    BY <1>0, <2>1, <2>3 DEF TypeOK, ledger
  <2>5. CallInv(k)' /\ Moves(k)
    BY <1>0, <2>1, <2>2, <2>3 DEF CallInv, OnCart, Moves
  <2> QED BY <1>0, <2>1, <2>3, <2>4, <2>5 DEF Effect
<1> QED BY <1>1, <1>2

LEMMA CreditEffect ==
  ASSUME TypeOK, CallsInv, NEW k \in Calls, Credit(k)
  PROVE  Effect(k)
<1> DEFINE o == call[k].ord
           u == Referrer[o]
<1>1. /\ pc[k] = "credit" /\ o \in Orders /\ u \in Users
      /\ Discount[o] \in Nat
  BY WalletAssumption DEF Credit, CallsInv, CallInv
<1>2. /\ Post(u, "CASHBACK", Discount[o], Discount[o])
      /\ cashbacks' = [cashbacks EXCEPT ![o] = @ + 1]
      /\ Finish(k) /\ UNCHANGED <<cart, taken, returned, faults>>
  BY DEF Credit
<1>3. /\ posted' \in [Users -> [TxnTypes -> Nat]]
      /\ balance' \in [Users -> Int]
      /\ balance'[u] = balance[u] + Discount[o]
      /\ OnlyType(u, "CASHBACK", Discount[o]) /\ OnlyUser(u)
  BY <1>1, <1>2, PostEffect DEF TxnTypes, OnlyType, OnlyUser
<1>4. /\ cashbacks' \in [Orders -> Nat]
      /\ cashbacks'[o] = cashbacks[o] + 1
      /\ \A p \in Orders \ {o} : cashbacks'[p] = cashbacks[p]
  BY <1>1, <1>2 DEF TypeOK
<1>5. /\ pc' \in [Calls -> PCs] /\ pc'[k] = "done"
      /\ call' \in [Calls -> CallRow] /\ call'[k] = NoCall
      /\ \A j \in Calls \ {k} : pc'[j] = pc[j] /\ call'[j] = call[j]
  BY <1>2, FinishEffect
<1>6. TypeOK'
  BY <1>2, <1>3, <1>4, <1>5 DEF TypeOK
<1>7. CallInv(k)' /\ Moves(k)
  BY <1>5 DEF CallInv, OnCart, Moves, NoCall
<1>8. Credits(k, u, Discount[o])
  BY <1>1, <1>2, <1>3, <1>4 DEF Credits
<1> QED BY <1>1, <1>5, <1>6, <1>7, <1>8 DEF Effect

LEMMA AbortEffect ==
  ASSUME TypeOK, CallsInv, NEW k \in Calls, Abort(k)
  PROVE  Effect(k)
<1>1. Finish(k) /\ UNCHANGED <<cart, ledger>> /\ faults' = faults + 1
  BY DEF Abort
<1> QED BY <1>1, FinishQuietly DEF Quiet, TypeOK

LEMMA CallEffect ==
  ASSUME TypeOK, CallsInv, NEW k \in Calls, Request(k) \/ Step(k) \/ Abort(k)
  PROVE  Effect(k)
BY AskEffect, AttemptEffect, PickCartEffect, CountItemsEffect,
   ApplyWalletEffect, RemoveWalletEffect, EditItemsEffect, RefuseEditEffect,
   ReadTotalsEffect, ReadItemsEffect, WriteTotalsEffect, CheckReferralEffect,
   CreditEffect, AbortEffect DEF Request, Step

-----------------------------------------------------------------------------
(* The parts of the invariant, one by one.                                 *)

LEMMA LedgerStep ==
  ASSUME TypeOK, BalanceIsLedger, NEW k \in Calls, Effect(k)
  PROVE  BalanceIsLedger'
<1> SUFFICES ASSUME NEW v \in Users
             PROVE  balance'[v] = InitBalance[v] + posted'[v]["CASHBACK"]
                      + posted'[v]["REVERSAL"] - posted'[v]["WITHDRAWAL"]
  BY DEF BalanceIsLedger
<1>0. /\ balance[v] = InitBalance[v] + posted[v]["CASHBACK"]
           + posted[v]["REVERSAL"] - posted[v]["WITHDRAWAL"]
      /\ InitBalance[v] \in Nat /\ balance[v] \in Int
      /\ posted[v]["CASHBACK"] \in Nat /\ posted[v]["REVERSAL"] \in Nat
      /\ posted[v]["WITHDRAWAL"] \in Nat
  BY WalletAssumption DEF BalanceIsLedger, TypeOK, TxnTypes
<1>1. CASE Quiet
  BY <1>0, <1>1 DEF Quiet, ledger
<1>2. ASSUME NEW u \in Users, NEW c \in Carts, NEW n \in Nat,
             Withdraws(k, u, c, n)
      PROVE  balance'[v] = InitBalance[v] + posted'[v]["CASHBACK"]
               + posted'[v]["REVERSAL"] - posted'[v]["WITHDRAWAL"]
  <2>1. CASE v = u
    <3>1. /\ balance'[v] = balance[v] - n
          /\ posted'[v]["WITHDRAWAL"] = posted[v]["WITHDRAWAL"] + n
          /\ posted'[v]["CASHBACK"] = posted[v]["CASHBACK"]
          /\ posted'[v]["REVERSAL"] = posted[v]["REVERSAL"]
      BY <1>2, <2>1 DEF Withdraws, OnlyType, TxnTypes
    <3> QED BY <1>0, <3>1
  <2>2. CASE v # u
    BY <1>0, <1>2, <2>2 DEF Withdraws, OnlyUser
  <2> QED BY <2>1, <2>2
<1>3. ASSUME NEW u \in Users, NEW c \in Carts, NEW n \in Nat,
             Reverses(k, u, c, n)
      PROVE  balance'[v] = InitBalance[v] + posted'[v]["CASHBACK"]
               + posted'[v]["REVERSAL"] - posted'[v]["WITHDRAWAL"]
  <2>1. CASE v = u
    <3>1. /\ balance'[v] = balance[v] + n
          /\ posted'[v]["REVERSAL"] = posted[v]["REVERSAL"] + n
          /\ posted'[v]["CASHBACK"] = posted[v]["CASHBACK"]
          /\ posted'[v]["WITHDRAWAL"] = posted[v]["WITHDRAWAL"]
      BY <1>3, <2>1 DEF Reverses, OnlyType, TxnTypes
    <3> QED BY <1>0, <3>1
  <2>2. CASE v # u
    BY <1>0, <1>3, <2>2 DEF Reverses, OnlyUser
  <2> QED BY <2>1, <2>2
<1>4. ASSUME NEW u \in Users, NEW n \in Nat, Credits(k, u, n)
      PROVE  balance'[v] = InitBalance[v] + posted'[v]["CASHBACK"]
               + posted'[v]["REVERSAL"] - posted'[v]["WITHDRAWAL"]
  <2>1. CASE v = u
    <3>1. /\ balance'[v] = balance[v] + n
          /\ posted'[v]["CASHBACK"] = posted[v]["CASHBACK"] + n
          /\ posted'[v]["REVERSAL"] = posted[v]["REVERSAL"]
          /\ posted'[v]["WITHDRAWAL"] = posted[v]["WITHDRAWAL"]
      BY <1>4, <2>1 DEF Credits, OnlyType, TxnTypes
    <3> QED BY <1>0, <3>1
  <2>2. CASE v # u
    BY <1>0, <1>4, <2>2 DEF Credits, OnlyUser
  <2> QED BY <2>1, <2>2
<1> QED BY <1>1, <1>2, <1>3, <1>4 DEF Effect

LEMMA UsedStep ==
  ASSUME TypeOK, UsedWasWithdrawn, NEW k \in Calls, Effect(k)
  PROVE  UsedWasWithdrawn'
<1> SUFFICES ASSUME NEW d \in Carts  PROVE cart'[d].used <= taken'[d]
  BY DEF UsedWasWithdrawn
<1>0. cart[d].used <= taken[d] /\ cart[d].used \in Nat /\ taken[d] \in Nat
  BY RowTypes, CartFields DEF UsedWasWithdrawn, TypeOK
<1>1. CASE Quiet
  BY <1>0, <1>1 DEF Quiet, ledger
<1>2. ASSUME NEW u \in Users, NEW c \in Carts, NEW n \in Nat,
             Withdraws(k, u, c, n)
      PROVE  cart'[d].used <= taken'[d]
  <2>1. CASE d = c
    BY <1>0, <1>2, <2>1 DEF Withdraws
  <2>2. CASE d # c
    BY <1>0, <1>2, <2>2 DEF Withdraws, OnlyCart
  <2> QED BY <2>1, <2>2
<1>3. ASSUME NEW u \in Users, NEW c \in Carts, NEW n \in Nat,
             Reverses(k, u, c, n)
      PROVE  cart'[d].used <= taken'[d]
  <2>1. CASE d = c
    BY <1>0, <1>3, <2>1 DEF Reverses
  <2>2. CASE d # c
    BY <1>0, <1>3, <2>2 DEF Reverses, OnlyCart
  <2> QED BY <2>1, <2>2
<1>4. ASSUME NEW u \in Users, NEW n \in Nat, Credits(k, u, n)
      PROVE  cart'[d].used <= taken'[d]
  BY <1>0, <1>4 DEF Credits
<1> QED BY <1>1, <1>2, <1>3, <1>4 DEF Effect

(* A call that is on its way after a step was so before, or has just       *)
(* begun.                                                                  *)
LEMMA WayStep ==
  ASSUME TypeOK, NEW k \in Calls, Effect(k), NEW j \in Calls, OnItsWay(j)'
  PROVE  \/ OnItsWay(j) /\ call'[j].user = call[j].user
         \/ j = k /\ pc'[k] = "cart" /\ pc[k] = "idle"
<1>1. CASE j # k
  BY <1>1 DEF Effect, OnItsWay, Answered, InBackground
<1>2. CASE j = k
  <2>0. call'[k].user \in Careful /\ None \notin Careful
    BY <1>2, WalletAssumption DEF OnItsWay
  <2> QED BY <1>2, <2>0
          DEF Effect, Moves, OnItsWay, Answered, InBackground
<1> QED BY <1>1, <1>2

LEMMA OneStep ==
  ASSUME TypeOK, OneAtATime, NEW k \in Calls, Effect(k)
  PROVE  OneAtATime'
<1> SUFFICES ASSUME NEW i \in Calls, NEW j \in Calls, OnItsWay(i)',
                    OnItsWay(j)', call'[i].user = call'[j].user, i # j
             PROVE  FALSE
  BY DEF OneAtATime
<1>1. CASE OnItsWay(i) /\ OnItsWay(j)
           /\ call'[i].user = call[i].user /\ call'[j].user = call[j].user
  BY <1>1 DEF OneAtATime
<1>2. ASSUME NEW h \in Calls, h # k, OnItsWay(h)',
             pc'[k] = "cart", pc[k] = "idle", OnItsWay(k)',
             call'[h].user = call'[k].user
      PROVE  FALSE
  <2>1. /\ call'[h] = call[h] /\ pc'[h] = pc[h]
        /\ call'[k].user \in Careful
    BY <1>2 DEF Effect, OnItsWay
  <2>2. Answered(h) \/ InBackground(h)
    BY <1>2, <2>1 DEF Effect, Moves
  <2> QED BY <1>2, <2>1, <2>2 DEF OnItsWay, Answered, InBackground
<1> QED BY <1>1, <1>2, WayStep

(* Only a withdrawal of the user's own call lowers a balance.              *)
LEMMA BalanceKept ==
  ASSUME TypeOK, NEW k \in Calls, Effect(k), NEW v \in Users
  PROVE  \/ balance'[v] >= balance[v]
         \/ \E c \in Carts, n \in Nat : Withdraws(k, v, c, n)
<1>0. balance[v] \in Int
  BY RowTypes
<1>1. CASE Quiet
  BY <1>0, <1>1 DEF Quiet, ledger
<1>2. ASSUME NEW u \in Users, NEW c \in Carts, NEW n \in Nat,
             Withdraws(k, u, c, n)
      PROVE  \/ balance'[v] >= balance[v]
             \/ \E d \in Carts, m \in Nat : Withdraws(k, v, d, m)
  <2>1. CASE v = u
    BY <1>2, <2>1
  <2>2. CASE v # u
    BY <1>0, <1>2, <2>2 DEF Withdraws, OnlyUser
  <2> QED BY <2>1, <2>2
<1>3. ASSUME NEW u \in Users, NEW c \in Carts, NEW n \in Nat,
             Reverses(k, u, c, n)
      PROVE  balance'[v] >= balance[v]
  BY <1>0, <1>3 DEF Reverses, OnlyUser
<1>4. ASSUME NEW u \in Users, NEW n \in Nat, Credits(k, u, n)
      PROVE  balance'[v] >= balance[v]
  BY <1>0, <1>4 DEF Credits, OnlyUser
<1> QED BY <1>1, <1>2, <1>3, <1>4 DEF Effect

LEMMA OverdraftStep ==
  ASSUME TypeOK, CallsInv, NoOverdraft, NEW k \in Calls, MoneyIsThere(k),
         Effect(k)
  PROVE  NoOverdraft'
<1> SUFFICES ASSUME NEW v \in Careful  PROVE balance'[v] >= 0
  BY DEF NoOverdraft
<1>0. v \in Users /\ balance[v] >= 0 /\ balance[v] \in Int
      /\ balance'[v] \in Int
  BY WalletAssumption, RowTypes DEF NoOverdraft, Effect, TypeOK
<1>1. CASE balance'[v] >= balance[v]
  BY <1>0, <1>1
<1>2. ASSUME NEW c \in Carts, NEW n \in Nat, Withdraws(k, v, c, n)
      PROVE  balance'[v] >= 0
  <2>1. n <= call[k].money /\ call[k].money <= balance[v]
    BY <1>2 DEF Withdraws, MoneyIsThere
  <2>2. call[k].money \in Nat /\ balance'[v] = balance[v] - n
    BY <1>2, RowTypes, CallFields DEF Withdraws
  <2> QED BY <1>0, <2>1, <2>2
<1> QED BY <1>0, <1>1, <1>2, BalanceKept

LEMMA MoneyStep ==
  ASSUME TypeOK, CallsInv, NoOverdraft, OneAtATime, NEW k \in Calls,
         Effect(k), NEW j \in Calls, MoneyIsThere(j)
  PROVE  MoneyIsThere(j)'
<1> SUFFICES ASSUME pc'[j] \in {"cart", "count", "apply"},
                    call'[j].user \in Careful
             PROVE  call'[j].money <= balance'[call'[j].user]
  BY DEF MoneyIsThere
<1> DEFINE v == call'[j].user
<1>0. /\ v \in Users /\ balance[v] >= 0 /\ balance[v] \in Int
      /\ balance'[v] \in Int /\ call[j].money \in Nat
  BY WalletAssumption, RowTypes, CallFields DEF NoOverdraft, Effect, TypeOK
<1>1. OnItsWay(j)'
  BY DEF OnItsWay, Answered, InBackground
<1>2. CASE j = k /\ pc'[k] = "cart" /\ pc[k] = "idle"
  <2>1. Quiet /\ call'[j].money \in {0, Positive(balance[v])}
    BY <1>2 DEF Effect, Moves
  <2>2. Positive(balance[v]) = balance[v] \/ Positive(balance[v]) = 0
    BY DEF Positive
  <2>3. balance'[v] = balance[v]
    BY <2>1 DEF Quiet, ledger
  <2>4. call'[j].money <= balance'[v]
    <3> HIDE DEF v
    <3> QED BY <1>0, <2>1, <2>2, <2>3
  <2> QED BY <2>4
<1>3. CASE OnItsWay(j) /\ v = call[j].user
  <2>1. CASE j = k
    <3>1. /\ pc[k] \in {"cart", "count"} /\ Quiet
          /\ call'[k].money = call[k].money
      BY <1>3, <2>1 DEF Effect, Moves, OnItsWay, Answered
    <3> QED BY <1>3, <2>1, <3>1 DEF MoneyIsThere, Quiet, ledger
  <2>2. CASE j # k
    <3>1. pc'[j] = pc[j] /\ call'[j] = call[j]
      BY <2>2 DEF Effect
    <3>2. call[j].money <= balance[v]
      BY <1>3, <3>1 DEF MoneyIsThere
    <3>3. ASSUME NEW c \in Carts, NEW n \in Nat, Withdraws(k, v, c, n)
          PROVE  FALSE
      <4>1. OnItsWay(k) /\ call[k].user = call[j].user
        BY <1>3, <3>3 DEF Withdraws, OnItsWay, Answered, InBackground
      <4> QED BY <1>3, <2>2, <4>1 DEF OneAtATime
    <3>4. balance'[v] >= balance[v]
      BY <1>0, <3>3, BalanceKept
    <3> QED BY <1>0, <3>1, <3>2, <3>4
  <2> QED BY <2>1, <2>2
<1> QED BY <1>1, <1>2, <1>3, WayStep

LEMMA CoveredStep ==
  ASSUME TypeOK, CarefulUseIsCovered, NEW k \in Calls, UseIsThere(k),
         Effect(k)
  PROVE  CarefulUseIsCovered'
<1> SUFFICES ASSUME NEW d \in Carts, Owner[d] \in Careful
             PROVE  cart'[d].used <= taken'[d] - returned'[d]
  BY DEF CarefulUseIsCovered
<1>0. /\ cart[d].used <= taken[d] - returned[d]
      /\ cart[d].used \in Nat /\ taken[d] \in Nat /\ returned[d] \in Nat
  BY RowTypes, CartFields DEF CarefulUseIsCovered, TypeOK
<1>1. CASE Quiet
  BY <1>0, <1>1 DEF Quiet, ledger
<1>2. ASSUME NEW u \in Users, NEW c \in Carts, NEW n \in Nat,
             Withdraws(k, u, c, n)
      PROVE  cart'[d].used <= taken'[d] - returned'[d]
  <2>1. CASE d = c
    BY <1>0, <1>2, <2>1 DEF Withdraws
  <2>2. CASE d # c
    BY <1>0, <1>2, <2>2 DEF Withdraws, OnlyCart
  <2> QED BY <2>1, <2>2
<1>3. ASSUME NEW u \in Users, NEW c \in Carts, NEW n \in Nat,
             Reverses(k, u, c, n)
      PROVE  cart'[d].used <= taken'[d] - returned'[d]
  <2>1. CASE d = c
    <3>1. n = cart[d].used
      BY <1>3, <2>1 DEF Reverses, UseIsThere
    <3> QED BY <1>0, <1>3, <2>1, <3>1 DEF Reverses
  <2>2. CASE d # c
    BY <1>0, <1>3, <2>2 DEF Reverses, OnlyCart
  <2> QED BY <2>1, <2>2
<1>4. ASSUME NEW u \in Users, NEW n \in Nat, Credits(k, u, n)
      PROVE  cart'[d].used <= taken'[d] - returned'[d]
  BY <1>0, <1>4 DEF Credits
<1> QED BY <1>1, <1>2, <1>3, <1>4 DEF Effect

LEMMA UseStep ==
  ASSUME TypeOK, CallsInv, OneAtATime, NEW k \in Calls, Effect(k),
         NEW j \in Calls, UseIsThere(j)
  PROVE  UseIsThere(j)'
<1> SUFFICES ASSUME pc'[j] = "remove", Owner[call'[j].ref] \in Careful
             PROVE  call'[j].row.used = cart'[call'[j].ref].used
  BY DEF UseIsThere
<1>1. CASE j = k
  <2>1. Quiet /\ call'[j].row = cart[call'[j].ref]
    BY <1>1 DEF Effect, Moves
  <2>2. call'[j].ref \in Carts
    BY <1>1 DEF Effect, CallInv, OnCart
  <2> QED BY <2>1, <2>2 DEF Quiet
<1>2. CASE j # k
  <2> DEFINE d == call[j].ref
  <2>1. pc'[j] = pc[j] /\ call'[j] = call[j]
    BY <1>2 DEF Effect
  <2>2. /\ d \in Carts /\ Owner[d] \in Careful /\ call[j].user = Owner[d]
        /\ call[j].row.used = cart[d].used
    BY <2>1, WalletAssumption DEF CallsInv, CallInv, OnCart, UseIsThere
  <2>3. OnItsWay(j)
    BY <2>1, <2>2 DEF OnItsWay, Answered, InBackground
  <2>4. ~(pc[k] \in {"apply", "remove"} /\ call[k].ref = d)
    <3> SUFFICES ASSUME pc[k] \in {"apply", "remove"}, call[k].ref = d
                 PROVE  FALSE
      OBVIOUS
    <3>1. call[k].user = Owner[d]
      BY <2>2, WalletAssumption DEF CallsInv, CallInv, OnCart
    <3>2. OnItsWay(k)
      BY <2>2, <3>1 DEF OnItsWay, Answered, InBackground
    <3> QED BY <1>2, <2>2, <2>3, <3>1, <3>2 DEF OneAtATime
  <2>5. cart'[d].used = cart[d].used
    <3> HIDE DEF d
    <3> QED BY <2>2, <2>4
            DEF Effect, Quiet, Withdraws, Reverses, Credits, OnlyCart
  <2> QED BY <2>1, <2>2, <2>5
<1> QED BY <1>1, <1>2

LEMMA AttemptStep ==
  ASSUME ~JobsOverlap, TypeOK, CallsInv, AttemptInv, CashbackOnce,
         NEW k \in Calls, Effect(k)
  PROVE  AttemptInv' /\ CashbackOnce'
<1> DEFINE Trying(j) == pc[j] \in {"check", "credit"}
<1>1. ASSUME NEW j \in Calls, Trying(j)'
      PROVE  \/ Trying(j) /\ call'[j] = call[j]
             \/ j = k /\ pc'[k] = "check"
                /\ \A h \in Calls \ {k} :
                     call[h].ord = call'[k].ord => pc[h] = "done"
  BY <1>1 DEF Effect, Moves
<1>2. ASSUME NEW i \in Calls, NEW j \in Calls, Trying(i)', Trying(j)',
             call'[i].ord = call'[j].ord, i # j
      PROVE  FALSE
  <2>1. ASSUME NEW h \in Calls \ {k}, Trying(h)',
               call'[h].ord = call'[k].ord,
               \A g \in Calls \ {k} :
                 call[g].ord = call'[k].ord => pc[g] = "done"
        PROVE  FALSE
    BY <2>1 DEF Effect
  <2>2. CASE Trying(i) /\ call'[i] = call[i]
             /\ Trying(j) /\ call'[j] = call[j]
    BY <1>2, <2>2 DEF AttemptInv
  <2> HIDE DEF Trying
  <2> QED BY <1>1, <1>2, <2>1, <2>2
<1>3. ASSUME NEW j \in Calls, pc'[j] = "credit"
      PROVE  cashbacks'[call'[j].ord] = 0
  <2>1. CASE j = k
    BY <1>3, <2>1 DEF Effect, Moves, Quiet, ledger
  <2>2. CASE j # k
    <3>1. /\ pc[j] = "credit" /\ call'[j] = call[j]
          /\ call[j].ord \in Orders /\ cashbacks[call[j].ord] = 0
      BY <1>3, <2>2 DEF Effect, CallsInv, CallInv, AttemptInv
    <3>2. ~(pc[k] = "credit" /\ call[k].ord = call[j].ord)
      BY <2>2, <3>1 DEF AttemptInv
    <3> QED BY <3>1, <3>2
            DEF Effect, Quiet, Withdraws, Reverses, Credits, ledger
  <2> QED BY <2>1, <2>2
<1>4. ASSUME NEW o \in Orders  PROVE cashbacks'[o] <= 1
  <2>0. cashbacks[o] <= 1 /\ cashbacks[o] \in Nat
    BY DEF CashbackOnce, TypeOK
  <2>1. CASE cashbacks' = cashbacks
    BY <2>0, <2>1
  <2>2. ASSUME NEW u \in Users, NEW n \in Nat, Credits(k, u, n)
        PROVE  cashbacks'[o] <= 1
    <3>1. CASE o = call[k].ord
      BY <2>2, <3>1 DEF Credits, AttemptInv
    <3>2. CASE o # call[k].ord
      BY <2>0, <2>2, <3>2 DEF Credits
    <3> QED BY <3>1, <3>2
  <2> QED BY <2>1, <2>2 DEF Effect, Quiet, Withdraws, Reverses, ledger
<1> QED BY <1>2, <1>3, <1>4 DEF AttemptInv, CashbackOnce

-----------------------------------------------------------------------------

LEMMA InvariantInit == ASSUME Init PROVE WInv
<1>0. \A u \in Users : balance[u] = InitBalance[u] /\ balance[u] \in Nat
  BY WalletAssumption DEF Init
<1>1. TypeOK
  <2>1. /\ \A p \in Prices : [active |-> TRUE, price |-> p, payable |-> p,
                              used |-> 0, total |-> p] \in CartRow
        /\ InitBalance \in [Users -> Int]
    BY WalletAssumption DEF CartRow
  <2>2. pc \in [Calls -> PCs] /\ call \in [Calls -> CallRow]
    BY BlankTypes DEF Init, PCs
  <2>3. cart \in [Carts -> CartRow]
    BY <2>1 DEF Init
  <2> QED BY <2>1, <2>2, <2>3 DEF Init, TypeOK
<1>2. \A k \in Calls : pc[k] = "idle"
  BY DEF Init
<1>3. \A c \in Carts : cart[c].used = 0
  BY DEF Init
<1>4. /\ CallsInv /\ OneAtATime /\ AttemptInv
      /\ \A k \in Calls : MoneyIsThere(k) /\ UseIsThere(k)
  BY <1>2 DEF CallsInv, CallInv, OnCart, OneAtATime, OnItsWay, Answered,
              AttemptInv, MoneyIsThere, UseIsThere
<1>5. BalanceIsLedger
  <2> SUFFICES ASSUME NEW u \in Users
               PROVE  balance[u] = InitBalance[u] + posted[u]["CASHBACK"]
                        + posted[u]["REVERSAL"] - posted[u]["WITHDRAWAL"]
    BY DEF BalanceIsLedger
  <2>1. /\ posted[u]["CASHBACK"] = 0 /\ posted[u]["REVERSAL"] = 0
        /\ posted[u]["WITHDRAWAL"] = 0
    BY DEF Init, TxnTypes
  <2> QED BY <1>0, <2>1
<1>6. UsedWasWithdrawn /\ CarefulUseIsCovered /\ CashbackOnce
  BY <1>3 DEF Init, UsedWasWithdrawn, CarefulUseIsCovered, CashbackOnce
<1>7. NoOverdraft
  <2> SUFFICES ASSUME NEW u \in Careful  PROVE balance[u] >= 0
    BY DEF NoOverdraft
  <2>1. balance[u] \in Nat
    BY <1>0, WalletAssumption
  <2> QED BY <2>1
<1> QED BY <1>1, <1>4, <1>5, <1>6, <1>7 DEF WInv

LEMMA ConvertStep ==
  ASSUME WInv, NEW c \in Carts, Convert(c)
  PROVE  WInv'
<1> DEFINE row == [cart[c] EXCEPT !.active = FALSE]
<1>0. TypeOK
  BY DEF WInv
<1>1. row \in CartRow /\ row.used = cart[c].used
  <2>1. cart[c] \in CartRow
    BY <1>0, RowTypes
  <2> QED BY <2>1, CartRowUpdate DEF CartRow
<1>2. SetCart(c, row) /\ UNCHANGED <<ledger, pc, call, faults>>
  BY DEF Convert
<1> HIDE DEF row
<1>3. /\ cart' \in [Carts -> CartRow]
      /\ \A d \in Carts : cart'[d].used = cart[d].used
  BY <1>0, <1>1, <1>2, SetCartEffect
<1>4. TypeOK'
  BY <1>0, <1>2, <1>3 DEF TypeOK, ledger
<1>5. CallsInv' /\ OneAtATime'
      /\ (AttemptInv /\ CashbackOnce => AttemptInv' /\ CashbackOnce')
  BY <1>2 DEF WInv, CallsInv, CallInv, OneAtATime, OnItsWay, Answered,
              InBackground, AttemptInv, CashbackOnce, ledger
<1>6. BalanceIsLedger' /\ NoOverdraft' /\ \A k \in Calls : MoneyIsThere(k)'
  BY <1>2 DEF WInv, BalanceIsLedger, NoOverdraft, MoneyIsThere, ledger
<1>7. UsedWasWithdrawn' /\ CarefulUseIsCovered'
  BY <1>2, <1>3 DEF WInv, UsedWasWithdrawn, CarefulUseIsCovered, ledger
<1>8. ASSUME NEW k \in Calls  PROVE UseIsThere(k)'
  BY <1>2, <1>3 DEF WInv, UseIsThere, CallsInv, CallInv, OnCart
<1> QED BY <1>4, <1>5, <1>6, <1>7, <1>8 DEF WInv

LEMMA InvariantStep == ASSUME WInv, [Next]_vars PROVE WInv'
<1>1. CASE UNCHANGED vars
  BY <1>1 DEF vars, ledger, WInv, TypeOK, CallsInv, CallInv, OneAtATime,
     OnItsWay, Answered, InBackground, BalanceIsLedger, UsedWasWithdrawn,
     NoOverdraft, MoneyIsThere, CarefulUseIsCovered, UseIsThere, AttemptInv,
     CashbackOnce
<1>2. ASSUME NEW k \in Calls, Request(k) \/ Step(k) \/ Abort(k)
      PROVE  WInv'
  <2>0. /\ TypeOK /\ CallsInv /\ OneAtATime /\ BalanceIsLedger
        /\ UsedWasWithdrawn /\ NoOverdraft /\ CarefulUseIsCovered
        /\ \A j \in Calls : MoneyIsThere(j) /\ UseIsThere(j)
        /\ ~JobsOverlap => AttemptInv /\ CashbackOnce
    BY DEF WInv
  <2>1. Effect(k)
    BY <1>2, <2>0, CallEffect
  <2>2. TypeOK' /\ CallsInv'
    <3>1. ASSUME NEW j \in Calls, j # k  PROVE CallInv(j)'
      BY <2>0, <2>1, <3>1 DEF Effect, CallsInv, CallInv
    <3> QED BY <2>1, <3>1 DEF Effect, CallsInv
  <2>3. OneAtATime' /\ BalanceIsLedger' /\ UsedWasWithdrawn'
    BY <2>0, <2>1, OneStep, LedgerStep, UsedStep
  <2>4. NoOverdraft' /\ CarefulUseIsCovered'
    BY <2>0, <2>1, OverdraftStep, CoveredStep
  <2>5. \A j \in Calls : MoneyIsThere(j)' /\ UseIsThere(j)'
    BY <2>0, <2>1, MoneyStep, UseStep
  <2>6. ~JobsOverlap => AttemptInv' /\ CashbackOnce'
    BY <2>0, <2>1, AttemptStep
  <2> QED BY <2>2, <2>3, <2>4, <2>5, <2>6 DEF WInv
<1>3. ASSUME NEW c \in Carts, Convert(c)  PROVE WInv'
  BY <1>3, ConvertStep
<1> QED BY <1>1, <1>2, <1>3 DEF Next, AllDone

(* WInv holds in every reachable state: the strengthening the theorems     *)
(* below rest on.                                                          *)
THEOREM WalletInvariance == Spec => []WInv
<1>1. Init => WInv
  BY InvariantInit
<1>2. WInv /\ [Next]_vars => WInv'
  BY InvariantStep
<1> QED BY <1>1, <1>2, PTL DEF Spec

(* The state always has its type: whatever interleaves, the money of a cart *)
(* and the sums of the withdrawals and reversals stay natural numbers,     *)
(* while a balance may be negative (cart.py:183-231).                      *)
THEOREM WalletTypeCorrect == Spec => []TypeOK
<1>1. WInv => TypeOK
  BY DEF WInv
<1> QED BY <1>1, WalletInvariance, PTL

(* Every user's balance is always the sum of the user's transactions,      *)
(* however calls interleave and whatever fails (cart.py:202-213, 220-231,  *)
(* order.py:438-448).                                                      *)
THEOREM BalanceIsLedgerCorrect == Spec => []BalanceIsLedger
<1>1. WInv => BalanceIsLedger
  BY DEF WInv
<1> QED BY <1>1, WalletInvariance, PTL

(* No cart is ever credited with wallet money that was not withdrawn for   *)
(* it, also when its user does not wait for answers (cart.py:195-213).     *)
THEOREM UsedWasWithdrawnCorrect == Spec => []UsedWasWithdrawn
<1>1. WInv => UsedWasWithdrawn
  BY DEF WInv
<1> QED BY <1>1, WalletInvariance, PTL

(* The balance of a user who waits for answers never falls below zero      *)
(* (cart.py:186, 213).                                                     *)
THEOREM NoOverdraftCorrect == Spec => []NoOverdraft
<1>1. WInv => NoOverdraft
  BY DEF WInv
<1> QED BY <1>1, WalletInvariance, PTL

(* What is given back to a user who waits for answers was withdrawn for    *)
(* that cart and had not been given back (cart.py:216-231).                *)
THEOREM CarefulUseIsCoveredCorrect == Spec => []CarefulUseIsCovered
<1>1. WInv => CarefulUseIsCovered
  BY DEF WInv
<1> QED BY <1>1, WalletInvariance, PTL

(* The cashback of an order is issued at most once when no attempt of its  *)
(* job begins before the last one ended (order.py:431-448).                *)
THEOREM CashbackOnceCorrect ==
  ASSUME ~JobsOverlap
  PROVE  Spec => []CashbackOnce
<1>1. WInv => CashbackOnce
  BY DEF WInv
<1> QED BY <1>1, WalletInvariance, PTL
=============================================================================
