------------------------------- MODULE Wallet -------------------------------
(***************************************************************************)
(* The money in the users' wallets: CartService.apply_wallet_balance and   *)
(* remove_wallet_balance with the calculate_totals that follows them       *)
(* (services/cart.py), and the cashback of OrderService.process_referral,  *)
(* which a worker job asks for (services/order.py).                        *)
(*                                                                         *)
(* Calls interleave at every await.  A call is                             *)
(*   apply     POST /cart/apply-wallet                                     *)
(*   remove    POST /cart/remove-wallet                                    *)
(*   edit      a change of the items of the cart, whose totals are         *)
(*             recalculated by a task that runs after the answer           *)
(*   referral  one attempt of the process_referral job                     *)
(* Amounts are natural numbers; what the items cost with tax, shipping and *)
(* discount is one number, 0 for a cart without items.  WalletTransaction  *)
(* rows are kept as sums.                                                  *)
(***************************************************************************)
EXTENDS Integers

CONSTANTS
  Users,
  Carts,            \* cart ids, a later cart has a larger id
  Owner,            \* the user of a cart, None for a guest's
  Prices,           \* bound: what the items of a cart may cost
  InitBalance,
  Orders,           \* orders whose referral job runs
  Buyer, Referrer,  \* the user of an order, the owner of its code or None
  Discount,         \* discount_amount of an order
  Calls,            \* bound: requests and job attempts, each once
  Careful,          \* users who wait for an answer before they ask again
  JobsOverlap,      \* may an attempt of a job start before the last ended?
  MaxFaults,        \* bound: failing statements and lost processes
  None

ASSUME WalletAssumption ==
  /\ Carts \subseteq Nat
  /\ Owner \in [Carts -> Users \union {None}]
  /\ Prices \subseteq Nat /\ Prices # {}
  /\ InitBalance \in [Users -> Nat]
  /\ Buyer \in [Orders -> Users]
  /\ Referrer \in [Orders -> Users \union {None}]
  /\ Discount \in [Orders -> Nat]
  /\ Careful \subseteq Users
  /\ JobsOverlap \in BOOLEAN
  /\ MaxFaults \in Nat
  /\ None \notin Users /\ None \notin Carts /\ None \notin Orders

VARIABLES
  cart,        \* Cart rows with what their items cost now
  balance,     \* User.wallet_balance
  posted,      \* posted[u][t]: sum of u's WalletTransaction rows of type t
  taken,       \* sum of the WITHDRAWAL rows whose reference is the cart
  returned,    \* sum of the REVERSAL rows whose reference is the cart
  cashbacks,   \* number of CASHBACK rows whose reference is the order
  pc, call,    \* where a call stands and its local variables
  faults       \* how many faults there have been

ledger == <<balance, posted, taken, returned, cashbacks>>
vars == <<cart, ledger, pc, call, faults>>

\* ADJUSTMENT rows are written nowhere.
TxnTypes == {"CASHBACK", "WITHDRAWAL", "REVERSAL"}
Kinds == {"apply", "remove", "edit", "referral"}
PCs == {"idle", "cart", "count", "apply", "remove", "edit", "totals", "items",
        "write", "check", "credit", "done"}

CartRow == [active  : BOOLEAN,
            price   : Nat,       \* what its items cost
            payable : Nat,       \* subtotal + tax + shipping - discount
            used    : Nat,       \* wallet_used
            total   : Nat]
CallRow == [kind  : Kinds \union {None},
            user  : Users \union {None},
            ref   : Carts \union {None},     \* the cart it works on
            ord   : Orders \union {None},
            money : Nat,         \* the user's balance as it was read
            price : Nat,         \* the cost of the items as it was read
            row   : CartRow]     \* the cart as it was read

NoRow == [active |-> FALSE, price |-> 0, payable |-> 0, used |-> 0,
          total |-> 0]
NoCall == [kind |-> None, user |-> None, ref |-> None, ord |-> None,
           money |-> 0, price |-> 0, row |-> NoRow]

Positive(x) == IF x > 0 THEN x ELSE 0
Least(x, y) == IF x < y THEN x ELSE y

Init ==
  /\ cart \in [Carts -> {[active |-> TRUE, price |-> p, payable |-> p,
                          used |-> 0, total |-> p] :
                         p \in Prices}]
  /\ balance = InitBalance
  /\ posted = [u \in Users |-> [t \in TxnTypes |-> 0]]
  /\ taken = [c \in Carts |-> 0]
  /\ returned = [c \in Carts |-> 0]
  /\ cashbacks = [o \in Orders |-> 0]
  /\ pc = [k \in Calls |-> "idle"]
  /\ call = [k \in Calls |-> NoCall]
  /\ faults = 0

Goto(k, p) == pc' = [pc EXCEPT ![k] = p]
Local(k, new) == call' = [call EXCEPT ![k] = new]
Finish(k) == Goto(k, "done") /\ Local(k, NoCall)
SetCart(c, row) == cart' = [cart EXCEPT ![c] = row]

(* A WalletTransaction row and the increment of the balance it explains,   *)
(* in one transaction.                                                     *)
Post(u, type, amount, change) ==
  /\ posted' = [posted EXCEPT ![u][type] = @ + amount]
  /\ balance' = [balance EXCEPT ![u] = @ + change]

(* get_active_cart: the newest active cart of the user, else the one whose *)
(* number the request carries.                                             *)
ActiveCart(u, c) ==
  LET mine == {d \in Carts : Owner[d] = u /\ cart[d].active} IN
  IF mine # {} THEN {d \in mine : \A e \in mine : e <= d}
               ELSE {d \in {c} : cart[d].active}

-----------------------------------------------------------------------------
(* Requests.                                                               *)

Answered(k) == pc[k] \in {"idle", "done"}

(* The task that recalculates the totals runs after the answer.            *)
InBackground(k) ==
  call[k].kind = "edit" /\ pc[k] \in {"totals", "items", "write"}

(* A request arrives and its user is read.  A browser keeps to one user:   *)
(* the cart number it carries is the user's or a guest's.                  *)
Ask(k, kind, u, c) ==
  /\ pc[k] = "idle"
  /\ Owner[c] \in {u, None}
  /\ u \in Careful =>
       \A j \in Calls : call[j].user = u => Answered(j) \/ InBackground(j)
  /\ Local(k, [NoCall EXCEPT !.kind = kind, !.user = u, !.ref = c,
              !.money = IF kind = "apply" THEN Positive(balance[u]) ELSE 0])
  /\ Goto(k, "cart")
  /\ UNCHANGED <<cart, ledger, faults>>

PickCart(k) ==
  /\ pc[k] = "cart"
  /\ LET active == ActiveCart(call[k].user, call[k].ref) IN
     \/ active = {} /\ Finish(k)
     \/ \E c \in active :
          /\ Local(k, [call[k] EXCEPT !.ref = c, !.row = cart[c]])
          /\ Goto(k, IF call[k].kind = "apply" THEN "count" ELSE call[k].kind)
  /\ UNCHANGED <<cart, ledger, faults>>

(* apply_wallet refuses a cart without items.                              *)
CountItems(k) ==
  /\ pc[k] = "count"
  /\ IF cart[call[k].ref].price = 0
       THEN Finish(k)
       ELSE Goto(k, "apply") /\ UNCHANGED call
  /\ UNCHANGED <<cart, ledger, faults>>

-----------------------------------------------------------------------------
(* The transactions, on the user and the cart as they were read.           *)

(* Mutant: all that is to be paid is taken from the wallet.                *)
ToUseWhole(k) == call[k].row.payable

ToUse(k) == Least(call[k].money, call[k].row.payable)

(* Mutant: the whole cart counts as paid, whatever was withdrawn for it.   *)
ApplyWalletWhole(k) ==
  /\ pc[k] = "apply"
  /\ LET c == call[k].ref
         used == ToUse(k) IN
     IF call[k].money = 0
       THEN Finish(k) /\ UNCHANGED <<cart, ledger>>
       ELSE /\ SetCart(c, [cart[c] EXCEPT
                 !.used = call[k].row.payable, !.total = 0])
            /\ Post(call[k].user, "WITHDRAWAL", used, -used)
            /\ taken' = [taken EXCEPT ![c] = @ + used]
            /\ Goto(k, "totals")
            /\ UNCHANGED <<returned, cashbacks, call>>
  /\ UNCHANGED faults

ApplyWallet(k) ==
  /\ pc[k] = "apply"
  /\ LET c == call[k].ref
         used == ToUse(k) IN
     IF call[k].money = 0
       THEN Finish(k) /\ UNCHANGED <<cart, ledger>>
       ELSE /\ SetCart(c, [cart[c] EXCEPT
                 !.used = used, !.total = call[k].row.payable - used])
            /\ Post(call[k].user, "WITHDRAWAL", used, -used)
            /\ taken' = [taken EXCEPT ![c] = @ + used]
            /\ Goto(k, "totals")
            /\ UNCHANGED <<returned, cashbacks, call>>
  /\ UNCHANGED faults

(* Mutant: the balance is given back without a WalletTransaction row.      *)
RemoveWalletUnposted(k) ==
  /\ pc[k] = "remove"
  /\ LET c == call[k].ref
         used == call[k].row.used IN
     IF used = 0
       THEN Finish(k) /\ UNCHANGED <<cart, ledger>>
       ELSE /\ SetCart(c, [cart[c] EXCEPT !.used = 0])
            /\ balance' = [balance EXCEPT ![call[k].user] = @ + used]
            /\ returned' = [returned EXCEPT ![c] = @ + used]
            /\ Goto(k, "totals")
            /\ UNCHANGED <<posted, taken, cashbacks, call>>
  /\ UNCHANGED faults

RemoveWallet(k) ==
  /\ pc[k] = "remove"
  /\ LET c == call[k].ref
         used == call[k].row.used IN
     IF used = 0
       THEN Finish(k) /\ UNCHANGED <<cart, ledger>>
       ELSE /\ SetCart(c, [cart[c] EXCEPT !.used = 0])
            /\ Post(call[k].user, "REVERSAL", used, used)
            /\ returned' = [returned EXCEPT ![c] = @ + used]
            /\ Goto(k, "totals")
            /\ UNCHANGED <<taken, cashbacks, call>>
  /\ UNCHANGED faults

EditItems(k, p) ==
  /\ pc[k] = "edit"
  /\ SetCart(call[k].ref, [cart[call[k].ref] EXCEPT !.price = p])
  /\ Goto(k, "totals")
  /\ UNCHANGED <<ledger, call, faults>>

(* The item is not of this cart, or the stock does not cover the quantity. *)
RefuseEdit(k) ==
  /\ pc[k] = "edit"
  /\ Finish(k)
  /\ UNCHANGED <<cart, ledger, faults>>

-----------------------------------------------------------------------------
(* calculate_totals reads the cart, then its items, then writes.           *)

ReadTotals(k) ==
  /\ pc[k] = "totals"
  /\ Local(k, [call[k] EXCEPT !.row = cart[call[k].ref]])
  /\ Goto(k, "items")
  /\ UNCHANGED <<cart, ledger, faults>>

ReadItems(k) ==
  /\ pc[k] = "items"
  /\ Local(k, [call[k] EXCEPT !.price = cart[call[k].ref].price])
  /\ Goto(k, "write")
  /\ UNCHANGED <<cart, ledger, faults>>

(* Mutant: the wallet use that was read is written back with the totals.   *)
WriteTotalsAndUse(k) ==
  /\ pc[k] = "write"
  /\ SetCart(call[k].ref, [cart[call[k].ref] EXCEPT
        !.payable = call[k].price, !.used = call[k].row.used,
        !.total = Positive(call[k].price - call[k].row.used)])
  /\ Finish(k)
  /\ UNCHANGED <<ledger, faults>>

(* Mutant: the total is not kept from falling below zero.                  *)
WriteTotalsUnclamped(k) ==
  /\ pc[k] = "write"
  /\ SetCart(call[k].ref, [cart[call[k].ref] EXCEPT
        !.payable = call[k].price,
        !.total = call[k].price - call[k].row.used])
  /\ Finish(k)
  /\ UNCHANGED <<ledger, faults>>

WriteTotals(k) ==
  /\ pc[k] = "write"
  /\ SetCart(call[k].ref, [cart[call[k].ref] EXCEPT
        !.payable = call[k].price,
        !.total = Positive(call[k].price - call[k].row.used)])
  /\ Finish(k)
  /\ UNCHANGED <<ledger, faults>>

-----------------------------------------------------------------------------
(* process_referral: an attempt of the job looks for the cashback of the   *)
(* order and, in a transaction of its own, gives it.                       *)

Attempt(k, o) ==
  /\ pc[k] = "idle"
  /\ JobsOverlap \/ \A j \in Calls : call[j].ord = o => pc[j] = "done"
  /\ Local(k, [NoCall EXCEPT !.kind = "referral", !.ord = o])
  /\ Goto(k, "check")
  /\ UNCHANGED <<cart, ledger, faults>>

(* Mutant: cashback that was already issued is not looked for.             *)
CheckReferralAnew(k) ==
  /\ pc[k] = "check"
  /\ LET o == call[k].ord IN
     IF Referrer[o] \in {None, Buyer[o]}
       THEN Finish(k)
       ELSE Goto(k, "credit") /\ UNCHANGED call
  /\ UNCHANGED <<cart, ledger, faults>>

CheckReferral(k) ==
  /\ pc[k] = "check"
  /\ LET o == call[k].ord IN
     IF Referrer[o] \in {None, Buyer[o]} \/ cashbacks[o] > 0
       THEN Finish(k)
       ELSE Goto(k, "credit") /\ UNCHANGED call
  /\ UNCHANGED <<cart, ledger, faults>>

Credit(k) ==
  /\ pc[k] = "credit"
  /\ LET o == call[k].ord IN
     /\ Post(Referrer[o], "CASHBACK", Discount[o], Discount[o])
     /\ cashbacks' = [cashbacks EXCEPT ![o] = @ + 1]
  /\ Finish(k)
  /\ UNCHANGED <<cart, taken, returned, faults>>

-----------------------------------------------------------------------------
(* The order_created job converts a cart (Checkout).                       *)
Convert(c) ==
  /\ cart[c].active
  /\ SetCart(c, [cart[c] EXCEPT !.active = FALSE])
  /\ UNCHANGED <<ledger, pc, call, faults>>

(* A statement raises, a transaction rolls back, or the process is lost.   *)
Abort(k) ==
  /\ ~Answered(k)
  /\ faults < MaxFaults
  /\ faults' = faults + 1
  /\ Finish(k)
  /\ UNCHANGED <<cart, ledger>>

Request(k) ==
  \/ \E kind \in {"apply", "remove", "edit"}, u \in Users, c \in Carts :
       Ask(k, kind, u, c)
  \/ \E o \in Orders : Attempt(k, o)

Step(k) ==
  \/ PickCart(k) \/ CountItems(k) \/ ApplyWallet(k) \/ RemoveWallet(k)
  \/ \E p \in Prices : EditItems(k, p)
  \/ RefuseEdit(k)
  \/ ReadTotals(k) \/ ReadItems(k) \/ WriteTotals(k)
  \/ CheckReferral(k) \/ Credit(k)

AllDone == (\A k \in Calls : pc[k] = "done") /\ UNCHANGED vars

Next == \/ \E k \in Calls : Request(k) \/ Step(k) \/ Abort(k)
        \/ \E c \in Carts : Convert(c)
        \/ AllDone

Spec == Init /\ [][Next]_vars

-----------------------------------------------------------------------------
(* Every variable has its type.                                            *)
TypeOK ==
  /\ cart \in [Carts -> CartRow]
  /\ balance \in [Users -> Int]
  /\ posted \in [Users -> [TxnTypes -> Nat]]
  /\ taken \in [Carts -> Nat]
  /\ returned \in [Carts -> Nat]
  /\ cashbacks \in [Orders -> Nat]
  /\ pc \in [Calls -> PCs]
  /\ call \in [Calls -> CallRow]
  /\ faults \in Nat

(* The balance is what the user's transactions add up to, whatever fails   *)
(* and however requests and jobs interleave (cart.py:202-213, 220-231,     *)
(* order.py:438-448).                                                      *)
BalanceIsLedger ==
  \A u \in Users :
    balance[u] = InitBalance[u] + posted[u]["CASHBACK"]
                   + posted[u]["REVERSAL"] - posted[u]["WITHDRAWAL"]

(* A cart is never credited with wallet money that was not withdrawn for   *)
(* it (cart.py:195-213).                                                   *)
UsedWasWithdrawn == \A c \in Carts : cart[c].used <= taken[c]

(* The balance of a user who waits for answers never falls below zero,     *)
(* though it was checked on a row read before the cart was (cart.py:186,   *)
(* 213), and others' orders credit it meanwhile.                           *)
NoOverdraft == \A u \in Careful : balance[u] >= 0

(* What removing gives back was withdrawn for the cart and not yet given   *)
(* back, when the cart's user waits for answers (cart.py:216-231).         *)
CarefulUseIsCovered ==
  \A c \in Carts :
    Owner[c] \in Careful => cart[c].used <= taken[c] - returned[c]

(* An order's cashback is issued once however often its job is tried, if   *)
(* an attempt ends before the next begins (order.py:431-448).              *)
CashbackOnce == \A o \in Orders : cashbacks[o] <= 1

(* Wallet use is removed only from a cart that has some applied (what the  *)
(* check of cart.py:217-218 says), so it gives back no more than was taken.*)
RemovedWasApplied == \A c \in Carts : returned[c] <= taken[c]
=============================================================================
