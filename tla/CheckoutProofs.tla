--------------------------- MODULE CheckoutProofs ---------------------------
(***************************************************************************)
(* Proofs about Checkout for any number of users, carts, variants, orders  *)
(* and concurrent calls, and any number of faults.                         *)
(***************************************************************************)
EXTENDS Checkout, FiniteSetTheorems, TLAPS

(* Where the finalising call has recorded the payment and still owes       *)
(* effects.                                                                *)
Deducting == {"mark", "deduct", "deducting"}
Owing == Deducting \union {"invoice"}

(* What a call may rely on at every point of its code.                     *)
CallInv(k) ==
  /\ pc[k] \in {"cart", "find"} => call[k].cart \in Carts
  /\ pc[k] \in {"coupon", "create", "created"} => call[k].from \in Carts
  /\ pc[k] \in {"created", "load", "pay", "end", "check", "set", "item",
                "restock", "commit"} \union Owing => call[k].ord \in OrderIds
  /\ pc[k] \in {"load", "pay"} => call[k].method \in Methods
  /\ pc[k] \in {"item", "restock", "commit", "deducting"} =>
       call[k].item \in Variants
  /\ pc[k] \in {"check", "set", "item", "restock", "commit"} =>
       call[k].kind # "charge"
  /\ pc[k] = "set" => call[k].status # "SUCCESS"
  /\ pc[k] = "end" => Paid(call[k].ord)

CallsInv == \A k \in Calls : CallInv(k)

(* What a call that recorded the payment of an order still owes has not    *)
(* been done, and it is the only one that will do it.                      *)
OwesInv(k) ==
  /\ pc[k] \in Owing => payer[call[k].ord] = k
  /\ pc[k] \in Deducting =>
       /\ \A v \in Variants :
            call[k].lines[v] > 0 => deducted[call[k].ord][v] = 0
       /\ \A f \in FollowUps : jobs[call[k].ord][f] = 0
  /\ pc[k] = "deducting" => call[k].lines[call[k].item] > 0
  /\ pc[k] = "invoice" => jobs[call[k].ord]["generate_and_send_invoice"] = 0

(* A Payment row has a creator, its order stays, and nothing is done for   *)
(* an order without one.                                                   *)
PaymentInv ==
  \A o \in OrderIds :
    /\ order[o].method # None => order[o].stage = "placed"
    /\ order[o].method # None <=> payer[o] # None
    /\ \A v \in Variants :
         deducted[o][v] <= 1 /\ (deducted[o][v] > 0 => payer[o] # None)
    /\ \A f \in FollowUps :
         jobs[o][f] <= 1 /\ (jobs[o][f] > 0 => payer[o] # None)

IInv == /\ TypeOK
        /\ CallsInv
        /\ \A k \in Calls : OwesInv(k)
        /\ PaymentInv
        /\ SuccessHasPayment
        /\ AnsweredChargeIsRecorded

-----------------------------------------------------------------------------
(* Types.                                                                  *)

LEMMA BlankTypes ==
  /\ NoLines \in [Variants -> Nat]
  /\ NoRow \in VariantRow
  /\ NoOrder \in OrderRow
  /\ NoCall \in CallRow
BY CheckoutAssumption DEF NoLines, NoRow, NoOrder, NoCall, VariantRow,
   OrderRow, CallRow, PaymentStatuses

LEMMA AnswerType ==
  ASSUME TypeOK, NEW k \in Calls, NEW p \in Finished, Answer(k, p)
  PROVE  /\ pc' \in [Calls -> PCs]
         /\ call' \in [Calls -> CallRow]
<1>1. pc' \in [Calls -> PCs]
  BY DEF Answer, Goto, TypeOK, PCs, Finished
<1>2. [NoCall EXCEPT !.kind = call[k].kind, !.cart = call[k].cart,
                     !.ord = call[k].ord] \in CallRow
  BY BlankTypes DEF TypeOK, CallRow
<1> QED BY <1>1, <1>2 DEF Answer, Local, TypeOK

(* The rows of the state have their types.                                 *)
LEMMA RowTypes ==
  ASSUME TypeOK
  PROVE  /\ \A k \in Calls : call[k] \in CallRow
         /\ \A o \in OrderIds : order[o] \in OrderRow
         /\ \A v \in Variants : variant[v] \in VariantRow
BY DEF TypeOK

(* A row of a call stays one whatever well-typed values are put into it.   *)
LEMMA CallRowUpdate ==
  ASSUME NEW row \in CallRow
  PROVE  /\ \A m \in Methods : [row EXCEPT !.method = m] \in CallRow
         /\ \A c \in Carts : [row EXCEPT !.from = c] \in CallRow
         /\ \A l \in [Variants -> Nat] : [row EXCEPT !.lines = l] \in CallRow
         /\ \A w \in VariantRow : [row EXCEPT !.seen = w] \in CallRow
         /\ \A v \in Variants, w \in VariantRow :
              [row EXCEPT !.item = v, !.seen = w] \in CallRow
         /\ \A o \in OrderIds, m \in Methods :
              [row EXCEPT !.ord = o, !.method = m] \in CallRow
         /\ \A l \in [Variants -> Nat], s \in PaymentStatuses :
              [row EXCEPT !.lines = l, !.status = s] \in CallRow
<1>1. \A m \in Methods : [row EXCEPT !.method = m] \in CallRow
  BY DEF CallRow
<1>2. \A c \in Carts : [row EXCEPT !.from = c] \in CallRow
  BY DEF CallRow
<1>3. \A l \in [Variants -> Nat] : [row EXCEPT !.lines = l] \in CallRow
  BY DEF CallRow
<1>4. \A w \in VariantRow : [row EXCEPT !.seen = w] \in CallRow
  BY DEF CallRow
<1>5. \A v \in Variants, w \in VariantRow :
        [row EXCEPT !.item = v, !.seen = w] \in CallRow
  BY DEF CallRow
<1>6. \A o \in OrderIds, m \in Methods :
        [row EXCEPT !.ord = o, !.method = m] \in CallRow
  BY DEF CallRow
<1>7. \A l \in [Variants -> Nat], s \in PaymentStatuses :
        [row EXCEPT !.lines = l, !.status = s] \in CallRow
  BY DEF CallRow
<1> QED BY <1>1, <1>2, <1>3, <1>4, <1>5, <1>6, <1>7

(* An order's lines and payment status have their types.                   *)
LEMMA OrderFields ==
  ASSUME NEW row \in OrderRow
  PROVE  /\ row.lines \in [Variants -> Nat]
         /\ row.status \in PaymentStatuses
         /\ [row EXCEPT !.cart = None] \in OrderRow
BY DEF OrderRow

LEMMA GotoType ==
  ASSUME TypeOK, NEW k \in Calls, NEW p \in PCs, Goto(k, p)
  PROVE  pc' \in [Calls -> PCs]
BY DEF Goto, TypeOK

LEMMA LocalType ==
  ASSUME TypeOK, NEW k \in Calls, NEW new \in CallRow, Local(k, new)
  PROVE  call' \in [Calls -> CallRow]
BY DEF Local, TypeOK

LEMMA EnqueueType ==
  ASSUME TypeOK, NEW o \in OrderIds, NEW j \in JobNames, Enqueue(o, j)
  PROVE  jobs' \in [OrderIds -> [JobNames -> Nat]]
BY DEF Enqueue, TypeOK

LEMMA SetOrderType ==
  ASSUME TypeOK, NEW o \in OrderIds, NEW row \in OrderRow, SetOrder(o, row)
  PROVE  order' \in [OrderIds -> OrderRow]
BY DEF SetOrder, TypeOK

LEMMA SetVariantType ==
  ASSUME TypeOK, NEW v \in Variants, NEW row \in VariantRow, SetVariant(v, row)
  PROVE  variant' \in [Variants -> VariantRow]
BY DEF SetVariant, TypeOK

LEMMA RestOfCallType ==
  ASSUME TypeOK, pc' \in [Calls -> PCs], call' \in [Calls -> CallRow],
         UNCHANGED <<shopVars, variant, order, jobs, faults, historyVars>>
  PROVE  TypeOK'
BY DEF TypeOK, shopVars, historyVars

LEMMA ReceiveType ==
  ASSUME TypeOK, NEW k \in Calls, NEW kind \in AllKinds, NEW p \in PCs,
         NEW new \in CallRow, Receive(k, kind, p, new)
  PROVE  TypeOK'
<1>1. [new EXCEPT !.kind = kind] \in CallRow
  BY DEF Receive, CallRow
<1>2. call' \in [Calls -> CallRow]
  BY <1>1, LocalType DEF Receive
<1>3. pc' \in [Calls -> PCs]
  BY GotoType DEF Receive
<1> QED BY <1>2, <1>3, RestOfCallType DEF Receive

LEMMA RequestType ==
  ASSUME TypeOK, NEW k \in Calls, Request(k)
  PROVE  TypeOK'
<1>1. ASSUME NEW c \in Carts, Charge(k, c)  PROVE TypeOK'
  <2>1. [NoCall EXCEPT !.user = Owner[c], !.cart = c] \in CallRow
    BY BlankTypes, CheckoutAssumption DEF CallRow
  <2> QED BY <1>1, <2>1, ReceiveType DEF Charge, AllKinds, PCs
<1>2. ASSUME NEW u \in Users, NEW c \in Carts, Place(k, u, c)  PROVE TypeOK'
  <2>1. [NoCall EXCEPT !.user = u, !.cart = c] \in CallRow
    BY BlankTypes DEF CallRow
  <2> QED BY <1>2, <2>1, ReceiveType DEF Place, AllKinds, PCs
<1>3. ASSUME NEW o \in OrderIds, NEW s \in PaymentStatuses, Confirm(k, o, s)
      PROVE  TypeOK'
  <2>1. [NoCall EXCEPT !.ord = o, !.status = s] \in CallRow
    BY BlankTypes DEF CallRow
  <2> QED BY <1>3, <2>1, ReceiveType DEF Confirm, AllKinds, PCs
<1>4. ASSUME NEW o \in OrderIds, NEW v \in Variants, Return(k, o, v)
      PROVE  TypeOK'
  <2>1. [NoCall EXCEPT !.ord = o, !.item = v] \in CallRow
    BY BlankTypes DEF CallRow
  <2> QED BY <1>4, <2>1, ReceiveType DEF Return, AllKinds, PCs
<1> QED BY <1>1, <1>2, <1>3, <1>4 DEF Request

(* The steps that write only the caller's own state.                       *)
LEMMA CallStepType ==
  ASSUME TypeOK, CallsInv, NEW k \in Calls,
         \/ FindOrder(k) \/ PickCart(k) \/ LoadOrder(k) \/ EndFinalize(k)
         \/ CheckStock(k) \/ ReadItem(k) \/ ReadRestock(k)
         \/ \E v \in Variants : ReadVariant(k, v)
  PROVE  TypeOK'
<1>0. CallInv(k)
  BY DEF CallsInv
<1>1. CASE FindOrder(k)
  <2>1. CASE OrderOfCart(call[k].cart) = {}
    BY <1>1, <2>1, GotoType, RestOfCallType DEF FindOrder, PCs, TypeOK
  <2>2. CASE OrderOfCart(call[k].cart) # {}
    <3>1. PICK o \in OrderOfCart(call[k].cart) :
            /\ Local(k, [call[k] EXCEPT !.ord = o, !.method = "PAYSTACK"])
            /\ Goto(k, IF Paid(o) THEN "end" ELSE "load")
      BY <1>1, <2>2 DEF FindOrder
    <3>2. [call[k] EXCEPT !.ord = o, !.method = "PAYSTACK"] \in CallRow
      <4>1. o \in OrderIds /\ call[k] \in CallRow
        BY RowTypes DEF OrderOfCart
      <4> QED BY <4>1, CallRowUpdate DEF Methods
    <3>3. (IF Paid(o) THEN "end" ELSE "load") \in PCs
      BY DEF PCs
    <3> QED BY <1>1, <3>1, <3>2, <3>3, LocalType, GotoType, RestOfCallType
            DEF FindOrder
  <2> QED BY <2>1, <2>2
<1>2. CASE PickCart(k)
  <2>1. CASE Answer(k, "failed")
    BY <1>2, <2>1, AnswerType, RestOfCallType DEF PickCart, Finished
  <2>2. CASE ~Answer(k, "failed")
    <3>1. PICK c \in ActiveCart(call[k].user, call[k].cart) :
            /\ Local(k, [call[k] EXCEPT !.from = c])
            /\ Goto(k, IF c \in CouponCarts THEN "coupon" ELSE "create")
      BY <1>2, <2>2 DEF PickCart
    <3>2. c \in Carts
      BY <1>0, <1>2 DEF ActiveCart, CallInv, PickCart
    <3>3. [call[k] EXCEPT !.from = c] \in CallRow
      BY <3>2, RowTypes, CallRowUpdate
    <3>4. (IF c \in CouponCarts THEN "coupon" ELSE "create") \in PCs
      BY DEF PCs
    <3> QED BY <1>2, <3>1, <3>3, <3>4, LocalType, GotoType, RestOfCallType
            DEF PickCart
  <2> QED BY <2>1, <2>2
<1>3. CASE LoadOrder(k)
  <2>1. CASE ~Placed(call[k].ord)
    BY <1>3, <2>1, AnswerType, RestOfCallType DEF LoadOrder, Finished
  <2>2. CASE Paid(call[k].ord)
    BY <1>3, <2>2, GotoType, RestOfCallType DEF LoadOrder, PCs, TypeOK, Paid
  <2>3. CASE Placed(call[k].ord) /\ ~Paid(call[k].ord)
    <3>1. [call[k] EXCEPT !.lines = order[call[k].ord].lines] \in CallRow
      <4>1. call[k].ord \in OrderIds
        BY <1>0, <1>3 DEF CallInv, LoadOrder
      <4>2. order[call[k].ord].lines \in [Variants -> Nat]
        BY <4>1, RowTypes, OrderFields
      <4> QED BY <4>2, RowTypes, CallRowUpdate
    <3> QED BY <1>3, <2>3, <3>1, LocalType, GotoType, RestOfCallType
            DEF LoadOrder, PCs
  <2> QED BY <2>1, <2>2, <2>3
<1>4. CASE EndFinalize(k)
  <2>1. [call[k] EXCEPT !.method = "PAYSTACK"] \in CallRow
    BY RowTypes, CallRowUpdate DEF Methods
  <2>2. pc' \in [Calls -> PCs] /\ call' \in [Calls -> CallRow]
    BY <1>4, <2>1, LocalType, GotoType, AnswerType
    DEF EndFinalize, PCs, Finished
  <2> QED BY <1>4, <2>2, RestOfCallType DEF EndFinalize
<1>5. CASE CheckStock(k)
  <2>1. [call[k] EXCEPT !.method = "BANK_TRANSFER"] \in CallRow
    BY RowTypes, CallRowUpdate DEF Methods
  <2>2. pc' \in [Calls -> PCs] /\ call' \in [Calls -> CallRow]
    BY <1>5, <2>1, LocalType, GotoType, AnswerType
    DEF CheckStock, PCs, Finished, TypeOK
  <2> QED BY <1>5, <2>2, RestOfCallType DEF CheckStock
<1>6. CASE ReadItem(k)
  <2>1. [call[k] EXCEPT !.lines = order[call[k].ord].lines,
                        !.status = order[call[k].ord].status] \in CallRow
    <3>1. call[k].ord \in OrderIds
      BY <1>0, <1>6 DEF CallInv, ReadItem
    <3>2. /\ order[call[k].ord].lines \in [Variants -> Nat]
          /\ order[call[k].ord].status \in PaymentStatuses
      BY <3>1, RowTypes, OrderFields
    <3> QED BY <3>2, RowTypes, CallRowUpdate
  <2>2. pc' \in [Calls -> PCs] /\ call' \in [Calls -> CallRow]
    BY <1>6, <2>1, LocalType, GotoType, AnswerType
    DEF ReadItem, PCs, Finished
  <2> QED BY <1>6, <2>2, RestOfCallType DEF ReadItem
<1>7. CASE ReadRestock(k)
  <2>1. [call[k] EXCEPT !.seen = variant[call[k].item]] \in CallRow
    <3>1. call[k].item \in Variants
      BY <1>0, <1>7 DEF CallInv, ReadRestock
    <3>2. variant[call[k].item] \in VariantRow
      BY <3>1, RowTypes
    <3> QED BY <3>2, RowTypes, CallRowUpdate
  <2> QED BY <1>7, <2>1, LocalType, GotoType, RestOfCallType
          DEF ReadRestock, PCs
<1>8. ASSUME NEW v \in Variants, ReadVariant(k, v)  PROVE TypeOK'
  <2>1. [call[k] EXCEPT !.item = v, !.seen = variant[v]] \in CallRow
    BY RowTypes, CallRowUpdate
  <2> QED BY <1>8, <2>1, LocalType, GotoType, RestOfCallType
          DEF ReadVariant, PCs
<1> QED BY <1>1, <1>2, <1>3, <1>4, <1>5, <1>6, <1>7, <1>8

(* The steps that write the database, the queue or the fault counter.      *)
LEMMA WriteStepType ==
  ASSUME TypeOK, CallsInv, NEW k \in Calls,
         \/ CountCoupon(k) \/ CreateOrder(k) \/ QueueCreated(k)
         \/ CreatePayment(k) \/ MarkPaid(k) \/ WriteVariant(k)
         \/ QueueReferral(k) \/ QueueInvoice(k) \/ SetStatus(k)
         \/ CommitReturn(k)
  PROVE  TypeOK'
<1>0. CallInv(k) /\ call[k] \in CallRow
  BY DEF CallsInv, TypeOK
<1>1. CASE CountCoupon(k)
  BY <1>1, GotoType DEF CountCoupon, PCs, TypeOK, historyVars
<1>2. CASE CreateOrder(k)
  <2>1. UNCHANGED <<cartStatus, uses, variant, jobs, faults, payer, deducted>>
    BY <1>2 DEF CreateOrder, shopVars, historyVars
  <2>2. CASE Answer(k, "failed") /\ UNCHANGED order
    BY <2>1, <2>2, AnswerType DEF Finished, TypeOK
  <2>3. CASE ~(Answer(k, "failed") /\ UNCHANGED order)
    <3>1. PICK o \in OrderIds :
            /\ order' = [p \in OrderIds |->
                 IF p = o
                   THEN [NoOrder EXCEPT !.stage = "placed",
                           !.cart = call[k].from,
                           !.lines = CartLines[call[k].from],
                           !.coupon = (call[k].from \in CouponCarts)]
                 ELSE IF p \in OrderOfCart(call[k].from)
                   THEN [order[p] EXCEPT !.cart = None]
                 ELSE order[p]]
            /\ Local(k, [call[k] EXCEPT !.ord = o])
            /\ Goto(k, "created")
      BY <1>2, <2>3 DEF CreateOrder
    <3>2. call[k].from \in Carts
      BY <1>0, <1>2 DEF CallInv, CreateOrder
    <3>3. [NoOrder EXCEPT !.stage = "placed", !.cart = call[k].from,
                          !.lines = CartLines[call[k].from],
                          !.coupon = (call[k].from \in CouponCarts)]
            \in OrderRow
      <4>1. ASSUME NEW row \in OrderRow, NEW c \in Carts, NEW b \in BOOLEAN,
                   NEW l \in [Variants -> Nat]
            PROVE  [row EXCEPT !.stage = "placed", !.cart = c, !.lines = l,
                               !.coupon = b] \in OrderRow
        BY DEF OrderRow
      <4>2. (call[k].from \in CouponCarts) \in BOOLEAN
        OBVIOUS
      <4>3. CartLines[call[k].from] \in [Variants -> Nat]
        BY <3>2, CheckoutAssumption
      <4> QED BY <3>2, <4>1, <4>2, <4>3, BlankTypes
    <3>4. ASSUME NEW p \in OrderIds
          PROVE  /\ order[p] \in OrderRow
                 /\ [order[p] EXCEPT !.cart = None] \in OrderRow
      BY RowTypes, OrderFields
    <3>5. order' \in [OrderIds -> OrderRow]
      BY <3>1, <3>3, <3>4
    <3>6. [call[k] EXCEPT !.ord = o] \in CallRow
      BY <1>0 DEF CallRow
    <3> QED BY <2>1, <3>1, <3>5, <3>6, LocalType, GotoType DEF TypeOK, PCs
  <2> QED BY <2>2, <2>3
<1>3. CASE QueueCreated(k)
  <2>1. call[k].ord \in OrderIds
    BY <1>0, <1>3 DEF CallInv, QueueCreated
  <2>2. jobs' \in [OrderIds -> [JobNames -> Nat]]
    BY <1>3, <2>1, EnqueueType DEF QueueCreated, JobNames
  <2>3. /\ [call[k] EXCEPT !.method = "PAYSTACK"] \in CallRow
        /\ [call[k] EXCEPT !.method = "WALLET"] \in CallRow
    BY <1>0 DEF CallRow, Methods
  <2>4. pc' \in [Calls -> PCs] /\ call' \in [Calls -> CallRow]
    BY <1>3, <2>3, LocalType, GotoType, AnswerType
    DEF QueueCreated, PCs, Finished
  <2> QED BY <1>3, <2>2, <2>4 DEF QueueCreated, TypeOK, shopVars, historyVars
<1>4. CASE CreatePayment(k)
  <2>1. call[k].ord \in OrderIds /\ call[k].method \in Methods
    BY <1>0, <1>4 DEF CallInv, CreatePayment
  <2>2. pc' \in [Calls -> PCs] /\ call' \in [Calls -> CallRow]
    BY <1>4, GotoType, AnswerType DEF CreatePayment, PCs, Finished, TypeOK
  <2>3. payer' \in [OrderIds -> Calls \union {None}]
    BY <1>4, <2>1 DEF CreatePayment, TypeOK
  <2>4. order' \in [OrderIds -> OrderRow]
    <3>1. (IF call[k].method = "PAYSTACK" THEN call[k].cart ELSE None)
            \in Carts \union {None}
      BY <1>0 DEF CallRow
    <3>2. CASE UNCHANGED order
      BY <3>2 DEF TypeOK
    <3>3. CASE ~UNCHANGED order
      <4>1. SetOrder(call[k].ord, [order[call[k].ord] EXCEPT
              !.method = call[k].method,
              !.charge =
                 IF call[k].method = "PAYSTACK" THEN call[k].cart ELSE None])
        BY <1>4, <3>3 DEF CreatePayment
      <4>2. ASSUME NEW row \in OrderRow, NEW m \in Methods,
                   NEW c \in Carts \union {None}
            PROVE  [row EXCEPT !.method = m, !.charge = c] \in OrderRow
        BY DEF OrderRow
      <4> QED BY <2>1, <3>1, <4>1, <4>2, SetOrderType DEF TypeOK
    <3> QED BY <3>2, <3>3
  <2> QED BY <1>4, <2>2, <2>3, <2>4
          DEF CreatePayment, TypeOK, shopVars, historyVars
<1>5. CASE MarkPaid(k)
  <2>1. call[k].ord \in OrderIds
    BY <1>0, <1>5 DEF CallInv, MarkPaid, Owing, Deducting
  <2>2. [order[call[k].ord] EXCEPT !.status = "SUCCESS"] \in OrderRow
    <3>1. order[call[k].ord] \in OrderRow
      BY <2>1 DEF TypeOK
    <3> QED BY <3>1 DEF OrderRow, PaymentStatuses
  <2>3. order' \in [OrderIds -> OrderRow]
    BY <1>5, <2>1, <2>2, SetOrderType DEF MarkPaid
  <2> QED BY <1>5, <2>3, GotoType DEF MarkPaid, TypeOK, shopVars, historyVars,
             PCs
<1>6. CASE WriteVariant(k)
  <2>1. call[k].ord \in OrderIds /\ call[k].item \in Variants
    BY <1>0, <1>6 DEF CallInv, WriteVariant, Owing, Deducting
  <2>2. call[k].seen.inventory \in Nat /\ call[k].lines[call[k].item] \in Nat
    BY <1>0, <2>1 DEF CallRow, VariantRow
  <2>3. variant' \in [Variants -> VariantRow]
    <3>1. ASSUME NEW row \in VariantRow, NEW n \in Nat, NEW b \in BOOLEAN
          PROVE  [row EXCEPT !.inventory = n,
                    !.status = IF b THEN "OUT_OF_STOCK" ELSE @] \in VariantRow
      BY DEF VariantRow
    <3> DEFINE left == IF call[k].seen.inventory > call[k].lines[call[k].item]
                         THEN call[k].seen.inventory
                                - call[k].lines[call[k].item]
                         ELSE 0
               gone == left = 0 /\ call[k].seen.status # "OUT_OF_STOCK"
    <3>2. left \in Nat /\ gone \in BOOLEAN
      BY <2>2
    <3>3. SetVariant(call[k].item, [variant[call[k].item] EXCEPT
            !.inventory = left,
            !.status = IF gone THEN "OUT_OF_STOCK" ELSE @])
      BY <1>6 DEF WriteVariant
    <3> HIDE DEF left, gone
    <3> QED BY <2>1, <3>1, <3>2, <3>3, SetVariantType DEF TypeOK
  <2>4. deducted' \in [OrderIds -> [Variants -> Nat]]
    <3>1. deducted' = [deducted EXCEPT ![call[k].ord][call[k].item] = @ + 1]
      BY <1>6 DEF WriteVariant
    <3>2. deducted \in [OrderIds -> [Variants -> Nat]]
      BY DEF TypeOK
    <3> QED BY <2>1, <3>1, <3>2
  <2>5. [call[k] EXCEPT !.lines[call[k].item] = 0, !.item = None,
                        !.seen = NoRow] \in CallRow
    BY <1>0, BlankTypes DEF CallRow
  <2>6. call' \in [Calls -> CallRow] /\ pc' \in [Calls -> PCs]
    BY <1>6, <2>5, LocalType, GotoType DEF WriteVariant, PCs
  <2> QED BY <1>6, <2>3, <2>4, <2>6 DEF WriteVariant, TypeOK, shopVars
<1>7. CASE QueueReferral(k)
  <2>1. call[k].ord \in OrderIds
    BY <1>0, <1>7 DEF CallInv, QueueReferral, Owing, Deducting
  <2>2. jobs' \in [OrderIds -> [JobNames -> Nat]]
    BY <1>7, <2>1, EnqueueType DEF QueueReferral, JobNames, FollowUps
  <2> QED BY <1>7, <2>2, GotoType DEF QueueReferral, TypeOK, shopVars,
             historyVars, PCs
<1>8. CASE QueueInvoice(k)
  <2>1. call[k].ord \in OrderIds
    BY <1>0, <1>8 DEF CallInv, QueueInvoice, Owing
  <2>2. jobs' \in [OrderIds -> [JobNames -> Nat]]
    BY <1>8, <2>1, EnqueueType DEF QueueInvoice, JobNames, FollowUps
  <2> QED BY <1>8, <2>2, GotoType DEF QueueInvoice, TypeOK, shopVars,
             historyVars, PCs
<1>9. CASE SetStatus(k)
  <2>1. call[k].status \in PaymentStatuses
    BY <1>0 DEF CallRow
  <2>2. order' \in [OrderIds -> OrderRow]
    <3>1. call[k].ord \in OrderIds
      BY <1>0, <1>9 DEF CallInv, SetStatus
    <3>2. [order[call[k].ord] EXCEPT !.status = call[k].status] \in OrderRow
      <4>1. order[call[k].ord] \in OrderRow
        BY <3>1 DEF TypeOK
      <4> QED BY <2>1, <4>1 DEF OrderRow
    <3> QED BY <1>9, <3>1, <3>2, SetOrderType DEF SetStatus, TypeOK
  <2> QED BY <1>9, <2>2, AnswerType DEF SetStatus, TypeOK, shopVars,
             historyVars, Finished
<1>10. CASE CommitReturn(k)
  <2>1. call[k].ord \in OrderIds /\ call[k].item \in Variants
    BY <1>0, <1>10 DEF CallInv, CommitReturn
  <2>2. call[k].seen.inventory \in Nat /\ call[k].lines[call[k].item] \in Nat
    BY <1>0, <2>1 DEF CallRow, VariantRow
  <2>3. variant' \in [Variants -> VariantRow]
    <3>1. [inventory |-> call[k].seen.inventory + call[k].lines[call[k].item],
           status |-> "IN_STOCK"] \in VariantRow
      BY <2>2 DEF VariantRow
    <3> QED BY <1>10, <2>1, <3>1, SetVariantType DEF CommitReturn, TypeOK
  <2>4. order' \in [OrderIds -> OrderRow]
    <3>1. [order[call[k].ord] EXCEPT !.lines[call[k].item] = 0] \in OrderRow
      <4>1. order[call[k].ord] \in OrderRow
        BY <2>1 DEF TypeOK
      <4> QED BY <4>1 DEF OrderRow
    <3> QED BY <1>10, <2>1, <3>1, SetOrderType DEF CommitReturn, TypeOK
  <2>5. pc' \in [Calls -> PCs] /\ call' \in [Calls -> CallRow]
    BY <1>10, AnswerType DEF CommitReturn, Finished
  <2> QED BY <1>10, <2>3, <2>4, <2>5 DEF CommitReturn, TypeOK, shopVars,
             historyVars
<1> QED BY <1>1, <1>2, <1>3, <1>4, <1>5, <1>6, <1>7, <1>8, <1>9, <1>10

LEMMA AbortType ==
  ASSUME TypeOK, NEW k \in Calls, Abort(k)
  PROVE  TypeOK'
BY AnswerType DEF Abort, Finished, TypeOK, shopVars, historyVars

LEMMA SkipItemType ==
  ASSUME TypeOK, NEW k \in Calls, NEW v \in Variants, SkipItem(k, v)
  PROVE  TypeOK'
<1>1. [call[k] EXCEPT !.lines[v] = 0, !.item = None, !.seen = NoRow] \in CallRow
  <2>1. call[k] \in CallRow
    BY DEF TypeOK
  <2> QED BY <2>1, BlankTypes DEF CallRow
<1>2. call' \in [Calls -> CallRow] /\ pc' \in [Calls -> PCs]
  BY <1>1, LocalType, GotoType DEF SkipItem, PCs
<1>3. faults' = faults + 1
  BY DEF SkipItem
<1>4. UNCHANGED <<shopVars, variant, order, jobs, historyVars>>
  BY DEF SkipItem
<1> QED BY <1>2, <1>3, <1>4 DEF TypeOK, shopVars, historyVars

LEMMA OrderStepType ==
  ASSUME TypeOK, NEW o \in OrderIds,
         DeleteOrder(o) \/ ProcessCreated(o) \/ LoseJob(o)
  PROVE  TypeOK'
<1>0. order[o] \in OrderRow
  BY DEF TypeOK
<1>1. CASE DeleteOrder(o)
  <2>1. [order[o] EXCEPT !.stage = "deleted", !.cart = None] \in OrderRow
    BY <1>0 DEF OrderRow
  <2> QED BY <1>1, <2>1, SetOrderType
          DEF DeleteOrder, TypeOK, shopVars, historyVars
<1>2. CASE ProcessCreated(o)
  <2>1. order[o].cart \in Carts
    BY <1>0, <1>2 DEF ProcessCreated, OrderRow
  <2>2. cartStatus' \in [Carts -> {"ACTIVE", "CONVERTED"}]
    BY <1>2, <2>1 DEF ProcessCreated, TypeOK
  <2> QED BY <1>2, <2>2 DEF ProcessCreated, TypeOK, historyVars
<1>3. CASE LoseJob(o)
  <2>1. jobs' \in [OrderIds -> [JobNames -> Nat]]
    <3>1. "order_created" \in JobNames /\ jobs[o] \in [JobNames -> Nat]
      BY DEF JobNames, TypeOK
    <3>2. jobs[o]["order_created"] - 1 \in Nat
      BY <1>3, <3>1 DEF LoseJob
    <3> QED BY <1>3, <3>1, <3>2 DEF LoseJob, TypeOK
  <2> QED BY <1>3, <2>1 DEF LoseJob, TypeOK, shopVars, historyVars
<1> QED BY <1>1, <1>2, <1>3

(* Every step keeps the types.                                             *)
LEMMA TypeStep ==
  ASSUME TypeOK, CallsInv, [Next]_vars
  PROVE  TypeOK'
<1>1. CASE UNCHANGED vars
  BY <1>1 DEF vars, TypeOK
<1>2. ASSUME NEW k \in Calls, Request(k) \/ Step(k) \/ Abort(k)
      PROVE  TypeOK'
  BY <1>2, RequestType, CallStepType, WriteStepType, AbortType DEF Step
<1>3. ASSUME NEW k \in Calls, NEW v \in Variants, SkipItem(k, v)
      PROVE  TypeOK'
  BY <1>3, SkipItemType
<1>4. ASSUME NEW o \in OrderIds,
             DeleteOrder(o) \/ ProcessCreated(o) \/ LoseJob(o)
      PROVE  TypeOK'
  BY <1>4, OrderStepType
<1> QED BY <1>1, <1>2, <1>3, <1>4 DEF Next, AllAnswered

-----------------------------------------------------------------------------
(* A step of a call leaves the other calls where they are.                 *)

LEMMA GotoOthers ==
  ASSUME TypeOK, NEW k \in Calls, NEW j \in Calls \ {k}, NEW p, Goto(k, p)
  PROVE  pc'[j] = pc[j]
BY DEF Goto, TypeOK

LEMMA LocalOthers ==
  ASSUME TypeOK, NEW k \in Calls, NEW j \in Calls \ {k}, NEW new, Local(k, new)
  PROVE  call'[j] = call[j]
BY DEF Local, TypeOK

LEMMA AnswerOthers ==
  ASSUME TypeOK, NEW k \in Calls, NEW j \in Calls \ {k}, NEW p, Answer(k, p)
  PROVE  pc'[j] = pc[j] /\ call'[j] = call[j]
BY GotoOthers, LocalOthers DEF Answer

LEMMA OthersKept ==
  ASSUME TypeOK, NEW k \in Calls, NEW j \in Calls \ {k},
         \/ Request(k) \/ Step(k) \/ Abort(k)
         \/ \E v \in Variants : SkipItem(k, v)
  PROVE  pc'[j] = pc[j] /\ call'[j] = call[j]
<1> USE GotoOthers, LocalOthers, AnswerOthers
<1>1. CASE Request(k)
  BY <1>1 DEF Request, Charge, Place, Confirm, Return, Receive
<1>2. CASE FindOrder(k) \/ PickCart(k)
  BY <1>2 DEF FindOrder, PickCart
<1>3. CASE CountCoupon(k) \/ CreateOrder(k)
  BY <1>3 DEF CountCoupon, CreateOrder
<1>4. CASE QueueCreated(k)
  BY <1>4 DEF QueueCreated
<1>5. CASE LoadOrder(k)
  BY <1>5 DEF LoadOrder
<1>6. CASE CreatePayment(k)
  BY <1>6 DEF CreatePayment
<1>7. CASE MarkPaid(k) \/ QueueReferral(k) \/ QueueInvoice(k)
  BY <1>7 DEF MarkPaid, QueueReferral, QueueInvoice
<1>8. CASE WriteVariant(k)
  BY <1>8 DEF WriteVariant
<1>9. ASSUME NEW v \in Variants, ReadVariant(k, v)
      PROVE  pc'[j] = pc[j] /\ call'[j] = call[j]
  BY <1>9 DEF ReadVariant
<1>10. ASSUME NEW v \in Variants, SkipItem(k, v)
       PROVE  pc'[j] = pc[j] /\ call'[j] = call[j]
  BY <1>10 DEF SkipItem
<1>11. CASE EndFinalize(k)
  BY <1>11 DEF EndFinalize
<1>12. CASE CheckStock(k)
  BY <1>12 DEF CheckStock
<1>13. CASE SetStatus(k) \/ Abort(k)
  BY <1>13 DEF SetStatus, Abort
<1>14. CASE ReadItem(k)
  BY <1>14 DEF ReadItem
<1>15. CASE ReadRestock(k)
  BY <1>15 DEF ReadRestock
<1>16. CASE CommitReturn(k)
  BY <1>16 DEF CommitReturn
<1> QED BY <1>1, <1>2, <1>3, <1>4, <1>5, <1>6, <1>7, <1>8, <1>9, <1>10,
           <1>11, <1>12, <1>13, <1>14, <1>15, <1>16 DEF Step

-----------------------------------------------------------------------------
(* The orders a step leaves alone.                                         *)

(* The steps of a call that touch neither an order nor what is done for it. *)
QuietStep(k) ==
  \/ Request(k) \/ FindOrder(k) \/ PickCart(k) \/ CountCoupon(k)
  \/ LoadOrder(k) \/ EndFinalize(k) \/ CheckStock(k) \/ ReadItem(k)
  \/ ReadRestock(k) \/ Abort(k)
  \/ \E v \in Variants : ReadVariant(k, v) \/ SkipItem(k, v)

LEMMA QuietFrame ==
  ASSUME NEW k \in Calls, QuietStep(k)
  PROVE  UNCHANGED <<order, jobs, payer, deducted>>
BY DEF QuietStep, Request, Charge, Place, Confirm, Return, Receive, FindOrder,
   PickCart, CountCoupon, LoadOrder, EndFinalize, CheckStock, ReadItem,
   ReadRestock, Abort, ReadVariant, SkipItem, historyVars

LEMMA OrderAfter ==
  ASSUME TypeOK, NEW o \in OrderIds, NEW row \in OrderRow, SetOrder(o, row),
         NEW p \in OrderIds
  PROVE  order'[p] = IF p = o THEN row ELSE order[p]
BY DEF SetOrder, TypeOK

Keeps(p) == /\ order'[p].stage = order[p].stage
            /\ order'[p].method = order[p].method

LEMMA CreateOrderEffect ==
  ASSUME TypeOK, NEW k \in Calls, CreateOrder(k), NEW p \in OrderIds
  PROVE  \/ Keeps(p) /\ order'[p].status = order[p].status
         \/ /\ order[p].stage = "none"
            /\ order'[p].stage = "placed"
            /\ order'[p].method = None
            /\ order'[p].status = "PENDING"
<1>1. CASE UNCHANGED order
  BY <1>1 DEF Keeps
<1>2. CASE ~UNCHANGED order
  <2>1. PICK o \in OrderIds :
          /\ order[o].stage = "none"
          /\ order' = [q \in OrderIds |->
               IF q = o
                 THEN [NoOrder EXCEPT !.stage = "placed",
                         !.cart = call[k].from,
                         !.lines = CartLines[call[k].from],
                         !.coupon = (call[k].from \in CouponCarts)]
               ELSE IF q \in OrderOfCart(call[k].from)
                 THEN [order[q] EXCEPT !.cart = None]
               ELSE order[q]]
    BY <1>2 DEF CreateOrder
  <2>2. CASE p = o
    <3>1. order'[p] = [NoOrder EXCEPT !.stage = "placed",
                         !.cart = call[k].from,
                         !.lines = CartLines[call[k].from],
                         !.coupon = (call[k].from \in CouponCarts)]
      BY <2>1, <2>2
    <3> QED BY <2>1, <2>2, <3>1 DEF NoOrder
  <2>3. CASE p # o
    <3>1. order'[p] = order[p] \/ order'[p] = [order[p] EXCEPT !.cart = None]
      BY <2>1, <2>3
    <3>2. order[p] \in OrderRow
      BY DEF TypeOK
    <3> QED BY <3>1, <3>2 DEF Keeps, OrderRow
  <2> QED BY <2>2, <2>3
<1> QED BY <1>1, <1>2

LEMMA CreatePaymentEffect ==
  ASSUME TypeOK, CallsInv, NEW k \in Calls, CreatePayment(k)
  PROVE  \/ UNCHANGED <<order, payer>> /\ pc'[k] \notin Owing
         \/ /\ pc'[k] = "mark"
            /\ UNCHANGED call
            /\ Placed(call[k].ord) /\ order[call[k].ord].method = None
            /\ payer' = [payer EXCEPT ![call[k].ord] = k]
            /\ order'[call[k].ord].stage = "placed"
            /\ order'[call[k].ord].method # None
            /\ order'[call[k].ord].status = order[call[k].ord].status
            /\ \A p \in OrderIds \ {call[k].ord} : order'[p] = order[p]
<1>0. /\ call[k].ord \in OrderIds
      /\ call[k].method \in Methods
      /\ order[call[k].ord] \in OrderRow
  BY DEF CallsInv, CallInv, CreatePayment, TypeOK
<1>1. CASE ~Placed(call[k].ord) \/ Paid(call[k].ord)
  <2>1. UNCHANGED <<order, payer>>
    BY <1>1 DEF CreatePayment, Paid
  <2>2. Answer(k, "failed") \/ Goto(k, "end")
    BY <1>1 DEF CreatePayment
  <2> QED BY <2>1, <2>2 DEF Answer, Goto, TypeOK, Owing, Deducting
<1>2. CASE Placed(call[k].ord) /\ ~Paid(call[k].ord)
  <2> DEFINE row == [order[call[k].ord] EXCEPT
                       !.method = call[k].method,
                       !.charge = IF call[k].method = "PAYSTACK"
                                    THEN call[k].cart ELSE None]
  <2>1. /\ SetOrder(call[k].ord, row)
        /\ payer' = [payer EXCEPT ![call[k].ord] = k]
        /\ Goto(k, "mark") /\ UNCHANGED call
    BY <1>2 DEF CreatePayment
  <2>2. row.stage = "placed" /\ row.method # None
        /\ row.status = order[call[k].ord].status
    BY <1>0, <1>2, CheckoutAssumption DEF OrderRow, Placed
  <2>3. \A p \in OrderIds :
          order'[p] = IF p = call[k].ord THEN row ELSE order[p]
    BY <2>1 DEF SetOrder, TypeOK
  <2>4. pc'[k] = "mark"
    BY <2>1 DEF Goto, TypeOK
  <2> HIDE DEF row
  <2> QED BY <1>0, <1>2, <2>1, <2>2, <2>3, <2>4 DEF Paid
<1> QED BY <1>1, <1>2 DEF Paid

(* MarkPaid, SetStatus and CommitReturn keep the stage and the payment.    *)
LEMMA StatusEffect ==
  ASSUME TypeOK, CallsInv, NEW k \in Calls, NEW p \in OrderIds,
         MarkPaid(k) \/ SetStatus(k) \/ CommitReturn(k)
  PROVE  /\ Keeps(p)
         /\ \/ order'[p].status = order[p].status
            \/ MarkPaid(k) /\ p = call[k].ord
            \/ order'[p].status # "SUCCESS"
<1>0. CallInv(k) /\ order[p] \in OrderRow /\ call[k] \in CallRow
  BY DEF CallsInv, TypeOK
<1>1. CASE MarkPaid(k)
  <2>1. order' = [order EXCEPT ![call[k].ord] =
                    [order[call[k].ord] EXCEPT !.status = "SUCCESS"]]
    BY <1>1 DEF MarkPaid, SetOrder
  <2> QED BY <1>0, <1>1, <2>1 DEF Keeps, OrderRow, TypeOK
<1>2. CASE SetStatus(k)
  <2>1. \/ UNCHANGED order
        \/ order' = [order EXCEPT ![call[k].ord] =
                       [order[call[k].ord] EXCEPT !.status = call[k].status]]
    BY <1>2 DEF SetStatus, SetOrder
  <2>2. call[k].status # "SUCCESS"
    BY <1>0, <1>2 DEF CallInv, SetStatus
  <2>3. CASE UNCHANGED order
    BY <2>3 DEF Keeps
  <2>4. CASE ~UNCHANGED order
    <3> DEFINE row == [order[call[k].ord] EXCEPT !.status = call[k].status]
    <3>1. call[k].ord \in OrderIds /\ order[call[k].ord] \in OrderRow
      BY <1>0, <1>2, RowTypes DEF CallInv, SetStatus
    <3>2. /\ row.stage = order[call[k].ord].stage
          /\ row.method = order[call[k].ord].method
          /\ row.status # "SUCCESS"
      BY <2>2, <3>1 DEF OrderRow
    <3>3. order' = [order EXCEPT ![call[k].ord] = row]
      BY <2>1, <2>4
    <3>4. order'[p] = IF p = call[k].ord THEN row ELSE order[p]
      BY <3>3 DEF TypeOK
    <3> HIDE DEF row
    <3> QED BY <3>2, <3>4 DEF Keeps
  <2> QED BY <2>3, <2>4
<1>3. CASE CommitReturn(k)
  <2> DEFINE row == [order[call[k].ord] EXCEPT !.lines[call[k].item] = 0]
  <2>1. UNCHANGED order \/ order' = [order EXCEPT ![call[k].ord] = row]
    BY <1>3 DEF CommitReturn, SetOrder
  <2>2. order[call[k].ord] \in OrderRow
    BY <1>0, <1>3 DEF CallInv, CommitReturn, TypeOK
  <2>3. /\ row.stage = order[call[k].ord].stage
        /\ row.method = order[call[k].ord].method
        /\ row.status = order[call[k].ord].status
    BY <2>2 DEF OrderRow
  <2> HIDE DEF row
  <2> QED BY <1>0, <2>1, <2>3 DEF Keeps, TypeOK
<1> QED BY <1>1, <1>2, <1>3

LEMMA DeleteOrderEffect ==
  ASSUME TypeOK, NEW o \in OrderIds, DeleteOrder(o), NEW p \in OrderIds
  PROVE  IF p = o
           THEN order[o].method = None /\ order'[o].method = None
                /\ order'[o].stage = "deleted"
           ELSE order'[p] = order[p]
<1>1. order' = [order EXCEPT ![o] =
                  [order[o] EXCEPT !.stage = "deleted", !.cart = None]]
  BY DEF DeleteOrder, SetOrder
<1>2. order[o] \in OrderRow
  BY DEF TypeOK
<1>3. order[o].method = None
  BY DEF DeleteOrder, Paid
<1> QED BY <1>1, <1>2, <1>3 DEF OrderRow, TypeOK

LEMMA WriteVariantEffect ==
  ASSUME TypeOK, CallsInv, NEW k \in Calls, WriteVariant(k),
         NEW p \in OrderIds, NEW v \in Variants
  PROVE  /\ UNCHANGED <<order, jobs, payer>>
         /\ deducted'[p][v] = IF p = call[k].ord /\ v = call[k].item
                                THEN deducted[p][v] + 1 ELSE deducted[p][v]
<1>1. call[k].ord \in OrderIds /\ call[k].item \in Variants
  BY DEF CallsInv, CallInv, WriteVariant, Owing, Deducting
<1>2. deducted' = [deducted EXCEPT ![call[k].ord][call[k].item] = @ + 1]
  BY DEF WriteVariant
<1>3. UNCHANGED <<order, jobs, payer>>
  BY DEF WriteVariant
<1> QED BY <1>1, <1>2, <1>3 DEF TypeOK

LEMMA EnqueueEffect ==
  ASSUME TypeOK, NEW o \in OrderIds, NEW j \in JobNames, Enqueue(o, j),
         NEW p \in OrderIds, NEW i \in JobNames
  PROVE  jobs'[p][i] = IF p = o /\ i = j THEN jobs[p][i] + 1 ELSE jobs[p][i]
BY DEF Enqueue, TypeOK

(* The follow-up jobs change only when the paying call queues them.        *)
LEMMA QueueEffect ==
  ASSUME TypeOK, CallsInv, NEW p \in OrderIds, NEW f \in FollowUps
  PROVE  /\ \A k \in Calls : QueueCreated(k) =>
              UNCHANGED <<order, payer, deducted>> /\ jobs'[p][f] = jobs[p][f]
         /\ \A k \in Calls : QueueReferral(k) =>
              /\ UNCHANGED <<order, payer, deducted, call>>
              /\ pc[k] = "deduct" /\ pc'[k] = "invoice"
              /\ jobs'[p][f] = IF p = call[k].ord /\ f = "process_referral"
                                 THEN jobs[p][f] + 1 ELSE jobs[p][f]
         /\ \A k \in Calls : QueueInvoice(k) =>
              /\ UNCHANGED <<order, payer, deducted, call>>
              /\ pc[k] = "invoice" /\ pc'[k] = "end"
              /\ jobs'[p][f] = IF /\ p = call[k].ord
                                  /\ f = "generate_and_send_invoice"
                                 THEN jobs[p][f] + 1 ELSE jobs[p][f]
         /\ \A o \in OrderIds : LoseJob(o) =>
              UNCHANGED <<order, payer, deducted>> /\ jobs'[p][f] = jobs[p][f]
<1>0. f \in JobNames /\ f # "order_created"
      /\ "order_created" \in JobNames /\ "process_referral" \in JobNames
      /\ "generate_and_send_invoice" \in JobNames
  BY DEF JobNames, FollowUps
<1>1. ASSUME NEW k \in Calls, QueueCreated(k)
      PROVE  UNCHANGED <<order, payer, deducted>> /\ jobs'[p][f] = jobs[p][f]
  <2>1. call[k].ord \in OrderIds
    BY <1>1 DEF CallsInv, CallInv, QueueCreated
  <2>2. UNCHANGED <<order, payer, deducted>>
    BY <1>1 DEF QueueCreated, historyVars
  <2>3. Enqueue(call[k].ord, "order_created")
    BY <1>1 DEF QueueCreated
  <2> QED BY <1>0, <2>1, <2>2, <2>3, EnqueueEffect
<1>2. ASSUME NEW k \in Calls, QueueReferral(k)
      PROVE  /\ UNCHANGED <<order, payer, deducted, call>>
             /\ pc[k] = "deduct" /\ pc'[k] = "invoice"
             /\ jobs'[p][f] = IF p = call[k].ord /\ f = "process_referral"
                                THEN jobs[p][f] + 1 ELSE jobs[p][f]
  <2>1. call[k].ord \in OrderIds
    BY <1>2 DEF CallsInv, CallInv, QueueReferral, Owing, Deducting
  <2>2. /\ UNCHANGED <<order, payer, deducted, call>>
        /\ pc[k] = "deduct" /\ pc'[k] = "invoice"
    BY <1>2 DEF QueueReferral, historyVars, Goto, TypeOK
  <2>3. Enqueue(call[k].ord, "process_referral")
    BY <1>2 DEF QueueReferral
  <2> QED BY <1>0, <2>1, <2>2, <2>3, EnqueueEffect
<1>3. ASSUME NEW k \in Calls, QueueInvoice(k)
      PROVE  /\ UNCHANGED <<order, payer, deducted, call>>
             /\ pc[k] = "invoice" /\ pc'[k] = "end"
             /\ jobs'[p][f] = IF /\ p = call[k].ord
                                 /\ f = "generate_and_send_invoice"
                                THEN jobs[p][f] + 1 ELSE jobs[p][f]
  <2>1. call[k].ord \in OrderIds
    BY <1>3 DEF CallsInv, CallInv, QueueInvoice, Owing
  <2>2. /\ UNCHANGED <<order, payer, deducted, call>>
        /\ pc[k] = "invoice" /\ pc'[k] = "end"
    BY <1>3 DEF QueueInvoice, historyVars, Goto, TypeOK
  <2>3. Enqueue(call[k].ord, "generate_and_send_invoice")
    BY <1>3 DEF QueueInvoice
  <2> QED BY <1>0, <2>1, <2>2, <2>3, EnqueueEffect
<1>4. ASSUME NEW o \in OrderIds, LoseJob(o)
      PROVE  UNCHANGED <<order, payer, deducted>> /\ jobs'[p][f] = jobs[p][f]
  BY <1>0, <1>4 DEF LoseJob, TypeOK, historyVars
<1> QED BY <1>1, <1>2, <1>3, <1>4

-----------------------------------------------------------------------------
(* What is true of an order whatever call works on it.                     *)

(* A call that owes has recorded the payment of its order.                 *)
LEMMA OwingMeansPaid ==
  ASSUME TypeOK, CallsInv, PaymentInv, NEW k \in Calls, OwesInv(k),
         pc[k] \in Owing
  PROVE  /\ call[k].ord \in OrderIds
         /\ payer[call[k].ord] = k
         /\ Paid(call[k].ord)
<1>1. call[k].ord \in OrderIds
  BY DEF CallsInv, CallInv
<1>2. payer[call[k].ord] = k
  BY DEF OwesInv
<1>3. k # None
  BY CheckoutAssumption
<1> QED BY <1>1, <1>2, <1>3 DEF PaymentInv, Paid, Placed

(* A paid order stays paid.                                                *)
LEMMA PaidStays ==
  ASSUME TypeOK, CallsInv, [Next]_vars, NEW p \in OrderIds, Paid(p)
  PROVE  order'[p].stage = "placed" /\ order'[p].method # None
<1>0. order[p].stage = "placed" /\ order[p].method # None
  BY DEF Paid, Placed
<1>1. CASE UNCHANGED order
  BY <1>0, <1>1 DEF Paid, Placed
<1>2. CASE Keeps(p)
  BY <1>0, <1>2 DEF Keeps, Paid, Placed
<1>3. ASSUME NEW k \in Calls, Request(k) \/ Step(k) \/ Abort(k)
      PROVE  UNCHANGED order \/ Keeps(p)
  <2>1. CASE QuietStep(k)
    BY <2>1, QuietFrame
  <2>2. CASE CreateOrder(k)
    BY <1>0, <2>2, CreateOrderEffect
  <2>3. CASE CreatePayment(k)
    BY <1>0, <2>3, CreatePaymentEffect DEF Keeps
  <2>4. CASE MarkPaid(k) \/ SetStatus(k) \/ CommitReturn(k)
    BY <2>4, StatusEffect
  <2>5. CASE QueueCreated(k) \/ QueueReferral(k) \/ QueueInvoice(k)
             \/ WriteVariant(k)
    BY <2>5 DEF QueueCreated, QueueReferral, QueueInvoice, WriteVariant
  <2> QED BY <1>3, <2>1, <2>2, <2>3, <2>4, <2>5 DEF Step, QuietStep
<1>4. ASSUME NEW k \in Calls, NEW v \in Variants, SkipItem(k, v)
      PROVE  UNCHANGED order
  BY <1>4 DEF SkipItem
<1>5. ASSUME NEW o \in OrderIds,
             DeleteOrder(o) \/ ProcessCreated(o) \/ LoseJob(o)
      PROVE  UNCHANGED order \/ Keeps(p)
  <2>1. CASE DeleteOrder(o)
    BY <1>0, <2>1, DeleteOrderEffect DEF Keeps
  <2>2. CASE ProcessCreated(o) \/ LoseJob(o)
    BY <2>2 DEF ProcessCreated, LoseJob
  <2> QED BY <1>5, <2>1, <2>2
<1> QED BY <1>1, <1>2, <1>3, <1>4, <1>5 DEF Next, AllAnswered, vars

(* PaymentInv and SuccessHasPayment of one order, to be shown one order at *)
(* a time.                                                                 *)
OrderInv(p) ==
  /\ order[p].method # None => order[p].stage = "placed"
  /\ order[p].method # None <=> payer[p] # None
  /\ \A v \in Variants :
       deducted[p][v] <= 1 /\ (deducted[p][v] > 0 => payer[p] # None)
  /\ \A f \in FollowUps :
       jobs[p][f] <= 1 /\ (jobs[p][f] > 0 => payer[p] # None)
  /\ Placed(p) /\ order[p].status = "SUCCESS" => Paid(p)

LEMMA OrderStep ==
  ASSUME TypeOK, CallsInv, \A k \in Calls : OwesInv(k), PaymentInv,
         [Next]_vars, NEW p \in OrderIds, OrderInv(p)
  PROVE  OrderInv(p)'
<1>1. CASE UNCHANGED <<order, jobs, payer, deducted>>
  BY <1>1 DEF OrderInv, Paid, Placed
<1>2. ASSUME NEW k \in Calls, Request(k) \/ Step(k) \/ Abort(k)
      PROVE  OrderInv(p)'
  <2>1. CASE QuietStep(k)
    BY <1>1, <2>1, QuietFrame
  <2>2. CASE CreateOrder(k)
    <3>1. UNCHANGED <<jobs, payer, deducted>>
      BY <2>2 DEF CreateOrder, historyVars
    <3> QED BY <2>2, <3>1, CreateOrderEffect
            DEF OrderInv, Keeps, Paid, Placed
  <2>3. CASE CreatePayment(k)
    <3>1. UNCHANGED <<jobs, deducted>>
      BY <2>3 DEF CreatePayment
    <3>2. k # None /\ call[k].ord \in OrderIds
      BY <2>3, CheckoutAssumption DEF CallsInv, CallInv, CreatePayment
    <3>3. CASE UNCHANGED <<order, payer>>
      BY <1>1, <3>1, <3>3
    <3>4. CASE ~UNCHANGED <<order, payer>>
      <4>1. /\ payer' = [payer EXCEPT ![call[k].ord] = k]
            /\ order'[call[k].ord].stage = "placed"
            /\ order'[call[k].ord].method # None
            /\ \A q \in OrderIds \ {call[k].ord} : order'[q] = order[q]
        BY <2>3, <3>4, CreatePaymentEffect
      <4>2. CASE p = call[k].ord
        <5>1. payer'[p] = k
          BY <3>2, <4>1, <4>2 DEF TypeOK
        <5> QED BY <3>1, <3>2, <4>1, <4>2, <5>1 DEF OrderInv, Paid, Placed
      <4>3. CASE p # call[k].ord
        <5>1. payer'[p] = payer[p] /\ order'[p] = order[p]
          BY <3>2, <4>1, <4>3 DEF TypeOK
        <5> QED BY <3>1, <5>1 DEF OrderInv, Paid, Placed
      <4> QED BY <4>2, <4>3
    <3> QED BY <3>3, <3>4
  <2>4. CASE MarkPaid(k) \/ SetStatus(k) \/ CommitReturn(k)
    <3>1. UNCHANGED <<jobs, payer, deducted>>
      BY <2>4 DEF MarkPaid, SetStatus, CommitReturn, historyVars
    <3>2. MarkPaid(k) /\ p = call[k].ord => Paid(p)
      BY OwingMeansPaid DEF MarkPaid, Owing, Deducting
    <3> QED BY <2>4, <3>1, <3>2, StatusEffect
            DEF OrderInv, Keeps, Paid, Placed
  <2>5. CASE WriteVariant(k)
    <3>1. /\ payer[call[k].ord] = k /\ k # None
          /\ call[k].lines[call[k].item] > 0
          /\ call[k].ord \in OrderIds /\ call[k].item \in Variants
      BY <2>5, OwingMeansPaid, CheckoutAssumption
      DEF WriteVariant, Owing, Deducting, OwesInv, CallsInv, CallInv
    <3>2. deducted[call[k].ord][call[k].item] = 0
      BY <2>5, <3>1 DEF OwesInv, WriteVariant, Deducting
    <3>3. UNCHANGED <<order, jobs, payer>>
      BY <2>5 DEF WriteVariant
    <3>4. ASSUME NEW v \in Variants
          PROVE  deducted'[p][v] <= 1 /\ (deducted'[p][v] > 0 => payer[p] # None)
      BY <2>5, <3>1, <3>2, WriteVariantEffect DEF OrderInv, TypeOK
    <3> QED BY <3>3, <3>4 DEF OrderInv, Paid, Placed
  <2>6. CASE QueueCreated(k)
    <3>1. UNCHANGED <<order, payer, deducted>>
      BY <2>6 DEF QueueCreated, historyVars
    <3>2. \A f \in FollowUps : jobs'[p][f] = jobs[p][f]
      BY <2>6, QueueEffect
    <3> QED BY <3>1, <3>2 DEF OrderInv, Paid, Placed
  <2>7. CASE QueueReferral(k)
    <3>1. /\ payer[call[k].ord] = k /\ k # None
          /\ jobs[call[k].ord]["process_referral"] = 0
      BY <2>7, OwingMeansPaid, CheckoutAssumption
      DEF QueueReferral, Owing, Deducting, OwesInv, FollowUps
    <3>2. ASSUME NEW f \in FollowUps
          PROVE  jobs'[p][f] <= 1 /\ (jobs'[p][f] > 0 => payer[p] # None)
      BY <2>7, <3>1, QueueEffect DEF OrderInv, TypeOK
    <3> QED BY <2>7, <3>2, QueueEffect DEF OrderInv, Paid, Placed, FollowUps
  <2>8. CASE QueueInvoice(k)
    <3>1. /\ payer[call[k].ord] = k /\ k # None
          /\ jobs[call[k].ord]["generate_and_send_invoice"] = 0
      BY <2>8, OwingMeansPaid, CheckoutAssumption
      DEF QueueInvoice, Owing, OwesInv, FollowUps
    <3>2. ASSUME NEW f \in FollowUps
          PROVE  jobs'[p][f] <= 1 /\ (jobs'[p][f] > 0 => payer[p] # None)
      BY <2>8, <3>1, QueueEffect DEF OrderInv, TypeOK
    <3> QED BY <2>8, <3>2, QueueEffect DEF OrderInv, Paid, Placed, FollowUps
  <2> QED BY <1>2, <2>1, <2>2, <2>3, <2>4, <2>5, <2>6, <2>7, <2>8
          DEF Step, QuietStep
<1>3. ASSUME NEW k \in Calls, NEW v \in Variants, SkipItem(k, v)
      PROVE  OrderInv(p)'
  BY <1>1, <1>3 DEF SkipItem, historyVars
<1>4. ASSUME NEW o \in OrderIds,
             DeleteOrder(o) \/ ProcessCreated(o) \/ LoseJob(o)
      PROVE  OrderInv(p)'
  <2>1. CASE DeleteOrder(o)
    <3>1. UNCHANGED <<jobs, payer, deducted>>
      BY <2>1 DEF DeleteOrder, historyVars
    <3>2. CASE p = o
      <4>1. order[p].method = None /\ order'[p].method = None
            /\ order'[p].stage = "deleted"
        BY <2>1, <3>2, DeleteOrderEffect
      <4> QED BY <3>1, <4>1 DEF OrderInv, Paid, Placed
    <3>3. CASE p # o
      <4>1. order'[p] = order[p]
        BY <2>1, <3>3, DeleteOrderEffect
      <4> QED BY <3>1, <4>1 DEF OrderInv, Paid, Placed
    <3> QED BY <3>2, <3>3
  <2>2. CASE ProcessCreated(o)
    BY <1>1, <2>2 DEF ProcessCreated, historyVars
  <2>3. CASE LoseJob(o)
    <3>1. UNCHANGED <<order, payer, deducted>>
      BY <2>3 DEF LoseJob, historyVars
    <3>2. \A f \in FollowUps : jobs'[p][f] = jobs[p][f]
      BY <2>3, QueueEffect
    <3> QED BY <3>1, <3>2 DEF OrderInv, Paid, Placed
  <2> QED BY <1>4, <2>1, <2>2, <2>3
<1> QED BY <1>1, <1>2, <1>3, <1>4 DEF Next, AllAnswered, vars

-----------------------------------------------------------------------------
(* What is true of a call, whatever the others do.                         *)

(* An answered charge is recorded.                                         *)
AnswerInv(k) ==
  pc[k] = "ok" /\ call[k].kind = "charge"
    => call[k].ord # None /\ Paid(call[k].ord)

LocalInv(k) == CallInv(k) /\ OwesInv(k) /\ AnswerInv(k)

(* A call that owes an order nothing does nothing to it once its payment   *)
(* is recorded.                                                            *)
LEMMA EffectsAreLocal ==
  ASSUME TypeOK, CallsInv, \A k \in Calls : OwesInv(k), PaymentInv,
         NEW k \in Calls,
         \/ Request(k) \/ Step(k) \/ Abort(k)
         \/ \E v \in Variants : SkipItem(k, v),
         NEW p \in OrderIds, payer[p] # None,
         pc[k] \in Owing => call[k].ord # p
  PROVE  /\ payer'[p] = payer[p]
         /\ deducted'[p] = deducted[p]
         /\ \A f \in FollowUps : jobs'[p][f] = jobs[p][f]
<1>1. CASE QuietStep(k)
  BY <1>1, QuietFrame
<1>2. CASE CreateOrder(k) \/ MarkPaid(k) \/ SetStatus(k) \/ CommitReturn(k)
  BY <1>2 DEF CreateOrder, MarkPaid, SetStatus, CommitReturn, historyVars
<1>3. CASE CreatePayment(k)
  <2>1. UNCHANGED <<jobs, deducted>>
    BY <1>3 DEF CreatePayment
  <2>2. payer'[p] = payer[p]
    <3>1. CASE UNCHANGED payer
      BY <3>1
    <3>2. CASE ~UNCHANGED payer
      <4>1. /\ payer' = [payer EXCEPT ![call[k].ord] = k]
            /\ order[call[k].ord].method = None
        BY <1>3, <3>2, CreatePaymentEffect
      <4>2. p # call[k].ord
        BY <4>1 DEF PaymentInv
      <4> QED BY <4>1, <4>2 DEF TypeOK
    <3> QED BY <3>1, <3>2
  <2> QED BY <2>1, <2>2
<1>4. CASE WriteVariant(k)
  <2>1. call[k].ord # p /\ call[k].ord \in OrderIds
    BY <1>4, OwingMeansPaid DEF WriteVariant, Owing, Deducting
  <2>2. deducted' = [deducted EXCEPT ![call[k].ord][call[k].item] = @ + 1]
        /\ UNCHANGED <<jobs, payer>>
    BY <1>4 DEF WriteVariant
  <2> QED BY <2>1, <2>2 DEF TypeOK
<1>5. CASE QueueCreated(k)
  BY <1>5, QueueEffect DEF QueueCreated, historyVars
<1>6. CASE QueueReferral(k) \/ QueueInvoice(k)
  <2>1. call[k].ord # p
    BY <1>6, OwingMeansPaid
    DEF QueueReferral, QueueInvoice, Owing, Deducting
  <2> QED BY <1>6, <2>1, QueueEffect
          DEF QueueReferral, QueueInvoice, historyVars
<1> QED BY <1>1, <1>2, <1>3, <1>4, <1>5, <1>6 DEF Step, QuietStep

LEMMA OthersStep ==
  ASSUME TypeOK, CallsInv, \A k \in Calls : OwesInv(k), PaymentInv,
         [Next]_vars, NEW k \in Calls,
         \/ Request(k) \/ Step(k) \/ Abort(k)
         \/ \E v \in Variants : SkipItem(k, v),
         NEW j \in Calls \ {k}, LocalInv(j)
  PROVE  LocalInv(j)'
<1>1. pc'[j] = pc[j] /\ call'[j] = call[j]
  BY OthersKept
<1>2. CallInv(j)'
  <2>1. pc[j] = "end" => /\ order'[call[j].ord].stage = "placed"
                         /\ order'[call[j].ord].method # None
    BY PaidStays DEF LocalInv, CallInv
  <2> QED BY <1>1, <2>1 DEF LocalInv, CallInv, Paid, Placed
<1>3. OwesInv(j)'
  <2>1. CASE pc[j] \in Owing
    <3>1. /\ call[j].ord \in OrderIds /\ payer[call[j].ord] = j
          /\ j # None
      BY <2>1, OwingMeansPaid, CheckoutAssumption
    <3>2. /\ payer'[call[j].ord] = payer[call[j].ord]
          /\ deducted'[call[j].ord] = deducted[call[j].ord]
          /\ \A f \in FollowUps :
               jobs'[call[j].ord][f] = jobs[call[j].ord][f]
      <4>1. pc[k] \in Owing => call[k].ord # call[j].ord
        BY <3>1, OwingMeansPaid
      <4> QED BY <3>1, <4>1, EffectsAreLocal
    <3> QED BY <1>1, <3>2 DEF LocalInv, OwesInv, FollowUps
  <2>2. CASE pc[j] \notin Owing
    BY <1>1, <2>2 DEF OwesInv, Owing, Deducting
  <2> QED BY <2>1, <2>2
<1>4. AnswerInv(j)'
  <2>1. CASE pc[j] = "ok" /\ call[j].kind = "charge"
    <3>1. call[j].ord \in OrderIds /\ Paid(call[j].ord)
      BY <2>1 DEF LocalInv, AnswerInv, TypeOK, CallRow
    <3>2. /\ order'[call[j].ord].stage = "placed"
          /\ order'[call[j].ord].method # None
      BY <3>1, PaidStays
    <3> QED BY <1>1, <2>1, <3>1, <3>2 DEF LocalInv, AnswerInv, Paid, Placed
  <2>2. CASE ~(pc[j] = "ok" /\ call[j].kind = "charge")
    BY <1>1, <2>2 DEF AnswerInv
  <2> QED BY <2>1, <2>2
<1> QED BY <1>2, <1>3, <1>4 DEF LocalInv

(* Where a step takes the call that makes it.                              *)
LEMMA OwnAfter ==
  ASSUME TypeOK, NEW k \in Calls
  PROVE  /\ \A p : Goto(k, p) => pc'[k] = p
         /\ \A new : Local(k, new) => call'[k] = new
         /\ \A p : Answer(k, p) => /\ pc'[k] = p
                                   /\ call'[k].kind = call[k].kind
                                   /\ call'[k].ord = call[k].ord
<1>1. \A p : Goto(k, p) => pc'[k] = p
  BY DEF Goto, TypeOK
<1>2. \A new : Local(k, new) => call'[k] = new
  BY DEF Local, TypeOK
<1>3. ASSUME NEW p, Answer(k, p)
      PROVE  /\ pc'[k] = p
             /\ call'[k].kind = call[k].kind
             /\ call'[k].ord = call[k].ord
  <2> DEFINE new == [NoCall EXCEPT !.kind = call[k].kind, !.cart = call[k].cart,
                                  !.ord = call[k].ord]
  <2>1. new.kind = call[k].kind /\ new.ord = call[k].ord
    BY DEF NoCall
  <2>2. pc'[k] = p /\ Local(k, new)
    BY <1>1, <1>3 DEF Answer
  <2> HIDE DEF new
  <2> QED BY <1>2, <2>1, <2>2
<1> QED BY <1>1, <1>2, <1>3

LEMMA FailedCall ==
  ASSUME TypeOK, NEW k \in Calls, Answer(k, "failed")
  PROVE  LocalInv(k)'
BY OwnAfter DEF LocalInv, CallInv, OwesInv, AnswerInv, Owing, Deducting

LEMMA ReceiveAfter ==
  ASSUME TypeOK, NEW k \in Calls, NEW kind, NEW p, NEW new,
         Receive(k, kind, p, new)
  PROVE  pc'[k] = p /\ call'[k] = [new EXCEPT !.kind = kind]
BY OwnAfter DEF Receive

LEMMA RequestStep ==
  ASSUME TypeOK, NEW k \in Calls, Request(k)
  PROVE  LocalInv(k)'
<1>1. ASSUME NEW c \in Carts, Charge(k, c)  PROVE LocalInv(k)'
  <2>1. /\ pc'[k] = "find"
        /\ call'[k] = [[NoCall EXCEPT !.user = Owner[c], !.cart = c]
                         EXCEPT !.kind = "charge"]
    BY <1>1, ReceiveAfter DEF Charge
  <2>2. call'[k].cart = c
    BY <2>1 DEF NoCall
  <2> QED BY <2>1, <2>2
          DEF LocalInv, CallInv, OwesInv, AnswerInv, Owing, Deducting
<1>2. ASSUME NEW u \in Users, NEW c \in Carts, Place(k, u, c)
      PROVE  LocalInv(k)'
  <2>1. /\ pc'[k] = "cart"
        /\ call'[k] = [[NoCall EXCEPT !.user = u, !.cart = c]
                         EXCEPT !.kind = "place"]
    BY <1>2, ReceiveAfter DEF Place
  <2>2. call'[k].cart = c
    BY <2>1 DEF NoCall
  <2> QED BY <2>1, <2>2
          DEF LocalInv, CallInv, OwesInv, AnswerInv, Owing, Deducting
<1>3. ASSUME NEW o \in OrderIds, NEW s \in PaymentStatuses, Confirm(k, o, s)
      PROVE  LocalInv(k)'
  <2>1. /\ pc'[k] = "check"
        /\ call'[k] = [[NoCall EXCEPT !.ord = o, !.status = s]
                         EXCEPT !.kind = "confirm"]
    BY <1>3, ReceiveAfter DEF Confirm
  <2>2. call'[k].ord = o /\ call'[k].kind = "confirm"
    BY <2>1 DEF NoCall
  <2> QED BY <2>1, <2>2
          DEF LocalInv, CallInv, OwesInv, AnswerInv, Owing, Deducting
<1>4. ASSUME NEW o \in OrderIds, NEW v \in Variants, Return(k, o, v)
      PROVE  LocalInv(k)'
  <2>1. /\ pc'[k] = "item"
        /\ call'[k] = [[NoCall EXCEPT !.ord = o, !.item = v]
                         EXCEPT !.kind = "return"]
    BY <1>4, ReceiveAfter DEF Return
  <2>2. call'[k].ord = o /\ call'[k].item = v /\ call'[k].kind = "return"
    BY <2>1 DEF NoCall
  <2> QED BY <2>1, <2>2
          DEF LocalInv, CallInv, OwesInv, AnswerInv, Owing, Deducting
<1> QED BY <1>1, <1>2, <1>3, <1>4 DEF Request

(* From the request to the order.                                          *)
LEMMA PlaceStep ==
  ASSUME TypeOK, NEW k \in Calls, LocalInv(k),
         \/ FindOrder(k) \/ PickCart(k) \/ CountCoupon(k) \/ CreateOrder(k)
         \/ QueueCreated(k)
  PROVE  LocalInv(k)'
<1>0. call[k] \in CallRow
  BY DEF TypeOK
<1> USE OwnAfter, FailedCall
<1> USE DEF LocalInv, CallInv, OwesInv, AnswerInv, Owing, Deducting
<1>1. CASE FindOrder(k)
  <2>1. CASE OrderOfCart(call[k].cart) = {}
    <3>1. pc'[k] = "cart" /\ call'[k] = call[k]
      BY <1>1, <2>1 DEF FindOrder
    <3> QED BY <1>1, <3>1 DEF FindOrder
  <2>2. CASE OrderOfCart(call[k].cart) # {}
    <3>1. PICK o \in OrderOfCart(call[k].cart) :
            /\ Local(k, [call[k] EXCEPT !.ord = o, !.method = "PAYSTACK"])
            /\ Goto(k, IF Paid(o) THEN "end" ELSE "load")
      BY <1>1, <2>2 DEF FindOrder
    <3>2. call'[k].ord = o /\ call'[k].method = "PAYSTACK" /\ o \in OrderIds
      <4>1. call'[k] = [call[k] EXCEPT !.ord = o, !.method = "PAYSTACK"]
        BY <3>1
      <4>2. o \in OrderIds
        BY DEF OrderOfCart
      <4> QED BY <1>0, <4>1, <4>2 DEF CallRow
    <3>3. pc'[k] = IF Paid(o) THEN "end" ELSE "load"
      BY <3>1
    <3>4. UNCHANGED order
      BY <1>1 DEF FindOrder
    <3> QED BY <3>2, <3>3, <3>4 DEF Methods, Paid, Placed
  <2> QED BY <2>1, <2>2
<1>2. CASE PickCart(k)
  <2>1. CASE Answer(k, "failed")
    BY <2>1
  <2>2. CASE ~Answer(k, "failed")
    <3>1. PICK c \in ActiveCart(call[k].user, call[k].cart) :
            /\ Local(k, [call[k] EXCEPT !.from = c])
            /\ Goto(k, IF c \in CouponCarts THEN "coupon" ELSE "create")
      BY <1>2, <2>2 DEF PickCart
    <3>2. c \in Carts
      BY <1>2 DEF ActiveCart, PickCart
    <3>3. call'[k].from = c /\ pc'[k] \in {"coupon", "create"}
      BY <1>0, <3>1 DEF CallRow
    <3> QED BY <3>2, <3>3
  <2> QED BY <2>1, <2>2
<1>3. CASE CountCoupon(k)
  <2>1. pc[k] = "coupon" /\ pc'[k] = "create" /\ call'[k] = call[k]
    BY <1>3 DEF CountCoupon
  <2> QED BY <2>1
<1>4. CASE CreateOrder(k)
  <2>1. CASE Answer(k, "failed")
    BY <2>1
  <2>2. CASE ~Answer(k, "failed")
    <3>1. PICK o \in OrderIds :
            Local(k, [call[k] EXCEPT !.ord = o]) /\ Goto(k, "created")
      BY <1>4, <2>2 DEF CreateOrder
    <3>2. pc'[k] = "created" /\ call'[k].ord = o /\ call'[k].from = call[k].from
      BY <1>0, <3>1 DEF CallRow
    <3>3. pc[k] = "create"
      BY <1>4 DEF CreateOrder
    <3> QED BY <3>2, <3>3
  <2> QED BY <2>1, <2>2
<1>5. CASE QueueCreated(k)
  <2>1. pc[k] = "created" /\ call[k].ord \in OrderIds
    BY <1>5 DEF QueueCreated
  <2>2. CASE call[k].from \in WalletCarts
    <3>1. pc'[k] = "load" /\ call'[k].ord = call[k].ord
          /\ call'[k].method = "WALLET"
      BY <1>0, <1>5, <2>2 DEF QueueCreated, CallRow
    <3> QED BY <2>1, <3>1 DEF Methods
  <2>3. CASE call[k].from \notin WalletCarts /\ call[k].kind = "charge"
    <3>1. pc'[k] = "load" /\ call'[k].ord = call[k].ord
          /\ call'[k].method = "PAYSTACK"
      BY <1>0, <1>5, <2>3 DEF QueueCreated, CallRow
    <3> QED BY <2>1, <3>1 DEF Methods
  <2>4. CASE call[k].from \notin WalletCarts /\ call[k].kind # "charge"
    <3>1. Answer(k, "ok")
      BY <1>5, <2>4 DEF QueueCreated
    <3>2. pc'[k] = "ok" /\ call'[k].kind # "charge"
      BY <2>4, <3>1
    <3> QED BY <3>2
  <2> QED BY <2>2, <2>3, <2>4
<1> QED BY <1>1, <1>2, <1>3, <1>4, <1>5

(* The finalisation.                                                       *)
LEMMA FinalizeStep ==
  ASSUME TypeOK, CallsInv, \A j \in Calls : OwesInv(j), PaymentInv,
         NEW k \in Calls, LocalInv(k),
         \/ LoadOrder(k) \/ CreatePayment(k) \/ MarkPaid(k)
         \/ WriteVariant(k) \/ QueueReferral(k) \/ QueueInvoice(k)
         \/ EndFinalize(k)
         \/ \E v \in Variants : ReadVariant(k, v) \/ SkipItem(k, v)
  PROVE  LocalInv(k)'
<1>0. call[k] \in CallRow
  BY DEF TypeOK
<1> USE OwnAfter, FailedCall
<1> USE DEF LocalInv, CallInv, OwesInv, AnswerInv, Owing, Deducting
<1>1. CASE LoadOrder(k)
  <2>1. pc[k] = "load" /\ UNCHANGED order
    BY <1>1 DEF LoadOrder
  <2>2. CASE ~Placed(call[k].ord)
    BY <1>1, <2>2 DEF LoadOrder
  <2>3. CASE Paid(call[k].ord)
    <3>1. pc'[k] = "end" /\ call'[k] = call[k]
      BY <1>1, <2>3 DEF LoadOrder, Paid
    <3> QED BY <2>1, <2>3, <3>1 DEF Paid, Placed
  <2>4. CASE Placed(call[k].ord) /\ ~Paid(call[k].ord)
    <3>1. /\ pc'[k] = "pay"
          /\ call'[k] = [call[k] EXCEPT !.lines = order[call[k].ord].lines]
      BY <1>1, <2>4 DEF LoadOrder
    <3>2. call'[k].ord = call[k].ord /\ call'[k].method = call[k].method
      BY <1>0, <3>1 DEF CallRow
    <3> QED BY <2>1, <3>1, <3>2
  <2> QED BY <2>2, <2>3, <2>4
<1>2. CASE CreatePayment(k)
  <2>1. /\ pc[k] = "pay" /\ UNCHANGED <<jobs, deducted>>
        /\ call[k].ord \in OrderIds
    BY <1>2 DEF CreatePayment
  <2>2. CASE ~Placed(call[k].ord)
    BY <1>2, <2>2 DEF CreatePayment
  <2>3. CASE Paid(call[k].ord)
    <3>1. pc'[k] = "end" /\ call'[k] = call[k] /\ UNCHANGED order
      BY <1>2, <2>3 DEF CreatePayment, Paid
    <3> QED BY <2>1, <2>3, <3>1 DEF Paid, Placed
  <2>4. CASE Placed(call[k].ord) /\ ~Paid(call[k].ord)
    <3>1. /\ Goto(k, "mark")
          /\ UNCHANGED call
          /\ payer' = [payer EXCEPT ![call[k].ord] = k]
      BY <1>2, <2>4 DEF CreatePayment
    <3>2. /\ pc'[k] = "mark" /\ call'[k] = call[k]
          /\ payer'[call[k].ord] = k
      BY <2>1, <3>1 DEF TypeOK
    <3>3. payer[call[k].ord] = None
      BY <2>1, <2>4 DEF Paid, PaymentInv
    <3>4. /\ \A v \in Variants : deducted[call[k].ord][v] = 0
          /\ \A f \in FollowUps : jobs[call[k].ord][f] = 0
      BY <2>1, <3>3 DEF PaymentInv, TypeOK, JobNames
    <3> QED BY <2>1, <3>2, <3>4
  <2> QED BY <2>2, <2>3, <2>4
<1>3. CASE MarkPaid(k)
  <2>1. /\ pc[k] = "mark" /\ pc'[k] = "deduct" /\ call'[k] = call[k]
        /\ UNCHANGED <<jobs, payer, deducted>>
    BY <1>3 DEF MarkPaid, historyVars
  <2> QED BY <2>1
<1>4. CASE WriteVariant(k)
  <2> DEFINE v == call[k].item
             new == [call[k] EXCEPT !.lines[v] = 0, !.item = None,
                                    !.seen = NoRow]
  <2>1. /\ pc[k] = "deducting" /\ pc'[k] = "deduct"
        /\ UNCHANGED <<jobs, payer>> /\ call'[k] = new
    BY <1>4 DEF WriteVariant
  <2>2. /\ new.ord = call[k].ord /\ new.lines[v] = 0
        /\ \A w \in Variants \ {v} : new.lines[w] = call[k].lines[w]
    BY <1>0, <2>1 DEF CallRow
  <2>3. call[k].ord \in OrderIds
    BY <2>1
  <2>4. \A w \in Variants \ {v} :
          deducted'[call[k].ord][w] = deducted[call[k].ord][w]
    BY <1>4, <2>3, WriteVariantEffect
  <2> HIDE DEF new
  <2> QED BY <2>1, <2>2, <2>3, <2>4
<1>5. CASE QueueReferral(k)
  <2>1. /\ pc[k] = "deduct" /\ pc'[k] = "invoice" /\ call'[k] = call[k]
        /\ UNCHANGED <<payer, deducted>>
        /\ Enqueue(call[k].ord, "process_referral")
    BY <1>5 DEF QueueReferral, historyVars
  <2>2. call[k].ord \in OrderIds
    BY <2>1
  <2>3. jobs'[call[k].ord]["generate_and_send_invoice"]
          = jobs[call[k].ord]["generate_and_send_invoice"]
    BY <2>1, <2>2, EnqueueEffect DEF JobNames, FollowUps
  <2> QED BY <2>1, <2>3 DEF FollowUps
<1>6. CASE QueueInvoice(k)
  <2>1. /\ pc[k] = "invoice" /\ pc'[k] = "end" /\ call'[k] = call[k]
        /\ UNCHANGED order
    BY <1>6 DEF QueueInvoice
  <2>2. Paid(call[k].ord)
    BY <2>1, OwingMeansPaid
  <2> QED BY <2>1, <2>2 DEF Paid, Placed
<1>7. CASE EndFinalize(k)
  <2>1. pc[k] = "end" /\ UNCHANGED order /\ Paid(call[k].ord)
        /\ call[k].ord \in OrderIds
    BY <1>7 DEF EndFinalize
  <2>2. CASE call[k].kind = "charge" /\ call[k].method = "WALLET"
    <3>1. pc'[k] = "load" /\ call'[k] = [call[k] EXCEPT !.method = "PAYSTACK"]
      BY <1>7, <2>2 DEF EndFinalize
    <3>2. call'[k].ord = call[k].ord /\ call'[k].method = "PAYSTACK"
      BY <1>0, <3>1 DEF CallRow
    <3> QED BY <2>1, <3>1, <3>2 DEF Methods
  <2>3. CASE ~(call[k].kind = "charge" /\ call[k].method = "WALLET")
    <3>1. pc'[k] = "ok" /\ call'[k].ord = call[k].ord
      BY <1>7, <2>3 DEF EndFinalize
    <3>2. call[k].ord # None
      BY <2>1, CheckoutAssumption
    <3> QED BY <2>1, <3>1, <3>2 DEF Paid, Placed
  <2> QED BY <2>2, <2>3
<1>8. ASSUME NEW v \in Variants, ReadVariant(k, v)  PROVE LocalInv(k)'
  <2>1. /\ pc[k] = "deduct" /\ pc'[k] = "deducting" /\ call[k].lines[v] > 0
        /\ call'[k] = [call[k] EXCEPT !.item = v, !.seen = variant[v]]
        /\ UNCHANGED <<jobs, payer, deducted>>
    BY <1>8 DEF ReadVariant, historyVars
  <2>2. call'[k].ord = call[k].ord /\ call'[k].item = v
        /\ call'[k].lines = call[k].lines
    BY <1>0, <2>1 DEF CallRow
  <2> QED BY <2>1, <2>2
<1>9. ASSUME NEW v \in Variants, SkipItem(k, v)  PROVE LocalInv(k)'
  <2> DEFINE new == [call[k] EXCEPT !.lines[v] = 0, !.item = None,
                                    !.seen = NoRow]
  <2>1. /\ pc[k] \in {"deduct", "deducting"} /\ pc'[k] = "deduct"
        /\ call'[k] = new
    BY <1>9 DEF SkipItem
  <2>2. UNCHANGED <<jobs, payer, deducted>>
    BY <1>9 DEF SkipItem, historyVars
  <2>3. /\ new.ord = call[k].ord /\ new.lines[v] = 0
        /\ \A w \in Variants \ {v} : new.lines[w] = call[k].lines[w]
    BY <1>0 DEF CallRow
  <2> HIDE DEF new
  <2> QED BY <2>1, <2>2, <2>3
<1> QED BY <1>1, <1>2, <1>3, <1>4, <1>5, <1>6, <1>7, <1>8, <1>9

(* The administrator's calls, and a call that is lost.                     *)
LEMMA AdminStep ==
  ASSUME TypeOK, NEW k \in Calls, LocalInv(k),
         \/ CheckStock(k) \/ SetStatus(k) \/ ReadItem(k) \/ ReadRestock(k)
         \/ CommitReturn(k) \/ Abort(k)
  PROVE  LocalInv(k)'
<1>0. call[k] \in CallRow
  BY DEF TypeOK
<1> USE OwnAfter, FailedCall
<1> USE DEF LocalInv, CallInv, OwesInv, AnswerInv, Owing, Deducting
<1>1. CASE CheckStock(k)
  <2>1. /\ pc[k] = "check" /\ call[k].kind # "charge"
        /\ call[k].ord \in OrderIds
    BY <1>1 DEF CheckStock
  <2>2. CASE ~Placed(call[k].ord) \/ ~InStock(call[k].ord)
    BY <1>1, <2>2 DEF CheckStock
  <2>3. CASE /\ Placed(call[k].ord) /\ InStock(call[k].ord)
             /\ call[k].status = "SUCCESS"
    <3>1. /\ pc'[k] = "load"
          /\ call'[k] = [call[k] EXCEPT !.method = "BANK_TRANSFER"]
      BY <1>1, <2>3 DEF CheckStock
    <3>2. call'[k].ord = call[k].ord /\ call'[k].method = "BANK_TRANSFER"
      BY <1>0, <3>1 DEF CallRow
    <3> QED BY <2>1, <3>1, <3>2 DEF Methods
  <2>4. CASE /\ Placed(call[k].ord) /\ InStock(call[k].ord)
             /\ call[k].status # "SUCCESS"
    <3>1. pc'[k] = "set" /\ call'[k] = call[k]
      BY <1>1, <2>4 DEF CheckStock
    <3> QED BY <2>1, <2>4, <3>1
  <2> QED BY <2>2, <2>3, <2>4
<1>2. CASE SetStatus(k) \/ CommitReturn(k)
  <2>1. call[k].kind # "charge"
    BY <1>2 DEF SetStatus, CommitReturn
  <2>2. Answer(k, "ok") \/ Answer(k, "failed")
    BY <1>2 DEF SetStatus, CommitReturn
  <2>3. pc'[k] \in Finished /\ call'[k].kind # "charge"
    BY <2>1, <2>2 DEF Finished
  <2> QED BY <2>3 DEF Finished
<1>3. CASE ReadItem(k)
  <2>1. /\ pc[k] = "item" /\ call[k].kind # "charge"
        /\ call[k].ord \in OrderIds /\ call[k].item \in Variants
    BY <1>3 DEF ReadItem
  <2>2. CASE Answer(k, "failed")
    BY <2>2
  <2>3. CASE ~Answer(k, "failed")
    <3>1. /\ pc'[k] = "restock"
          /\ call'[k] = [call[k] EXCEPT
                           !.lines = order[call[k].ord].lines,
                           !.status = order[call[k].ord].status]
      BY <1>3, <2>3 DEF ReadItem
    <3>2. /\ call'[k].ord = call[k].ord /\ call'[k].item = call[k].item
          /\ call'[k].kind = call[k].kind
      BY <1>0, <3>1 DEF CallRow
    <3> QED BY <2>1, <3>1, <3>2
  <2> QED BY <2>2, <2>3
<1>4. CASE ReadRestock(k)
  <2>1. /\ pc[k] = "restock" /\ call[k].kind # "charge"
        /\ call[k].ord \in OrderIds /\ call[k].item \in Variants
    BY <1>4 DEF ReadRestock
  <2>2. /\ pc'[k] = "commit"
        /\ call'[k] = [call[k] EXCEPT !.seen = variant[call[k].item]]
    BY <1>4 DEF ReadRestock
  <2>3. /\ call'[k].ord = call[k].ord /\ call'[k].item = call[k].item
        /\ call'[k].kind = call[k].kind
    BY <1>0, <2>2 DEF CallRow
  <2> QED BY <2>1, <2>2, <2>3
<1>5. CASE Abort(k)
  BY <1>5 DEF Abort
<1> QED BY <1>1, <1>2, <1>3, <1>4, <1>5

LEMMA OwnStep ==
  ASSUME TypeOK, CallsInv, \A j \in Calls : OwesInv(j), PaymentInv,
         NEW k \in Calls, LocalInv(k),
         \/ Request(k) \/ Step(k) \/ Abort(k)
         \/ \E v \in Variants : SkipItem(k, v)
  PROVE  LocalInv(k)'
BY RequestStep, PlaceStep, FinalizeStep, AdminStep DEF Step

(* The steps that are no call's: the administrator deletes an order, the   *)
(* worker runs or loses a job.                                             *)
LEMMA OrdersStep ==
  ASSUME TypeOK, CallsInv, \A j \in Calls : OwesInv(j), PaymentInv,
         NEW o \in OrderIds,
         DeleteOrder(o) \/ ProcessCreated(o) \/ LoseJob(o),
         NEW k \in Calls, LocalInv(k)
  PROVE  LocalInv(k)'
<1>1. UNCHANGED <<pc, call, payer, deducted>>
  BY DEF DeleteOrder, ProcessCreated, LoseJob, historyVars
<1>2. \A p \in OrderIds, f \in FollowUps : jobs'[p][f] = jobs[p][f]
  BY QueueEffect DEF DeleteOrder, ProcessCreated
<1>3. [Next]_vars
  BY DEF Next
<1>4. ASSUME NEW p \in OrderIds, Paid(p)
      PROVE  order'[p].stage = "placed" /\ order'[p].method # None
  BY <1>3, <1>4, PaidStays
<1>5. CallInv(k)'
  <2>1. CASE pc[k] = "end"
    <3>1. call[k].ord \in OrderIds /\ Paid(call[k].ord)
      BY <2>1 DEF LocalInv, CallInv
    <3> QED BY <1>1, <1>4, <2>1, <3>1 DEF LocalInv, CallInv, Paid, Placed
  <2>2. CASE pc[k] # "end"
    BY <1>1, <2>2 DEF LocalInv, CallInv
  <2> QED BY <2>1, <2>2
<1>6. OwesInv(k)'
  <2>1. pc[k] \in Owing => call[k].ord \in OrderIds
    BY DEF LocalInv, CallInv
  <2> QED BY <1>1, <1>2, <2>1 DEF LocalInv, OwesInv, Owing, Deducting,
                                  FollowUps
<1>7. AnswerInv(k)'
  <2>1. CASE pc[k] = "ok" /\ call[k].kind = "charge"
    <3>1. call[k].ord \in OrderIds /\ Paid(call[k].ord)
      BY <2>1 DEF LocalInv, AnswerInv, TypeOK, CallRow
    <3> QED BY <1>1, <1>4, <2>1, <3>1 DEF LocalInv, AnswerInv, Paid, Placed
  <2>2. CASE ~(pc[k] = "ok" /\ call[k].kind = "charge")
    BY <1>1, <2>2 DEF AnswerInv
  <2> QED BY <2>1, <2>2
<1> QED BY <1>5, <1>6, <1>7 DEF LocalInv

-----------------------------------------------------------------------------
(* IInv is inductive.                                                      *)

LEMMA InvariantInit == ASSUME Init PROVE IInv
<1>1. /\ \A o \in OrderIds : /\ order[o] = NoOrder /\ payer[o] = None
                             /\ deducted[o] = NoLines
                             /\ jobs[o] = [j \in JobNames |-> 0]
      /\ \A k \in Calls : pc[k] = "idle" /\ call[k] = NoCall
  BY DEF Init
<1>2. TypeOK
  <2>1. ASSUME NEW v \in Variants
        PROVE  [inventory |-> InitStock[v],
                status |-> IF InitStock[v] = 0 THEN "OUT_OF_STOCK"
                                               ELSE "IN_STOCK"] \in VariantRow
    BY CheckoutAssumption DEF VariantRow
  <2>2. variant \in [Variants -> VariantRow]
    BY <2>1 DEF Init
  <2> QED BY <2>2, BlankTypes DEF Init, TypeOK, PCs
<1>3. CallsInv /\ (\A k \in Calls : OwesInv(k)) /\ AnsweredChargeIsRecorded
  BY <1>1 DEF CallsInv, CallInv, OwesInv, AnsweredChargeIsRecorded, Owing,
              Deducting
<1>4. PaymentInv
  BY <1>1 DEF PaymentInv, NoOrder, NoLines, JobNames
<1>5. SuccessHasPayment
  BY <1>1 DEF SuccessHasPayment, Placed, NoOrder
<1> QED BY <1>2, <1>3, <1>4, <1>5 DEF IInv

LEMMA LocalForm ==
  IInv <=> TypeOK /\ (\A k \in Calls : LocalInv(k))
                  /\ (\A p \in OrderIds : OrderInv(p))
BY DEF IInv, CallsInv, LocalInv, AnswerInv, AnsweredChargeIsRecorded,
       PaymentInv, SuccessHasPayment, OrderInv

LEMMA InvariantStep == ASSUME IInv, [Next]_vars PROVE IInv'
<1>1. TypeOK'
  BY TypeStep DEF IInv
<1>2. ASSUME NEW p \in OrderIds  PROVE OrderInv(p)'
  BY LocalForm, OrderStep DEF IInv
<1>3. ASSUME NEW k \in Calls  PROVE LocalInv(k)'
  <2>0. /\ TypeOK /\ CallsInv /\ PaymentInv /\ LocalInv(k)
        /\ \A j \in Calls : OwesInv(j)
    BY LocalForm DEF IInv
  <2>1. CASE UNCHANGED vars
    BY <2>0, <2>1 DEF vars, LocalInv, CallInv, OwesInv, AnswerInv, Paid, Placed
  <2>2. ASSUME NEW j \in Calls,
               \/ Request(j) \/ Step(j) \/ Abort(j)
               \/ \E v \in Variants : SkipItem(j, v)
        PROVE  LocalInv(k)'
    <3>1. CASE k = j
      BY <2>0, <2>2, <3>1, OwnStep
    <3>2. CASE k # j
      BY <2>0, <2>2, <3>2, OthersStep
    <3> QED BY <3>1, <3>2
  <2>3. ASSUME NEW o \in OrderIds,
               DeleteOrder(o) \/ ProcessCreated(o) \/ LoseJob(o)
        PROVE  LocalInv(k)'
    BY <2>0, <2>3, OrdersStep
  <2> QED BY <2>1, <2>2, <2>3 DEF Next, AllAnswered
<1>4. CallsInv' /\ (\A k \in Calls : OwesInv(k))'
      /\ AnsweredChargeIsRecorded'
  BY <1>3 DEF CallsInv, LocalInv, AnswerInv, AnsweredChargeIsRecorded
<1>5. PaymentInv' /\ SuccessHasPayment'
  BY <1>2 DEF PaymentInv, SuccessHasPayment, OrderInv
<1> QED BY <1>1, <1>4, <1>5 DEF IInv

(* IInv holds in every reachable state: the strengthening the theorems     *)
(* below rest on.                                                          *)
THEOREM Invariance == Spec => []IInv
<1>1. Init => IInv
  BY InvariantInit
<1>2. IInv /\ [Next]_vars => IInv'
  BY InvariantStep
<1> QED BY <1>1, <1>2, PTL DEF Spec

(* The state always has its type; in particular no inventory falls below   *)
(* zero, however the read-modify-write cycles on a variant interleave      *)
(* (order.py:285-298).                                                     *)
THEOREM TypeCorrect == Spec => []TypeOK
<1>1. IInv => TypeOK
  BY DEF IInv
<1> QED BY <1>1, Invariance, PTL

(* However many calls finalise an order, and whatever fails, each of its   *)
(* lines leaves the inventory at most once and only when the order is paid *)
(* (order.py:498-545).                                                     *)
THEOREM DeductedOnceCorrect == Spec => []DeductedOnce
<1>1. IInv => DeductedOnce
  <2> SUFFICES ASSUME IInv, NEW o \in OrderIds, NEW v \in Variants
               PROVE  /\ deducted[o][v] <= 1
                      /\ deducted[o][v] > 0 => Paid(o)
    BY DEF DeductedOnce
  <2> QED BY DEF IInv, PaymentInv, Paid, Placed
<1> QED BY <1>1, Invariance, PTL

(* The payment status SUCCESS always has a Payment row behind it, whatever *)
(* the administrator sets meanwhile (payments.py:125-160).                 *)
THEOREM SuccessHasPaymentCorrect == Spec => []SuccessHasPayment
<1>1. IInv => SuccessHasPayment
  BY DEF IInv
<1> QED BY <1>1, Invariance, PTL

(* A charge answered with success is recorded on an order and stays so     *)
(* (order.py:467-496, payments.py:105-122).                                *)
THEOREM AnsweredChargeCorrect == Spec => []AnsweredChargeIsRecorded
<1>1. IInv => AnsweredChargeIsRecorded
  BY DEF IInv
<1> QED BY <1>1, Invariance, PTL
-----------------------------------------------------------------------------
(* What a paid order is owed is done when nothing fails, coupons are       *)
(* counted before they are taken, and every step is one of OrderLifecycle. *)

(* What a call has read of the lines of its order covers what the order    *)
(* still holds, but for what it has deducted.                              *)
LinesInv(k) ==
  pc[k] \in {"pay"} \union Deducting =>
    LET o == call[k].ord IN
    /\ order[o].stage # "none"
    /\ faults = 0 =>
         \A v \in LinesOf(o) :
           call[k].lines[v] > 0 \/ (pc[k] \in Deducting /\ deducted[o][v] = 1)

Taken(o) == \A v \in LinesOf(o) : deducted[o][v] = 1

(* The payer of an order is still at work on it, or has done all of it.    *)
FulfilInv(o) ==
  faults = 0 /\ payer[o] # None =>
    LET k == payer[o] IN
    IF pc[k] \in Owing /\ call[k].ord = o
      THEN pc[k] = "invoice" => Taken(o) /\ jobs[o]["process_referral"] = 1
      ELSE Taken(o) /\ \A f \in FollowUps : jobs[o][f] = 1

(* A use of the coupon is counted for every order that has its discount    *)
(* and for every call that is about to create one.                         *)
Discounted == {o \in OrderIds : order[o].coupon}
Discounting == {k \in Calls : pc[k] = "create" /\ call[k].from \in CouponCarts}
DiscountInv ==
  /\ IsFiniteSet(Discounted) /\ IsFiniteSet(Discounting)
  /\ Cardinality(Discounted) + Cardinality(Discounting) <= uses

FInv == /\ IInv
        /\ \A k \in Calls : LinesInv(k)
        /\ \A o \in OrderIds : FulfilInv(o)
        /\ DiscountInv

-----------------------------------------------------------------------------
(* What a step does to the rows of the orders.                             *)

RowKeeps(p) ==
  /\ order'[p].coupon = order[p].coupon
  /\ order'[p].stage = "none" <=> order[p].stage = "none"
  /\ \A v \in Variants : order'[p].lines[v] > 0 => order[p].lines[v] > 0

LEMMA UnchangedKeeps ==
  ASSUME NEW p \in OrderIds, order'[p] = order[p]
  PROVE  RowKeeps(p) /\ Keeps(p)
BY DEF RowKeeps, Keeps

LEMMA CreateOrderRows ==
  ASSUME TypeOK, NEW k \in Calls, CreateOrder(k)
  PROVE  \/ UNCHANGED order /\ pc'[k] = "failed"
         \/ /\ pc'[k] = "created"
            /\ \E o \in OrderIds :
                 /\ order[o].stage = "none"
                 /\ order'[o].stage = "placed" /\ order'[o].method = None
                 /\ order'[o].coupon = (call[k].from \in CouponCarts)
                 /\ \A p \in OrderIds \ {o} : RowKeeps(p) /\ Keeps(p)
<1>1. CASE Answer(k, "failed") /\ UNCHANGED order
  BY <1>1, OwnAfter
<1>2. CASE ~(Answer(k, "failed") /\ UNCHANGED order)
  <2> DEFINE new == [NoOrder EXCEPT !.stage = "placed",
                       !.cart = call[k].from,
                       !.lines = CartLines[call[k].from],
                       !.coupon = (call[k].from \in CouponCarts)]
  <2>1. PICK o \in OrderIds :
          /\ order[o].stage = "none"
          /\ order' = [q \in OrderIds |->
               IF q = o THEN new
               ELSE IF q \in OrderOfCart(call[k].from)
                 THEN [order[q] EXCEPT !.cart = None]
               ELSE order[q]]
          /\ Goto(k, "created")
    BY <1>2 DEF CreateOrder
  <2>2. /\ new.stage = "placed" /\ new.method = None
        /\ new.coupon = (call[k].from \in CouponCarts)
    BY DEF NoOrder
  <2> HIDE DEF new
  <2>3. pc'[k] = "created" /\ order'[o] = new
    BY <2>1, OwnAfter
  <2>4. ASSUME NEW p \in OrderIds \ {o}  PROVE RowKeeps(p) /\ Keeps(p)
    <3>1. order'[p] = order[p] \/ order'[p] = [order[p] EXCEPT !.cart = None]
      BY <2>1
    <3>2. order[p] \in OrderRow
      BY DEF TypeOK
    <3> QED BY <3>1, <3>2 DEF RowKeeps, Keeps, OrderRow
  <2> QED BY <2>1, <2>2, <2>3, <2>4
<1> QED BY <1>1, <1>2

LEMMA CreatePaymentRows ==
  ASSUME TypeOK, CallsInv, NEW k \in Calls, CreatePayment(k),
         NEW p \in OrderIds
  PROVE  RowKeeps(p) /\ (p # call[k].ord => Keeps(p))
<1> DEFINE row == [order[call[k].ord] EXCEPT
                     !.method = call[k].method,
                     !.charge = IF call[k].method = "PAYSTACK"
                                  THEN call[k].cart ELSE None]
<1>0. call[k].ord \in OrderIds /\ order[call[k].ord] \in OrderRow
  BY DEF CallsInv, CallInv, CreatePayment, TypeOK
<1>1. UNCHANGED order \/ order' = [order EXCEPT ![call[k].ord] = row]
  BY DEF CreatePayment, SetOrder
<1>2. /\ row.coupon = order[call[k].ord].coupon
      /\ row.stage = order[call[k].ord].stage
      /\ row.lines = order[call[k].ord].lines
  BY <1>0 DEF OrderRow
<1> HIDE DEF row
<1> QED BY <1>0, <1>1, <1>2 DEF RowKeeps, Keeps, TypeOK

LEMMA StatusRows ==
  ASSUME TypeOK, CallsInv, NEW k \in Calls, NEW p \in OrderIds,
         MarkPaid(k) \/ SetStatus(k) \/ CommitReturn(k)
  PROVE  RowKeeps(p)
<1>0. call[k].ord \in OrderIds /\ order[call[k].ord] \in OrderRow
  BY DEF CallsInv, CallInv, MarkPaid, SetStatus, CommitReturn, Owing, Deducting,
         TypeOK
<1>1. CASE MarkPaid(k) \/ SetStatus(k)
  <2> DEFINE row(s) == [order[call[k].ord] EXCEPT !.status = s]
  <2>1. \/ UNCHANGED order
        \/ order' = [order EXCEPT ![call[k].ord] = row("SUCCESS")]
        \/ order' = [order EXCEPT ![call[k].ord] = row(call[k].status)]
    BY <1>1 DEF MarkPaid, SetStatus, SetOrder
  <2>2. \A s : /\ row(s).coupon = order[call[k].ord].coupon
               /\ row(s).stage = order[call[k].ord].stage
               /\ row(s).lines = order[call[k].ord].lines
    BY <1>0 DEF OrderRow
  <2> HIDE DEF row
  <2>3. \/ order'[p] = order[p]
        \/ /\ order'[p].coupon = order[p].coupon
           /\ order'[p].stage = order[p].stage
           /\ order'[p].lines = order[p].lines
    <3>1. \/ order'[p] = order[p]
          \/ p = call[k].ord /\ order'[p] = row("SUCCESS")
          \/ p = call[k].ord /\ order'[p] = row(call[k].status)
      BY <1>0, <2>1 DEF TypeOK
    <3> QED BY <2>2, <3>1
  <2> QED BY <2>3 DEF RowKeeps
<1>2. CASE CommitReturn(k)
  <2> DEFINE row == [order[call[k].ord] EXCEPT !.lines[call[k].item] = 0]
  <2>1. UNCHANGED order \/ order' = [order EXCEPT ![call[k].ord] = row]
    BY <1>2 DEF CommitReturn, SetOrder
  <2>2. /\ row.coupon = order[call[k].ord].coupon
        /\ row.stage = order[call[k].ord].stage
        /\ \A v \in Variants : row.lines[v] \in {0, order[call[k].ord].lines[v]}
    BY <1>0 DEF OrderRow
  <2> HIDE DEF row
  <2>3. order'[p] = order[p] \/ (p = call[k].ord /\ order'[p] = row)
    BY <1>0, <2>1 DEF TypeOK
  <2>4. \A v \in Variants : order'[p].lines[v] \in {0, order[p].lines[v]}
    BY <2>2, <2>3
  <2> QED BY <2>2, <2>3, <2>4 DEF RowKeeps
<1> QED BY <1>1, <1>2

LEMMA DeleteOrderRows ==
  ASSUME TypeOK, NEW o \in OrderIds, DeleteOrder(o), NEW p \in OrderIds
  PROVE  RowKeeps(p)
<1>0. order[o] \in OrderRow /\ order[o].stage = "placed"
  BY DEF TypeOK, DeleteOrder, Placed
<1>1. order' = [order EXCEPT ![o] =
                  [order[o] EXCEPT !.stage = "deleted", !.cart = None]]
  BY DEF DeleteOrder, SetOrder
<1> DEFINE row == [order[o] EXCEPT !.stage = "deleted", !.cart = None]
<1>2. /\ row.coupon = order[o].coupon /\ row.stage = "deleted"
      /\ row.lines = order[o].lines
  BY <1>0 DEF OrderRow
<1> HIDE DEF row
<1> QED BY <1>0, <1>1, <1>2 DEF RowKeeps, TypeOK

(* Only order.create makes a new row or gives one a discount.              *)
LEMMA RowStep ==
  ASSUME TypeOK, CallsInv, [Next]_vars, NEW p \in OrderIds
  PROVE  \/ RowKeeps(p)
         \/ order[p].stage = "none" /\ \E k \in Calls : CreateOrder(k)
<1>1. CASE UNCHANGED order
  BY <1>1, UnchangedKeeps
<1>2. ASSUME NEW k \in Calls, Request(k) \/ Step(k) \/ Abort(k)
      PROVE  RowKeeps(p) \/ (order[p].stage = "none" /\ CreateOrder(k))
  <2>1. CASE QuietStep(k)
    BY <1>1, <2>1, QuietFrame, UnchangedKeeps
  <2>2. CASE CreateOrder(k)
    BY <2>2, CreateOrderRows, UnchangedKeeps
  <2>3. CASE CreatePayment(k)
    BY <2>3, CreatePaymentRows
  <2>4. CASE MarkPaid(k) \/ SetStatus(k) \/ CommitReturn(k)
    BY <2>4, StatusRows
  <2>5. CASE QueueCreated(k) \/ QueueReferral(k) \/ QueueInvoice(k)
             \/ WriteVariant(k)
    BY <2>5, UnchangedKeeps
    DEF QueueCreated, QueueReferral, QueueInvoice, WriteVariant
  <2> QED BY <1>2, <2>1, <2>2, <2>3, <2>4, <2>5 DEF Step, QuietStep
<1>3. ASSUME NEW k \in Calls, NEW v \in Variants, SkipItem(k, v)
      PROVE  UNCHANGED order
  BY <1>3 DEF SkipItem
<1>4. ASSUME NEW o \in OrderIds,
             DeleteOrder(o) \/ ProcessCreated(o) \/ LoseJob(o)
      PROVE  RowKeeps(p)
  <2>1. CASE DeleteOrder(o)
    BY <2>1, DeleteOrderRows
  <2>2. CASE ProcessCreated(o) \/ LoseJob(o)
    BY <2>2, UnchangedKeeps DEF ProcessCreated, LoseJob
  <2> QED BY <1>4, <2>1, <2>2
<1> QED BY <1>1, <1>2, <1>3, <1>4 DEF Next, AllAnswered, vars

-----------------------------------------------------------------------------
(* What a call owes and has read of its order.                             *)

Acts(k) == \/ Request(k) \/ Step(k) \/ Abort(k)
           \/ \E v \in Variants : SkipItem(k, v)

LEMMA NextSplit ==
  ASSUME [Next]_vars
  PROVE  \/ UNCHANGED vars
         \/ \E k \in Calls : Acts(k)
         \/ \E o \in OrderIds :
              DeleteOrder(o) \/ ProcessCreated(o) \/ LoseJob(o)
BY DEF Next, AllAnswered, Acts

(* The steps of a call that no fault has cut short, by where they lead.    *)
LEMMA WhereActsLead ==
  ASSUME TypeOK, NEW k \in Calls, Acts(k)
  PROVE  /\ pc'[k] = "pay" => LoadOrder(k)
         /\ pc'[k] = "mark" => CreatePayment(k)
         /\ pc'[k] = "deducting" => \E v \in Variants : ReadVariant(k, v)
         /\ pc'[k] = "deduct" => \/ MarkPaid(k) \/ WriteVariant(k)
                                 \/ \E v \in Variants : SkipItem(k, v)
         /\ pc'[k] = "invoice" => QueueReferral(k)
         /\ pc'[k] = "create" => PickCart(k) \/ CountCoupon(k)
<1> USE OwnAfter
<1> DEFINE Leads(p) == p \in {"pay", "mark", "deducting", "deduct", "invoice",
                              "create"}
<1>1. CASE Request(k) \/ Abort(k)
  <2>1. Request(k) => pc'[k] \in {"find", "cart", "check", "item"}
    BY ReceiveAfter DEF Request, Charge, Place, Confirm, Return, Receive
  <2>2. Abort(k) => pc'[k] = "failed"
    BY DEF Abort
  <2>3. ~Leads(pc'[k])
    BY <1>1, <2>1, <2>2
  <2> QED BY <2>3
<1>2. CASE FindOrder(k) \/ CreateOrder(k) \/ QueueCreated(k)
  <2>1. FindOrder(k) => pc'[k] \in {"cart", "end", "load"}
    BY DEF FindOrder
  <2>2. CreateOrder(k) => pc'[k] \in {"failed", "created"}
    BY DEF CreateOrder
  <2>3. QueueCreated(k) => pc'[k] \in {"load", "ok"}
    BY DEF QueueCreated
  <2>4. ~Leads(pc'[k])
    BY <1>2, <2>1, <2>2, <2>3
  <2> QED BY <2>4
<1>3. CASE CheckStock(k) \/ SetStatus(k) \/ ReadItem(k) \/ ReadRestock(k)
           \/ CommitReturn(k)
  <2>1. CheckStock(k) => pc'[k] \in {"failed", "load", "set"}
    BY DEF CheckStock
  <2>2. ReadItem(k) => pc'[k] \in {"restock", "failed"}
    BY DEF ReadItem
  <2>3. SetStatus(k) \/ CommitReturn(k) => pc'[k] \in {"ok", "failed"}
    BY DEF SetStatus, CommitReturn
  <2>4. ReadRestock(k) => pc'[k] = "commit"
    BY DEF ReadRestock
  <2>5. ~Leads(pc'[k])
    BY <1>3, <2>1, <2>2, <2>3, <2>4
  <2> QED BY <2>5
<1>4. CASE QueueInvoice(k) \/ EndFinalize(k)
  <2>1. ~Leads(pc'[k])
    BY <1>4 DEF QueueInvoice, EndFinalize
  <2> QED BY <2>1
<1>5. CASE PickCart(k) \/ CountCoupon(k)
  <2>1. pc'[k] \in {"coupon", "create", "failed"}
    BY <1>5 DEF PickCart, CountCoupon
  <2> QED BY <1>5, <2>1
<1>6. CASE LoadOrder(k)
  <2>1. pc'[k] \in {"pay", "end", "failed"}
    BY <1>6 DEF LoadOrder
  <2> QED BY <1>6, <2>1
<1>7. CASE CreatePayment(k)
  <2>1. pc'[k] \in {"mark", "end", "failed"}
    BY <1>7 DEF CreatePayment
  <2> QED BY <1>7, <2>1
<1>8. CASE MarkPaid(k) \/ WriteVariant(k)
  <2>1. pc'[k] = "deduct"
    BY <1>8 DEF MarkPaid, WriteVariant
  <2> QED BY <1>8, <2>1
<1>9. CASE QueueReferral(k)
  <2>1. pc'[k] = "invoice"
    BY <1>9 DEF QueueReferral
  <2> QED BY <1>9, <2>1
<1>10. ASSUME NEW v \in Variants, ReadVariant(k, v)
       PROVE  pc'[k] = "deducting"
  BY <1>10 DEF ReadVariant
<1>11. ASSUME NEW v \in Variants, SkipItem(k, v)
       PROVE  pc'[k] = "deduct"
  BY <1>11 DEF SkipItem
<1> QED BY <1>1, <1>2, <1>3, <1>4, <1>5, <1>6, <1>7, <1>8, <1>9, <1>10,
           <1>11 DEF Acts, Step

LEMMA FaultsGrow ==
  ASSUME TypeOK, [Next]_vars, faults' = 0
  PROVE  /\ faults = 0
         /\ \A k \in Calls : ~Abort(k) /\ \A v \in Variants : ~SkipItem(k, v)
<1>1. ASSUME NEW k \in Calls, Abort(k) \/ \E v \in Variants : SkipItem(k, v)
      PROVE  FALSE
  <2>1. faults' = faults + 1 /\ faults \in Nat
    BY <1>1 DEF Abort, SkipItem, TypeOK
  <2> QED BY <2>1
<1>2. ASSUME NEW o \in OrderIds,
             DeleteOrder(o) \/ ProcessCreated(o) \/ LoseJob(o)
      PROVE  faults = 0
  BY <1>2 DEF DeleteOrder, ProcessCreated, LoseJob, TypeOK
<1>3. ASSUME NEW k \in Calls, Request(k)  PROVE faults = 0
  BY <1>3 DEF Request, Charge, Place, Confirm, Return, Receive
<1>4. ASSUME NEW k \in Calls, Step(k)  PROVE faults = 0
  BY <1>4 DEF Step, FindOrder, PickCart, CountCoupon, CreateOrder,
     QueueCreated, LoadOrder, CreatePayment, MarkPaid, ReadVariant,
     WriteVariant, QueueReferral, QueueInvoice, EndFinalize, CheckStock,
     SetStatus, ReadItem, ReadRestock, CommitReturn
<1>5. UNCHANGED vars => faults = 0
  BY DEF vars
<1> QED BY <1>1, <1>2, <1>3, <1>4, <1>5, NextSplit DEF Acts

(* An order's lines are only ever removed once it is there.                *)
LEMMA LinesShrink ==
  ASSUME TypeOK, CallsInv, [Next]_vars, NEW p \in OrderIds,
         order[p].stage # "none"
  PROVE  /\ order'[p].stage # "none"
         /\ LinesOf(p)' \subseteq LinesOf(p)
BY RowStep DEF RowKeeps, LinesOf

LEMMA LinesOthers ==
  ASSUME TypeOK, CallsInv, \A k \in Calls : OwesInv(k), PaymentInv,
         [Next]_vars, NEW k \in Calls, LinesInv(k),
         pc'[k] = pc[k], call'[k] = call[k],
         pc[k] \in Deducting => deducted'[call[k].ord] = deducted[call[k].ord]
  PROVE  LinesInv(k)'
<1> SUFFICES ASSUME pc[k] \in {"pay"} \union Deducting
             PROVE  LinesInv(k)'
  BY DEF LinesInv, Deducting
<1>1. PICK o \in OrderIds : call[k].ord = o
  BY DEF CallsInv, CallInv, Owing
<1>2. order'[o].stage # "none" /\ LinesOf(o)' \subseteq LinesOf(o)
  BY <1>1, LinesShrink DEF LinesInv
<1>3. ASSUME faults' = 0, NEW v \in LinesOf(o)'
      PROVE  \/ call[k].lines[v] > 0
             \/ pc[k] \in Deducting /\ deducted'[o][v] = 1
  <2>1. faults = 0 /\ v \in LinesOf(o)
    BY <1>2, <1>3, FaultsGrow
  <2> QED BY <1>1, <2>1 DEF LinesInv
<1> QED BY <1>1, <1>2, <1>3 DEF LinesInv, Deducting

LEMMA LinesOwn ==
  ASSUME TypeOK, CallsInv, \A j \in Calls : OwesInv(j), PaymentInv,
         [Next]_vars, NEW k \in Calls, Acts(k), LinesInv(k)
  PROVE  LinesInv(k)'
<1> SUFFICES ASSUME pc'[k] \in {"pay"} \union Deducting
             PROVE  LinesInv(k)'
  BY DEF LinesInv, Deducting
<1>0. call[k] \in CallRow
  BY DEF TypeOK
<1> USE OwnAfter
<1>1. CASE pc'[k] = "pay"
  <2>1. LoadOrder(k) /\ UNCHANGED order
    BY <1>1, WhereActsLead DEF LoadOrder
  <2>2. /\ Placed(call[k].ord)
        /\ call'[k] = [call[k] EXCEPT !.lines = order[call[k].ord].lines]
    BY <1>1, <2>1 DEF LoadOrder
  <2>3. call'[k].ord = call[k].ord /\ call'[k].lines = order[call[k].ord].lines
    BY <1>0, <2>2 DEF CallRow
  <2> QED BY <1>1, <2>1, <2>2, <2>3 DEF LinesInv, LinesOf, Placed
<1>2. CASE pc'[k] # "pay"
  <2>1. \/ CreatePayment(k) \/ MarkPaid(k) \/ WriteVariant(k)
        \/ \E v \in Variants : ReadVariant(k, v) \/ SkipItem(k, v)
    BY <1>2, WhereActsLead DEF Deducting
  <2>2. pc[k] \in {"pay"} \union Deducting
    BY <2>1 DEF CreatePayment, MarkPaid, WriteVariant, ReadVariant, SkipItem,
       Deducting
  <2>3. PICK o \in OrderIds : call[k].ord = o
    BY <2>2 DEF CallsInv, CallInv, Owing
  <2>4. order'[o].stage # "none" /\ LinesOf(o)' \subseteq LinesOf(o)
    BY <2>2, <2>3, LinesShrink DEF LinesInv
  <2>0. CreatePayment(k) \/ MarkPaid(k) => UNCHANGED <<call, deducted>>
    <3>1. CreatePayment(k) => UNCHANGED call
      BY <1>2, CreatePaymentEffect DEF Deducting, Owing
    <3>2. CreatePayment(k) => UNCHANGED deducted
      BY DEF CreatePayment
    <3>3. MarkPaid(k) => UNCHANGED <<call, deducted>>
      BY DEF MarkPaid, historyVars
    <3> QED BY <3>1, <3>2, <3>3
  <2>5. call'[k].ord = o
    <3>1. CreatePayment(k) \/ MarkPaid(k) => call'[k] = call[k]
      BY <2>0
    <3>2. WriteVariant(k) => call'[k].ord = call[k].ord
      BY <1>0 DEF WriteVariant, CallRow
    <3>3. \A v \in Variants : ReadVariant(k, v) => call'[k].ord = call[k].ord
      BY <1>0 DEF ReadVariant, CallRow
    <3>4. \A v \in Variants : SkipItem(k, v) => call'[k].ord = call[k].ord
      BY <1>0 DEF SkipItem, CallRow
    <3> QED BY <2>1, <2>3, <3>1, <3>2, <3>3, <3>4
  <2>6. ASSUME faults' = 0, NEW v \in LinesOf(o)'
        PROVE  \/ call'[k].lines[v] > 0
               \/ pc'[k] \in Deducting /\ deducted'[o][v] = 1
    <3>1. faults = 0 /\ v \in LinesOf(o) /\ v \in Variants
      BY <2>4, <2>6, FaultsGrow DEF LinesOf
    <3>2. \/ call[k].lines[v] > 0
          \/ pc[k] \in Deducting /\ deducted[o][v] = 1
      BY <2>2, <2>3, <3>1 DEF LinesInv
    <3>3. pc'[k] \in Deducting
      BY <1>2
    <3>4. CASE CreatePayment(k) \/ MarkPaid(k)
      BY <2>0, <3>2, <3>3, <3>4
    <3>5. CASE \E w \in Variants : ReadVariant(k, w)
      <4>1. call'[k].lines = call[k].lines /\ UNCHANGED deducted
        BY <1>0, <3>5 DEF ReadVariant, CallRow, historyVars
      <4> QED BY <3>2, <3>3, <4>1
    <3>6. CASE WriteVariant(k)
      <4>1. deducted'[o][v] = IF v = call[k].item THEN deducted[o][v] + 1
                                                  ELSE deducted[o][v]
        BY <2>3, <3>1, <3>6, WriteVariantEffect
      <4>2. /\ call[k].item \in Variants
            /\ deducted[o][call[k].item] = 0
        BY <2>3, <3>6
        DEF WriteVariant, CallsInv, CallInv, OwesInv, Deducting
      <4>3. v # call[k].item => call'[k].lines[v] = call[k].lines[v]
        <5>1. call'[k] = [call[k] EXCEPT !.lines[call[k].item] = 0,
                                         !.item = None, !.seen = NoRow]
          BY <3>6 DEF WriteVariant
        <5> QED BY <1>0, <3>1, <5>1 DEF CallRow
      <4> QED BY <3>2, <3>3, <4>1, <4>2, <4>3
    <3> QED BY <2>1, <2>6, <3>4, <3>5, <3>6, FaultsGrow
  <2> QED BY <1>2, <2>4, <2>5, <2>6 DEF LinesInv
<1> QED BY <1>1, <1>2

-----------------------------------------------------------------------------
(* The payer of an order goes on until everything is done.                 *)

(* Who has recorded the payment of an order stays who has.                 *)
LEMMA PayerStays ==
  ASSUME TypeOK, CallsInv, \A j \in Calls : OwesInv(j), PaymentInv,
         [Next]_vars, NEW p \in OrderIds, payer[p] # None
  PROVE  payer'[p] = payer[p]
<1>1. ASSUME NEW k \in Calls, Acts(k)  PROVE payer'[p] = payer[p]
  <2>1. CASE pc[k] \in Owing
    <3>1. ~CreatePayment(k)
      BY <2>1 DEF CreatePayment, Owing, Deducting
    <3>2. UNCHANGED payer
      BY <1>1, <3>1, QuietFrame
      DEF Acts, Step, QuietStep, CreateOrder, QueueCreated, MarkPaid,
          WriteVariant, QueueReferral, QueueInvoice, SetStatus, CommitReturn,
          historyVars
    <3> QED BY <3>2
  <2>2. CASE pc[k] \notin Owing
    BY <1>1, <2>2, EffectsAreLocal DEF Acts
  <2> QED BY <2>1, <2>2
<1> QED BY <1>1, NextSplit
        DEF vars, DeleteOrder, ProcessCreated, LoseJob, historyVars

(* What is done for an order stays done while its payer does nothing.      *)
LEMMA DoneStays ==
  ASSUME TypeOK, CallsInv, [Next]_vars, NEW o \in OrderIds,
         order[o].stage # "none", Taken(o),
         deducted'[o] = deducted[o]
  PROVE  Taken(o)'
BY LinesShrink DEF Taken

LEMMA FulfilQuiet ==
  ASSUME TypeOK, CallsInv, \A j \in Calls : OwesInv(j), PaymentInv,
         [Next]_vars, NEW o \in OrderIds, FulfilInv(o), payer[o] # None,
         payer'[o] = payer[o], deducted'[o] = deducted[o],
         \A f \in FollowUps : jobs'[o][f] = jobs[o][f],
         \/ /\ pc'[payer[o]] = pc[payer[o]]
            /\ call'[payer[o]].ord = call[payer[o]].ord
         \/ /\ ~(pc[payer[o]] \in Owing /\ call[payer[o]].ord = o)
            /\ ~(pc'[payer[o]] \in Owing /\ call'[payer[o]].ord = o)
  PROVE  FulfilInv(o)'
<1> SUFFICES ASSUME faults' = 0
             PROVE  FulfilInv(o)'
  BY DEF FulfilInv
<1>1. faults = 0
  BY FaultsGrow
<1>2. order[o].stage # "none"
  BY DEF PaymentInv
<1>3. Taken(o) => Taken(o)'
  BY <1>2, DoneStays
<1> QED BY <1>1, <1>3 DEF FulfilInv, FollowUps

(* The payment is recorded.                                                *)
LEMMA FulfilPaid ==
  ASSUME TypeOK, CallsInv, NEW k \in Calls, CreatePayment(k),
         NEW o \in OrderIds, payer[o] = None, payer'[o] # None
  PROVE  FulfilInv(o)'
<1>1. /\ pc'[k] = "mark" /\ UNCHANGED call
      /\ payer' = [payer EXCEPT ![call[k].ord] = k]
  BY CreatePaymentEffect
<1>2. call[k].ord = o /\ payer'[o] = k
  BY <1>1 DEF TypeOK
<1> QED BY <1>1, <1>2 DEF FulfilInv, Owing, Deducting

(* The payer itself.                                                       *)
LEMMA FulfilOwing ==
  ASSUME TypeOK, CallsInv, \A j \in Calls : OwesInv(j) /\ LinesInv(j),
         PaymentInv, [Next]_vars, NEW o \in OrderIds, FulfilInv(o),
         payer'[o] = payer[o], NEW k \in Calls, payer[o] = k, Acts(k),
         pc[k] \in Owing, call[k].ord = o
  PROVE  FulfilInv(o)'
<1> SUFFICES ASSUME faults' = 0
             PROVE  FulfilInv(o)'
  BY DEF FulfilInv
<1>0. /\ faults = 0 /\ call[k] \in CallRow /\ k # None
      /\ order[o].stage # "none"
  BY FaultsGrow, CheckoutAssumption DEF TypeOK, PaymentInv
<1>1. \/ MarkPaid(k) \/ WriteVariant(k) \/ QueueReferral(k) \/ QueueInvoice(k)
      \/ \E v \in Variants : ReadVariant(k, v)
  BY FaultsGrow
  DEF Acts, Step, Request, Charge, Place, Confirm, Return, Receive, FindOrder,
      PickCart, CountCoupon, CreateOrder, QueueCreated, LoadOrder,
      CreatePayment, EndFinalize, CheckStock, SetStatus, ReadItem, ReadRestock,
      CommitReturn, Owing, Deducting
<1>2. CASE MarkPaid(k) \/ WriteVariant(k) \/ \E v \in Variants : ReadVariant(k, v)
  <2>1. pc'[k] \in {"deduct", "deducting"}
    BY <1>2, OwnAfter DEF MarkPaid, WriteVariant, ReadVariant
  <2>2. call'[k].ord = o
    <3>1. MarkPaid(k) => call'[k] = call[k]
      BY DEF MarkPaid
    <3>2. WriteVariant(k) => call'[k].ord = call[k].ord
      BY <1>0, OwnAfter DEF WriteVariant, CallRow
    <3>3. \A v \in Variants : ReadVariant(k, v) => call'[k].ord = call[k].ord
      BY <1>0, OwnAfter DEF ReadVariant, CallRow
    <3> QED BY <1>2, <3>1, <3>2, <3>3
  <2> QED BY <1>0, <2>1, <2>2 DEF FulfilInv, Owing, Deducting
<1>3. CASE QueueReferral(k)
  <2>1. /\ pc[k] = "deduct" /\ pc'[k] = "invoice" /\ call[k].lines = NoLines
        /\ UNCHANGED <<order, deducted, call>>
        /\ jobs'[o]["process_referral"] = jobs[o]["process_referral"] + 1
    BY <1>3, QueueEffect DEF QueueReferral, FollowUps, historyVars
  <2>2. jobs[o]["process_referral"] = 0
    BY <2>1 DEF OwesInv, Deducting, FollowUps
  <2>3. \A v \in LinesOf(o) : deducted[o][v] = 1
    BY <1>0, <2>1 DEF LinesInv, Deducting, NoLines, LinesOf
  <2>4. Taken(o)'
    BY <2>1, <2>3 DEF Taken, LinesOf
  <2> QED BY <1>0, <2>1, <2>2, <2>4 DEF FulfilInv, Owing
<1>4. CASE QueueInvoice(k)
  <2>1. /\ pc[k] = "invoice" /\ pc'[k] = "end"
        /\ UNCHANGED <<order, deducted, call>>
        /\ jobs'[o]["process_referral"] = jobs[o]["process_referral"]
        /\ jobs'[o]["generate_and_send_invoice"]
             = jobs[o]["generate_and_send_invoice"] + 1
    BY <1>4, QueueEffect DEF QueueInvoice, FollowUps, historyVars
  <2>2. jobs[o]["generate_and_send_invoice"] = 0
    BY <2>1 DEF OwesInv
  <2>3. Taken(o) /\ jobs[o]["process_referral"] = 1
    BY <1>0, <2>1 DEF FulfilInv
  <2>4. Taken(o)'
    BY <2>1, <2>3 DEF Taken, LinesOf
  <2> QED BY <1>0, <2>1, <2>2, <2>3, <2>4
          DEF FulfilInv, Owing, Deducting, FollowUps
<1> QED BY <1>1, <1>2, <1>3, <1>4

(* A call comes to owe an order something only by recording its payment.   *)
LEMMA OwingBefore ==
  ASSUME TypeOK, CallsInv, NEW k \in Calls, Acts(k), pc'[k] \in Owing
  PROVE  /\ call'[k].ord = call[k].ord
         /\ \/ pc[k] \in Owing
            \/ CreatePayment(k) /\ order[call[k].ord].method = None
<1>0. call[k] \in CallRow
  BY DEF TypeOK
<1>1. CASE CreatePayment(k)
  BY <1>1, CreatePaymentEffect
<1>2. CASE ~CreatePayment(k)
  <2>1. \/ MarkPaid(k) \/ WriteVariant(k) \/ QueueReferral(k)
        \/ \E v \in Variants : ReadVariant(k, v) \/ SkipItem(k, v)
    BY <1>2, WhereActsLead DEF Owing, Deducting
  <2>2. pc[k] \in Owing
    BY <2>1 DEF MarkPaid, WriteVariant, QueueReferral, ReadVariant, SkipItem,
       Owing, Deducting
  <2>3. MarkPaid(k) \/ QueueReferral(k) => call'[k] = call[k]
    BY DEF MarkPaid, QueueReferral
  <2>4. WriteVariant(k) => call'[k].ord = call[k].ord
    BY <1>0, OwnAfter DEF WriteVariant, CallRow
  <2>5. \A v \in Variants : ReadVariant(k, v) => call'[k].ord = call[k].ord
    BY <1>0, OwnAfter DEF ReadVariant, CallRow
  <2>6. \A v \in Variants : SkipItem(k, v) => call'[k].ord = call[k].ord
    BY <1>0, OwnAfter DEF SkipItem, CallRow
  <2> QED BY <2>1, <2>2, <2>3, <2>4, <2>5, <2>6
<1> QED BY <1>1, <1>2

LEMMA FulfilStep ==
  ASSUME TypeOK, CallsInv, \A j \in Calls : OwesInv(j) /\ LinesInv(j),
         PaymentInv, [Next]_vars, NEW o \in OrderIds, FulfilInv(o)
  PROVE  FulfilInv(o)'
<1>1. CASE payer[o] = None
  <2> SUFFICES ASSUME payer'[o] # None
               PROVE  FulfilInv(o)'
    BY DEF FulfilInv
  <2>1. PICK k \in Calls : CreatePayment(k)
    <3>1. ASSUME NEW k \in Calls, Acts(k), ~CreatePayment(k)
          PROVE  UNCHANGED payer
      BY <3>1, QuietFrame
      DEF Acts, Step, QuietStep, CreateOrder, QueueCreated, MarkPaid,
          WriteVariant, QueueReferral, QueueInvoice, SetStatus, CommitReturn,
          historyVars
    <3> QED BY <1>1, <3>1, NextSplit
            DEF vars, DeleteOrder, ProcessCreated, LoseJob, historyVars
  <2> QED BY <1>1, <2>1, FulfilPaid
<1>2. CASE payer[o] # None
  <2>1. payer'[o] = payer[o] /\ payer[o] \in Calls
    BY <1>2, PayerStays DEF TypeOK
  <2>2. CASE UNCHANGED vars
    BY <1>2, <2>1, <2>2, FulfilQuiet DEF vars
  <2>3. ASSUME NEW p \in OrderIds,
               DeleteOrder(p) \/ ProcessCreated(p) \/ LoseJob(p)
        PROVE  FulfilInv(o)'
    <3>1. UNCHANGED <<pc, call, payer, deducted>>
      BY <2>3 DEF DeleteOrder, ProcessCreated, LoseJob, historyVars
    <3>2. \A f \in FollowUps : jobs'[o][f] = jobs[o][f]
      BY <2>3, QueueEffect DEF DeleteOrder, ProcessCreated
    <3> QED BY <1>2, <3>1, <3>2, FulfilQuiet
  <2>4. ASSUME NEW k \in Calls, Acts(k), pc[k] \in Owing => call[k].ord # o
        PROVE  FulfilInv(o)'
    <3>1. /\ deducted'[o] = deducted[o]
          /\ \A f \in FollowUps : jobs'[o][f] = jobs[o][f]
      BY <1>2, <2>4, EffectsAreLocal DEF Acts
    <3>2. CASE payer[o] = k
      <4>1. pc'[k] \in Owing => call'[k].ord # o
        BY <1>2, <2>4, OwingBefore DEF PaymentInv
      <4> QED BY <1>2, <2>1, <2>4, <3>1, <3>2, <4>1, FulfilQuiet
    <3>3. CASE payer[o] # k
      <4>1. /\ pc'[payer[o]] = pc[payer[o]]
            /\ call'[payer[o]] = call[payer[o]]
        BY <2>1, <2>4, <3>3, OthersKept DEF Acts
      <4> QED BY <1>2, <2>1, <3>1, <4>1, FulfilQuiet
    <3> QED BY <3>2, <3>3
  <2>5. ASSUME NEW k \in Calls, Acts(k), pc[k] \in Owing, call[k].ord = o
        PROVE  FulfilInv(o)'
    <3>1. payer[o] = k
      BY <2>5, OwingMeansPaid
    <3> QED BY <2>1, <2>5, <3>1, FulfilOwing
  <2> QED BY <2>2, <2>3, <2>4, <2>5, NextSplit
<1> QED BY <1>1, <1>2

LEMMA LinesStep ==
  ASSUME TypeOK, CallsInv, \A j \in Calls : OwesInv(j), PaymentInv,
         [Next]_vars, NEW k \in Calls, LinesInv(k)
  PROVE  LinesInv(k)'
<1>1. CASE UNCHANGED vars
  BY <1>1, LinesOthers DEF vars
<1>2. ASSUME NEW o \in OrderIds,
             DeleteOrder(o) \/ ProcessCreated(o) \/ LoseJob(o)
      PROVE  LinesInv(k)'
  <2>1. UNCHANGED <<pc, call, deducted>>
    BY <1>2 DEF DeleteOrder, ProcessCreated, LoseJob, historyVars
  <2> QED BY <2>1, LinesOthers
<1>3. ASSUME NEW j \in Calls, Acts(j)
      PROVE  LinesInv(k)'
  <2>1. CASE j = k
    BY <1>3, <2>1, LinesOwn
  <2>2. CASE j # k
    <3>1. pc'[k] = pc[k] /\ call'[k] = call[k]
      BY <1>3, <2>2, OthersKept DEF Acts
    <3>2. pc[k] \in Deducting => deducted'[call[k].ord] = deducted[call[k].ord]
      <4> SUFFICES ASSUME pc[k] \in Deducting
                   PROVE  deducted'[call[k].ord] = deducted[call[k].ord]
        OBVIOUS
      <4>1. /\ call[k].ord \in OrderIds /\ payer[call[k].ord] = k
            /\ k # None
        BY OwingMeansPaid, CheckoutAssumption DEF Owing
      <4>2. pc[j] \in Owing => call[j].ord # call[k].ord
        BY <2>2, <4>1, OwingMeansPaid
      <4> QED BY <1>3, <4>1, <4>2, EffectsAreLocal DEF Acts
    <3> QED BY <3>1, <3>2, LinesOthers
  <2> QED BY <2>1, <2>2
<1> QED BY <1>1, <1>2, <1>3, NextSplit

-----------------------------------------------------------------------------
(* A discount is counted before an order takes it.                         *)

LEMMA CountKeeps ==
  ASSUME DiscountInv, TypeOK, uses' \in Nat, uses' >= uses,
         Discounted' \subseteq Discounted, Discounting' \subseteq Discounting
  PROVE  DiscountInv'
<1>1. /\ IsFiniteSet(Discounted') /\ IsFiniteSet(Discounting')
      /\ Cardinality(Discounted') <= Cardinality(Discounted)
      /\ Cardinality(Discounting') <= Cardinality(Discounting)
  BY FS_Subset DEF DiscountInv
<1>2. /\ Cardinality(Discounted) \in Nat /\ Cardinality(Discounting) \in Nat
      /\ Cardinality(Discounted') \in Nat /\ Cardinality(Discounting') \in Nat
  BY <1>1, FS_CardinalityType DEF DiscountInv
<1> QED BY <1>1, <1>2 DEF DiscountInv, TypeOK

LEMMA CountOne ==
  ASSUME DiscountInv, TypeOK, uses' = uses + 1, NEW k,
         Discounted' \subseteq Discounted,
         Discounting' \subseteq Discounting \union {k}
  PROVE  DiscountInv'
<1>0. /\ IsFiniteSet(Discounting \union {k})
      /\ Cardinality(Discounting \union {k}) <= Cardinality(Discounting) + 1
      /\ Cardinality(Discounting) \in Nat
  <2>1. Cardinality(Discounting) \in Nat
    BY FS_CardinalityType DEF DiscountInv
  <2>2. /\ IsFiniteSet(Discounting \union {k})
        /\ Cardinality(Discounting \union {k}) =
             IF k \in Discounting THEN Cardinality(Discounting) ELSE Cardinality(Discounting) + 1
    BY FS_AddElement DEF DiscountInv
  <2> QED BY <2>1, <2>2
<1>1. /\ IsFiniteSet(Discounted') /\ IsFiniteSet(Discounting')
      /\ Cardinality(Discounted') <= Cardinality(Discounted)
      /\ Cardinality(Discounting') <= Cardinality(Discounting \union {k})
  BY <1>0, FS_Subset DEF DiscountInv
<1>2. /\ Cardinality(Discounted) \in Nat
      /\ Cardinality(Discounting \union {k}) \in Nat
      /\ Cardinality(Discounted') \in Nat /\ Cardinality(Discounting') \in Nat
  BY <1>0, <1>1, FS_CardinalityType DEF DiscountInv
<1> QED BY <1>0, <1>1, <1>2 DEF DiscountInv, TypeOK

LEMMA CountTaken ==
  ASSUME DiscountInv, TypeOK, uses' = uses, NEW k \in Discounting, NEW o,
         Discounted' \subseteq Discounted \union {o},
         Discounting' \subseteq Discounting \ {k}
  PROVE  DiscountInv'
<1>0. /\ IsFiniteSet(Discounted \union {o})
      /\ Cardinality(Discounted \union {o}) <= Cardinality(Discounted) + 1
      /\ Cardinality(Discounted) \in Nat
  <2>1. Cardinality(Discounted) \in Nat
    BY FS_CardinalityType DEF DiscountInv
  <2>2. /\ IsFiniteSet(Discounted \union {o})
        /\ Cardinality(Discounted \union {o}) =
             IF o \in Discounted THEN Cardinality(Discounted) ELSE Cardinality(Discounted) + 1
    BY FS_AddElement DEF DiscountInv
  <2> QED BY <2>1, <2>2
<1>1. /\ IsFiniteSet(Discounting \ {k})
      /\ Cardinality(Discounting \ {k}) = Cardinality(Discounting) - 1
      /\ Cardinality(Discounting) \in Nat
  BY FS_RemoveElement, FS_CardinalityType DEF DiscountInv
<1>2. /\ IsFiniteSet(Discounted') /\ IsFiniteSet(Discounting')
      /\ Cardinality(Discounted') <= Cardinality(Discounted \union {o})
      /\ Cardinality(Discounting') <= Cardinality(Discounting \ {k})
  BY <1>0, <1>1, FS_Subset DEF DiscountInv
<1>3. /\ Cardinality(Discounted \union {o}) \in Nat
      /\ Cardinality(Discounting \ {k}) \in Nat
      /\ Cardinality(Discounted') \in Nat /\ Cardinality(Discounting') \in Nat
  BY <1>0, <1>1, <1>2, FS_CardinalityType DEF DiscountInv
<1> QED BY <1>0, <1>1, <1>2, <1>3 DEF DiscountInv, TypeOK

LEMMA DiscountedKept ==
  ASSUME \A p \in OrderIds : RowKeeps(p)
  PROVE  Discounted' \subseteq Discounted
<1> SUFFICES ASSUME NEW p \in OrderIds, order'[p].coupon
             PROVE  order[p].coupon
  BY DEF Discounted
<1>1. order'[p].coupon = order[p].coupon
  BY DEF RowKeeps
<1> QED BY <1>1

(* Only increment_coupon_usage makes a call one that may take a discount.  *)
LEMMA DiscountingKept ==
  ASSUME TypeOK, NEW k \in Calls, Acts(k)
  PROVE  /\ Discounting' \subseteq Discounting \union {k}
         /\ pc'[k] # "create" => Discounting' \subseteq Discounting \ {k}
         /\ ~CountCoupon(k) => Discounting' \subseteq Discounting
<1>1. ASSUME NEW j \in Calls \ {k}
      PROVE  pc'[j] = pc[j] /\ call'[j] = call[j]
  BY OthersKept DEF Acts
<1>2. ASSUME pc'[k] = "create", ~CountCoupon(k)
      PROVE  call'[k].from \notin CouponCarts
  <2>1. PickCart(k) /\ pc[k] = "cart"
    BY <1>2, WhereActsLead DEF PickCart
  <2>2. PICK c \in ActiveCart(call[k].user, call[k].cart) :
          /\ Local(k, [call[k] EXCEPT !.from = c])
          /\ Goto(k, IF c \in CouponCarts THEN "coupon" ELSE "create")
    BY <1>2, <2>1, OwnAfter DEF PickCart
  <2>3. c \notin CouponCarts
    BY <1>2, <2>2, OwnAfter
  <2>4. call[k] \in CallRow
    BY DEF TypeOK
  <2>5. call'[k].from = c
    BY <2>2, <2>4, OwnAfter DEF CallRow
  <2> QED BY <2>3, <2>5
<1> QED BY <1>1, <1>2 DEF Discounting

LEMMA UsesFrame ==
  ASSUME NEW k \in Calls, Acts(k), ~CountCoupon(k)
  PROVE  uses' = uses
BY DEF Acts, Step, Request, Charge, Place, Confirm, Return, Receive, Abort,
   SkipItem, FindOrder, PickCart, CreateOrder, QueueCreated, LoadOrder,
   CreatePayment, MarkPaid, ReadVariant, WriteVariant, QueueReferral,
   QueueInvoice, EndFinalize, CheckStock, SetStatus, ReadItem, ReadRestock,
   CommitReturn, shopVars

LEMMA DiscountCreate ==
  ASSUME TypeOK, DiscountInv, NEW k \in Calls, CreateOrder(k)
  PROVE  DiscountInv'
<1>0. Acts(k) /\ uses' = uses /\ ~CountCoupon(k) /\ pc[k] = "create"
  BY DEF Acts, Step, CreateOrder, CountCoupon, shopVars
<1>1. pc'[k] # "create" /\ Discounting' \subseteq Discounting \ {k}
  BY <1>0, CreateOrderRows, DiscountingKept
<1>2. CASE UNCHANGED order
  <2>1. Discounted' \subseteq Discounted
    BY <1>2 DEF Discounted
  <2> QED BY <1>0, <1>1, <2>1, CountKeeps DEF TypeOK
<1>3. CASE ~UNCHANGED order
  <2>1. PICK o \in OrderIds :
          /\ order'[o].coupon = (call[k].from \in CouponCarts)
          /\ \A p \in OrderIds \ {o} : RowKeeps(p)
    BY <1>3, CreateOrderRows
  <2>2. \A p \in OrderIds \ {o} : order'[p].coupon = order[p].coupon
    BY <2>1 DEF RowKeeps
  <2>3. CASE call[k].from \in CouponCarts
    <3>1. k \in Discounting
      BY <1>0, <2>3 DEF Discounting
    <3>2. Discounted' \subseteq Discounted \union {o}
      BY <2>2 DEF Discounted
    <3> QED BY <1>0, <1>1, <3>1, <3>2, CountTaken
  <2>4. CASE call[k].from \notin CouponCarts
    <3>1. ~order'[o].coupon
      BY <2>1, <2>4
    <3>2. Discounted' \subseteq Discounted
      <4> SUFFICES ASSUME NEW p \in OrderIds, order'[p].coupon
                   PROVE  order[p].coupon
        BY DEF Discounted
      <4> QED BY <2>2, <3>1
    <3> QED BY <1>0, <1>1, <3>2, CountKeeps DEF TypeOK
  <2> QED BY <2>3, <2>4
<1> QED BY <1>2, <1>3

LEMMA DiscountStep ==
  ASSUME TypeOK, CallsInv, [Next]_vars, DiscountInv
  PROVE  DiscountInv'
<1>1. CASE \E k \in Calls : CreateOrder(k)
  BY <1>1, DiscountCreate
<1>2. CASE \A k \in Calls : ~CreateOrder(k)
  <2>1. Discounted' \subseteq Discounted
    BY <1>2, RowStep, DiscountedKept
  <2>2. ASSUME NEW k \in Calls, Acts(k), ~CountCoupon(k)
        PROVE  DiscountInv'
    BY <2>1, <2>2, UsesFrame, DiscountingKept, CountKeeps DEF TypeOK
  <2>3. ASSUME NEW k \in Calls, CountCoupon(k)
        PROVE  DiscountInv'
    <3>1. Acts(k) /\ uses' = uses + 1
      BY <2>3 DEF Acts, Step, CountCoupon
    <3> QED BY <2>1, <3>1, DiscountingKept, CountOne
  <2>4. ASSUME UNCHANGED <<pc, call, uses>>
        PROVE  DiscountInv'
    <3>1. Discounting' \subseteq Discounting
      BY <2>4 DEF Discounting
    <3> QED BY <2>1, <2>4, <3>1, CountKeeps DEF TypeOK
  <2> QED BY <2>2, <2>3, <2>4, NextSplit
          DEF vars, DeleteOrder, ProcessCreated, LoseJob, shopVars
<1> QED BY <1>1, <1>2

-----------------------------------------------------------------------------
(* FInv is inductive.                                                      *)

LEMMA FulfilmentInit == ASSUME Init PROVE FInv
<1>1. IInv
  BY InvariantInit
<1>2. \A k \in Calls : LinesInv(k)
  BY DEF Init, LinesInv, Deducting
<1>3. \A o \in OrderIds : FulfilInv(o)
  BY DEF Init, FulfilInv
<1>4. DiscountInv
  <2>1. \A o \in OrderIds : order[o] = NoOrder
    BY DEF Init
  <2>2. \A o \in OrderIds : order[o].coupon = FALSE
    BY <2>1 DEF NoOrder
  <2>3. Discounted = {}
    BY <2>2 DEF Discounted
  <2>4. Discounting = {}
    BY DEF Init, Discounting
  <2>5. uses = 0
    BY DEF Init
  <2> QED BY <2>3, <2>4, <2>5, FS_EmptySet DEF DiscountInv
<1> QED BY <1>1, <1>2, <1>3, <1>4 DEF FInv

LEMMA FulfilmentStep == ASSUME FInv, [Next]_vars PROVE FInv'
<1>0. /\ TypeOK /\ CallsInv /\ PaymentInv
      /\ \A k \in Calls : OwesInv(k) /\ LinesInv(k)
  BY DEF FInv, IInv
<1>1. IInv'
  BY InvariantStep DEF FInv
<1>2. ASSUME NEW k \in Calls  PROVE LinesInv(k)'
  BY <1>0, LinesStep
<1>3. ASSUME NEW o \in OrderIds  PROVE FulfilInv(o)'
  BY <1>0, FulfilStep DEF FInv
<1>4. DiscountInv'
  BY <1>0, DiscountStep DEF FInv
<1> QED BY <1>1, <1>2, <1>3, <1>4 DEF FInv

(* FInv holds in every reachable state.                                    *)
THEOREM FulfilmentInvariance == Spec => []FInv
<1>1. Init => FInv
  BY FulfilmentInit
<1>2. FInv /\ [Next]_vars => FInv'
  BY FulfilmentStep
<1> QED BY <1>1, <1>2, PTL DEF Spec

(* Work left undone is the work of a fault: once the call that recorded a  *)
(* payment has answered and nothing failed, every line the order still has *)
(* was taken from the inventory once and each follow-up job was queued     *)
(* exactly once, whatever ran beside it (order.py:532-543).                *)
THEOREM PaidOrdersAreFulfilledCorrect == Spec => []PaidOrdersAreFulfilled
<1>1. FInv => PaidOrdersAreFulfilled
  <2> SUFFICES ASSUME FInv, NEW o \in OrderIds, faults = 0, payer[o] # None,
                      pc[payer[o]] \in Finished
               PROVE  /\ \A v \in LinesOf(o) : deducted[o][v] = 1
                      /\ \A f \in FollowUps : jobs[o][f] = 1
    BY DEF PaidOrdersAreFulfilled
  <2>1. pc[payer[o]] \notin Owing
    BY DEF Finished, Owing, Deducting
  <2> QED BY <2>1 DEF FInv, FulfilInv, Taken
<1> QED BY <1>1, FulfilmentInvariance, PTL

(* The coupon is counted before an order takes its discount, so however    *)
(* many calls place orders at once there are never more discounts than     *)
(* counted uses (order.py:156-186, coupon.py:157-177).                     *)
THEOREM EveryDiscountIsCountedCorrect == Spec => []EveryDiscountIsCounted
<1>1. FInv => EveryDiscountIsCounted
  <2> SUFFICES ASSUME FInv  PROVE Cardinality(Discounted) <= uses
    BY DEF EveryDiscountIsCounted, Discounted
  <2>1. Cardinality(Discounted) \in Nat /\ Cardinality(Discounting) \in Nat
    BY FS_CardinalityType DEF FInv, DiscountInv
  <2> QED BY <2>1 DEF FInv, DiscountInv, IInv, TypeOK
<1> QED BY <1>1, FulfilmentInvariance, PTL
-----------------------------------------------------------------------------
(* Checkout implements OrderLifecycle.  The refinement mapping, order by   *)
(* order.                                                                  *)

StageOf(o) == IF Paid(o) THEN "paid" ELSE IF Placed(o) THEN "open"
              ELSE order[o].stage
TakenOf(o) == {v \in Variants : deducted[o][v] = 1}
RequestedOf(o) == {f \in FollowUps : jobs[o][f] = 1}

Stages == [o \in OrderIds |-> StageOf(o)]
Takens == [o \in OrderIds |-> TakenOf(o)]
Requesteds == [o \in OrderIds |-> RequestedOf(o)]

StageSame == \A p \in OrderIds : StageOf(p)' = StageOf(p)
TakenSame == \A p \in OrderIds : TakenOf(p)' = TakenOf(p)
RequestedSame == \A p \in OrderIds : RequestedOf(p)' = RequestedOf(p)

LEMMA SameStages == ASSUME StageSame PROVE Stages' = Stages
BY DEF Stages, StageSame

LEMMA SameTakens == ASSUME TakenSame PROVE Takens' = Takens
BY DEF Takens, TakenSame

LEMMA SameRequesteds == ASSUME RequestedSame PROVE Requesteds' = Requesteds
BY DEF Requesteds, RequestedSame

LEMMA KeepsStage ==
  ASSUME NEW p \in OrderIds, Keeps(p)
  PROVE  StageOf(p)' = StageOf(p)
BY DEF Keeps, StageOf, Paid, Placed

LEMMA OrderKeepsStages == ASSUME UNCHANGED order PROVE StageSame
BY DEF StageSame, StageOf, Paid, Placed

LEMMA DeductedKeepsTakens == ASSUME UNCHANGED deducted PROVE TakenSame
BY DEF TakenSame, TakenOf

LEMMA JobsKeepRequesteds ==
  ASSUME \A p \in OrderIds : \A f \in FollowUps : jobs'[p][f] = jobs[p][f]
  PROVE  RequestedSame
BY DEF RequestedSame, RequestedOf

(* The abstract actions in terms of the mapping.                           *)
LEMMA Stutters ==
  ASSUME StageSame, TakenSame, RequestedSame
  PROVE  UNCHANGED Lifecycle!vars
BY SameStages, SameTakens, SameRequesteds
   DEF Lifecycle!vars, Stages, Takens, Requesteds, StageOf, TakenOf, RequestedOf

LEMMA Moves ==
  ASSUME NEW o \in OrderIds, TakenSame, RequestedSame,
         \A p \in OrderIds \ {o} : StageOf(p)' = StageOf(p),
         \/ StageOf(o) = "none" /\ StageOf(o)' = "open"
         \/ StageOf(o) = "open" /\ StageOf(o)' \in {"paid", "deleted"}
  PROVE  Lifecycle!Next
<1>1. Takens' = Takens /\ Requesteds' = Requesteds
  BY SameTakens, SameRequesteds
<1>2. Stages' = [Stages EXCEPT ![o] = StageOf(o)']
  BY DEF Stages
<1>3. Lifecycle!Place(o) \/ Lifecycle!Pay(o) \/ Lifecycle!Delete(o)
  BY <1>1, <1>2
  DEF Lifecycle!Place, Lifecycle!Pay, Lifecycle!Delete, Stages, Takens,
      Requesteds, StageOf, TakenOf, RequestedOf
<1> QED BY <1>3 DEF Lifecycle!Next

LEMMA Takes ==
  ASSUME NEW o \in OrderIds, NEW v \in Variants, StageSame, RequestedSame,
         StageOf(o) = "paid", v \notin TakenOf(o),
         TakenOf(o)' = TakenOf(o) \union {v},
         \A p \in OrderIds \ {o} : TakenOf(p)' = TakenOf(p)
  PROVE  Lifecycle!Next
<1>1. Stages' = Stages /\ Requesteds' = Requesteds
  BY SameStages, SameRequesteds
<1>2. Takens' = [Takens EXCEPT ![o] = @ \union {v}]
  BY DEF Takens
<1>3. Stages[o] = "paid" /\ v \notin Takens[o]
  BY DEF Stages, Takens
<1>4. Lifecycle!Take(o, v)
  BY <1>1, <1>2, <1>3
  DEF Lifecycle!Take, Stages, Takens, Requesteds, StageOf, TakenOf, RequestedOf
<1> QED BY <1>4 DEF Lifecycle!Next

LEMMA Requests ==
  ASSUME NEW o \in OrderIds, NEW f \in FollowUps, StageSame, TakenSame,
         StageOf(o) = "paid", f \notin RequestedOf(o),
         RequestedOf(o)' = RequestedOf(o) \union {f},
         \A p \in OrderIds \ {o} : RequestedOf(p)' = RequestedOf(p)
  PROVE  Lifecycle!Next
<1>1. Stages' = Stages /\ Takens' = Takens
  BY SameStages, SameTakens
<1>2. Requesteds' = [Requesteds EXCEPT ![o] = @ \union {f}]
  BY DEF Requesteds
<1>3. Stages[o] = "paid" /\ f \notin Requesteds[o]
  BY DEF Stages, Requesteds
<1>4. Lifecycle!Request(o, f)
  BY <1>1, <1>2, <1>3
  DEF Lifecycle!Request, Stages, Takens, Requesteds, StageOf, TakenOf,
      RequestedOf
<1> QED BY <1>4 DEF Lifecycle!Next

-----------------------------------------------------------------------------
(* Every step maps to an abstract step or to none.                         *)

LEMMA CreateOrderMaps ==
  ASSUME IInv, NEW k \in Calls, CreateOrder(k)
  PROVE  Lifecycle!Next \/ UNCHANGED Lifecycle!vars
<1>1. TakenSame /\ RequestedSame
  BY DeductedKeepsTakens, JobsKeepRequesteds DEF CreateOrder, historyVars
<1>2. CASE UNCHANGED order
  BY <1>1, <1>2, OrderKeepsStages, Stutters
<1>3. CASE ~UNCHANGED order
  <2>1. PICK o \in OrderIds :
          /\ order[o].stage = "none"
          /\ order'[o].stage = "placed" /\ order'[o].method = None
          /\ \A p \in OrderIds \ {o} : Keeps(p)
    BY <1>3, CreateOrderRows DEF IInv
  <2>2. StageOf(o) = "none" /\ StageOf(o)' = "open"
    BY <2>1 DEF StageOf, Paid, Placed
  <2>3. \A p \in OrderIds \ {o} : StageOf(p)' = StageOf(p)
    BY <2>1, KeepsStage
  <2> QED BY <1>1, <2>2, <2>3, Moves
<1> QED BY <1>2, <1>3

LEMMA CreatePaymentMaps ==
  ASSUME IInv, NEW k \in Calls, CreatePayment(k)
  PROVE  Lifecycle!Next \/ UNCHANGED Lifecycle!vars
<1>0. TypeOK /\ CallsInv /\ call[k].ord \in OrderIds
  BY DEF IInv, CallsInv, CallInv, CreatePayment
<1>1. TakenSame /\ RequestedSame
  BY DeductedKeepsTakens, JobsKeepRequesteds DEF CreatePayment
<1>2. CASE UNCHANGED order
  BY <1>1, <1>2, OrderKeepsStages, Stutters
<1>3. CASE ~UNCHANGED order
  <2>1. PICK o \in OrderIds :
          /\ Placed(o) /\ order[o].method = None
          /\ order'[o].stage = "placed" /\ order'[o].method # None
          /\ \A p \in OrderIds \ {o} : order'[p] = order[p]
    BY <1>0, <1>3, CreatePaymentEffect
  <2>2. StageOf(o) = "open" /\ StageOf(o)' = "paid"
    BY <2>1 DEF StageOf, Paid, Placed
  <2>3. \A p \in OrderIds \ {o} : StageOf(p)' = StageOf(p)
    BY <2>1 DEF StageOf, Paid, Placed
  <2> QED BY <1>1, <2>2, <2>3, Moves
<1> QED BY <1>2, <1>3

LEMMA DeleteOrderMaps ==
  ASSUME IInv, NEW o \in OrderIds, DeleteOrder(o)
  PROVE  Lifecycle!Next
<1>1. TakenSame /\ RequestedSame
  BY DeductedKeepsTakens, JobsKeepRequesteds DEF DeleteOrder, historyVars
<1>2. StageOf(o) = "open"
  BY DEF DeleteOrder, StageOf
<1>3. StageOf(o)' = "deleted"
  BY DeleteOrderEffect DEF StageOf, Paid, Placed, IInv
<1>4. \A p \in OrderIds \ {o} : StageOf(p)' = StageOf(p)
  BY DeleteOrderEffect DEF StageOf, Paid, Placed, IInv
<1> QED BY <1>1, <1>2, <1>3, <1>4, Moves

LEMMA WriteVariantMaps ==
  ASSUME IInv, NEW k \in Calls, WriteVariant(k)
  PROVE  Lifecycle!Next
<1>0. /\ TypeOK /\ CallsInv /\ PaymentInv /\ OwesInv(k)
      /\ pc[k] = "deducting" /\ call[k].item \in Variants
  BY DEF IInv, CallsInv, CallInv, WriteVariant
<1>1. PICK o \in OrderIds : call[k].ord = o /\ Paid(o)
  BY <1>0, OwingMeansPaid DEF Owing, Deducting
<1>2. PICK v \in Variants : call[k].item = v
  BY <1>0
<1>3. \A p \in OrderIds, w \in Variants :
        deducted'[p][w] = IF p = o /\ w = v THEN deducted[p][w] + 1
                                           ELSE deducted[p][w]
  BY <1>0, <1>1, <1>2, WriteVariantEffect
<1>4. deducted[o][v] = 0 /\ deducted'[o][v] = 1
  <2>1. deducted[o][v] = 0
    BY <1>0, <1>1, <1>2 DEF OwesInv, Deducting
  <2> QED BY <1>3, <2>1
<1>5. StageSame /\ RequestedSame
  <2>1. UNCHANGED <<order, jobs>>
    BY DEF WriteVariant
  <2> QED BY <2>1, OrderKeepsStages, JobsKeepRequesteds
<1>6. v \notin TakenOf(o) /\ TakenOf(o)' = TakenOf(o) \union {v}
  BY <1>3, <1>4 DEF TakenOf
<1>7. \A p \in OrderIds \ {o} : TakenOf(p)' = TakenOf(p)
  BY <1>3 DEF TakenOf
<1>8. StageOf(o) = "paid"
  BY <1>1 DEF StageOf
<1> QED BY <1>5, <1>6, <1>7, <1>8, Takes

LEMMA QueueMaps ==
  ASSUME IInv, NEW k \in Calls, QueueReferral(k) \/ QueueInvoice(k)
  PROVE  Lifecycle!Next
<1>0. /\ TypeOK /\ CallsInv /\ PaymentInv /\ OwesInv(k)
      /\ pc[k] \in {"deduct", "invoice"}
  BY DEF IInv, QueueReferral, QueueInvoice
<1>1. PICK o \in OrderIds : call[k].ord = o /\ Paid(o)
  BY <1>0, OwingMeansPaid DEF Owing, Deducting
<1>2. PICK f \in FollowUps :
        /\ jobs[o][f] = 0
        /\ \A p \in OrderIds : \A g \in FollowUps :
             jobs'[p][g] = IF p = o /\ g = f THEN jobs[p][g] + 1 ELSE jobs[p][g]
  <2>1. CASE QueueReferral(k)
    <3>1. jobs[o]["process_referral"] = 0
      BY <1>0, <1>1, <2>1 DEF QueueReferral, OwesInv, Deducting, FollowUps
    <3>2. \A p \in OrderIds : \A g \in FollowUps :
            jobs'[p][g] = IF p = o /\ g = "process_referral"
                            THEN jobs[p][g] + 1 ELSE jobs[p][g]
      BY <1>0, <1>1, <2>1, QueueEffect
    <3> QED BY <3>1, <3>2 DEF FollowUps
  <2>2. CASE QueueInvoice(k)
    <3>1. jobs[o]["generate_and_send_invoice"] = 0
      BY <1>0, <1>1, <2>2 DEF QueueInvoice, OwesInv
    <3>2. \A p \in OrderIds : \A g \in FollowUps :
            jobs'[p][g] = IF p = o /\ g = "generate_and_send_invoice"
                            THEN jobs[p][g] + 1 ELSE jobs[p][g]
      BY <1>0, <1>1, <2>2, QueueEffect
    <3> QED BY <3>1, <3>2 DEF FollowUps
  <2> QED BY <2>1, <2>2
<1>3. jobs'[o][f] = 1
  BY <1>2
<1>4. StageSame /\ TakenSame
  <2>1. UNCHANGED <<order, deducted>>
    BY DEF QueueReferral, QueueInvoice, historyVars
  <2> QED BY <2>1, OrderKeepsStages, DeductedKeepsTakens
<1>5. f \notin RequestedOf(o) /\ RequestedOf(o)' = RequestedOf(o) \union {f}
  BY <1>2, <1>3 DEF RequestedOf
<1>6. \A p \in OrderIds \ {o} : RequestedOf(p)' = RequestedOf(p)
  BY <1>2 DEF RequestedOf
<1>7. StageOf(o) = "paid"
  BY <1>1 DEF StageOf
<1> QED BY <1>4, <1>5, <1>6, <1>7, Requests

LEMMA RestMaps ==
  ASSUME IInv, NEW k \in Calls,
         MarkPaid(k) \/ SetStatus(k) \/ CommitReturn(k) \/ QueueCreated(k)
  PROVE  UNCHANGED Lifecycle!vars
<1>0. TypeOK /\ CallsInv
  BY DEF IInv
<1>1. CASE QueueCreated(k)
  <2>1. UNCHANGED <<order, deducted>>
    BY <1>1 DEF QueueCreated, historyVars
  <2>2. \A p \in OrderIds : \A f \in FollowUps : jobs'[p][f] = jobs[p][f]
    BY <1>0, <1>1, QueueEffect
  <2> QED BY <2>1, <2>2, OrderKeepsStages, DeductedKeepsTakens,
             JobsKeepRequesteds, Stutters
<1>2. CASE MarkPaid(k) \/ SetStatus(k) \/ CommitReturn(k)
  <2>1. UNCHANGED <<jobs, deducted>>
    BY <1>2 DEF MarkPaid, SetStatus, CommitReturn, historyVars
  <2>2. StageSame
    BY <1>0, <1>2, StatusEffect, KeepsStage DEF StageSame
  <2> QED BY <2>1, <2>2, DeductedKeepsTakens, JobsKeepRequesteds, Stutters
<1> QED BY <1>1, <1>2

LEMMA StepMaps ==
  ASSUME IInv, [Next]_vars
  PROVE  Lifecycle!Next \/ UNCHANGED Lifecycle!vars
<1>0. TypeOK /\ CallsInv
  BY DEF IInv
<1>1. ASSUME UNCHANGED <<order, jobs, deducted>>
      PROVE  UNCHANGED Lifecycle!vars
  BY <1>1, OrderKeepsStages, DeductedKeepsTakens, JobsKeepRequesteds, Stutters
<1>2. ASSUME NEW k \in Calls,
             \/ Request(k) \/ Step(k) \/ Abort(k)
             \/ \E v \in Variants : SkipItem(k, v)
      PROVE  Lifecycle!Next \/ UNCHANGED Lifecycle!vars
  <2>1. CASE QuietStep(k)
    BY <1>1, <2>1, QuietFrame
  <2>2. CASE CreateOrder(k)
    BY <2>2, CreateOrderMaps
  <2>3. CASE CreatePayment(k)
    BY <2>3, CreatePaymentMaps
  <2>4. CASE WriteVariant(k)
    BY <2>4, WriteVariantMaps
  <2>5. CASE QueueReferral(k) \/ QueueInvoice(k)
    BY <2>5, QueueMaps
  <2>6. CASE MarkPaid(k) \/ SetStatus(k) \/ CommitReturn(k) \/ QueueCreated(k)
    BY <2>6, RestMaps
  <2> QED BY <1>2, <2>1, <2>2, <2>3, <2>4, <2>5, <2>6 DEF Step, QuietStep
<1>3. ASSUME NEW o \in OrderIds,
             DeleteOrder(o) \/ ProcessCreated(o) \/ LoseJob(o)
      PROVE  Lifecycle!Next \/ UNCHANGED Lifecycle!vars
  <2>1. CASE DeleteOrder(o)
    BY <2>1, DeleteOrderMaps
  <2>2. CASE ProcessCreated(o)
    BY <1>1, <2>2 DEF ProcessCreated, historyVars
  <2>3. CASE LoseJob(o)
    <3>1. UNCHANGED <<order, deducted>>
      BY <2>3 DEF LoseJob, historyVars
    <3>2. \A p \in OrderIds : \A f \in FollowUps : jobs'[p][f] = jobs[p][f]
      BY <1>0, <2>3, QueueEffect
    <3> QED BY <3>1, <3>2, OrderKeepsStages, DeductedKeepsTakens,
               JobsKeepRequesteds, Stutters
  <2> QED BY <1>3, <2>1, <2>2, <2>3
<1>4. UNCHANGED vars => UNCHANGED <<order, jobs, deducted>>
  BY DEF vars
<1> QED BY <1>1, <1>2, <1>3, <1>4 DEF Next, AllAnswered

LEMMA InitMaps == ASSUME Init PROVE Lifecycle!Init
<1>1. \A o \in OrderIds : order[o] = NoOrder /\ deducted[o] = NoLines
                          /\ jobs[o] = [j \in JobNames |-> 0]
  BY DEF Init
<1>2. ASSUME NEW o \in OrderIds
      PROVE  StageOf(o) = "none" /\ TakenOf(o) = {} /\ RequestedOf(o) = {}
  <2>1. StageOf(o) = "none"
    BY <1>1 DEF StageOf, Paid, Placed, NoOrder
  <2>2. TakenOf(o) = {}
    BY <1>1 DEF TakenOf, NoLines
  <2>3. RequestedOf(o) = {}
    BY <1>1 DEF RequestedOf, FollowUps, JobNames
  <2> QED BY <2>1, <2>2, <2>3
<1> QED BY <1>2 DEF Lifecycle!Init, StageOf, TakenOf, RequestedOf

(* Whatever calls, jobs and faults interleave, one order lives as          *)
(* OrderLifecycle says: placed once, paid at most once, never deleted or   *)
(* unpaid once it is paid, each effect of its payment at most once and     *)
(* only after it (order.py:498-545, routes/order.py:98-106).               *)
THEOREM LifecycleRefined == Spec => ImplementsLifecycle
<1>1. Init => Lifecycle!Init
  BY InitMaps
<1>2. IInv /\ [Next]_vars => [Lifecycle!Next]_(Lifecycle!vars)
  BY StepMaps
<1> QED BY <1>1, <1>2, Invariance, PTL
        DEF Spec, ImplementsLifecycle, Lifecycle!Spec
=============================================================================
