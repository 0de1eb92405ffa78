---------------------------- MODULE PagesProofs ----------------------------
(***************************************************************************)
(* Pages for every value of its constants: what the prompt for             *)
(* notifications stores, what the forms save and the edge keeps, the       *)
(* gallery's selection and uploads, and the types of the last two.         *)
(***************************************************************************)
EXTENDS Pages, FiniteSetTheorems, WellFoundedInduction, TLAPS

(* The part that runs is chosen at the beginning, and the steps of the     *)
(* others are not taken.                                                   *)
LEMMA PartKept ==
  ASSUME [Next]_vars
  PROVE  /\ part' = part
         /\ part = "form" => Form!Next \/ UNCHANGED vars
         /\ part = "gallery" => Gallery!Next \/ UNCHANGED vars
         /\ part = "prompt" => Prompt!Next \/ UNCHANGED vars
BY DEF Next, InChat, InGallery, InForm, InFilters, InProduct, InPrompt,
       InSignIn, vars

-----------------------------------------------------------------------------
(* The prompt for notifications.                                           *)

(* A call that waits for an answer has been served, and one that asks has  *)
(* a key to ask with; no subscription is known that the backend has not.   *)
PromptCall(x) ==
  /\ x \in Prompt!Call
  /\ x.pc \in {"request", "answer"} => x.key \in 1..MaxKeys
  /\ x.pc = "answer" => x.key \in table
Ui == [permission : Prompt!Permissions, dismissed : BOOLEAN, delayed : BOOLEAN,
       known : BOOLEAN, checking : BOOLEAN, syncing : BOOLEAN]
StorageInv == /\ storage \in [synced : BOOLEAN, keys : 0..MaxKeys, later : BOOLEAN]
              /\ storage.synced => storage.keys \in table
BrowserInv == perm \in Prompt!Permissions /\ sub \in 0..MaxKeys /\ made \in 0..MaxKeys
UiInv == /\ ui \in Ui /\ effect \in BOOLEAN
         /\ listener \in [checking : BOOLEAN, syncing : BOOLEAN]
BoundsInv == acts \in 0..PromptActs /\ faults \in 0..PromptFaults
PromptInv == /\ BrowserInv /\ table \subseteq 1..MaxKeys /\ StorageInv /\ UiInv
             /\ PromptCall(check) /\ PromptCall(subscribing) /\ BoundsInv

LEMMA PromptBounds ==
  MaxKeys \in Nat /\ PromptActs \in Nat /\ PromptFaults \in Nat
BY PagesAssumption

LEMMA UiTypes ==
  ASSUME NEW u \in Ui
  PROVE  /\ \A b \in BOOLEAN : /\ [u EXCEPT !.checking = b] \in Ui
                               /\ [u EXCEPT !.syncing = b] \in Ui
                               /\ [u EXCEPT !.known = b] \in Ui
                               /\ [u EXCEPT !.delayed = b] \in Ui
                               /\ [u EXCEPT !.dismissed = b] \in Ui
         /\ \A p \in Prompt!Permissions : [u EXCEPT !.permission = p] \in Ui
         /\ u.checking \in BOOLEAN /\ u.syncing \in BOOLEAN /\ u.known \in BOOLEAN
         /\ u.permission \in Prompt!Permissions
BY DEF Ui

LEMMA CallTypes ==
  /\ Prompt!Idle \in Prompt!Call /\ Prompt!Idle.pc = "idle"
  /\ \A x \in Prompt!Call :
       /\ x.key \in 0..MaxKeys
       /\ \A p \in {"idle", "permission", "subscription", "request", "answer",
                    "refused"} :
            /\ [x EXCEPT !.pc = p] \in Prompt!Call
            /\ [x EXCEPT !.pc = p].pc = p
            /\ [x EXCEPT !.pc = p].key = x.key
<1>1. Prompt!Idle \in Prompt!Call /\ Prompt!Idle.pc = "idle"
  BY PromptBounds DEF Prompt!Idle, Prompt!Call
<1>2. ASSUME NEW x \in Prompt!Call,
             NEW p \in {"idle", "permission", "subscription", "request", "answer",
                        "refused"}
      PROVE  /\ [x EXCEPT !.pc = p] \in Prompt!Call
             /\ [x EXCEPT !.pc = p].pc = p
             /\ [x EXCEPT !.pc = p].key = x.key
  BY DEF Prompt!Call
<1>3. \A x \in Prompt!Call : x.key \in 0..MaxKeys
  BY DEF Prompt!Call
<1> QED BY <1>1, <1>2, <1>3

(* Between calls, and once it is refused, a call claims nothing.           *)
LEMMA RestingCall ==
  ASSUME NEW x \in Prompt!Call, x.pc \notin {"request", "answer"}
  PROVE  PromptCall(x)
BY DEF PromptCall

LEMMA SyncOf ==
  ASSUME NEW x \in Prompt!Call, NEW k \in 1..MaxKeys
  PROVE  PromptCall(Prompt!Sync(x, k))
<1>1. CASE x.syncing
  <2>1. /\ [Prompt!Idle EXCEPT !.pc = "refused"] \in Prompt!Call
        /\ [Prompt!Idle EXCEPT !.pc = "refused"].pc = "refused"
    BY CallTypes
  <2> QED BY <1>1, <2>1 DEF PromptCall, Prompt!Sync
<1>2. CASE ~x.syncing
  <2> DEFINE y == [x EXCEPT !.pc = "request"]
             z == [y EXCEPT !.key = k]
  <2>1. y \in Prompt!Call /\ y.pc = "request"
    BY CallTypes
  <2>2. Prompt!Sync(x, k) = z
    BY <1>2 DEF Prompt!Sync
  <2> HIDE DEF y
  <2>3. z \in Prompt!Call /\ z.pc = "request" /\ z.key = k
    BY <2>1, PromptBounds DEF Prompt!Call
  <2> QED BY <2>2, <2>3 DEF PromptCall
<1> QED BY <1>1, <1>2

LEMMA BecomesOf ==
  ASSUME UiInv, NEW new \in Ui, Prompt!Becomes(new), UNCHANGED listener
  PROVE  UiInv'
BY DEF UiInv, Prompt!Becomes

(* What a call may claim stays true as long as the table only grows.       *)
LEMMA CallKeeps ==
  ASSUME NEW x, PromptCall(x), table \subseteq table'
  PROVE  PromptCall(x) /\ (x.pc = "answer" => x.key \in table')
BY DEF PromptCall

LEMMA PromptInit == ASSUME Prompt!Init PROVE PromptInv
<1> USE PromptBounds
<1>1. PromptCall(check) /\ PromptCall(subscribing)
  BY CallTypes DEF Prompt!Init, PromptCall
<1>2. BrowserInv
  BY DEF Prompt!Init, BrowserInv, Prompt!Permissions
<1>3. StorageInv
  BY DEF Prompt!Init, StorageInv
<1>4. UiInv
  BY DEF Prompt!Init, UiInv, Ui, Prompt!Mounted, Prompt!Fresh, Prompt!Permissions
<1>5. BoundsInv /\ table \subseteq 1..MaxKeys
  BY DEF Prompt!Init, BoundsInv
<1> QED BY <1>1, <1>2, <1>3, <1>4, <1>5 DEF PromptInv

(* The check begins, when none is running that the effect knows of.        *)
LEMMA StartOf ==
  ASSUME UiInv, NEW flags \in [checking : BOOLEAN, syncing : BOOLEAN],
         PromptCall(check), Prompt!Start(flags)
  PROVE  /\ ui' \in Ui /\ effect' \in BOOLEAN
         /\ check' = check \/ (check'.pc = "subscription" /\ check' \in Prompt!Call)
<1>1. CASE flags.checking
  BY <1>1 DEF Prompt!Start, UiInv
<1>2. CASE ~flags.checking
  <2>1. /\ check' = [pc |-> "subscription", key |-> 0, syncing |-> flags.syncing]
        /\ ui' = [ui EXCEPT !.checking = TRUE] /\ effect' = TRUE
    BY <1>2 DEF Prompt!Start
  <2>2. ui' \in Ui
    BY <2>1, UiTypes DEF UiInv
  <2>3. check' \in Prompt!Call /\ check'.pc = "subscription"
    BY <2>1, PromptBounds DEF Prompt!Call
  <2> QED BY <2>1, <2>2, <2>3
<1> QED BY <1>1, <1>2

LEMMA RunEffectStep == ASSUME PromptInv, Prompt!RunEffect PROVE PromptInv'
<1> USE DEF PromptInv
<1>1. listener' \in [checking : BOOLEAN, syncing : BOOLEAN]
  BY UiTypes DEF UiInv, Prompt!RunEffect
<1>2. /\ ui' \in Ui /\ effect' \in BOOLEAN
      /\ check' = check \/ (check'.pc = "subscription" /\ check' \in Prompt!Call)
  <2>1. CASE ui.permission = "granted"
    <3>1. Prompt!Start(listener')
      BY <2>1 DEF Prompt!RunEffect
    <3> DEFINE l == listener'
    <3> HIDE DEF l
    <3> QED BY <1>1, <3>1, StartOf DEF l
  <2>2. CASE ui.permission # "granted"
    BY <2>2 DEF Prompt!RunEffect, UiInv
  <2> QED BY <2>1, <2>2
<1>3. UNCHANGED <<perm, sub, made, table, storage, subscribing, acts, faults>>
  BY DEF Prompt!RunEffect, Prompt!browser
<1> QED BY <1>1, <1>2, <1>3 DEF BrowserInv, StorageInv, UiInv, PromptCall, BoundsInv

LEMMA PromptShownStep == ASSUME PromptInv, Prompt!Shown PROVE PromptInv'
<1> USE DEF PromptInv
<1>1. listener \in [checking : BOOLEAN, syncing : BOOLEAN]
  BY DEF UiInv
<1>2. /\ ui' \in Ui /\ effect' \in BOOLEAN
      /\ check' = check \/ (check'.pc = "subscription" /\ check' \in Prompt!Call)
  BY <1>1, StartOf DEF Prompt!Shown
<1>3. BoundsInv'
  BY PromptBounds DEF Prompt!Shown, BoundsInv, Prompt!Act
<1>4. UNCHANGED <<perm, sub, made, table, storage, listener, subscribing>>
  BY DEF Prompt!Shown, Prompt!browser
<1> QED BY <1>2, <1>3, <1>4 DEF BrowserInv, StorageInv, UiInv, PromptCall

LEMMA CheckSubscriptionStep ==
  ASSUME PromptInv, Prompt!CheckSubscription PROVE PromptInv'
<1> USE DEF PromptInv
<1>1. UNCHANGED <<perm, sub, made, table, storage, listener, subscribing, acts, faults>>
  BY DEF Prompt!CheckSubscription, Prompt!browser
<1>2. CASE sub # 0 /\ (Prompt!HasChanged \/ ~storage.synced)
  <2>1. sub \in 1..MaxKeys /\ check \in Prompt!Call
    BY <1>2, PromptBounds DEF BrowserInv, PromptCall
  <2>2. check' = Prompt!Sync(check, sub) /\ Prompt!Becomes(Prompt!Asks(check'))
    BY <1>2 DEF Prompt!CheckSubscription
  <2>3. PromptCall(Prompt!Sync(check, sub))
    BY <2>1, SyncOf
  <2>4. UiInv'
    <3>1. Prompt!Asks(check') \in Ui
      BY UiTypes DEF Prompt!Asks, UiInv
    <3> QED BY <1>1, <2>2, <3>1, BecomesOf
  <2> QED BY <1>1, <2>2, <2>3, <2>4
          DEF BrowserInv, StorageInv, PromptCall, BoundsInv
<1>3. CASE ~(sub # 0 /\ (Prompt!HasChanged \/ ~storage.synced))
  <2> DEFINE new == [ui EXCEPT !.checking = FALSE, !.known = @ \/ sub # 0]
  <2>1. check' = Prompt!Idle /\ Prompt!Becomes(new)
    BY <1>3 DEF Prompt!CheckSubscription
  <2>2. new \in Ui
    BY DEF UiInv, Ui
  <2> HIDE DEF new
  <2>3. UiInv'
    BY <1>1, <2>1, <2>2, BecomesOf
  <2> QED BY <1>1, <2>1, <2>3, CallTypes
          DEF BrowserInv, StorageInv, PromptCall, BoundsInv
<1> QED BY <1>2, <1>3

LEMMA SubscribeStep == ASSUME PromptInv, Prompt!Subscribe PROVE PromptInv'
<1> USE DEF PromptInv
<1>1. UNCHANGED <<perm, table, storage, listener, check, acts, faults>>
  BY DEF Prompt!Subscribe
<1>2. sub' \in 1..MaxKeys /\ made' \in 0..MaxKeys
  BY PromptBounds DEF Prompt!Subscribe, BrowserInv
<1>3. subscribing' = Prompt!Sync(subscribing, sub')
  BY DEF Prompt!Subscribe
<1>4. PromptCall(subscribing)'
  <2> DEFINE k == sub'
  <2>1. k \in 1..MaxKeys /\ subscribing \in Prompt!Call /\ subscribing' = Prompt!Sync(subscribing, k)
    BY <1>2, <1>3 DEF PromptCall
  <2> HIDE DEF k
  <2>2. PromptCall(Prompt!Sync(subscribing, k))
    BY <2>1, SyncOf
  <2> QED BY <1>1, <2>1, <2>2 DEF PromptCall
<1>5. UiInv'
  <2>1. Prompt!Asks(subscribing') \in Ui /\ Prompt!Becomes(Prompt!Asks(subscribing'))
    BY UiTypes DEF Prompt!Subscribe, Prompt!Asks, UiInv
  <2> QED BY <1>1, <2>1, BecomesOf
<1> QED BY <1>1, <1>2, <1>4, <1>5 DEF BrowserInv, StorageInv, PromptCall, BoundsInv

(* What leaves the table as it is leaves a call's claim.                   *)
LEMMA IdleClaims == PromptCall(Prompt!Idle)
BY CallTypes DEF PromptCall

LEMMA SubscribeFailsStep == ASSUME PromptInv, Prompt!SubscribeFails PROVE PromptInv'
<1> USE DEF PromptInv
<1>1. UNCHANGED <<perm, sub, made, table, storage, ui, effect, listener, check, acts>>
  BY DEF Prompt!SubscribeFails, Prompt!browser
<1>2. subscribing' = Prompt!Idle
  BY DEF Prompt!SubscribeFails
<1>3. BoundsInv'
  BY PromptBounds DEF Prompt!SubscribeFails, BoundsInv, Prompt!Fault
<1>4. Prompt!Idle.pc = "idle" /\ Prompt!Idle \in Prompt!Call
  BY CallTypes
<1> QED BY <1>1, <1>2, <1>3, <1>4 DEF BrowserInv, StorageInv, UiInv, PromptCall

(* The request of either call.                                             *)
LEMMA ServeOf ==
  ASSUME PromptInv, NEW x, PromptCall(x), Prompt!Serve(x), UNCHANGED faults
  PROVE  /\ BrowserInv' /\ table' \subseteq 1..MaxKeys /\ StorageInv' /\ UiInv' /\ BoundsInv'
         /\ table \subseteq table'
         /\ [x EXCEPT !.pc = "answer"] \in Prompt!Call
         /\ [x EXCEPT !.pc = "answer"].pc = "answer"
         /\ [x EXCEPT !.pc = "answer"].key \in 1..MaxKeys
         /\ [x EXCEPT !.pc = "answer"].key \in table'
<1> USE DEF PromptInv
<1>1. UNCHANGED <<perm, sub, made, storage, ui, effect, listener, acts, faults>>
  BY DEF Prompt!Serve, Prompt!browser
<1>2. x \in Prompt!Call /\ x.key \in 1..MaxKeys /\ table' = table \cup {x.key}
  BY DEF PromptCall, Prompt!Serve
<1>3. /\ [x EXCEPT !.pc = "answer"] \in Prompt!Call
      /\ [x EXCEPT !.pc = "answer"].pc = "answer"
      /\ [x EXCEPT !.pc = "answer"].key = x.key
  BY <1>2, CallTypes
<1> QED BY <1>1, <1>2, <1>3 DEF BrowserInv, StorageInv, UiInv, BoundsInv

LEMMA FailOf ==
  ASSUME PromptInv, NEW x, PromptCall(x), Prompt!Refuse(x) \/ Prompt!Lose(x)
  PROVE  /\ BrowserInv' /\ table' = table /\ StorageInv' /\ UiInv' /\ BoundsInv'
         /\ [x EXCEPT !.pc = "refused"] \in Prompt!Call
         /\ [x EXCEPT !.pc = "refused"].pc = "refused"
<1> USE DEF PromptInv
<1>1. UNCHANGED <<perm, sub, made, table, storage, ui, effect, listener, acts>>
  BY DEF Prompt!Refuse, Prompt!Lose, Prompt!browser
<1>2. faults' \in 0..PromptFaults
  BY PromptBounds DEF Prompt!Refuse, Prompt!Lose, Prompt!Fault, BoundsInv
<1>3. x \in Prompt!Call
  BY DEF PromptCall
<1> QED BY <1>1, <1>2, <1>3, CallTypes DEF BrowserInv, StorageInv, UiInv, BoundsInv

(* The answer was the backend's, so that the keys it stores are in its     *)
(* table.                                                                  *)
LEMMA SyncedOf ==
  ASSUME PromptInv, NEW x, PromptCall(x), Prompt!Synced(x)
  PROVE  /\ UNCHANGED <<table, listener>> /\ BrowserInv' /\ StorageInv' /\ BoundsInv'
<1> USE DEF PromptInv
<1>1. UNCHANGED <<perm, sub, made, table, listener, acts, faults>>
  BY DEF Prompt!Synced, Prompt!browser
<1>2. x.key \in table /\ x.key \in 0..MaxKeys
  BY PromptBounds DEF PromptCall, Prompt!Synced
<1>3. storage' = [storage EXCEPT !.keys = x.key, !.synced = TRUE]
  BY DEF Prompt!Synced
<1>4. StorageInv'
  BY <1>1, <1>2, <1>3 DEF StorageInv
<1> QED BY <1>1, <1>4 DEF BrowserInv, BoundsInv

LEMMA EndedOf ==
  ASSUME PromptInv, NEW x, Prompt!Ended(x)
  PROVE  /\ UNCHANGED <<table, listener>> /\ BrowserInv' /\ StorageInv' /\ BoundsInv'
BY DEF PromptInv, Prompt!Ended, Prompt!browser, BrowserInv, StorageInv, BoundsInv

LEMMA FreeTypes == ASSUME NEW x, NEW u \in Ui, u = ui PROVE Prompt!Free(x) \in BOOLEAN
BY UiTypes DEF Prompt!Free

LEMMA OfCheckStep == ASSUME PromptInv, Prompt!OfCheck PROVE PromptInv'
<1> USE DEF PromptInv
<1>0. ui \in Ui /\ PromptCall(check) /\ PromptCall(subscribing) /\ Prompt!Free(check) \in BOOLEAN
  BY FreeTypes DEF UiInv
<1>1. CASE Prompt!Serve(check) /\ check' = [check EXCEPT !.pc = "answer"] /\ UNCHANGED <<subscribing, faults>>
  <2>1. PromptCall(check)'
    BY <1>0, <1>1, ServeOf DEF PromptCall
  <2>2. PromptCall(subscribing)'
    BY <1>0, <1>1, ServeOf DEF PromptCall
  <2> QED BY <1>0, <1>1, <2>1, <2>2, ServeOf
<1>2. CASE (Prompt!Refuse(check) \/ Prompt!Lose(check)) /\ check' = [check EXCEPT !.pc = "refused"]
           /\ UNCHANGED subscribing
  BY <1>0, <1>2, FailOf DEF PromptCall
<1>3. CASE /\ Prompt!Synced(check) /\ check' = Prompt!Idle /\ UNCHANGED subscribing
           /\ Prompt!Becomes([ui EXCEPT !.checking = FALSE, !.syncing = Prompt!Free(check), !.known = TRUE])
  <2> DEFINE new == [ui EXCEPT !.checking = FALSE, !.syncing = Prompt!Free(check), !.known = TRUE]
  <2>1. new \in Ui
    BY <1>0 DEF Ui
  <2>2. Prompt!Becomes(new)
    BY <1>3
  <2> HIDE DEF new
  <2>3. UiInv'
    BY <1>0, <1>3, <2>1, <2>2, SyncedOf, BecomesOf
  <2>4. /\ UNCHANGED <<table, listener>> /\ BrowserInv' /\ StorageInv' /\ BoundsInv'
    BY <1>0, <1>3, SyncedOf
  <2> QED BY <1>0, <1>3, <2>3, <2>4, CallTypes DEF PromptCall
<1>4. CASE /\ Prompt!Ended(check) /\ check' = Prompt!Idle /\ UNCHANGED subscribing
           /\ Prompt!Becomes([ui EXCEPT !.checking = FALSE, !.syncing = Prompt!Free(check)])
  <2> DEFINE new == [ui EXCEPT !.checking = FALSE, !.syncing = Prompt!Free(check)]
  <2>1. new \in Ui
    BY <1>0 DEF Ui
  <2>2. Prompt!Becomes(new)
    BY <1>4
  <2> HIDE DEF new
  <2>3. UiInv'
    BY <1>0, <1>4, <2>1, <2>2, EndedOf, BecomesOf
  <2>4. /\ UNCHANGED <<table, listener>> /\ BrowserInv' /\ StorageInv' /\ BoundsInv'
    BY <1>0, <1>4, EndedOf
  <2> QED BY <1>0, <1>4, <2>3, <2>4, CallTypes DEF PromptCall
<1> QED BY <1>1, <1>2, <1>3, <1>4 DEF Prompt!OfCheck

LEMMA OfSubscribingStep == ASSUME PromptInv, Prompt!OfSubscribing PROVE PromptInv'
<1> USE DEF PromptInv
<1>0. ui \in Ui /\ PromptCall(check) /\ PromptCall(subscribing) /\ Prompt!Free(subscribing) \in BOOLEAN
  BY FreeTypes DEF UiInv
<1>1. CASE Prompt!Serve(subscribing) /\ subscribing' = [subscribing EXCEPT !.pc = "answer"]
           /\ UNCHANGED <<check, faults>>
  <2>1. PromptCall(subscribing)'
    BY <1>0, <1>1, ServeOf DEF PromptCall
  <2>2. PromptCall(check)'
    BY <1>0, <1>1, ServeOf DEF PromptCall
  <2> QED BY <1>0, <1>1, <2>1, <2>2, ServeOf
<1>2. CASE (Prompt!Refuse(subscribing) \/ Prompt!Lose(subscribing))
           /\ subscribing' = [subscribing EXCEPT !.pc = "refused"] /\ UNCHANGED check
  BY <1>0, <1>2, FailOf DEF PromptCall
<1>3. CASE /\ Prompt!Synced(subscribing) /\ subscribing' = Prompt!Idle /\ UNCHANGED check
           /\ Prompt!Becomes([ui EXCEPT !.syncing = Prompt!Free(subscribing), !.known = TRUE])
  <2> DEFINE new == [ui EXCEPT !.syncing = Prompt!Free(subscribing), !.known = TRUE]
  <2>1. new \in Ui
    BY <1>0 DEF Ui
  <2>2. Prompt!Becomes(new)
    BY <1>3
  <2> HIDE DEF new
  <2>3. UiInv'
    BY <1>0, <1>3, <2>1, <2>2, SyncedOf, BecomesOf
  <2>4. /\ UNCHANGED <<table, listener>> /\ BrowserInv' /\ StorageInv' /\ BoundsInv'
    BY <1>0, <1>3, SyncedOf
  <2> QED BY <1>0, <1>3, <2>3, <2>4, CallTypes DEF PromptCall
<1>4. CASE /\ Prompt!Ended(subscribing) /\ subscribing' = Prompt!Idle /\ UNCHANGED check
           /\ Prompt!Becomes([ui EXCEPT !.syncing = Prompt!Free(subscribing)])
  <2> DEFINE new == [ui EXCEPT !.syncing = Prompt!Free(subscribing)]
  <2>1. new \in Ui /\ Prompt!Becomes(new)
    BY <1>0, <1>4 DEF Ui
  <2> HIDE DEF new
  <2>3. UiInv'
    BY <1>0, <1>4, <2>1, EndedOf, BecomesOf
  <2>4. /\ UNCHANGED <<table, listener>> /\ BrowserInv' /\ StorageInv' /\ BoundsInv'
    BY <1>0, <1>4, EndedOf
  <2> QED BY <1>0, <1>4, <2>3, <2>4, CallTypes DEF PromptCall
<1> QED BY <1>1, <1>2, <1>3, <1>4 DEF Prompt!OfSubscribing

LEMMA OptInStep == ASSUME PromptInv, Prompt!OptIn PROVE PromptInv'
<1> USE DEF PromptInv
<1>1. UNCHANGED <<perm, sub, made, table, storage, ui, effect, listener, check, faults>>
  BY DEF Prompt!OptIn, Prompt!browser
<1> DEFINE y == [Prompt!Idle EXCEPT !.pc = "permission", !.syncing = ui.syncing]
<1>2. subscribing' = y /\ acts' \in 0..PromptActs
  BY PromptBounds DEF Prompt!OptIn, Prompt!Act, BoundsInv
<1>3. ui.syncing \in BOOLEAN
  BY UiTypes DEF UiInv
<1>4. y \in Prompt!Call /\ y.pc = "permission"
  <2> DEFINE z == [Prompt!Idle EXCEPT !.pc = "permission"]
             b == ui.syncing
  <2>1. z \in Prompt!Call /\ z.pc = "permission"
    BY CallTypes
  <2>2. y = [z EXCEPT !.syncing = b]
    BY DEF Prompt!Idle
  <2> HIDE DEF y, z, b
  <2>3. b \in BOOLEAN
    BY <1>3 DEF b
  <2> QED BY <2>1, <2>2, <2>3 DEF Prompt!Call
<1> HIDE DEF y
<1> QED BY <1>1, <1>2, <1>4 DEF BrowserInv, StorageInv, UiInv, PromptCall, BoundsInv

LEMMA AnswerPromptStep ==
  ASSUME PromptInv, NEW p \in Prompt!Permissions, Prompt!AnswerPrompt(p)
  PROVE  PromptInv'
<1> USE DEF PromptInv
<1>1. UNCHANGED <<sub, made, table, storage, listener, check, acts, faults>> /\ perm' = p
  BY DEF Prompt!AnswerPrompt
<1>2. PromptCall(subscribing)'
  <2>1. /\ [subscribing EXCEPT !.pc = "subscription"] \in Prompt!Call
        /\ [subscribing EXCEPT !.pc = "subscription"].pc = "subscription"
    BY CallTypes DEF PromptCall
  <2>2. \/ subscribing' = [subscribing EXCEPT !.pc = "subscription"]
        \/ subscribing' = Prompt!Idle
    BY DEF Prompt!AnswerPrompt
  <2>3. subscribing' \in Prompt!Call /\ subscribing'.pc \notin {"request", "answer"}
    BY <2>1, <2>2, CallTypes
  <2> QED BY <2>3 DEF PromptCall
<1>3. UiInv'
  <2> DEFINE new == [ui EXCEPT !.permission = p]
  <2>1. new \in Ui /\ Prompt!Becomes(new)
    BY UiTypes DEF Prompt!AnswerPrompt, UiInv
  <2> HIDE DEF new
  <2> QED BY <1>1, <2>1, BecomesOf
<1> QED BY <1>1, <1>2, <1>3 DEF BrowserInv, StorageInv, PromptCall, BoundsInv

LEMMA ChangePermissionStep ==
  ASSUME PromptInv, NEW p \in Prompt!Permissions, Prompt!ChangePermission(p)
  PROVE  PromptInv'
<1> USE DEF PromptInv
<1>1. /\ UNCHANGED <<made, table, storage, ui, effect, listener, check, subscribing, faults>>
      /\ perm' = p /\ (sub' = sub \/ sub' = 0)
  BY DEF Prompt!ChangePermission
<1>2. acts' \in 0..PromptActs
  BY PromptBounds DEF Prompt!ChangePermission, Prompt!Act, BoundsInv
<1> QED BY <1>1, <1>2, PromptBounds DEF BrowserInv, StorageInv, UiInv, PromptCall, BoundsInv

LEMMA RenewStep == ASSUME PromptInv, Prompt!Renew PROVE PromptInv'
<1> USE DEF PromptInv
<1>1. /\ UNCHANGED <<perm, table, storage, ui, effect, listener, check, subscribing, faults>>
      /\ sub' = made + 1 /\ made' = made + 1 /\ made < MaxKeys
  BY DEF Prompt!Renew
<1>2. acts' \in 0..PromptActs
  BY PromptBounds DEF Prompt!Renew, Prompt!Act, BoundsInv
<1> QED BY <1>1, <1>2, PromptBounds DEF BrowserInv, StorageInv, UiInv, PromptCall, BoundsInv

LEMMA DelayPassesStep == ASSUME PromptInv, Prompt!DelayPasses PROVE PromptInv'
<1> USE DEF PromptInv
<1>1. /\ UNCHANGED <<perm, sub, made, table, storage, effect, listener, check, subscribing,
                     acts, faults>>
      /\ ui' \in Ui
  BY UiTypes DEF Prompt!DelayPasses, Prompt!browser, UiInv
<1> QED BY <1>1 DEF BrowserInv, StorageInv, UiInv, PromptCall, BoundsInv

LEMMA DismissStep ==
  ASSUME PromptInv, NEW forAWeek \in BOOLEAN, Prompt!Dismiss(forAWeek) PROVE PromptInv'
<1> USE DEF PromptInv
<1>1. /\ UNCHANGED <<perm, sub, made, table, effect, listener, check, subscribing, faults>>
      /\ ui' \in Ui
  BY UiTypes DEF Prompt!Dismiss, Prompt!browser, UiInv
<1>2. StorageInv'
  BY <1>1 DEF Prompt!Dismiss, StorageInv
<1>3. acts' \in 0..PromptActs
  BY PromptBounds DEF Prompt!Dismiss, Prompt!Act, BoundsInv
<1> QED BY <1>1, <1>2, <1>3 DEF BrowserInv, UiInv, PromptCall, BoundsInv

LEMMA WeekPassesStep == ASSUME PromptInv, Prompt!WeekPasses PROVE PromptInv'
<1> USE DEF PromptInv
<1>1. UNCHANGED <<perm, sub, made, table, ui, effect, listener, check, subscribing, faults>>
  BY DEF Prompt!WeekPasses, Prompt!browser
<1>2. StorageInv'
  BY <1>1 DEF Prompt!WeekPasses, StorageInv
<1>3. acts' \in 0..PromptActs
  BY PromptBounds DEF Prompt!WeekPasses, Prompt!Act, BoundsInv
<1> QED BY <1>1, <1>2, <1>3 DEF BrowserInv, UiInv, PromptCall, BoundsInv

LEMMA PromptReloadStep == ASSUME PromptInv, Prompt!Reload PROVE PromptInv'
<1> USE DEF PromptInv
<1>1. /\ UNCHANGED <<perm, sub, made, table, storage, faults>>
      /\ check' = Prompt!Idle /\ subscribing' = Prompt!Idle
      /\ ui' = Prompt!Mounted /\ effect' = TRUE
      /\ listener' = [checking |-> FALSE, syncing |-> FALSE]
  BY DEF Prompt!Reload, Prompt!browser
<1>2. acts' \in 0..PromptActs
  BY PromptBounds DEF Prompt!Reload, Prompt!Act, BoundsInv
<1>3. Prompt!Mounted \in Ui
  BY DEF BrowserInv, StorageInv, Ui, Prompt!Mounted, Prompt!Fresh
<1> QED BY <1>1, <1>2, <1>3, CallTypes
        DEF BrowserInv, StorageInv, UiInv, PromptCall, BoundsInv

LEMMA PromptStep == ASSUME PromptInv, Prompt!Next PROVE PromptInv'
<1>1. ASSUME Prompt!Work PROVE PromptInv'
  BY <1>1, RunEffectStep, CheckSubscriptionStep, SubscribeStep, SubscribeFailsStep,
     OfCheckStep, OfSubscribingStep DEF Prompt!Work
<1>2. ASSUME NEW p \in Prompt!Permissions,
             Prompt!AnswerPrompt(p) \/ Prompt!ChangePermission(p)
      PROVE  PromptInv'
  BY <1>2, AnswerPromptStep, ChangePermissionStep
<1>3. ASSUME NEW forAWeek \in BOOLEAN, Prompt!Dismiss(forAWeek) PROVE PromptInv'
  BY <1>3, DismissStep
<1> QED BY <1>1, <1>2, <1>3, PromptShownStep, OptInStep, DelayPassesStep, WeekPassesStep,
           PromptReloadStep, RenewStep DEF Prompt!Next

LEMMA PromptStutter == ASSUME PromptInv, UNCHANGED vars PROVE PromptInv'
BY DEF PromptInv, BrowserInv, StorageInv, UiInv, PromptCall, BoundsInv, vars, OfPrompt

LEMMA PromptInvariance == Spec => [](part = "prompt" => PromptInv)
<1> DEFINE Inv == part = "prompt" => PromptInv
<1>1. Init => Inv
  BY PromptInit DEF Init
<1>2. Inv /\ [Next]_vars => Inv'
  BY PartKept, PromptStep, PromptStutter
<1> QED BY <1>1, <1>2, PTL DEF Spec

(* push-permission.tsx:136-158: the keys the page stores are those of a    *)
(* subscription that the backend has, whatever was renewed, refused or     *)
(* lost beside it.                                                         *)
THEOREM StoredIsKnownCorrect == Spec => []StoredIsKnown
<1>1. (part = "prompt" => PromptInv) => StoredIsKnown
  BY DEF PromptInv, StorageInv, StoredIsKnown, Prompt!StoredIsKnown
<1> QED BY <1>1, PromptInvariance, PTL

-----------------------------------------------------------------------------
(* The forms.  First, what is the same for all of the records that say     *)
(* what a form's component does.                                           *)

ListSet == {l \in [told : BOOLEAN, later : BOOLEAN, cdn : BOOLEAN,
                   browser : BOOLEAN, again : BOOLEAN] : l.cdn => l.told}
FormSet == [list : ListSet, op : {"create", "update", "delete"},
            keyed : {"id", "index"}, captures : BOOLEAN, follows : BOOLEAN,
            outside : BOOLEAN, keeps : BOOLEAN, page : BOOLEAN, guard : BOOLEAN,
            needs : BOOLEAN, ends : {"then", "mounted", "stay"}, asks : BOOLEAN]
CampaignSet == [list : ListSet, op : {"create", "update", "delete"},
                keyed : {"id", "index"}, captures : BOOLEAN, follows : BOOLEAN,
                outside : BOOLEAN, keeps : {TRUE}, page : BOOLEAN, guard : BOOLEAN,
                needs : BOOLEAN, ends : {"keep"}, asks : BOOLEAN]
FormKinds == FormSet \union CampaignSet

LEMMA ListShapes ==
  {Form!Coupons, Form!Users, Form!Faqs, Form!Catalogs, Form!Addresses, Form!Orders,
   Form!Categories, Form!Collections, Form!Reviews, Form!BankDetails, Form!Delivery,
   Form!Settings, Form!Session, Form!Mails} \subseteq ListSet
<1>1. Form!Plain \in ListSet /\ Form!Public \in ListSet /\ Form!Unseen \in ListSet
  BY DEF Form!Plain, Form!Public, Form!Unseen, ListSet
<1>2. Form!Orders \in ListSet /\ Form!Settings \in ListSet
  BY DEF Form!Orders, Form!Settings, Form!Plain, ListSet
<1> QED BY <1>1, <1>2
  DEF Form!Coupons, Form!Users, Form!Faqs, Form!Catalogs, Form!Addresses,
      Form!Categories, Form!Collections, Form!Reviews, Form!BankDetails,
      Form!Delivery, Form!Session, Form!Mails

LEMMA EditShape == ASSUME NEW l \in ListSet PROVE Form!Edit(l) \in FormSet
BY DEF Form!Edit, FormSet

(* A field of such a record may be set to any of its values.               *)
LEMMA FormFields ==
  ASSUME NEW f \in FormSet
  PROVE  /\ \A o \in {"create", "update", "delete"} : [f EXCEPT !.op = o] \in FormSet
         /\ \A e \in {"then", "mounted", "stay"} : [f EXCEPT !.ends = e] \in FormSet
         /\ \A x \in {"id", "index"} : [f EXCEPT !.keyed = x] \in FormSet
         /\ \A b \in BOOLEAN :
              /\ [f EXCEPT !.captures = b] \in FormSet
              /\ [f EXCEPT !.follows = b] \in FormSet
              /\ [f EXCEPT !.outside = b] \in FormSet
              /\ [f EXCEPT !.keeps = b] \in FormSet
              /\ [f EXCEPT !.page = b] \in FormSet
              /\ [f EXCEPT !.guard = b] \in FormSet
              /\ [f EXCEPT !.needs = b] \in FormSet
              /\ [f EXCEPT !.asks = b] \in FormSet
BY DEF FormSet

LEMMA CreateShape == ASSUME NEW l \in ListSet PROVE Form!Create(l) \in FormSet
BY EditShape, FormFields DEF Form!Create

LEMMA ConfirmShape ==
  ASSUME NEW l \in ListSet, NEW o \in {"create", "update", "delete"}
  PROVE  Form!Confirm(l, o) \in FormSet
<1> DEFINE e == Form!Edit(l)
<1>1. e \in FormSet
  BY EditShape
<1> HIDE DEF e
<1>2. [e EXCEPT !.op = o, !.outside = TRUE, !.guard = FALSE] \in FormSet
  BY <1>1 DEF FormSet
<1> QED BY <1>2 DEF Form!Confirm, e

LEMMA OrderForms ==
  {Form!CreateCoupon, Form!EditCoupon, Form!DeleteCoupon, Form!ChangeOrder,
   Form!ChangePayment, Form!ReturnItem, Form!EditCustomer, Form!CreateGuest,
   Form!DeleteCustomer} \subseteq FormSet
<1> USE ListShapes, EditShape, CreateShape, ConfirmShape, FormFields
<1>1. Form!CreateCoupon \in FormSet
  BY DEF Form!CreateCoupon
<1>2. Form!EditCoupon \in FormSet
  BY DEF Form!EditCoupon
<1>3. Form!DeleteCoupon \in FormSet
  BY DEF Form!DeleteCoupon
<1>4. Form!ChangeOrder \in FormSet
  BY DEF Form!ChangeOrder
<1>5. Form!ChangePayment \in FormSet
  BY DEF Form!ChangePayment
<1>6. Form!ReturnItem \in FormSet
  BY DEF Form!ReturnItem
<1>7. Form!EditCustomer \in FormSet
  BY DEF Form!EditCustomer
<1>8. Form!CreateGuest \in FormSet
  BY DEF Form!CreateGuest
<1>9. Form!DeleteCustomer \in FormSet
  BY DEF Form!DeleteCustomer
<1> QED BY <1>1, <1>2, <1>3, <1>4, <1>5, <1>6, <1>7, <1>8, <1>9

LEMMA CatalogForms ==
  {Form!CreateFaq, Form!EditFaq, Form!DeleteFaq, Form!CreateCatalog,
   Form!EditCatalog, Form!DeleteCatalog, Form!AddToCatalog} \subseteq FormSet
<1> USE ListShapes, EditShape, CreateShape, ConfirmShape, FormFields
<1>1. Form!CreateFaq \in FormSet
  BY DEF Form!CreateFaq
<1>2. Form!EditFaq \in FormSet
  BY DEF Form!EditFaq
<1>3. Form!DeleteFaq \in FormSet
  BY DEF Form!DeleteFaq
<1>4. Form!CreateCatalog \in FormSet
  BY DEF Form!CreateCatalog
<1>5. Form!EditCatalog \in FormSet
  BY DEF Form!EditCatalog
<1>6. Form!DeleteCatalog \in FormSet
  BY DEF Form!DeleteCatalog
<1>7. Form!AddToCatalog \in FormSet
  BY DEF Form!AddToCatalog
<1> QED BY <1>1, <1>2, <1>3, <1>4, <1>5, <1>6, <1>7

LEMMA CategoryForms ==
  {Form!CreateCategory, Form!EditCategory, Form!ChangeImage,
   Form!ReorderCategories, Form!DeleteCategory, Form!CreateCollection,
   Form!EditCollection, Form!DeleteCollection} \subseteq FormSet
<1> USE ListShapes, EditShape, CreateShape, ConfirmShape, FormFields
<1>1. Form!CreateCategory \in FormSet
  BY DEF Form!CreateCategory
<1>2. Form!EditCategory \in FormSet
  BY DEF Form!EditCategory
<1>3. Form!ChangeImage \in FormSet
  BY DEF Form!ChangeImage
<1>4. Form!ReorderCategories \in FormSet
  BY DEF Form!ReorderCategories
<1>5. Form!DeleteCategory \in FormSet
  BY DEF Form!DeleteCategory
<1>6. Form!CreateCollection \in FormSet
  BY DEF Form!CreateCollection
<1>7. Form!EditCollection \in FormSet
  BY DEF Form!EditCollection
<1>8. Form!DeleteCollection \in FormSet
  BY DEF Form!DeleteCollection
<1> QED BY <1>1, <1>2, <1>3, <1>4, <1>5, <1>6, <1>7, <1>8

LEMMA ShopForms ==
  {Form!WriteReview, Form!EditReview, Form!DeleteReview, Form!CreateDelivery,
   Form!EditDelivery, Form!DeleteDelivery, Form!CreateBank, Form!DeleteBank} \subseteq FormSet
<1> USE ListShapes, EditShape, CreateShape, ConfirmShape, FormFields
<1>1. Form!WriteReview \in FormSet
  BY DEF Form!WriteReview
<1>2. Form!EditReview \in FormSet
  BY DEF Form!EditReview
<1>3. Form!DeleteReview \in FormSet
  BY DEF Form!DeleteReview
<1>4. Form!CreateDelivery \in FormSet
  BY DEF Form!CreateDelivery
<1>5. Form!EditDelivery \in FormSet
  BY DEF Form!EditDelivery
<1>6. Form!DeleteDelivery \in FormSet
  BY DEF Form!DeleteDelivery
<1>7. Form!CreateBank \in FormSet
  BY DEF Form!CreateBank
<1>8. Form!DeleteBank \in FormSet
  BY DEF Form!DeleteBank
<1> QED BY <1>1, <1>2, <1>3, <1>4, <1>5, <1>6, <1>7, <1>8

LEMMA CustomerForms ==
  {Form!CreateAddress, Form!EditAddress, Form!DeleteAddress,
   Form!EditProfile, Form!Contact, Form!SendReminder} \subseteq FormSet
<1> USE ListShapes, EditShape, CreateShape, ConfirmShape, FormFields
<1>1. Form!CreateAddress \in FormSet
  BY DEF Form!CreateAddress
<1>2. Form!EditAddress \in FormSet
  BY DEF Form!EditAddress
<1>3. Form!DeleteAddress \in FormSet
  BY DEF Form!DeleteAddress
<1>4. Form!EditProfile \in FormSet
  BY DEF Form!EditProfile
<1>5. Form!Contact \in FormSet
  BY DEF Form!Contact
<1>6. Form!SendReminder \in FormSet
  BY DEF Form!SendReminder
<1> QED BY <1>1, <1>2, <1>3, <1>4, <1>5, <1>6

LEMMA PageForms ==
  /\ {Form!ShopDetails, Form!SocialMedia, Form!Toggle, Form!TogglePayment,
      Form!Newsletter, Form!SendReminders} \subseteq FormSet
  /\ Form!Campaign \in CampaignSet
<1>1. Form!ShopDetails \in FormSet
  BY ListShapes, EditShape, FormFields DEF Form!ShopDetails
<1>2. Form!Toggle \in FormSet
  BY ListShapes, EditShape, FormFields DEF Form!Toggle
<1>3. Form!Newsletter \in FormSet
  BY CustomerForms, FormFields DEF Form!Newsletter
<1>4. Form!SendReminders \in FormSet
  BY CustomerForms, FormFields DEF Form!SendReminders
<1>5. Form!Campaign \in CampaignSet
  <2> DEFINE f == Form!Confirm(Form!Mails, "create")
  <2>1. f \in FormSet
    BY ListShapes, ConfirmShape
  <2> HIDE DEF f
  <2>2. [f EXCEPT !.needs = TRUE, !.keeps = TRUE, !.ends = "keep"] \in CampaignSet
    BY <2>1 DEF FormSet, CampaignSet
  <2> QED BY <2>2 DEF Form!Campaign, f
<1> QED BY <1>1, <1>2, <1>3, <1>4, <1>5 DEF Form!SocialMedia, Form!TogglePayment

LEMMA FormShapes == Form!Forms \subseteq FormKinds
BY OrderForms, CatalogForms, CategoryForms, ShopForms, CustomerForms, PageForms
   DEF Form!Forms, FormKinds

(* A request has the fields of one; their values matter only for the state *)
(* it is in.                                                               *)
TaskShape(k) ==
  /\ k = [no |-> k.no, mine |-> k.mine, op |-> k.op, row |-> k.row, for |-> k.for,
          opening |-> k.opening, pc |-> k.pc, answered |-> k.answered]
  /\ k.no \in Nat /\ k.pc \in {"sent", "committed", "purged", "done"}

(* Requests are told apart by their numbers, which are those of events.    *)
TaskInv ==
  /\ events \in Nat
  /\ \A k \in tasks : TaskShape(k) /\ k.no <= events
  /\ \A j, k \in tasks : j.no = k.no => j = k

LEMMA TaskFields ==
  ASSUME NEW k, TaskShape(k)
  PROVE  /\ \A p \in {"sent", "committed", "purged", "done"} :
              /\ TaskShape([k EXCEPT !.pc = p])
              /\ [k EXCEPT !.pc = p].pc = p
              /\ [k EXCEPT !.pc = p].no = k.no
              /\ [k EXCEPT !.pc = p].mine = k.mine
              /\ [k EXCEPT !.pc = p].row = k.row
              /\ [k EXCEPT !.pc = p].for = k.for
         /\ TaskShape([k EXCEPT !.answered = TRUE])
         /\ [k EXCEPT !.answered = TRUE].answered
         /\ [k EXCEPT !.answered = TRUE].pc = k.pc
         /\ [k EXCEPT !.answered = TRUE].no = k.no
         /\ [k EXCEPT !.answered = TRUE].mine = k.mine
         /\ [k EXCEPT !.answered = TRUE].row = k.row
         /\ [k EXCEPT !.answered = TRUE].for = k.for
<1> DEFINE r == [no |-> k.no, mine |-> k.mine, op |-> k.op, row |-> k.row, for |-> k.for,
                 opening |-> k.opening, pc |-> k.pc, answered |-> k.answered]
<1>0. k = r /\ k.no \in Nat /\ k.pc \in {"sent", "committed", "purged", "done"}
  BY DEF TaskShape
<1>1. ASSUME NEW p \in {"sent", "committed", "purged", "done"}
      PROVE  [r EXCEPT !.pc = p] =
               [no |-> k.no, mine |-> k.mine, op |-> k.op, row |-> k.row, for |-> k.for,
                opening |-> k.opening, pc |-> p, answered |-> k.answered]
  OBVIOUS
<1>2. ASSUME NEW b
      PROVE  [r EXCEPT !.answered = b] =
               [no |-> k.no, mine |-> k.mine, op |-> k.op, row |-> k.row, for |-> k.for,
                opening |-> k.opening, pc |-> k.pc, answered |-> b]
  OBVIOUS
<1> HIDE DEF r
<1>3. ASSUME NEW p \in {"sent", "committed", "purged", "done"}
      PROVE  /\ TaskShape([k EXCEPT !.pc = p])
             /\ [k EXCEPT !.pc = p].pc = p
             /\ [k EXCEPT !.pc = p].no = k.no
             /\ [k EXCEPT !.pc = p].mine = k.mine
             /\ [k EXCEPT !.pc = p].row = k.row
             /\ [k EXCEPT !.pc = p].for = k.for
  <2> DEFINE n == [k EXCEPT !.pc = p]
  <2>1. n = [no |-> k.no, mine |-> k.mine, op |-> k.op, row |-> k.row, for |-> k.for,
             opening |-> k.opening, pc |-> p, answered |-> k.answered]
    BY <1>0, <1>1
  <2> HIDE DEF n
  <2>2. /\ TaskShape(n) /\ n.pc = p /\ n.no = k.no /\ n.mine = k.mine
        /\ n.row = k.row /\ n.for = k.for
    BY <1>0, <2>1 DEF TaskShape
  <2> QED BY <2>2 DEF n
<1>4. /\ TaskShape([k EXCEPT !.answered = TRUE])
      /\ [k EXCEPT !.answered = TRUE].answered
      /\ [k EXCEPT !.answered = TRUE].pc = k.pc
      /\ [k EXCEPT !.answered = TRUE].no = k.no
      /\ [k EXCEPT !.answered = TRUE].mine = k.mine
      /\ [k EXCEPT !.answered = TRUE].row = k.row
      /\ [k EXCEPT !.answered = TRUE].for = k.for
  <2> DEFINE n == [k EXCEPT !.answered = TRUE]
  <2>1. n = [no |-> k.no, mine |-> k.mine, op |-> k.op, row |-> k.row, for |-> k.for,
             opening |-> k.opening, pc |-> k.pc, answered |-> TRUE]
    BY <1>0, <1>2
  <2> HIDE DEF n
  <2>2. /\ TaskShape(n) /\ n.answered /\ n.pc = k.pc /\ n.no = k.no /\ n.mine = k.mine
        /\ n.row = k.row /\ n.for = k.for
    BY <1>0, <2>1 DEF TaskShape
  <2> QED BY <2>2 DEF n
<1> QED BY <1>3, <1>4

(* What becomes of a request, and of the others beside it.                 *)
LEMMA TaskBecomes ==
  ASSUME TaskInv, NEW k \in tasks, NEW new, TaskShape(new), new.no = k.no,
         Form!Becomes(k, new), events' = events \/ events' = events + 1
  PROVE  /\ TaskInv'
         /\ \A j \in tasks : j # k => j \in tasks'
         /\ new.pc # "done" => new \in tasks'
         /\ \A j \in tasks' : j = new \/ (j \in tasks /\ j # k)
         /\ \A j \in tasks' : j.no = k.no => j = new
<1>1. /\ \A j \in tasks : j # k => j \in tasks'
      /\ new.pc # "done" => new \in tasks'
      /\ \A j \in tasks' : j = new \/ (j \in tasks /\ j # k)
  BY DEF Form!Becomes
<1>2. events' \in Nat /\ events <= events'
  BY DEF TaskInv
<1>3. \A j \in tasks' : TaskShape(j) /\ j.no <= events'
  BY <1>1, <1>2 DEF TaskInv, TaskShape
<1>4. \A j \in tasks' : j.no = k.no => j = new
  BY <1>1 DEF TaskInv
<1>5. \A i, j \in tasks' : i.no = j.no => i = j
  BY <1>1, <1>4 DEF TaskInv
<1> QED BY <1>1, <1>2, <1>3, <1>4, <1>5 DEF TaskInv

LEMMA TaskSent ==
  ASSUME TaskInv, NEW m \in BOOLEAN, NEW op, NEW row, NEW for, NEW opening,
         Form!Send(m, op, row, for, opening)
  PROVE  /\ TaskInv' /\ tasks \subseteq tasks'
         /\ \A j \in tasks' : j \in tasks \/ (j.mine = m /\ j.row = row /\ j.for = for)
<1> DEFINE n == [no |-> events + 1, mine |-> m, op |-> op, row |-> row, for |-> for,
                 opening |-> opening, pc |-> "sent", answered |-> ~m]
<1>1. tasks' = tasks \union {n} /\ events' = events + 1
  BY DEF Form!Send
<1>2. n.no = events + 1 /\ n.mine = m /\ n.row = row /\ n.for = for
  OBVIOUS
<1>3. TaskShape(n)
  BY DEF TaskInv, TaskShape
<1> HIDE DEF n
<1>4. \A j \in tasks' : TaskShape(j) /\ j.no <= events'
  BY <1>1, <1>2, <1>3 DEF TaskInv, TaskShape
<1>5. \A j \in tasks : j.no # n.no
  BY <1>2 DEF TaskInv, TaskShape
<1>6. \A i, j \in tasks' : i.no = j.no => i = j
  BY <1>1, <1>5 DEF TaskInv
<1>7. events' \in Nat
  BY <1>1 DEF TaskInv
<1> QED BY <1>1, <1>2, <1>4, <1>6, <1>7 DEF TaskInv

(* The backend's copy and the edge's are outdated only while the request   *)
(* that has changed the rows has still to drop them.                       *)
EdgeInv ==
  /\ ~form.list.cdn => edge = None
  /\ form.list.cdn =>
       cached \in {None, rows} \/ \E k \in tasks : k.pc \in {"committed", "purged"}
  /\ form.list.cdn /\ ~refilled =>
       edge \in {None, rows} \/ \E k \in tasks : k.pc = "committed"
(* What is typed is typed into a sheet, or kept without one; the row of a  *)
(* sheet is on the page.                                                   *)
SheetInv ==
  /\ typed /\ sheet = None => form.keeps
  /\ ~Form!Gone(shown)
FormInv ==
  form \in FormKinds /\ TaskInv /\ EdgeInv /\ SheetInv /\ Form!SavesToItsRow

LEMMA FormBooleans ==
  ASSUME form \in FormKinds
  PROVE  /\ form.list.cdn \in BOOLEAN /\ form.list.told \in BOOLEAN
         /\ form.list.cdn => form.list.told
         /\ form.keyed \in {"id", "index"}
         /\ form.ends \in {"then", "keep", "mounted", "stay"}
         /\ form.ends = "keep" => form.keeps
BY DEF FormKinds, FormSet, CampaignSet, ListSet

LEMMA FormInit == ASSUME Form!Init PROVE FormInv
<1>1. form \in FormKinds
  BY FormShapes DEF Form!Init
<1>2. TaskInv
  BY DEF Form!Init, TaskInv
<1>3. EdgeInv
  BY <1>1, FormBooleans DEF Form!Init, EdgeInv
<1>4. SheetInv
  <2>1. ~typed
    BY DEF Form!Init
  <2>2. sheet # None => sheet.at = 0
    BY DEF Form!Init
  <2> QED BY <2>1, <2>2 DEF SheetInv, Form!Gone
<1>5. Form!SavesToItsRow
  BY DEF Form!Init, Form!SavesToItsRow
<1> QED BY <1>1, <1>2, <1>3, <1>4, <1>5 DEF FormInv

LEMMA EdgeKeeps ==
  ASSUME EdgeInv, UNCHANGED <<form, rows, cached, edge, refilled>>,
         \A k \in tasks : k.pc \in {"committed", "purged"} => \E j \in tasks' : j.pc = k.pc
  PROVE  EdgeInv'
BY DEF EdgeInv

LEMMA AimKeeps ==
  ASSUME Form!SavesToItsRow, UNCHANGED form,
         \A j \in tasks' : \/ ~j.mine
                           \/ \E k \in tasks : j.mine = k.mine /\ j.row = k.row /\ j.for = k.for
  PROVE  Form!SavesToItsRow'
BY DEF Form!SavesToItsRow

LEMMA SheetKeeps ==
  ASSUME SheetInv, UNCHANGED <<form, shown, sheet, typed>>
  PROVE  SheetInv'
BY DEF SheetInv, Form!Gone, Form!Ids

LEMMA SheetCloses ==
  ASSUME SheetInv, UNCHANGED <<form, shown>>,
         \/ sheet' = None /\ (typed' => form.keeps)
         \/ sheet' = sheet /\ typed' = FALSE
         \/ UNCHANGED <<sheet, typed>>
  PROVE  SheetInv'
BY DEF SheetInv, Form!Gone, Form!Ids

(* The page.                                                               *)
LEMMA OpenStep == ASSUME FormInv, NEW i, Form!Open(i) PROVE FormInv'
<1> USE DEF FormInv
<1>1. UNCHANGED <<form, rows, cached, edge, shown, refilled, tasks, events>>
  BY DEF Form!Open, Form!copies
<1>2. EdgeInv'
  BY <1>1, EdgeKeeps
<1>3. Form!SavesToItsRow'
  BY <1>1, AimKeeps
<1>4. SheetInv'
  <2> DEFINE r == IF i = 0 THEN None ELSE shown[i].id
             s == [at |-> i, row |-> r, no |-> openings']
  <2>1. /\ sheet' = s /\ (typed' => form.keeps)
        /\ i = 0 \/ i \in 1..Len(shown)
    BY DEF Form!Open
  <2>2. s.at = i /\ s.row = r
    OBVIOUS
  <2> HIDE DEF s
  <2>3. i # 0 => r \in Form!Ids(shown)
    BY <2>1 DEF Form!Ids
  <2> HIDE DEF r
  <2>4. ~Form!Gone(shown)'
    BY <1>1, <2>1, <2>2, <2>3 DEF Form!Gone, Form!Ids
  <2> QED BY <1>1, <2>1, <2>4 DEF SheetInv
<1>5. TaskInv'
  BY <1>1 DEF TaskInv
<1> QED BY <1>1, <1>2, <1>3, <1>4, <1>5

LEMMA TypeStep == ASSUME FormInv, Form!Type PROVE FormInv'
<1> USE DEF FormInv
<1>1. /\ UNCHANGED <<form, rows, cached, edge, shown, refilled, tasks, events, sheet>>
      /\ sheet # None
  BY DEF Form!Type, Form!copies
<1>2. EdgeInv'
  BY <1>1, EdgeKeeps
<1>3. Form!SavesToItsRow'
  BY <1>1, AimKeeps
<1>4. SheetInv' /\ TaskInv'
  BY <1>1 DEF SheetInv, Form!Gone, Form!Ids, TaskInv
<1> QED BY <1>1, <1>2, <1>3, <1>4

LEMMA CloseStep == ASSUME FormInv, Form!Close PROVE FormInv'
<1> USE DEF FormInv
<1>1. /\ UNCHANGED <<form, rows, cached, edge, shown, refilled, tasks, events>>
      /\ sheet' = None /\ (typed' => form.keeps)
  BY DEF Form!Close, Form!copies
<1>2. EdgeInv'
  BY <1>1, EdgeKeeps
<1>3. Form!SavesToItsRow'
  BY <1>1, AimKeeps
<1>4. SheetInv' /\ TaskInv'
  BY <1>1, SheetCloses DEF TaskInv
<1> QED BY <1>1, <1>2, <1>3, <1>4

(* A form saves to the row of its component, which for rows with keys is   *)
(* that of its sheet.                                                      *)
LEMMA PressStep == ASSUME FormInv, Form!Press PROVE FormInv'
<1> USE DEF FormInv
<1>1. /\ UNCHANGED <<form, rows, cached, edge, shown, refilled, sheet, typed>>
      /\ Form!Send(TRUE, form.op, Form!Target(sheet), sheet.row, sheet.no)
  BY DEF Form!Press, Form!copies, Form!page
<1>2. /\ TaskInv' /\ tasks \subseteq tasks'
      /\ \A j \in tasks' :
           j \in tasks \/ (j.row = Form!Target(sheet) /\ j.for = sheet.row)
  <2> DEFINE o == form.op
             t == Form!Target(sheet)
             f == sheet.row
             n == sheet.no
  <2>1. Form!Send(TRUE, o, t, f, n)
    BY <1>1
  <2> HIDE DEF o, t, f, n
  <2>2. /\ TaskInv' /\ tasks \subseteq tasks'
        /\ \A j \in tasks' : j \in tasks \/ (j.row = t /\ j.for = f)
    BY <2>1, TaskSent
  <2> QED BY <2>2 DEF t, f
<1>3. EdgeInv'
  BY <1>1, <1>2, EdgeKeeps
<1>4. Form!Target(sheet) = sheet.row \/ (form.keyed = "index" /\ ~form.captures)
  <2>1. form.keyed = "id" \/ form.keyed = "index"
    BY FormBooleans
  <2> QED BY <2>1 DEF Form!Target
<1>5. Form!SavesToItsRow'
  BY <1>1, <1>2, <1>4 DEF Form!SavesToItsRow
<1> QED BY <1>1, <1>2, <1>3, <1>5, SheetKeeps

LEMMA ElsewhereStep == ASSUME FormInv, Form!Elsewhere PROVE FormInv'
<1> USE DEF FormInv
<1>1. UNCHANGED <<form, rows, cached, edge, shown, refilled, sheet, typed>>
  BY DEF Form!Elsewhere, Form!copies, Form!page
<1>2. PICK op, row, for : Form!Send(FALSE, op, row, for, 0)
  BY DEF Form!Elsewhere
<1>3. /\ TaskInv' /\ tasks \subseteq tasks'
      /\ \A j \in tasks' : j \in tasks \/ ~j.mine
  <2>1. \A j \in tasks' : j \in tasks \/ j.mine = FALSE
    BY <1>2, TaskSent
  <2> QED BY <1>2, <2>1, TaskSent
<1>4. EdgeInv'
  BY <1>1, <1>3, EdgeKeeps
<1>5. Form!SavesToItsRow'
  BY <1>1, <1>3, AimKeeps
<1> QED BY <1>1, <1>3, <1>4, <1>5, SheetKeeps

(* The backend.                                                            *)
LEMMA CommitStep == ASSUME FormInv, NEW k \in tasks, Form!Commit(k) PROVE FormInv'
<1> USE DEF FormInv
<1> DEFINE n == [k EXCEPT !.pc = IF form.list.told THEN "committed" ELSE "done"]
<1>1. /\ UNCHANGED <<form, cached, edge, shown, refilled, sheet, typed, events>>
      /\ Form!Becomes(k, n) /\ k.pc = "sent"
  BY DEF Form!Commit, Form!copies, Form!page, Form!Step
<1>2. /\ TaskShape(n) /\ n.no = k.no /\ n.mine = k.mine /\ n.row = k.row /\ n.for = k.for
      /\ form.list.told => n.pc = "committed"
  <2>1. TaskShape(k)
    BY DEF TaskInv
  <2>2. CASE form.list.told
    <3>1. n = [k EXCEPT !.pc = "committed"]
      BY <2>2
    <3> HIDE DEF n
    <3> QED BY <2>1, <3>1, TaskFields
  <2>3. CASE ~form.list.told
    <3>1. n = [k EXCEPT !.pc = "done"]
      BY <2>3
    <3> HIDE DEF n
    <3> QED BY <2>1, <2>3, <3>1, TaskFields
  <2> QED BY <2>2, <2>3
<1> HIDE DEF n
<1>3. /\ TaskInv' /\ (n.pc # "done" => n \in tasks')
      /\ \A j \in tasks' : j = n \/ (j \in tasks /\ j # k)
  BY <1>1, <1>2, TaskBecomes
<1>4. EdgeInv'
  <2>1. form.list.cdn => n \in tasks' /\ n.pc = "committed"
    BY <1>2, <1>3, FormBooleans
  <2>2. CASE form.list.cdn
    BY <1>1, <2>1, <2>2 DEF EdgeInv
  <2>3. CASE ~form.list.cdn
    BY <1>1, <2>3 DEF EdgeInv
  <2> QED BY <2>2, <2>3
<1>5. Form!SavesToItsRow'
  BY <1>1, <1>2, <1>3, AimKeeps
<1> QED BY <1>1, <1>3, <1>4, <1>5, SheetKeeps

LEMMA PurgeStep ==
  ASSUME FormInv, NEW k \in tasks, Form!Purge(k) \/ Form!PurgeFails(k) PROVE FormInv'
<1> USE DEF FormInv
<1> DEFINE n == [k EXCEPT !.pc = "purged"]
<1>1. /\ UNCHANGED <<form, rows, cached, shown, sheet, typed>>
      /\ events' = events \/ events' = events + 1
      /\ Form!Becomes(k, n) /\ k.pc = "committed" /\ form.list.cdn
      /\ edge' = None \/ refilled'
  BY DEF Form!Purge, Form!PurgeFails, Form!net, Form!page, Form!Step, Form!Happens
<1>2. /\ TaskShape(n) /\ n.no = k.no /\ n.mine = k.mine /\ n.row = k.row /\ n.for = k.for
      /\ n.pc = "purged"
  BY TaskFields DEF TaskInv
<1> HIDE DEF n
<1>3. /\ TaskInv' /\ n \in tasks'
      /\ \A j \in tasks' : j = n \/ (j \in tasks /\ j # k)
  BY <1>1, <1>2, TaskBecomes
<1>4. EdgeInv'
  BY <1>1, <1>2, <1>3 DEF EdgeInv
<1>5. Form!SavesToItsRow'
  BY <1>1, <1>2, <1>3, AimKeeps
<1> QED BY <1>1, <1>3, <1>4, <1>5, SheetKeeps

LEMMA InvalidateStep == ASSUME FormInv, NEW k \in tasks, Form!Invalidate(k) PROVE FormInv'
<1> USE DEF FormInv
<1> DEFINE n == [k EXCEPT !.pc = "done"]
<1>1. /\ UNCHANGED <<form, rows, edge, shown, refilled, sheet, typed, events>>
      /\ Form!Becomes(k, n) /\ cached' = None
      /\ form.list.cdn => k.pc = "purged"
  BY DEF Form!Invalidate, Form!page, Form!Step
<1>2. TaskShape(n) /\ n.no = k.no /\ n.mine = k.mine /\ n.row = k.row /\ n.for = k.for
  BY TaskFields DEF TaskInv
<1> HIDE DEF n
<1>3. /\ TaskInv' /\ (\A j \in tasks : j # k => j \in tasks')
      /\ \A j \in tasks' : j = n \/ (j \in tasks /\ j # k)
  BY <1>1, <1>2, TaskBecomes
<1>4. EdgeInv'
  BY <1>1, <1>3 DEF EdgeInv
<1>5. Form!SavesToItsRow'
  BY <1>1, <1>2, <1>3, AimKeeps
<1> QED BY <1>1, <1>3, <1>4, <1>5, SheetKeeps

LEMMA FinishOf ==
  ASSUME FormInv, NEW k, Form!Finish(k)
  PROVE  \/ sheet' = None /\ (typed' => form.keeps \/ sheet # None)
         \/ sheet' = sheet /\ typed' = FALSE
         \/ UNCHANGED <<sheet, typed>>
<1>1. CASE form.ends = "then"
  BY <1>1 DEF Form!Finish
<1>2. CASE form.ends = "keep"
  BY <1>2, FormBooleans DEF Form!Finish, FormInv
<1>3. CASE form.ends = "mounted"
  BY <1>3 DEF Form!Finish
<1>4. CASE form.ends = "stay"
  BY <1>4 DEF Form!Finish
<1>5. form.ends \in {"then", "keep", "mounted", "stay"}
  BY FormBooleans DEF FormInv
<1> QED BY <1>1, <1>2, <1>3, <1>4, <1>5

LEMMA SucceedsStep == ASSUME FormInv, NEW k \in tasks, Form!Succeeds(k) PROVE FormInv'
<1> USE DEF FormInv
<1> DEFINE n == [k EXCEPT !.answered = TRUE]
<1>1. /\ UNCHANGED <<form, rows, cached, edge, shown, refilled, events>>
      /\ Form!Becomes(k, n) /\ Form!Finish(k)
  BY DEF Form!Succeeds, Form!net
<1>2. /\ TaskShape(n) /\ n.no = k.no /\ n.mine = k.mine /\ n.row = k.row /\ n.for = k.for
      /\ n.pc = k.pc
  BY TaskFields DEF TaskInv
<1> HIDE DEF n
<1>3. /\ TaskInv' /\ (n.pc # "done" => n \in tasks')
      /\ \A j \in tasks : j # k => j \in tasks'
      /\ \A j \in tasks' : j = n \/ (j \in tasks /\ j # k)
  BY <1>1, <1>2, TaskBecomes
<1>4. \A j \in tasks : j.pc \in {"committed", "purged"} => \E i \in tasks' : i.pc = j.pc
  BY <1>2, <1>3
<1>5. EdgeInv'
  BY <1>1, <1>4, EdgeKeeps
<1>6. Form!SavesToItsRow'
  BY <1>1, <1>2, <1>3, AimKeeps
<1>7. SheetInv'
  <2>1. \/ sheet' = None /\ (typed' => form.keeps \/ sheet # None)
        \/ sheet' = sheet /\ typed' = FALSE
        \/ UNCHANGED <<sheet, typed>>
    BY <1>1, FinishOf
  <2>2. form.ends \in {"then", "keep", "mounted", "stay"}
        /\ (form.ends = "keep" => form.keeps)
    BY FormBooleans
  <2>3. sheet' = None /\ typed' => form.keeps
    BY <1>1, <2>2 DEF Form!Finish, SheetInv
  <2>4. ~Form!Gone(shown)'
    BY <1>1, <2>1 DEF SheetInv, Form!Gone, Form!Ids
  <2> QED BY <1>1, <2>3, <2>4 DEF SheetInv
<1> QED BY <1>1, <1>3, <1>5, <1>6, <1>7

LEMMA FailsStep == ASSUME FormInv, NEW k \in tasks, Form!Fails(k) PROVE FormInv'
<1> USE DEF FormInv
<1>1. /\ UNCHANGED <<form, rows, cached, edge, shown, refilled, sheet, typed>>
      /\ tasks' = tasks \ {k} /\ k.pc = "sent"
      /\ events' = events \/ events' = events + 1
  BY DEF Form!Fails, Form!copies, Form!page
<1>2. \A j \in tasks : j.pc \in {"committed", "purged"} => j \in tasks'
  BY <1>1
<1>3. EdgeInv'
  BY <1>1, <1>2, EdgeKeeps
<1>4. Form!SavesToItsRow'
  BY <1>1, AimKeeps
<1>5. TaskInv'
  BY <1>1 DEF TaskInv, TaskShape
<1> QED BY <1>1, <1>3, <1>4, <1>5, SheetKeeps

(* The list.  An edge that is filled from an outdated copy of the backend  *)
(* is filled before the purge of the request that changed the rows, or it  *)
(* is known to be.                                                         *)
LEMMA ReadOf ==
  ASSUME FormInv, NEW d, Form!Read(d), UNCHANGED <<form, rows, tasks>>
  PROVE  EdgeInv'
<1> USE DEF FormInv
<1>1. CASE form.list.cdn /\ edge # None
  <2>1. UNCHANGED <<cached, edge, refilled>>
    BY <1>1 DEF Form!Read
  <2> QED BY <2>1, EdgeKeeps
<1>2. CASE ~form.list.cdn
  BY <1>2 DEF Form!Read, EdgeInv
<1>3. CASE form.list.cdn /\ edge = None
  <2>1. /\ cached' = (IF cached = None THEN rows ELSE cached)
        /\ edge' = cached'
        /\ refilled' = (refilled \/ (cached' # rows /\ \E k \in tasks : k.pc = "purged"))
    BY <1>3 DEF Form!Read
  <2>2. cached' = rows \/ \E k \in tasks : k.pc \in {"committed", "purged"}
    BY <1>3, <2>1 DEF EdgeInv
  <2>3. cached' = rows \/ refilled' \/ \E k \in tasks : k.pc = "committed"
    BY <2>1, <2>2
  <2> QED BY <1>3, <2>1, <2>2, <2>3 DEF EdgeInv
<1>4. form.list.cdn \in BOOLEAN
  BY FormBooleans
<1> QED BY <1>1, <1>2, <1>3, <1>4

LEMMA VisitStep == ASSUME FormInv, Form!Visit PROVE FormInv'
<1> USE DEF FormInv
<1>1. UNCHANGED <<form, rows, shown, sheet, typed, tasks, events>>
  BY DEF Form!Visit, Form!page
<1>2. PICK d : Form!Read(d)
  BY DEF Form!Visit
<1>3. EdgeInv'
  BY <1>1, <1>2, ReadOf
<1>4. Form!SavesToItsRow' /\ TaskInv'
  BY <1>1, AimKeeps DEF TaskInv
<1> QED BY <1>1, <1>3, <1>4, SheetKeeps

LEMMA ServeListStep == ASSUME FormInv, Form!ServeList PROVE FormInv'
<1> USE DEF FormInv
<1>1. UNCHANGED <<form, rows, shown, sheet, typed, tasks, events>>
  BY DEF Form!ServeList, Form!page
<1>2. PICK d : Form!Read(d)
  BY DEF Form!ServeList
<1>3. EdgeInv'
  BY <1>1, <1>2, ReadOf
<1>4. Form!SavesToItsRow' /\ TaskInv'
  BY <1>1, AimKeeps DEF TaskInv
<1> QED BY <1>1, <1>3, <1>4, SheetKeeps

LEMMA ListArrivesStep == ASSUME FormInv, Form!ListArrives PROVE FormInv'
<1> USE DEF FormInv
<1>1. UNCHANGED <<form, rows, cached, edge, refilled, tasks, events>>
  BY DEF Form!ListArrives, Form!net
<1>2. EdgeInv' /\ Form!SavesToItsRow' /\ TaskInv'
  BY <1>1, EdgeKeeps, AimKeeps DEF TaskInv
<1>3. SheetInv'
  <2>1. CASE Form!Gone(shown')
    <3>1. sheet' = None /\ typed' = FALSE
      BY <2>1 DEF Form!ListArrives
    <3> QED BY <1>1, <3>1 DEF SheetInv, Form!Gone
  <2>2. CASE ~Form!Gone(shown')
    <3>1. sheet' = sheet /\ (typed' => typed)
      BY <2>2 DEF Form!ListArrives
    <3> QED BY <1>1, <2>2, <3>1 DEF SheetInv, Form!Gone, Form!Ids
  <2> QED BY <2>1, <2>2
<1> QED BY <1>1, <1>2, <1>3

LEMMA NetworkStep ==
  ASSUME FormInv, Form!Hear \/ Form!BrowserServes \/ Form!Disconnect \/ Form!Reconnect
  PROVE  FormInv'
<1> USE DEF FormInv
<1>1. /\ UNCHANGED <<form, rows, cached, edge, shown, refilled, sheet, typed, tasks>>
      /\ events' = events \/ events' = events + 1
  BY DEF Form!Hear, Form!BrowserServes, Form!Disconnect, Form!Reconnect,
         Form!page, Form!net, Form!copies
<1>2. EdgeInv' /\ Form!SavesToItsRow' /\ SheetInv'
  BY <1>1, EdgeKeeps, AimKeeps, SheetKeeps
<1>3. TaskInv'
  BY <1>1 DEF TaskInv, TaskShape
<1> QED BY <1>1, <1>2, <1>3

LEMMA FormStep == ASSUME FormInv, Form!Next PROVE FormInv'
<1>1. ASSUME NEW k \in tasks, Form!Backend(k) \/ Form!PurgeFails(k) \/ Form!Fails(k)
      PROVE  FormInv'
  BY <1>1, CommitStep, PurgeStep, InvalidateStep, SucceedsStep, FailsStep DEF Form!Backend
<1>2. ASSUME NEW i, Form!Open(i) PROVE FormInv'
  BY <1>2, OpenStep
<1>3. ASSUME Form!Deliver PROVE FormInv'
  BY <1>3, ServeListStep, ListArrivesStep, NetworkStep DEF Form!Deliver
<1> QED BY <1>1, <1>2, <1>3, TypeStep, CloseStep, PressStep, ElsewhereStep, VisitStep,
           NetworkStep DEF Form!Next

LEMMA FormStutter == ASSUME FormInv, UNCHANGED vars PROVE FormInv'
<1>1. UNCHANGED <<form, rows, cached, edge, shown, refilled, sheet, typed, tasks, events>>
  BY DEF vars, OfForm, Lists, Sheets
<1> QED BY <1>1 DEF FormInv, TaskInv, EdgeInv, SheetInv, Form!Gone, Form!Ids, Form!SavesToItsRow

(* What was typed is lost only by a step that has a reason for it.         *)
LEMMA FormKeepsTyped == ASSUME FormInv, Form!Next PROVE Form!KeepsTyped
<1> USE DEF FormInv
<1> SUFFICES ASSUME typed, ~typed' PROVE Form!KeepsTyped
  BY DEF Form!KeepsTyped
<1>1. ASSUME NEW i, Form!Open(i) PROVE FALSE
  BY <1>1 DEF Form!Open, SheetInv
<1>2. CASE Form!Close
  BY <1>2 DEF Form!Close, Form!copies, Form!KeepsTyped
<1>3. ASSUME NEW k \in tasks, Form!Succeeds(k) PROVE Form!KeepsTyped
  <2> DEFINE n == [k EXCEPT !.answered = TRUE]
  <2>1. /\ Form!Becomes(k, n) /\ Form!Finish(k) /\ ~k.answered /\ k.pc # "sent"
        /\ events' = events
    BY <1>3 DEF Form!Succeeds
  <2>2. TaskShape(n) /\ n.no = k.no /\ n.answered
    BY TaskFields DEF TaskInv
  <2> HIDE DEF n
  <2>3. \A j \in tasks' : j.no = k.no => j = n
    BY <2>1, <2>2, TaskBecomes
  <2>4. form.ends = "then" \/ k.opening = sheet.no
    <3>1. form.ends \in {"then", "keep", "mounted", "stay"}
      BY FormBooleans
    <3> QED BY <2>1, <3>1 DEF Form!Finish
  <2> QED BY <2>1, <2>2, <2>3, <2>4 DEF Form!KeepsTyped
<1>4. CASE Form!ListArrives
  <2>1. CASE Form!Gone(shown')
    <3>1. sheet' = None /\ shown' # shown
      BY <1>4, <2>1 DEF Form!ListArrives, SheetInv
    <3> QED BY <3>1 DEF Form!KeepsTyped
  <2>2. CASE ~Form!Gone(shown')
    <3>1. form.follows /\ Form!Differs(shown')
      BY <1>4, <2>2 DEF Form!ListArrives
    <3>2. shown' # shown
      BY <3>1 DEF Form!Differs
    <3> QED BY <3>1, <3>2 DEF Form!KeepsTyped
  <2> QED BY <2>1, <2>2
<1>5. ASSUME NEW k \in tasks,
             Form!Commit(k) \/ Form!Purge(k) \/ Form!PurgeFails(k) \/ Form!Invalidate(k)
               \/ Form!Fails(k)
      PROVE  FALSE
  BY <1>5 DEF Form!Commit, Form!Purge, Form!PurgeFails, Form!Invalidate, Form!Fails, Form!page
<1>6. ASSUME Form!Type \/ Form!Press \/ Form!Elsewhere \/ Form!Visit
             \/ Form!ServeList \/ Form!Hear \/ Form!BrowserServes \/ Form!Disconnect
             \/ Form!Reconnect
      PROVE  FALSE
  BY <1>6 DEF Form!Type, Form!Press, Form!Elsewhere, Form!Visit, Form!ServeList,
              Form!Hear, Form!BrowserServes, Form!Disconnect, Form!Reconnect, Form!page
<1> QED BY <1>1, <1>2, <1>3, <1>4, <1>5, <1>6 DEF Form!Next, Form!Backend, Form!Deliver

LEMMA FormInvariance == Spec => [](part = "form" => FormInv)
<1> DEFINE Inv == part = "form" => FormInv
<1>1. Init => Inv
  BY FormInit DEF Init
<1>2. Inv /\ [Next]_vars => Inv'
  BY PartKept, FormStep, FormStutter
<1> QED BY <1>1, <1>2, PTL DEF Spec

(* faq-actions.tsx:15-40 and the like: a form saves to the row it was      *)
(* opened for, whatever others do to the list; the forms over rows told    *)
(* apart by their place are those that may not.                            *)
THEOREM SavesToItsRowCorrect == Spec => []SavesToItsRow
<1>1. (part = "form" => FormInv) => SavesToItsRow
  BY DEF FormInv, SavesToItsRow
<1> QED BY <1>1, FormInvariance, PTL

(* lib/cache.py:89-124: once all is purged the edge has no outdated copy,  *)
(* of any list, however many changes and readers there were.               *)
THEOREM EdgeIsCurrentCorrect == Spec => []EdgeIsCurrent
<1>1. (part = "form" => FormInv) => EdgeIsCurrent
  <2> SUFFICES ASSUME part = "form", FormInv PROVE Form!EdgeIsCurrent
    BY DEF EdgeIsCurrent
  <2>1. SUFFICES ASSUME \A k \in tasks : k.pc \in {"sent", "done"}, ~refilled
                 PROVE  edge \in {None, rows}
    BY DEF Form!EdgeIsCurrent
  <2>2. ~\E k \in tasks : k.pc = "committed"
    BY <2>1
  <2>3. form.list.cdn \in BOOLEAN
    BY FormBooleans DEF FormInv
  <2> QED BY <2>1, <2>2, <2>3 DEF FormInv, EdgeInv
<1> QED BY <1>1, FormInvariance, PTL

(* faq-form.tsx:50-75: what was typed is not lost to what others do.       *)
THEOREM TypedIsKeptCorrect == Spec => TypedIsKept
<1>1. (part = "form" => FormInv) /\ [Next]_vars => [part = "form" => Form!KeepsTyped]_vars
  BY PartKept, FormKeepsTyped
<1> QED BY <1>1, FormInvariance, PTL DEF Spec, TypedIsKept

-----------------------------------------------------------------------------
(* The gallery.                                                            *)

(* A request has the fields of one.                                        *)
Asking(k) == k = [id |-> k.id, by |-> k.by, kind |-> k.kind, images |-> k.images,
                  linked |-> k.linked, end |-> k.end, pc |-> k.pc]
(* A save of uploads is the only one of its page, is for all of those that *)
(* did not come since, and makes their rows before it is announced.        *)
Uploading(k) ==
  /\ k.by \in GalleryTabs /\ saving[k.by] /\ Gallery!Cardinality(k.images) \in Nat
  /\ urls[k.by] = Gallery!Cardinality(k.images) + late[k.by]
  /\ k.pc \in {"sent", "invalidate"}
  /\ k.pc = "invalidate" => k.images \intersect Gallery!Fresh = {}
UploadInv ==
  /\ urls \in [GalleryTabs -> Nat] /\ late \in [GalleryTabs -> Nat] /\ saving \in [GalleryTabs -> BOOLEAN]
  /\ \A k \in tasks : Asking(k) /\ (k.kind = "urls" => Uploading(k))
  /\ \A j, k \in tasks : j.kind = "urls" /\ k.kind = "urls" /\ j.by = k.by => j = k
  /\ \A t \in GalleryTabs : ~saving[t] => late[t] = 0
ChoiceInv ==
  /\ mode \in [GalleryTabs -> BOOLEAN] /\ DOMAIN selected = GalleryTabs
  /\ selected = [t \in GalleryTabs |-> selected[t]]
  /\ Gallery!SelectionNeedsMode
InboxInv == inbox \in [GalleryTabs -> Seq(Gallery!Messages)]
GalleryInv == UploadInv /\ ChoiceInv /\ InboxInv

LEMMA GalleryInit == ASSUME Gallery!Init PROVE GalleryInv
<1>1. UploadInv
  BY DEF Gallery!Init, UploadInv
<1>2. ChoiceInv
  BY DEF Gallery!Init, ChoiceInv, Gallery!SelectionNeedsMode
<1>3. InboxInv
  BY DEF Gallery!Init, InboxInv, Gallery!Messages
<1> QED BY <1>1, <1>2, <1>3 DEF GalleryInv

LEMMA ChoiceKeeps == ASSUME ChoiceInv, UNCHANGED <<mode, selected>> PROVE ChoiceInv'
BY DEF ChoiceInv, Gallery!SelectionNeedsMode

LEMMA InboxKeeps == ASSUME InboxInv, UNCHANGED inbox PROVE InboxInv'
BY DEF InboxInv

(* Images are not taken back once they have a row.                         *)
LEMMA CommitOf ==
  ASSUME NEW S, NEW state \in {"loose", "linked", "gone"}, Gallery!Commit(S, state)
  PROVE  /\ Gallery!Fresh' \subseteq Gallery!Fresh
         /\ S \intersect Gallery!Fresh' = {}
<1> DEFINE new == [i \in Images |-> IF i \in S THEN state ELSE list.row[i]]
<1>1. list'.row = new
  BY DEF Gallery!Commit
<1>2. \A i \in Images : new[i] = "none" => i \notin S /\ list.row[i] = "none"
  OBVIOUS
<1> HIDE DEF new
<1> QED BY <1>1, <1>2 DEF Gallery!Fresh

LEMMA UploadKeeps ==
  ASSUME UploadInv, UNCHANGED <<urls, late, saving>>,
         Gallery!Fresh' \subseteq Gallery!Fresh,
         \A k \in tasks' : Asking(k) /\ (k.kind = "urls" => k \in tasks)
  PROVE  UploadInv'
<1>1. \A k \in tasks' : k.kind = "urls" => Uploading(k)'
  BY DEF UploadInv, Uploading
<1> QED BY <1>1 DEF UploadInv

LEMMA UploadStays ==
  ASSUME UploadInv, UNCHANGED <<urls, late, saving, list, tasks>>
  PROVE  UploadInv'
BY UploadKeeps DEF UploadInv, Gallery!Fresh

(* A request is made.                                                      *)
LEMMA RequestOf ==
  ASSUME UploadInv, NEW t, NEW what, NEW images, Gallery!Request(t, what, images)
  PROVE  /\ \A k \in tasks' :
              \/ k \in tasks
              \/ /\ Asking(k) /\ k.by = t /\ k.kind = what /\ k.images = images
                 /\ k.pc = "sent"
         /\ \A k \in tasks' : Asking(k)
<1> DEFINE n == [id |-> writes + 1, by |-> t, kind |-> what, images |-> images,
                 linked |-> {}, end |-> "completed", pc |-> "sent"]
<1>1. tasks' = tasks \union {n}
  BY DEF Gallery!Request
<1>2. Asking(n) /\ n.by = t /\ n.kind = what /\ n.images = images /\ n.pc = "sent"
  BY DEF Asking
<1> HIDE DEF n
<1> QED BY <1>1, <1>2 DEF UploadInv

(* What a step leaves of a request.                                        *)
LEMMA AskingFields ==
  ASSUME NEW k, Asking(k), NEW pc
  PROVE  /\ Asking([k EXCEPT !.pc = pc]) /\ [k EXCEPT !.pc = pc].pc = pc
         /\ [k EXCEPT !.pc = pc].kind = k.kind /\ [k EXCEPT !.pc = pc].by = k.by
         /\ [k EXCEPT !.pc = pc].images = k.images
         /\ [k EXCEPT !.pc = pc].linked = k.linked
         /\ [k EXCEPT !.pc = pc].end = k.end
<1> DEFINE r == [id |-> k.id, by |-> k.by, kind |-> k.kind, images |-> k.images,
                 linked |-> k.linked, end |-> k.end, pc |-> k.pc]
           m == [k EXCEPT !.pc = pc]
<1>1. k = r
  BY DEF Asking
<1>2. [r EXCEPT !.pc = pc] =
        [id |-> k.id, by |-> k.by, kind |-> k.kind, images |-> k.images,
         linked |-> k.linked, end |-> k.end, pc |-> pc]
  OBVIOUS
<1> HIDE DEF r
<1>3. m = [id |-> k.id, by |-> k.by, kind |-> k.kind, images |-> k.images,
           linked |-> k.linked, end |-> k.end, pc |-> pc]
  BY <1>1, <1>2
<1> HIDE DEF m
<1>4. /\ Asking(m) /\ m.pc = pc /\ m.kind = k.kind /\ m.by = k.by
      /\ m.images = k.images /\ m.linked = k.linked /\ m.end = k.end
  BY <1>3 DEF Asking
<1> QED BY <1>4 DEF m

LEMMA ServedFields ==
  ASSUME NEW k, Asking(k), NEW images, NEW linked
  PROVE  /\ Asking([k EXCEPT !.images = images, !.linked = linked])
         /\ [k EXCEPT !.images = images, !.linked = linked].kind = k.kind
<1> DEFINE r == [id |-> k.id, by |-> k.by, kind |-> k.kind, images |-> k.images,
                 linked |-> k.linked, end |-> k.end, pc |-> k.pc]
           m == [k EXCEPT !.images = images, !.linked = linked]
<1>1. k = r
  BY DEF Asking
<1>2. [r EXCEPT !.images = images, !.linked = linked] =
        [id |-> k.id, by |-> k.by, kind |-> k.kind, images |-> images,
         linked |-> linked, end |-> k.end, pc |-> k.pc]
  <2> DEFINE i == [id |-> k.id, by |-> k.by, kind |-> k.kind, images |-> images,
                   linked |-> k.linked, end |-> k.end, pc |-> k.pc]
  <2>1. [r EXCEPT !.images = images] = i
    OBVIOUS
  <2>2. [i EXCEPT !.linked = linked] =
          [id |-> k.id, by |-> k.by, kind |-> k.kind, images |-> images,
           linked |-> linked, end |-> k.end, pc |-> k.pc]
    OBVIOUS
  <2> HIDE DEF i, r
  <2> QED BY <2>1, <2>2
<1> HIDE DEF r
<1>3. m = [id |-> k.id, by |-> k.by, kind |-> k.kind, images |-> images,
           linked |-> linked, end |-> k.end, pc |-> k.pc]
  BY <1>1, <1>2
<1> HIDE DEF m
<1>4. Asking(m) /\ m.kind = k.kind
  BY <1>3 DEF Asking
<1> QED BY <1>4 DEF m

LEMMA EndedFields ==
  ASSUME NEW k, Asking(k), NEW end
  PROVE  Asking([k EXCEPT !.end = end]) /\ [k EXCEPT !.end = end].kind = k.kind
<1> DEFINE r == [id |-> k.id, by |-> k.by, kind |-> k.kind, images |-> k.images,
                 linked |-> k.linked, end |-> k.end, pc |-> k.pc]
           m == [k EXCEPT !.end = end]
<1>1. k = r
  BY DEF Asking
<1>2. [r EXCEPT !.end = end] =
        [id |-> k.id, by |-> k.by, kind |-> k.kind, images |-> k.images,
         linked |-> k.linked, end |-> end, pc |-> k.pc]
  OBVIOUS
<1> HIDE DEF r
<1>3. m = [id |-> k.id, by |-> k.by, kind |-> k.kind, images |-> k.images,
           linked |-> k.linked, end |-> end, pc |-> k.pc]
  BY <1>1, <1>2
<1> HIDE DEF m
<1>4. Asking(m) /\ m.kind = k.kind
  BY <1>3 DEF Asking
<1> QED BY <1>4 DEF m

LEMMA MoveOf ==
  ASSUME UploadInv, NEW k \in tasks, NEW pc, Gallery!Move(k, pc)
  PROVE  \E m : /\ tasks' = (tasks \ {k}) \union {m} /\ Asking(m)
                /\ m.kind = k.kind /\ m.by = k.by /\ m.images = k.images /\ m.pc = pc
<1> DEFINE m == [k EXCEPT !.pc = pc]
<1>1. Asking(k)
  BY DEF UploadInv
<1>2. Asking(m) /\ m.kind = k.kind /\ m.by = k.by /\ m.images = k.images /\ m.pc = pc
  BY <1>1, AskingFields
<1>3. tasks' = (tasks \ {k}) \union {m}
  BY DEF Gallery!Move
<1> HIDE DEF m
<1> QED BY <1>2, <1>3

LEMMA OtherMoves ==
  ASSUME UploadInv, NEW k \in tasks, k.kind # "urls",
         \/ \E pc : Gallery!Move(k, pc)
         \/ tasks' = tasks \ {k}
  PROVE  \A j \in tasks' : Asking(j) /\ (j.kind = "urls" => j \in tasks)
<1>1. ASSUME NEW pc, Gallery!Move(k, pc)
      PROVE  \A j \in tasks' : Asking(j) /\ (j.kind = "urls" => j \in tasks)
  BY <1>1, MoveOf DEF UploadInv
<1> QED BY <1>1 DEF UploadInv

LEMMA RequestKeeps ==
  ASSUME UploadInv, NEW t, NEW what, NEW images, Gallery!Request(t, what, images),
         what # "urls", UNCHANGED <<list, urls, late, saving>>
  PROVE  UploadInv'
<1>1. \A k \in tasks' : Asking(k) /\ (k.kind = "urls" => k \in tasks)
  BY RequestOf
<1> QED BY <1>1, UploadKeeps DEF Gallery!Fresh

(* The page: the selection.                                                *)
LEMMA SelectingStep ==
  ASSUME GalleryInv, NEW t \in GalleryTabs,
         \/ Gallery!SwitchMode(t) \/ Gallery!ClearSelection(t)
         \/ \E i \in Images : Gallery!ClickCard(t, i)
  PROVE  GalleryInv'
<1> USE DEF GalleryInv
<1>1. UNCHANGED <<list, tasks, urls, late, saving, inbox>>
  BY DEF Gallery!SwitchMode, Gallery!ClearSelection, Gallery!ClickCard,
         Gallery!uploads, Gallery!net
<1>2. ASSUME Gallery!SwitchMode(t) PROVE ChoiceInv'
  <2> DEFINE new == IF mode[t] THEN {} ELSE selected[t]
  <2>1. mode' = [mode EXCEPT ![t] = ~mode[t]] /\ selected' = [selected EXCEPT ![t] = new]
    BY <1>2 DEF Gallery!SwitchMode
  <2>2. new # {} => ~mode[t]
    OBVIOUS
  <2> HIDE DEF new
  <2>3. mode' \in [GalleryTabs -> BOOLEAN] /\ \A u \in GalleryTabs : mode'[u] = IF u = t THEN ~mode[t] ELSE mode[u]
    BY <2>1 DEF ChoiceInv
  <2>4. selected' = [u \in GalleryTabs |-> IF u = t THEN new ELSE selected[u]]
    BY <2>1 DEF ChoiceInv
  <2>5. Gallery!SelectionNeedsMode'
    BY <2>2, <2>3, <2>4 DEF ChoiceInv, Gallery!SelectionNeedsMode
  <2> QED BY <2>3, <2>4, <2>5 DEF ChoiceInv
<1>3. ASSUME Gallery!ClearSelection(t) PROVE ChoiceInv'
  <2>1. mode' = mode /\ selected' = [u \in GalleryTabs |-> IF u = t THEN {} ELSE selected[u]]
    BY <1>3 DEF Gallery!ClearSelection, ChoiceInv
  <2> QED BY <2>1 DEF ChoiceInv, Gallery!SelectionNeedsMode
<1>4. ASSUME NEW i \in Images, Gallery!ClickCard(t, i) PROVE ChoiceInv'
  <2>1. CASE mode[t]
    <3> DEFINE new == IF i \in selected[t] THEN selected[t] \ {i} ELSE selected[t] \union {i}
    <3>1. mode' = mode /\ selected' = [selected EXCEPT ![t] = new]
      BY <1>4, <2>1 DEF Gallery!ClickCard, Gallery!Toggle
    <3> HIDE DEF new
    <3>2. selected' = [u \in GalleryTabs |-> IF u = t THEN new ELSE selected[u]]
      BY <3>1 DEF ChoiceInv
    <3> QED BY <2>1, <3>1, <3>2 DEF ChoiceInv, Gallery!SelectionNeedsMode
  <2>2. CASE ~mode[t]
    BY <1>4, <2>2, ChoiceKeeps DEF Gallery!ClickCard
  <2> QED BY <2>1, <2>2
<1> QED BY <1>1, <1>2, <1>3, <1>4, UploadStays, InboxKeeps

LEMMA GallerySheetStep ==
  ASSUME GalleryInv, NEW t \in GalleryTabs,
         \/ Gallery!CloseSheet(t)
         \/ \E s \in Gallery!Sheets : Gallery!OpenSheet(t, s)
         \/ \E S \in SUBSET Fields : Gallery!TickFields(t, S)
  PROVE  GalleryInv'
<1>1. UNCHANGED <<list, tasks, urls, late, saving, inbox, mode, selected>>
  BY DEF Gallery!CloseSheet, Gallery!OpenSheet, Gallery!TickFields,
         Gallery!uploads, Gallery!net
<1> QED BY <1>1, UploadStays, InboxKeeps, ChoiceKeeps DEF GalleryInv

LEMMA SendingStep ==
  ASSUME GalleryInv,
         \/ Gallery!Elsewhere
         \/ \E t \in GalleryTabs : \/ Gallery!SubmitBulk(t) \/ Gallery!DeleteSelected(t)
                                   \/ Gallery!UploadFiles(t)
                                   \/ \E i \in Images : \/ Gallery!SubmitMetadata(t, i)
                                                        \/ Gallery!DeleteOne(t, i)
  PROVE  GalleryInv'
<1>1. UNCHANGED <<list, urls, late, saving, inbox, mode, selected>>
  BY DEF Gallery!Elsewhere, Gallery!SubmitBulk, Gallery!DeleteSelected,
         Gallery!UploadFiles, Gallery!SubmitMetadata, Gallery!DeleteOne,
         Gallery!uploads, Gallery!net, Gallery!choice
<1>2. \E by, what, images : Gallery!Request(by, what, images) /\ what # "urls"
  <2>1. CASE Gallery!Elsewhere
    <3>1. CASE \E i \in Gallery!Rows, what \in {"delete", "bulk"} : Gallery!Request(None, what, {i})
      BY <3>1
    <3>2. CASE \E i \in Gallery!Rows :
                 Gallery!Request(None, IF list.row[i] = "linked" THEN "update" ELSE "create", {i})
      BY <3>2
    <3> QED BY <2>1, <3>1, <3>2 DEF Gallery!Elsewhere
  <2>2. ASSUME NEW t \in GalleryTabs,
               Gallery!SubmitBulk(t) \/ Gallery!DeleteSelected(t) \/ Gallery!UploadFiles(t)
        PROVE  \E by, what, images : Gallery!Request(by, what, images) /\ what # "urls"
    <3>1. \/ Gallery!Request(t, "bulk", selected[t])
          \/ Gallery!Request(t, "delete", selected[t])
          \/ Gallery!Request(t, "files", Gallery!Fresh)
      BY <2>2 DEF Gallery!SubmitBulk, Gallery!DeleteSelected, Gallery!UploadFiles
    <3> QED BY <3>1
  <2>3. ASSUME NEW t \in GalleryTabs, NEW i \in Images,
               Gallery!SubmitMetadata(t, i) \/ Gallery!DeleteOne(t, i)
        PROVE  \E by, what, images : Gallery!Request(by, what, images) /\ what # "urls"
    <3>1. \/ Gallery!Request(t, IF shown[t].row[i] = "linked" THEN "update" ELSE "create", {i})
          \/ Gallery!Request(t, "delete", {i})
      BY <2>3 DEF Gallery!SubmitMetadata, Gallery!DeleteOne
    <3> QED BY <3>1
  <2> QED BY <2>1, <2>2, <2>3
<1>3. UploadInv'
  BY <1>1, <1>2, RequestKeeps DEF GalleryInv
<1> QED BY <1>1, <1>3, InboxKeeps, ChoiceKeeps DEF GalleryInv

(* What is uploaded during a save is counted apart.                        *)
LEMMA UploadDoneStep ==
  ASSUME GalleryInv, NEW t \in GalleryTabs, Gallery!UploadDone(t) PROVE GalleryInv'
<1> USE DEF GalleryInv
<1>1. UNCHANGED <<list, tasks, saving, inbox, mode, selected>>
  BY DEF Gallery!UploadDone, Gallery!choice, Gallery!net
<1> DEFINE more == IF saving[t] THEN late[t] + 1 ELSE late[t]
<1>2. urls' = [urls EXCEPT ![t] = urls[t] + 1] /\ late' = [late EXCEPT ![t] = more]
  BY DEF Gallery!UploadDone
<1>3. urls[t] \in Nat /\ late[t] \in Nat /\ more \in Nat
      /\ more = (IF saving[t] THEN late[t] + 1 ELSE late[t])
  BY DEF UploadInv
<1> HIDE DEF more
<1>4. urls' \in [GalleryTabs -> Nat] /\ late' \in [GalleryTabs -> Nat]
  BY <1>2, <1>3 DEF UploadInv
<1>5. \A u \in GalleryTabs : /\ urls'[u] = IF u = t THEN urls[t] + 1 ELSE urls[u]
                             /\ late'[u] = IF u = t THEN more ELSE late[u]
  BY <1>2 DEF UploadInv
<1>6. ASSUME NEW k \in tasks, Uploading(k) PROVE Uploading(k)'
  <2>1. urls'[k.by] = Gallery!Cardinality(k.images) + late'[k.by]
    <3>1. CASE k.by = t
      BY <1>3, <1>5, <1>6, <3>1 DEF Uploading
    <3>2. CASE k.by # t
      BY <1>5, <1>6, <3>2 DEF Uploading
    <3> QED BY <3>1, <3>2
  <2> QED BY <1>1, <1>6, <2>1 DEF Uploading, Gallery!Fresh
<1>7. UploadInv'
  <2>1. \A u \in GalleryTabs : ~saving'[u] => late'[u] = 0
    BY <1>1, <1>3, <1>5 DEF UploadInv
  <2>2. \A k \in tasks' : Asking(k) /\ (k.kind = "urls" => Uploading(k)')
    BY <1>1, <1>6 DEF UploadInv
  <2> QED BY <1>1, <1>4, <2>1, <2>2 DEF UploadInv
<1> QED BY <1>1, <1>7, InboxKeeps, ChoiceKeeps

(* A save is made for all of the uploads there are.                        *)
LEMMA SaveUrlsStep ==
  ASSUME GalleryInv, NEW t \in GalleryTabs, Gallery!SaveUrls(t) PROVE GalleryInv'
<1> USE DEF GalleryInv
<1>1. /\ UNCHANGED <<list, urls, late, inbox, mode, selected>>
      /\ ~saving[t] /\ saving' = [saving EXCEPT ![t] = TRUE]
  BY DEF Gallery!SaveUrls, Gallery!choice, Gallery!net
<1>2. PICK S \in SUBSET Gallery!Fresh :
        Gallery!Cardinality(S) = urls[t] /\ Gallery!Request(t, "urls", S)
  BY DEF Gallery!SaveUrls
<1>3. /\ \A k \in tasks' : \/ k \in tasks
                           \/ /\ k.by = t /\ k.kind = "urls" /\ k.images = S
                              /\ k.pc = "sent"
      /\ \A k \in tasks' : Asking(k)
  BY <1>2, RequestOf
<1>4. \A j, k \in tasks' : j.kind = "urls" /\ k.kind = "urls" /\ j.by = k.by => j = k
  <2> DEFINE n == [id |-> writes + 1, by |-> t, kind |-> "urls", images |-> S,
                   linked |-> {}, end |-> "completed", pc |-> "sent"]
  <2>1. tasks' = tasks \union {n}
    BY <1>2 DEF Gallery!Request
  <2>2. n.by = t
    OBVIOUS
  <2> HIDE DEF n
  <2>3. \A k \in tasks : k.kind = "urls" => k.by # t
    BY <1>1 DEF UploadInv, Uploading
  <2> QED BY <2>1, <2>2, <2>3 DEF UploadInv
<1>5. \A u \in GalleryTabs : saving'[u] = (u = t \/ saving[u])
  BY <1>1 DEF UploadInv
<1>6. saving' \in [GalleryTabs -> BOOLEAN]
  BY <1>1 DEF UploadInv
<1>7. urls[t] = urls[t] + late[t] /\ urls[t] \in Nat
  BY <1>1 DEF UploadInv
<1>8. ASSUME NEW k \in tasks', k.kind = "urls" PROVE Uploading(k)'
  <2>1. CASE k \in tasks
    BY <1>1, <1>5, <1>8, <2>1 DEF UploadInv, Uploading, Gallery!Fresh
  <2>2. CASE /\ k.by = t /\ k.images = S /\ k.pc = "sent"
    BY <1>1, <1>2, <1>5, <1>7, <2>2 DEF Uploading
  <2> QED BY <1>3, <2>1, <2>2
<1>9. UploadInv'
  <2>1. \A u \in GalleryTabs : ~saving'[u] => late'[u] = 0
    BY <1>1, <1>5 DEF UploadInv
  <2> QED BY <1>1, <1>3, <1>4, <1>6, <1>8, <2>1 DEF UploadInv
<1> QED BY <1>1, <1>9, InboxKeeps, ChoiceKeeps

(* A save that ends, well or not, leaves its page without one.             *)
LEMMA SaveEnds ==
  ASSUME UploadInv, NEW k \in tasks, k.kind = "urls", tasks' = tasks \ {k},
         UNCHANGED list, saving' = [saving EXCEPT ![k.by] = FALSE],
         late' = [late EXCEPT ![k.by] = 0],
         urls' = urls \/ urls' = [urls EXCEPT ![k.by] = 0]
  PROVE  UploadInv'
<1> DEFINE t == k.by
<1>1. t \in GalleryTabs
  BY DEF UploadInv, Uploading
<1>2. \A j \in tasks' : j.kind = "urls" => j.by # t
  BY DEF UploadInv
<1>3. /\ saving' = [saving EXCEPT ![t] = FALSE] /\ late' = [late EXCEPT ![t] = 0]
      /\ urls' = urls \/ urls' = [urls EXCEPT ![t] = 0]
  OBVIOUS
<1> HIDE DEF t
<1>4. /\ saving' \in [GalleryTabs -> BOOLEAN] /\ late' \in [GalleryTabs -> Nat] /\ urls' \in [GalleryTabs -> Nat]
  <2>1. saving' \in [GalleryTabs -> BOOLEAN]
    BY <1>3 DEF UploadInv
  <2>2. late' \in [GalleryTabs -> Nat]
    <3>1. late \in [GalleryTabs -> Nat]
      BY DEF UploadInv
    <3> QED BY ONLY <1>3, <3>1
  <2>3. urls \in [GalleryTabs -> Nat] /\ [urls EXCEPT ![t] = 0] \in [GalleryTabs -> Nat]
    BY DEF UploadInv
  <2>4. urls' \in [GalleryTabs -> Nat]
    BY <1>3, <2>3
  <2> QED BY <2>1, <2>2, <2>4
<1>5. \A u \in GalleryTabs : /\ saving'[u] = IF u = t THEN FALSE ELSE saving[u]
                             /\ late'[u] = IF u = t THEN 0 ELSE late[u]
                             /\ u # t => urls'[u] = urls[u]
  BY <1>3 DEF UploadInv
<1>6. ASSUME NEW j \in tasks', j.kind = "urls" PROVE Uploading(j)'
  <2>1. j \in tasks /\ j.by # t /\ j.by \in GalleryTabs /\ Uploading(j)
    BY <1>2, <1>6 DEF UploadInv, Uploading
  <2> QED BY <1>5, <2>1 DEF Uploading, Gallery!Fresh
<1>7. \A u \in GalleryTabs : ~saving'[u] => late'[u] = 0
  BY <1>5 DEF UploadInv
<1> QED BY <1>4, <1>6, <1>7 DEF UploadInv

LEMMA RefuseOf ==
  ASSUME GalleryInv, NEW k \in tasks, Gallery!Refuse(k)
  PROVE  GalleryInv'
<1> USE DEF GalleryInv
<1>1. /\ UNCHANGED <<list, urls, inbox, mode, selected>> /\ tasks' = tasks \ {k}
  BY DEF Gallery!Refuse, Gallery!choice, Gallery!net
<1>2. CASE k.kind = "urls"
  <2>1. k.by \in GalleryTabs
    BY <1>2 DEF UploadInv, Uploading
  <2>2. saving' = [saving EXCEPT ![k.by] = FALSE] /\ late' = [late EXCEPT ![k.by] = 0]
    BY <1>2, <2>1 DEF Gallery!Refuse
  <2> QED BY <1>1, <1>2, <2>2, SaveEnds, InboxKeeps, ChoiceKeeps
<1>3. CASE k.kind # "urls"
  <2>1. UNCHANGED <<saving, late>>
    BY <1>3 DEF Gallery!Refuse
  <2>2. \A j \in tasks' : Asking(j) /\ (j.kind = "urls" => j \in tasks)
    BY <1>1 DEF UploadInv
  <2>3. UploadInv'
    BY <1>1, <2>1, <2>2, UploadKeeps DEF Gallery!Fresh
  <2> QED BY <1>1, <2>3, InboxKeeps, ChoiceKeeps
<1> QED BY <1>2, <1>3

LEMMA RefuseStep ==
  ASSUME GalleryInv, NEW k \in tasks,
         Gallery!Lose(k) \/ Gallery!RefuseBulk(k) \/ Gallery!RefuseMetadata(k)
  PROVE  GalleryInv'
BY RefuseOf DEF Gallery!Lose, Gallery!RefuseBulk, Gallery!RefuseMetadata

(* The backend.                                                            *)
LEMMA SucceedsOf ==
  ASSUME NEW k, Gallery!Succeeds(k), k.kind # "urls"
  PROVE  UNCHANGED <<mode, selected, urls, late, saving>>
BY DEF Gallery!Succeeds, Gallery!Closes, Gallery!choice, Gallery!uploads

LEMMA BulkStep ==
  ASSUME GalleryInv, NEW k \in tasks,
         Gallery!ServeBulk(k) \/ Gallery!RunDelete(k) \/ Gallery!RunBulk(k)
  PROVE  GalleryInv'
<1> USE DEF GalleryInv
<1>1. k.kind # "urls" /\ Asking(k) /\ UNCHANGED inbox
  BY DEF Gallery!ServeBulk, Gallery!RunDelete, Gallery!RunBulk, Gallery!At,
         Gallery!net, UploadInv
<1>2. UNCHANGED <<mode, selected, urls, late, saving>>
  <2>1. CASE Gallery!ServeBulk(k)
    BY <1>1, <2>1, SucceedsOf DEF Gallery!ServeBulk
  <2>2. CASE Gallery!RunDelete(k) \/ Gallery!RunBulk(k)
    BY <2>2 DEF Gallery!RunDelete, Gallery!RunBulk, Gallery!choice, Gallery!uploads
  <2> QED BY <2>1, <2>2
<1>3. \A j \in tasks' : Asking(j) /\ (j.kind = "urls" => j \in tasks)
  <2>1. CASE Gallery!ServeBulk(k)
    <3> DEFINE l == Gallery!Linked(k.images)
               m == [k EXCEPT !.pc = "queued"]
               s == [m EXCEPT !.images = m.images \intersect Gallery!Rows, !.linked = l]
    <3>1. tasks' = (tasks \ {k}) \union {s}
      BY <2>1 DEF Gallery!ServeBulk
    <3>2. Asking(m) /\ m.kind = k.kind
      BY <1>1, AskingFields
    <3> HIDE DEF l, m
    <3> DEFINE i == m.images \intersect Gallery!Rows
    <3>3. s = [m EXCEPT !.images = i, !.linked = l]
      OBVIOUS
    <3> HIDE DEF i
    <3>4. Asking(s) /\ s.kind = k.kind
      BY <3>2, <3>3, ServedFields
    <3> HIDE DEF s
    <3> QED BY <1>1, <3>1, <3>4 DEF UploadInv
  <2>2. CASE Gallery!RunDelete(k)
    <3>1. tasks' = tasks \ {k} \/ Gallery!Move(k, "invalidate")
      BY <2>2 DEF Gallery!RunDelete
    <3> QED BY <1>1, <3>1, OtherMoves
  <2>3. CASE Gallery!RunBulk(k)
    <3> DEFINE failed == {i \in k.images \ k.linked : list.row[i] = "gone"}
               p == IF failed = k.images THEN "complete" ELSE "invalidate"
               x == IF failed = {} THEN "completed" ELSE "partial"
               m == [k EXCEPT !.pc = p]
               e == [m EXCEPT !.end = x]
    <3>1. tasks' = (tasks \ {k}) \union {e}
      BY <2>3 DEF Gallery!RunBulk
    <3> HIDE DEF p, x
    <3>2. Asking(m) /\ m.kind = k.kind
      BY <1>1, AskingFields
    <3> HIDE DEF m
    <3>3. Asking(e) /\ e.kind = k.kind
      BY <3>2, EndedFields
    <3> HIDE DEF e
    <3> QED BY <1>1, <3>1, <3>3 DEF UploadInv
  <2> QED BY <2>1, <2>2, <2>3
<1>4. Gallery!Fresh' \subseteq Gallery!Fresh
  <2>1. CASE UNCHANGED list
    BY <2>1 DEF Gallery!Fresh
  <2>2. ASSUME NEW S, Gallery!Commit(S, "gone") \/ Gallery!Commit(S, "linked")
        PROVE  Gallery!Fresh' \subseteq Gallery!Fresh
    BY <2>2, CommitOf
  <2>3. CASE Gallery!RunDelete(k)
    BY <2>1, <2>2, <2>3 DEF Gallery!RunDelete
  <2>4. CASE Gallery!RunBulk(k)
    BY <2>1, <2>2, <2>4 DEF Gallery!RunBulk
  <2>5. CASE Gallery!ServeBulk(k)
    BY <2>1, <2>5 DEF Gallery!ServeBulk
  <2> QED BY <2>3, <2>4, <2>5
<1>5. UploadInv'
  BY <1>2, <1>3, <1>4, UploadKeeps
<1> QED BY <1>1, <1>2, <1>5, InboxKeeps, ChoiceKeeps

LEMMA BroadcastOf ==
  ASSUME InboxInv, NEW msg \in Gallery!Messages, Gallery!Broadcast(msg)
  PROVE  InboxInv'
BY DEF InboxInv, Gallery!Broadcast

LEMMA InvalidateOf == ASSUME InboxInv, Gallery!Invalidate PROVE InboxInv'
BY BroadcastOf DEF Gallery!Invalidate, Gallery!Messages

(* The requests of a form are none for uploads.                            *)
LEMMA MetadataStep ==
  ASSUME GalleryInv, NEW k \in tasks,
         Gallery!InvalidateEarly(k) \/ Gallery!CommitMetadata(k)
  PROVE  GalleryInv'
<1> USE DEF GalleryInv
<1>1. k.kind # "urls"
  BY DEF Gallery!InvalidateEarly, Gallery!CommitMetadata, UploadInv, Uploading
<1>2. UNCHANGED <<mode, selected, urls, late, saving>>
  BY <1>1, SucceedsOf DEF Gallery!InvalidateEarly, Gallery!CommitMetadata,
     Gallery!choice, Gallery!uploads
<1>3. \A j \in tasks' : Asking(j) /\ (j.kind = "urls" => j \in tasks)
  BY <1>1, OtherMoves DEF Gallery!InvalidateEarly, Gallery!CommitMetadata
<1>4. Gallery!Fresh' \subseteq Gallery!Fresh
  <2>1. CASE Gallery!InvalidateEarly(k)
    BY <2>1 DEF Gallery!InvalidateEarly, Gallery!Fresh
  <2>2. CASE Gallery!CommitMetadata(k)
    BY <2>2, CommitOf DEF Gallery!CommitMetadata
  <2> QED BY <2>1, <2>2
<1>5. InboxInv'
  <2>1. CASE Gallery!InvalidateEarly(k)
    BY <2>1, InvalidateOf DEF Gallery!InvalidateEarly
  <2>2. CASE Gallery!CommitMetadata(k)
    BY <2>2, InboxKeeps DEF Gallery!CommitMetadata, Gallery!net
  <2> QED BY <2>1, <2>2
<1>6. UploadInv'
  BY <1>2, <1>3, <1>4, UploadKeeps
<1> QED BY <1>2, <1>5, <1>6, ChoiceKeeps

(* The rows of a save are made before it is announced.                     *)
LEMMA CreateRowsStep ==
  ASSUME GalleryInv, NEW k \in tasks, Gallery!CreateRows(k) PROVE GalleryInv'
<1> USE DEF GalleryInv
<1>1. /\ UNCHANGED <<mode, selected, urls, late, saving, inbox>>
      /\ Gallery!Commit(k.images \intersect Gallery!Fresh, "loose")
      /\ Gallery!Move(k, "invalidate")
  BY DEF Gallery!CreateRows, Gallery!choice, Gallery!uploads, Gallery!net
<1>2. /\ Gallery!Fresh' \subseteq Gallery!Fresh
      /\ k.images \intersect Gallery!Fresh' = {}
  BY <1>1, CommitOf
<1>3. PICK m : /\ tasks' = (tasks \ {k}) \union {m} /\ Asking(m)
               /\ m.kind = k.kind /\ m.by = k.by /\ m.images = k.images
               /\ m.pc = "invalidate"
  BY <1>1, MoveOf
<1>4. ASSUME NEW j \in tasks', j.kind = "urls" PROVE Uploading(j)'
  <2>1. CASE j = m
    <3>1. Uploading(k)
      BY <1>3, <1>4, <2>1 DEF UploadInv
    <3> QED BY <1>1, <1>2, <1>3, <2>1, <3>1 DEF Uploading
  <2>2. CASE j # m
    <3>1. Uploading(j)
      BY <1>3, <1>4, <2>2 DEF UploadInv
    <3> QED BY <1>1, <1>2, <3>1 DEF Uploading
  <2> QED BY <2>1, <2>2
<1>5. UploadInv'
  BY <1>1, <1>3, <1>4 DEF UploadInv
<1> QED BY <1>1, <1>5, InboxKeeps, ChoiceKeeps

LEMMA InvalidateAfterStep ==
  ASSUME GalleryInv, NEW k \in tasks, Gallery!InvalidateAfter(k) PROVE GalleryInv'
<1> USE DEF GalleryInv
<1>1. UNCHANGED list /\ InboxInv'
  BY InvalidateOf DEF Gallery!InvalidateAfter
<1>2. CASE k.kind = "urls"
  <2>1. tasks' = tasks \ {k} /\ Gallery!Succeeds(k) /\ k.by \in GalleryTabs
    BY <1>2 DEF Gallery!InvalidateAfter, UploadInv, Uploading
  <2>2. /\ urls' = [urls EXCEPT ![k.by] = 0] /\ late' = [late EXCEPT ![k.by] = 0]
        /\ saving' = [saving EXCEPT ![k.by] = FALSE] /\ UNCHANGED <<mode, selected>>
    BY <1>2, <2>1 DEF Gallery!Succeeds, Gallery!choice
  <2> QED BY <1>1, <1>2, <2>1, <2>2, SaveEnds, ChoiceKeeps
<1>3. CASE k.kind # "urls"
  <2>1. UNCHANGED <<mode, selected, urls, late, saving>>
    BY <1>3 DEF Gallery!InvalidateAfter, Gallery!choice, Gallery!uploads
  <2>2. Gallery!Move(k, "complete") \/ tasks' = tasks \ {k}
    BY DEF Gallery!InvalidateAfter
  <2>3. \A j \in tasks' : Asking(j) /\ (j.kind = "urls" => j \in tasks)
    BY <1>3, <2>2, OtherMoves
  <2>4. UploadInv'
    BY <1>1, <2>1, <2>3, UploadKeeps DEF Gallery!Fresh
  <2> QED BY <1>1, <2>1, <2>4, ChoiceKeeps
<1> QED BY <1>2, <1>3

LEMMA EndingStep ==
  ASSUME GalleryInv, NEW k \in tasks,
         Gallery!StopHalfWay(k) \/ Gallery!IndexFails(k) \/ Gallery!Complete(k)
  PROVE  GalleryInv'
<1> USE DEF GalleryInv
<1>1. UNCHANGED <<mode, selected, urls, late, saving>>
  BY DEF Gallery!StopHalfWay, Gallery!IndexFails, Gallery!Complete, Gallery!choice,
         Gallery!uploads
<1>2. k.kind # "urls"
  BY DEF Gallery!StopHalfWay, Gallery!IndexFails, Gallery!Complete, Gallery!At,
         UploadInv, Uploading
<1>3. Gallery!Move(k, "complete") \/ tasks' = tasks \ {k}
  BY DEF Gallery!StopHalfWay, Gallery!IndexFails, Gallery!Complete
<1>4. \A j \in tasks' : Asking(j) /\ (j.kind = "urls" => j \in tasks)
  BY <1>2, <1>3, OtherMoves
<1>5. Gallery!Fresh' \subseteq Gallery!Fresh
  <2>1. CASE UNCHANGED list
    BY <2>1 DEF Gallery!Fresh
  <2>2. CASE Gallery!StopHalfWay(k)
    BY <2>2, CommitOf DEF Gallery!StopHalfWay
  <2> QED BY <2>1, <2>2 DEF Gallery!IndexFails, Gallery!Complete
<1>6. InboxInv'
  <2>1. CASE UNCHANGED inbox
    BY <2>1, InboxKeeps
  <2>2. CASE Gallery!Complete(k)
    <3>1. CASE k.end = "completed"
      BY <2>2, <3>1, BroadcastOf DEF Gallery!Complete, Gallery!Messages
    <3>2. CASE k.end # "completed"
      BY <2>1, <2>2, <3>2 DEF Gallery!Complete
    <3> QED BY <3>1, <3>2
  <2> QED BY <2>1, <2>2 DEF Gallery!StopHalfWay, Gallery!IndexFails, Gallery!net
<1>7. UploadInv'
  BY <1>1, <1>4, <1>5, UploadKeeps
<1> QED BY <1>1, <1>6, <1>7, ChoiceKeeps

(* The messages: the end of a bulk action ends every selection.            *)
LEMMA HearStep == ASSUME GalleryInv, NEW t \in GalleryTabs, Gallery!Hear(t) PROVE GalleryInv'
<1> USE DEF GalleryInv
<1>1. UNCHANGED <<list, tasks, urls, late, saving>>
  BY DEF Gallery!Hear, Gallery!uploads
<1>2. inbox[t] \in Seq(Gallery!Messages) /\ inbox[t] # <<>>
      /\ inbox' = [inbox EXCEPT ![t] = Tail(inbox[t])]
  BY DEF Gallery!Hear, InboxInv
<1>3. Head(inbox[t]) \in Gallery!Messages /\ Tail(inbox[t]) \in Seq(Gallery!Messages)
  BY <1>2
<1>4. InboxInv'
  BY <1>2, <1>3 DEF InboxInv
<1>5. CASE Head(inbox[t]) = "gallery"
  BY <1>1, <1>4, <1>5, ChoiceKeeps, UploadStays DEF Gallery!Hear, Gallery!choice
<1>6. CASE Head(inbox[t]) = "completed"
  <2>1. mode' = [mode EXCEPT ![t] = FALSE] /\ selected' = [selected EXCEPT ![t] = {}]
    BY <1>6 DEF Gallery!Hear
  <2>2. /\ mode' \in [GalleryTabs -> BOOLEAN]
        /\ \A u \in GalleryTabs : mode'[u] = IF u = t THEN FALSE ELSE mode[u]
        /\ selected' = [u \in GalleryTabs |-> IF u = t THEN {} ELSE selected[u]]
    BY <2>1 DEF ChoiceInv
  <2>3. ChoiceInv'
    BY <2>2 DEF ChoiceInv, Gallery!SelectionNeedsMode
  <2> QED BY <1>1, <1>4, <2>3, UploadStays
<1> QED BY <1>3, <1>5, <1>6 DEF Gallery!Messages

LEMMA LineStep ==
  ASSUME GalleryInv, NEW t \in GalleryTabs,
         \/ Gallery!ServeList(t) \/ Gallery!ListArrives(t) \/ Gallery!Disconnect(t)
         \/ Gallery!Reconnect(t)
  PROVE  GalleryInv'
<1> USE DEF GalleryInv
<1>1. UNCHANGED <<list, tasks, urls, late, saving, mode, selected>>
  BY DEF Gallery!ServeList, Gallery!ListArrives, Gallery!Disconnect,
         Gallery!Reconnect, Gallery!uploads, Gallery!choice
<1>2. CASE UNCHANGED inbox
  BY <1>1, <1>2, UploadStays, ChoiceKeeps, InboxKeeps
<1>3. CASE inbox' = [inbox EXCEPT ![t] = <<>>]
  <2>1. InboxInv'
    BY <1>3 DEF InboxInv
  <2> QED BY <1>1, <2>1, UploadStays, ChoiceKeeps
<1> QED BY <1>2, <1>3 DEF Gallery!ServeList, Gallery!ListArrives, Gallery!Disconnect,
           Gallery!Reconnect, Gallery!net

LEMMA GalleryStep == ASSUME GalleryInv, Gallery!Next PROVE GalleryInv'
<1>1. ASSUME NEW t \in GalleryTabs,
             Gallery!Page(t) \/ Gallery!Deliver(t) \/ Gallery!Disconnect(t)
               \/ Gallery!Reconnect(t)
      PROVE  GalleryInv'
  <2>1. ASSUME Gallery!Page(t) PROVE GalleryInv'
    BY <2>1, SelectingStep, GallerySheetStep, SendingStep, UploadDoneStep, SaveUrlsStep
       DEF Gallery!Page
  <2>2. ASSUME Gallery!Deliver(t) PROVE GalleryInv'
    BY <2>2, LineStep, HearStep DEF Gallery!Deliver
  <2> QED BY <1>1, <2>1, <2>2, LineStep
<1>2. ASSUME NEW k \in tasks, Gallery!Backend(k) \/ Gallery!Fault(k) PROVE GalleryInv'
  BY <1>2, BulkStep, RefuseStep, MetadataStep, CreateRowsStep, InvalidateAfterStep,
     EndingStep DEF Gallery!Backend, Gallery!Fault
<1>3. ASSUME Gallery!Elsewhere PROVE GalleryInv'
  BY <1>3, SendingStep
<1> QED BY <1>1, <1>2, <1>3 DEF Gallery!Next

LEMMA GalleryStutter == ASSUME GalleryInv, UNCHANGED vars PROVE GalleryInv'
<1>1. UNCHANGED <<list, tasks, urls, late, saving, mode, selected, inbox>>
  BY DEF vars, OfGallery, Sheets
<1> QED BY <1>1, UploadStays, ChoiceKeeps, InboxKeeps DEF GalleryInv

(* Uploads are only ever forgotten by the answer to a save of all of them, *)
(* after their rows are there.                                             *)
LEMMA GalleryKeepsUploads ==
  ASSUME GalleryInv, Gallery!Next PROVE Gallery!KeepsUploads
<1> USE DEF GalleryInv
<1> SUFFICES ASSUME NEW t \in GalleryTabs, urls'[t] < urls[t]
             PROVE  \E k \in tasks : /\ k.by = t /\ k.kind = "urls" /\ k \notin tasks'
                                     /\ k.images \intersect Gallery!Fresh' = {}
                                     /\ urls[t] = Gallery!Cardinality(k.images) + late[t]
  BY DEF Gallery!KeepsUploads
<1>0. urls[t] \in Nat
  BY DEF UploadInv
<1>1. CASE urls' = urls
  BY <1>0, <1>1
<1>2. ASSUME NEW u \in GalleryTabs, Gallery!UploadDone(u) PROVE FALSE
  <2>1. urls' = [urls EXCEPT ![u] = urls[u] + 1]
    BY <1>2 DEF Gallery!UploadDone
  <2>2. urls'[t] = urls[t] \/ urls'[t] = urls[t] + 1
    BY <2>1 DEF UploadInv
  <2> QED BY <1>0, <2>2
<1>3. ASSUME NEW k \in tasks, Gallery!InvalidateAfter(k), k.kind = "urls"
      PROVE  /\ k.by = t /\ k \notin tasks'
             /\ k.images \intersect Gallery!Fresh' = {}
             /\ urls[t] = Gallery!Cardinality(k.images) + late[t]
  <2>1. /\ tasks' = tasks \ {k} /\ Gallery!Succeeds(k) /\ k.by \in GalleryTabs /\ Uploading(k)
        /\ k.pc = "invalidate" /\ UNCHANGED list
    BY <1>3 DEF Gallery!InvalidateAfter, UploadInv, Uploading
  <2>2. urls' = [urls EXCEPT ![k.by] = 0]
    BY <1>3, <2>1 DEF Gallery!Succeeds
  <2>3. k.by = t
    BY <1>0, <2>1, <2>2 DEF UploadInv
  <2>4. k.images \intersect Gallery!Fresh' = {}
    BY <2>1 DEF Uploading, Gallery!Fresh
  <2> QED BY <2>1, <2>3, <2>4 DEF Uploading
<1>4. ASSUME NEW k \in tasks, Gallery!Backend(k) \/ Gallery!Fault(k)
      PROVE  urls' = urls \/ (Gallery!InvalidateAfter(k) /\ k.kind = "urls")
  <2>1. CASE Gallery!ServeBulk(k)
    BY <2>1, SucceedsOf DEF Gallery!ServeBulk
  <2>2. CASE Gallery!CommitMetadata(k)
    <3>1. k.kind # "urls"
      BY <2>2 DEF Gallery!CommitMetadata, UploadInv, Uploading
    <3> QED BY <2>2, <3>1, SucceedsOf DEF Gallery!CommitMetadata
  <2>3. CASE Gallery!InvalidateAfter(k)
    BY <2>3 DEF Gallery!InvalidateAfter, Gallery!uploads
  <2>4. ASSUME Gallery!Lose(k) \/ Gallery!RefuseBulk(k) \/ Gallery!RefuseMetadata(k)
        PROVE  urls' = urls
    BY <2>4 DEF Gallery!Lose, Gallery!RefuseBulk, Gallery!RefuseMetadata, Gallery!Refuse
  <2>5. ASSUME Gallery!RunDelete(k) \/ Gallery!RunBulk(k) \/ Gallery!InvalidateEarly(k)
               \/ Gallery!CreateRows(k) \/ Gallery!Complete(k) \/ Gallery!StopHalfWay(k)
               \/ Gallery!IndexFails(k)
        PROVE  urls' = urls
    BY <2>5 DEF Gallery!RunDelete, Gallery!RunBulk, Gallery!InvalidateEarly,
       Gallery!CreateRows, Gallery!Complete, Gallery!StopHalfWay, Gallery!IndexFails,
       Gallery!uploads
  <2> QED BY <1>4, <2>1, <2>2, <2>3, <2>4, <2>5 DEF Gallery!Backend, Gallery!Fault
<1>5. ASSUME NEW u \in GalleryTabs, Gallery!Page(u) PROVE urls' = urls \/ Gallery!UploadDone(u)
  BY <1>5 DEF Gallery!Page, Gallery!SwitchMode, Gallery!ClearSelection,
     Gallery!CloseSheet, Gallery!ClickCard, Gallery!SubmitMetadata, Gallery!DeleteOne,
     Gallery!OpenSheet, Gallery!TickFields, Gallery!SubmitBulk, Gallery!DeleteSelected,
     Gallery!SaveUrls, Gallery!UploadFiles, Gallery!uploads
<1>6. ASSUME NEW u \in GalleryTabs,
             Gallery!Deliver(u) \/ Gallery!Disconnect(u) \/ Gallery!Reconnect(u)
      PROVE  urls' = urls
  BY <1>6 DEF Gallery!Deliver, Gallery!ServeList, Gallery!ListArrives, Gallery!Hear,
     Gallery!Disconnect, Gallery!Reconnect, Gallery!uploads
<1>7. CASE Gallery!Elsewhere
  BY <1>1, <1>7 DEF Gallery!Elsewhere, Gallery!uploads
<1> QED BY <1>1, <1>2, <1>3, <1>4, <1>5, <1>6, <1>7 DEF Gallery!Next

LEMMA GalleryInvariance == Spec => [](part = "gallery" => GalleryInv)
<1> DEFINE Inv == part = "gallery" => GalleryInv
<1>1. Init => Inv
  BY GalleryInit DEF Init
<1>2. Inv /\ [Next]_vars => Inv'
  BY PartKept, GalleryStep, GalleryStutter
<1> QED BY <1>1, <1>2, PTL DEF Spec

(* gallery.lazy.tsx:67-76: no image is selected outside select mode, when  *)
(* any administrator's bulk action may end it.                             *)
THEOREM SelectionNeedsModeCorrect == Spec => []SelectionNeedsMode
<1>1. (part = "gallery" => GalleryInv) => SelectionNeedsMode
  BY DEF GalleryInv, ChoiceInv, SelectionNeedsMode
<1> QED BY <1>1, GalleryInvariance, PTL

(* gallery-images-upload.tsx:51: no upload is forgotten unsaved, except    *)
(* those that come during a save.                                          *)
THEOREM UploadsAreKeptCorrect == Spec => UploadsAreKept
<1>1. (part = "gallery" => GalleryInv) /\ [Next]_vars
        => [part = "gallery" => Gallery!KeepsUploads]_vars
  BY PartKept, GalleryKeepsUploads
<1> QED BY <1>1, GalleryInvariance, PTL DEF Spec, UploadsAreKept

-----------------------------------------------------------------------------
(* The types of the forms and of the gallery.                              *)

LEMMA Removed ==
  ASSUME NEW S, NEW s \in Seq(S), NEW i \in 1..Len(s)
  PROVE  /\ RemoveAt(s, i) \in Seq(S)
         /\ Len(RemoveAt(s, i)) = Len(s) - 1
         /\ \A j \in 1..Len(s) - 1 :
              RemoveAt(s, i)[j] = IF j < i THEN s[j] ELSE s[j + 1]
<1> DEFINE a == SubSeq(s, 1, i - 1)
           b == SubSeq(s, i + 1, Len(s))
<1>1. /\ a \in Seq(S) /\ Len(a) = i - 1
      /\ \A j \in 1..i - 1 : a[j] = s[j]
  OBVIOUS
<1>2. /\ b \in Seq(S) /\ Len(b) = Len(s) - i
      /\ \A j \in 1..Len(s) - i : b[j] = s[j + i]
  OBVIOUS
<1>3. RemoveAt(s, i) = a \o b
  BY DEF RemoveAt
<1> HIDE DEF a, b
<1>4. /\ a \o b \in Seq(S) /\ Len(a \o b) = Len(s) - 1
  <2>1. a \o b \in Seq(S) /\ Len(a \o b) = Len(a) + Len(b)
    <3>1. a \in Seq(S) /\ b \in Seq(S)
      BY <1>1, <1>2
    <3> QED BY ONLY <3>1
  <2>2. Len(s) \in Nat /\ i \in Nat
    OBVIOUS
  <2> QED BY <1>1, <1>2, <2>1, <2>2
<1>5. ASSUME NEW j \in 1..Len(s) - 1
      PROVE  (a \o b)[j] = IF j < i THEN s[j] ELSE s[j + 1]
  <2>1. CASE j < i
    BY <1>1, <1>2, <2>1
  <2>2. CASE ~(j < i)
    <3>1. (a \o b)[j] = b[j - (i - 1)]
      BY <1>1, <1>2, <2>2
    <3>2. j - (i - 1) \in 1..Len(s) - i /\ j - (i - 1) + i = j + 1
      BY <2>2
    <3> QED BY <1>2, <2>2, <3>1, <3>2
  <2> QED BY <2>1, <2>2
<1> QED BY <1>3, <1>4, <1>5

(* Finite sets: one element in the place of another.                       *)
LEMMA Replaced ==
  ASSUME NEW S, NEW T, NEW k \in S, NEW n, IsFiniteSet(S), T \subseteq (S \ {k}) \union {n}
  PROVE  /\ IsFiniteSet(T) /\ Cardinality(T) \in Nat /\ Cardinality(S) \in Nat
         /\ Cardinality(T) <= Cardinality(S)
         /\ n \notin T => Cardinality(T) < Cardinality(S)
<1> DEFINE A == S \ {k}
           B == A \union {n}
<1>1. /\ IsFiniteSet(A) /\ Cardinality(A) = Cardinality(S) - 1
      /\ Cardinality(S) \in Nat /\ Cardinality(A) \in Nat
  BY FS_RemoveElement, FS_CardinalityType
<1>2. A \subseteq B /\ IsFiniteSet(B) /\ Cardinality(B) \in Nat /\ Cardinality(B) <= Cardinality(A) + 1
  <2> HIDE DEF A
  <2>1. /\ IsFiniteSet(B)
        /\ Cardinality(B) = IF n \in A THEN Cardinality(A) ELSE Cardinality(A) + 1
    BY <1>1, FS_AddElement
  <2>2. Cardinality(B) \in Nat
    BY <2>1, FS_CardinalityType
  <2> QED BY <1>1, <2>1, <2>2
<1>3. T \subseteq B /\ (n \notin T => T \subseteq A)
  OBVIOUS
<1> HIDE DEF A, B
<1>4. IsFiniteSet(T) /\ Cardinality(T) \in Nat /\ Cardinality(T) <= Cardinality(B)
  BY <1>2, <1>3, FS_Subset, FS_CardinalityType
<1>5. n \notin T => Cardinality(T) <= Cardinality(A)
  BY <1>1, <1>3, FS_Subset
<1> QED BY <1>1, <1>2, <1>4, <1>5

LEMMA Joined ==
  ASSUME NEW S, NEW T, NEW n, IsFiniteSet(S), T \subseteq S \union {n}
  PROVE  /\ IsFiniteSet(T) /\ Cardinality(T) \in Nat /\ Cardinality(S) \in Nat
         /\ Cardinality(T) <= Cardinality(S) + 1
         /\ n \notin T => Cardinality(T) <= Cardinality(S)
<1> DEFINE B == S \union {n}
<1>1. /\ IsFiniteSet(B) /\ Cardinality(S) \in Nat
      /\ Cardinality(B) = IF n \in S THEN Cardinality(S) ELSE Cardinality(S) + 1
  BY FS_AddElement, FS_CardinalityType
<1>2. T \subseteq B /\ (n \notin T => T \subseteq S)
  OBVIOUS
<1> HIDE DEF B
<1>3. IsFiniteSet(T) /\ Cardinality(T) \in Nat /\ Cardinality(T) <= Cardinality(B)
  BY <1>1, <1>2, FS_Subset, FS_CardinalityType
<1>4. n \notin T => Cardinality(T) <= Cardinality(S)
  BY <1>2, FS_Subset
<1> QED BY <1>1, <1>3, <1>4


(* The forms.  An announcement on its way is of a request that was made,   *)
(* and so is one still to come.                                            *)
Unannounced == {k \in tasks : k.pc # "done"}
ListTypes ==
  /\ Form!IsList(rows) /\ Form!IsList(shown)
  /\ \A l \in {cached, edge, fetch.data} : l # None => Form!IsList(l)
  /\ fetch.pc \in {"none", "asked", "answered"}
  /\ fetch.pc = "answered" => Form!IsList(fetch.data)
SheetTypes ==
  /\ sheet \in Form!Sheet \union {None} /\ typed \in BOOLEAN
  /\ tasks \subseteq Form!Tasks
  /\ openings \in 0..FormEvents + 1 /\ events \in 0..FormEvents
InboxTypes ==
  /\ online \in BOOLEAN /\ unheard \in BOOLEAN /\ refilled \in BOOLEAN
  /\ IsFiniteSet(tasks) /\ inbox \in Nat
  /\ inbox + Cardinality(Unannounced) <= events
FormTypes == ListTypes /\ SheetTypes /\ InboxTypes

LEMMA FormTypeOK == ASSUME FormTypes PROVE Form!TypeOK
<1>1. inbox \in 0..FormEvents
  <2>1. Cardinality(Unannounced) \in Nat
    <3>1. Unannounced \subseteq tasks /\ IsFiniteSet(tasks)
      BY DEF Unannounced, FormTypes, InboxTypes
    <3> QED BY <3>1, FS_Subset, FS_CardinalityType
  <2> QED BY <2>1, PagesAssumption DEF FormTypes, InboxTypes, SheetTypes
<1> QED BY <1>1 DEF FormTypes, ListTypes, SheetTypes, InboxTypes, Form!TypeOK

LEMMA FormOps ==
  ASSUME form \in FormKinds
  PROVE  form.op \in {"create", "update", "delete"}
BY DEF FormKinds, FormSet, CampaignSet

LEMMA FormTypesInit == ASSUME Form!Init PROVE FormTypes
<1>1. FormEvents \in Nat /\ Cardinality(FormRows) \in Nat
  BY PagesAssumption, RowsAssumption, FS_CardinalityType
<1>2. Form!IsList(rows)
  <2>1. rows = [i \in 1..FirstRows |-> [id |-> i, rev |-> 0]] /\ FirstRows \in Nat
    BY RowsAssumption DEF Form!Init
  <2>2. ASSUME NEW i \in 1..FirstRows PROVE [id |-> i, rev |-> 0] \in Form!Row
    BY <1>1, RowsAssumption DEF Form!Row
  <2>3. rows \in [1..FirstRows -> Form!Row] /\ Len(rows) = FirstRows
    BY <2>1, <2>2
  <2>4. rows \in Seq(Form!Row)
    BY <2>1, <2>3
  <2>5. \A i \in 1..FirstRows : rows[i].id = i
    BY <2>1
  <2> QED BY <2>3, <2>4, <2>5 DEF Form!IsList
<1>3. ListTypes
  <2>1. /\ shown = rows /\ cached = rows /\ edge \in {rows, None}
        /\ fetch.pc = "none" /\ fetch.data = None
    BY DEF Form!Init, Form!Idle
  <2> QED BY <1>2, <2>1 DEF ListTypes
<1>4. SheetTypes
  <2>1. [at |-> 0, row |-> None, no |-> 1] \in Form!Sheet
    BY <1>1 DEF Form!Sheet, Form!Cardinality, Cardinality
  <2>2. /\ sheet \in Form!Sheet \union {None} /\ typed = FALSE /\ tasks = {}
        /\ openings \in {0, 1} /\ events = 0
    BY <2>1 DEF Form!Init
  <2>3. typed \in BOOLEAN
    BY <2>2
  <2>4. openings \in 0..FormEvents + 1 /\ events \in 0..FormEvents
    BY <1>1, <2>2
  <2> QED BY <2>2, <2>3, <2>4 DEF SheetTypes
<1>5. InboxTypes
  <2>1. /\ tasks = {} /\ Unannounced = {} /\ online = TRUE /\ inbox = 0 /\ events = 0
        /\ unheard = FALSE /\ refilled = FALSE
    BY DEF Form!Init, Unannounced
  <2>2. IsFiniteSet(tasks) /\ Cardinality(Unannounced) = 0
    BY <2>1, FS_EmptySet
  <2>3. online \in BOOLEAN /\ unheard \in BOOLEAN /\ refilled \in BOOLEAN
    BY <2>1
  <2>4. inbox \in Nat /\ inbox + Cardinality(Unannounced) <= events
    BY <2>1, <2>2
  <2> QED BY <2>2, <2>3, <2>4 DEF InboxTypes
<1> QED BY <1>3, <1>4, <1>5 DEF FormTypes

(* A new row takes the first number that is free.                          *)
LEMMA FirstRow ==
  ASSUME NEW S \in SUBSET FormRows, S # {}
  PROVE  (CHOOSE i \in S : \A j \in S : i <= j) \in S
<1> DEFINE R == {p \in Nat \X Nat : p[1] < p[2]}
<1>1. S \subseteq Nat /\ IsWellFoundedOn(R, Nat)
  BY RowsAssumption, NatLessThanWellFounded DEF OpToRel
<1>2. PICK i \in S : \A j \in S : ~(<<j, i>> \in R)
  BY <1>1, WFMin
<1>3. ASSUME NEW j \in S PROVE i <= j
  <2>1. <<j, i>> \in Nat \X Nat /\ ~(<<j, i>>[1] < <<j, i>>[2])
    BY <1>1, <1>2
  <2> QED BY <1>1, <2>1
<1> QED BY <1>3

(* The rows after a change; a new row is none of those there are.          *)
LEMMA RowIds ==
  ASSUME NEW l, Form!IsList(l)
  PROVE  /\ l \in Seq(Form!Row) /\ Len(l) \in Nat
         /\ \A i \in 1..Len(l) : /\ l[i] \in Form!Row /\ l[i].id \in FormRows
                                 /\ l[i].rev \in 0..FormEvents /\ l[i].id \in Form!Ids(l)
         /\ Form!Ids(l) \subseteq FormRows
<1>1. l \in Seq(Form!Row) /\ Len(l) \in Nat
  BY DEF Form!IsList
<1>2. ASSUME NEW i \in 1..Len(l)
      PROVE  l[i] \in Form!Row /\ l[i].id \in FormRows /\ l[i].rev \in 0..FormEvents
  <2>1. l[i] \in Form!Row
    BY <1>1
  <2> QED BY <2>1 DEF Form!Row
<1> QED BY <1>1, <1>2 DEF Form!Ids

LEMMA Prepended ==
  ASSUME NEW S, NEW s \in Seq(S), NEW r \in S
  PROVE  /\ <<r>> \o s \in Seq(S) /\ Len(<<r>> \o s) = Len(s) + 1
         /\ (<<r>> \o s)[1] = r
         /\ \A i \in 2..Len(s) + 1 : (<<r>> \o s)[i] = s[i - 1]
<1>1. <<r>> \in Seq(S) /\ Len(<<r>>) = 1 /\ <<r>>[1] = r
  OBVIOUS
<1> QED BY <1>1

LEMMA RowAdded ==
  ASSUME NEW l, Form!IsList(l), NEW r \in Form!Row, r.id \notin Form!Ids(l)
  PROVE  Form!IsList(<<r>> \o l)
<1> DEFINE n == <<r>> \o l
<1>1. l \in Seq(Form!Row) /\ Len(l) \in Nat
  BY RowIds
<1>2. /\ n \in Seq(Form!Row) /\ Len(n) = Len(l) + 1 /\ n[1] = r
      /\ \A i \in 2..Len(l) + 1 : n[i] = l[i - 1]
  BY <1>1, Prepended
<1> HIDE DEF n
<1>3. ASSUME NEW i \in 2..Len(n)
      PROVE  n[i] = l[i - 1] /\ i - 1 \in 1..Len(l) /\ n[i].id \in Form!Ids(l)
  <2>1. n[i] = l[i - 1] /\ i - 1 \in 1..Len(l)
    BY <1>1, <1>2, <1>3
  <2> QED BY <2>1 DEF Form!Ids
<1>4. ASSUME NEW i \in 1..Len(n), NEW j \in 1..Len(n), n[i].id = n[j].id
      PROVE  i = j
  <2>1. CASE i = 1 /\ j # 1
    BY <1>2, <1>3, <1>4, <2>1
  <2>2. CASE i # 1 /\ j = 1
    BY <1>2, <1>3, <1>4, <2>2
  <2>3. CASE i # 1 /\ j # 1
    <3>1. /\ n[i] = l[i - 1] /\ i - 1 \in 1..Len(l)
          /\ n[j] = l[j - 1] /\ j - 1 \in 1..Len(l)
      BY <1>3, <2>3
    <3>2. i - 1 = j - 1
      BY <1>4, <3>1 DEF Form!IsList
    <3> QED BY <3>2
  <2> QED BY <2>1, <2>2, <2>3
<1>5. n \in Seq(Form!Row) /\ \A i, j \in 1..Len(n) : n[i].id = n[j].id => i = j
  BY <1>2, <1>4
<1> QED BY <1>5 DEF n, Form!IsList

LEMMA RowRemoved ==
  ASSUME NEW l, Form!IsList(l), NEW p \in 1..Len(l)
  PROVE  Form!IsList(RemoveAt(l, p))
<1> DEFINE n == RemoveAt(l, p)
<1>1. l \in Seq(Form!Row) /\ Len(l) \in Nat /\ \A i, j \in 1..Len(l) : l[i].id = l[j].id => i = j
  BY DEF Form!IsList
<1>2. /\ n \in Seq(Form!Row) /\ Len(n) = Len(l) - 1
      /\ \A j \in 1..Len(l) - 1 : n[j] = IF j < p THEN l[j] ELSE l[j + 1]
  BY <1>1, Removed
<1> HIDE DEF n
<1>3. ASSUME NEW i \in 1..Len(n), NEW j \in 1..Len(n), n[i].id = n[j].id
      PROVE  i = j
  <2> DEFINE a == IF i < p THEN i ELSE i + 1
             b == IF j < p THEN j ELSE j + 1
  <2>1. a \in 1..Len(l) /\ b \in 1..Len(l) /\ n[i] = l[a] /\ n[j] = l[b]
    BY <1>1, <1>2
  <2>2. a = b
    <3> HIDE DEF a, b
    <3> QED BY <1>1, <1>3, <2>1
  <2> QED BY <1>2, <2>2
<1>4. \A i, j \in 1..Len(n) : n[i].id = n[j].id => i = j
  BY <1>3
<1>5. Form!IsList(n)
  BY <1>2, <1>4 DEF Form!IsList
<1> QED BY <1>5 DEF n

LEMMA RowsChanged ==
  ASSUME Form!IsList(rows), NEW k \in Form!Tasks, NEW l \in Form!Changed(k)
  PROVE  Form!IsList(l)
<1>1. rows \in Seq(Form!Row) /\ Len(rows) \in Nat
  BY RowIds
<1>2. k.no \in 0..FormEvents /\ k.op \in {"create", "update", "delete"}
  BY PagesAssumption DEF Form!Tasks
<1>3. CASE k.op = "create"
  <2> DEFINE new == FormRows \ (Form!Ids(rows) \union {j.row : j \in tasks} \union Form!Ids(shown))
             i == CHOOSE i \in new : \A j \in new : i <= j
             r == [id |-> i, rev |-> k.no]
  <2>1. new # {} /\ l = <<r>> \o rows
    BY <1>3 DEF Form!Changed
  <2>2. i \in new
    <3>1. new \in SUBSET FormRows
      OBVIOUS
    <3> HIDE DEF new
    <3> QED BY <2>1, <3>1, FirstRow
  <2>3. i \in FormRows /\ i \notin Form!Ids(rows)
    BY <2>2
  <2> HIDE DEF new, i
  <2>4. r \in Form!Row /\ r.id = i
    BY <1>2, <2>3 DEF Form!Row
  <2> HIDE DEF r
  <2> QED BY <2>1, <2>3, <2>4, RowAdded
<1>4. CASE k.op = "update"
  <2> DEFINE n == [i \in 1..Len(rows) |->
                     IF k.row \in {None, rows[i].id} THEN [rows[i] EXCEPT !.rev = k.no]
                     ELSE rows[i]]
  <2>1. l = n
    BY <1>4 DEF Form!Changed
  <2>2. ASSUME NEW i \in 1..Len(rows)
        PROVE  n[i] \in Form!Row /\ n[i].id = rows[i].id
    <3>1. rows[i] \in Form!Row
      BY <1>1
    <3> DEFINE m == [rows[i] EXCEPT !.rev = k.no]
    <3>2. m \in Form!Row /\ m.id = rows[i].id
      BY <1>2, <3>1 DEF Form!Row
    <3>3. n[i] \in {m, rows[i]}
      OBVIOUS
    <3> HIDE DEF m, n
    <3> QED BY <3>1, <3>2, <3>3
  <2>3. n = [i \in 1..Len(rows) |-> n[i]]
    OBVIOUS
  <2> HIDE DEF n
  <2>4. n \in [1..Len(rows) -> Form!Row]
    BY <2>2, <2>3
  <2>5. n \in Seq(Form!Row) /\ Len(n) = Len(rows)
    BY <1>1, <2>4
  <2> QED BY <2>1, <2>2, <2>5 DEF Form!IsList
<1>5. CASE k.op = "delete"
  <2>1. PICK p \in 1..Len(rows) : l = RemoveAt(rows, p)
    BY <1>5 DEF Form!Changed, Form!RemoveAt, RemoveAt
  <2> QED BY <2>1, RowRemoved
<1> QED BY <1>2, <1>3, <1>4, <1>5

(* What a reader gets, and what it leaves.                                 *)
LEMMA ReadTypes ==
  ASSUME ListTypes, refilled \in BOOLEAN, NEW d, d # None, d \in {rows, cached, edge}, Form!Read(d)
  PROVE  /\ Form!IsList(d) /\ refilled' \in BOOLEAN
         /\ cached' # None => Form!IsList(cached')
         /\ edge' # None => Form!IsList(edge')
<1>1. /\ Form!IsList(rows) /\ (cached # None => Form!IsList(cached))
      /\ edge # None => Form!IsList(edge)
  BY DEF ListTypes
<1>2. CASE form.list.cdn /\ edge # None
  BY <1>1, <1>2 DEF Form!Read
<1>3. CASE ~(form.list.cdn /\ edge # None)
  <2>1. /\ cached' = (IF cached = None THEN rows ELSE cached)
        /\ edge' = (IF form.list.cdn THEN cached' ELSE None)
        /\ refilled' = (refilled \/ (cached' # rows /\ \E k \in tasks : k.pc = "purged"))
    BY <1>3 DEF Form!Read
  <2>2. refilled' \in BOOLEAN
    BY <2>1
  <2>3. Form!IsList(cached') /\ edge' \in {cached', None}
    BY <1>1, <2>1
  <2> QED BY <1>1, <2>2, <2>3
<1> QED BY <1>2, <1>3

LEMMA ListStep ==
  ASSUME FormTypes, Form!Next
  PROVE  ListTypes'
<1>1. /\ ListTypes /\ Form!IsList(rows) /\ Form!IsList(shown) /\ tasks \subseteq Form!Tasks
      /\ cached # None => Form!IsList(cached)
      /\ edge # None => Form!IsList(edge)
      /\ fetch.data # None => Form!IsList(fetch.data)
      /\ fetch.pc \in {"none", "asked", "answered"}
      /\ fetch.pc = "answered" => Form!IsList(fetch.data)
  BY DEF FormTypes, ListTypes, SheetTypes
<1>2. /\ Form!Asked.pc = "asked" /\ Form!Asked.data = None
      /\ Form!Idle.pc = "none" /\ Form!Idle.data = None
  BY DEF Form!Asked, Form!Idle
<1>3. ASSUME UNCHANGED <<rows, shown, cached, edge, fetch>> PROVE ListTypes'
  BY <1>1, <1>3 DEF ListTypes
<1>4. ASSUME UNCHANGED <<rows, shown, cached, edge>>, fetch' \in {fetch, Form!Asked}
      PROVE  ListTypes'
  <2>1. CASE fetch' = fetch
    BY <1>3, <1>4, <2>1
  <2>2. CASE fetch' = Form!Asked
    BY <1>1, <1>2, <1>4, <2>2 DEF ListTypes
  <2> QED BY <1>4, <2>1, <2>2
<1>5. ASSUME NEW k \in tasks, Form!Commit(k) PROVE ListTypes'
  <2>1. rows' \in Form!Changed(k) /\ UNCHANGED <<shown, cached, edge, fetch>>
    BY <1>5 DEF Form!Commit, Form!copies
  <2>2. Form!IsList(rows')
    BY <1>1, <2>1, RowsChanged
  <2> QED BY <1>1, <2>1, <2>2 DEF ListTypes
<1>6. ASSUME UNCHANGED <<rows, shown, fetch>>, cached' \in {cached, None}, edge' \in {edge, None}
      PROVE  ListTypes'
  <2>1. /\ cached' # None => Form!IsList(cached')
        /\ edge' # None => Form!IsList(edge')
    BY <1>1, <1>6
  <2> QED BY <1>1, <1>6, <2>1 DEF ListTypes
<1>7. ASSUME NEW k \in tasks,
             Form!Purge(k) \/ Form!PurgeFails(k) \/ Form!Invalidate(k) \/ Form!Fails(k)
      PROVE  ListTypes'
  <2>1. /\ UNCHANGED <<rows, shown, fetch>>
        /\ cached' \in {cached, None} /\ edge' \in {edge, None}
    BY <1>7 DEF Form!Purge, Form!PurgeFails, Form!Invalidate, Form!Fails, Form!copies
  <2> QED BY <1>6, <2>1
<1>8. ASSUME NEW k \in tasks, Form!Succeeds(k) PROVE ListTypes'
  <2>1. UNCHANGED <<rows, shown, cached, edge>> /\ fetch' \in {fetch, Form!Asked}
    BY <1>8 DEF Form!Succeeds
  <2> QED BY <1>4, <2>1
<1>9. CASE Form!Visit
  <2>1. PICK d \in {rows, cached} \ {None} : Form!Read(d)
    BY <1>9 DEF Form!Visit
  <2>2. UNCHANGED <<rows, shown, fetch>>
    BY <1>9 DEF Form!Visit
  <2>3. /\ cached' # None => Form!IsList(cached')
        /\ edge' # None => Form!IsList(edge')
    BY <1>1, <2>1, ReadTypes DEF FormTypes, InboxTypes
  <2> QED BY <1>1, <2>2, <2>3 DEF ListTypes
<1>10. CASE Form!ServeList
  <2>1. PICK d \in {rows, cached, edge} \ {None} :
          Form!Read(d) /\ fetch' = [pc |-> "answered", data |-> d]
    BY <1>10 DEF Form!ServeList
  <2>2. UNCHANGED <<rows, shown>>
    BY <1>10 DEF Form!ServeList
  <2>3. /\ Form!IsList(d)
        /\ cached' # None => Form!IsList(cached')
        /\ edge' # None => Form!IsList(edge')
    BY <1>1, <2>1, ReadTypes DEF FormTypes, InboxTypes
  <2>4. fetch'.pc = "answered" /\ fetch'.data = d
    BY <2>1
  <2> QED BY <1>1, <2>2, <2>3, <2>4 DEF ListTypes
<1>11. CASE Form!BrowserServes
  <2>1. UNCHANGED <<rows, shown, cached, edge>> /\ fetch' = [pc |-> "answered", data |-> shown]
    BY <1>11 DEF Form!BrowserServes
  <2>2. fetch'.pc = "answered" /\ fetch'.data = shown
    BY <2>1
  <2> QED BY <1>1, <2>1, <2>2 DEF ListTypes
<1>12. CASE Form!ListArrives
  <2>1. /\ UNCHANGED <<rows, cached, edge>> /\ shown' = fetch.data /\ fetch' = Form!Idle
        /\ fetch.pc = "answered"
    BY <1>12 DEF Form!ListArrives
  <2> QED BY <1>1, <1>2, <2>1 DEF ListTypes
<1>13. CASE Form!Hear \/ Form!Disconnect \/ Form!Reconnect
  <2>1. UNCHANGED <<rows, shown, cached, edge>> /\ fetch' \in {fetch, Form!Asked}
    BY <1>13 DEF Form!Hear, Form!Disconnect, Form!Reconnect, Form!copies
  <2> QED BY <1>4, <2>1
<1>14. ASSUME NEW i, Form!Open(i) PROVE ListTypes'
  BY <1>3, <1>14 DEF Form!Open, Form!copies
<1>15. CASE Form!Type \/ Form!Close \/ Form!Press \/ Form!Elsewhere
  BY <1>3, <1>15 DEF Form!Type, Form!Close, Form!Press, Form!Elsewhere, Form!copies
<1> QED BY <1>5, <1>7, <1>8, <1>9, <1>10, <1>11, <1>12, <1>13, <1>14, <1>15
        DEF Form!Next, Form!Backend, Form!Deliver

(* The requests: their fields, and those of what becomes of them.          *)
LEMMA SentTypes ==
  ASSUME SheetTypes, NEW m \in BOOLEAN, NEW op \in {"create", "update", "delete"},
         NEW row \in FormRows \union {None}, NEW for \in FormRows \union {None},
         NEW opening \in 0..FormEvents + 1, Form!Send(m, op, row, for, opening)
  PROVE  /\ tasks' \subseteq Form!Tasks /\ events' = events + 1 /\ events' \in 0..FormEvents
         /\ \E n : tasks' = tasks \union {n}
<1> DEFINE n == [no |-> events + 1, mine |-> m, op |-> op, row |-> row, for |-> for,
                 opening |-> opening, pc |-> "sent", answered |-> ~m]
<1>1. /\ tasks' = tasks \union {n} /\ events' = events + 1 /\ events < FormEvents
      /\ FormEvents \in Nat /\ events \in 0..FormEvents
  BY PagesAssumption DEF Form!Send, Form!Happens, SheetTypes
<1>2. events + 1 \in 1..FormEvents /\ (~m) \in BOOLEAN
  <2>1. (~m) \in BOOLEAN
    OBVIOUS
  <2> QED BY <1>1, <2>1
<1>3. n \in Form!Tasks
  BY <1>2 DEF Form!Tasks
<1> HIDE DEF n
<1> QED BY <1>1, <1>2, <1>3 DEF SheetTypes

LEMMA StepTypes ==
  ASSUME NEW k \in Form!Tasks
  PROVE  /\ \A p \in {"sent", "committed", "purged", "done"} : [k EXCEPT !.pc = p] \in Form!Tasks
         /\ [k EXCEPT !.answered = TRUE] \in Form!Tasks
BY DEF Form!Tasks

LEMMA BecomesTypes ==
  ASSUME SheetTypes, NEW k \in tasks, NEW n \in Form!Tasks, Form!Becomes(k, n)
  PROVE  tasks' \subseteq Form!Tasks
BY DEF SheetTypes, Form!Becomes

LEMMA SheetTypesKeep ==
  ASSUME SheetTypes, UNCHANGED <<sheet, typed, tasks, openings>>,
         events' = events \/ (Form!Happens /\ events' = events + 1)
  PROVE  SheetTypes'
<1>1. events' \in 0..FormEvents
  BY PagesAssumption DEF SheetTypes, Form!Happens
<1> QED BY <1>1 DEF SheetTypes

LEMMA SheetTypesStep ==
  ASSUME FormTypes, FormInv, Form!Next
  PROVE  SheetTypes'
<1>1. /\ SheetTypes /\ Form!IsList(rows) /\ Form!IsList(shown) /\ tasks \subseteq Form!Tasks
      /\ FormEvents \in Nat /\ events \in 0..FormEvents /\ openings \in 0..FormEvents + 1
      /\ sheet \in Form!Sheet \union {None}
  BY PagesAssumption DEF FormTypes, ListTypes, SheetTypes
<1>2. ASSUME NEW k \in tasks, NEW n \in Form!Tasks, Form!Becomes(k, n), UNCHANGED openings,
             events' = events \/ (Form!Happens /\ events' = events + 1),
             sheet' \in {sheet, None}, typed' \in BOOLEAN
      PROVE  SheetTypes'
  <2>1. events' \in 0..FormEvents
    BY <1>1, <1>2 DEF Form!Happens
  <2>2. tasks' \subseteq Form!Tasks
    BY <1>1, <1>2, BecomesTypes
  <2>3. sheet' \in Form!Sheet \union {None}
    BY <1>1, <1>2
  <2> QED BY <1>1, <1>2, <2>1, <2>2, <2>3 DEF SheetTypes
<1>3. typed \in BOOLEAN
  BY <1>1 DEF SheetTypes
<1>4. ASSUME NEW i \in 0..Form!Cardinality(FormRows), Form!Open(i) PROVE SheetTypes'
  <2> DEFINE r == IF i = 0 THEN None ELSE shown[i].id
             s == [at |-> i, row |-> r, no |-> openings']
  <2>1. /\ openings' = openings + 1 /\ openings + events <= FormEvents
        /\ sheet' = s /\ UNCHANGED <<tasks, events>>
        /\ i = 0 \/ i \in 1..Len(shown)
    BY <1>4 DEF Form!Open, Form!Bounded
  <2>2. typed' \in BOOLEAN
    BY <1>4 DEF Form!Open
  <2>3. r \in FormRows \union {None}
    BY <1>1, <2>1, RowIds
  <2>4. openings' \in 1..FormEvents + 1
    BY <1>1, <2>1
  <2> HIDE DEF r
  <2>5. s \in Form!Sheet
    BY <2>3, <2>4 DEF Form!Sheet
  <2> HIDE DEF s
  <2>6. sheet' \in Form!Sheet \union {None} /\ openings' \in 0..FormEvents + 1
    BY <2>1, <2>4, <2>5
  <2> QED BY <1>1, <2>1, <2>2, <2>6 DEF SheetTypes
<1>5. CASE Form!Type \/ Form!Close
  <2>1. UNCHANGED <<tasks, openings, events>> /\ sheet' \in {sheet, None}
    BY <1>5 DEF Form!Type, Form!Close
  <2>2. typed' \in BOOLEAN
    BY <1>5 DEF Form!Type, Form!Close
  <2>3. sheet' \in Form!Sheet \union {None}
    BY <1>1, <2>1
  <2> QED BY <1>1, <2>1, <2>2, <2>3 DEF SheetTypes
<1>6. CASE Form!Press
  <2> DEFINE o == form.op
             t == Form!Target(sheet)
             f == sheet.row
             n == sheet.no
  <2>1. /\ sheet # None /\ Form!Send(TRUE, o, t, f, n)
        /\ UNCHANGED <<sheet, typed, openings>>
    BY <1>6 DEF Form!Press, Form!page
  <2>2. sheet \in Form!Sheet
    BY <1>1, <2>1
  <2>3. f \in FormRows \union {None} /\ n \in 0..FormEvents + 1 /\ o \in {"create", "update", "delete"}
    BY <1>1, <2>2, FormOps DEF Form!Sheet, FormInv
  <2>4. t \in FormRows \union {None}
    <3>1. CASE sheet.at = 0 \/ form.keyed = "id" \/ form.captures
      BY <2>3, <3>1 DEF Form!Target
    <3>2. CASE ~(sheet.at = 0 \/ form.keyed = "id" \/ form.captures)
      <4>1. sheet.at \in 1..Len(shown)
        BY <2>1, <3>2 DEF FormInv, SheetInv, Form!Gone
      <4>2. t = shown[sheet.at].id
        BY <3>2 DEF Form!Target
      <4> QED BY <1>1, <4>1, <4>2, RowIds
    <3> QED BY <3>1, <3>2
  <2> HIDE DEF o, t, f, n
  <2>5. tasks' \subseteq Form!Tasks /\ events' \in 0..FormEvents
    BY <1>1, <2>1, <2>3, <2>4, SentTypes
  <2> QED BY <1>1, <2>1, <2>5 DEF SheetTypes
<1>7. CASE Form!Elsewhere
  <2>1. UNCHANGED <<sheet, typed, openings>>
    BY <1>7 DEF Form!Elsewhere, Form!page
  <2>2. PICK op \in {"create", "update", "delete"}, r \in FormRows \union {None} :
          Form!Send(FALSE, op, r, r, 0)
    BY <1>1, <1>7, RowIds DEF Form!Elsewhere
  <2>3. 0 \in 0..FormEvents + 1
    BY <1>1
  <2>4. tasks' \subseteq Form!Tasks /\ events' \in 0..FormEvents
    BY <1>1, <2>2, <2>3, SentTypes
  <2> QED BY <1>1, <2>1, <2>4 DEF SheetTypes
<1>8. ASSUME NEW k \in tasks,
             Form!Commit(k) \/ Form!Purge(k) \/ Form!PurgeFails(k) \/ Form!Invalidate(k)
      PROVE  SheetTypes'
  <2>1. PICK p \in {"sent", "committed", "purged", "done"} : Form!Becomes(k, [k EXCEPT !.pc = p])
    BY <1>8 DEF Form!Commit, Form!Purge, Form!PurgeFails, Form!Invalidate, Form!Step
  <2>2. /\ UNCHANGED <<sheet, typed, openings>>
        /\ events' = events \/ (Form!Happens /\ events' = events + 1)
    BY <1>8 DEF Form!Commit, Form!Purge, Form!PurgeFails, Form!Invalidate, Form!page
  <2>3. [k EXCEPT !.pc = p] \in Form!Tasks
    BY <1>1, StepTypes
  <2> QED BY <1>2, <1>3, <2>1, <2>2, <2>3
<1>9. ASSUME NEW k \in tasks, Form!Succeeds(k) PROVE SheetTypes'
  <2>1. Form!Becomes(k, [k EXCEPT !.answered = TRUE]) /\ UNCHANGED <<openings, events>>
    BY <1>9 DEF Form!Succeeds
  <2>2. sheet' \in {sheet, None} /\ typed' \in BOOLEAN
    <3>1. Form!Finish(k)
      BY <1>9 DEF Form!Succeeds
    <3>2. form.ends \in {"then", "keep", "mounted", "stay"}
      BY FormBooleans DEF FormInv
    <3> QED BY <1>3, <3>1, <3>2 DEF Form!Finish
  <2>3. [k EXCEPT !.answered = TRUE] \in Form!Tasks
    BY <1>1, StepTypes
  <2> QED BY <1>2, <2>1, <2>2, <2>3
<1>10. ASSUME NEW k \in tasks, Form!Fails(k) PROVE SheetTypes'
  <2>1. /\ UNCHANGED <<sheet, typed, openings>> /\ tasks' = tasks \ {k}
        /\ events' = events \/ (Form!Happens /\ events' = events + 1)
    BY <1>10 DEF Form!Fails, Form!page
  <2>2. events' \in 0..FormEvents
    BY <1>1, <2>1 DEF Form!Happens
  <2> QED BY <1>1, <2>1, <2>2 DEF SheetTypes
<1>11. CASE Form!ListArrives
  <2>1. UNCHANGED <<tasks, openings, events>> /\ sheet' \in {sheet, None}
    BY <1>11 DEF Form!ListArrives
  <2>2. typed' \in BOOLEAN
    BY <1>11 DEF Form!ListArrives
  <2>3. sheet' \in Form!Sheet \union {None}
    BY <1>1, <2>1
  <2> QED BY <1>1, <2>1, <2>2, <2>3 DEF SheetTypes
<1>12. CASE \/ Form!Visit \/ Form!ServeList \/ Form!BrowserServes \/ Form!Hear
            \/ Form!Disconnect \/ Form!Reconnect
  <2>1. /\ UNCHANGED <<sheet, typed, tasks, openings>>
        /\ events' = events \/ (Form!Happens /\ events' = events + 1)
    BY <1>12 DEF Form!Visit, Form!ServeList, Form!BrowserServes, Form!Hear, Form!Disconnect,
                 Form!Reconnect, Form!page
  <2> QED BY <1>1, <2>1, SheetTypesKeep
<1> QED BY <1>4, <1>5, <1>6, <1>7, <1>8, <1>9, <1>10, <1>11, <1>12
        DEF Form!Next, Form!Backend, Form!Deliver

(* The announcements.                                                      *)
LEMMA UnannouncedTypes ==
  ASSUME InboxTypes
  PROVE  IsFiniteSet(Unannounced) /\ Cardinality(Unannounced) \in Nat
<1>1. Unannounced \subseteq tasks /\ IsFiniteSet(tasks)
  BY DEF Unannounced, InboxTypes
<1> QED BY <1>1, FS_Subset, FS_CardinalityType

LEMMA InboxStep ==
  ASSUME FormTypes, FormInv, Form!Next
  PROVE  InboxTypes'
<1>1. /\ InboxTypes /\ tasks \subseteq Form!Tasks /\ events \in Nat /\ inbox \in Nat
      /\ IsFiniteSet(tasks) /\ inbox + Cardinality(Unannounced) <= events
      /\ IsFiniteSet(Unannounced) /\ Cardinality(Unannounced) \in Nat
  BY UnannouncedTypes, PagesAssumption DEF FormTypes, InboxTypes, SheetTypes
<1>2. online \in BOOLEAN /\ unheard \in BOOLEAN /\ refilled \in BOOLEAN
  BY <1>1 DEF InboxTypes
<1>3. ASSUME UNCHANGED <<online, unheard, inbox>>, refilled' \in BOOLEAN,
             IsFiniteSet(tasks'), Cardinality(Unannounced') \in Nat, events' \in Nat,
             inbox + Cardinality(Unannounced') <= events'
      PROVE  InboxTypes'
  BY <1>1, <1>2, <1>3 DEF InboxTypes
<1>4. ASSUME NEW k \in tasks, k.pc # "done", NEW n, Form!Becomes(k, n)
      PROVE  /\ IsFiniteSet(tasks') /\ Cardinality(Unannounced') \in Nat
             /\ Cardinality(Unannounced') <= Cardinality(Unannounced)
             /\ n.pc = "done" => Cardinality(Unannounced') < Cardinality(Unannounced)
  <2>1. tasks' \subseteq (tasks \ {k}) \union {n} /\ k \in Unannounced
    BY <1>4 DEF Form!Becomes, Unannounced
  <2>2. Unannounced' \subseteq (Unannounced \ {k}) \union {n}
        /\ (n.pc = "done" => n \notin Unannounced')
    BY <2>1 DEF Unannounced
  <2> DEFINE U == Unannounced
             V == Unannounced'
             T == tasks'
  <2>3. IsFiniteSet(T)
    <3>1. T \subseteq (tasks \ {k}) \union {n}
      BY <2>1
    <3> HIDE DEF T
    <3> QED BY <1>1, <3>1, Replaced
  <2>4. /\ Cardinality(V) \in Nat /\ Cardinality(V) <= Cardinality(U)
        /\ n \notin V => Cardinality(V) < Cardinality(U)
    <3>1. V \subseteq (U \ {k}) \union {n} /\ k \in U /\ IsFiniteSet(U)
      BY <1>1, <2>1, <2>2
    <3> HIDE DEF U, V
    <3> QED BY <3>1, Replaced
  <2> QED BY <2>2, <2>3, <2>4
<1>5. ASSUME NEW m, NEW op, NEW row, NEW for, NEW opening,
             Form!Send(m, op, row, for, opening), UNCHANGED <<online, unheard, inbox, refilled>>
      PROVE  InboxTypes'
  <2> DEFINE n == [no |-> events + 1, mine |-> m, op |-> op, row |-> row, for |-> for,
                   opening |-> opening, pc |-> "sent", answered |-> ~m]
             U == Unannounced
             V == Unannounced'
             T == tasks'
  <2>1. T = tasks \union {n} /\ events' = events + 1
    BY <1>5 DEF Form!Send
  <2> HIDE DEF n
  <2>2. V \subseteq U \union {n}
    BY <2>1 DEF Unannounced
  <2> HIDE DEF U, V, T
  <2>3. IsFiniteSet(T)
    BY <1>1, <2>1, FS_AddElement
  <2>4. Cardinality(V) \in Nat /\ Cardinality(V) <= Cardinality(U) + 1
    <3>1. IsFiniteSet(U)
      BY <1>1 DEF U
    <3> QED BY <2>2, <3>1, Joined
  <2>5. refilled' \in BOOLEAN
    BY <1>2, <1>5
  <2> QED BY <1>1, <1>3, <1>5, <2>1, <2>3, <2>4, <2>5 DEF U, V, T
<1>6. CASE Form!Press \/ Form!Elsewhere
  <2>1. PICK m, op, row, for, opening : Form!Send(m, op, row, for, opening)
    BY <1>6 DEF Form!Press, Form!Elsewhere
  <2>2. UNCHANGED <<online, unheard, inbox, refilled>>
    BY <1>6 DEF Form!Press, Form!Elsewhere, Form!net, Form!copies
  <2> QED BY <1>5, <2>1, <2>2
<1>7. ASSUME NEW k \in tasks, Form!Commit(k) \/ Form!Purge(k) \/ Form!PurgeFails(k)
      PROVE  InboxTypes'
  <2>1. PICK n : Form!Becomes(k, n)
    BY <1>7 DEF Form!Commit, Form!Purge, Form!PurgeFails, Form!Step
  <2>2. /\ k.pc # "done" /\ UNCHANGED <<online, unheard, inbox>>
        /\ refilled' = refilled \/ refilled' = TRUE
        /\ events' = events \/ events' = events + 1
    BY <1>7 DEF Form!Commit, Form!Purge, Form!PurgeFails, Form!net, Form!copies
  <2>3. refilled' \in BOOLEAN
    BY <1>2, <2>2
  <2>4. /\ IsFiniteSet(tasks') /\ Cardinality(Unannounced') \in Nat
        /\ Cardinality(Unannounced') <= Cardinality(Unannounced)
    BY <1>4, <2>1, <2>2
  <2>5. events' \in Nat /\ inbox + Cardinality(Unannounced') <= events'
    BY <1>1, <2>2, <2>4
  <2> QED BY <1>3, <2>2, <2>3, <2>4, <2>5
<1>8. ASSUME NEW k \in tasks, Form!Invalidate(k) PROVE InboxTypes'
  <2> DEFINE n == [k EXCEPT !.pc = "done"]
  <2>1. /\ Form!Becomes(k, n) /\ k.pc # "done"
        /\ UNCHANGED <<online, refilled, events>>
        /\ inbox' \in {inbox, inbox + 1} /\ (unheard' = unheard \/ unheard' = TRUE)
    BY <1>8 DEF Form!Invalidate, Form!Step, Form!page
  <2>2. n.pc = "done"
    BY TaskFields DEF FormInv, TaskInv
  <2> HIDE DEF n
  <2>3. /\ IsFiniteSet(tasks') /\ Cardinality(Unannounced') \in Nat
        /\ Cardinality(Unannounced') < Cardinality(Unannounced)
    BY <1>4, <2>1, <2>2
  <2>4. unheard' \in BOOLEAN
    BY <1>2, <2>1
  <2>5. inbox' \in Nat /\ inbox' + Cardinality(Unannounced') <= events'
    BY <1>1, <2>1, <2>3
  <2> QED BY <1>2, <2>1, <2>3, <2>4, <2>5 DEF InboxTypes
<1>9. ASSUME NEW k \in tasks, Form!Succeeds(k) PROVE InboxTypes'
  <2> DEFINE n == [k EXCEPT !.answered = TRUE]
  <2>1. /\ Form!Becomes(k, n)
        /\ UNCHANGED <<online, unheard, inbox, refilled, events>>
    BY <1>9 DEF Form!Succeeds, Form!net
  <2>2. n.pc = k.pc
    BY TaskFields DEF FormInv, TaskInv
  <2> HIDE DEF n
  <2>3. /\ IsFiniteSet(tasks') /\ Cardinality(Unannounced') \in Nat
        /\ Cardinality(Unannounced') <= Cardinality(Unannounced)
    <3>1. CASE k.pc # "done"
      BY <1>4, <2>1, <3>1
    <3>2. CASE k.pc = "done"
      <4>1. Unannounced' \subseteq Unannounced
        BY <2>1, <2>2, <3>2 DEF Form!Becomes, Unannounced
      <4>2. tasks' \subseteq tasks \union {n}
        BY <2>1 DEF Form!Becomes
      <4> DEFINE U == Unannounced
                 V == Unannounced'
                 T == tasks'
      <4>3. V \subseteq U /\ IsFiniteSet(U) /\ T \subseteq tasks \union {n}
        BY <1>1, <4>1, <4>2
      <4> HIDE DEF U, V, T
      <4>4. Cardinality(V) \in Nat /\ Cardinality(V) <= Cardinality(U)
        BY <4>3, FS_Subset, FS_CardinalityType
      <4>5. IsFiniteSet(T)
        BY <1>1, <4>3, Joined
      <4> QED BY <4>4, <4>5 DEF U, V, T
    <3> QED BY <3>1, <3>2
  <2>4. refilled' \in BOOLEAN
    BY <1>2, <2>1
  <2>5. events' \in Nat /\ inbox + Cardinality(Unannounced') <= events'
    BY <1>1, <2>1, <2>3
  <2> QED BY <1>3, <2>1, <2>3, <2>4, <2>5
<1>10. ASSUME NEW k \in tasks, Form!Fails(k) PROVE InboxTypes'
  <2>1. /\ tasks' = tasks \ {k} /\ k.pc = "sent"
        /\ UNCHANGED <<online, unheard, inbox, refilled>>
        /\ events' = events \/ events' = events + 1
    BY <1>10 DEF Form!Fails, Form!net, Form!copies
  <2> DEFINE U == Unannounced
             V == Unannounced'
             T == tasks'
  <2>2. V \subseteq U /\ IsFiniteSet(U) /\ T \subseteq tasks
    BY <1>1, <2>1 DEF Unannounced
  <2> HIDE DEF U, V, T
  <2>3. /\ IsFiniteSet(T) /\ Cardinality(V) \in Nat /\ Cardinality(V) <= Cardinality(U)
    BY <1>1, <2>2, FS_Subset, FS_CardinalityType
  <2>4. refilled' \in BOOLEAN
    BY <1>2, <2>1
  <2>5. events' \in Nat /\ inbox + Cardinality(Unannounced') <= events'
    BY <1>1, <2>1, <2>3 DEF U, V
  <2> QED BY <1>3, <2>1, <2>3, <2>4, <2>5 DEF V, T
<1>11. ASSUME UNCHANGED tasks
       PROVE  Unannounced' = Unannounced
  BY <1>11 DEF Unannounced
<1>12. ASSUME UNCHANGED <<tasks, events, online, unheard, inbox>>, refilled' \in BOOLEAN
       PROVE  InboxTypes'
  BY <1>1, <1>2, <1>11, <1>12 DEF InboxTypes
<1>13. ASSUME Form!Visit \/ Form!ServeList PROVE InboxTypes'
  <2>1. PICK d \in {rows, cached, edge} \ {None} : Form!Read(d)
    BY <1>13 DEF Form!Visit, Form!ServeList
  <2>2. UNCHANGED <<tasks, events, online, unheard, inbox>>
    BY <1>13 DEF Form!Visit, Form!ServeList, Form!net
  <2>3. refilled' \in BOOLEAN
    BY <1>2, <2>1, ReadTypes DEF FormTypes
  <2> QED BY <1>12, <2>2, <2>3
<1>14. CASE Form!Type \/ Form!Close \/ Form!BrowserServes \/ Form!ListArrives
  <2>1. UNCHANGED <<tasks, events, online, unheard, inbox, refilled>>
    BY <1>14 DEF Form!Type, Form!Close, Form!BrowserServes, Form!ListArrives, Form!net,
                 Form!copies
  <2>2. refilled' \in BOOLEAN
    BY <1>2, <2>1
  <2> QED BY <1>12, <2>1, <2>2
<1>15. ASSUME NEW i, Form!Open(i) PROVE InboxTypes'
  <2>1. UNCHANGED <<tasks, events, online, unheard, inbox, refilled>>
    BY <1>15 DEF Form!Open, Form!net, Form!copies
  <2>2. refilled' \in BOOLEAN
    BY <1>2, <2>1
  <2> QED BY <1>12, <2>1, <2>2
<1>16. CASE Form!Hear \/ Form!Disconnect \/ Form!Reconnect
  <2>1. /\ UNCHANGED <<tasks, refilled>> /\ events' \in {events, events + 1}
        /\ inbox' \in {inbox, inbox - 1, 0} /\ (inbox' = inbox - 1 => inbox > 0)
    BY <1>1, <1>16 DEF Form!Hear, Form!Disconnect, Form!Reconnect, Form!copies
  <2>2. online' \in BOOLEAN /\ unheard' \in BOOLEAN
    BY <1>2, <1>16 DEF Form!Hear, Form!Disconnect, Form!Reconnect
  <2>3. inbox' \in Nat /\ inbox' + Cardinality(Unannounced) <= events'
    BY <1>1, <2>1
  <2>4. refilled' \in BOOLEAN
    BY <1>2, <2>1
  <2>5. Unannounced' = Unannounced
    BY <1>11, <2>1
  <2> QED BY <1>1, <2>1, <2>2, <2>3, <2>4, <2>5 DEF InboxTypes
<1> QED BY <1>6, <1>7, <1>8, <1>9, <1>10, <1>13, <1>14, <1>15, <1>16
        DEF Form!Next, Form!Backend, Form!Deliver

LEMMA FormTypesStutter == ASSUME FormTypes, UNCHANGED vars PROVE FormTypes'
<1>1. UNCHANGED <<rows, cached, edge, shown, fetch, online, inbox, sheet, typed, tasks,
                  openings, events, unheard, refilled>>
  BY DEF vars, OfForm, Lists, Sheets
<1>2. Unannounced' = Unannounced
  BY <1>1 DEF Unannounced
<1> QED BY <1>1, <1>2 DEF FormTypes, ListTypes, SheetTypes, InboxTypes

LEMMA FormTypesHold == Spec => [](part = "form" => Form!TypeOK)
<1> DEFINE Typed == part = "form" => FormTypes
           Inv == part = "form" => FormInv
<1>1. Init => Typed
  BY FormTypesInit DEF Init
<1>2. Typed /\ Inv /\ [Next]_vars => Typed'
  <2>1. ASSUME FormTypes, FormInv, Form!Next PROVE FormTypes'
    BY <2>1, ListStep, SheetTypesStep, InboxStep DEF FormTypes
  <2> QED BY <2>1, PartKept, FormTypesStutter
<1>3. Typed => (part = "form" => Form!TypeOK)
  BY FormTypeOK
<1>4. Spec => []Inv
  BY FormInvariance
<1> QED BY <1>1, <1>2, <1>3, <1>4, PTL DEF Spec

(* The gallery.  A request still to change the images is one of those      *)
(* counted, and so is every change made.                                   *)
Requested == [id : 1..GalleryEvents, by : GalleryTabs \union {None}, kind : Gallery!Requests,
              images : SUBSET Images, linked : SUBSET Images,
              end : {"completed", "partial"}, pc : Gallery!Steps]
Waiting == {"sent", "queued", "announced"}
Uncommitted == {k \in tasks : k.pc \in Waiting}
WorkTypes ==
  /\ tasks \subseteq Requested /\ IsFiniteSet(tasks)
  /\ writes \in 0..GalleryEvents /\ faults \in 0..GalleryEvents
  /\ list \in [row : [Images -> Gallery!RowStates], rev : Nat]
  /\ list.rev + Cardinality(Uncommitted) <= writes
CopyTypes ==
  /\ cached \in Gallery!List \union {None}
  /\ shown \in [GalleryTabs -> Gallery!List]
  /\ fetch \in [GalleryTabs -> [pc : {"none", "asked", "answered"},
                                data : Gallery!List \union {None}]]
  /\ \A t \in GalleryTabs : fetch[t].pc = "answered" => fetch[t].data \in Gallery!List
ChoiceTypes ==
  /\ mode \in [GalleryTabs -> BOOLEAN] /\ selected \in [GalleryTabs -> SUBSET Images]
  /\ sheet \in [GalleryTabs -> Gallery!Sheets] /\ ticked \in [GalleryTabs -> SUBSET Fields]
UploadTypes ==
  /\ urls \in [GalleryTabs -> Nat] /\ late \in [GalleryTabs -> Nat]
  /\ \A t \in GalleryTabs : late[t] <= urls[t] /\ urls[t] <= Cardinality(Images)
  /\ saving \in [GalleryTabs -> BOOLEAN]
LineTypes == online \in [GalleryTabs -> BOOLEAN] /\ InboxInv /\ unheard \in BOOLEAN
GalleryTypes == WorkTypes /\ CopyTypes /\ ChoiceTypes /\ UploadTypes /\ LineTypes

LEMMA ListTyped ==
  ASSUME WorkTypes
  PROVE  list \in Gallery!List
<1>1. Uncommitted \subseteq tasks /\ IsFiniteSet(tasks)
  BY DEF Uncommitted, WorkTypes
<1>2. Cardinality(Uncommitted) \in Nat
  BY <1>1, FS_Subset, FS_CardinalityType
<1>3. list.rev \in Nat /\ list.rev <= GalleryEvents /\ GalleryEvents \in Nat
  BY <1>2, PagesAssumption DEF WorkTypes
<1>4. list = [row |-> list.row, rev |-> list.rev] /\ list.row \in [Images -> Gallery!RowStates]
  BY DEF WorkTypes
<1> QED BY <1>3, <1>4 DEF Gallery!List

LEMMA GalleryTypeOK == ASSUME GalleryTypes PROVE Gallery!TypeOK
<1>1. Cardinality(Images) \in Nat
  BY ImagesAssumption, FS_CardinalityType
<1>2. /\ urls \in [GalleryTabs -> 0..Gallery!Cardinality(Images)]
      /\ late \in [GalleryTabs -> 0..Gallery!Cardinality(Images)]
  <2> DEFINE c == Cardinality(Images)
  <2>1. Gallery!Cardinality(Images) = c
    BY DEF Gallery!Cardinality, Cardinality
  <2>2. /\ c \in Nat /\ urls \in [GalleryTabs -> Nat] /\ late \in [GalleryTabs -> Nat]
        /\ \A t \in GalleryTabs : late[t] <= urls[t] /\ urls[t] <= c
    BY <1>1 DEF GalleryTypes, UploadTypes
  <2> HIDE DEF c
  <2>3. \A t \in GalleryTabs : urls[t] \in 0..c /\ late[t] \in 0..c
    BY <2>2
  <2> QED BY <2>1, <2>2, <2>3
<1>3. list \in Gallery!List
  BY ListTyped DEF GalleryTypes
<1> QED BY <1>2, <1>3 DEF GalleryTypes, WorkTypes, CopyTypes, ChoiceTypes, UploadTypes,
                          LineTypes, InboxInv, Requested, Gallery!TypeOK

LEMMA GalleryTypesInit == ASSUME Gallery!Init PROVE GalleryTypes
<1>1. GalleryEvents \in Nat /\ Cardinality(Images) \in Nat
  BY PagesAssumption, ImagesAssumption, FS_CardinalityType
<1>2. PICK b \in Galleries : list = [row |-> b, rev |-> 0]
  BY DEF Gallery!Init
<1>3. /\ list.rev = 0 /\ list \in Gallery!List
      /\ list \in [row : [Images -> Gallery!RowStates], rev : Nat]
  BY <1>1, <1>2, ImagesAssumption DEF Gallery!List
<1>4. WorkTypes
  <2>1. tasks = {} /\ Uncommitted = {} /\ writes = 0 /\ faults = 0
    BY DEF Gallery!Init, Uncommitted
  <2>2. IsFiniteSet(tasks) /\ Cardinality(Uncommitted) = 0
    BY <2>1, FS_EmptySet
  <2> QED BY <1>1, <1>3, <2>1, <2>2 DEF WorkTypes
<1>5. CopyTypes
  <2>1. /\ cached = None /\ shown = [t \in GalleryTabs |-> list]
        /\ fetch = [t \in GalleryTabs |-> [pc |-> "none", data |-> None]]
    BY DEF Gallery!Init, Gallery!Idle
  <2> QED BY <1>3, <2>1 DEF CopyTypes
<1>6. ChoiceTypes /\ UploadTypes
  <2>1. "none" \in Gallery!Sheets
    BY DEF Gallery!Sheets
  <2>2. ChoiceTypes
    BY <2>1 DEF Gallery!Init, ChoiceTypes
  <2>3. UploadTypes
    <3>1. /\ urls = [t \in GalleryTabs |-> 0] /\ late = [t \in GalleryTabs |-> 0]
          /\ saving = [t \in GalleryTabs |-> FALSE]
      BY DEF Gallery!Init
    <3> QED BY <1>1, <3>1 DEF UploadTypes
  <2> QED BY <2>2, <2>3
<1>7. LineTypes
  <2>1. unheard \in BOOLEAN
    BY DEF Gallery!Init
  <2>2. online \in [GalleryTabs -> BOOLEAN]
    BY DEF Gallery!Init
  <2>3. InboxInv
    BY GalleryInit DEF GalleryInv
  <2> QED BY <2>1, <2>2, <2>3 DEF LineTypes
<1> QED BY <1>4, <1>5, <1>6, <1>7 DEF GalleryTypes

LEMMA RequestedSteps ==
  ASSUME NEW k \in Requested
  PROVE  /\ Asking(k) /\ k.images \subseteq Images /\ k.linked \subseteq Images
         /\ \A p \in Gallery!Steps : [k EXCEPT !.pc = p] \in Requested /\ [k EXCEPT !.pc = p].pc = p
         /\ \A a, b \in SUBSET Images : [k EXCEPT !.images = a, !.linked = b] \in Requested
         /\ \A e \in {"completed", "partial"} : [k EXCEPT !.end = e] \in Requested
<1>1. Asking(k) /\ k.images \subseteq Images /\ k.linked \subseteq Images
  BY DEF Requested, Asking
<1>2. ASSUME NEW p \in Gallery!Steps
      PROVE  [k EXCEPT !.pc = p] \in Requested /\ [k EXCEPT !.pc = p].pc = p
  BY DEF Requested
<1>3. ASSUME NEW a \in SUBSET Images, NEW b \in SUBSET Images
      PROVE  [k EXCEPT !.images = a, !.linked = b] \in Requested
  BY DEF Requested
<1>4. ASSUME NEW e \in {"completed", "partial"} PROVE [k EXCEPT !.end = e] \in Requested
  BY DEF Requested
<1> QED BY <1>1, <1>2, <1>3, <1>4

Committed == /\ list' \in [row : [Images -> Gallery!RowStates], rev : Nat]
             /\ list'.rev = list.rev + 1

LEMMA CommitTypes ==
  ASSUME WorkTypes, NEW S, NEW state \in Gallery!RowStates, Gallery!Commit(S, state)
  PROVE  Committed
<1> DEFINE r == [i \in Images |-> IF i \in S THEN state ELSE list.row[i]]
<1>1. list' = [row |-> r, rev |-> list.rev + 1]
  BY DEF Gallery!Commit
<1>2. list.row \in [Images -> Gallery!RowStates] /\ list.rev \in Nat
  BY DEF WorkTypes
<1>3. r \in [Images -> Gallery!RowStates]
  BY <1>2
<1> HIDE DEF r
<1> QED BY <1>1, <1>2, <1>3 DEF Committed

(* A request changes its state, or is forgotten; the images change only    *)
(* when it stops being one that will change them.                          *)
LEMMA WorkOf ==
  ASSUME WorkTypes, NEW k \in tasks, NEW n \in Requested,
         tasks' \subseteq (tasks \ {k}) \union {n}, UNCHANGED writes,
         faults' \in 0..GalleryEvents,
         \/ UNCHANGED list /\ (k.pc \in Waiting \/ n.pc \notin Waiting)
         \/ k.pc \in Waiting /\ n.pc \notin Waiting /\ Committed
  PROVE  WorkTypes'
<1> DEFINE U == Uncommitted
           V == Uncommitted'
           T == tasks'
<1>1. /\ tasks \subseteq Requested /\ IsFiniteSet(tasks) /\ list.rev \in Nat /\ writes \in Nat
      /\ list \in [row : [Images -> Gallery!RowStates], rev : Nat]
      /\ list.rev + Cardinality(U) <= writes /\ writes \in 0..GalleryEvents
  BY PagesAssumption DEF WorkTypes
<1>2. /\ T \subseteq (tasks \ {k}) \union {n}
      /\ U \subseteq tasks /\ V \subseteq (U \ {k}) \union {n}
      /\ n.pc \notin Waiting => n \notin V
      /\ k \in U <=> k.pc \in Waiting
  BY DEF Uncommitted
<1>3. k.pc \notin Waiting /\ n.pc \notin Waiting => V \subseteq U
  BY <1>2
<1> HIDE DEF U, V, T
<1>4. IsFiniteSet(T) /\ T \subseteq Requested
  BY <1>1, <1>2, Replaced
<1>5. IsFiniteSet(U) /\ Cardinality(U) \in Nat
  BY <1>1, <1>2, FS_Subset, FS_CardinalityType
<1>6. CASE k.pc \in Waiting
  <2>1. /\ Cardinality(V) \in Nat /\ Cardinality(V) <= Cardinality(U)
        /\ n.pc \notin Waiting => Cardinality(V) < Cardinality(U)
    BY <1>2, <1>5, <1>6, Replaced
  <2>2. CASE UNCHANGED list
    <3>1. list'.rev + Cardinality(V) <= writes'
      BY <1>1, <1>5, <2>1, <2>2
    <3> QED BY <1>1, <1>4, <2>2, <3>1 DEF T, V, WorkTypes
  <2>3. CASE n.pc \notin Waiting /\ Committed
    <3>1. /\ list' \in [row : [Images -> Gallery!RowStates], rev : Nat]
          /\ list'.rev = list.rev + 1
      BY <2>3 DEF Committed
    <3>2. list'.rev + Cardinality(V) <= writes'
      BY <1>1, <1>5, <2>1, <2>3, <3>1
    <3> QED BY <1>1, <1>4, <3>1, <3>2 DEF T, V, WorkTypes
  <2> QED BY <2>2, <2>3
<1>7. CASE k.pc \notin Waiting
  <2>1. UNCHANGED list /\ n.pc \notin Waiting
    BY <1>7
  <2>2. Cardinality(V) \in Nat /\ Cardinality(V) <= Cardinality(U)
    BY <1>3, <1>5, <1>7, <2>1, FS_Subset, FS_CardinalityType
  <2>3. list'.rev + Cardinality(V) <= writes'
    BY <1>1, <1>5, <2>1, <2>2
  <2> QED BY <1>1, <1>4, <2>1, <2>3 DEF T, V, WorkTypes
<1> QED BY <1>6, <1>7

LEMMA WorkKeeps ==
  ASSUME WorkTypes, UNCHANGED <<tasks, list, writes>>, faults' \in 0..GalleryEvents
  PROVE  WorkTypes'
<1>1. Uncommitted' = Uncommitted
  BY DEF Uncommitted
<1> QED BY <1>1 DEF WorkTypes

LEMMA RequestTypes ==
  ASSUME WorkTypes, NEW t \in GalleryTabs \union {None}, NEW what \in Gallery!Requests,
         NEW images \in SUBSET Images, Gallery!Request(t, what, images),
         UNCHANGED <<list, faults>>
  PROVE  WorkTypes'
<1> DEFINE n == [id |-> writes + 1, by |-> t, kind |-> what, images |-> images,
                 linked |-> {}, end |-> "completed", pc |-> "sent"]
           U == Uncommitted
           V == Uncommitted'
           T == tasks'
<1>1. /\ T = tasks \union {n} /\ writes' = writes + 1 /\ writes + faults < GalleryEvents
  BY DEF Gallery!Request, Gallery!Happens
<1>2. /\ tasks \subseteq Requested /\ IsFiniteSet(tasks) /\ list.rev \in Nat
      /\ writes \in 0..GalleryEvents /\ faults \in 0..GalleryEvents /\ GalleryEvents \in Nat
      /\ list.rev + Cardinality(U) <= writes
  BY PagesAssumption DEF WorkTypes
<1>3. writes + 1 \in 1..GalleryEvents
  BY <1>1, <1>2
<1>4. n \in Requested
  BY <1>3 DEF Requested, Gallery!Steps
<1> HIDE DEF n
<1>5. V \subseteq U \union {n} /\ U \subseteq tasks
  BY <1>1 DEF Uncommitted
<1> HIDE DEF U, V, T
<1>6. IsFiniteSet(T) /\ T \subseteq Requested
  BY <1>1, <1>2, <1>4, FS_AddElement
<1>7. IsFiniteSet(U) /\ Cardinality(U) \in Nat
  BY <1>2, <1>5, FS_Subset, FS_CardinalityType
<1>8. Cardinality(V) \in Nat /\ Cardinality(V) <= Cardinality(U) + 1
  BY <1>5, <1>7, Joined
<1>9. writes' \in 0..GalleryEvents /\ list'.rev + Cardinality(V) <= writes'
  BY <1>1, <1>2, <1>3, <1>7, <1>8
<1> QED BY <1>6, <1>9 DEF T, V, WorkTypes

LEMMA FaultTypes ==
  ASSUME WorkTypes, Gallery!Happens \/ faults' = faults, faults' \in {faults, faults + 1}
  PROVE  faults' \in 0..GalleryEvents
BY PagesAssumption DEF WorkTypes, Gallery!Happens

LEMMA WorkStep ==
  ASSUME WorkTypes, ChoiceTypes, Gallery!Next
  PROVE  WorkTypes'
<1>0. /\ tasks \subseteq Requested
      /\ {"bulk", "confirm", "edit", "none"} = Gallery!Sheets
      /\ {"delete", "bulk", "create", "update", "urls", "files"} = Gallery!Requests
      /\ \A k \in tasks : k.images \subseteq Images
      /\ \A t \in GalleryTabs : selected[t] \in SUBSET Images
      /\ \A l : Gallery!In(l) \subseteq Images
      /\ Gallery!Fresh \subseteq Images /\ Gallery!Rows \subseteq Images
      /\ faults \in 0..GalleryEvents
  BY RequestedSteps DEF WorkTypes, ChoiceTypes, Gallery!Sheets, Gallery!Requests, Gallery!In,
                        Gallery!Fresh, Gallery!Rows
<1>1. ASSUME NEW t \in GalleryTabs, Gallery!Page(t) PROVE WorkTypes'
  <2>1. ASSUME UNCHANGED <<list, tasks, writes, faults>> PROVE WorkTypes'
    BY <1>0, <2>1, WorkKeeps
  <2>2. ASSUME NEW what \in Gallery!Requests, NEW images \in SUBSET Images,
               Gallery!Request(t, what, images), UNCHANGED <<list, faults>>
        PROVE  WorkTypes'
    BY <2>2, RequestTypes
  <2>3. CASE Gallery!SwitchMode(t) \/ Gallery!ClearSelection(t) \/ Gallery!CloseSheet(t)
             \/ Gallery!UploadDone(t)
    BY <2>1, <2>3 DEF Gallery!SwitchMode, Gallery!ClearSelection, Gallery!CloseSheet,
                      Gallery!UploadDone, Gallery!history
  <2>4. ASSUME NEW x, Gallery!ClickCard(t, x) \/ Gallery!OpenSheet(t, x) \/ Gallery!TickFields(t, x)
        PROVE  WorkTypes'
    BY <2>1, <2>4 DEF Gallery!ClickCard, Gallery!OpenSheet, Gallery!TickFields, Gallery!history
  <2>5. ASSUME NEW i \in Images, Gallery!SubmitMetadata(t, i) PROVE WorkTypes'
    <3>1. UNCHANGED <<list, faults>>
      BY <2>5 DEF Gallery!SubmitMetadata
    <3>2. PICK what \in {"update", "create"} : Gallery!Request(t, what, {i})
      BY <2>5 DEF Gallery!SubmitMetadata
    <3>3. what \in Gallery!Requests /\ {i} \in SUBSET Images
      BY DEF Gallery!Requests
    <3> QED BY <2>2, <3>1, <3>2, <3>3
  <2>6. ASSUME NEW i \in Images, Gallery!DeleteOne(t, i) PROVE WorkTypes'
    <3>1. UNCHANGED <<list, faults>> /\ Gallery!Request(t, "delete", {i})
      BY <2>6 DEF Gallery!DeleteOne
    <3>2. "delete" \in Gallery!Requests /\ {i} \in SUBSET Images
      BY DEF Gallery!Requests
    <3> QED BY <2>2, <3>1, <3>2
  <2>7. ASSUME Gallery!SubmitBulk(t) \/ Gallery!DeleteSelected(t) PROVE WorkTypes'
    <3>1. UNCHANGED <<list, faults>>
      BY <2>7 DEF Gallery!SubmitBulk, Gallery!DeleteSelected
    <3>2. PICK what \in {"bulk", "delete"} : Gallery!Request(t, what, selected[t])
      BY <2>7 DEF Gallery!SubmitBulk, Gallery!DeleteSelected
    <3>3. what \in Gallery!Requests
      BY DEF Gallery!Requests
    <3> QED BY <1>0, <2>2, <3>1, <3>2, <3>3
  <2>8. ASSUME Gallery!SaveUrls(t) \/ Gallery!UploadFiles(t) PROVE WorkTypes'
    <3>1. UNCHANGED <<list, faults>>
      BY <2>8 DEF Gallery!SaveUrls, Gallery!UploadFiles
    <3>2. PICK what \in {"urls", "files"}, S \in SUBSET Gallery!Fresh : Gallery!Request(t, what, S)
      BY <2>8 DEF Gallery!SaveUrls, Gallery!UploadFiles
    <3>3. what \in Gallery!Requests /\ S \in SUBSET Images
      BY <1>0 DEF Gallery!Requests
    <3> QED BY <2>2, <3>1, <3>2, <3>3
  <2> QED BY <1>1, <2>3, <2>4, <2>5, <2>6, <2>7, <2>8 DEF Gallery!Page
<1>2. CASE Gallery!Elsewhere
  <2>1. UNCHANGED <<list, faults>>
    BY <1>2 DEF Gallery!Elsewhere
  <2>2. PICK i \in Images, what \in Gallery!Requests : Gallery!Request(None, what, {i})
    BY <1>0, <1>2 DEF Gallery!Elsewhere
  <2>3. {i} \in SUBSET Images /\ None \in GalleryTabs \union {None}
    OBVIOUS
  <2> QED BY <2>1, <2>2, <2>3, RequestTypes
<1>3. ASSUME NEW t \in GalleryTabs,
             Gallery!Deliver(t) \/ Gallery!Disconnect(t) \/ Gallery!Reconnect(t)
      PROVE  WorkTypes'
  <2>1. /\ UNCHANGED <<tasks, list, writes>> /\ faults' \in {faults, faults + 1}
        /\ Gallery!Happens \/ faults' = faults
    BY <1>3 DEF Gallery!Deliver, Gallery!ServeList, Gallery!ListArrives, Gallery!Hear,
                Gallery!Disconnect, Gallery!Reconnect, Gallery!history
  <2> QED BY <2>1, FaultTypes, WorkKeeps
<1>4. ASSUME NEW k \in tasks, tasks' = tasks \ {k}, UNCHANGED <<list, writes>>,
             faults' \in 0..GalleryEvents
      PROVE  WorkTypes'
  <2> DEFINE n == [k EXCEPT !.pc = "complete"]
  <2>1. n \in Requested /\ n.pc \notin Waiting
    BY <1>0, RequestedSteps DEF Gallery!Steps, Waiting
  <2> HIDE DEF n
  <2> QED BY <1>4, <2>1, WorkOf
<1>5. ASSUME NEW k \in tasks, tasks' = tasks \ {k}, UNCHANGED writes, k.pc \in Waiting,
             faults' \in 0..GalleryEvents, Committed
      PROVE  WorkTypes'
  <2> DEFINE n == [k EXCEPT !.pc = "complete"]
  <2>1. n \in Requested /\ n.pc \notin Waiting
    BY <1>0, RequestedSteps DEF Gallery!Steps, Waiting
  <2> HIDE DEF n
  <2> QED BY <1>5, <2>1, WorkOf
<1>6. ASSUME NEW k \in tasks, NEW p \in Gallery!Steps, Gallery!Move(k, p), UNCHANGED writes,
             faults' \in 0..GalleryEvents,
             \/ UNCHANGED list /\ (k.pc \in Waiting \/ p \notin Waiting)
             \/ k.pc \in Waiting /\ p \notin Waiting /\ Committed
      PROVE  WorkTypes'
  <2> DEFINE n == [k EXCEPT !.pc = p]
  <2>1. n \in Requested /\ n.pc = p
    BY <1>0, RequestedSteps
  <2>2. tasks' = (tasks \ {k}) \union {n}
    BY <1>6 DEF Gallery!Move
  <2> HIDE DEF n
  <2> QED BY <1>6, <2>1, <2>2, WorkOf
<1>7. /\ "sent" \in Waiting /\ "queued" \in Waiting /\ "announced" \in Waiting
      /\ "invalidate" \notin Waiting /\ "complete" \notin Waiting
      /\ {"queued", "announced", "invalidate", "complete"} \subseteq Gallery!Steps
      /\ {"loose", "linked", "gone"} \subseteq Gallery!RowStates
  BY DEF Waiting, Gallery!Steps, Gallery!RowStates
<1>8. ASSUME NEW k \in tasks, Gallery!ServeBulk(k) PROVE WorkTypes'
  <2> DEFINE a == k.images \intersect Gallery!Rows
             b == Gallery!Linked(k.images)
             m == [k EXCEPT !.pc = "queued"]
             n == [m EXCEPT !.images = a, !.linked = b]
  <2>1. /\ tasks' = (tasks \ {k}) \union
                      {[k EXCEPT !.pc = "queued", !.images = @ \intersect Gallery!Rows,
                                 !.linked = Gallery!Linked(k.images)]}
        /\ k.pc = "sent" /\ UNCHANGED <<list, writes, faults>>
    BY <1>8 DEF Gallery!ServeBulk, Gallery!history
  <2>2. [k EXCEPT !.pc = "queued", !.images = @ \intersect Gallery!Rows,
                  !.linked = Gallery!Linked(k.images)] = n
    BY <1>0 DEF Requested
  <2>3. a \in SUBSET Images /\ b \in SUBSET Images
    BY <1>0 DEF Gallery!Linked
  <2>4. m \in Requested
    BY <1>0, <1>7, RequestedSteps
  <2> HIDE DEF a, b, m
  <2>5. n \in Requested
    BY <2>3, <2>4, RequestedSteps
  <2> HIDE DEF n
  <2> QED BY <1>0, <1>7, <2>1, <2>2, <2>5, WorkOf
<1>9. ASSUME NEW k \in tasks, Gallery!RefuseBulk(k) \/ Gallery!RefuseMetadata(k) \/ Gallery!Lose(k)
      PROVE  WorkTypes'
  <2>1. /\ tasks' = tasks \ {k} /\ UNCHANGED <<list, writes>> /\ faults' \in {faults, faults + 1}
        /\ Gallery!Happens \/ faults' = faults
    BY <1>9 DEF Gallery!RefuseBulk, Gallery!RefuseMetadata, Gallery!Lose, Gallery!Refuse
  <2> QED BY <1>4, <2>1, FaultTypes
<1>10. ASSUME NEW k \in tasks, Gallery!RunDelete(k) PROVE WorkTypes'
  <2>1. UNCHANGED <<writes, faults>> /\ k.pc = "queued"
    BY <1>10 DEF Gallery!RunDelete, Gallery!At, Gallery!history
  <2>2. CASE k.images \intersect Gallery!Rows = {}
    BY <1>0, <1>4, <1>10, <2>1, <2>2 DEF Gallery!RunDelete
  <2>3. CASE k.images \intersect Gallery!Rows # {}
    <3> DEFINE S == k.images \intersect Gallery!Rows
    <3>1. Gallery!Commit(S, "gone") /\ Gallery!Move(k, "invalidate")
      BY <1>10, <2>3 DEF Gallery!RunDelete
    <3> HIDE DEF S
    <3>2. Committed
      BY <1>7, <3>1, CommitTypes
    <3> QED BY <1>0, <1>6, <1>7, <2>1, <3>1, <3>2
  <2> QED BY <2>2, <2>3
<1>11. ASSUME NEW k \in tasks, Gallery!RunBulk(k) PROVE WorkTypes'
  <2> DEFINE failed == {i \in k.images \ k.linked : list.row[i] = "gone"}
             p == IF failed = k.images THEN "complete" ELSE "invalidate"
             e == IF failed = {} THEN "completed" ELSE "partial"
             m == [k EXCEPT !.pc = p]
             n == [m EXCEPT !.end = e]
  <2>1. /\ tasks' = (tasks \ {k}) \union {[k EXCEPT !.pc = p, !.end = e]}
        /\ k.pc = "queued" /\ UNCHANGED <<writes, faults>>
    BY <1>11 DEF Gallery!RunBulk, Gallery!At, Gallery!history
  <2>6. UNCHANGED list \/ Committed
    <3> DEFINE S == k.images \ (k.linked \union failed)
    <3>1. UNCHANGED list \/ Gallery!Commit(S, "linked")
      BY <1>11 DEF Gallery!RunBulk
    <3> HIDE DEF S
    <3> QED BY <1>7, <3>1, CommitTypes
  <2>2. p \in {"complete", "invalidate"} /\ e \in {"completed", "partial"}
    OBVIOUS
  <2> HIDE DEF p, e
  <2>3. [k EXCEPT !.pc = p, !.end = e] = n
    BY <1>0 DEF Requested
  <2>4. m \in Requested /\ m.pc = p /\ n.pc = m.pc
    <3>1. m \in Requested /\ m.pc = p
      BY <1>0, <1>7, <2>2, RequestedSteps
    <3> HIDE DEF m
    <3>2. n.pc = m.pc
      BY <3>1 DEF Requested
    <3> QED BY <3>1, <3>2
  <2> HIDE DEF m
  <2>5. n \in Requested /\ n.pc \notin Waiting
    BY <1>7, <2>2, <2>4, RequestedSteps
  <2> HIDE DEF n
  <2>7. tasks' = (tasks \ {k}) \union {n}
    BY <2>1, <2>3
  <2> QED BY <1>0, <1>7, <2>1, <2>5, <2>6, <2>7, WorkOf
<1>12. ASSUME NEW k \in tasks, Gallery!InvalidateEarly(k) PROVE WorkTypes'
  <2>1. /\ Gallery!Move(k, "announced") /\ k.pc = "sent" /\ UNCHANGED <<list, writes, faults>>
    BY <1>12 DEF Gallery!InvalidateEarly, Gallery!history
  <2> QED BY <1>0, <1>6, <1>7, <2>1
<1>13. ASSUME NEW k \in tasks, Gallery!CommitMetadata(k) \/ Gallery!CreateRows(k) PROVE WorkTypes'
  <2>1. /\ Gallery!Move(k, "invalidate") /\ k.pc \in {"sent", "announced"}
        /\ UNCHANGED <<writes, faults>>
    BY <1>13 DEF Gallery!CommitMetadata, Gallery!CreateRows, Gallery!history
  <2> DEFINE A == k.images \intersect Gallery!Rows
             B == k.images \intersect Gallery!Fresh
  <2>2. Gallery!Commit(A, "linked") \/ Gallery!Commit(B, "loose")
    BY <1>13 DEF Gallery!CommitMetadata, Gallery!CreateRows
  <2> HIDE DEF A, B
  <2>3. Committed
    BY <1>7, <2>2, CommitTypes
  <2> QED BY <1>0, <1>6, <1>7, <2>1, <2>3
<1>14. ASSUME NEW k \in tasks, Gallery!StopHalfWay(k) PROVE WorkTypes'
  <2>1. /\ tasks' = tasks \ {k} /\ UNCHANGED writes /\ k.pc = "sent"
        /\ faults' = faults + 1 /\ Gallery!Happens
    BY <1>14 DEF Gallery!StopHalfWay, Gallery!At
  <2>2. PICK i : Gallery!Commit({i}, "loose")
    BY <1>14 DEF Gallery!StopHalfWay
  <2>3. Committed
    BY <1>7, <2>2, CommitTypes
  <2> QED BY <1>5, <1>7, <2>1, <2>3, FaultTypes
<1>15. ASSUME NEW k \in tasks,
              Gallery!InvalidateAfter(k) \/ Gallery!IndexFails(k) \/ Gallery!Complete(k)
       PROVE  WorkTypes'
  <2>1. /\ UNCHANGED <<list, writes>> /\ faults' \in {faults, faults + 1}
        /\ Gallery!Happens \/ faults' = faults
        /\ Gallery!Move(k, "complete") \/ tasks' = tasks \ {k}
    BY <1>15 DEF Gallery!InvalidateAfter, Gallery!IndexFails, Gallery!Complete, Gallery!history
  <2> QED BY <1>4, <1>6, <1>7, <2>1, FaultTypes
<1> QED BY <1>1, <1>2, <1>3, <1>8, <1>9, <1>10, <1>11, <1>12, <1>13, <1>14, <1>15
        DEF Gallery!Next, Gallery!Backend, Gallery!Fault

(* The copies of the list.                                                 *)
LEMMA CopyStep ==
  ASSUME WorkTypes, CopyTypes, InboxInv, Gallery!Next
  PROVE  CopyTypes'
<1>1. list \in Gallery!List
  BY ListTyped
<1>2. /\ cached \in Gallery!List \union {None} /\ shown \in [GalleryTabs -> Gallery!List]
      /\ fetch \in [GalleryTabs -> [pc : {"none", "asked", "answered"},
                                    data : Gallery!List \union {None}]]
      /\ \A t \in GalleryTabs : fetch[t].pc = "answered" => fetch[t].data \in Gallery!List
  BY DEF CopyTypes
<1>3. ASSUME UNCHANGED <<shown, fetch>>, cached' \in {cached, None} PROVE CopyTypes'
  <2>1. cached' \in Gallery!List \union {None}
    BY <1>2, <1>3
  <2> QED BY <1>2, <1>3, <2>1 DEF CopyTypes
<1>4. ASSUME NEW t \in GalleryTabs, UNCHANGED shown, cached' \in Gallery!List \union {None},
             NEW f \in [pc : {"none", "asked", "answered"}, data : Gallery!List \union {None}],
             f.pc = "answered" => f.data \in Gallery!List,
             fetch' = [fetch EXCEPT ![t] = f]
      PROVE  CopyTypes'
  <2>1. fetch' \in [GalleryTabs -> [pc : {"none", "asked", "answered"},
                                    data : Gallery!List \union {None}]]
    BY <1>2, <1>4
  <2>2. \A u \in GalleryTabs : fetch'[u] = IF u = t THEN f ELSE fetch[u]
    BY <1>2, <1>4
  <2> QED BY <1>2, <1>4, <2>1, <2>2 DEF CopyTypes
<1>5. /\ Gallery!Asked \in [pc : {"none", "asked", "answered"}, data : Gallery!List \union {None}]
      /\ Gallery!Idle \in [pc : {"none", "asked", "answered"}, data : Gallery!List \union {None}]
      /\ Gallery!Asked.pc = "asked" /\ Gallery!Idle.pc = "none"
  BY DEF Gallery!Asked, Gallery!Idle
<1>6. ASSUME NEW t \in GalleryTabs, Gallery!ServeList(t) PROVE CopyTypes'
  <2> DEFINE c == IF cached = None THEN list ELSE cached
             f == [pc |-> "answered", data |-> c]
  <2>1. /\ cached' = c /\ fetch' = [fetch EXCEPT ![t] = [pc |-> "answered", data |-> cached']]
        /\ UNCHANGED shown
    BY <1>6 DEF Gallery!ServeList
  <2>2. c \in Gallery!List
    BY <1>1, <1>2
  <2>3. fetch' = [fetch EXCEPT ![t] = f]
    BY <2>1
  <2> HIDE DEF c
  <2>4. /\ f \in [pc : {"none", "asked", "answered"}, data : Gallery!List \union {None}]
        /\ f.data = c
    BY <2>2
  <2> HIDE DEF f
  <2> QED BY <1>4, <2>1, <2>2, <2>3, <2>4
<1>7. ASSUME NEW t \in GalleryTabs, Gallery!ListArrives(t) PROVE CopyTypes'
  <2> DEFINE d == fetch[t].data
             s == [shown EXCEPT ![t] = d]
             f == [fetch EXCEPT ![t] = Gallery!Idle]
  <2>1. shown' = s /\ fetch' = f /\ UNCHANGED cached /\ fetch[t].pc = "answered"
    BY <1>7 DEF Gallery!ListArrives
  <2>2. d \in Gallery!List
    BY <1>2, <2>1
  <2> HIDE DEF d
  <2>3. s \in [GalleryTabs -> Gallery!List]
    BY <1>2, <2>2
  <2>4. /\ f \in [GalleryTabs -> [pc : {"none", "asked", "answered"},
                                  data : Gallery!List \union {None}]]
        /\ \A u \in GalleryTabs : f[u] = IF u = t THEN Gallery!Idle ELSE fetch[u]
    BY <1>2, <1>5
  <2> HIDE DEF s, f
  <2> QED BY <1>2, <1>5, <2>1, <2>3, <2>4 DEF CopyTypes
<1>8. ASSUME NEW t \in GalleryTabs, Gallery!Hear(t) \/ Gallery!Reconnect(t)
      PROVE  CopyTypes'
  <2>1. UNCHANGED <<shown, cached>>
    BY <1>8 DEF Gallery!Hear, Gallery!Reconnect
  <2>2. UNCHANGED fetch \/ fetch' = [fetch EXCEPT ![t] = Gallery!Asked]
    <3>1. CASE Gallery!Reconnect(t)
      BY <3>1 DEF Gallery!Reconnect
    <3>2. CASE Gallery!Hear(t)
      <4>1. Head(inbox[t]) \in Gallery!Messages
        <5>1. inbox[t] \in Seq(Gallery!Messages) /\ inbox[t] # <<>>
          BY <3>2 DEF InboxInv, Gallery!Hear
        <5> QED BY <5>1
      <4>2. Head(inbox[t]) \in {"gallery", "completed"}
        BY <4>1 DEF Gallery!Messages
      <4> QED BY <3>2, <4>2 DEF Gallery!Hear
    <3> QED BY <1>8, <3>1, <3>2
  <2>3. CASE UNCHANGED fetch
    BY <1>3, <2>1, <2>3
  <2>4. CASE fetch' = [fetch EXCEPT ![t] = Gallery!Asked]
    BY <1>2, <1>4, <1>5, <2>1, <2>4
  <2> QED BY <2>2, <2>3, <2>4
<1>9. ASSUME NEW t \in GalleryTabs, Gallery!Page(t) PROVE CopyTypes'
  <2>1. UNCHANGED <<cached, shown, fetch>>
    BY <1>9 DEF Gallery!Page, Gallery!SwitchMode, Gallery!ClearSelection, Gallery!CloseSheet,
                Gallery!ClickCard, Gallery!SubmitMetadata, Gallery!DeleteOne, Gallery!OpenSheet,
                Gallery!TickFields, Gallery!SubmitBulk, Gallery!DeleteSelected,
                Gallery!UploadDone, Gallery!SaveUrls, Gallery!UploadFiles, Gallery!copies
  <2> QED BY <1>3, <2>1
<1>10. CASE Gallery!Elsewhere
  BY <1>3, <1>10 DEF Gallery!Elsewhere, Gallery!copies
<1>11. ASSUME NEW t \in GalleryTabs, Gallery!Disconnect(t) PROVE CopyTypes'
  BY <1>3, <1>11 DEF Gallery!Disconnect, Gallery!copies
<1>12. ASSUME NEW k \in tasks, Gallery!Backend(k) \/ Gallery!Fault(k) PROVE CopyTypes'
  <2>1. UNCHANGED <<shown, fetch>> /\ cached' \in {cached, None}
    BY <1>12 DEF Gallery!Backend, Gallery!Fault, Gallery!ServeBulk, Gallery!RefuseBulk,
                 Gallery!RunDelete, Gallery!RunBulk, Gallery!InvalidateEarly,
                 Gallery!RefuseMetadata, Gallery!CommitMetadata, Gallery!CreateRows,
                 Gallery!InvalidateAfter, Gallery!Complete, Gallery!Lose, Gallery!StopHalfWay,
                 Gallery!IndexFails, Gallery!Refuse, Gallery!Invalidate, Gallery!copies
  <2> QED BY <1>3, <2>1
<1> QED BY <1>6, <1>7, <1>8, <1>9, <1>10, <1>11, <1>12 DEF Gallery!Next, Gallery!Deliver


(* What an administrator has chosen: by a click, by the end of a bulk      *)
(* action, and by the answer that closes a form.                           *)
LEMMA ChoiceBecomes ==
  ASSUME ChoiceTypes, NEW t,
         NEW a \in BOOLEAN, mode' \in {mode, [mode EXCEPT ![t] = a]},
         NEW b \in SUBSET Images, selected' \in {selected, [selected EXCEPT ![t] = b]},
         NEW c \in Gallery!Sheets, sheet' \in {sheet, [sheet EXCEPT ![t] = c]},
         NEW d \in SUBSET Fields, ticked' \in {ticked, [ticked EXCEPT ![t] = d]}
  PROVE  ChoiceTypes'
<1>1. mode' \in [GalleryTabs -> BOOLEAN]
  BY DEF ChoiceTypes
<1>2. selected' \in [GalleryTabs -> SUBSET Images]
  BY DEF ChoiceTypes
<1>3. sheet' \in [GalleryTabs -> Gallery!Sheets]
  BY DEF ChoiceTypes
<1>4. ticked' \in [GalleryTabs -> SUBSET Fields]
  BY DEF ChoiceTypes
<1> QED BY <1>1, <1>2, <1>3, <1>4 DEF ChoiceTypes

LEMMA ChoiceSame ==
  ASSUME ChoiceTypes, UNCHANGED <<mode, selected, sheet, ticked>> PROVE ChoiceTypes'
BY DEF ChoiceTypes

LEMMA ChoiceSucceeds ==
  ASSUME ChoiceTypes, NEW k, Gallery!Succeeds(k) PROVE ChoiceTypes'
<1>1. ASSUME NEW s, k.by \in GalleryTabs, Gallery!Closes(k, s) PROVE ChoiceTypes'
  <2> DEFINE c == IF sheet[k.by] = s THEN "none" ELSE sheet[k.by]
             d == IF sheet[k.by] = s THEN {} ELSE ticked[k.by]
  <2>1. /\ UNCHANGED <<mode, selected>> /\ sheet' = [sheet EXCEPT ![k.by] = c]
        /\ ticked' = [ticked EXCEPT ![k.by] = d]
    BY <1>1 DEF Gallery!Closes
  <2>2. c \in Gallery!Sheets /\ d \in SUBSET Fields
    BY <1>1 DEF ChoiceTypes, Gallery!Sheets
  <2> HIDE DEF c, d
  <2>3. sheet' \in [GalleryTabs -> Gallery!Sheets] /\ ticked' \in [GalleryTabs -> SUBSET Fields]
    BY <2>1, <2>2 DEF ChoiceTypes
  <2> QED BY <2>1, <2>3 DEF ChoiceTypes
<1>2. \/ k.by \in GalleryTabs /\ \E s \in {"bulk", "edit"} : Gallery!Closes(k, s)
      \/ UNCHANGED <<mode, selected, sheet, ticked>>
  BY DEF Gallery!Succeeds, Gallery!choice
<1> QED BY <1>1, <1>2, ChoiceSame

LEMMA ChoiceStep ==
  ASSUME ChoiceTypes, InboxInv, Gallery!Next
  PROVE  ChoiceTypes'
<1>1. /\ "none" \in Gallery!Sheets /\ "bulk" \in Gallery!Sheets /\ "edit" \in Gallery!Sheets
      /\ "confirm" \in Gallery!Sheets /\ {} \in SUBSET Images /\ {} \in SUBSET Fields
  BY DEF Gallery!Sheets
<1>2. \A t \in GalleryTabs : /\ mode[t] \in BOOLEAN /\ (~mode[t]) \in BOOLEAN
                             /\ selected[t] \in SUBSET Images /\ sheet[t] \in Gallery!Sheets
  BY DEF ChoiceTypes
<1>3. ASSUME NEW t \in GalleryTabs, Gallery!SwitchMode(t) PROVE ChoiceTypes'
  <2> DEFINE b == IF mode[t] THEN {} ELSE selected[t]
             a == ~mode[t]
  <2>1. /\ mode' = [mode EXCEPT ![t] = a] /\ selected' = [selected EXCEPT ![t] = b]
        /\ UNCHANGED <<sheet, ticked>>
    BY <1>3 DEF Gallery!SwitchMode
  <2>2. a \in BOOLEAN /\ b \in SUBSET Images
    BY <1>2
  <2> HIDE DEF a, b
  <2> QED BY <1>1, <2>1, <2>2, ChoiceBecomes
<1>4. ASSUME NEW t \in GalleryTabs, NEW i \in Images, Gallery!ClickCard(t, i) PROVE ChoiceTypes'
  <2> DEFINE b == IF i \in selected[t] THEN selected[t] \ {i} ELSE selected[t] \union {i}
  <2>1. /\ selected' \in {selected, [selected EXCEPT ![t] = b]}
        /\ sheet' \in {sheet, [sheet EXCEPT ![t] = "edit"]} /\ UNCHANGED <<mode, ticked>>
    BY <1>4 DEF Gallery!ClickCard, Gallery!Toggle
  <2>2. b \in SUBSET Images
    BY <1>2
  <2> HIDE DEF b
  <2> QED BY <1>1, <1>2, <2>1, <2>2, ChoiceBecomes
<1>5. ASSUME NEW t \in GalleryTabs, Gallery!ClearSelection(t) \/ Gallery!CloseSheet(t)
      PROVE  ChoiceTypes'
  <2>1. /\ selected' \in {selected, [selected EXCEPT ![t] = {}]}
        /\ sheet' \in {sheet, [sheet EXCEPT ![t] = "none"]}
        /\ ticked' \in {ticked, [ticked EXCEPT ![t] = {}]} /\ UNCHANGED mode
    BY <1>5 DEF Gallery!ClearSelection, Gallery!CloseSheet
  <2> QED BY <1>1, <1>2, <2>1, ChoiceBecomes
<1>6. ASSUME NEW t \in GalleryTabs, NEW s \in Gallery!Sheets, Gallery!OpenSheet(t, s)
      PROVE  ChoiceTypes'
  <2>1. sheet' = [sheet EXCEPT ![t] = s] /\ UNCHANGED <<mode, selected, ticked>>
    BY <1>6 DEF Gallery!OpenSheet
  <2> QED BY <1>1, <1>2, <2>1, ChoiceBecomes
<1>7. ASSUME NEW t \in GalleryTabs, NEW S \in SUBSET Fields, Gallery!TickFields(t, S)
      PROVE  ChoiceTypes'
  <2>1. ticked' = [ticked EXCEPT ![t] = S] /\ UNCHANGED <<mode, selected, sheet>>
    BY <1>7 DEF Gallery!TickFields
  <2> QED BY <1>1, <1>2, <2>1, ChoiceBecomes
<1>8. ASSUME NEW t \in GalleryTabs,
             \/ \E i \in Images : Gallery!SubmitMetadata(t, i) \/ Gallery!DeleteOne(t, i)
             \/ Gallery!SubmitBulk(t) \/ Gallery!DeleteSelected(t) \/ Gallery!UploadDone(t)
             \/ Gallery!SaveUrls(t) \/ Gallery!UploadFiles(t)
      PROVE  ChoiceTypes'
  <2>1. UNCHANGED <<mode, selected, sheet, ticked>>
    BY <1>8 DEF Gallery!SubmitMetadata, Gallery!DeleteOne, Gallery!SubmitBulk,
                Gallery!DeleteSelected, Gallery!UploadDone, Gallery!SaveUrls,
                Gallery!UploadFiles, Gallery!choice
  <2> QED BY <2>1, ChoiceSame
<1>9. ASSUME NEW t \in GalleryTabs, Gallery!Hear(t) PROVE ChoiceTypes'
  <2>1. Head(inbox[t]) \in Gallery!Messages
    <3>1. inbox[t] \in Seq(Gallery!Messages) /\ inbox[t] # <<>>
      BY <1>9 DEF InboxInv, Gallery!Hear
    <3> QED BY <3>1
  <2>2. CASE Head(inbox[t]) = "gallery"
    BY <1>9, <2>2, ChoiceSame DEF Gallery!Hear, Gallery!choice
  <2>3. CASE Head(inbox[t]) = "completed"
    <3> DEFINE c == IF sheet[t] = "edit" THEN sheet[t] ELSE "none"
    <3>1. /\ mode' = [mode EXCEPT ![t] = FALSE] /\ selected' = [selected EXCEPT ![t] = {}]
          /\ sheet' = [sheet EXCEPT ![t] = c] /\ ticked' = [ticked EXCEPT ![t] = {}]
      BY <1>9, <2>3 DEF Gallery!Hear
    <3>2. c \in Gallery!Sheets
      BY <1>1, <1>2
    <3> HIDE DEF c
    <3> QED BY <1>1, <3>1, <3>2, ChoiceBecomes
  <2> QED BY <2>1, <2>2, <2>3 DEF Gallery!Messages
<1>10. ASSUME NEW t \in GalleryTabs, \/ Gallery!ServeList(t) \/ Gallery!ListArrives(t)
                                     \/ Gallery!Disconnect(t) \/ Gallery!Reconnect(t)
       PROVE  ChoiceTypes'
  BY <1>10, ChoiceSame DEF Gallery!ServeList, Gallery!ListArrives, Gallery!Disconnect,
                           Gallery!Reconnect, Gallery!choice
<1>11. CASE Gallery!Elsewhere
  BY <1>11, ChoiceSame DEF Gallery!Elsewhere, Gallery!choice
<1>12. ASSUME NEW k \in tasks, Gallery!Backend(k) \/ Gallery!Fault(k) PROVE ChoiceTypes'
  <2>1. Gallery!Succeeds(k) \/ UNCHANGED <<mode, selected, sheet, ticked>>
    BY <1>12 DEF Gallery!Backend, Gallery!Fault, Gallery!ServeBulk, Gallery!RefuseBulk,
                 Gallery!RunDelete, Gallery!RunBulk, Gallery!InvalidateEarly,
                 Gallery!RefuseMetadata, Gallery!CommitMetadata, Gallery!CreateRows,
                 Gallery!InvalidateAfter, Gallery!Complete, Gallery!Lose, Gallery!StopHalfWay,
                 Gallery!IndexFails, Gallery!Refuse, Gallery!choice
  <2> QED BY <2>1, ChoiceSame, ChoiceSucceeds
<1> QED BY <1>3, <1>4, <1>5, <1>6, <1>7, <1>8, <1>9, <1>10, <1>11, <1>12
        DEF Gallery!Next, Gallery!Page, Gallery!Deliver


(* The uploads of a page: as many as there are images still to come.       *)
LEMMA UploadSame ==
  ASSUME UploadTypes, UNCHANGED <<urls, late, saving>> PROVE UploadTypes'
BY DEF UploadTypes

LEMMA UploadBecomes ==
  ASSUME UploadTypes, NEW t,
         NEW u \in Nat, urls' \in {urls, [urls EXCEPT ![t] = u]},
         NEW l \in Nat, late' \in {late, [late EXCEPT ![t] = l]},
         NEW a \in BOOLEAN, saving' \in {saving, [saving EXCEPT ![t] = a]},
         t \in GalleryTabs => late'[t] <= urls'[t] /\ urls'[t] <= Cardinality(Images)
  PROVE  UploadTypes'
<1> DEFINE c == Cardinality(Images)
<1>1. /\ urls \in [GalleryTabs -> Nat] /\ late \in [GalleryTabs -> Nat]
      /\ saving \in [GalleryTabs -> BOOLEAN]
      /\ \A x \in GalleryTabs : late[x] <= urls[x] /\ urls[x] <= c
  BY DEF UploadTypes
<1>2. /\ urls' \in [GalleryTabs -> Nat] /\ late' \in [GalleryTabs -> Nat]
      /\ \A x \in GalleryTabs : x # t => urls'[x] = urls[x] /\ late'[x] = late[x]
  BY <1>1
<1>3. saving' \in [GalleryTabs -> BOOLEAN]
  BY <1>1
<1>4. t \in GalleryTabs => late'[t] <= urls'[t] /\ urls'[t] <= c
  OBVIOUS
<1> HIDE DEF c
<1>5. \A x \in GalleryTabs : late'[x] <= urls'[x] /\ urls'[x] <= c
  BY <1>1, <1>2, <1>4
<1> QED BY <1>2, <1>3, <1>5 DEF c, UploadTypes

LEMMA UploadSucceeds ==
  ASSUME UploadTypes, NEW k, Gallery!Succeeds(k) PROVE UploadTypes'
<1>1. \/ UNCHANGED <<urls, late, saving>>
      \/ /\ k.by \in GalleryTabs
         /\ urls' = [urls EXCEPT ![k.by] = 0] /\ late' = [late EXCEPT ![k.by] = 0]
         /\ saving' = [saving EXCEPT ![k.by] = FALSE]
  BY DEF Gallery!Succeeds, Gallery!Closes, Gallery!uploads
<1>2. CASE UNCHANGED <<urls, late, saving>>
  BY <1>2, UploadSame
<1>3. CASE /\ k.by \in GalleryTabs
           /\ urls' = [urls EXCEPT ![k.by] = 0] /\ late' = [late EXCEPT ![k.by] = 0]
           /\ saving' = [saving EXCEPT ![k.by] = FALSE]
  <2>1. urls'[k.by] = 0 /\ late'[k.by] = 0
    BY <1>3 DEF UploadTypes
  <2>2. Cardinality(Images) \in Nat
    BY ImagesAssumption, FS_CardinalityType
  <2>3. late'[k.by] <= urls'[k.by] /\ urls'[k.by] <= Cardinality(Images)
    BY <2>1, <2>2
  <2> QED BY <1>3, <2>3, UploadBecomes
<1> QED BY <1>1, <1>2, <1>3

LEMMA UploadRefuse ==
  ASSUME UploadTypes, NEW k, Gallery!Refuse(k) PROVE UploadTypes'
<1>1. UNCHANGED urls
  BY DEF Gallery!Refuse
<1>2. CASE k.by \in GalleryTabs /\ k.kind = "urls"
  <2>1. /\ saving' = [saving EXCEPT ![k.by] = FALSE] /\ late' = [late EXCEPT ![k.by] = 0]
    BY <1>2 DEF Gallery!Refuse
  <2>2. late'[k.by] = 0 /\ urls'[k.by] \in Nat /\ urls'[k.by] <= Cardinality(Images)
    BY <1>1, <1>2, <2>1 DEF UploadTypes
  <2>3. late'[k.by] <= urls'[k.by]
    BY <2>2
  <2> QED BY <1>1, <2>1, <2>2, <2>3, UploadBecomes
<1>3. CASE ~(k.by \in GalleryTabs /\ k.kind = "urls")
  BY <1>1, <1>3, UploadSame DEF Gallery!Refuse
<1> QED BY <1>2, <1>3

LEMMA FreshImages ==
  /\ Gallery!Cardinality(Gallery!Fresh) \in Nat
  /\ Gallery!Cardinality(Gallery!Fresh) <= Cardinality(Images)
<1> DEFINE F == Gallery!Fresh
<1>1. Gallery!Cardinality(F) = Cardinality(F)
  BY DEF Gallery!Cardinality, Cardinality
<1>2. F \subseteq Images
  BY DEF Gallery!Fresh
<1> HIDE DEF F
<1>3. Cardinality(F) \in Nat /\ Cardinality(F) <= Cardinality(Images)
  BY <1>2, ImagesAssumption, FS_Subset, FS_CardinalityType
<1> QED BY <1>1, <1>3 DEF F

LEMMA UploadStep ==
  ASSUME UploadTypes, Gallery!Next
  PROVE  UploadTypes'
<1>1. ASSUME NEW t \in GalleryTabs, Gallery!UploadDone(t) PROVE UploadTypes'
  <2> DEFINE c == Cardinality(Images)
             f == Gallery!Cardinality(Gallery!Fresh)
             u == urls[t] + 1
             l == IF saving[t] THEN late[t] + 1 ELSE late[t]
  <2>1. /\ f > urls[t] /\ UNCHANGED saving
        /\ urls' = [urls EXCEPT ![t] = u] /\ late' = [late EXCEPT ![t] = l]
    BY <1>1 DEF Gallery!UploadDone
  <2>2. f \in Nat /\ f <= c
    BY FreshImages
  <2>3. c \in Nat
    BY ImagesAssumption, FS_CardinalityType
  <2>4. urls[t] \in Nat /\ late[t] \in Nat /\ late[t] <= urls[t]
    BY DEF UploadTypes
  <2>5. urls \in [GalleryTabs -> Nat] /\ late \in [GalleryTabs -> Nat]
    BY DEF UploadTypes
  <2> HIDE DEF c, f
  <2>6. u \in Nat /\ l \in Nat /\ l <= u /\ u <= c
    BY <2>1, <2>2, <2>3, <2>4
  <2> HIDE DEF u, l
  <2>7. urls'[t] = u /\ late'[t] = l
    BY <2>1, <2>5
  <2>8. late'[t] <= urls'[t] /\ urls'[t] <= Cardinality(Images)
    BY <2>6, <2>7 DEF c
  <2> QED BY <2>1, <2>6, <2>8, UploadBecomes
<1>2. ASSUME NEW t \in GalleryTabs, Gallery!SaveUrls(t) PROVE UploadTypes'
  <2>1. saving' = [saving EXCEPT ![t] = TRUE] /\ UNCHANGED <<urls, late>>
    BY <1>2 DEF Gallery!SaveUrls
  <2>2. late'[t] <= urls'[t] /\ urls'[t] <= Cardinality(Images)
    BY <2>1 DEF UploadTypes
  <2> QED BY <2>1, <2>2, UploadBecomes
<1>3. ASSUME NEW t \in GalleryTabs,
             \/ Gallery!SwitchMode(t) \/ Gallery!ClearSelection(t) \/ Gallery!CloseSheet(t)
             \/ \E i \in Images : \/ Gallery!ClickCard(t, i) \/ Gallery!SubmitMetadata(t, i)
                                  \/ Gallery!DeleteOne(t, i)
             \/ \E s \in Gallery!Sheets : Gallery!OpenSheet(t, s)
             \/ \E S \in SUBSET Fields : Gallery!TickFields(t, S)
             \/ Gallery!SubmitBulk(t) \/ Gallery!DeleteSelected(t) \/ Gallery!UploadFiles(t)
      PROVE  UploadTypes'
  <2>1. UNCHANGED <<urls, late, saving>>
    BY <1>3 DEF Gallery!SwitchMode, Gallery!ClearSelection, Gallery!CloseSheet,
                Gallery!ClickCard, Gallery!SubmitMetadata, Gallery!DeleteOne,
                Gallery!OpenSheet, Gallery!TickFields, Gallery!SubmitBulk,
                Gallery!DeleteSelected, Gallery!UploadFiles, Gallery!uploads
  <2> QED BY <2>1, UploadSame
<1>4. ASSUME NEW t \in GalleryTabs, \/ Gallery!ServeList(t) \/ Gallery!ListArrives(t)
                                    \/ Gallery!Hear(t) \/ Gallery!Disconnect(t)
                                    \/ Gallery!Reconnect(t)
      PROVE  UploadTypes'
  BY <1>4, UploadSame DEF Gallery!ServeList, Gallery!ListArrives, Gallery!Hear,
                          Gallery!Disconnect, Gallery!Reconnect, Gallery!uploads
<1>5. CASE Gallery!Elsewhere
  BY <1>5, UploadSame DEF Gallery!Elsewhere, Gallery!uploads
<1>6. ASSUME NEW k \in tasks, Gallery!Backend(k) \/ Gallery!Fault(k) PROVE UploadTypes'
  <2>1. \/ Gallery!Succeeds(k) \/ Gallery!Refuse(k) \/ UNCHANGED <<urls, late, saving>>
    BY <1>6 DEF Gallery!Backend, Gallery!Fault, Gallery!ServeBulk, Gallery!RefuseBulk,
                Gallery!RunDelete, Gallery!RunBulk, Gallery!InvalidateEarly,
                Gallery!RefuseMetadata, Gallery!CommitMetadata, Gallery!CreateRows,
                Gallery!InvalidateAfter, Gallery!Complete, Gallery!Lose, Gallery!StopHalfWay,
                Gallery!IndexFails, Gallery!uploads
  <2> QED BY <2>1, UploadSame, UploadSucceeds, UploadRefuse
<1> QED BY <1>1, <1>2, <1>3, <1>4, <1>5, <1>6 DEF Gallery!Next, Gallery!Page, Gallery!Deliver

(* The connections; what each is told is known already.                    *)
LEMMA ConnectedStep ==
  ASSUME LineTypes, InboxInv', Gallery!Next
  PROVE  LineTypes'
<1>1. ASSUME online' \in [GalleryTabs -> BOOLEAN], unheard' \in BOOLEAN PROVE LineTypes'
  BY <1>1 DEF LineTypes
<1>2. online \in [GalleryTabs -> BOOLEAN]
  BY DEF LineTypes
<1>3. unheard \in BOOLEAN
  BY DEF LineTypes
<1>4. ASSUME NEW t \in GalleryTabs, Gallery!Disconnect(t) \/ Gallery!Reconnect(t)
      PROVE  LineTypes'
  <2>1. unheard' = unheard /\ online' \in {[online EXCEPT ![t] = TRUE], [online EXCEPT ![t] = FALSE]}
    BY <1>4 DEF Gallery!Disconnect, Gallery!Reconnect, Gallery!history
  <2>2. online' \in [GalleryTabs -> BOOLEAN]
    BY <1>2, <2>1
  <2>3. unheard' \in BOOLEAN
    BY <1>3, <2>1
  <2> QED BY <1>1, <2>2, <2>3
<1>5. ASSUME UNCHANGED online, UNCHANGED unheard \/ unheard' = TRUE PROVE LineTypes'
  <2>1. online' \in [GalleryTabs -> BOOLEAN]
    BY <1>2, <1>5
  <2>2. unheard' \in BOOLEAN
    BY <1>3, <1>5
  <2> QED BY <1>1, <2>1, <2>2
<1>6. ASSUME NEW t \in GalleryTabs, Gallery!Page(t) PROVE LineTypes'
  <2>1. UNCHANGED <<online, unheard>>
    BY <1>6 DEF Gallery!Page, Gallery!SwitchMode, Gallery!ClearSelection, Gallery!CloseSheet,
                Gallery!ClickCard, Gallery!SubmitMetadata, Gallery!DeleteOne, Gallery!OpenSheet,
                Gallery!TickFields, Gallery!SubmitBulk, Gallery!DeleteSelected,
                Gallery!UploadDone, Gallery!SaveUrls, Gallery!UploadFiles, Gallery!net,
                Gallery!history
  <2> QED BY <1>5, <2>1
<1>7. CASE Gallery!Elsewhere
  BY <1>5, <1>7 DEF Gallery!Elsewhere, Gallery!net
<1>8. ASSUME NEW t \in GalleryTabs, Gallery!Deliver(t) PROVE LineTypes'
  BY <1>5, <1>8 DEF Gallery!Deliver, Gallery!ServeList, Gallery!ListArrives, Gallery!Hear,
                    Gallery!net, Gallery!history
<1>9. ASSUME NEW k \in tasks, Gallery!Backend(k) \/ Gallery!Fault(k) PROVE LineTypes'
  <2>1. UNCHANGED online /\ (UNCHANGED unheard \/ unheard' = TRUE)
    BY <1>9 DEF Gallery!Backend, Gallery!Fault, Gallery!ServeBulk, Gallery!RefuseBulk,
                Gallery!RunDelete, Gallery!RunBulk, Gallery!InvalidateEarly,
                Gallery!RefuseMetadata, Gallery!CommitMetadata, Gallery!CreateRows,
                Gallery!InvalidateAfter, Gallery!Complete, Gallery!Lose, Gallery!StopHalfWay,
                Gallery!IndexFails, Gallery!Refuse, Gallery!net, Gallery!history
  <2> QED BY <1>5, <2>1
<1> QED BY <1>4, <1>6, <1>7, <1>8, <1>9 DEF Gallery!Next

LEMMA GalleryTypesStutter == ASSUME GalleryTypes, UNCHANGED vars PROVE GalleryTypes'
<1>1. UNCHANGED <<list, cached, tasks, mode, selected, sheet, ticked, urls, late, saving,
                  shown, fetch, online, inbox, writes, faults, unheard>>
  BY DEF vars, OfGallery, Lists, Sheets
<1>2. WorkTypes'
  BY <1>1, WorkKeeps DEF GalleryTypes, WorkTypes
<1>3. CopyTypes' /\ ChoiceTypes' /\ UploadTypes'
  BY <1>1, ChoiceSame, UploadSame DEF GalleryTypes, CopyTypes
<1>4. LineTypes'
  BY <1>1 DEF GalleryTypes, LineTypes, InboxInv
<1> QED BY <1>2, <1>3, <1>4 DEF GalleryTypes

LEMMA GalleryTypesHold == Spec => [](part = "gallery" => Gallery!TypeOK)
<1> DEFINE Typed == part = "gallery" => GalleryTypes
           Inv == part = "gallery" => GalleryInv
<1>1. Init => Typed
  BY GalleryTypesInit DEF Init
<1>2. Typed /\ Inv /\ [Next]_vars => Typed'
  <2>1. ASSUME GalleryTypes, GalleryInv, Gallery!Next PROVE GalleryTypes'
    <3>1. GalleryInv'
      BY <2>1, GalleryStep
    <3>2. /\ WorkTypes /\ CopyTypes /\ ChoiceTypes /\ UploadTypes /\ LineTypes
          /\ InboxInv /\ InboxInv'
      BY <2>1, <3>1 DEF GalleryTypes, GalleryInv
    <3> QED BY <2>1, <3>2, WorkStep, CopyStep, ChoiceStep, UploadStep, ConnectedStep
            DEF GalleryTypes
  <2> QED BY <2>1, PartKept, GalleryTypesStutter
<1>3. Typed => (part = "gallery" => Gallery!TypeOK)
  BY GalleryTypeOK
<1>4. Spec => []Inv
  BY GalleryInvariance
<1> QED BY <1>1, <1>2, <1>3, <1>4, PTL DEF Spec
=============================================================================
