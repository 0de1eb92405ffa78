-------------------------------- MODULE Push --------------------------------
(* The prompt for notifications, and how the browser's subscription gets   *)
(* to the backend: when the user turns notifications on, and by checks     *)
(* that start when the page is mounted, is shown again, or is rendered     *)
(* with another checkSubscription.  Checks and the user's own subscribing  *)
(* run beside each other; each keeps the state of the render it comes from. *)
(***************************************************************************)
EXTENDS Integers, FiniteSets

CONSTANTS
  MaxKeys,       \* bound: subscriptions the browser makes, 1..n; 0: it has none
  MaxActs,       \* bound: what the user, the browser and the clock do
  MaxFaults      \* bound: requests and subscriptions that fail

Permissions == {"default", "granted", "denied"}

VARIABLES
  perm, sub, made,   \* the browser's permission, its subscription, how many it made
  table,             \* the subscriptions the backend has
  storage,           \* localStorage
  ui,                \* the component's state
  effect,            \* is the effect due?
  listener,          \* the state the registered listeners were made with
  check, subscribing,\* the calls that run: where they are, what they know
  acts, faults

vars == <<perm, sub, made, table, storage, ui, effect, listener, check,
          subscribing, acts, faults>>
browser == <<perm, sub, made>>

(* pc: what the call waits for; syncing: isSyncing when it was made. *)
Call == [pc : {"idle", "permission", "subscription", "request", "answer", "refused"},
         key : 0..MaxKeys, syncing : BOOLEAN]
Idle == [pc |-> "idle", key |-> 0, syncing |-> FALSE]

Fresh(p, known, seen) ==
  [permission |-> p, dismissed |-> seen, delayed |-> FALSE, known |-> known,
   checking |-> FALSE, syncing |-> FALSE]

(* The effect of the first render: who has subscribed is never asked again, *)
(* who said `Not now' is not for a week.                                    *)
Mounted == Fresh(perm, FALSE, storage.synced \/ storage.later)

Init ==
  /\ perm \in {"default", "granted"} /\ sub = 0 /\ made = 0 /\ table = {}
  /\ storage = [synced |-> FALSE, keys |-> 0, later |-> FALSE]
  /\ ui = Mounted /\ effect = TRUE
  /\ listener = [checking |-> FALSE, syncing |-> FALSE]
  /\ check = Idle /\ subscribing = Idle /\ acts = 0 /\ faults = 0

-----------------------------------------------------------------------------
Act == acts < MaxActs /\ acts' = acts + 1
Fault == faults < MaxFaults /\ faults' = faults + 1
Visible == ~ui.dismissed /\ ui.permission # "granted" /\ ui.delayed

(* Mutant: the effect does not depend on checkSubscription. *)
BecomesQuietly(new) ==
  /\ ui' = new
  /\ effect' = (effect \/ new.permission # ui.permission)

(* isChecking and isSyncing are what checkSubscription depends on. *)
Becomes(new) ==
  /\ ui' = new
  /\ effect' = (effect \/ \E f \in {"permission", "checking", "syncing"} : new[f] # ui[f])

Start(seen) ==
  IF seen.checking
    THEN UNCHANGED <<ui, check>> /\ effect' = FALSE
    ELSE /\ check' = [pc |-> "subscription", key |-> 0, syncing |-> seen.syncing]
         /\ ui' = [ui EXCEPT !.checking = TRUE] /\ effect' = TRUE

(* The listeners are registered again, and a check starts. *)
RunEffect ==
  /\ effect
  /\ listener' = [checking |-> ui.checking, syncing |-> ui.syncing]
  /\ IF ui.permission = "granted" THEN Start(listener')
     ELSE effect' = FALSE /\ UNCHANGED <<ui, check>>
  /\ UNCHANGED <<browser, table, storage, subscribing, acts, faults>>

(* The page is shown again: a check by the listener there is.  (No event   *)
(* comes between a change of the state and its effect, so that there is    *)
(* one check at a time.)                                                   *)
Shown ==
  /\ Act /\ ~effect /\ ~listener.checking /\ check.pc = "idle"
  /\ Start(listener)
  /\ UNCHANGED <<browser, table, storage, listener, subscribing, faults>>

HasChanged == storage.keys # sub

(* syncSubscriptionToBackend, up to its request. *)
Sync(call, key) ==
  IF call.syncing THEN [Idle EXCEPT !.pc = "refused"]
  ELSE [call EXCEPT !.pc = "request", !.key = key]
Asks(call) == IF call.pc = "request" THEN [ui EXCEPT !.syncing = TRUE] ELSE ui

CheckSubscription ==
  /\ check.pc = "subscription"
  /\ IF sub # 0 /\ (HasChanged \/ ~storage.synced)
       THEN check' = Sync(check, sub) /\ Becomes(Asks(check'))
       ELSE check' = Idle /\ Becomes([ui EXCEPT !.checking = FALSE, !.known = @ \/ sub # 0])
  /\ UNCHANGED <<browser, table, storage, listener, subscribing, acts, faults>>

(* The button is off while it runs, and does nothing once a subscription   *)
(* is known or the permission is denied.                                   *)
OptIn ==
  /\ Act /\ Visible /\ subscribing.pc = "idle" /\ ~ui.known /\ ui.permission # "denied"
  /\ subscribing' = [Idle EXCEPT !.pc = "permission", !.syncing = ui.syncing]
  /\ UNCHANGED <<browser, table, storage, ui, effect, listener, check, faults>>

AnswerPrompt(p) ==
  /\ subscribing.pc = "permission" /\ (perm = "default" \/ p = perm)
  /\ perm' = p /\ Becomes([ui EXCEPT !.permission = p])
  /\ subscribing' = IF p = "granted" THEN [subscribing EXCEPT !.pc = "subscription"] ELSE Idle
  /\ UNCHANGED <<sub, made, table, storage, listener, check, acts, faults>>

(* pushManager.subscribe gives the subscription there is, or a new one. *)
Subscribe ==
  /\ subscribing.pc = "subscription" /\ perm = "granted" /\ (sub # 0 \/ made < MaxKeys)
  /\ sub' = IF sub # 0 THEN sub ELSE made + 1
  /\ made' = IF sub # 0 THEN made ELSE made + 1
  /\ subscribing' = Sync(subscribing, sub') /\ Becomes(Asks(subscribing'))
  /\ UNCHANGED <<perm, table, storage, listener, check, acts, faults>>

SubscribeFails ==
  /\ subscribing.pc = "subscription" /\ subscribing' = Idle
  /\ IF perm = "granted" /\ (sub # 0 \/ made < MaxKeys) THEN Fault ELSE UNCHANGED faults
  /\ UNCHANGED <<browser, table, storage, ui, effect, listener, check, acts>>

-----------------------------------------------------------------------------
(* The request of either call: x is the call, y the other one. *)
Serve(x) ==
  /\ x.pc = "request" /\ table' = table \cup {x.key}
  /\ UNCHANGED <<browser, storage, ui, effect, listener, acts>>

Refuse(x) ==
  /\ x.pc = "request" /\ Fault
  /\ UNCHANGED <<browser, table, storage, ui, effect, listener, acts>>

Lose(x) ==
  /\ x.pc = "answer" /\ Fault
  /\ UNCHANGED <<browser, table, storage, ui, effect, listener, acts>>

(* Mutant: the keys are stored before the backend has answered. *)
SyncedAtOnce(x) ==
  /\ x.pc = "request"
  /\ storage' = [storage EXCEPT !.keys = x.key, !.synced = TRUE]
  /\ UNCHANGED <<browser, table, listener, acts, faults>>

(* storeSubscriptionKeys, and the flag. *)
Synced(x) ==
  /\ x.pc = "answer"
  /\ storage' = [storage EXCEPT !.keys = x.key, !.synced = TRUE]
  /\ UNCHANGED <<browser, table, listener, acts, faults>>

Ended(x) ==
  /\ x.pc = "refused"
  /\ UNCHANGED <<browser, table, storage, listener, acts, faults>>

(* setIsSyncing(false), unless isSyncing kept the call from asking. *)
Free(x) == x.key = 0 /\ ui.syncing

OfCheck ==
  \/ Serve(check) /\ check' = [check EXCEPT !.pc = "answer"] /\ UNCHANGED <<subscribing, faults>>
  \/ (Refuse(check) \/ Lose(check)) /\ check' = [check EXCEPT !.pc = "refused"] /\ UNCHANGED subscribing
  \/ /\ Synced(check) /\ check' = Idle /\ UNCHANGED subscribing
     /\ Becomes([ui EXCEPT !.checking = FALSE, !.syncing = Free(check), !.known = TRUE])
  \/ /\ Ended(check) /\ check' = Idle /\ UNCHANGED subscribing
     /\ Becomes([ui EXCEPT !.checking = FALSE, !.syncing = Free(check)])

OfSubscribing ==
  \/ Serve(subscribing) /\ subscribing' = [subscribing EXCEPT !.pc = "answer"] /\ UNCHANGED <<check, faults>>
  \/ (Refuse(subscribing) \/ Lose(subscribing)) /\ subscribing' = [subscribing EXCEPT !.pc = "refused"] /\ UNCHANGED check
  \/ /\ Synced(subscribing) /\ subscribing' = Idle /\ UNCHANGED check
     /\ Becomes([ui EXCEPT !.syncing = Free(subscribing), !.known = TRUE])
  \/ /\ Ended(subscribing) /\ subscribing' = Idle /\ UNCHANGED check
     /\ Becomes([ui EXCEPT !.syncing = Free(subscribing)])

-----------------------------------------------------------------------------
DelayPasses ==
  /\ ~ui.delayed /\ ~ui.dismissed /\ ui' = [ui EXCEPT !.delayed = TRUE]
  /\ UNCHANGED <<browser, table, storage, effect, listener, check, subscribing, acts, faults>>

Dismiss(forAWeek) ==
  /\ Act /\ Visible /\ ui' = [ui EXCEPT !.dismissed = TRUE]
  /\ storage' = [storage EXCEPT !.later = @ \/ forAWeek]
  /\ UNCHANGED <<browser, table, effect, listener, check, subscribing, faults>>

WeekPasses ==
  /\ Act /\ storage.later /\ storage' = [storage EXCEPT !.later = FALSE]
  /\ UNCHANGED <<browser, table, ui, effect, listener, check, subscribing, faults>>

Reload ==
  /\ Act /\ ui' = Mounted /\ effect' = TRUE
  /\ listener' = [checking |-> FALSE, syncing |-> FALSE]
  /\ check' = Idle /\ subscribing' = Idle
  /\ UNCHANGED <<browser, table, storage, faults>>

(* The browser's own doing: another subscription, another permission. *)
Renew ==
  /\ Act /\ sub # 0 /\ made < MaxKeys /\ sub' = made + 1 /\ made' = made + 1
  /\ UNCHANGED <<perm, table, storage, ui, effect, listener, check, subscribing, faults>>

ChangePermission(p) ==
  /\ Act /\ p # perm /\ perm' = p /\ sub' = IF p = "granted" THEN sub ELSE 0
  /\ UNCHANGED <<made, table, storage, ui, effect, listener, check, subscribing, faults>>

Work ==
  \/ RunEffect \/ CheckSubscription \/ Subscribe \/ SubscribeFails
  \/ OfCheck \/ OfSubscribing

Next ==
  \/ Work \/ Shown \/ OptIn \/ DelayPasses \/ WeekPasses \/ Reload \/ Renew
  \/ \E p \in Permissions : AnswerPrompt(p) \/ ChangePermission(p)
  \/ \E forAWeek \in BOOLEAN : Dismiss(forAWeek)

(* What React, the promises and the network do is done in the end. *)
Spec == Init /\ [][Next]_vars /\ WF_vars(RunEffect) /\ WF_vars(CheckSubscription)
        /\ WF_vars(Subscribe) /\ WF_vars(OfCheck) /\ WF_vars(OfSubscribing)

-----------------------------------------------------------------------------
(* The variables have the values the code gives them. *)
TypeOK ==
  /\ perm \in Permissions /\ {sub, made} \subseteq 0..MaxKeys
  /\ table \subseteq 1..MaxKeys
  /\ storage \in [synced : BOOLEAN, keys : 0..MaxKeys, later : BOOLEAN]
  /\ ui \in [permission : Permissions, dismissed : BOOLEAN, delayed : BOOLEAN,
             known : BOOLEAN, checking : BOOLEAN, syncing : BOOLEAN]
  /\ effect \in BOOLEAN /\ listener \in [checking : BOOLEAN, syncing : BOOLEAN]
  /\ {check, subscribing} \subseteq Call
  /\ acts \in 0..MaxActs /\ faults \in 0..MaxFaults

(* A subscription the page takes for known to the backend is: the keys it  *)
(* stores are never those of a request that failed, of the other call, or  *)
(* of a subscription renewed meanwhile.                                    *)
StoredIsKnown == storage.synced => storage.keys \in table

(* While the page has the permission, the subscription of its browser      *)
(* reaches the backend, whatever failed or was renewed: nothing but the    *)
(* check after the check sees to it.                                       *)
HasArrived == ui.permission = "granted" /\ sub # 0 => sub \in table
SubscriptionArrives == <>[]HasArrived
=============================================================================
