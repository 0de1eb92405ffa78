-------------------------------- MODULE Pages --------------------------------
(* The page a browser shows: the chat's widget, the gallery, a list with a *)
(* form, a list with filters, a product, the prompt for notifications, or  *)
(* the sign-in of a guest with a cart.                                     *)
(* Each is a specification of its own; `part' says which one runs, and the *)
(* variables of the others are None.  They keep their own names, and two   *)
(* parts may use the same one.                                             *)
(***************************************************************************)
EXTENDS Integers, Sequences, FiniteSets, SequencesExt

(* The constants of the parts, which their modules explain. *)
CONSTANTS
  None,
  Convs, Admins, Talks, ChatActs,                               \* the chat's
  Images, Galleries, GalleryTabs, Fields, GalleryEvents,        \* the gallery's
  FormRows, FirstRows, FormEvents,                              \* the form's
  FilterActs,                                                   \* the filters'
  Products, Stocks, MaxStock, MaxQuantity, ProductActs,         \* the product's
  MaxKeys, PromptActs, PromptFaults,                            \* the prompt's
  MaxCarts, MaxItems, GuestActs, GuestFaults                    \* the sign-in's

ASSUME PagesAssumption ==
  /\ {ChatActs, GalleryEvents, FormEvents, FilterActs, ProductActs, MaxKeys,
      PromptActs, PromptFaults, GuestActs, GuestFaults} \subseteq Nat
  /\ {MaxStock, MaxQuantity, MaxCarts, MaxItems} \subseteq Nat \ {0}

VARIABLES
  part,
  conv, mapped, stored, saved, session, had, human, ask, posts, ws, wired,
  taking, written, missed,                                      \* the chat's
  list, mode, selected, ticked, urls, late, writes,             \* the gallery's
  form, rows, edge, typed, openings, events, refilled,          \* the form's
  kind, path, url, seen, mount, open, draft, box, price, timers, edited,
  wanted, lost,                                                 \* the filters'
  stock, page, choice, picked, quantity, button, cart, undo,    \* the product's
  perm, sub, made, table, storage, ui, effect, listener, check,
  subscribing,                                                  \* the prompt's
  owner, items, cookie, sid, app, tabs, adding, added, excused, \* the sign-in's
  cached, shown, fetch, saving, data, tasks, sheet, online, inbox, unheard,
  faults, acts                                                  \* of several

OfChat == <<conv, mapped, stored, saved, session, had, human, ask, posts, ws,
            wired, taking, written, missed>>
OfGallery == <<list, mode, selected, ticked, urls, late, writes>>
OfForm == <<form, rows, edge, typed, openings, events, refilled>>
OfFilters == <<kind, path, url, seen, mount, open, draft, box, price, timers,
               edited, wanted, lost>>
OfProduct == <<stock, page, choice, picked, quantity, button, cart, undo>>
OfPrompt == <<perm, sub, made, table, storage, ui, effect, listener, check,
              subscribing>>
OfSignIn == <<owner, items, cookie, sid, app, tabs, adding, added, excused>>
Lists == <<cached, shown, fetch>>
Sheets == <<tasks, sheet, online, inbox, unheard>>
vars == <<part, OfChat, OfGallery, OfForm, OfFilters, OfProduct, OfPrompt,
          OfSignIn, Lists, Sheets, saving, data, faults, acts>>

-----------------------------------------------------------------------------
Chat == INSTANCE Chat WITH Beginnings <- Talks, MaxActs <- ChatActs
Gallery == INSTANCE Gallery WITH Beginnings <- Galleries, Tabs <- GalleryTabs,
                                MaxEvents <- GalleryEvents
Form == INSTANCE Console WITH Rows <- FormRows, MaxEvents <- FormEvents
Filters == INSTANCE Filters WITH MaxActs <- FilterActs
Product == INSTANCE Options WITH MaxActs <- ProductActs
Prompt == INSTANCE Push WITH MaxActs <- PromptActs, MaxFaults <- PromptFaults
Guest == INSTANCE SignIn WITH MaxActs <- GuestActs, MaxFaults <- GuestFaults

(* The uuids are numbered from 1; a conversation there is at first has its *)
(* type, and nothing has been said in one that is not there.               *)
ASSUME TalksAssumption ==
  /\ 1 \in Convs /\ Convs \subseteq Nat
  /\ \A b \in Talks : /\ b \in Chat!Conversation
                      /\ b.status = None => b = Chat!NoConversation
  /\ None \notin Convs /\ None \notin Chat!Statuses /\ None \notin Chat!Conversation

(* The images there may be, and those there are at first; likewise for the *)
(* rows of a list.                                                         *)
ASSUME ImagesAssumption ==
  IsFiniteSet(Images) /\ Galleries \subseteq [Images -> Gallery!RowStates]
ASSUME RowsAssumption ==
  /\ FormRows \subseteq Nat /\ IsFiniteSet(FormRows)
  /\ FirstRows \in Nat /\ 1..FirstRows \subseteq FormRows

(* There is a product, and each has a variant. *)
ASSUME ProductsAssumption ==
  /\ 1 \in DOMAIN Products /\ Stocks \subseteq [Product!Ids -> 0..MaxStock]
  /\ \A p \in DOMAIN Products : Products[p] \in Seq(ToSet(Products[p])) \ {<<>>}

-----------------------------------------------------------------------------
NoChat ==
  /\ conv = None /\ mapped = None /\ stored = None /\ saved = None
  /\ session = None /\ had = None /\ human = None /\ ask = None
  /\ posts = None /\ ws = None /\ wired = None /\ taking = None
  /\ written = None /\ missed = None
NoGallery ==
  /\ list = None /\ mode = None /\ selected = None /\ ticked = None
  /\ urls = None /\ late = None /\ writes = None
NoForm ==
  /\ form = None /\ rows = None /\ edge = None /\ typed = None
  /\ openings = None /\ events = None /\ refilled = None
NoFilters ==
  /\ kind = None /\ path = None /\ url = None /\ seen = None /\ mount = None
  /\ open = None /\ draft = None /\ box = None /\ price = None
  /\ timers = None /\ edited = None /\ wanted = None /\ lost = None
NoProduct ==
  /\ stock = None /\ page = None /\ choice = None /\ picked = None
  /\ quantity = None /\ button = None /\ cart = None /\ undo = None
NoPrompt ==
  /\ perm = None /\ sub = None /\ made = None /\ table = None
  /\ storage = None /\ ui = None /\ effect = None /\ listener = None
  /\ check = None /\ subscribing = None
NoSignIn ==
  /\ owner = None /\ items = None /\ cookie = None /\ sid = None /\ app = None
  /\ tabs = None /\ adding = None /\ added = None /\ excused = None
NoList == cached = None /\ shown = None /\ fetch = None
NoSheet == tasks = None /\ sheet = None /\ online = None /\ inbox = None /\ unheard = None

Init ==
  \/ /\ part = "chat" /\ Chat!Init
     /\ NoGallery /\ NoForm /\ NoFilters /\ NoProduct /\ NoPrompt /\ NoSignIn /\ NoSheet /\ faults = None
  \/ /\ part = "gallery" /\ Gallery!Init
     /\ NoChat /\ NoForm /\ NoFilters /\ NoProduct /\ NoPrompt /\ NoSignIn /\ data = None /\ acts = None
  \/ /\ part = "form" /\ Form!Init
     /\ NoChat /\ NoGallery /\ NoFilters /\ NoProduct /\ NoPrompt /\ NoSignIn
     /\ saving = None /\ data = None /\ faults = None /\ acts = None
  \/ /\ part = "filters" /\ Filters!Init
     /\ NoChat /\ NoGallery /\ NoForm /\ NoProduct /\ NoPrompt /\ NoSignIn /\ NoList /\ NoSheet
     /\ saving = None /\ data = None /\ faults = None
  \/ /\ part = "product" /\ Product!Init
     /\ NoChat /\ NoGallery /\ NoForm /\ NoFilters /\ NoPrompt /\ NoSignIn /\ NoList /\ NoSheet
     /\ saving = None /\ faults = None
  \/ /\ part = "prompt" /\ Prompt!Init
     /\ NoChat /\ NoGallery /\ NoForm /\ NoFilters /\ NoProduct /\ NoSignIn /\ NoList /\ NoSheet
     /\ saving = None /\ data = None
  \/ /\ part = "sign_in" /\ Guest!Init
     /\ NoChat /\ NoGallery /\ NoForm /\ NoFilters /\ NoProduct /\ NoPrompt /\ NoList /\ NoSheet
     /\ saving = None /\ data = None

(* A step of a part. *)
InChat(A) ==
  /\ part = "chat" /\ A
  /\ UNCHANGED <<part, OfGallery, OfForm, OfFilters, OfProduct, OfPrompt, OfSignIn, Sheets, faults>>
InGallery(A) ==
  /\ part = "gallery" /\ A
  /\ UNCHANGED <<part, OfChat, OfForm, OfFilters, OfProduct, OfPrompt, OfSignIn, data, acts>>
InForm(A) ==
  /\ part = "form" /\ A
  /\ UNCHANGED <<part, OfChat, OfGallery, OfFilters, OfProduct, OfPrompt, OfSignIn,
                 saving, data, faults, acts>>
InFilters(A) ==
  /\ part = "filters" /\ A
  /\ UNCHANGED <<part, OfChat, OfGallery, OfForm, OfProduct, OfPrompt, OfSignIn, Lists, Sheets,
                 saving, data, faults>>
InProduct(A) ==
  /\ part = "product" /\ A
  /\ UNCHANGED <<part, OfChat, OfGallery, OfForm, OfFilters, OfPrompt, OfSignIn, Lists, Sheets,
                 saving, faults>>
InPrompt(A) ==
  /\ part = "prompt" /\ A
  /\ UNCHANGED <<part, OfChat, OfGallery, OfForm, OfFilters, OfProduct, OfSignIn, Lists, Sheets,
                 saving, data>>
InSignIn(A) ==
  /\ part = "sign_in" /\ A
  /\ UNCHANGED <<part, OfChat, OfGallery, OfForm, OfFilters, OfProduct, OfPrompt,
                 Lists, Sheets, saving, data>>

Next ==
  \/ InChat(Chat!Next) \/ InGallery(Gallery!Next) \/ InForm(Form!Next)
  \/ InFilters(Filters!Next) \/ InProduct(Product!Next) \/ InPrompt(Prompt!Next)
  \/ InSignIn(Guest!Next)

(* The fairness of the parts, of which one runs. *)
Fairness ==
  /\ WF_vars(InGallery(Gallery!Work) \/ InForm(Form!Work) \/ InPrompt(Prompt!RunEffect))
  /\ \A t \in GalleryTabs : WF_vars(InGallery(Gallery!Deliver(t)) \/ InForm(Form!Deliver)
                                    \/ InPrompt(Prompt!CheckSubscription))
  /\ WF_vars(InPrompt(Prompt!Subscribe))
  /\ WF_vars(InPrompt(Prompt!OfCheck))
  /\ WF_vars(InPrompt(Prompt!OfSubscribing))

Spec == Init /\ [][Next]_vars /\ Fairness

-----------------------------------------------------------------------------
(* The parts' properties; the comments are theirs.                         *)

(* The variables of the part that runs have the values of its code. *)
TypeOK ==
  \/ part = "chat" /\ Chat!TypeOK
  \/ part = "gallery" /\ Gallery!TypeOK
  \/ part = "form" /\ Form!TypeOK
  \/ part = "filters" /\ Filters!TypeOK
  \/ part = "product" /\ Product!TypeOK
  \/ part = "prompt" /\ Prompt!TypeOK
  \/ part = "sign_in" /\ Guest!TypeOK

(* useSupportChat.ts:85-119: what the staff write stays on the screen. *)
StaffIsShown == part = "chat" => Chat!StaffIsShown

(* useSupportChat.ts:90-94: a closed conversation is forgotten. *)
ClosedIsForgotten == part = "chat" => Chat!ClosedIsForgotten

(* gallery.lazy.tsx:67-76: no image is selected outside select mode. *)
SelectionNeedsMode == part = "gallery" => Gallery!SelectionNeedsMode

(* gallery-images-upload.tsx:51: an upload is not forgotten unsaved. *)
UploadsAreKept == [][part = "gallery" => Gallery!KeepsUploads]_vars

(* services/gallery.py:298: the pages show what was committed, in the end. *)
GalleryCatchesUp == <>[](part = "gallery" => Gallery!IsCaughtUp)

(* faq-actions.tsx:15-40 and the like: a form saves to the row it is for. *)
SavesToItsRow == part = "form" => Form!SavesToItsRow

(* lib/cache.py:89-124: the edge has no outdated copy once all is purged. *)
EdgeIsCurrent == part = "form" => Form!EdgeIsCurrent

(* faq-form.tsx:50-75: what was typed is not lost to another's answer. *)
TypedIsKept == [][part = "form" => Form!KeepsTyped]_vars

(* useInfiniteResource.ts:11-33: the list is what was saved, in the end. *)
ShownIsSaved == <>[](part = "form" => Form!IsSaved)

(* useUpdateQuery.ts:15-33: a choice is in the address or on its way. *)
ChoicesAreOnTheirWay == part = "filters" => Filters!ChoicesAreOnTheirWay

(* filter-sidebar-logic.tsx:117-122: the controls follow the address. *)
ControlsShowAddress == part = "filters" => Filters!ControlsShowAddress

(* useProductVariant.ts:79-157: an option never leads to what is sold out. *)
ChoiceIsInStock == [][part = "product" => Product!LeadsToStock]_vars

(* push-permission.tsx:136-158: the keys stored are known to the backend. *)
StoredIsKnown == part = "prompt" => Prompt!StoredIsKnown

(* services/cart.py:143: what a guest put into the cart is there, once. *)
GoodsAreKept == part = "sign_in" => Guest!GoodsAreKept

(* push-permission.tsx:160-236: a subscription is synchronised, in the end. *)
SubscriptionArrives == <>[](part = "prompt" => Prompt!HasArrived)
=============================================================================
