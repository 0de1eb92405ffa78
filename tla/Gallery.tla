------------------------------ MODULE Gallery -------------------------------
(***************************************************************************)
(* The administration's gallery: the pages of several administrators       *)
(* (gallery.lazy.tsx and components/admin/product), the routes they use    *)
(* (api/routes/gallery.py) with their background tasks (services/          *)
(* gallery.py), the backend's copy of the list, and the messages by which  *)
(* a page learns that the list or a bulk action has changed.               *)
(*                                                                         *)
(* The list is a row per image and the number of changes made so far;  *)
(* a copy of the list is the number of the change it was read after.       *)
(* `unheard', a history variable, is TRUE once a change was not announced  *)
(* because a step of a handler failed.                                     *)
(***************************************************************************)
EXTENDS Integers, Sequences, FiniteSets, SequencesExt

CONSTANTS
  Images,        \* bound: rows there may ever be, 1..n
  Beginnings,    \* the rows there may be at first
  Tabs,          \* pages open at the gallery that are looked at
  Fields,        \* what the bulk form can change
  MaxEvents,     \* bound: requests that change something, failures of a step
                 \* and losses of a connection, together
  None

VARIABLES
  list,      \* the images: not yet, without a product, with one, deleted;
             \* and the changes committed
  cached,    \* the backend's copy of the list, or None
  tasks,     \* requests and background tasks
  mode, selected,     \* select mode; the images selected
  sheet, ticked,      \* the form that is open; the bulk form's fields
  urls, late, saving, \* uploads not saved; those added during a save; a save
  shown, fetch,       \* the list a page shows; its request for it
  online, inbox,      \* connected? messages on their way
  writes, faults, unheard

vars == <<list, cached, tasks, mode, selected, sheet, ticked, urls, late,
          saving, shown, fetch, online, inbox, writes, faults, unheard>>
choice == <<mode, selected, sheet, ticked>>
uploads == <<urls, late, saving>>
copies == <<cached, shown, fetch>>
net == <<online, inbox>>
history == <<writes, faults, unheard>>

RowStates == {"none", "loose", "linked", "gone"}
Sheets == {"none", "bulk", "confirm", "edit"}
Requests == {"delete", "bulk", "create", "update", "urls", "files"}
Steps == {"sent", "queued", "announced", "invalidate", "complete"}
Messages == {"gallery", "completed"}
List == [row : [Images -> RowStates], rev : 0..MaxEvents]

In(l) == {i \in Images : l.row[i] \in {"loose", "linked"}}
Rows == In(list)
Fresh == {i \in Images : list.row[i] = "none"}
Linked(S) == {i \in S : list.row[i] = "linked"}

Idle == [pc |-> "none", data |-> None]
Asked == [pc |-> "asked", data |-> None]

(* A change of the images S is committed. *)
Commit(S, state) ==
  list' = [row |-> [i \in Images |-> IF i \in S THEN state ELSE list.row[i]],
           rev |-> list.rev + 1]

Init ==
  /\ list \in {[row |-> b, rev |-> 0] : b \in Beginnings}
  /\ cached = None /\ tasks = {}
  /\ mode = [t \in Tabs |-> FALSE]
  /\ selected = [t \in Tabs |-> {}]
  /\ sheet = [t \in Tabs |-> "none"] /\ ticked = [t \in Tabs |-> {}]
  /\ urls = [t \in Tabs |-> 0] /\ late = [t \in Tabs |-> 0]
  /\ saving = [t \in Tabs |-> FALSE]
  /\ shown = [t \in Tabs |-> list] /\ fetch = [t \in Tabs |-> Idle]
  /\ online = [t \in Tabs |-> TRUE] /\ inbox = [t \in Tabs |-> <<>>]
  /\ writes = 0 /\ faults = 0 /\ unheard = FALSE

(* broadcast_to_all: whoever is connected gets the message. *)
Broadcast(msg) ==
  inbox' = [t \in Tabs |-> IF online[t] THEN Append(inbox[t], msg) ELSE inbox[t]]

(* cache.invalidate(tags = ["gallery", ...]). *)
Invalidate ==
  /\ cached' = None
  /\ Broadcast("gallery")

(* One more thing happens. *)
Happens == writes + faults < MaxEvents

Request(t, kind, images) ==
  /\ Happens
  /\ writes' = writes + 1
  /\ tasks' = tasks \union {[id |-> writes + 1, by |-> t, kind |-> kind,
                             images |-> images, linked |-> {},
                             end |-> "completed",
                             pc |-> "sent"]}

Move(k, pc) == tasks' = (tasks \ {k}) \union {[k EXCEPT !.pc = pc]}
At(k, kind, pc) == k \in tasks /\ k.kind = kind /\ k.pc = pc
Waits(t, kind) == \E k \in tasks : k.by = t /\ k.kind = kind /\ k.pc = "sent"

-----------------------------------------------------------------------------
(* The page.                                                               *)

(* Select, or Cancel, which also forgets the selection. *)
SwitchMode(t) ==
  /\ sheet[t] = "none"
  /\ mode' = [mode EXCEPT ![t] = ~@]
  /\ selected' = [selected EXCEPT ![t] = IF mode[t] THEN {} ELSE @]
  /\ UNCHANGED <<list, tasks, sheet, ticked, uploads, copies, net, history>>

(* handleSelectionChange: a click on a card of the list. *)
Toggle(t, i) ==
  selected' = [selected EXCEPT ![t] = IF i \in @ THEN @ \ {i} ELSE @ \union {i}]

(* A click on a card selects in select mode; otherwise, the sheet of its   *)
(* image opens from the card's buttons.                                    *)
ClickCard(t, i) ==
  /\ sheet[t] = "none" /\ i \in In(shown[t])
  /\ IF mode[t]
     THEN Toggle(t, i) /\ UNCHANGED sheet
     ELSE sheet' = [sheet EXCEPT ![t] = "edit"] /\ UNCHANGED selected
  /\ UNCHANGED <<list, tasks, mode, ticked, uploads, copies, net, history>>

(* The bar under the list, there while anything is selected, opens the     *)
(* forms for the selection.                                                *)
OpenSheet(t, s) ==
  /\ selected[t] # {} /\ sheet[t] = "none"
  /\ s \in {"bulk", "confirm"}
  /\ sheet' = [sheet EXCEPT ![t] = s]
  /\ UNCHANGED <<list, tasks, mode, selected, ticked, uploads, copies, net,
                 history>>

ClearSelection(t) ==
  /\ selected[t] # {} /\ sheet[t] = "none"
  /\ selected' = [selected EXCEPT ![t] = {}]
  /\ UNCHANGED <<list, tasks, mode, sheet, ticked, uploads, copies, net,
                 history>>

(* toggleFieldSelection, selectAllFields and deselectAllFields. *)
TickFields(t, S) ==
  /\ sheet[t] = "bulk" /\ S # ticked[t]
  /\ ticked' = [ticked EXCEPT ![t] = S]
  /\ UNCHANGED <<list, tasks, mode, selected, sheet, uploads, copies, net,
                 history>>

CloseSheet(t) ==
  /\ sheet[t] # "none"
  /\ sheet' = [sheet EXCEPT ![t] = "none"]
  /\ ticked' = [ticked EXCEPT ![t] = {}]
  /\ UNCHANGED <<list, tasks, mode, selected, uploads, copies, net,
                 history>>

(* BulkImageSheetForm: the selection as it is now, and what is ticked. *)
SubmitBulk(t) ==
  /\ sheet[t] = "bulk" /\ ticked[t] # {} /\ ~Waits(t, "bulk")
  /\ Request(t, "bulk", selected[t])
  /\ UNCHANGED <<list, choice, uploads, copies, net, faults, unheard>>

(* ImageSheetForm: the product of the image that is now at the place of    *)
(* the card, which is not always the one the form was opened for.  The     *)
(* button is given `disabled', which hides isLoading, so it stays enabled. *)
SubmitMetadata(t, i) ==
  /\ sheet[t] = "edit" /\ i \in In(shown[t])
  /\ Request(t, IF shown[t].row[i] = "linked" THEN "update" ELSE "create", {i})
  /\ UNCHANGED <<list, choice, uploads, copies, net, faults, unheard>>

(* handleBulkDelete; the selection stays until the bulk action completes,  *)
(* and the drawer of a small screen can be confirmed again.                *)
DeleteSelected(t) ==
  /\ sheet[t] = "confirm" /\ selected[t] # {}
  /\ Request(t, "delete", selected[t])
  /\ UNCHANGED <<list, choice, uploads, copies, net, faults, unheard>>

(* handleDelete: a thumbnail of the lightbox. *)
DeleteOne(t, i) ==
  /\ sheet[t] = "none" /\ ~mode[t] /\ i \in In(shown[t])
  /\ Request(t, "delete", {i})
  /\ UNCHANGED <<list, choice, uploads, copies, net, faults, unheard>>

(* The upload widget has stored a picture and hands over its address. *)
UploadDone(t) ==
  /\ Cardinality(Fresh) > urls[t]
  /\ urls' = [urls EXCEPT ![t] = @ + 1]
  /\ late' = [late EXCEPT ![t] = IF saving[t] THEN @ + 1 ELSE @]
  /\ UNCHANGED <<list, tasks, choice, saving, copies, net, history>>

(* onComplete of GalleryImagesUpload. *)
SaveUrls(t) ==
  /\ sheet[t] = "none" /\ urls[t] > 0 /\ ~saving[t] /\ urls[t] <= Cardinality(Fresh)
  /\ \E S \in SUBSET Fresh : Cardinality(S) = urls[t] /\ Request(t, "urls", S)
  /\ saving' = [saving EXCEPT ![t] = TRUE]
  /\ UNCHANGED <<list, choice, urls, late, copies, net, faults, unheard>>

(* ProductImageUploader, for pictures of no product. *)
UploadFiles(t) ==
  /\ sheet[t] = "none" /\ Fresh # {}
  /\ Request(t, "files", Fresh)
  /\ UNCHANGED <<list, choice, uploads, copies, net, faults, unheard>>

(* What other administrators send. *)
Elsewhere ==
  /\ \/ \E i \in Rows, kind \in {"delete", "bulk"} : Request(None, kind, {i})
     \/ \E i \in Rows :
          Request(None, IF list.row[i] = "linked" THEN "update" ELSE "create", {i})
  /\ UNCHANGED <<list, choice, uploads, copies, net, faults, unheard>>

-----------------------------------------------------------------------------
(* The answers.                                                            *)

(* What the page does when its request has succeeded: a form closes, the   *)
(* list of uploads is emptied, also of what was added meanwhile.           *)
Closes(k, s) ==
  /\ sheet' = [sheet EXCEPT ![k.by] = IF @ = s THEN "none" ELSE @]
  /\ ticked' = [ticked EXCEPT ![k.by] = IF sheet[k.by] = s THEN {} ELSE @]
  /\ UNCHANGED <<mode, selected, uploads>>

Succeeds(k) ==
  CASE k.by \in Tabs /\ k.kind = "bulk" -> Closes(k, "bulk")
    [] k.by \in Tabs /\ k.kind \in {"create", "update"} -> Closes(k, "edit")
    [] k.by \in Tabs /\ k.kind = "urls" ->
         /\ urls' = [urls EXCEPT ![k.by] = 0]
         /\ late' = [late EXCEPT ![k.by] = 0]
         /\ saving' = [saving EXCEPT ![k.by] = FALSE]
         /\ UNCHANGED choice
    [] OTHER -> UNCHANGED <<choice, uploads>>

(* Mutant: the uploads are emptied whether or not they were saved. *)
RefuseEmptying(k) ==
  /\ tasks' = tasks \ {k}
  /\ saving' = IF k.by \in Tabs /\ k.kind = "urls"
               THEN [saving EXCEPT ![k.by] = FALSE] ELSE saving
  /\ late' = IF k.by \in Tabs /\ k.kind = "urls"
             THEN [late EXCEPT ![k.by] = 0] ELSE late
  /\ urls' = IF k.by \in Tabs /\ k.kind = "urls"
             THEN [urls EXCEPT ![k.by] = 0] ELSE urls
  /\ UNCHANGED <<list, choice, copies, net, writes>>

(* It is refused, or never gets there: the form stays, the uploads too. *)
Refuse(k) ==
  /\ tasks' = tasks \ {k}
  /\ saving' = IF k.by \in Tabs /\ k.kind = "urls"
               THEN [saving EXCEPT ![k.by] = FALSE] ELSE saving
  /\ late' = IF k.by \in Tabs /\ k.kind = "urls"
             THEN [late EXCEPT ![k.by] = 0] ELSE late
  /\ UNCHANGED <<list, choice, urls, copies, net, writes>>

Lose(k) ==
  /\ k \in tasks /\ k.pc = "sent" /\ Happens
  /\ Refuse(k)
  /\ faults' = faults + 1
  /\ UNCHANGED unheard

-----------------------------------------------------------------------------
(* The backend.                                                            *)

(* bulk_delete_gallery_images and bulk_update_products: the work is left   *)
(* to a task that starts after the answer.                                 *)
(* For an update, the images are read here, with what they are linked to.  *)
ServeBulk(k) ==
  /\ k \in tasks /\ k.kind \in {"delete", "bulk"} /\ k.pc = "sent"
  /\ k.images \intersect Rows # {}
  /\ tasks' = (tasks \ {k}) \union
       {[k EXCEPT !.pc = "queued",
                  !.images = @ \intersect Rows,
                  !.linked = Linked(k.images)]}
  /\ Succeeds(k)
  /\ UNCHANGED <<list, copies, net, history>>

RefuseBulk(k) ==
  /\ k \in tasks /\ k.kind \in {"delete", "bulk"} /\ k.pc = "sent"
  /\ k.images \intersect Rows = {}
  /\ Refuse(k)
  /\ UNCHANGED <<faults, unheard>>

(* process_bulk_delete_task: the rows, then the stored files and the       *)
(* index, whose failures are only logged.                                  *)
RunDelete(k) ==
  /\ At(k, "delete", "queued")
  /\ IF k.images \intersect Rows = {}
     THEN tasks' = tasks \ {k} /\ UNCHANGED list
     ELSE /\ Commit(k.images \intersect Rows, "gone")
          /\ Move(k, "invalidate")
  /\ UNCHANGED <<choice, uploads, copies, net, history>>

(* handle_bulk_update_images: an image that had no product gets one; it    *)
(* fails, and is passed over, when it has been deleted meanwhile.          *)
RunBulk(k) ==
  LET failed == {i \in k.images \ k.linked : list.row[i] = "gone"}
  IN /\ At(k, "bulk", "queued")
     /\ IF failed = k.images
        THEN UNCHANGED list
        ELSE Commit(k.images \ (k.linked \union failed), "linked")
     /\ tasks' = (tasks \ {k}) \union
          {[k EXCEPT !.pc = IF failed = k.images THEN "complete" ELSE "invalidate",
                     !.end = IF failed = {} THEN "completed" ELSE "partial"]}
     /\ UNCHANGED <<choice, uploads, copies, net, history>>

(* create_metadata and update_metadata: the list is invalidated inside the *)
(* transaction, that is, before the change can be seen.                    *)
MayLink(k) ==
  IF k.kind = "create" THEN \A i \in k.images : list.row[i] = "loose"
                       ELSE k.images \subseteq Rows

InvalidateEarly(k) ==
  /\ k \in tasks /\ k.kind \in {"create", "update"} /\ k.pc = "sent"
  /\ MayLink(k)
  /\ Move(k, "announced")
  /\ Invalidate
  /\ UNCHANGED <<list, choice, uploads, shown, fetch, online, history>>

RefuseMetadata(k) ==
  /\ k \in tasks /\ k.kind \in {"create", "update"}
  /\ \/ k.pc = "sent" /\ ~MayLink(k)
     \/ k.pc = "announced" /\ k.kind = "create" /\ ~(k.images \subseteq Rows)
  /\ Refuse(k)
  /\ UNCHANGED <<faults, unheard>>

CommitMetadata(k) ==
  /\ k \in tasks /\ k.pc = "announced"
  /\ k.kind = "create" => k.images \subseteq Rows
  /\ Commit(k.images \intersect Rows, "linked")
  /\ Move(k, "invalidate")
  /\ Succeeds(k)
  /\ UNCHANGED <<copies, net, history>>

(* bulk_save_image_urls, and the files of upload_gallery_images. *)
CreateRows(k) ==
  /\ k \in tasks /\ k.kind \in {"urls", "files"} /\ k.pc = "sent"
  /\ Commit(k.images \intersect Fresh, "loose")
  /\ Move(k, "invalidate")
  /\ UNCHANGED <<choice, uploads, copies, net, history>>

(* A file of several is refused: its files are removed, the rows of those  *)
(* before it stay, and nobody is told.                                     *)
StopHalfWay(k) ==
  /\ At(k, "files", "sent") /\ Cardinality(k.images) > 1
  /\ Happens
  /\ faults' = faults + 1
  /\ \E i \in k.images \intersect Fresh : Commit({i}, "loose")
  /\ unheard' = TRUE
  /\ tasks' = tasks \ {k}
  /\ UNCHANGED <<choice, uploads, copies, net, writes>>

(* Mutant: the early invalidation of a form is thought to be enough. *)
InvalidateAfterBulk(k) ==
  /\ k \in tasks /\ k.pc = "invalidate"
  /\ IF k.kind \in {"create", "update"} THEN UNCHANGED <<cached, inbox>>
     ELSE Invalidate
  /\ IF k.kind \in {"delete", "bulk"}
     THEN Move(k, "complete") /\ UNCHANGED <<choice, uploads>>
     ELSE /\ tasks' = tasks \ {k}
          /\ IF k.kind = "urls" THEN Succeeds(k) ELSE UNCHANGED <<choice, uploads>>
  /\ UNCHANGED <<list, shown, fetch, online, history>>

(* The invalidation after the change: in the task, in the handler, or by   *)
(* ProductService.invalidate and invalidate_all after the index.           *)
InvalidateAfter(k) ==
  /\ k \in tasks /\ k.pc = "invalidate"
  /\ Invalidate
  /\ IF k.kind \in {"delete", "bulk"}
     THEN Move(k, "complete") /\ UNCHANGED <<choice, uploads>>
     ELSE /\ tasks' = tasks \ {k}
          /\ IF k.kind = "urls" THEN Succeeds(k) ELSE UNCHANGED <<choice, uploads>>
  /\ UNCHANGED <<list, shown, fetch, online, history>>

(* The index fails before the invalidation is reached; the error is logged. *)
IndexFails(k) ==
  /\ k \in tasks /\ k.pc = "invalidate" /\ k.kind \in {"bulk", "create", "update"}
  /\ Happens
  /\ faults' = faults + 1
  /\ unheard' = TRUE
  /\ IF k.kind = "bulk" THEN Move(k, "complete") ELSE tasks' = tasks \ {k}
  /\ UNCHANGED <<list, choice, uploads, copies, net, writes>>

(* The last message of a bulk action; pages only know "completed", not     *)
(* "partial", and of the other messages they make notices at most.         *)
Complete(k) ==
  /\ k \in tasks /\ k.pc = "complete"
  /\ IF k.end = "completed" THEN Broadcast(k.end) ELSE UNCHANGED inbox
  /\ tasks' = tasks \ {k}
  /\ UNCHANGED <<list, choice, uploads, copies, online, history>>

-----------------------------------------------------------------------------
(* The list, as useInfiniteResource keeps it, and the messages.            *)

ServeList(t) ==
  /\ fetch[t].pc = "asked"
  /\ cached' = IF cached = None THEN list ELSE cached
  /\ fetch' = [fetch EXCEPT ![t] = [pc |-> "answered", data |-> cached']]
  /\ UNCHANGED <<list, tasks, choice, uploads, shown, net, history>>

ListArrives(t) ==
  /\ fetch[t].pc = "answered"
  /\ shown' = [shown EXCEPT ![t] = fetch[t].data]
  /\ fetch' = [fetch EXCEPT ![t] = Idle]
  /\ UNCHANGED <<list, cached, tasks, choice, uploads, net, history>>

(* Mutant: the end of a bulk action leaves the selection alone. *)
HearKeepingSelection(t) ==
  /\ inbox[t] # <<>>
  /\ inbox' = [inbox EXCEPT ![t] = Tail(@)]
  /\ CASE Head(inbox[t]) = "gallery" ->
            /\ fetch' = [fetch EXCEPT ![t] = Asked]
            /\ UNCHANGED choice
       [] Head(inbox[t]) = "completed" ->
            /\ mode' = [mode EXCEPT ![t] = FALSE]
            /\ UNCHANGED selected
            /\ sheet' = [sheet EXCEPT ![t] = IF @ = "edit" THEN @ ELSE "none"]
            /\ ticked' = [ticked EXCEPT ![t] = {}]
            /\ UNCHANGED fetch
  /\ UNCHANGED <<list, cached, tasks, uploads, shown, online, history>>

(* A message: the list is asked for again, in place of a request under     *)
(* way; the end of any bulk action ends every page's selection.            *)
Hear(t) ==
  /\ inbox[t] # <<>>
  /\ inbox' = [inbox EXCEPT ![t] = Tail(@)]
  /\ CASE Head(inbox[t]) = "gallery" ->
            /\ fetch' = [fetch EXCEPT ![t] = Asked]
            /\ UNCHANGED choice
       [] Head(inbox[t]) = "completed" ->
            /\ mode' = [mode EXCEPT ![t] = FALSE]
            /\ selected' = [selected EXCEPT ![t] = {}]
            /\ sheet' = [sheet EXCEPT ![t] = IF @ = "edit" THEN @ ELSE "none"]
            /\ ticked' = [ticked EXCEPT ![t] = {}]
            /\ UNCHANGED fetch
  /\ UNCHANGED <<list, cached, tasks, uploads, shown, online, history>>

Disconnect(t) ==
  /\ online[t] /\ Happens
  /\ faults' = faults + 1
  /\ online' = [online EXCEPT ![t] = FALSE]
  /\ inbox' = [inbox EXCEPT ![t] = <<>>]
  /\ UNCHANGED <<list, tasks, choice, uploads, copies, writes, unheard>>

(* A page that connects again asks for the list. *)
Reconnect(t) ==
  /\ ~online[t]
  /\ online' = [online EXCEPT ![t] = TRUE]
  /\ fetch' = [fetch EXCEPT ![t] = Asked]
  /\ UNCHANGED <<list, cached, tasks, choice, uploads, shown, inbox, history>>

-----------------------------------------------------------------------------
Page(t) ==
  \/ SwitchMode(t) \/ ClearSelection(t) \/ CloseSheet(t)
  \/ \E i \in Images : ClickCard(t, i) \/ SubmitMetadata(t, i) \/ DeleteOne(t, i)
  \/ \E s \in Sheets : OpenSheet(t, s)
  \/ \E S \in SUBSET Fields : TickFields(t, S)
  \/ SubmitBulk(t) \/ DeleteSelected(t)
  \/ UploadDone(t) \/ SaveUrls(t) \/ UploadFiles(t)

Backend(k) ==
  \/ ServeBulk(k) \/ RefuseBulk(k) \/ RunDelete(k) \/ RunBulk(k)
  \/ InvalidateEarly(k) \/ RefuseMetadata(k) \/ CommitMetadata(k)
  \/ CreateRows(k) \/ InvalidateAfter(k) \/ Complete(k)

Fault(k) == Lose(k) \/ StopHalfWay(k) \/ IndexFails(k)

Deliver(t) == ServeList(t) \/ ListArrives(t) \/ Hear(t)

Next ==
  \/ Elsewhere
  \/ \E t \in Tabs : Page(t) \/ Deliver(t) \/ Disconnect(t) \/ Reconnect(t)
  \/ \E k \in tasks : Backend(k) \/ Fault(k)

(* The backend and the network go on; nobody has to click anything. *)
Work == \E k \in tasks : Backend(k)
Spec == Init /\ [][Next]_vars /\ WF_vars(Work) /\ \A t \in Tabs : WF_vars(Deliver(t))

-----------------------------------------------------------------------------
(* Every value has its type. *)
TypeOK ==
  /\ list \in List /\ cached \in List \union {None}
  /\ tasks \subseteq [id : 1..MaxEvents, by : Tabs \union {None}, kind : Requests,
                      images : SUBSET Images, linked : SUBSET Images,
                      end : {"completed", "partial"}, pc : Steps]
  /\ mode \in [Tabs -> BOOLEAN] /\ selected \in [Tabs -> SUBSET Images]
  /\ sheet \in [Tabs -> Sheets] /\ ticked \in [Tabs -> SUBSET Fields]
  /\ urls \in [Tabs -> 0..Cardinality(Images)]
  /\ late \in [Tabs -> 0..Cardinality(Images)]
  /\ saving \in [Tabs -> BOOLEAN]
  /\ shown \in [Tabs -> List]
  /\ fetch \in [Tabs -> [pc : {"none", "asked", "answered"},
                         data : List \union {None}]]
  /\ online \in [Tabs -> BOOLEAN] /\ inbox \in [Tabs -> Seq(Messages)]
  /\ writes \in 0..MaxEvents /\ faults \in 0..MaxEvents /\ unheard \in BOOLEAN

(* What is selected can be seen and taken back: whenever an image is       *)
(* selected the page is in select mode, also after another administrator's *)
(* bulk action has ended (gallery.lazy.tsx:67-76, 139-142).                *)
SelectionNeedsMode == \A t \in Tabs : selected[t] # {} => mode[t]

(* No picture that was uploaded is forgotten before it has been saved,     *)
(* except those that arrive while a save is on its way                     *)
(* (gallery-images-upload.tsx:51).                                         *)
KeepsUploads ==
  \A t \in Tabs :
     urls'[t] < urls[t] =>
       \E k \in tasks : /\ k.by = t /\ k.kind = "urls" /\ k \notin tasks'
                        /\ k.images \intersect Fresh' = {}
                        /\ urls[t] = Cardinality(k.images) + late[t]
UploadsAreKept == [][KeepsUploads]_vars

(* Once nothing changes, every page that is connected shows the images as  *)
(* the database has them, although the list is first invalidated before    *)
(* the change is committed; only failures of the index and half-done       *)
(* uploads keep a page behind (services/gallery.py:298, 352, product.py:   *)
(* 374-400, invalidate-provider.tsx:75-79).                                *)
IsCaughtUp == unheard \/ \A t \in Tabs : online[t] => shown[t] = list
GalleryCatchesUp == <>[]IsCaughtUp
=============================================================================
