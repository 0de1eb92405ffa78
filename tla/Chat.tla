-------------------------------- MODULE Chat --------------------------------
(***************************************************************************)
(* The support chat of one customer: the widget (useSupportChat.ts), the   *)
(* agent that answers first (agent/app/main.py) and saves a turn after it  *)
(* has answered, the staff who take a conversation over                    *)
(* (components/admin/chats, api/routes/chat.py), and the cached copy of a  *)
(* conversation, which the agent does not know about.                      *)
(*                                                                         *)
(* A conversation is known by the number of its uuid; the texts are        *)
(* numbered in the order they are written.  `missed', a history variable,  *)
(* is TRUE when the widget was not connected when it should have been told *)
(* of a change.                                                            *)
(***************************************************************************)
EXTENDS Integers, Sequences, FiniteSets, SequencesExt

CONSTANTS
  Convs,          \* bound: the uuids a browser makes, 1..n
  Admins,
  Beginnings,     \* what the first of them may be when the page is loaded
  MaxActs,        \* bound: what the customer and the staff do, the requests to
                  \* the agent and the connections that are lost, together
  None

VARIABLES
  conv,       \* the conversations of the database
  cached,     \* the backend's copies, by the key chat:<uuid>
  mapped,     \* conversations with a chat_user key
  stored, saved,             \* the browser's storage: the uuid, the history
  session, had,              \* the uuid the widget uses; was it stored before?
  shown, human,              \* what the widget shows; does it write to staff?
  ask,        \* the request to the agent
  saving,     \* turns the agent has answered and not yet saved
  posts,      \* requests to the staff's route, and to close a conversation
  fetch, data,               \* the query ["chat", session]
  ws, wired,                 \* messages on their way to the widget
  taking,     \* hand-offs that have passed their check
  written, acts, missed

vars == <<conv, cached, mapped, stored, saved, session, had, shown, human, ask,
          saving, posts, fetch, data, ws, wired, taking, written, acts,
          missed>>
database == <<conv, cached, mapped, saving>>
widget == <<stored, saved, session, had, shown, human, ask>>
query == <<fetch, data>>
rest == <<taking, written, acts>>

Statuses == {"ACTIVE", "ABANDONED", "COMPLETED"}
Senders == {"USER", "BOT", "ESCALATED", "NOTICE", "SYSTEM"}
Message == [id : Nat, by : Senders]
Conversation == [status  : Statuses \union {None},
                 support : Admins \union {None},
                 log     : Seq(Message)]

NoConversation == [status |-> None, support |-> None, log |-> <<>>]
Idle == [pc |-> "none", data |-> None]
Asked == [pc |-> "asked", data |-> None]

Exists(c) == conv[c].status # None
Said(c) == ToSet(conv[c].log)

(* A page load in a browser that knows the first conversation, if there is *)
(* one already.                                                            *)
Init ==
  /\ conv \in {[c \in Convs |-> IF c = 1 THEN b ELSE NoConversation] :
               b \in Beginnings}
  /\ cached = [c \in Convs |-> None]
  /\ stored = 1 /\ session = 1 /\ had = Exists(1)
  /\ mapped = IF had THEN {1} ELSE {}
  /\ saved = conv[1].log /\ shown = saved /\ human = FALSE
  /\ ask = None /\ saving = {} /\ posts = {}
  /\ fetch = IF had THEN Asked ELSE Idle
  /\ data = None
  /\ ws = <<>> /\ wired = FALSE
  /\ taking = [a \in Admins |-> None]
  /\ written = Len(saved) /\ acts = 0 /\ missed = FALSE

(* cache.invalidate("chat:<uuid>"), whose broadcast every tab gets; further *)
(* messages for this customer follow it.                                    *)
InvalidateAndSend(c, more) ==
  /\ cached' = [cached EXCEPT ![c] = None]
  /\ ws' = IF wired
           THEN ws \o <<[type |-> "stale", of |-> c]>>
                   \o (IF c \in mapped THEN more ELSE <<>>)
           ELSE ws
  /\ missed' = (missed \/ ~wired)

Write(by) == [id |-> written + 1, by |-> by]
Act == acts < MaxActs /\ acts' = acts + 1

-----------------------------------------------------------------------------
(* The widget.                                                             *)

(* isDisabled: an answer is awaited, or the agent has just passed the      *)
(* conversation on.                                                        *)
Disabled ==
  \/ ask # None /\ ask.mine
  \/ shown # <<>> /\ Last(shown).by = "ESCALATED"

(* sendMessage and sendFormSubmission: to the agent, with the uuid that    *)
(* was read when the widget was mounted.                                   *)
Ask(form) ==
  /\ Act /\ ask = None
  /\ shown' = Append(shown, Write("USER"))
  /\ written' = written + 1
  /\ ask' = [pc |-> "asked", conv |-> session, msg |-> Write("USER"),
             reply |-> None, mine |-> TRUE, form |-> form]
  /\ UNCHANGED <<database, stored, saved, session, had, human, posts, query, ws,
                 wired, taking, missed>>

SendMessage == ~human /\ ~Disabled /\ Ask(FALSE)

(* The form of the last message, which may be there when staff has taken   *)
(* over: what is filled in still goes to the agent.                        *)
SubmitForm == shown # <<>> /\ Last(shown).by = "BOT" /\ Ask(TRUE)

(* sendHumanMessage: to the backend, with the uuid that is stored now; a   *)
(* missing one is refused after the text was shown.                        *)
SendHumanMessage ==
  /\ Act /\ human /\ ~Disabled
  /\ shown' = Append(shown, Write("USER"))
  /\ written' = written + 1
  /\ posts' = IF stored = None THEN posts
              ELSE posts \union {[to |-> stored, msg |-> Write("USER"),
                                  pc |-> "sent", mine |-> TRUE]}
  /\ UNCHANGED <<database, stored, saved, session, had, human, ask, query, ws,
                 wired, taking, missed>>

(* The answer, or what stands for it when there is none. *)
AnswerArrives ==
  /\ ask # None /\ ask.pc = "answered"
  /\ shown' = IF ask.mine THEN Append(shown, ask.reply) ELSE shown
  /\ ask' = None
  /\ UNCHANGED <<database, stored, saved, session, had, human, posts, query, ws,
                 wired, rest, missed>>

AskLost ==
  /\ Act /\ ask # None /\ ask.pc = "asked"
  /\ written' = written + 1
  /\ ask' = [ask EXCEPT !.pc = "answered", !.reply = Write("NOTICE")]
  /\ UNCHANGED <<database, stored, saved, session, had, shown, human, posts,
                 query, ws, wired, taking, missed>>

(* clearHistory, which ChatWidget offers when there is a history. *)
ClearHistory ==
  /\ Act /\ stored # None /\ shown # <<>>
  /\ \A p \in posts : p.msg # None
  /\ posts' = posts \union {[to |-> stored, msg |-> None, pc |-> "sent",
                             mine |-> TRUE]}
  /\ UNCHANGED <<database, widget, query, ws, wired, taking, written, missed>>

Forget ==
  /\ stored' = None /\ saved' = <<>> /\ shown' = <<>>

Cleared(p) ==
  /\ p \in posts /\ p.pc = "done"
  /\ posts' = posts \ {p}
  /\ IF p.mine THEN Forget ELSE UNCHANGED <<stored, saved, shown>>
  /\ UNCHANGED <<database, session, had, human, ask, query, ws, wired, rest,
                 missed>>

(* A page load: loadLocalHistory and getChatSessionId. *)
Reload ==
  /\ Act /\ (stored # None \/ session + 1 \in Convs)
  /\ session' = IF stored # None THEN stored ELSE session + 1
  /\ had' = (stored # None)
  /\ stored' = session'
  /\ shown' = saved /\ human' = FALSE
  /\ ask' = IF ask = None THEN None ELSE [ask EXCEPT !.mine = FALSE]
  /\ posts' = {[p EXCEPT !.mine = FALSE] : p \in posts}
  /\ fetch' = IF had' THEN Asked ELSE Idle
  /\ data' = None
  /\ ws' = <<>> /\ wired' = FALSE /\ missed' = FALSE
  /\ UNCHANGED <<database, saved, taking, written>>

(* Mutant: an unknown conversation is answered and cached. *)
ServeChatUnchecked ==
  LET c == session
      copy == IF cached[c] # None THEN cached[c] ELSE conv[c] IN
  /\ fetch.pc = "asked"
  /\ fetch' = [pc |-> "answered", data |-> copy]
  /\ cached' = [cached EXCEPT ![c] = copy]
  /\ UNCHANGED <<conv, mapped, saving, widget, posts, data, ws, wired, rest,
                 missed>>

(* useChat; GET /chat/<uuid> is answered from the cache when it can be. *)
ServeChat ==
  LET c == session
      copy == IF cached[c] # None THEN cached[c] ELSE conv[c] IN
  /\ fetch.pc = "asked"
  /\ IF copy.status = None THEN fetch' = Idle /\ UNCHANGED cached
     ELSE /\ fetch' = [pc |-> "answered", data |-> copy]
          /\ cached' = [cached EXCEPT ![c] = copy]
  /\ UNCHANGED <<conv, mapped, saving, widget, posts, data, ws, wired, rest,
                 missed>>

(* The effect on dbHistory, which runs when the data differ. *)
ChatArrives ==
  LET d == fetch.data IN
  /\ fetch.pc = "answered"
  /\ fetch' = Idle /\ data' = d
  /\ IF d = data THEN UNCHANGED <<stored, saved, shown, human>>
     ELSE IF d.status # "ACTIVE" THEN Forget /\ UNCHANGED human
     ELSE /\ shown' = d.log /\ saved' = d.log
          /\ human' = (d.support # None)
          /\ UNCHANGED stored
  /\ UNCHANGED <<database, session, had, ask, posts, ws, wired, rest, missed>>

(* The messages: the widget's own, and the one that invalidates the query, *)
(* which is enabled for a session that existed when the page was loaded.   *)
MessageArrives ==
  /\ ws # <<>>
  /\ ws' = Tail(ws)
  /\ CASE Head(ws).type = "stale" ->
            /\ fetch' = IF had /\ Head(ws).of = session THEN Asked ELSE fetch
            /\ UNCHANGED <<shown, human>>
       [] Head(ws).type = "chat" ->
            /\ shown' = Append(shown, Head(ws).of)
            /\ UNCHANGED <<fetch, human>>
       [] Head(ws).type = "human" ->
            /\ human' = TRUE
            /\ UNCHANGED <<fetch, shown>>
  /\ UNCHANGED <<database, stored, saved, session, had, ask, posts, data,
                 wired, rest, missed>>

Connect ==
  /\ ~wired /\ wired' = TRUE
  /\ UNCHANGED <<database, widget, posts, query, ws, rest, missed>>

Disconnect ==
  /\ Act /\ wired
  /\ wired' = FALSE /\ ws' = <<>>
  /\ missed' = (missed \/ ws # <<>>)
  /\ UNCHANGED <<database, widget, posts, query, taking, written>>

-----------------------------------------------------------------------------
(* The agent.                                                              *)

(* It notes whom to tell, makes the conversation and, unless it got a form, *)
(* looks for a human.                                                       *)
AgentStarts ==
  /\ ask # None /\ ask.pc = "asked"
  /\ LET c == ask.conv
         active == [conv[c] EXCEPT !.status = IF Exists(c) THEN @ ELSE "ACTIVE"]
     IN
     /\ mapped' = mapped \union {c}
     /\ IF conv[c].support = None \/ ask.form
        THEN /\ ask' = [ask EXCEPT !.pc = "running"]
             /\ conv' = [conv EXCEPT ![c] = active]
             /\ UNCHANGED written
        ELSE /\ written' = written + 1
             /\ ask' = [ask EXCEPT !.pc = "answered", !.reply = Write("NOTICE")]
             /\ conv' = [conv EXCEPT ![c].status = "ACTIVE",
                                     ![c].log = Append(@, ask.msg)]
  /\ UNCHANGED <<cached, saving, stored, saved, session, had, shown, human,
                 posts, query, ws, wired, taking, acts, missed>>

(* run_agent or an escalation; the turn is saved in the background. *)
AgentAnswers(by) ==
  /\ ask # None /\ ask.pc = "running"
  /\ written' = written + 1
  /\ ask' = [ask EXCEPT !.pc = "answered", !.reply = Write(by)]
  /\ saving' = saving \union {[conv |-> ask.conv,
                               turn |-> <<ask.msg, Write(by)>>]}
  /\ UNCHANGED <<conv, cached, mapped, stored, saved, session, had, shown,
                 human, posts, query, ws, wired, taking, acts, missed>>

(* persist_turn_to_db: save_message_db makes the conversation ACTIVE, and  *)
(* tells no cache.                                                         *)
PersistTurn(s) ==
  /\ s \in saving
  /\ saving' = saving \ {s}
  /\ conv' = [conv EXCEPT ![s.conv].status = "ACTIVE",
                          ![s.conv].log = @ \o s.turn]
  /\ UNCHANGED <<cached, mapped, widget, posts, query, ws, wired, rest, missed>>

-----------------------------------------------------------------------------
(* The routes of the backend, for the customer and for the staff.          *)

(* POST /chat/ *)
CustomerChat(p) ==
  /\ p \in posts /\ p.pc = "sent" /\ p.msg # None
  /\ posts' = posts \ {p}
  /\ IF Exists(p.to)
     THEN /\ conv' = [conv EXCEPT ![p.to].log = Append(@, p.msg)]
          /\ InvalidateAndSend(p.to, <<>>)
     ELSE UNCHANGED <<conv, cached, ws, missed>>
  /\ UNCHANGED <<mapped, saving, widget, query, wired, rest>>

(* POST /chat/status by the customer; an unknown conversation is refused. *)
Abandon(p) ==
  /\ p \in posts /\ p.pc = "sent" /\ p.msg = None
  /\ IF Exists(p.to)
     THEN /\ conv' = [conv EXCEPT ![p.to].status = "ABANDONED"]
          /\ InvalidateAndSend(p.to, <<>>)
          /\ posts' = (posts \ {p}) \union {[p EXCEPT !.pc = "done"]}
     ELSE posts' = posts \ {p} /\ UNCHANGED <<conv, cached, ws, missed>>
  /\ UNCHANGED <<mapped, saving, widget, query, wired, rest>>

(* Mutant: nobody is told. *)
CompleteQuietly(c) ==
  /\ Act /\ conv[c].status = "ACTIVE"
  /\ conv' = [conv EXCEPT ![c].status = "COMPLETED"]
  /\ UNCHANGED <<cached, mapped, saving, widget, posts, query, ws, wired, taking, written,
                 missed>>

(* The same by the staff, who see the button on an open conversation. *)
Complete(c) ==
  /\ Act /\ conv[c].status = "ACTIVE"
  /\ conv' = [conv EXCEPT ![c].status = "COMPLETED"]
  /\ InvalidateAndSend(c, <<>>)
  /\ UNCHANGED <<mapped, saving, widget, posts, query, wired, taking, written>>

(* Take over, on an escalated message: handoff checks, then writes. *)
TakeOver(a, c) ==
  /\ Act /\ taking[a] = None /\ Exists(c) /\ conv[c].support = None
  /\ \E m \in Said(c) : m.by = "ESCALATED"
  /\ taking' = [taking EXCEPT ![a] = c]
  /\ UNCHANGED <<database, widget, posts, query, ws, wired, written,
                 missed>>

Handoff(a) ==
  LET c == taking[a] IN
  /\ c # None
  /\ taking' = [taking EXCEPT ![a] = None]
  /\ IF Exists(c)
     THEN /\ conv' = [conv EXCEPT ![c].support = a]
          /\ InvalidateAndSend(c, <<[type |-> "human"]>>)
     ELSE UNCHANGED <<conv, cached, ws, missed>>
  /\ UNCHANGED <<mapped, saving, widget, posts, query, wired, written, acts>>

(* Mutant: the message is sent, the copies stay. *)
AdminChatOnly(c) ==
  /\ Act /\ conv[c].support # None
  /\ written' = written + 1
  /\ conv' = [conv EXCEPT ![c].log = Append(@, Write("SYSTEM"))]
  /\ ws' = IF wired /\ c \in mapped
           THEN Append(ws, [type |-> "chat", of |-> Write("SYSTEM")]) ELSE ws
  /\ missed' = (missed \/ ~wired)
  /\ UNCHANGED <<cached, mapped, saving, widget, posts, query, wired, taking>>

(* POST /chat/support, from the viewer of a conversation that was taken. *)
AdminChat(c) ==
  /\ Act /\ conv[c].support # None
  /\ written' = written + 1
  /\ conv' = [conv EXCEPT ![c].log = Append(@, Write("SYSTEM"))]
  /\ InvalidateAndSend(c, <<[type |-> "chat", of |-> Write("SYSTEM")]>>)
  /\ UNCHANGED <<mapped, saving, widget, posts, query, wired, taking>>

(* DELETE /chat/{id} invalidates chat:<id>, which is not the uuid. *)
DeleteChat(c) ==
  /\ Act /\ Exists(c)
  /\ conv' = [conv EXCEPT ![c] = NoConversation]
  /\ UNCHANGED <<cached, mapped, saving, widget, posts, query, ws, wired, taking, written,
                 missed>>

Next ==
  \/ SendMessage \/ SubmitForm \/ SendHumanMessage \/ AnswerArrives \/ AskLost
  \/ ClearHistory \/ Reload \/ ServeChat \/ ChatArrives \/ MessageArrives
  \/ Connect \/ Disconnect \/ AgentStarts
  \/ \E by \in {"BOT", "ESCALATED"} : AgentAnswers(by)
  \/ \E s \in saving : PersistTurn(s)
  \/ \E p \in posts : Cleared(p) \/ CustomerChat(p) \/ Abandon(p)
  \/ \E c \in Convs : Complete(c) \/ AdminChat(c) \/ DeleteChat(c)
  \/ \E a \in Admins : Handoff(a) \/ \E c \in Convs : TakeOver(a, c)

Spec == Init /\ [][Next]_vars

-----------------------------------------------------------------------------
(* Types: a conversation nobody has made has no messages; what is cached   *)
(* exists or existed.                                                      *)
TypeOK ==
  /\ conv \in [Convs -> Conversation]
  /\ \A c \in Convs : cached[c] # None => cached[c].status \in Statuses
  /\ mapped \subseteq Convs
  /\ stored \in Convs \union {None} /\ session \in Convs
  /\ shown \in Seq(Message) /\ saved \in Seq(Message)
  /\ {had, human, wired, missed} \subseteq BOOLEAN
  /\ taking \in [Admins -> Convs \union {None}]
  /\ written \in Nat /\ acts \in 0..MaxActs

Quiet == fetch.pc = "none" /\ ws = <<>> /\ posts = {}

(* What the staff write reaches the screen and stays there, although the   *)
(* same text comes by two ways that overtake each other: the message       *)
(* itself, appended, and a refetch that replaces everything with what the  *)
(* server or its cache had when it answered (useSupportChat.ts:85-119,     *)
(* chat.py:28-51).                                                         *)
StaffIsShown ==
  Quiet /\ wired /\ ~missed /\ stored = session
    /\ conv[session].status = "ACTIVE" =>
      \A m \in Said(session) : m.by = "SYSTEM" => m \in ToSet(shown)

(* A browser that knows the conversation of its session to be over forgets *)
(* it, whoever ended it, so that the next page load begins a new one       *)
(* (useSupportChat.ts:90-94, 129-137).                                     *)
ClosedIsForgotten ==
  Quiet /\ wired /\ ~missed /\ had
    /\ conv[session].status \in {"ABANDONED", "COMPLETED"} => stored = None

(* "This action cannot be undone. This will permanently close the chat."   *)
(* (components/admin/chats/chat-view.tsx:101)                              *)
CloseIsPermanent ==
  [][\A c \in Convs :
       conv[c].status = "COMPLETED" => conv'[c].status # "ACTIVE"]_vars
=============================================================================
