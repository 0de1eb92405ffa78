----------------------------- MODULE ChatProofs -----------------------------
(***************************************************************************)
(* The support chat of Pages for every value of its constants: what the    *)
(* staff write reaches the screen, and a conversation that is over is      *)
(* forgotten.                                                              *)
(*                                                                         *)
(* The argument follows a change from the database to the widget.  The     *)
(* backend's copy never lacks what the staff wrote nor the end of a        *)
(* conversation, since the step that writes it drops the copy; the same    *)
(* step puts a message on the widget's line or is known to have missed it; *)
(* and the message leads to a request whose answer has it.  A widget whose *)
(* conversation is new makes no such request: there the text itself comes  *)
(* by the line, because a conversation is mapped before it exists.         *)
(***************************************************************************)
EXTENDS Pages, TLAPS

Texts == {m \in Chat!Message : m.by # "SYSTEM"}
Sys(c) == {m \in Chat!Said(c) : m.by = "SYSTEM"}
Closed == {"ABANDONED", "COMPLETED"}

(* The conversations, and where there are copies of them. *)
ConvInv ==
  /\ conv \in [Convs -> Chat!Conversation] /\ mapped \subseteq Convs
  /\ \A c \in Convs : IF Chat!Exists(c) THEN c \in mapped /\ c <= session
                      ELSE conv[c] = Chat!NoConversation
CacheInv ==
  /\ cached \in [Convs -> Chat!Conversation \union {None}]
  /\ \A c \in Convs : cached[c] # None =>
       /\ cached[c].status # None
       /\ Sys(c) \subseteq Chat!ToSet(cached[c].log)
       /\ conv[c].status \in Closed => cached[c].status # "ACTIVE"

(* What is on its way to the database is not the staff's, and is meant for *)
(* a conversation the browser has had.                                     *)
Asks == [pc : {"asked", "running", "answered"}, conv : Convs, msg : Texts,
         reply : Chat!Message \union {None}, mine : BOOLEAN, form : BOOLEAN]
AskInv ==
  ask # None => /\ ask \in Asks /\ ask.conv <= session
                /\ ask.pc = "running" => ask.conv \in mapped
                /\ ask.pc = "answered" => ask.reply \in Chat!Message
TurnInv ==
  \A s \in saving : s.conv \in mapped /\ s.conv <= session /\ s.turn \in Seq(Texts)
Posts == [to : Convs, msg : Texts \union {None}, pc : {"sent", "done"}, mine : BOOLEAN]
PostInv == posts \subseteq Posts
TakingInv == taking \in [Admins -> Convs \union {None}]

(* The widget and its line. *)
Wire == [type : {"stale"}, of : Convs] \union [type : {"chat"}, of : Chat!Message]
          \union [type : {"human"}]
WidgetInv ==
  /\ session \in Convs /\ stored \in {session, None}
  /\ had \in BOOLEAN /\ wired \in BOOLEAN /\ missed \in BOOLEAN
  /\ shown \in Seq(Chat!Message) /\ saved \in Seq(Chat!Message) /\ written \in Nat
LineInv == ws \in Seq(Wire) /\ (~wired => ws = <<>>)
QueryInv ==
  /\ fetch.pc \in {"none", "asked", "answered"}
  /\ fetch.pc = "answered" => fetch.data \in Chat!Conversation
  /\ ~had => fetch.pc = "none"
  /\ data # None =>
       /\ data.status # "ACTIVE" => stored = None
       /\ stored = session => Chat!ToSet(data.log) \subseteq Chat!ToSet(shown)

(* What the staff wrote is shown, or on its way to the screen. *)
Stale == [type |-> "stale", of |-> session] \in Chat!ToSet(ws)
StaffInv ==
  ~missed /\ stored = session =>
    IF had
    THEN \/ Stale \/ fetch.pc = "asked"
         \/ fetch.pc = "answered" /\ Sys(session) \subseteq Chat!ToSet(fetch.data.log)
         \/ fetch.pc = "none" /\ Sys(session) \subseteq Chat!ToSet(shown)
    ELSE \A m \in Sys(session) : \/ m \in Chat!ToSet(shown)
                                 \/ [type |-> "chat", of |-> m] \in Chat!ToSet(ws)
(* So is the end of the conversation. *)
ClosedInv ==
  ~missed /\ had /\ conv[session].status \in Closed =>
    \/ Stale \/ fetch.pc = "asked"
    \/ fetch.pc = "answered" /\ fetch.data.status # "ACTIVE"
    \/ stored = None

ChatInv == /\ ConvInv /\ CacheInv /\ AskInv /\ TurnInv /\ PostInv /\ TakingInv
           /\ WidgetInv /\ LineInv /\ QueryInv /\ StaffInv /\ ClosedInv

-----------------------------------------------------------------------------
(* Facts about the values.                                                 *)

LEMMA SetOf ==
  /\ Chat!ToSet(<<>>) = {}
  /\ \A S : \A s \in Seq(S) :
       /\ \A e : Chat!ToSet(Append(s, e)) = Chat!ToSet(s) \union {e}
       /\ s # <<>> => /\ Head(s) \in S /\ Tail(s) \in Seq(S)
                      /\ Chat!ToSet(s) \subseteq {Head(s)} \union Chat!ToSet(Tail(s))
                      /\ Chat!ToSet(Tail(s)) \subseteq Chat!ToSet(s)
       /\ \A r \in Seq(S) : Chat!ToSet(s \o r) = Chat!ToSet(s) \union Chat!ToSet(r)
       /\ Chat!ToSet(s) \subseteq S
<1>1. Chat!ToSet(<<>>) = {}
  BY DEF Chat!ToSet
<1>2. ASSUME NEW S, NEW s \in Seq(S), NEW e
      PROVE  Chat!ToSet(Append(s, e)) = Chat!ToSet(s) \union {e}
  <2>1. DOMAIN Append(s, e) = DOMAIN s \union {Len(s) + 1}
    OBVIOUS
  <2>2. \A i \in DOMAIN s : Append(s, e)[i] = s[i]
    OBVIOUS
  <2>3. Append(s, e)[Len(s) + 1] = e
    OBVIOUS
  <2> QED BY <2>1, <2>2, <2>3 DEF Chat!ToSet
<1>3. ASSUME NEW S, NEW s \in Seq(S), s # <<>>
      PROVE  /\ Head(s) \in S /\ Tail(s) \in Seq(S)
             /\ Chat!ToSet(s) \subseteq {Head(s)} \union Chat!ToSet(Tail(s))
             /\ Chat!ToSet(Tail(s)) \subseteq Chat!ToSet(s)
  <2>1. Head(s) \in S /\ Tail(s) \in Seq(S)
    BY <1>3
  <2>2. ASSUME NEW i \in DOMAIN s PROVE s[i] \in {Head(s)} \union Chat!ToSet(Tail(s))
    <3>1. CASE i = 1
      BY <1>3, <3>1
    <3>2. CASE i # 1
      <4>1. i - 1 \in DOMAIN Tail(s) /\ Tail(s)[i - 1] = s[i]
        BY <1>3, <3>2
      <4> QED BY <4>1 DEF Chat!ToSet
    <3> QED BY <3>1, <3>2
  <2>3. ASSUME NEW i \in DOMAIN Tail(s) PROVE Tail(s)[i] \in Chat!ToSet(s)
    <3>1. i + 1 \in DOMAIN s /\ Tail(s)[i] = s[i + 1]
      BY <1>3
    <3> QED BY <3>1 DEF Chat!ToSet
  <2> QED BY <2>1, <2>2, <2>3 DEF Chat!ToSet
<1>4. ASSUME NEW S, NEW s \in Seq(S), NEW r \in Seq(S)
      PROVE  Chat!ToSet(s \o r) = Chat!ToSet(s) \union Chat!ToSet(r)
  <2>1. ASSUME NEW i \in DOMAIN (s \o r)
        PROVE  (s \o r)[i] \in Chat!ToSet(s) \union Chat!ToSet(r)
    <3>1. CASE i \in DOMAIN s
      BY <3>1 DEF Chat!ToSet
    <3>2. CASE i \notin DOMAIN s
      <4>1. i - Len(s) \in DOMAIN r /\ (s \o r)[i] = r[i - Len(s)]
        BY <3>2
      <4> QED BY <4>1 DEF Chat!ToSet
    <3> QED BY <3>1, <3>2
  <2>2. ASSUME NEW i \in DOMAIN s PROVE s[i] \in Chat!ToSet(s \o r)
    <3>1. i \in DOMAIN (s \o r) /\ (s \o r)[i] = s[i]
      OBVIOUS
    <3> QED BY <3>1 DEF Chat!ToSet
  <2>3. ASSUME NEW i \in DOMAIN r PROVE r[i] \in Chat!ToSet(s \o r)
    <3>1. i + Len(s) \in DOMAIN (s \o r) /\ (s \o r)[i + Len(s)] = r[i]
      OBVIOUS
    <3> QED BY <3>1 DEF Chat!ToSet
  <2> QED BY <2>1, <2>2, <2>3 DEF Chat!ToSet
<1>5. ASSUME NEW S, NEW s \in Seq(S) PROVE Chat!ToSet(s) \subseteq S
  BY DEF Chat!ToSet
<1> QED BY <1>1, <1>2, <1>3, <1>4, <1>5

LEMMA TalkValues ==
  /\ 1 \in Convs /\ Convs \subseteq Nat
  /\ None \notin Convs /\ None \notin Chat!Statuses /\ None \notin Chat!Conversation
  /\ "ACTIVE" # None /\ "ABANDONED" # None /\ "COMPLETED" # None
  /\ Chat!NoConversation \in Chat!Conversation
  /\ Chat!NoConversation.status = None /\ Chat!NoConversation.log = <<>>
BY TalksAssumption DEF Chat!Statuses, Chat!NoConversation, Chat!Conversation

LEMMA TalksOnly ==
  \A b \in Talks : /\ b \in Chat!Conversation
                   /\ b.status = None => b = Chat!NoConversation
BY TalksAssumption

LEMMA SessionTypes ==
  ASSUME WidgetInv
  PROVE  session \in Convs /\ session \in Nat /\ session <= session
<1>1. session \in Convs
  BY DEF WidgetInv
<1>2. Convs \subseteq Nat
  BY TalksAssumption
<1> QED BY <1>1, <1>2

LEMMA RowTypes ==
  ASSUME NEW k \in Chat!Conversation
  PROVE  /\ k.log \in Seq(Chat!Message)
         /\ \A v \in Chat!Statuses : LET n == [k EXCEPT !.status = v] IN
              n \in Chat!Conversation /\ n.status = v /\ n.log = k.log
         /\ \A v \in Admins : LET n == [k EXCEPT !.support = v] IN
              n \in Chat!Conversation /\ n.status = k.status /\ n.log = k.log
         /\ \A v \in Seq(Chat!Message) : LET n == [k EXCEPT !.log = v] IN
              n \in Chat!Conversation /\ n.status = k.status /\ n.log = v
BY DEF Chat!Conversation

LEMMA WriteTypes ==
  ASSUME WidgetInv
  PROVE  /\ \A by \in Chat!Senders : Chat!Write(by) \in Chat!Message /\ Chat!Write(by).by = by
         /\ \A by \in Chat!Senders \ {"SYSTEM"} : Chat!Write(by) \in Texts
         /\ written + 1 \in Nat
BY DEF WidgetInv, Chat!Write, Chat!Message, Texts

LEMMA TextTypes == \A m \in Texts : m \in Chat!Message /\ m.by # "SYSTEM"
BY DEF Texts

-----------------------------------------------------------------------------
(* What a step leaves alone keeps its invariant.                           *)

LEMMA ConvKeeps == ASSUME ConvInv, UNCHANGED <<conv, mapped, session>> PROVE ConvInv'
BY DEF ConvInv, Chat!Exists

LEMMA AskKeeps ==
  ASSUME AskInv, mapped \subseteq mapped', UNCHANGED <<ask, session>>
  PROVE  AskInv'
BY DEF AskInv

LEMMA TurnKeeps ==
  ASSUME TurnInv, mapped \subseteq mapped', saving' \subseteq saving, UNCHANGED session
  PROVE  TurnInv'
BY DEF TurnInv

LEMMA OthersKeep ==
  /\ PostInv /\ posts' \subseteq posts => PostInv'
  /\ TakingInv /\ UNCHANGED taking => TakingInv'
  /\ LineInv /\ UNCHANGED <<ws, wired>> => LineInv'
BY DEF PostInv, TakingInv, LineInv

LEMMA WidgetKeeps ==
  ASSUME WidgetInv, UNCHANGED <<session, had, wired>>, missed' \in BOOLEAN,
         stored' \in {stored, None}, shown' \in Seq(Chat!Message),
         saved' \in Seq(Chat!Message), written' \in {written, written + 1}
  PROVE  WidgetInv'
BY DEF WidgetInv

(* A step that nobody hears of: no text of the staff appears, and no       *)
(* conversation ends, and the widget shows no less.                        *)
LEMMA SilentStep ==
  ASSUME ConvInv, CacheInv, QueryInv, StaffInv, ClosedInv, WidgetInv,
         \A c \in Convs : /\ Sys(c)' \subseteq Sys(c)
                          /\ conv'[c].status \in Closed => conv[c].status \in Closed,
         Chat!ToSet(shown) \subseteq Chat!ToSet(shown'),
         UNCHANGED <<cached, session, had, stored, fetch, data, ws, missed>>
  PROVE  CacheInv' /\ QueryInv' /\ StaffInv' /\ ClosedInv'
<1>1. CacheInv'
  BY DEF CacheInv
<1>2. QueryInv'
  BY DEF QueryInv
<1>3. session \in Convs
  BY DEF WidgetInv
<1>4. StaffInv'
  BY <1>3 DEF StaffInv, Stale
<1>5. ClosedInv'
  BY <1>3 DEF ClosedInv, Stale
<1> QED BY <1>1, <1>2, <1>4, <1>5

LEMMA SameRows ==
  ASSUME UNCHANGED conv
  PROVE  \A c \in Convs : /\ Sys(c)' \subseteq Sys(c)
                          /\ conv'[c].status \in Closed => conv[c].status \in Closed
BY DEF Sys, Chat!Said

(* One conversation changes.                                               *)
LEMMA RowStep ==
  ASSUME ConvInv, NEW c \in Convs, NEW n \in Chat!Conversation,
         conv' = [conv EXCEPT ![c] = n],
         mapped \subseteq mapped', mapped' \subseteq Convs, UNCHANGED session,
         n.status # None => c \in mapped' /\ c <= session,
         n.status = None => n = Chat!NoConversation
  PROVE  /\ ConvInv'
         /\ \A d \in Convs : conv'[d] = IF d = c THEN n ELSE conv[d]
<1>1. \A d \in Convs : conv'[d] = IF d = c THEN n ELSE conv[d]
  BY DEF ConvInv
<1>2. conv' \in [Convs -> Chat!Conversation]
  BY DEF ConvInv
<1> QED BY <1>1, <1>2 DEF ConvInv, Chat!Exists

(* A turn, or a text of the customer, is not the staff's.                  *)
LEMMA NotStaff ==
  ASSUME NEW s \in Seq(Chat!Message), NEW r \in Seq(Texts)
  PROVE  /\ s \o r \in Seq(Chat!Message)
         /\ \A m \in Chat!ToSet(s \o r) : m.by = "SYSTEM" => m \in Chat!ToSet(s)
         /\ Chat!ToSet(s) \subseteq Chat!ToSet(s \o r)
<1>1. Seq(Texts) \subseteq Seq(Chat!Message)
  BY TextTypes
<1>2. Chat!ToSet(r) \subseteq Texts
  BY SetOf
<1>3. r \in Seq(Chat!Message)
  BY <1>1
<1>4. Chat!ToSet(s \o r) = Chat!ToSet(s) \union Chat!ToSet(r)
  BY <1>3, SetOf
<1> QED BY <1>2, <1>3, <1>4, TextTypes

LEMMA NotStaffOne ==
  ASSUME NEW s \in Seq(Chat!Message), NEW t \in Texts
  PROVE  /\ Append(s, t) \in Seq(Chat!Message)
         /\ \A m \in Chat!ToSet(Append(s, t)) : m.by = "SYSTEM" => m \in Chat!ToSet(s)
BY SetOf, TextTypes

LEMMA Shorter ==
  ASSUME NEW c \in Convs, NEW n,
         \A d \in Convs : conv'[d] = IF d = c THEN n ELSE conv[d],
         \A m \in Chat!ToSet(n.log) : m.by = "SYSTEM" => m \in Chat!Said(c)
  PROVE  \A d \in Convs : Sys(d)' \subseteq Sys(d)
<1> SUFFICES ASSUME NEW d \in Convs PROVE Sys(d)' \subseteq Sys(d)
  OBVIOUS
<1>1. Chat!Said(d)' = Chat!ToSet(conv'[d].log)
  BY DEF Chat!Said
<1>2. CASE d = c
  BY <1>1, <1>2 DEF Sys
<1>3. CASE d # c
  BY <1>1, <1>3 DEF Sys, Chat!Said
<1> QED BY <1>2, <1>3

-----------------------------------------------------------------------------
(* A change that the widget is told of: the message is on its line, unless *)
(* it is known to have missed it.                                          *)
LEMMA LineOf ==
  ASSUME LineInv, WidgetInv, NEW c \in Convs, NEW more \in Seq(Wire),
         Chat!InvalidateAndSend(c, more), UNCHANGED wired
  PROVE  /\ LineInv' /\ missed' \in BOOLEAN
         /\ Chat!ToSet(ws) \subseteq Chat!ToSet(ws')
         /\ ~missed' => /\ ~missed /\ [type |-> "stale", of |-> c] \in Chat!ToSet(ws')
                        /\ c \in mapped => Chat!ToSet(more) \subseteq Chat!ToSet(ws')
<1> DEFINE st == <<[type |-> "stale", of |-> c]>>
           mo == IF c \in mapped THEN more ELSE <<>>
<1>1. missed' = (missed \/ ~wired) /\ missed' \in BOOLEAN
  BY DEF Chat!InvalidateAndSend, WidgetInv
<1>2. CASE ~wired
  BY <1>1, <1>2 DEF Chat!InvalidateAndSend, LineInv
<1>3. CASE wired
  <2>1. st \in Seq(Wire) /\ mo \in Seq(Wire) /\ ws \in Seq(Wire)
    BY DEF Wire, LineInv
  <2>2. [type |-> "stale", of |-> c] \in Chat!ToSet(st)
    BY DEF Chat!ToSet
  <2>3. ws' = (ws \o st) \o mo
    BY <1>3 DEF Chat!InvalidateAndSend
  <2> HIDE DEF st
  <2>4. ws \o st \in Seq(Wire) /\ Chat!ToSet(ws \o st) = Chat!ToSet(ws) \union Chat!ToSet(st)
    BY <2>1, SetOf
  <2>5. c \in mapped => mo = more
    OBVIOUS
  <2> HIDE DEF mo
  <2> DEFINE front == ws \o st
  <2>6. ws' \in Seq(Wire) /\ Chat!ToSet(ws') = Chat!ToSet(ws \o st) \union Chat!ToSet(mo)
    <3>1. ws' = front \o mo /\ front \in Seq(Wire)
      BY <2>3, <2>4
    <3> HIDE DEF front
    <3>2. front \o mo \in Seq(Wire)
      BY <2>1, <3>1
    <3>3. Chat!ToSet(front \o mo) = Chat!ToSet(front) \union Chat!ToSet(mo)
      BY <2>1, <3>1, SetOf
    <3> QED BY <3>1, <3>2, <3>3 DEF front
  <2> QED BY <1>1, <1>3, <2>2, <2>4, <2>5, <2>6 DEF LineInv
<1> QED BY <1>2, <1>3

LEMMA ToldStep ==
  ASSUME ConvInv, CacheInv, QueryInv, StaffInv, ClosedInv, WidgetInv, LineInv,
         NEW c \in Convs, NEW n \in Chat!Conversation, NEW more \in Seq(Wire),
         \A d \in Convs : conv'[d] = IF d = c THEN n ELSE conv[d],
         Chat!InvalidateAndSend(c, more),
         n.status # None => c \in mapped,
         \A m \in Chat!ToSet(n.log) : m.by = "SYSTEM" =>
           \/ m \in Chat!Said(c)
           \/ [type |-> "chat", of |-> m] \in Chat!ToSet(more) /\ c \in mapped,
         UNCHANGED <<session, had, stored, shown, fetch, data, wired>>
  PROVE  CacheInv' /\ QueryInv' /\ StaffInv' /\ ClosedInv' /\ LineInv' /\ missed' \in BOOLEAN
<1>1. /\ LineInv' /\ missed' \in BOOLEAN
      /\ Chat!ToSet(ws) \subseteq Chat!ToSet(ws')
      /\ ~missed' => /\ ~missed /\ [type |-> "stale", of |-> c] \in Chat!ToSet(ws')
                     /\ c \in mapped => Chat!ToSet(more) \subseteq Chat!ToSet(ws')
  BY LineOf
<1>2. ASSUME NEW d \in Convs
      PROVE  Sys(d)' = IF d = c THEN {m \in Chat!ToSet(n.log) : m.by = "SYSTEM"} ELSE Sys(d)
  BY DEF Sys, Chat!Said
<1>3. CacheInv'
  <2>1. cached' = [cached EXCEPT ![c] = None]
    BY DEF Chat!InvalidateAndSend
  <2>2. cached' \in [Convs -> Chat!Conversation \union {None}]
    BY <2>1 DEF CacheInv
  <2>3. \A d \in Convs : cached'[d] # None => d # c /\ cached'[d] = cached[d]
    BY <2>1 DEF CacheInv
  <2>4. \A d \in Convs : d # c => Sys(d)' = Sys(d) /\ conv'[d] = conv[d]
    BY <1>2
  <2> QED BY <2>2, <2>3, <2>4 DEF CacheInv
<1>4. QueryInv'
  BY DEF QueryInv
<1>5. session \in Convs /\ had \in BOOLEAN
  BY DEF WidgetInv
<1>6. Stale => Stale'
  BY <1>1 DEF Stale
<1>7. StaffInv'
  <2> SUFFICES ASSUME ~missed', stored = session PROVE StaffInv'
    BY DEF StaffInv
  <2>1. ~missed
    BY <1>1
  <2>2. CASE had /\ c = session
    <3>1. Stale'
      BY <1>1, <2>2 DEF Stale
    <3> QED BY <2>2, <3>1 DEF StaffInv
  <2>3. CASE c # session
    <3>1. Sys(session)' = Sys(session)
      BY <1>2, <1>5, <2>3
    <3>2. \A m : m \in Sys(session)' <=> m \in Sys(session)
      BY <3>1
    <3>3. CASE had
      BY <1>6, <2>1, <3>1, <3>3 DEF StaffInv
    <3>4. CASE ~had
      BY <1>1, <2>1, <3>2, <3>4 DEF StaffInv
    <3> QED BY <3>3, <3>4
  <2>4. CASE ~had /\ c = session
    <3>1. Sys(session)' = {m \in Chat!ToSet(n.log) : m.by = "SYSTEM"}
      BY <1>2, <1>5, <2>4
    <3>2. ASSUME NEW m \in Sys(session)'
          PROVE  m \in Chat!ToSet(shown) \/ [type |-> "chat", of |-> m] \in Chat!ToSet(ws')
      <4>1. CASE m \in Chat!Said(c)
        BY <1>1, <2>1, <2>4, <3>1, <4>1 DEF StaffInv, Sys
      <4>2. CASE [type |-> "chat", of |-> m] \in Chat!ToSet(more) /\ c \in mapped
        BY <1>1, <4>2
      <4> QED BY <3>1, <4>1, <4>2
    <3> QED BY <2>4, <3>2 DEF StaffInv
  <2> QED BY <1>5, <2>2, <2>3, <2>4
<1>8. ClosedInv'
  <2> SUFFICES ASSUME ~missed', had, conv'[session].status \in Closed PROVE ClosedInv'
    BY DEF ClosedInv
  <2>1. CASE c = session
    <3>1. Stale'
      BY <1>1, <2>1 DEF Stale
    <3> QED BY <3>1 DEF ClosedInv
  <2>2. CASE c # session
    BY <1>1, <1>5, <1>6, <2>2 DEF ClosedInv
  <2> QED BY <2>1, <2>2
<1> QED BY <1>1, <1>3, <1>4, <1>7, <1>8

-----------------------------------------------------------------------------
(* The steps.                                                              *)

LEMMA ChatInit == ASSUME Chat!Init PROVE ChatInv
<1>1. PICK b \in Talks : conv = [c \in Convs |-> IF c = 1 THEN b ELSE Chat!NoConversation]
  BY DEF Chat!Init
<1>2. /\ b \in Chat!Conversation /\ b.log \in Seq(Chat!Message)
      /\ b.status = None => b = Chat!NoConversation
  <2>1. b \in Chat!Conversation /\ (b.status = None => b = Chat!NoConversation)
    BY TalksOnly
  <2> QED BY <2>1, RowTypes
<1>3. conv[1] = b /\ \A c \in Convs : c # 1 => conv[c] = Chat!NoConversation
  BY <1>1, TalkValues
<1>4. /\ session = 1 /\ stored = 1 /\ had = (b.status # None) /\ saved = b.log /\ shown = b.log
      /\ mapped = IF had THEN {1} ELSE {}
  BY <1>3 DEF Chat!Init, Chat!Exists
<1>5. ConvInv
  <2>1. conv \in [Convs -> Chat!Conversation]
    BY <1>1, <1>2, TalkValues
  <2>2. mapped \subseteq Convs
    BY <1>4, TalkValues
  <2>3. ASSUME NEW c \in Convs
        PROVE  IF Chat!Exists(c) THEN c \in mapped /\ c <= session
               ELSE conv[c] = Chat!NoConversation
    <3>1. CASE c = 1
      <4>1. conv[c] = b /\ session = 1 /\ c <= session
        BY <1>3, <1>4, <3>1
      <4>2. b.status # None => c \in mapped
        BY <1>4, <3>1
      <4> QED BY <1>2, <4>1, <4>2 DEF Chat!Exists
    <3>2. CASE c # 1
      BY <1>3, <3>2, TalkValues DEF Chat!Exists
    <3> QED BY <3>1, <3>2
  <2> QED BY <2>1, <2>2, <2>3 DEF ConvInv
<1>6. CacheInv
  BY DEF Chat!Init, CacheInv
<1>7. AskInv /\ TurnInv /\ PostInv /\ TakingInv
  BY DEF Chat!Init, AskInv, TurnInv, PostInv, TakingInv
<1>8. WidgetInv
  <2>1. session \in Convs /\ stored = session /\ had \in BOOLEAN
    BY <1>4, TalksAssumption
  <2>2. shown \in Seq(Chat!Message) /\ saved \in Seq(Chat!Message) /\ Len(saved) \in Nat
    BY <1>2, <1>4
  <2>3. wired = FALSE /\ missed = FALSE /\ written = Len(saved)
    BY DEF Chat!Init
  <2> QED BY <2>1, <2>2, <2>3 DEF WidgetInv
<1>9. LineInv
  BY DEF Chat!Init, LineInv
<1>10. QueryInv
  BY <1>4 DEF Chat!Init, QueryInv, Chat!Idle, Chat!Asked
<1>11. StaffInv
  <2>1. CASE had
    BY <2>1 DEF StaffInv, Chat!Init, Chat!Asked
  <2>2. CASE ~had
    <3>1. Sys(session) = {}
      BY <1>2, <1>3, <1>4, <2>2, SetOf, TalkValues DEF Sys, Chat!Said
    <3> QED BY <2>2, <3>1 DEF StaffInv
  <2> QED BY <2>1, <2>2
<1>12. ClosedInv
  BY DEF ClosedInv, Chat!Init, Chat!Asked
<1> QED BY <1>5, <1>6, <1>7, <1>8, <1>9, <1>10, <1>11, <1>12 DEF ChatInv

(* Steps in which a text may be shown, and the database does not change.   *)
LEMMA ShownStep ==
  ASSUME ChatInv, shown' \in Seq(Chat!Message),
         Chat!ToSet(shown) \subseteq Chat!ToSet(shown'), written' \in {written, written + 1},
         UNCHANGED <<conv, cached, mapped, saving, stored, saved, session, had,
                     fetch, data, ws, wired, taking, missed>>,
         AskInv', PostInv'
  PROVE  ChatInv'
<1> USE DEF ChatInv
<1>1. CacheInv' /\ QueryInv' /\ StaffInv' /\ ClosedInv'
  BY SameRows, SilentStep
<1>2. missed' \in BOOLEAN
  BY DEF WidgetInv
<1>3. saved' \in Seq(Chat!Message) /\ stored' \in {stored, None}
  BY DEF WidgetInv
<1>4. WidgetInv'
  BY <1>2, <1>3, WidgetKeeps
<1> QED BY <1>1, <1>4, ConvKeeps, TurnKeeps, OthersKeep

LEMMA AppendShown ==
  ASSUME WidgetInv, NEW m \in Chat!Message
  PROVE  /\ Append(shown, m) \in Seq(Chat!Message)
         /\ Chat!ToSet(shown) \subseteq Chat!ToSet(Append(shown, m))
BY SetOf DEF WidgetInv

LEMMA AskStep == ASSUME ChatInv, NEW f \in BOOLEAN, Chat!Ask(f) PROVE ChatInv'
<1> DEFINE m == Chat!Write("USER")
<1>1. WidgetInv /\ AskInv /\ PostInv
  BY DEF ChatInv
<1>2. m \in Chat!Message /\ m \in Texts
  BY <1>1, WriteTypes DEF Chat!Senders
<1>3. /\ shown' = Append(shown, m) /\ written' = written + 1
      /\ ask' = [pc |-> "asked", conv |-> session, msg |-> m, reply |-> None,
                 mine |-> TRUE, form |-> f]
      /\ UNCHANGED <<conv, cached, mapped, saving, stored, saved, session, had, posts,
                     fetch, data, ws, wired, taking, missed>>
  BY DEF Chat!Ask, Chat!database, Chat!query
<1> HIDE DEF m
<1>4. session \in Convs /\ session <= session
  BY <1>1, SessionTypes
<1>5. ask' \in Asks /\ ask'.conv = session /\ ask'.pc = "asked"
  BY <1>2, <1>3, <1>4 DEF Asks
<1>6. AskInv'
  BY <1>3, <1>4, <1>5 DEF AskInv
<1>7. PostInv'
  BY <1>1, <1>3 DEF PostInv
<1> QED BY <1>1, <1>2, <1>3, <1>6, <1>7, AppendShown, ShownStep

LEMMA SendHumanStep == ASSUME ChatInv, Chat!SendHumanMessage PROVE ChatInv'
<1> DEFINE m == Chat!Write("USER")
           p == [to |-> stored, msg |-> m, pc |-> "sent", mine |-> TRUE]
<1>1. WidgetInv /\ AskInv /\ PostInv
  BY DEF ChatInv
<1>2. m \in Chat!Message /\ m \in Texts
  BY <1>1, WriteTypes DEF Chat!Senders
<1>3. /\ shown' = Append(shown, m) /\ written' = written + 1
      /\ posts' = IF stored = None THEN posts ELSE posts \union {p}
      /\ UNCHANGED <<conv, cached, mapped, saving, stored, saved, session, had, ask,
                     fetch, data, ws, wired, taking, missed>>
  BY DEF Chat!SendHumanMessage, Chat!database, Chat!query
<1> HIDE DEF m
<1>4. stored # None => p \in Posts
  BY <1>1, <1>2 DEF Posts, WidgetInv
<1> HIDE DEF p
<1>5. PostInv'
  BY <1>1, <1>3, <1>4 DEF PostInv
<1>6. AskInv'
  BY <1>1, <1>3, AskKeeps
<1> QED BY <1>1, <1>2, <1>3, <1>5, <1>6, AppendShown, ShownStep

(* The request has its answer.                                             *)
LEMMA AskAnswered ==
  ASSUME WidgetInv, AskInv, ask # None, NEW by \in Chat!Senders,
         ask' = [ask EXCEPT !.pc = "answered", !.reply = Chat!Write(by)],
         UNCHANGED session
  PROVE  AskInv'
<1> DEFINE r == Chat!Write(by)
           k == [ask EXCEPT !.pc = "answered"]
<1>1. r \in Chat!Message
  BY WriteTypes
<1>2. ask \in Asks /\ ask.conv <= session
  BY DEF AskInv
<1> HIDE DEF r
<1>3. k \in Asks /\ k.pc = "answered" /\ k.conv = ask.conv
  BY <1>2 DEF Asks
<1>4. ask' = [k EXCEPT !.reply = r]
  BY DEF r
<1> HIDE DEF k
<1>5. ask' \in Asks /\ ask'.pc = "answered" /\ ask'.conv = k.conv /\ ask'.reply = r
  BY <1>1, <1>3, <1>4 DEF Asks
<1> QED BY <1>1, <1>2, <1>3, <1>5 DEF AskInv

LEMMA ChatAnswerStep == ASSUME ChatInv, Chat!AnswerArrives \/ Chat!AskLost PROVE ChatInv'
<1>1. WidgetInv /\ AskInv /\ PostInv
  BY DEF ChatInv
<1>2. UNCHANGED <<conv, cached, mapped, saving, stored, saved, session, had, posts,
                  fetch, data, ws, wired, taking, missed>>
  BY DEF Chat!AnswerArrives, Chat!AskLost, Chat!database, Chat!query, Chat!rest
<1>3. PostInv'
  BY <1>1, <1>2 DEF PostInv
<1>4. shown \in Seq(Chat!Message)
  BY <1>1 DEF WidgetInv
<1>5. CASE Chat!AnswerArrives
  <2>1. ask.reply \in Chat!Message
    BY <1>1, <1>5 DEF Chat!AnswerArrives, AskInv
  <2>2. /\ shown' = IF ask.mine THEN Append(shown, ask.reply) ELSE shown
        /\ ask' = None /\ written' = written
    BY <1>5 DEF Chat!AnswerArrives, Chat!rest
  <2>3. AskInv'
    BY <2>2 DEF AskInv
  <2>4. shown' \in Seq(Chat!Message) /\ Chat!ToSet(shown) \subseteq Chat!ToSet(shown')
    BY <1>1, <1>4, <2>1, <2>2, AppendShown
  <2> QED BY <1>2, <1>3, <2>2, <2>3, <2>4, ShownStep
<1>6. CASE Chat!AskLost
  <2>1. /\ ask # None /\ written' = written + 1 /\ shown' = shown
        /\ ask' = [ask EXCEPT !.pc = "answered", !.reply = Chat!Write("NOTICE")]
    BY <1>6 DEF Chat!AskLost
  <2>2. AskInv'
    BY <1>1, <1>2, <2>1, AskAnswered DEF Chat!Senders
  <2> QED BY <1>2, <1>3, <1>4, <2>1, <2>2, ShownStep
<1> QED BY <1>5, <1>6

(* clearHistory asks for the end, and forgets once it is confirmed.        *)
LEMMA ClearStep == ASSUME ChatInv, Chat!ClearHistory PROVE ChatInv'
<1> DEFINE p == [to |-> stored, msg |-> None, pc |-> "sent", mine |-> TRUE]
<1>1. WidgetInv /\ AskInv /\ PostInv
  BY DEF ChatInv
<1>2. /\ stored # None /\ posts' = posts \union {p}
      /\ UNCHANGED <<conv, cached, mapped, saving, stored, saved, session, had, shown, ask,
                     fetch, data, ws, wired, taking, written, missed>>
  BY DEF Chat!ClearHistory, Chat!database, Chat!widget, Chat!query
<1>3. p \in Posts
  BY <1>1, <1>2 DEF Posts, WidgetInv
<1> HIDE DEF p
<1>4. PostInv'
  BY <1>1, <1>2, <1>3 DEF PostInv
<1>5. AskInv'
  BY <1>1, <1>2, AskKeeps
<1>6. shown \in Seq(Chat!Message)
  BY <1>1 DEF WidgetInv
<1> QED BY <1>2, <1>4, <1>5, <1>6, ShownStep

LEMMA ForgetStep ==
  ASSUME CacheInv, QueryInv, WidgetInv, Chat!Forget,
         UNCHANGED <<conv, cached, session, had, fetch, data>>
  PROVE  CacheInv' /\ QueryInv' /\ StaffInv' /\ ClosedInv'
<1>1. stored' = None /\ stored' # session
  BY SessionTypes, TalkValues DEF Chat!Forget
<1>2. CacheInv'
  BY SameRows DEF CacheInv
<1>3. QueryInv'
  BY <1>1 DEF QueryInv
<1> QED BY <1>1, <1>2, <1>3 DEF StaffInv, ClosedInv

LEMMA ClearedStep == ASSUME ChatInv, NEW p \in posts, Chat!Cleared(p) PROVE ChatInv'
<1> USE DEF ChatInv
<1>1. /\ posts' \subseteq posts
      /\ UNCHANGED <<conv, cached, mapped, saving, session, had, ask, fetch, data, ws,
                     wired, taking, written, missed>>
  BY DEF Chat!Cleared, Chat!database, Chat!query, Chat!rest
<1>2. ConvInv' /\ AskInv' /\ TurnInv' /\ PostInv' /\ TakingInv' /\ LineInv'
  BY <1>1, ConvKeeps, AskKeeps, TurnKeeps, OthersKeep
<1>3. <<>> \in Seq(Chat!Message) /\ missed' \in BOOLEAN
  BY <1>1 DEF WidgetInv
<1>4. CASE p.mine
  <2>1. Chat!Forget
    BY <1>4 DEF Chat!Cleared
  <2>2. CacheInv' /\ QueryInv' /\ StaffInv' /\ ClosedInv'
    BY <1>1, <2>1, ForgetStep
  <2>3. WidgetInv'
    BY <1>1, <1>3, <2>1, WidgetKeeps DEF Chat!Forget
  <2> QED BY <1>2, <2>2, <2>3
<1>5. CASE ~p.mine
  <2>1. UNCHANGED <<stored, saved, shown>>
    BY <1>5 DEF Chat!Cleared
  <2>2. CacheInv' /\ QueryInv' /\ StaffInv' /\ ClosedInv'
    BY <1>1, <2>1, SameRows, SilentStep
  <2>3. stored' \in {stored, None} /\ shown' \in Seq(Chat!Message) /\ saved' \in Seq(Chat!Message)
    BY <2>1 DEF WidgetInv
  <2>4. WidgetInv'
    BY <1>1, <1>3, <2>3, WidgetKeeps
  <2> QED BY <1>2, <2>2, <2>4
<1> QED BY <1>4, <1>5

(* A page load asks for a conversation it knows, and begins a new one      *)
(* otherwise, in which nothing has been said.                              *)
LEMMA ReloadStep == ASSUME ChatInv, Chat!Reload PROVE ChatInv'
<1> USE DEF ChatInv
<1>1. /\ session' = IF stored # None THEN stored ELSE session + 1
      /\ had' = (stored # None) /\ stored' = session' /\ shown' = saved
      /\ fetch' = IF had' THEN Chat!Asked ELSE Chat!Idle
      /\ data' = None /\ ws' = <<>> /\ wired' = FALSE /\ missed' = FALSE
      /\ UNCHANGED <<conv, cached, mapped, saving, saved, taking, written>>
  BY DEF Chat!Reload, Chat!database
<1>2. session \in Convs /\ session \in Nat
  BY SessionTypes
<1>3. /\ stored # None => session' = session
      /\ stored = None => session' = session + 1
      /\ session' \in Convs /\ session <= session' /\ session' \in Nat
  <2>1. stored # None => stored = session
    BY DEF WidgetInv
  <2>2. stored = None => session + 1 \in Convs
    BY DEF Chat!Reload
  <2> QED BY <1>1, <1>2, <2>1, <2>2
<1>4. Convs \subseteq Nat
  BY TalkValues
<1>5. ASSUME NEW c \in Convs, c <= session PROVE c <= session'
  BY <1>2, <1>3, <1>4, <1>5
<1>6. ConvInv'
  BY <1>1, <1>5 DEF ConvInv, Chat!Exists
<1>7. CacheInv'
  BY <1>1, SameRows DEF CacheInv
<1>8. AskInv'
  <2>1. CASE ask = None
    BY <2>1 DEF Chat!Reload, AskInv
  <2>2. CASE ask # None
    <3>1. ask \in Asks /\ ask' = [ask EXCEPT !.mine = FALSE]
      BY <2>2 DEF Chat!Reload, AskInv
    <3>2. /\ ask' \in Asks /\ ask'.conv = ask.conv /\ ask'.pc = ask.pc
          /\ ask'.reply = ask.reply /\ ask.conv \in Convs
      BY <3>1 DEF Asks
    <3> QED BY <1>1, <1>5, <2>2, <3>2 DEF AskInv
  <2> QED BY <2>1, <2>2
<1>9. TurnInv'
  <2>1. mapped \subseteq Convs
    BY DEF ConvInv
  <2> QED BY <1>1, <1>5, <2>1 DEF TurnInv
<1>10. PostInv'
  <2>1. posts' = {[p EXCEPT !.mine = FALSE] : p \in posts}
    BY DEF Chat!Reload
  <2>2. \A p \in Posts : [p EXCEPT !.mine = FALSE] \in Posts
    BY DEF Posts
  <2> QED BY <2>1, <2>2 DEF PostInv
<1>11. TakingInv' /\ LineInv'
  BY <1>1 DEF TakingInv, LineInv
<1>12. WidgetInv'
  BY <1>1, <1>3 DEF WidgetInv
<1>13. QueryInv'
  BY <1>1 DEF QueryInv, Chat!Asked, Chat!Idle
<1>14. StaffInv'
  <2>1. CASE stored # None
    BY <1>1, <2>1 DEF StaffInv, Chat!Asked
  <2>2. CASE stored = None
    <3>1. ~(session' <= session)
      BY <1>2, <1>3, <2>2
    <3>2. conv[session'] = Chat!NoConversation
      BY <1>3, <3>1 DEF ConvInv
    <3>3. Sys(session)' = {}
      BY <1>1, <3>2, SetOf, TalkValues DEF Sys, Chat!Said
    <3> QED BY <1>1, <2>2, <3>3 DEF StaffInv
  <2> QED BY <2>1, <2>2
<1>15. ClosedInv'
  BY <1>1 DEF ClosedInv, Chat!Asked
<1> QED BY <1>6, <1>7, <1>8, <1>9, <1>10, <1>11, <1>12, <1>13, <1>14, <1>15

(* The answer has what the staff wrote, from the cache or the database.    *)
LEMMA ServeStep == ASSUME ChatInv, Chat!ServeChat PROVE ChatInv'
<1> USE DEF ChatInv
<1> DEFINE copy == IF cached[session] # None THEN cached[session] ELSE conv[session]
<1>1. /\ fetch.pc = "asked"
      /\ IF copy.status = None THEN fetch' = Chat!Idle /\ UNCHANGED cached
         ELSE /\ fetch' = [pc |-> "answered", data |-> copy]
              /\ cached' = [cached EXCEPT ![session] = copy]
      /\ UNCHANGED <<conv, mapped, saving, stored, saved, session, had, shown, ask, posts,
                     data, ws, wired, taking, written, missed>>
  BY DEF Chat!ServeChat, Chat!widget, Chat!rest
<1>2. session \in Convs
  BY SessionTypes
<1>3. /\ copy \in Chat!Conversation
      /\ Sys(session) \subseteq Chat!ToSet(copy.log)
      /\ conv[session].status \in Closed => copy.status # "ACTIVE"
      /\ copy.status = None => conv[session] = Chat!NoConversation
  <2>1. CASE cached[session] # None
    BY <1>2, <2>1 DEF CacheInv
  <2>2. CASE cached[session] = None
    BY <1>2, <2>2 DEF ConvInv, Sys, Chat!Said, Chat!Exists, Closed
  <2> QED BY <2>1, <2>2
<1> HIDE DEF copy
<1>4. ConvInv' /\ AskInv' /\ TurnInv' /\ PostInv' /\ TakingInv' /\ LineInv'
  BY <1>1, ConvKeeps, AskKeeps, TurnKeeps, OthersKeep
<1>5. WidgetInv'
  BY <1>1, WidgetKeeps DEF WidgetInv
<1>6. had /\ Sys(session)' = Sys(session)
  BY <1>1 DEF QueryInv, Sys, Chat!Said
<1>7. CASE copy.status = None
  <2>1. fetch' = Chat!Idle /\ fetch'.pc = "none" /\ cached' = cached
    BY <1>1, <1>7 DEF Chat!Idle
  <2>2. CacheInv'
    BY <1>1, <2>1, SameRows DEF CacheInv
  <2>3. QueryInv'
    BY <1>1, <1>6, <2>1 DEF QueryInv
  <2>4. conv[session] = Chat!NoConversation
    BY <1>3, <1>7
  <2>5. Sys(session) = {}
    BY <2>4, SetOf, TalkValues DEF Sys, Chat!Said
  <2>6. StaffInv'
    BY <1>1, <1>6, <2>1, <2>5 DEF StaffInv
  <2>7. conv[session].status \notin Closed
    BY <2>4, TalkValues DEF Closed
  <2>8. ClosedInv'
    BY <1>1, <2>7 DEF ClosedInv
  <2> QED BY <1>4, <1>5, <2>2, <2>3, <2>6, <2>8
<1>8. CASE copy.status # None
  <2>1. /\ fetch'.pc = "answered" /\ fetch'.data = copy
        /\ cached' = [cached EXCEPT ![session] = copy]
    BY <1>1, <1>8
  <2>2. CacheInv'
    <3>1. cached' \in [Convs -> Chat!Conversation \union {None}]
      BY <1>3, <2>1 DEF CacheInv
    <3>2. \A c \in Convs : cached'[c] = IF c = session THEN copy ELSE cached[c]
      BY <2>1 DEF CacheInv
    <3>3. ASSUME NEW c \in Convs, cached'[c] # None
          PROVE  /\ cached'[c].status # None
                 /\ Sys(c)' \subseteq Chat!ToSet(cached'[c].log)
                 /\ conv'[c].status \in Closed => cached'[c].status # "ACTIVE"
      <4>1. Sys(c)' = Sys(c) /\ conv'[c] = conv[c]
        BY <1>1 DEF Sys, Chat!Said
      <4>2. CASE c = session
        BY <1>3, <1>8, <3>2, <4>1, <4>2
      <4>3. CASE c # session
        BY <3>2, <3>3, <4>1, <4>3 DEF CacheInv
      <4> QED BY <4>2, <4>3
    <3> QED BY <3>1, <3>3 DEF CacheInv
  <2>3. QueryInv'
    BY <1>1, <1>3, <1>6, <2>1 DEF QueryInv
  <2>4. StaffInv'
    BY <1>1, <1>3, <1>6, <2>1 DEF StaffInv
  <2>5. ClosedInv'
    BY <1>1, <1>3, <2>1 DEF ClosedInv
  <2> QED BY <1>4, <1>5, <2>2, <2>3, <2>4, <2>5
<1> QED BY <1>7, <1>8

(* The answer replaces what is shown, unless it is the one of last time.   *)
LEMMA ArrivesStep == ASSUME ChatInv, Chat!ChatArrives PROVE ChatInv'
<1> USE DEF ChatInv
<1> DEFINE d == fetch.data
<1>1. /\ fetch.pc = "answered" /\ fetch'.pc = "none" /\ data' = d
      /\ UNCHANGED <<conv, cached, mapped, saving, session, had, ask, posts, ws, wired,
                     taking, written, missed>>
  BY DEF Chat!ChatArrives, Chat!database, Chat!rest, Chat!Idle
<1>2. \/ d = data /\ UNCHANGED <<stored, saved, shown>>
      \/ d.status # "ACTIVE" /\ Chat!Forget
      \/ d.status = "ACTIVE" /\ shown' = d.log /\ saved' = d.log /\ UNCHANGED stored
  BY DEF Chat!ChatArrives
<1>3. /\ d \in Chat!Conversation /\ d # None /\ d.log \in Seq(Chat!Message) /\ had
  <2>1. d \in Chat!Conversation /\ had
    BY <1>1 DEF QueryInv, WidgetInv
  <2> QED BY <2>1, RowTypes, TalkValues
<1>4. Sys(session)' = Sys(session) /\ (Stale <=> Stale')
  BY <1>1 DEF Sys, Chat!Said, Stale
<1>5. session # None
  BY SessionTypes, TalkValues
<1>6. d.status # "ACTIVE" => stored' = None
  BY <1>1, <1>2, <1>3 DEF QueryInv, Chat!Forget
<1>7. stored' = session => Chat!ToSet(d.log) \subseteq Chat!ToSet(shown')
  BY <1>1, <1>2, <1>3, <1>5 DEF QueryInv, Chat!Forget
<1>8. /\ stored' \in {stored, None} /\ shown' \in Seq(Chat!Message)
      /\ saved' \in Seq(Chat!Message)
  <2>1. <<>> \in Seq(Chat!Message)
    OBVIOUS
  <2>2. /\ stored \in {session, None} /\ shown \in Seq(Chat!Message)
        /\ saved \in Seq(Chat!Message)
    BY DEF WidgetInv
  <2> HIDE DEF d
  <2> QED BY <1>2, <1>3, <2>1, <2>2 DEF Chat!Forget
<1> HIDE DEF d
<1>9. WidgetInv'
  BY <1>1, <1>8, WidgetKeeps DEF WidgetInv
<1>10. ConvInv' /\ AskInv' /\ TurnInv' /\ PostInv' /\ TakingInv' /\ LineInv'
  BY <1>1, ConvKeeps, AskKeeps, TurnKeeps, OthersKeep
<1>11. CacheInv'
  BY <1>1, SameRows DEF CacheInv
<1>12. QueryInv'
  BY <1>1, <1>3, <1>6, <1>7 DEF QueryInv
<1>13. StaffInv'
  <2> SUFFICES ASSUME ~missed, stored' = session PROVE Stale \/ Sys(session) \subseteq Chat!ToSet(shown')
    BY <1>1, <1>3, <1>4 DEF StaffInv
  <2>1. stored = session
    BY <1>2, <1>5 DEF Chat!Forget
  <2>2. Stale \/ Sys(session) \subseteq Chat!ToSet(d.log)
    BY <1>1, <1>3, <2>1 DEF StaffInv, d
  <2> QED BY <1>7, <2>2
<1>14. ClosedInv'
  <2> SUFFICES ASSUME ~missed, conv[session].status \in Closed PROVE Stale \/ stored' = None
    BY <1>1, <1>4 DEF ClosedInv
  <2>1. Stale \/ d.status # "ACTIVE" \/ stored = None
    BY <1>1, <1>3 DEF ClosedInv, d
  <2>2. stored = None => stored' = None
    BY <1>8
  <2> QED BY <1>6, <2>1, <2>2
<1> QED BY <1>9, <1>10, <1>11, <1>12, <1>13, <1>14

(* A message makes the widget ask again, or is shown.                      *)
LEMMA MessageStep == ASSUME ChatInv, Chat!MessageArrives PROVE ChatInv'
<1> USE DEF ChatInv
<1> DEFINE h == Head(ws)
<1>1. /\ ws # <<>> /\ ws' = Tail(ws)
      /\ UNCHANGED <<conv, cached, mapped, saving, stored, saved, session, had, ask, posts,
                     data, wired, taking, written, missed>>
  BY DEF Chat!MessageArrives, Chat!database, Chat!rest
<1>2. /\ h \in Wire /\ ws' \in Seq(Wire)
      /\ Chat!ToSet(ws) \subseteq {h} \union Chat!ToSet(ws')
  BY <1>1, SetOf DEF LineInv
<1>3. /\ h.type \in {"stale", "chat", "human"}
      /\ h.type = "stale" => h.of \in Convs /\ h = [type |-> "stale", of |-> h.of]
      /\ h.type = "chat" => h.of \in Chat!Message
  BY <1>2 DEF Wire
<1>4. /\ h.type = "stale" => fetch' = (IF had /\ h.of = session THEN Chat!Asked ELSE fetch)
                             /\ shown' = shown
      /\ h.type = "chat" => fetch' = fetch /\ shown' = Append(shown, h.of)
      /\ h.type = "human" => fetch' = fetch /\ shown' = shown
  BY DEF Chat!MessageArrives
<1>5. shown' \in Seq(Chat!Message) /\ Chat!ToSet(shown) \subseteq Chat!ToSet(shown')
  BY <1>3, <1>4, AppendShown DEF WidgetInv
<1>6. h.type = "chat" => h.of \in Chat!ToSet(shown')
  <2>1. \A e : Chat!ToSet(Append(shown, e)) = Chat!ToSet(shown) \union {e}
    BY SetOf DEF WidgetInv
  <2> HIDE DEF h
  <2> QED BY <1>4, <2>1
<1>7. /\ fetch' = fetch \/ (had /\ fetch' = Chat!Asked /\ fetch'.pc = "asked")
      /\ had => fetch'.pc = "asked" \/ (fetch' = fetch /\ (Stale => Stale'))
  <2>1. fetch' = fetch \/ (had /\ fetch' = Chat!Asked)
    BY <1>3, <1>4
  <2>2. ASSUME had, Stale, ~Stale', fetch' # Chat!Asked PROVE FALSE
    <3>1. h = [type |-> "stale", of |-> session]
      BY <1>1, <1>2, <2>2 DEF Stale
    <3> HIDE DEF h
    <3>2. h.type = "stale" /\ h.of = session
      BY <3>1
    <3> QED BY <1>4, <2>2, <3>2
  <2> QED BY <2>1, <2>2 DEF Chat!Asked
<1>8. Sys(session)' = Sys(session) /\ session \in Convs
  BY <1>1, SessionTypes DEF Sys, Chat!Said
<1>9. WidgetInv'
  BY <1>1, <1>5, WidgetKeeps DEF WidgetInv
<1>10. ConvInv' /\ AskInv' /\ TurnInv' /\ PostInv' /\ TakingInv'
  BY <1>1, ConvKeeps, AskKeeps, TurnKeeps, OthersKeep
<1>11. CacheInv'
  BY <1>1, SameRows DEF CacheInv
<1>12. LineInv'
  BY <1>1, <1>2 DEF LineInv
<1>13. QueryInv'
  BY <1>1, <1>5, <1>7 DEF QueryInv
<1>14. StaffInv'
  <2>1. CASE had
    <3>1. CASE fetch'.pc = "asked"
      BY <1>1, <2>1, <3>1 DEF StaffInv
    <3>2. CASE fetch' = fetch /\ (Stale => Stale')
      BY <1>1, <1>5, <1>8, <2>1, <3>2 DEF StaffInv
    <3> QED BY <1>7, <2>1, <3>1, <3>2
  <2>2. CASE ~had
    <3>1. ASSUME NEW m, [type |-> "chat", of |-> m] \in Chat!ToSet(ws)
          PROVE  m \in Chat!ToSet(shown') \/ [type |-> "chat", of |-> m] \in Chat!ToSet(ws')
      BY <1>2, <1>6, <3>1
    <3> QED BY <1>1, <1>5, <1>8, <2>2, <3>1 DEF StaffInv
  <2> QED BY <2>1, <2>2
<1>15. ClosedInv'
  BY <1>1, <1>7 DEF ClosedInv
<1> QED BY <1>9, <1>10, <1>11, <1>12, <1>13, <1>14, <1>15

(* What a lost connection held is known to be missed.                      *)
LEMMA ConnectionStep ==
  ASSUME ChatInv, Chat!Connect \/ Chat!Disconnect
  PROVE  ChatInv'
<1> USE DEF ChatInv
<1>1. UNCHANGED <<conv, cached, mapped, saving, stored, saved, session, had, shown, ask,
                  posts, fetch, data, taking, written>>
  BY DEF Chat!Connect, Chat!Disconnect, Chat!database, Chat!widget, Chat!query, Chat!rest
<1>2. /\ wired' \in BOOLEAN /\ missed' \in BOOLEAN
      /\ ws' = ws \/ (ws' = <<>> /\ (~missed' => ws = <<>>))
      /\ (~missed' => ~missed) /\ (~wired' => ws' = <<>>) /\ (ws' = ws \/ ws' = <<>>)
  BY DEF Chat!Connect, Chat!Disconnect, WidgetInv
<1>3. ConvInv' /\ AskInv' /\ TurnInv' /\ PostInv' /\ TakingInv'
  BY <1>1, ConvKeeps, AskKeeps, TurnKeeps, OthersKeep
<1>4. WidgetInv'
  BY <1>1, <1>2 DEF WidgetInv
<1>5. LineInv'
  <2>1. <<>> \in Seq(Wire) /\ ws \in Seq(Wire)
    BY DEF LineInv
  <2>2. ws' \in Seq(Wire)
    BY <1>2, <2>1
  <2> QED BY <1>2, <2>2 DEF LineInv
<1>6. CacheInv'
  BY <1>1, SameRows DEF CacheInv
<1>7. QueryInv'
  BY <1>1 DEF QueryInv
<1>8. Sys(session)' = Sys(session)
  BY <1>1 DEF Sys, Chat!Said
<1>9. ~missed' => ~missed /\ ws' = ws
  BY <1>2
<1>10. StaffInv'
  BY <1>1, <1>8, <1>9 DEF StaffInv, Stale
<1>11. ClosedInv'
  BY <1>1, <1>9 DEF ClosedInv, Stale
<1> QED BY <1>3, <1>4, <1>5, <1>6, <1>7, <1>10, <1>11

(* A step of the agent or of a route that the widget does not hear of.     *)
LEMMA BehindStep ==
  ASSUME ChatInv, ConvInv', AskInv', TurnInv', PostInv', TakingInv',
         \A c \in Convs : /\ Sys(c)' \subseteq Sys(c)
                          /\ conv'[c].status \in Closed => conv[c].status \in Closed,
         UNCHANGED <<cached, stored, saved, session, had, shown, fetch, data, ws, wired,
                     missed>>,
         written' \in {written, written + 1}
  PROVE  ChatInv'
<1> USE DEF ChatInv
<1>1. CacheInv' /\ QueryInv' /\ StaffInv' /\ ClosedInv'
  BY SilentStep
<1>2. /\ missed' \in BOOLEAN /\ stored' \in {stored, None}
      /\ shown' \in Seq(Chat!Message) /\ saved' \in Seq(Chat!Message)
  BY DEF WidgetInv
<1>3. WidgetInv'
  BY <1>2, WidgetKeeps
<1> QED BY <1>1, <1>3, OthersKeep

(* A status that is new, or the same, or open, ends nothing.               *)
LEMMA EndsNothing ==
  ASSUME NEW c \in Convs, NEW n,
         \A d \in Convs : conv'[d] = IF d = c THEN n ELSE conv[d],
         n.status \in {"ACTIVE", None, conv[c].status}
  PROVE  \A d \in Convs : conv'[d].status \in Closed => conv[d].status \in Closed
BY TalkValues DEF Closed

LEMMA AgentStartStep == ASSUME ChatInv, Chat!AgentStarts PROVE ChatInv'
<1> USE DEF ChatInv
<1> DEFINE c == ask.conv
           r == conv[c]
           v == IF r.status # None THEN r.status ELSE "ACTIVE"
           opened == [r EXCEPT !.status = v]
           note == [r EXCEPT !.status = "ACTIVE"]
           told == [note EXCEPT !.log = Append(r.log, ask.msg)]
<1>1. /\ ask # None /\ mapped' = mapped \union {c}
      /\ UNCHANGED <<cached, saving, stored, saved, session, had, shown, posts, fetch, data,
                     ws, wired, taking, missed>>
  BY DEF Chat!AgentStarts, Chat!query
<1>2. ask \in Asks /\ c \in Convs /\ c <= session /\ ask.msg \in Texts
  BY <1>1 DEF AskInv, Asks
<1>3. r \in Chat!Conversation /\ mapped' \subseteq Convs /\ c \in mapped' /\ mapped \subseteq mapped'
  BY <1>1, <1>2 DEF ConvInv
<1>4. \/ /\ conv' = [conv EXCEPT ![c] = opened] /\ written' = written
         /\ ask' = [ask EXCEPT !.pc = "running"]
      \/ /\ conv' = [conv EXCEPT ![c] = told] /\ written' = written + 1
         /\ ask' = [ask EXCEPT !.pc = "answered", !.reply = Chat!Write("NOTICE")]
  <2>1. [r EXCEPT !.status = IF Chat!Exists(c) THEN @ ELSE "ACTIVE"] = opened
    BY DEF Chat!Exists
  <2>2. CASE r.support = None \/ ask.form
    BY <2>1, <2>2 DEF Chat!AgentStarts
  <2>3. CASE ~(r.support = None \/ ask.form)
    <3>1. conv' = [conv EXCEPT ![c].status = "ACTIVE", ![c].log = Append(@, ask.msg)]
      BY <2>3 DEF Chat!AgentStarts
    <3>2. conv' = [conv EXCEPT ![c] = told]
      BY <1>2, <1>3, <3>1 DEF ConvInv, Chat!Conversation
    <3> QED BY <2>3, <3>2 DEF Chat!AgentStarts
  <2> QED BY <2>2, <2>3
<1>5. v \in Chat!Statuses /\ v \in {"ACTIVE", r.status} /\ v # None
  BY <1>3, TalkValues DEF Chat!Conversation, Chat!Statuses
<1>6. opened \in Chat!Conversation /\ opened.status = v /\ opened.log = r.log
  <2> HIDE DEF v, r
  <2> QED BY <1>3, <1>5, RowTypes
<1>7. note \in Chat!Conversation /\ note.status = "ACTIVE" /\ note.log = r.log
  <2> HIDE DEF v, r
  <2> QED BY <1>3, RowTypes DEF Chat!Statuses
<1> DEFINE l == Append(r.log, ask.msg)
<1>8. l \in Seq(Chat!Message) /\ \A m \in Chat!ToSet(l) : m.by = "SYSTEM" => m \in Chat!ToSet(r.log)
  BY <1>2, <1>3, RowTypes, NotStaffOne
<1>9. told \in Chat!Conversation /\ told.status = "ACTIVE" /\ told.log = l
  <2> HIDE DEF l, note
  <2>1. told = [note EXCEPT !.log = l]
    BY DEF l
  <2> HIDE DEF told, r
  <2> QED BY <1>7, <1>8, <2>1, RowTypes
<1>10. PICK n \in {opened, told} :
         /\ conv' = [conv EXCEPT ![c] = n] /\ n \in Chat!Conversation
         /\ n.status # None /\ n.status \in {"ACTIVE", r.status}
         /\ \A m \in Chat!ToSet(n.log) : m.by = "SYSTEM" => m \in Chat!ToSet(r.log)
  <2> HIDE DEF opened, told, r, v, l
  <2>1. CASE conv' = [conv EXCEPT ![c] = opened]
    BY <1>5, <1>6, <2>1
  <2>2. CASE conv' = [conv EXCEPT ![c] = told]
    BY <1>8, <1>9, <2>2, TalkValues
  <2> QED BY <1>4, <2>1, <2>2
<1>11. ConvInv' /\ \A d \in Convs : conv'[d] = IF d = c THEN n ELSE conv[d]
  <2> HIDE DEF c, opened, told
  <2> QED BY <1>1, <1>2, <1>3, <1>10, RowStep
<1>12. /\ \A d \in Convs : Sys(d)' \subseteq Sys(d)
       /\ \A d \in Convs : conv'[d].status \in Closed => conv[d].status \in Closed
  <2>1. \A m \in Chat!ToSet(n.log) : m.by = "SYSTEM" => m \in Chat!Said(c)
    BY <1>10 DEF Chat!Said
  <2>2. n.status \in {"ACTIVE", None, conv[c].status}
    BY <1>10
  <2> HIDE DEF c, opened, told
  <2> QED BY <1>2, <1>11, <2>1, <2>2, Shorter, EndsNothing
<1>13. AskInv'
  <2>1. CASE ask' = [ask EXCEPT !.pc = "running"]
    <3>1. ask' \in Asks /\ ask'.conv = c /\ ask'.pc = "running"
      BY <1>2, <2>1 DEF Asks
    <3> QED BY <1>1, <1>2, <1>3, <3>1 DEF AskInv
  <2>2. CASE ask' = [ask EXCEPT !.pc = "answered", !.reply = Chat!Write("NOTICE")]
    BY <1>1, <2>2, AskAnswered DEF Chat!Senders
  <2> QED BY <1>4, <2>1, <2>2
<1>14. TurnInv' /\ PostInv' /\ TakingInv'
  BY <1>1, <1>3, TurnKeeps, OthersKeep
<1>15. written' \in {written, written + 1}
  BY <1>4
<1> QED BY <1>1, <1>11, <1>12, <1>13, <1>14, <1>15, BehindStep

LEMMA AgentAnswerStep ==
  ASSUME ChatInv, NEW by \in {"BOT", "ESCALATED"}, Chat!AgentAnswers(by)
  PROVE  ChatInv'
<1> USE DEF ChatInv
<1> DEFINE w == Chat!Write(by)
           s == [conv |-> ask.conv, turn |-> <<ask.msg, w>>]
<1>1. /\ ask # None /\ ask.pc = "running" /\ written' = written + 1
      /\ ask' = [ask EXCEPT !.pc = "answered", !.reply = Chat!Write(by)]
      /\ saving' = saving \union {s}
      /\ UNCHANGED <<conv, cached, mapped, stored, saved, session, had, shown, posts,
                     fetch, data, ws, wired, taking, missed>>
  BY DEF Chat!AgentAnswers, Chat!query
<1>2. ask.msg \in Texts /\ ask.conv \in mapped /\ ask.conv <= session
  BY <1>1 DEF AskInv, Asks
<1>3. by \in Chat!Senders /\ by \in Chat!Senders \ {"SYSTEM"}
  BY DEF Chat!Senders
<1>4. w \in Texts
  BY <1>3, WriteTypes
<1> HIDE DEF w
<1>5. s.conv \in mapped /\ s.conv <= session /\ s.turn \in Seq(Texts)
  BY <1>2, <1>4
<1> HIDE DEF s
<1>6. TurnInv'
  BY <1>1, <1>5 DEF TurnInv
<1>7. AskInv'
  BY <1>1, <1>3, AskAnswered
<1>8. ConvInv' /\ PostInv' /\ TakingInv'
  BY <1>1, ConvKeeps, OthersKeep
<1>9. written' \in {written, written + 1}
  BY <1>1
<1> QED BY <1>1, <1>6, <1>7, <1>8, <1>9, SameRows, BehindStep

LEMMA PersistStep == ASSUME ChatInv, NEW s \in saving, Chat!PersistTurn(s) PROVE ChatInv'
<1> USE DEF ChatInv
<1> DEFINE c == s.conv
           r == conv[c]
           note == [r EXCEPT !.status = "ACTIVE"]
           l == r.log \o s.turn
           n == [note EXCEPT !.log = l]
<1>1. /\ saving' \subseteq saving
      /\ conv' = [conv EXCEPT ![s.conv].status = "ACTIVE", ![s.conv].log = @ \o s.turn]
      /\ UNCHANGED <<cached, mapped, stored, saved, session, had, shown, ask, posts,
                     fetch, data, ws, wired, taking, written, missed>>
  BY DEF Chat!PersistTurn, Chat!widget, Chat!query, Chat!rest
<1>2. c \in Convs /\ c \in mapped /\ c <= session /\ s.turn \in Seq(Texts)
  BY DEF TurnInv, ConvInv
<1>3. r \in Chat!Conversation /\ mapped \subseteq Convs
  BY <1>2 DEF ConvInv
<1>4. conv' = [conv EXCEPT ![c] = n]
  BY <1>1, <1>2, <1>3 DEF ConvInv, Chat!Conversation
<1>5. note \in Chat!Conversation /\ note.status = "ACTIVE"
  <2> HIDE DEF r
  <2> QED BY <1>3, RowTypes DEF Chat!Statuses
<1>6. l \in Seq(Chat!Message) /\ \A m \in Chat!ToSet(l) : m.by = "SYSTEM" => m \in Chat!ToSet(r.log)
  <2> HIDE DEF r, c
  <2> QED BY <1>2, <1>3, RowTypes, NotStaff
<1>7. n \in Chat!Conversation /\ n.status = "ACTIVE" /\ n.log = l
  <2> HIDE DEF l, note
  <2> QED BY <1>5, <1>6, RowTypes
<1>8. \A m \in Chat!ToSet(n.log) : m.by = "SYSTEM" => m \in Chat!Said(c)
  <2> HIDE DEF n, l
  <2> QED BY <1>6, <1>7 DEF Chat!Said
<1> HIDE DEF n
<1>9. ConvInv' /\ \A d \in Convs : conv'[d] = IF d = c THEN n ELSE conv[d]
  <2> HIDE DEF c
  <2> QED BY <1>1, <1>2, <1>3, <1>4, <1>7, TalkValues, RowStep
<1>10. /\ \A d \in Convs : Sys(d)' \subseteq Sys(d)
       /\ \A d \in Convs : conv'[d].status \in Closed => conv[d].status \in Closed
  <2> HIDE DEF c
  <2> QED BY <1>2, <1>7, <1>8, <1>9, Shorter, EndsNothing
<1>11. AskInv' /\ TurnInv' /\ PostInv' /\ TakingInv'
  BY <1>1, AskKeeps, TurnKeeps, OthersKeep
<1> QED BY <1>1, <1>9, <1>10, <1>11, BehindStep

LEMMA DeleteStep == ASSUME ChatInv, NEW c \in Convs, Chat!DeleteChat(c) PROVE ChatInv'
<1> USE DEF ChatInv
<1> DEFINE n == Chat!NoConversation
<1>1. /\ conv' = [conv EXCEPT ![c] = n]
      /\ UNCHANGED <<cached, mapped, saving, stored, saved, session, had, shown, ask, posts,
                     fetch, data, ws, wired, taking, written, missed>>
  BY DEF Chat!DeleteChat, Chat!widget, Chat!query
<1>2. n \in Chat!Conversation /\ n.status = None /\ n.log = <<>>
  BY TalkValues
<1>3. Chat!ToSet(n.log) = {}
  BY <1>2, SetOf
<1>4. mapped \subseteq Convs /\ mapped' = mapped
  BY <1>1 DEF ConvInv
<1>5. n = Chat!NoConversation
  OBVIOUS
<1> HIDE DEF n
<1>6. ConvInv' /\ \A d \in Convs : conv'[d] = IF d = c THEN n ELSE conv[d]
  BY <1>1, <1>2, <1>4, <1>5, RowStep
<1>7. /\ \A d \in Convs : Sys(d)' \subseteq Sys(d)
      /\ \A d \in Convs : conv'[d].status \in Closed => conv[d].status \in Closed
  BY <1>2, <1>3, <1>6, Shorter, EndsNothing
<1>8. AskInv' /\ TurnInv' /\ PostInv' /\ TakingInv'
  BY <1>1, AskKeeps, TurnKeeps, OthersKeep
<1> QED BY <1>1, <1>6, <1>7, <1>8, BehindStep

(* A step of a route that the widget is told of.                           *)
LEMMA TellStep ==
  ASSUME ChatInv, NEW c \in Convs, NEW n \in Chat!Conversation, NEW more \in Seq(Wire),
         conv' = [conv EXCEPT ![c] = n], Chat!Exists(c), n.status # None,
         Chat!InvalidateAndSend(c, more),
         \A m \in Chat!ToSet(n.log) : m.by = "SYSTEM" =>
           m \in Chat!Said(c) \/ [type |-> "chat", of |-> m] \in Chat!ToSet(more),
         UNCHANGED <<mapped, saving, stored, saved, session, had, shown, ask, fetch, data,
                     wired>>,
         PostInv', TakingInv', written' \in {written, written + 1}
  PROVE  ChatInv'
<1> USE DEF ChatInv
<1>1. c \in mapped /\ c <= session /\ mapped \subseteq Convs
  BY DEF ConvInv
<1>2. ConvInv' /\ \A d \in Convs : conv'[d] = IF d = c THEN n ELSE conv[d]
  BY <1>1, RowStep
<1>3. CacheInv' /\ QueryInv' /\ StaffInv' /\ ClosedInv' /\ LineInv' /\ missed' \in BOOLEAN
  BY <1>1, <1>2, ToldStep
<1>4. AskInv' /\ TurnInv'
  BY AskKeeps, TurnKeeps
<1>5. stored' \in {stored, None} /\ shown' \in Seq(Chat!Message) /\ saved' \in Seq(Chat!Message)
  BY DEF WidgetInv
<1>6. WidgetInv'
  BY <1>3, <1>5, WidgetKeeps
<1> QED BY <1>2, <1>3, <1>4, <1>6

(* A row of the table, and what the routes make of it.                     *)
LEMMA RowOf ==
  ASSUME ConvInv, NEW c \in Convs
  PROVE  /\ conv[c] \in Chat!Conversation /\ conv[c].log \in Seq(Chat!Message)
         /\ \A m \in Chat!ToSet(conv[c].log) : m \in Chat!Said(c)
<1>1. conv[c] \in Chat!Conversation
  BY DEF ConvInv
<1> QED BY <1>1, RowTypes DEF Chat!Said

LEMMA StatusStep ==
  ASSUME ChatInv, NEW c \in Convs, NEW v \in Closed, Chat!Exists(c),
         conv' = [conv EXCEPT ![c].status = v], Chat!InvalidateAndSend(c, <<>>),
         UNCHANGED <<mapped, saving, stored, saved, session, had, shown, ask, fetch, data,
                     wired, taking, written>>,
         PostInv'
  PROVE  ChatInv'
<1> DEFINE r == conv[c]
           n == [r EXCEPT !.status = v]
<1>1. v \in Chat!Statuses /\ v # None
  BY TalkValues DEF Closed, Chat!Statuses
<1>2. /\ r \in Chat!Conversation /\ r.log \in Seq(Chat!Message)
      /\ \A m \in Chat!ToSet(r.log) : m \in Chat!Said(c)
  BY RowOf DEF ChatInv
<1>3. n \in Chat!Conversation /\ n.status = v /\ n.log = r.log
  <2> HIDE DEF r
  <2> QED BY <1>1, <1>2, RowTypes
<1>4. conv' = [conv EXCEPT ![c] = n]
  BY DEF ChatInv, ConvInv
<1>5. TakingInv'
  BY OthersKeep DEF ChatInv
<1>6. <<>> \in Seq(Wire)
  OBVIOUS
<1>7. \A m \in Chat!ToSet(n.log) : m \in Chat!Said(c)
  BY <1>2, <1>3
<1> HIDE DEF n
<1> QED BY <1>1, <1>3, <1>4, <1>5, <1>6, <1>7, TellStep

LEMMA CustomerStep == ASSUME ChatInv, NEW p \in posts, Chat!CustomerChat(p) PROVE ChatInv'
<1> DEFINE c == p.to
           r == conv[c]
           l == Append(r.log, p.msg)
           n == [r EXCEPT !.log = l]
<1>1. /\ p.msg # None /\ posts' \subseteq posts
      /\ UNCHANGED <<mapped, saving, stored, saved, session, had, shown, ask, fetch, data,
                     wired, taking, written>>
  BY DEF Chat!CustomerChat, Chat!widget, Chat!query, Chat!rest
<1>2. c \in Convs /\ p.msg \in Texts
  BY <1>1 DEF ChatInv, PostInv, Posts
<1>3. PostInv' /\ TakingInv'
  BY <1>1, OthersKeep DEF ChatInv
<1>4. /\ r \in Chat!Conversation /\ r.log \in Seq(Chat!Message)
      /\ \A m \in Chat!ToSet(r.log) : m \in Chat!Said(c)
  BY <1>2, RowOf DEF ChatInv
<1>5. CASE Chat!Exists(c)
  <2>1. /\ conv' = [conv EXCEPT ![c].log = Append(@, p.msg)]
        /\ Chat!InvalidateAndSend(c, <<>>)
    BY <1>5 DEF Chat!CustomerChat
  <2>2. l \in Seq(Chat!Message) /\ \A m \in Chat!ToSet(l) : m.by = "SYSTEM" => m \in Chat!ToSet(r.log)
    <3> HIDE DEF r
    <3> QED BY <1>2, <1>4, NotStaffOne
  <2>3. conv' = [conv EXCEPT ![c] = n]
    BY <1>2, <2>1 DEF ChatInv, ConvInv
  <2> HIDE DEF l
  <2>4. n \in Chat!Conversation /\ n.status = r.status /\ n.log = l
    <3> HIDE DEF r
    <3> QED BY <1>4, <2>2, RowTypes
  <2>5. n.status # None
    BY <1>5, <2>4 DEF Chat!Exists
  <2>6. \A m \in Chat!ToSet(n.log) : m.by = "SYSTEM" => m \in Chat!Said(c)
    BY <1>4, <2>2, <2>4
  <2>7. <<>> \in Seq(Wire)
    OBVIOUS
  <2> HIDE DEF n, c
  <2> QED BY <1>1, <1>2, <1>3, <1>5, <2>1, <2>3, <2>4, <2>5, <2>6, <2>7, TellStep
<1>6. CASE ~Chat!Exists(c)
  <2>1. UNCHANGED <<conv, cached, ws, missed>>
    BY <1>6 DEF Chat!CustomerChat
  <2>2. ConvInv' /\ AskInv' /\ TurnInv'
    BY <1>1, <2>1, ConvKeeps, AskKeeps, TurnKeeps DEF ChatInv
  <2> QED BY <1>1, <1>3, <2>1, <2>2, SameRows, BehindStep
<1> QED BY <1>5, <1>6

LEMMA AbandonStep == ASSUME ChatInv, NEW p \in posts, Chat!Abandon(p) PROVE ChatInv'
<1> DEFINE c == p.to
<1>1. /\ \/ posts' \subseteq posts
         \/ posts' = (posts \ {p}) \union {[p EXCEPT !.pc = "done"]}
      /\ UNCHANGED <<mapped, saving, stored, saved, session, had, shown, ask, fetch, data,
                     wired, taking, written>>
  BY DEF Chat!Abandon, Chat!widget, Chat!query, Chat!rest
<1>2. c \in Convs /\ p \in Posts
  BY DEF ChatInv, PostInv, Posts
<1>3. PostInv'
  <2>1. [p EXCEPT !.pc = "done"] \in Posts
    BY <1>2 DEF Posts
  <2> QED BY <1>1, <2>1 DEF ChatInv, PostInv
<1>4. CASE Chat!Exists(c)
  <2>1. /\ conv' = [conv EXCEPT ![c].status = "ABANDONED"]
        /\ Chat!InvalidateAndSend(c, <<>>)
    BY <1>4 DEF Chat!Abandon
  <2>2. "ABANDONED" \in Closed
    BY DEF Closed
  <2> HIDE DEF c
  <2> QED BY <1>1, <1>2, <1>3, <1>4, <2>1, <2>2, StatusStep
<1>5. CASE ~Chat!Exists(c)
  <2>1. UNCHANGED <<conv, cached, ws, missed>>
    BY <1>5 DEF Chat!Abandon
  <2>2. ConvInv' /\ AskInv' /\ TurnInv' /\ TakingInv'
    BY <1>1, <2>1, ConvKeeps, AskKeeps, TurnKeeps, OthersKeep DEF ChatInv
  <2> QED BY <1>1, <1>3, <2>1, <2>2, SameRows, BehindStep
<1> QED BY <1>4, <1>5

LEMMA CompleteStep == ASSUME ChatInv, NEW c \in Convs, Chat!Complete(c) PROVE ChatInv'
<1>1. /\ Chat!Exists(c) /\ conv' = [conv EXCEPT ![c].status = "COMPLETED"]
      /\ Chat!InvalidateAndSend(c, <<>>)
      /\ UNCHANGED <<mapped, saving, stored, saved, session, had, shown, ask, posts, fetch,
                     data, wired, taking, written>>
  BY TalkValues DEF Chat!Complete, Chat!widget, Chat!query, Chat!Exists
<1>2. PostInv'
  BY <1>1, OthersKeep DEF ChatInv
<1>3. "COMPLETED" \in Closed
  BY DEF Closed
<1> QED BY <1>1, <1>2, <1>3, StatusStep

(* A conversation that was taken over exists.                              *)
LEMMA AdminStep == ASSUME ChatInv, NEW c \in Convs, Chat!AdminChat(c) PROVE ChatInv'
<1> DEFINE r == conv[c]
           w == Chat!Write("SYSTEM")
           l == Append(r.log, w)
           n == [r EXCEPT !.log = l]
           more == <<[type |-> "chat", of |-> w]>>
<1>1. /\ r.support # None /\ written' = written + 1
      /\ conv' = [conv EXCEPT ![c].log = Append(@, w)]
      /\ Chat!InvalidateAndSend(c, more)
      /\ UNCHANGED <<mapped, saving, stored, saved, session, had, shown, ask, posts, fetch,
                     data, wired, taking>>
  BY DEF Chat!AdminChat, Chat!widget, Chat!query
<1>2. PostInv' /\ TakingInv'
  BY <1>1, OthersKeep DEF ChatInv
<1>3. /\ r \in Chat!Conversation /\ r.log \in Seq(Chat!Message)
      /\ \A m \in Chat!ToSet(r.log) : m \in Chat!Said(c)
  BY RowOf DEF ChatInv
<1>4. r.status # None
  <2>1. CASE Chat!Exists(c)
    BY <2>1 DEF Chat!Exists
  <2>2. CASE ~Chat!Exists(c)
    <3>1. r = Chat!NoConversation
      BY <2>2 DEF ChatInv, ConvInv
    <3> QED BY <1>1, <3>1 DEF Chat!NoConversation
  <2> QED BY <2>1, <2>2
<1>5. w \in Chat!Message
  BY WriteTypes DEF ChatInv, Chat!Senders
<1>6. conv' = [conv EXCEPT ![c] = n]
  BY <1>1 DEF ChatInv, ConvInv
<1> HIDE DEF w
<1>7. more \in Seq(Wire) /\ [type |-> "chat", of |-> w] \in Chat!ToSet(more)
  BY <1>5 DEF Wire, Chat!ToSet
<1>8. l \in Seq(Chat!Message) /\ Chat!ToSet(l) = Chat!ToSet(r.log) \union {w}
  <2> HIDE DEF r
  <2> QED BY <1>3, <1>5, SetOf
<1> HIDE DEF l, more
<1>9. n \in Chat!Conversation /\ n.status = r.status /\ n.log = l
  <2> HIDE DEF r
  <2> QED BY <1>3, <1>8, RowTypes
<1>10. \A m \in Chat!ToSet(n.log) : m.by = "SYSTEM" =>
         m \in Chat!Said(c) \/ [type |-> "chat", of |-> m] \in Chat!ToSet(more)
  BY <1>3, <1>7, <1>8, <1>9
<1>11. Chat!Exists(c) /\ n.status # None
  BY <1>4, <1>9 DEF Chat!Exists
<1> HIDE DEF n
<1> QED BY <1>1, <1>2, <1>6, <1>7, <1>9, <1>10, <1>11, TellStep

LEMMA HandoffStep == ASSUME ChatInv, NEW a \in Admins, Chat!Handoff(a) PROVE ChatInv'
<1> DEFINE c == taking[a]
           r == conv[c]
           n == [r EXCEPT !.support = a]
           more == <<[type |-> "human"]>>
<1>1. /\ c # None /\ taking' = [taking EXCEPT ![a] = None]
      /\ UNCHANGED <<mapped, saving, stored, saved, session, had, shown, ask, posts, fetch,
                     data, wired, written>>
  BY DEF Chat!Handoff, Chat!widget, Chat!query
<1>2. c \in Convs /\ TakingInv'
  BY <1>1 DEF ChatInv, TakingInv
<1>3. PostInv'
  BY <1>1, OthersKeep DEF ChatInv
<1>4. /\ r \in Chat!Conversation /\ r.log \in Seq(Chat!Message)
      /\ \A m \in Chat!ToSet(r.log) : m \in Chat!Said(c)
  BY <1>2, RowOf DEF ChatInv
<1>5. more \in Seq(Wire)
  BY DEF Wire
<1>6. CASE Chat!Exists(c)
  <2>1. /\ conv' = [conv EXCEPT ![c].support = a]
        /\ Chat!InvalidateAndSend(c, more)
    BY <1>6 DEF Chat!Handoff
  <2>2. conv' = [conv EXCEPT ![c] = n]
    BY <1>2, <2>1 DEF ChatInv, ConvInv
  <2>3. n \in Chat!Conversation /\ n.status = r.status /\ n.log = r.log
    <3> HIDE DEF r
    <3> QED BY <1>4, RowTypes
  <2>4. n.status # None
    BY <1>6, <2>3 DEF Chat!Exists
  <2>5. \A m \in Chat!ToSet(n.log) : m \in Chat!Said(c)
    BY <1>4, <2>3
  <2> HIDE DEF n, more, c
  <2> QED BY <1>1, <1>2, <1>3, <1>5, <1>6, <2>1, <2>2, <2>3, <2>4, <2>5, TellStep
<1>7. CASE ~Chat!Exists(c)
  <2>1. UNCHANGED <<conv, cached, ws, missed>>
    BY <1>7 DEF Chat!Handoff
  <2>2. ConvInv' /\ AskInv' /\ TurnInv'
    BY <1>1, <2>1, ConvKeeps, AskKeeps, TurnKeeps DEF ChatInv
  <2> QED BY <1>1, <1>2, <1>3, <2>1, <2>2, SameRows, BehindStep
<1> QED BY <1>6, <1>7

LEMMA TakeOverStep ==
  ASSUME ChatInv, NEW a \in Admins, NEW c \in Convs, Chat!TakeOver(a, c)
  PROVE  ChatInv'
<1>1. /\ taking' = [taking EXCEPT ![a] = c]
      /\ UNCHANGED <<conv, cached, mapped, saving, stored, saved, session, had, shown, ask,
                     posts, fetch, data, ws, wired, written, missed>>
  BY DEF Chat!TakeOver, Chat!database, Chat!widget, Chat!query
<1>2. TakingInv'
  BY <1>1 DEF ChatInv, TakingInv
<1>3. ConvInv' /\ AskInv' /\ TurnInv' /\ PostInv'
  BY <1>1, ConvKeeps, AskKeeps, TurnKeeps, OthersKeep DEF ChatInv
<1> QED BY <1>1, <1>2, <1>3, SameRows, BehindStep

LEMMA ChatStep == ASSUME ChatInv, Chat!Next PROVE ChatInv'
<1>1. CASE Chat!SendMessage
  BY <1>1, AskStep DEF Chat!SendMessage
<1>2. CASE Chat!SubmitForm
  BY <1>2, AskStep DEF Chat!SubmitForm
<1>3. ASSUME NEW p \in posts, Chat!Cleared(p) \/ Chat!CustomerChat(p) \/ Chat!Abandon(p)
      PROVE  ChatInv'
  BY <1>3, ClearedStep, CustomerStep, AbandonStep
<1>4. ASSUME NEW c \in Convs, Chat!Complete(c) \/ Chat!AdminChat(c) \/ Chat!DeleteChat(c)
      PROVE  ChatInv'
  BY <1>4, CompleteStep, AdminStep, DeleteStep
<1>5. ASSUME NEW a \in Admins, Chat!Handoff(a) \/ \E c \in Convs : Chat!TakeOver(a, c)
      PROVE  ChatInv'
  BY <1>5, HandoffStep, TakeOverStep
<1> QED BY <1>1, <1>2, <1>3, <1>4, <1>5, SendHumanStep, ChatAnswerStep, ClearStep, ReloadStep,
           ServeStep, ArrivesStep, MessageStep, ConnectionStep, AgentStartStep,
           AgentAnswerStep, PersistStep DEF Chat!Next

LEMMA ChatStutter == ASSUME ChatInv, UNCHANGED vars PROVE ChatInv'
<1>1. UNCHANGED <<conv, cached, mapped, saving, stored, saved, session, had, shown, ask,
                  posts, fetch, data, ws, wired, taking, written, missed>>
  BY DEF vars, OfChat, Lists
<1>2. ConvInv' /\ AskInv' /\ TurnInv' /\ PostInv' /\ TakingInv'
  BY <1>1, ConvKeeps, AskKeeps, TurnKeeps, OthersKeep DEF ChatInv
<1> QED BY <1>1, <1>2, SameRows, BehindStep

-----------------------------------------------------------------------------
(* The part that runs stays the one that runs.                             *)
LEMMA ChatAlone ==
  ASSUME [Next]_vars
  PROVE  part' = part /\ (part = "chat" => Chat!Next \/ UNCHANGED vars)
BY DEF Next, InChat, InGallery, InForm, InFilters, InProduct, InPrompt, InSignIn, vars

LEMMA ChatInvariance == Spec => [](part = "chat" => ChatInv)
<1> DEFINE Inv == part = "chat" => ChatInv
<1>1. Init => Inv
  BY ChatInit DEF Init
<1>2. Inv /\ [Next]_vars => Inv'
  BY ChatAlone, ChatStep, ChatStutter
<1> QED BY <1>1, <1>2, PTL DEF Spec

(* useSupportChat.ts:85-119: what the staff write to the conversation of   *)
(* the session is on the screen when nothing is on its way, although a     *)
(* refetch replaces what the messages appended.                            *)
THEOREM StaffIsShownCorrect == Spec => []StaffIsShown
<1>1. ASSUME ChatInv, Chat!Quiet, ~missed, stored = session
      PROVE  \A m \in Chat!Said(session) : m.by = "SYSTEM" => m \in Chat!ToSet(shown)
  <2>1. fetch.pc = "none" /\ ws = <<>> /\ Chat!ToSet(ws) = {}
    BY <1>1, SetOf DEF Chat!Quiet
  <2>2. Sys(session) \subseteq Chat!ToSet(shown)
    BY <1>1, <2>1 DEF ChatInv, StaffInv, Stale
  <2> QED BY <2>2 DEF Sys
<1>2. (part = "chat" => ChatInv) => StaffIsShown
  BY <1>1 DEF StaffIsShown, Chat!StaffIsShown
<1> QED BY <1>2, ChatInvariance, PTL

(* useSupportChat.ts:90-94, 129-137: a conversation that is over, whoever  *)
(* ended it, is forgotten when nothing is on its way.                      *)
THEOREM ClosedIsForgottenCorrect == Spec => []ClosedIsForgotten
<1>1. ASSUME ChatInv, Chat!Quiet, ~missed, had, conv[session].status \in Closed
      PROVE  stored = None
  <2>1. fetch.pc = "none" /\ Chat!ToSet(ws) = {}
    BY <1>1, SetOf DEF Chat!Quiet
  <2> QED BY <1>1, <2>1 DEF ChatInv, ClosedInv, Stale
<1>2. (part = "chat" => ChatInv) => ClosedIsForgotten
  BY <1>1 DEF ClosedIsForgotten, Chat!ClosedIsForgotten, Closed
<1> QED BY <1>2, ChatInvariance, PTL

-----------------------------------------------------------------------------
(* The chat: what the widget takes its writing for, and what is done.      *)

ModeTypes == human \in BOOLEAN /\ acts \in 0..ChatActs

LEMMA ModeStep ==
  ASSUME ChatInv, ModeTypes, Chat!Next
  PROVE  ModeTypes'
<1>1. acts' \in 0..ChatActs
  <2>1. acts' = acts \/ (acts < ChatActs /\ acts' = acts + 1)
    BY DEF Chat!Next, Chat!SendMessage, Chat!SubmitForm, Chat!Ask, Chat!SendHumanMessage,
           Chat!AnswerArrives, Chat!AskLost, Chat!ClearHistory, Chat!Reload, Chat!ServeChat,
           Chat!ChatArrives, Chat!MessageArrives, Chat!Connect, Chat!Disconnect,
           Chat!AgentStarts, Chat!AgentAnswers, Chat!PersistTurn, Chat!Cleared,
           Chat!CustomerChat, Chat!Abandon, Chat!Complete, Chat!AdminChat, Chat!DeleteChat,
           Chat!Handoff, Chat!TakeOver, Chat!Act, Chat!rest
  <2>2. acts \in 0..ChatActs /\ ChatActs \in Nat
    BY PagesAssumption DEF ModeTypes
  <2> QED BY <2>1, <2>2
<1>2. human' \in BOOLEAN
  <2>1. human \in BOOLEAN
    BY DEF ModeTypes
  <2>2. CASE Chat!ChatArrives
    <3>1. UNCHANGED human \/ human' = (fetch.data.support # None)
      BY <2>2 DEF Chat!ChatArrives
    <3>2. (fetch.data.support # None) \in BOOLEAN
      OBVIOUS
    <3> QED BY <2>1, <3>1, <3>2
  <2>3. CASE Chat!MessageArrives
    <3>1. ws # <<>> /\ ws \in Seq(Wire)
      BY <2>3 DEF Chat!MessageArrives, ChatInv, LineInv
    <3>2. Head(ws) \in Wire
      BY <3>1
    <3>3. Head(ws).type \in {"stale", "chat", "human"}
      BY <3>2 DEF Wire
    <3>4. UNCHANGED human \/ human' = TRUE
      BY <2>3, <3>3 DEF Chat!MessageArrives
    <3> QED BY <2>1, <3>4
  <2>4. CASE Chat!Reload
    BY <2>4 DEF Chat!Reload
  <2>5. CASE ~(Chat!ChatArrives \/ Chat!MessageArrives \/ Chat!Reload)
    <3>1. UNCHANGED human
      BY <2>5 DEF Chat!Next, Chat!SendMessage, Chat!SubmitForm, Chat!Ask,
           Chat!SendHumanMessage, Chat!AnswerArrives, Chat!AskLost, Chat!ClearHistory,
           Chat!ServeChat, Chat!Connect, Chat!Disconnect, Chat!AgentStarts,
           Chat!AgentAnswers, Chat!PersistTurn, Chat!Cleared, Chat!CustomerChat,
           Chat!Abandon, Chat!Complete, Chat!AdminChat, Chat!DeleteChat, Chat!Handoff,
           Chat!TakeOver, Chat!widget
    <3> QED BY <2>1, <3>1
  <2> QED BY <2>2, <2>3, <2>4, <2>5
<1> QED BY <1>1, <1>2 DEF ModeTypes

LEMMA ChatTypeOK ==
  ASSUME ChatInv, ModeTypes
  PROVE  Chat!TypeOK
<1>1. ASSUME NEW c \in Convs, cached[c] # None PROVE cached[c].status \in Chat!Statuses
  <2>1. cached[c] \in Chat!Conversation /\ cached[c].status # None
    BY <1>1 DEF ChatInv, CacheInv
  <2> QED BY <2>1 DEF Chat!Conversation
<1>2. {had, human, wired, missed} \subseteq BOOLEAN
  <2>1. had \in BOOLEAN /\ wired \in BOOLEAN /\ missed \in BOOLEAN
    BY DEF ChatInv, WidgetInv
  <2>2. human \in BOOLEAN
    BY DEF ModeTypes
  <2> QED BY <2>1, <2>2
<1>3. stored \in Convs \union {None}
  BY DEF ChatInv, WidgetInv
<1> QED BY <1>1, <1>2, <1>3 DEF ChatInv, ConvInv, TakingInv, WidgetInv, ModeTypes, Chat!TypeOK

LEMMA ChatTypesHold == Spec => [](part = "chat" => Chat!TypeOK)
<1> DEFINE Typed == part = "chat" => ModeTypes
           Inv == part = "chat" => ChatInv
<1>1. Init => Typed
  <2>1. ASSUME Chat!Init PROVE ModeTypes
    <3>1. human = FALSE /\ acts = 0
      BY <2>1 DEF Chat!Init
    <3>2. acts \in 0..ChatActs
      BY <3>1, PagesAssumption
    <3> QED BY <3>1, <3>2 DEF ModeTypes
  <2> QED BY <2>1 DEF Init
<1>2. Typed /\ Inv /\ [Next]_vars => Typed'
  <2>1. ASSUME ModeTypes, UNCHANGED vars PROVE ModeTypes'
    BY <2>1 DEF ModeTypes, vars, OfChat
  <2> QED BY <2>1, ChatAlone, ModeStep
<1>3. Typed /\ Inv => (part = "chat" => Chat!TypeOK)
  BY ChatTypeOK
<1>4. Spec => []Inv
  BY ChatInvariance
<1> QED BY <1>1, <1>2, <1>3, <1>4, PTL DEF Spec
=============================================================================
