-------------------------- MODULE StorefrontProofs --------------------------
(***************************************************************************)
(* The storefront's pages for every value of the constants of Pages: the   *)
(* filters of the lists and the options of a product; and the types of all *)
(* the parts.                                                              *)
(***************************************************************************)
EXTENDS SignInProofs, PagesProofs, ChatProofs

-----------------------------------------------------------------------------
(* The filters.  A delayed call, by what it will write.                    *)

Changes == UNION {[D -> Filters!Values] : D \in SUBSET Filters!Keys}
Delayed == [hook : {"query", "box"}, mount : Nat, path : {"list", "other"},
            data : Changes]
FilterOf == [Filters!Keys -> Filters!Values]

(* The pages differ in what they are made of.                              *)
LEMMA KindsDiffer ==
  ASSUME NEW v \in Filters!Kinds
  PROVE  /\ v.syncs \in BOOLEAN /\ v.drafts \in BOOLEAN /\ v.price \in BOOLEAN
         /\ v.box \in BOOLEAN /\ v.sheet \in BOOLEAN /\ v.fresh \in BOOLEAN
         /\ v.clears \in BOOLEAN /\ v.picks \subseteq {"one", "two"}
         /\ v.syncs => /\ v.drafts /\ ~v.price /\ ~v.box /\ ~v.fresh /\ v.sheet
                       /\ v.picks = {}
         /\ v.box => ~v.drafts /\ ~v.price /\ ~v.fresh
         /\ v.clears => v.box
<1>1. CASE v = Filters!GalleryFilters
  BY <1>1 DEF Filters!GalleryFilters
<1>2. CASE v = Filters!SidebarFilters
  BY <1>2 DEF Filters!SidebarFilters, Filters!GalleryFilters
<1>3. CASE v = Filters!MobileFilter
  BY <1>3 DEF Filters!MobileFilter, Filters!SidebarFilters, Filters!GalleryFilters
<1>4. CASE v = Filters!OrderFilters
  BY <1>4 DEF Filters!OrderFilters, Filters!GalleryFilters
<1>5. CASE v = Filters!AbandonedCarts
  BY <1>5 DEF Filters!AbandonedCarts, Filters!OrderFilters, Filters!GalleryFilters
<1>6. CASE v = Filters!UsersPage
  BY <1>6 DEF Filters!UsersPage, Filters!AbandonedCarts, Filters!OrderFilters,
              Filters!GalleryFilters
<1> QED BY <1>1, <1>2, <1>3, <1>4, <1>5, <1>6 DEF Filters!Kinds, Filters!ReviewsPage

LEMMA ChangeTypes ==
  /\ Filters!NoFilter \in FilterOf /\ DOMAIN Filters!NoFilter = Filters!Keys
  /\ FilterOf \subseteq Changes
  /\ \A c \in Changes : /\ DOMAIN c \subseteq Filters!Keys
                        /\ \A x \in DOMAIN c : c[x] \in Filters!Values
  /\ \A x \in Filters!Keys, v \in Filters!Values :
       /\ Filters!One(x, v) \in Changes /\ DOMAIN Filters!One(x, v) = {x}
       /\ Filters!One(x, v)[x] = v
  /\ \A c \in Changes, f \in FilterOf :
       /\ Filters!Over(c, f) \in FilterOf
       /\ \A x \in Filters!Keys :
            Filters!Over(c, f)[x] = IF x \in DOMAIN c THEN c[x] ELSE f[x]
<1>1. /\ Filters!NoFilter \in FilterOf /\ DOMAIN Filters!NoFilter = Filters!Keys
  BY DEF FilterOf, Filters!NoFilter, Filters!Values
<1>2. FilterOf \subseteq Changes
  BY DEF FilterOf, Changes
<1>3. ASSUME NEW c \in Changes
      PROVE  /\ DOMAIN c \subseteq Filters!Keys
             /\ \A x \in DOMAIN c : c[x] \in Filters!Values
  BY DEF Changes
<1>4. ASSUME NEW x \in Filters!Keys, NEW v \in Filters!Values
      PROVE  /\ Filters!One(x, v) \in Changes /\ DOMAIN Filters!One(x, v) = {x}
             /\ Filters!One(x, v)[x] = v
  <2>1. Filters!One(x, v) \in [{x} -> Filters!Values] /\ {x} \in SUBSET Filters!Keys
    BY DEF Filters!One
  <2> QED BY <2>1 DEF Filters!One, Changes
<1>5. ASSUME NEW c \in Changes, NEW f \in FilterOf
      PROVE  /\ Filters!Over(c, f) \in FilterOf
             /\ \A x \in Filters!Keys :
                  Filters!Over(c, f)[x] = IF x \in DOMAIN c THEN c[x] ELSE f[x]
  BY <1>3 DEF FilterOf, Filters!Over
<1> QED BY <1>1, <1>2, <1>3, <1>4, <1>5

(* r is s without its i-th call: where each was, and where it is now.      *)
Shortened(s, i, r) ==
  /\ r \in Seq(Delayed) /\ Len(r) = Len(s) - 1
  /\ \A j \in 1..Len(r) : \E o \in 1..Len(s) \ {i} :
       r[j] = s[o] /\ o = IF j < i THEN j ELSE j + 1
  /\ \A o \in 1..Len(s) \ {i} : \E j \in 1..Len(r) :
       r[j] = s[o] /\ o = IF j < i THEN j ELSE j + 1

LEMMA RemovedKeepsOrder ==
  ASSUME NEW s \in Seq(Delayed), NEW i \in 1..Len(s)
  PROVE  Shortened(s, i, RemoveAt(s, i))
<1> DEFINE r == RemoveAt(s, i)
<1>1. /\ r \in Seq(Delayed) /\ Len(r) = Len(s) - 1
      /\ \A j \in 1..Len(r) : r[j] = IF j < i THEN s[j] ELSE s[j + 1]
  BY Removed
<1> HIDE DEF r
<1>2. ASSUME NEW j \in 1..Len(r)
      PROVE  \E o \in 1..Len(s) \ {i} : r[j] = s[o] /\ o = IF j < i THEN j ELSE j + 1
  <2>1. (IF j < i THEN j ELSE j + 1) \in 1..Len(s) \ {i}
    BY <1>1
  <2> QED BY <1>1, <2>1
<1>3. ASSUME NEW o \in 1..Len(s) \ {i}
      PROVE  \E j \in 1..Len(r) : r[j] = s[o] /\ o = IF j < i THEN j ELSE j + 1
  <2> DEFINE j == IF o < i THEN o ELSE o - 1
  <2>1. j \in 1..Len(r) /\ o = IF j < i THEN j ELSE j + 1
    BY <1>1
  <2>2. r[j] = s[o]
    BY <1>1, <2>1
  <2> QED BY <2>1, <2>2
<1>4. Shortened(s, i, r)
  BY <1>1, <1>2, <1>3 DEF Shortened
<1> QED BY <1>4 DEF r

(* What will be written last for k, with u in the address, is v.           *)
LastWord(s, k, v, u) ==
  \/ v = u /\ \A i \in 1..Len(s) : k \notin DOMAIN s[i].data
  \/ \E i \in 1..Len(s) :
       /\ k \in DOMAIN s[i].data /\ s[i].data[k] = v
       /\ \A j \in 1..Len(s) : j > i => k \notin DOMAIN s[j].data

LEMMA LastWordIsDecided ==
  ASSUME NEW s \in Seq(Delayed), NEW k, NEW v, NEW u, LastWord(s, k, v, u)
  PROVE  LET holders == {i \in 1..Len(s) : k \in DOMAIN s[i].data}
         IN v = IF holders = {} THEN u
                ELSE s[CHOOSE i \in holders : \A j \in holders : j <= i].data[k]
<1> DEFINE holders == {i \in 1..Len(s) : k \in DOMAIN s[i].data}
<1>1. CASE v = u /\ \A i \in 1..Len(s) : k \notin DOMAIN s[i].data
  BY <1>1
<1>2. CASE \E i \in 1..Len(s) :
             /\ k \in DOMAIN s[i].data /\ s[i].data[k] = v
             /\ \A j \in 1..Len(s) : j > i => k \notin DOMAIN s[j].data
  <2>1. PICK i \in 1..Len(s) :
          /\ k \in DOMAIN s[i].data /\ s[i].data[k] = v
          /\ \A j \in 1..Len(s) : j > i => k \notin DOMAIN s[j].data
    BY <1>2
  <2>2. i \in holders /\ \A j \in holders : j <= i
    BY <2>1
  <2>3. \A o \in holders : (\A j \in holders : j <= o) => o = i
    BY <2>2
  <2>4. (CHOOSE o \in holders : \A j \in holders : j <= o) = i
    BY <2>2, <2>3
  <2> HIDE DEF holders
  <2> QED BY <2>1, <2>2, <2>4
<1> QED BY <1>1, <1>2 DEF LastWord

LEMMA LastWordOfOthers ==
  ASSUME NEW s \in Seq(Delayed), NEW i \in 1..Len(s), NEW r, Shortened(s, i, r),
         NEW k, NEW v, NEW u, LastWord(s, k, v, u), k \notin DOMAIN s[i].data
  PROVE  LastWord(r, k, v, u)
<1>1. /\ Len(r) = Len(s) - 1
      /\ \A j \in 1..Len(r) : \E o \in 1..Len(s) \ {i} :
           r[j] = s[o] /\ o = IF j < i THEN j ELSE j + 1
      /\ \A o \in 1..Len(s) \ {i} : \E j \in 1..Len(r) :
           r[j] = s[o] /\ o = IF j < i THEN j ELSE j + 1
  BY DEF Shortened
<1>2. CASE v = u /\ \A o \in 1..Len(s) : k \notin DOMAIN s[o].data
  BY <1>1, <1>2 DEF LastWord
<1>3. CASE \E o \in 1..Len(s) :
             /\ k \in DOMAIN s[o].data /\ s[o].data[k] = v
             /\ \A j \in 1..Len(s) : j > o => k \notin DOMAIN s[j].data
  <2>1. PICK o \in 1..Len(s) :
          /\ k \in DOMAIN s[o].data /\ s[o].data[k] = v
          /\ \A j \in 1..Len(s) : j > o => k \notin DOMAIN s[j].data
    BY <1>3
  <2>2. PICK j \in 1..Len(r) : r[j] = s[o] /\ o = IF j < i THEN j ELSE j + 1
    BY <1>1, <2>1
  <2>3. ASSUME NEW l \in 1..Len(r), l > j  PROVE k \notin DOMAIN r[l].data
    <3>1. PICK n \in 1..Len(s) \ {i} : r[l] = s[n] /\ n = IF l < i THEN l ELSE l + 1
      BY <1>1
    <3>2. n > o
      BY <2>2, <2>3, <3>1
    <3> QED BY <2>1, <3>1, <3>2
  <2> QED BY <2>1, <2>2, <2>3 DEF LastWord
<1> QED BY <1>2, <1>3 DEF LastWord

LEMMA LastWordOfAppend ==
  ASSUME NEW s \in Seq(Delayed), NEW e \in Delayed, NEW k, NEW v, NEW u
  PROVE  /\ k \in DOMAIN e.data => LastWord(Append(s, e), k, e.data[k], u)
         /\ k \notin DOMAIN e.data /\ LastWord(s, k, v, u) =>
              LastWord(Append(s, e), k, v, u)
<1>1. /\ Len(Append(s, e)) = Len(s) + 1 /\ Append(s, e)[Len(s) + 1] = e
      /\ \A i \in 1..Len(s) : Append(s, e)[i] = s[i]
      /\ Len(s) \in Nat
  OBVIOUS
<1> QED BY <1>1 DEF LastWord


(* A box writes what was typed and nothing else, and a search that is     *)
(* cleared is cleared by the box after it was by the filters.              *)
BoxCalls(s) ==
  \A i \in 1..Len(s) : s[i].hook = "box" => kind.box /\ DOMAIN s[i].data = {"text"}

LaterBox(s) ==
  \A j, i \in 1..Len(s) :
    /\ j < i /\ s[j].hook = "box" /\ s[i].hook = "query" /\ "text" \in DOMAIN s[i].data
    => \E l \in 1..Len(s) : i < l /\ s[l].hook = "box"

LEMMA LaterBoxOfOthers ==
  ASSUME NEW s \in Seq(Delayed), NEW i \in 1..Len(s), NEW r, Shortened(s, i, r),
         LaterBox(s), s[i].hook = "query" \/ i = 1
  PROVE  LaterBox(r)
<1> SUFFICES ASSUME NEW j \in 1..Len(r), NEW n \in 1..Len(r), j < n,
                    r[j].hook = "box", r[n].hook = "query",
                    "text" \in DOMAIN r[n].data
             PROVE  \E l \in 1..Len(r) : n < l /\ r[l].hook = "box"
  BY DEF LaterBox
<1>1. PICK jo \in 1..Len(s) \ {i} : r[j] = s[jo] /\ jo = IF j < i THEN j ELSE j + 1
  BY DEF Shortened
<1>2. PICK no \in 1..Len(s) \ {i} : r[n] = s[no] /\ no = IF n < i THEN n ELSE n + 1
  BY DEF Shortened
<1>3. Len(r) \in Nat /\ Len(s) \in Nat /\ jo < no
  <2>1. r \in Seq(Delayed)
    BY DEF Shortened
  <2>2. Len(r) \in Nat /\ Len(s) \in Nat
    BY <2>1
  <2> QED BY <1>1, <1>2, <2>2
<1>4. PICK lo \in 1..Len(s) : no < lo /\ s[lo].hook = "box"
  BY <1>1, <1>2, <1>3 DEF LaterBox
<1>5. lo # i
  BY <1>2, <1>3, <1>4
<1>6. PICK l \in 1..Len(r) : r[l] = s[lo] /\ lo = IF l < i THEN l ELSE l + 1
  BY <1>4, <1>5 DEF Shortened
<1>7. n < l
  BY <1>2, <1>4, <1>6
<1> QED BY <1>4, <1>6, <1>7

(* Clearing a timeout loses no key but those of its call.                  *)
LEMMA ClearedOf ==
  ASSUME NEW s \in Seq(Delayed), NEW hk \in {"query", "box"}
  PROVE  LET c == Filters!Cleared(s, hk) IN
         /\ c \in Seq(Delayed) /\ Len(c) <= Len(s)
         /\ \A j \in 1..Len(c) : \E o \in 1..Len(s) : c[j] = s[o]
         /\ \A k, v, u : LastWord(s, k, v, u) /\ k \notin Filters!Replaced(s, hk)
                         => LastWord(c, k, v, u)
         /\ hk = "query" /\ LaterBox(s) => LaterBox(c)
<1> DEFINE c == Filters!Cleared(s, hk)
           Hits == Filters!Waiting(s, hk)
<1>1. CASE Hits = {}
  <2>1. c = s /\ Len(s) \in Nat
    BY <1>1 DEF Filters!Cleared
  <2> QED BY <2>1
<1>2. CASE Hits # {}
  <2> DEFINE i == CHOOSE n \in Hits : TRUE
  <2>1. i \in Hits
    BY <1>2
  <2>2. i \in 1..Len(s) /\ s[i].hook = hk
    BY <2>1 DEF Filters!Waiting
  <2>3. c = RemoveAt(s, i)
    BY <1>2 DEF Filters!Cleared, Filters!RemoveAt, RemoveAt
  <2>4. \A k \in DOMAIN s[i].data : k \in Filters!Replaced(s, hk)
    BY <2>1 DEF Filters!Replaced
  <2> HIDE DEF i, c, Hits
  <2>5. Shortened(s, i, c)
    BY <2>2, <2>3, RemovedKeepsOrder
  <2>6. /\ c \in Seq(Delayed) /\ Len(c) <= Len(s)
        /\ \A j \in 1..Len(c) : \E o \in 1..Len(s) : c[j] = s[o]
    <3>1. Len(s) \in Nat
      OBVIOUS
    <3> QED BY <2>5, <3>1 DEF Shortened
  <2>7. ASSUME NEW k, NEW v, NEW u, LastWord(s, k, v, u),
               k \notin Filters!Replaced(s, hk)
        PROVE  LastWord(c, k, v, u)
    BY <2>2, <2>4, <2>5, <2>7, LastWordOfOthers
  <2>8. hk = "query" /\ LaterBox(s) => LaterBox(c)
    BY <2>2, <2>5, LaterBoxOfOthers
  <2> QED BY <2>6, <2>7, <2>8 DEF c
<1> QED BY <1>1, <1>2

LEMMA DebouncedOf ==
  ASSUME NEW s \in Seq(Delayed), BoxCalls(s), NEW hk \in {"query", "box"},
         NEW ch \in Changes, hk = "box" => kind.box /\ DOMAIN ch = {"text"},
         mount \in Nat, seen.path \in {"list", "other"}
  PROVE  LET r == Filters!Debounced(s, hk, ch) IN
         /\ r \in Seq(Delayed) /\ Len(r) <= Len(s) + 1 /\ BoxCalls(r)
         /\ \A k, v, u : /\ LastWord(s, k, v, u) /\ k \notin Filters!Replaced(s, hk)
                         /\ k \notin DOMAIN ch
                         => LastWord(r, k, v, u)
         /\ \A k \in DOMAIN ch : \A u : LastWord(r, k, ch[k], u)
         /\ hk = "box" => LaterBox(r)
         /\ hk = "query" /\ LaterBox(s) /\ ("text" \notin DOMAIN ch \/ ~kind.box)
              => LaterBox(r)
<1> DEFINE c == Filters!Cleared(s, hk)
           e == [hook |-> hk, mount |-> mount, path |-> seen.path, data |-> ch]
           r == Filters!Debounced(s, hk, ch)
<1>1. /\ c \in Seq(Delayed) /\ Len(c) <= Len(s)
      /\ \A j \in 1..Len(c) : \E o \in 1..Len(s) : c[j] = s[o]
      /\ \A k, v, u : LastWord(s, k, v, u) /\ k \notin Filters!Replaced(s, hk)
                      => LastWord(c, k, v, u)
      /\ hk = "query" /\ LaterBox(s) => LaterBox(c)
  BY ClearedOf
<1>2. e \in Delayed /\ e.hook = hk /\ e.data = ch
  BY DEF Delayed
<1>3. r = Append(c, e)
  BY DEF Filters!Debounced
<1> HIDE DEF c, e, r
<1>4. /\ r \in Seq(Delayed) /\ Len(r) = Len(c) + 1 /\ r[Len(c) + 1] = e
      /\ \A j \in 1..Len(c) : r[j] = c[j]
      /\ Len(c) \in Nat /\ Len(s) \in Nat
  BY <1>1, <1>2, <1>3
<1>5. BoxCalls(c)
  BY <1>1 DEF BoxCalls
<1>6. BoxCalls(r)
  BY <1>2, <1>4, <1>5 DEF BoxCalls
<1>7. ASSUME NEW k, NEW v, NEW u, LastWord(s, k, v, u),
             k \notin Filters!Replaced(s, hk), k \notin DOMAIN ch
      PROVE  LastWord(r, k, v, u)
  <2>1. LastWord(c, k, v, u)
    BY <1>1, <1>7
  <2> QED BY <1>1, <1>2, <1>3, <1>7, <2>1, LastWordOfAppend
<1>8. \A k \in DOMAIN ch : \A u : LastWord(r, k, ch[k], u)
  BY <1>1, <1>2, <1>3, LastWordOfAppend
<1>9. hk = "box" => LaterBox(r)
  BY <1>2, <1>4 DEF LaterBox
<1>10. ASSUME hk = "query", LaterBox(s), "text" \notin DOMAIN ch \/ ~kind.box
       PROVE  LaterBox(r)
  <2>1. CASE ~kind.box
    BY <1>6, <2>1 DEF LaterBox, BoxCalls
  <2>2. CASE "text" \notin DOMAIN ch
    <3>1. LaterBox(c)
      BY <1>1, <1>10
    <3>2. SUFFICES ASSUME NEW j \in 1..Len(r), NEW n \in 1..Len(r), j < n,
                          r[j].hook = "box", r[n].hook = "query",
                          "text" \in DOMAIN r[n].data
                   PROVE  \E l \in 1..Len(r) : n < l /\ r[l].hook = "box"
      BY DEF LaterBox
    <3>3. n # Len(c) + 1
      BY <1>2, <1>4, <2>2, <3>2
    <3>4. n \in 1..Len(c) /\ j \in 1..Len(c)
      BY <1>4, <3>2, <3>3
    <3>5. r[n] = c[n] /\ r[j] = c[j]
      BY <1>4, <3>4
    <3>6. PICK l \in 1..Len(c) : n < l /\ c[l].hook = "box"
      BY <3>1, <3>2, <3>4, <3>5 DEF LaterBox
    <3> QED BY <1>4, <3>6
  <2> QED BY <1>10, <2>1, <2>2
<1> QED BY <1>1, <1>4, <1>6, <1>7, <1>8, <1>9, <1>10 DEF r

(* A call that fires: what comes after it is still to be written.          *)
LEMMA LastHolderOfOthers ==
  ASSUME NEW s \in Seq(Delayed), NEW i \in 1..Len(s), NEW r, Shortened(s, i, r),
         NEW k, NEW o \in 1..Len(s) \ {i}, k \in DOMAIN s[o].data,
         \A j \in 1..Len(s) : j > o => k \notin DOMAIN s[j].data,
         NEW u
  PROVE  LastWord(r, k, s[o].data[k], u)
<1>1. PICK j \in 1..Len(r) : r[j] = s[o] /\ o = IF j < i THEN j ELSE j + 1
  BY DEF Shortened
<1>2. ASSUME NEW l \in 1..Len(r), l > j  PROVE k \notin DOMAIN r[l].data
  <2>1. PICK n \in 1..Len(s) \ {i} : r[l] = s[n] /\ n = IF l < i THEN l ELSE l + 1
    BY DEF Shortened
  <2>2. Len(r) \in Nat
    BY DEF Shortened
  <2>3. n > o
    BY <1>1, <1>2, <2>1, <2>2
  <2> QED BY <2>1, <2>3
<1> QED BY <1>1, <1>2 DEF LastWord

(* The call that fires writes the last word on its keys, unless a later    *)
(* one has it: those before it are boxes', and a box that was there before *)
(* "text" was cleared is there after it too.                               *)
LEMMA FiredOf ==
  ASSUME NEW s \in Seq(Delayed), NEW i \in 1..Len(s), BoxCalls(s), LaterBox(s),
         \A j \in 1..i - 1 : s[j].hook = "box" /\ s[i].hook = "query",
         NEW k \in Filters!Keys, NEW v, NEW f \in FilterOf,
         LastWord(s, k, v, f[k])
  PROVE  LastWord(RemoveAt(s, i), k, v, Filters!Over(s[i].data, f)[k])
<1> DEFINE r == RemoveAt(s, i)
<1>1. Shortened(s, i, r) /\ r \in Seq(Delayed)
  BY RemovedKeepsOrder DEF Shortened
<1>2. s[i] \in Delayed /\ s[i].data \in Changes /\ Len(s) \in Nat
  <2>1. s[i] \in Delayed /\ Len(s) \in Nat
    OBVIOUS
  <2>2. \A e \in Delayed : e.data \in Changes
    BY DEF Delayed
  <2> QED BY <2>1, <2>2
<1>3. Filters!Over(s[i].data, f)[k] =
        IF k \in DOMAIN s[i].data THEN s[i].data[k] ELSE f[k]
  BY <1>2, ChangeTypes
<1> HIDE DEF r
<1>4. CASE k \notin DOMAIN s[i].data
  BY <1>1, <1>3, <1>4, LastWordOfOthers DEF r
<1>5. CASE k \in DOMAIN s[i].data
  <2>1. PICK o \in 1..Len(s) :
          /\ k \in DOMAIN s[o].data /\ s[o].data[k] = v
          /\ \A j \in 1..Len(s) : j > o => k \notin DOMAIN s[j].data
    BY <1>5 DEF LastWord
  <2>2. CASE o # i
    <3>1. \A u : LastWord(r, k, s[o].data[k], u)
      BY <1>1, <2>1, <2>2, LastHolderOfOthers
    <3> QED BY <2>1, <3>1 DEF r
  <2>3. CASE o = i
    <3>1. ASSUME NEW j \in 1..i - 1, k \in DOMAIN s[j].data  PROVE FALSE
      <4>1. j \in 1..Len(s) /\ j < i
        BY <1>2
      <4>2. s[j].hook = "box" /\ s[i].hook = "query" /\ k = "text"
        BY <3>1, <4>1 DEF BoxCalls
      <4>3. PICK l \in 1..Len(s) : i < l /\ s[l].hook = "box"
        BY <1>5, <4>1, <4>2 DEF LaterBox
      <4> QED BY <2>1, <2>3, <4>2, <4>3 DEF BoxCalls
    <3>2. ASSUME NEW j \in 1..Len(r)  PROVE k \notin DOMAIN r[j].data
      <4>1. PICK n \in 1..Len(s) \ {i} : r[j] = s[n] /\ n = IF j < i THEN j ELSE j + 1
        BY <1>1 DEF Shortened
      <4>2. n \in 1..i - 1 \/ n > i
        BY <1>2
      <4> QED BY <2>1, <2>3, <3>1, <4>1, <4>2
    <3> QED BY <1>3, <1>5, <2>1, <2>3, <3>2 DEF LastWord, r
  <2> QED BY <2>2, <2>3
<1> QED BY <1>4, <1>5

-----------------------------------------------------------------------------
(* The filters' invariant.                                                 *)

FilterTypes ==
  /\ kind \in Filters!Kinds
  /\ path \in {"list", "other"} /\ url \in FilterOf
  /\ seen \in [path : {"list", "other"}, url : FilterOf]
  /\ mount \in Nat /\ open \in BOOLEAN /\ draft \in FilterOf
  /\ box \in Filters!Values /\ price \in Filters!Values \union {None}
  /\ timers \in Seq(Delayed) /\ edited \in BOOLEAN
  /\ wanted \in FilterOf /\ lost \subseteq Filters!Keys
  /\ acts \in 0..FilterActs

(* What is chosen is the last that will be written. *)
CallsInv ==
  /\ BoxCalls(timers) /\ LaterBox(timers)
  /\ \A k \in Filters!Keys \ lost : LastWord(timers, k, wanted[k], url[k])

(* Each act makes two calls at most, and each navigation mounts once. *)
MountsInv ==
  mount + (IF path # seen.path THEN 1 ELSE 0) + Len(timers) <= acts + acts

(* A box has what was typed or what was rendered; a draft too. *)
ControlsInv ==
  /\ price # None => kind.price
  /\ kind.box /\ "text" \notin lost => box \in {wanted["text"], seen.url["text"]}
  /\ kind.syncs /\ ~edited /\ lost = {} => draft \in {wanted, seen.url}

FiltersInv ==
  FilterTypes /\ CallsInv /\ MountsInv /\ ControlsInv

LEMMA FiltersInit ==
  ASSUME Filters!Init
  PROVE  FiltersInv
<1>1. /\ timers = <<>> /\ timers \in Seq(Delayed) /\ Len(timers) = 0
      /\ \A i \in 1..Len(timers) : FALSE
  BY DEF Filters!Init
<1>2. Filters!NoFilter \in FilterOf
  BY ChangeTypes
<1>3. FilterTypes
  <2>1. kind \in Filters!Kinds /\ open \in BOOLEAN
    BY KindsDiffer DEF Filters!Init
  <2>2. FilterActs \in Nat
    BY PagesAssumption
  <2>3. /\ path \in {"list", "other"} /\ url \in FilterOf
        /\ seen \in [path : {"list", "other"}, url : FilterOf]
        /\ draft \in FilterOf /\ wanted \in FilterOf
    BY <1>2 DEF Filters!Init, Filters!Here
  <2>4. /\ mount \in Nat /\ box \in Filters!Values /\ price = None
        /\ edited \in BOOLEAN /\ lost = {} /\ acts = 0 /\ 0 \in 0..FilterActs
    <3>1. mount = 0 /\ box = 0 /\ price = None /\ edited = FALSE /\ lost = {} /\ acts = 0
      BY DEF Filters!Init
    <3>2. 0 \in Nat /\ 0 \in 0..FilterActs /\ 0 \in Filters!Values
      BY <2>2 DEF Filters!Values
    <3> QED BY ONLY <3>1, <3>2
  <2> QED BY <1>1, <2>1, <2>3, <2>4 DEF FilterTypes
<1>4. CallsInv
  BY <1>1 DEF Filters!Init, CallsInv, BoxCalls, LaterBox, LastWord
<1>5. MountsInv
  BY <1>1 DEF Filters!Init, MountsInv, Filters!Here
<1>6. ControlsInv
  BY DEF Filters!Init, ControlsInv, Filters!Here, Filters!NoFilter, Filters!Keys
<1> QED BY <1>3, <1>4, <1>5, <1>6 DEF FiltersInv

(* A choice that is written: of a key that cannot be the search, or of a   *)
(* page without a search box, or of the box itself.                        *)
LEMMA UpdateQueryStep ==
  ASSUME FiltersInv, NEW hk \in {"query", "box"}, NEW ch \in Changes,
         hk = "box" => kind.box /\ DOMAIN ch = {"text"},
         "text" \in DOMAIN ch => hk = "box" \/ ~kind.box,
         Filters!Act, Filters!UpdateQuery(hk, ch),
         UNCHANGED <<kind, path, url, seen, mount>>
  PROVE  /\ timers' \in Seq(Delayed) /\ acts' \in 0..FilterActs
         /\ wanted' = Filters!Over(ch, wanted) /\ wanted' \in FilterOf
         /\ lost' \subseteq Filters!Keys /\ \A k \in lost \ DOMAIN ch : k \in lost'
         /\ CallsInv' /\ MountsInv'
<1> DEFINE r == Filters!Debounced(timers, hk, ch)
<1>1. /\ timers \in Seq(Delayed) /\ mount \in Nat /\ seen.path \in {"list", "other"}
      /\ wanted \in FilterOf /\ url \in FilterOf
      /\ lost \subseteq Filters!Keys /\ acts \in 0..FilterActs
  BY DEF FiltersInv, FilterTypes
<1>2. BoxCalls(timers) /\ LaterBox(timers)
  BY DEF FiltersInv, CallsInv
<1>3. /\ r \in Seq(Delayed) /\ Len(r) <= Len(timers) + 1 /\ BoxCalls(r)
      /\ \A k, v, u : /\ LastWord(timers, k, v, u)
                      /\ k \notin Filters!Replaced(timers, hk) /\ k \notin DOMAIN ch
                      => LastWord(r, k, v, u)
      /\ \A k \in DOMAIN ch : \A u : LastWord(r, k, ch[k], u)
      /\ LaterBox(r)
  BY <1>1, <1>2, DebouncedOf
<1>4. /\ timers' = r /\ wanted' = Filters!Over(ch, wanted)
      /\ lost' = (lost \union Filters!Replaced(timers, hk)) \ DOMAIN ch
      /\ acts' = acts + 1 /\ acts < FilterActs
  BY DEF Filters!UpdateQuery, Filters!Act
<1> HIDE DEF r
<1>5. DOMAIN ch \subseteq Filters!Keys /\ wanted' \in FilterOf
      /\ \A k \in Filters!Keys :
           wanted'[k] = IF k \in DOMAIN ch THEN ch[k] ELSE wanted[k]
  BY <1>1, <1>4, ChangeTypes
<1>6. Filters!Replaced(timers, hk) \subseteq Filters!Keys
  <2>1. ASSUME NEW i \in 1..Len(timers)
        PROVE  DOMAIN timers[i].data \subseteq Filters!Keys
    <3>1. timers[i] \in Delayed
      BY <1>1
    <3>2. timers[i].data \in Changes
      BY <3>1 DEF Delayed
    <3> QED BY <3>2, ChangeTypes
  <2> QED BY <2>1 DEF Filters!Replaced, Filters!Waiting
<1>7. lost' \subseteq Filters!Keys /\ \A k \in lost \ DOMAIN ch : k \in lost'
  BY <1>1, <1>4, <1>6
<1>8. CallsInv'
  <2>1. BoxCalls(timers)' /\ LaterBox(timers)'
    BY <1>3, <1>4 DEF BoxCalls, LaterBox
  <2>2. ASSUME NEW k \in Filters!Keys \ lost'
        PROVE  LastWord(timers', k, wanted'[k], url'[k])
    <3>1. CASE k \in DOMAIN ch
      BY <1>3, <1>4, <1>5, <3>1
    <3>2. CASE k \notin DOMAIN ch
      <4>1. k \in Filters!Keys \ lost /\ k \notin Filters!Replaced(timers, hk)
        BY <1>4, <3>2
      <4>2. LastWord(timers, k, wanted[k], url[k])
        BY <4>1 DEF FiltersInv, CallsInv
      <4> QED BY <1>3, <1>4, <1>5, <3>2, <4>1, <4>2
    <3> QED BY <3>1, <3>2
  <2> QED BY <2>1, <2>2 DEF CallsInv, LastWord
<1>9. MountsInv'
  BY <1>1, <1>3, <1>4 DEF FiltersInv, MountsInv
<1>10. acts' \in 0..FilterActs
  BY <1>1, <1>4, PagesAssumption
<1> QED BY <1>3, <1>4, <1>5, <1>7, <1>8, <1>9, <1>10

(* The steps. *)
LEMMA PickStep ==
  ASSUME FiltersInv, NEW k \in Filters!Keys, NEW v \in Filters!Values,
         Filters!Pick(k, v)
  PROVE  FiltersInv'
<1>1. FilterTypes /\ ControlsInv
  BY DEF FiltersInv
<1>2. Filters!One(k, v) \in Changes /\ DOMAIN Filters!One(k, v) = {k}
      /\ Filters!One(k, v)[k] = v
  BY ChangeTypes
<1>3. k \in {"one", "two"} /\ kind.syncs = FALSE
  BY <1>1, KindsDiffer DEF Filters!Pick, FilterTypes
<1>4. /\ timers' \in Seq(Delayed) /\ acts' \in 0..FilterActs
      /\ wanted' = Filters!Over(Filters!One(k, v), wanted) /\ wanted' \in FilterOf
      /\ lost' \subseteq Filters!Keys
      /\ \A x \in lost \ DOMAIN Filters!One(k, v) : x \in lost'
      /\ CallsInv' /\ MountsInv'
  BY <1>2, <1>3, UpdateQueryStep DEF Filters!Pick, Filters!address
<1>5. UNCHANGED <<kind, path, url, seen, mount, open, draft, box, price, edited>>
  BY DEF Filters!Pick, Filters!address, Filters!controls
<1>6. wanted'["text"] = wanted["text"]
  <2>1. "text" \in Filters!Keys /\ wanted \in FilterOf
    BY <1>1 DEF Filters!Keys, FilterTypes
  <2> QED BY <1>2, <1>3, <1>4, <2>1, ChangeTypes
<1>7. "text" \in lost => "text" \in lost'
  BY <1>2, <1>3, <1>4
<1>8. FilterTypes'
  BY <1>1, <1>4, <1>5 DEF FilterTypes
<1>9. ControlsInv'
  BY <1>1, <1>3, <1>5, <1>6, <1>7 DEF ControlsInv
<1> QED BY <1>4, <1>8, <1>9 DEF FiltersInv

LEMMA TypeTextStep ==
  ASSUME FiltersInv, NEW v \in Filters!Values, Filters!TypeText(v)
  PROVE  FiltersInv'
<1>1. FilterTypes /\ ControlsInv
  BY DEF FiltersInv
<1>2. /\ "text" \in Filters!Keys
      /\ Filters!One("text", v) \in Changes /\ DOMAIN Filters!One("text", v) = {"text"}
      /\ Filters!One("text", v)["text"] = v
  BY ChangeTypes DEF Filters!Keys
<1>3. kind.box /\ kind.syncs = FALSE
  BY <1>1, KindsDiffer DEF Filters!TypeText, FilterTypes
<1>4. /\ timers' \in Seq(Delayed) /\ acts' \in 0..FilterActs
      /\ wanted' = Filters!Over(Filters!One("text", v), wanted) /\ wanted' \in FilterOf
      /\ lost' \subseteq Filters!Keys
      /\ CallsInv' /\ MountsInv'
  BY <1>2, <1>3, UpdateQueryStep DEF Filters!TypeText, Filters!address
<1>5. /\ UNCHANGED <<kind, path, url, seen, mount, open, draft, price, edited>>
      /\ box' = v
  BY DEF Filters!TypeText, Filters!address
<1>6. wanted'["text"] = v
  <2>1. wanted \in FilterOf
    BY <1>1 DEF FilterTypes
  <2> QED BY <1>2, <1>4, <2>1, ChangeTypes
<1>7. FilterTypes'
  BY <1>1, <1>4, <1>5 DEF FilterTypes
<1>8. ControlsInv'
  BY <1>1, <1>3, <1>5, <1>6 DEF ControlsInv
<1> QED BY <1>4, <1>7, <1>8 DEF FiltersInv

(* What is chosen is written whole. *)
LEMMA OverAll ==
  ASSUME NEW f \in FilterOf, NEW g \in FilterOf
  PROVE  Filters!Over(f, g) = f
BY DEF FilterOf, Filters!Over

LEMMA ApplyStep ==
  ASSUME FiltersInv, Filters!Apply
  PROVE  FiltersInv'
<1> DEFINE ch == IF kind.price THEN [draft EXCEPT !["two"] = box] ELSE draft
<1>1. FilterTypes /\ ControlsInv
  BY DEF FiltersInv
<1>2. ch \in FilterOf /\ ch \in Changes
  <2>1. ch \in FilterOf
    BY <1>1 DEF FilterTypes, FilterOf
  <2> QED BY <2>1, ChangeTypes
<1>3. /\ ~kind.box
      /\ kind.syncs => ch = draft
      /\ kind.sheet \in BOOLEAN
  BY <1>1, KindsDiffer DEF Filters!Apply, FilterTypes
<1>4. Filters!Act /\ Filters!UpdateQuery("query", ch)
  BY DEF Filters!Apply
<1>5. /\ UNCHANGED <<kind, path, url, seen, mount, draft, box, price>>
      /\ edited' = FALSE /\ open' = ~kind.sheet
  BY DEF Filters!Apply, Filters!address
<1> HIDE DEF ch
<1>6. /\ timers' \in Seq(Delayed) /\ acts' \in 0..FilterActs
      /\ wanted' = Filters!Over(ch, wanted) /\ wanted' \in FilterOf
      /\ lost' \subseteq Filters!Keys
      /\ CallsInv' /\ MountsInv'
  BY <1>2, <1>3, <1>4, <1>5, UpdateQueryStep
<1>7. wanted' = ch
  BY <1>1, <1>2, <1>6, OverAll DEF FilterTypes
<1>8. FilterTypes'
  <2>1. open' \in BOOLEAN
    BY <1>3, <1>5
  <2> QED BY <1>1, <1>5, <1>6, <2>1 DEF FilterTypes
<1>9. ControlsInv'
  BY <1>1, <1>3, <1>5, <1>7 DEF ControlsInv
<1> QED BY <1>6, <1>8, <1>9 DEF FiltersInv

LEMMA ResetStep ==
  ASSUME FiltersInv, Filters!Reset
  PROVE  FiltersInv'
<1>1. FilterTypes /\ ControlsInv
  BY DEF FiltersInv
<1>2. Filters!NoFilter \in FilterOf /\ Filters!NoFilter \in Changes
  BY ChangeTypes
<1>3. ~kind.box
  BY <1>1, KindsDiffer DEF Filters!Reset, FilterTypes
<1>4. UNCHANGED <<kind, path, url, seen, mount, price>> /\ draft' = Filters!NoFilter
  BY DEF Filters!Reset, Filters!address
<1>5. CASE kind.syncs
  <2>1. /\ Filters!Act /\ Filters!UpdateQuery("query", Filters!NoFilter)
        /\ open' = FALSE /\ edited' = FALSE /\ box' = box
    BY <1>5 DEF Filters!Reset
  <2>2. /\ timers' \in Seq(Delayed) /\ acts' \in 0..FilterActs
        /\ wanted' = Filters!Over(Filters!NoFilter, wanted) /\ wanted' \in FilterOf
        /\ lost' \subseteq Filters!Keys
        /\ CallsInv' /\ MountsInv'
    BY <1>2, <1>3, <1>4, <2>1, UpdateQueryStep
  <2>3. wanted' = Filters!NoFilter
    BY <1>1, <1>2, <2>2, OverAll DEF FilterTypes
  <2>4. FilterTypes'
    BY <1>1, <1>2, <1>4, <2>1, <2>2 DEF FilterTypes
  <2>5. ControlsInv'
    BY <1>1, <1>3, <1>4, <2>1, <2>3 DEF ControlsInv
  <2> QED BY <2>2, <2>4, <2>5 DEF FiltersInv
<1>6. CASE ~kind.syncs
  <2>1. /\ box' = 0 /\ edited' = TRUE /\ UNCHANGED <<open, timers, wanted, lost>>
        /\ acts' = acts + 1 /\ acts < FilterActs
    BY <1>6 DEF Filters!Reset, Filters!Act
  <2>2. acts' \in 0..FilterActs
    BY <1>1, <2>1, PagesAssumption DEF FilterTypes
  <2>3. FilterTypes'
    <3>1. box' \in Filters!Values
      BY <2>1 DEF Filters!Values
    <3> QED BY <1>1, <1>2, <1>4, <2>1, <2>2, <3>1 DEF FilterTypes
  <2>4. CallsInv'
    BY <1>4, <2>1 DEF FiltersInv, CallsInv, BoxCalls, LaterBox, LastWord
  <2>5. MountsInv'
    <3>1. Len(timers) \in Nat /\ mount \in Nat /\ acts \in Nat
      BY <1>1 DEF FilterTypes
    <3> QED BY <1>4, <2>1, <3>1 DEF FiltersInv, MountsInv
  <2>6. ControlsInv'
    BY <1>1, <1>3, <1>4, <2>1 DEF ControlsInv
  <2> QED BY <2>3, <2>4, <2>5, <2>6 DEF FiltersInv
<1> QED BY <1>5, <1>6

(* The filters' calls and the boxes', cleared together: the box's is the   *)
(* later one.                                                              *)
LEMMA ClearAllStep ==
  ASSUME FiltersInv, Filters!ClearAll
  PROVE  FiltersInv'
<1> DEFINE q == Filters!Debounced(timers, "query", Filters!NoFilter)
           ch == Filters!One("text", 0)
           r == Filters!Debounced(q, "box", ch)
<1>1. FilterTypes /\ ControlsInv /\ BoxCalls(timers)
  BY DEF FiltersInv, CallsInv
<1>2. /\ Filters!NoFilter \in FilterOf /\ Filters!NoFilter \in Changes
      /\ DOMAIN Filters!NoFilter = Filters!Keys
      /\ \A x \in Filters!Keys : Filters!NoFilter[x] = 0
  BY ChangeTypes DEF Filters!NoFilter
<1>3. ch \in Changes /\ DOMAIN ch = {"text"} /\ ch["text"] = 0 /\ "text" \in Filters!Keys
  BY ChangeTypes DEF Filters!Keys, Filters!Values
<1>4. kind.box /\ kind.syncs = FALSE
  BY <1>1, KindsDiffer DEF Filters!ClearAll, FilterTypes
<1>5. /\ timers' = r /\ wanted' = Filters!NoFilter /\ lost' = {} /\ box' = 0
      /\ UNCHANGED <<kind, path, url, seen, mount, open, draft, price, edited>>
      /\ acts' = acts + 1 /\ acts < FilterActs
  BY DEF Filters!ClearAll, Filters!address, Filters!Act
<1> HIDE DEF ch, q
<1>6. /\ timers \in Seq(Delayed) /\ mount \in Nat /\ seen.path \in {"list", "other"}
      /\ acts \in 0..FilterActs
  BY <1>1 DEF FilterTypes
<1>7. /\ q \in Seq(Delayed) /\ Len(q) <= Len(timers) + 1 /\ BoxCalls(q)
      /\ \A k \in Filters!Keys : \A u : LastWord(q, k, 0, u)
  BY <1>1, <1>2, <1>6, DebouncedOf DEF q
<1> HIDE DEF r
<1>8. /\ r \in Seq(Delayed) /\ Len(r) <= Len(q) + 1 /\ BoxCalls(r) /\ LaterBox(r)
      /\ \A k, v, u : /\ LastWord(q, k, v, u) /\ k \notin Filters!Replaced(q, "box")
                      /\ k \notin DOMAIN ch
                      => LastWord(r, k, v, u)
      /\ \A k \in DOMAIN ch : \A u : LastWord(r, k, ch[k], u)
  BY <1>3, <1>4, <1>6, <1>7, DebouncedOf DEF r
<1>9. ASSUME NEW k \in Filters!Keys, k \in Filters!Replaced(q, "box")  PROVE k = "text"
  BY <1>7, <1>9 DEF BoxCalls, Filters!Replaced, Filters!Waiting
<1>10. CallsInv'
  <2>1. BoxCalls(timers)' /\ LaterBox(timers)'
    BY <1>5, <1>8 DEF BoxCalls, LaterBox
  <2>2. ASSUME NEW k \in Filters!Keys  PROVE LastWord(r, k, 0, url[k])
    <3>1. CASE k = "text"
      BY <1>3, <1>8, <3>1
    <3>2. CASE k # "text"
      BY <1>3, <1>7, <1>8, <1>9, <3>2
    <3> QED BY <3>1, <3>2
  <2>3. \A k \in Filters!Keys : LastWord(timers', k, wanted'[k], url'[k])
    BY <1>2, <1>5, <2>2
  <2> QED BY <2>1, <2>3 DEF CallsInv, LastWord
<1>11. MountsInv'
  <2>1. Len(r) \in Nat /\ Len(q) \in Nat /\ Len(timers) \in Nat /\ acts \in Nat
    BY <1>6, <1>7, <1>8
  <2>2. Len(r) <= Len(timers) + 2
    BY <1>7, <1>8, <2>1
  <2> QED BY <1>5, <1>6, <2>1, <2>2 DEF FiltersInv, MountsInv
<1>12. FilterTypes'
  <2>1. box' \in Filters!Values /\ acts' \in 0..FilterActs
    BY <1>5, <1>6, PagesAssumption DEF Filters!Values
  <2> QED BY <1>1, <1>2, <1>5, <1>8, <2>1 DEF FilterTypes
<1>13. ControlsInv'
  BY <1>1, <1>2, <1>3, <1>4, <1>5 DEF ControlsInv
<1> QED BY <1>10, <1>11, <1>12, <1>13 DEF FiltersInv

(* What neither writes nor navigates.                                      *)
LEMMA ControlStep ==
  ASSUME FiltersInv, UNCHANGED <<kind, path, url, seen, mount, timers, wanted, lost>>,
         acts' \in {acts, acts + 1}, acts' <= FilterActs
  PROVE  CallsInv' /\ MountsInv' /\ acts' \in 0..FilterActs
<1>1. /\ timers \in Seq(Delayed) /\ mount \in Nat /\ acts \in 0..FilterActs
      /\ FilterActs \in Nat
  BY PagesAssumption DEF FiltersInv, FilterTypes
<1>2. CallsInv'
  BY DEF FiltersInv, CallsInv, BoxCalls, LaterBox, LastWord
<1>3. acts' \in 0..FilterActs /\ acts <= acts'
  BY <1>1
<1>4. MountsInv'
  BY <1>1, <1>3 DEF FiltersInv, MountsInv
<1> QED BY <1>2, <1>3, <1>4

LEMMA DraftStep ==
  ASSUME FiltersInv, NEW k \in Filters!Keys, NEW v \in Filters!Values,
         Filters!Draft(k, v)
  PROVE  FiltersInv'
<1>1. FilterTypes /\ ControlsInv
  BY DEF FiltersInv
<1>2. /\ UNCHANGED <<kind, path, url, seen, mount, timers, wanted, lost, open, box, price>>
      /\ draft' = [draft EXCEPT ![k] = v] /\ edited' = TRUE
      /\ acts' = acts + 1 /\ acts < FilterActs
  BY DEF Filters!Draft, Filters!address, Filters!Act
<1>3. CallsInv' /\ MountsInv' /\ acts' \in 0..FilterActs
  <2>1. acts \in Int /\ FilterActs \in Int
    BY <1>1, PagesAssumption DEF FilterTypes
  <2> QED BY <1>2, <2>1, ControlStep
<1>4. FilterTypes'
  <2>1. draft' \in FilterOf
    BY <1>1, <1>2 DEF FilterTypes, FilterOf
  <2> QED BY <1>1, <1>2, <1>3, <2>1 DEF FilterTypes
<1>5. ControlsInv'
  BY <1>1, <1>2 DEF ControlsInv
<1> QED BY <1>3, <1>4, <1>5 DEF FiltersInv

LEMMA TypePriceStep ==
  ASSUME FiltersInv, NEW v \in Filters!Values, Filters!TypePrice(v)
  PROVE  FiltersInv'
<1>1. FilterTypes /\ ControlsInv
  BY DEF FiltersInv
<1>2. /\ UNCHANGED <<kind, path, url, seen, mount, timers, wanted, lost, open, draft>>
      /\ box' = v /\ price' = v /\ edited' = TRUE /\ kind.price
      /\ acts' = acts + 1 /\ acts < FilterActs
  BY DEF Filters!TypePrice, Filters!address, Filters!Act
<1>3. CallsInv' /\ MountsInv' /\ acts' \in 0..FilterActs
  <2>1. acts \in Int /\ FilterActs \in Int
    BY <1>1, PagesAssumption DEF FilterTypes
  <2> QED BY <1>2, <2>1, ControlStep
<1>4. FilterTypes'
  BY <1>1, <1>2, <1>3 DEF FilterTypes
<1>5. ~kind.box
  BY <1>1, <1>2, KindsDiffer DEF FilterTypes
<1>6. ControlsInv'
  BY <1>1, <1>2, <1>5 DEF ControlsInv
<1> QED BY <1>3, <1>4, <1>6 DEF FiltersInv

LEMMA NormalizeStep ==
  ASSUME FiltersInv, Filters!Normalize
  PROVE  FiltersInv'
<1>1. FilterTypes /\ ControlsInv
  BY DEF FiltersInv
<1>2. kind.price /\ ~kind.box /\ ~kind.syncs
  BY <1>1, KindsDiffer DEF Filters!Normalize, FilterTypes, ControlsInv
<1>3. /\ UNCHANGED <<kind, path, url, seen, mount, timers, wanted, lost, open, acts>>
      /\ price \in Filters!Values /\ box' = price /\ price' = None
      /\ draft' = [draft EXCEPT !["two"] = price]
      /\ edited' = (edited \/ box # price)
  BY <1>1 DEF Filters!Normalize, Filters!address, FilterTypes
<1>4. CallsInv' /\ MountsInv' /\ acts' \in 0..FilterActs
  <2>1. acts \in 0..FilterActs /\ FilterActs \in Nat
    BY <1>1, PagesAssumption DEF FilterTypes
  <2> QED BY <1>3, <2>1, ControlStep
<1>5. FilterTypes'
  <2>1. draft' \in FilterOf /\ edited' \in BOOLEAN
    BY <1>1, <1>3 DEF FilterTypes, FilterOf
  <2> QED BY <1>1, <1>3, <1>4, <2>1 DEF FilterTypes
<1>6. ControlsInv'
  BY <1>1, <1>2, <1>3 DEF ControlsInv
<1> QED BY <1>4, <1>5, <1>6 DEF FiltersInv

LEMMA SheetStep ==
  ASSUME FiltersInv, Filters!Cancel \/ Filters!CloseSheet \/ Filters!OpenSheet
  PROVE  FiltersInv'
<1>1. FilterTypes /\ ControlsInv /\ seen.url \in FilterOf /\ "two" \in Filters!Keys
  BY DEF FiltersInv, FilterTypes, Filters!Keys
<1>2. /\ UNCHANGED <<kind, path, url, seen, mount, timers, wanted, lost>>
      /\ open' \in BOOLEAN
      /\ \/ UNCHANGED <<draft, box, edited, price>>
         \/ /\ draft' = seen.url /\ edited' = FALSE
            /\ \/ UNCHANGED <<box, price>>
               \/ kind.fresh /\ box' = seen.url["two"] /\ price' = None
  BY <1>1 DEF Filters!Cancel, Filters!CloseSheet, Filters!OpenSheet, Filters!address
<1>3. acts' \in {acts, acts + 1} /\ acts' <= FilterActs
  <2>1. acts \in 0..FilterActs /\ FilterActs \in Nat
    BY <1>1, PagesAssumption DEF FilterTypes
  <2> QED BY <2>1 DEF Filters!Cancel, Filters!CloseSheet, Filters!OpenSheet, Filters!Act
<1>4. CallsInv' /\ MountsInv' /\ acts' \in 0..FilterActs
  BY <1>2, <1>3, ControlStep
<1>5. FilterTypes'
  <2>1. seen.url["two"] \in Filters!Values
    BY <1>1 DEF FilterOf
  <2>2. box' \in Filters!Values /\ price' \in Filters!Values \union {None}
        /\ draft' \in FilterOf /\ edited' \in BOOLEAN
    BY <1>1, <1>2, <2>1 DEF FilterTypes
  <2> QED BY <1>1, <1>2, <1>4, <2>2 DEF FilterTypes
<1>6. ~(kind.fresh /\ kind.box)
  BY <1>1, KindsDiffer DEF FilterTypes
<1>7. ControlsInv'
  BY <1>1, <1>2, <1>6 DEF ControlsInv
<1> QED BY <1>4, <1>5, <1>7 DEF FiltersInv

LEMMA FollowStep ==
  ASSUME FiltersInv, NEW p \in {"list", "other"}, NEW f \in FilterOf,
         Filters!Follow(p, f)
  PROVE  FiltersInv'
<1>1. FilterTypes /\ ControlsInv
  BY DEF FiltersInv
<1>2. /\ UNCHANGED <<kind, seen, mount, timers, open, draft, box, price, edited>>
      /\ path' = p /\ url' = f /\ wanted' = f
      /\ lost' = lost \union {k \in Filters!Keys : url[k] # seen.url[k]} \union
                 UNION {DOMAIN timers[i].data : i \in 1..Len(timers)}
      /\ acts' = acts + 1 /\ acts < FilterActs
  BY DEF Filters!Follow, Filters!controls, Filters!Act
<1>3. ASSUME NEW i \in 1..Len(timers)
      PROVE  DOMAIN timers[i].data \subseteq Filters!Keys
  <2>1. timers \in Seq(Delayed)
    BY <1>1 DEF FilterTypes
  <2>2. timers[i] \in Delayed
    BY <2>1
  <2>3. timers[i].data \in Changes
    BY <2>2 DEF Delayed
  <2> QED BY <2>3, ChangeTypes
<1>4. lost' \subseteq Filters!Keys
  BY <1>1, <1>2, <1>3 DEF FilterTypes
<1>5. ASSUME NEW k \in Filters!Keys \ lost'
      PROVE  /\ k \notin lost /\ url[k] = seen.url[k] /\ wanted[k] = url[k]
             /\ \A i \in 1..Len(timers) : k \notin DOMAIN timers[i].data
  <2>1. /\ k \notin lost /\ url[k] = seen.url[k]
        /\ \A i \in 1..Len(timers) : k \notin DOMAIN timers[i].data
    BY <1>2
  <2>2. LastWord(timers, k, wanted[k], url[k])
    BY <2>1 DEF FiltersInv, CallsInv
  <2> QED BY <2>1, <2>2 DEF LastWord
<1>6. CallsInv'
  <2>1. BoxCalls(timers)' /\ LaterBox(timers)'
    BY <1>2 DEF FiltersInv, CallsInv, BoxCalls, LaterBox
  <2>2. \A k \in Filters!Keys \ lost' : LastWord(timers', k, wanted'[k], url'[k])
    BY <1>2, <1>5 DEF LastWord
  <2> QED BY <2>1, <2>2 DEF CallsInv, LastWord
<1>7. MountsInv'
  <2>1. Len(timers) \in Nat /\ mount \in Nat /\ acts \in Nat
    BY <1>1 DEF FilterTypes
  <2> QED BY <1>2, <2>1 DEF FiltersInv, MountsInv
<1>8. FilterTypes'
  <2>1. acts' \in 0..FilterActs
    BY <1>1, <1>2, PagesAssumption DEF FilterTypes
  <2> QED BY <1>1, <1>2, <1>4, <2>1 DEF FilterTypes
<1>9. ControlsInv'
  <2>1. kind.box /\ "text" \notin lost' => box \in {wanted'["text"], seen.url["text"]}
    <3>1. "text" \in Filters!Keys
      BY DEF Filters!Keys
    <3> QED BY <1>1, <1>5, <3>1 DEF ControlsInv
  <2>2. ASSUME kind.syncs, ~edited, lost' = {}
        PROVE  draft = seen.url
    <3>1. lost = {}
      BY <1>2, <2>2
    <3>2. wanted = seen.url
      <4>1. wanted \in FilterOf /\ seen.url \in FilterOf
        BY <1>1 DEF FilterTypes
      <4>2. \A k \in Filters!Keys : wanted[k] = seen.url[k]
        BY <1>5, <2>2
      <4> QED BY <4>1, <4>2 DEF FilterOf
    <3> QED BY <1>1, <2>2, <3>1, <3>2 DEF ControlsInv
  <2> QED BY <1>1, <1>2, <2>1, <2>2 DEF ControlsInv
<1> QED BY <1>6, <1>7, <1>8, <1>9 DEF FiltersInv

LEMMA FireStep ==
  ASSUME FiltersInv, NEW i \in 1..Len(timers), Filters!Fire(i)
  PROVE  FiltersInv'
<1> DEFINE r == RemoveAt(timers, i)
<1>1. /\ FilterTypes /\ ControlsInv /\ timers \in Seq(Delayed) /\ url \in FilterOf
      /\ BoxCalls(timers) /\ LaterBox(timers)
  BY DEF FiltersInv, FilterTypes, CallsInv
<1>2. /\ UNCHANGED <<kind, seen, mount, open, draft, box, price, edited, wanted, lost, acts>>
      /\ path' = timers[i].path /\ url' = Filters!Over(timers[i].data, url)
      /\ timers' = r
      /\ \A j \in 1..i - 1 : timers[j].hook = "box" /\ timers[i].hook = "query"
  BY DEF Filters!Fire, Filters!controls, Filters!Due, Filters!RemoveAt, RemoveAt
<1>3. path' \in {"list", "other"} /\ url' \in FilterOf
  <2>1. timers[i] \in Delayed
    BY <1>1
  <2>2. timers[i].path \in {"list", "other"} /\ timers[i].data \in Changes
    BY <2>1 DEF Delayed
  <2> QED BY <1>1, <1>2, <2>2, ChangeTypes
<1>4. Shortened(timers, i, r) /\ r \in Seq(Delayed) /\ Len(r) = Len(timers) - 1
  <2>1. Shortened(timers, i, r)
    BY <1>1, RemovedKeepsOrder
  <2> HIDE DEF r
  <2> QED BY <2>1 DEF Shortened
<1>5. i = 1 \/ timers[i].hook = "query"
  <2>1. i # 1 => 1 \in 1..i - 1
    OBVIOUS
  <2> QED BY <1>2, <2>1
<1> HIDE DEF r
<1>6. CallsInv'
  <2>1. LaterBox(r)
    BY <1>1, <1>4, <1>5, LaterBoxOfOthers
  <2>2. BoxCalls(r)
    BY <1>1, <1>4 DEF BoxCalls, Shortened
  <2>3. ASSUME NEW k \in Filters!Keys \ lost
        PROVE  LastWord(r, k, wanted[k], url'[k])
    <3>1. LastWord(timers, k, wanted[k], url[k])
      BY DEF FiltersInv, CallsInv
    <3> QED BY <1>1, <1>2, <3>1, FiredOf DEF r
  <2> QED BY <1>2, <2>1, <2>2, <2>3 DEF CallsInv, LastWord, BoxCalls, LaterBox
<1>7. MountsInv'
  <2>1. Len(timers) \in Nat /\ mount \in Nat /\ acts \in Nat
    BY <1>1 DEF FilterTypes
  <2> QED BY <1>2, <1>4, <2>1 DEF FiltersInv, MountsInv
<1>8. FilterTypes'
  BY <1>1, <1>2, <1>3, <1>4 DEF FilterTypes
<1>9. ControlsInv'
  BY <1>1, <1>2 DEF ControlsInv
<1> QED BY <1>6, <1>7, <1>8, <1>9 DEF FiltersInv

LEMMA RenderStep ==
  ASSUME FiltersInv, Filters!Render
  PROVE  FiltersInv'
<1>1. /\ FilterTypes /\ ControlsInv /\ url \in FilterOf
      /\ {"text", "two"} \subseteq Filters!Keys
  BY DEF FiltersInv, FilterTypes, Filters!Keys
<1>2. /\ UNCHANGED <<kind, path, url, timers, wanted, lost, acts>>
      /\ seen' = [path |-> path, url |-> url]
      /\ mount' = mount + (IF path # seen.path THEN 1 ELSE 0)
  BY DEF Filters!Render, Filters!Here
<1>3. \A k \in Filters!Keys : url[k] \in Filters!Values
  BY <1>1 DEF FilterOf
<1>4. /\ open' \in BOOLEAN /\ edited' \in BOOLEAN /\ draft' \in FilterOf
      /\ box' \in Filters!Values
      /\ price' = None \/ price' = price
  <2>1. CASE path # seen.path /\ ~kind.syncs
    BY <1>1, <1>3, <2>1, KindsDiffer DEF Filters!Render, FilterTypes
  <2>2. CASE ~(path # seen.path /\ ~kind.syncs)
    BY <1>1, <1>3, <2>2, KindsDiffer DEF Filters!Render, FilterTypes
  <2> QED BY <2>1, <2>2
<1>5. CallsInv'
  BY <1>2 DEF FiltersInv, CallsInv, BoxCalls, LaterBox, LastWord
<1>6. MountsInv'
  <2>1. Len(timers) \in Nat /\ mount \in Nat /\ acts \in Nat
    BY <1>1 DEF FilterTypes
  <2> QED BY <1>2, <2>1 DEF FiltersInv, MountsInv
<1>7. FilterTypes'
  <2>1. mount' \in Nat
    BY <1>1, <1>2 DEF FilterTypes
  <2> QED BY <1>1, <1>2, <1>4, <2>1 DEF FilterTypes
<1>8. ControlsInv'
  <2>1. ASSUME kind.box, "text" \notin lost
        PROVE  box' \in {wanted["text"], url["text"]}
    <3>1. ~kind.price
      BY <1>1, <2>1, KindsDiffer DEF FilterTypes
    <3> QED BY <1>1, <2>1, <3>1 DEF Filters!Render, ControlsInv
  <2>2. ASSUME kind.syncs, ~edited', lost = {}
        PROVE  draft' \in {wanted, url}
    BY <1>1, <2>2 DEF Filters!Render, ControlsInv
  <2> QED BY <1>1, <1>2, <1>4, <2>1, <2>2 DEF ControlsInv
<1> QED BY <1>5, <1>6, <1>7, <1>8 DEF FiltersInv

LEMMA FiltersNext ==
  ASSUME FiltersInv, Filters!Next
  PROVE  FiltersInv'
<1>1. ASSUME NEW k \in Filters!Keys, NEW v \in Filters!Values,
             Filters!Choose(k, v) \/ Filters!Pick(k, v)
      PROVE  FiltersInv'
  BY <1>1, DraftStep, PickStep DEF Filters!Choose
<1>2. ASSUME NEW v \in Filters!Values,
             Filters!Tick(v) \/ Filters!TypeText(v) \/ Filters!TypePrice(v)
      PROVE  FiltersInv'
  <2>1. "one" \in Filters!Keys
    BY DEF Filters!Keys
  <2> QED BY <1>2, <2>1, DraftStep, TypeTextStep, TypePriceStep DEF Filters!Tick
<1>3. ASSUME \/ Filters!Normalize \/ Filters!Apply \/ Filters!Reset \/ Filters!ClearAll
             \/ Filters!Cancel \/ Filters!CloseSheet \/ Filters!OpenSheet
      PROVE  FiltersInv'
  BY <1>3, NormalizeStep, ApplyStep, ResetStep, ClearAllStep, SheetStep
<1>4. ASSUME NEW p \in {"list", "other"},
             NEW f \in {Filters!NoFilter,
                        Filters!Over(Filters!One("two", 1), Filters!NoFilter)},
             Filters!Follow(p, f)
      PROVE  FiltersInv'
  <2>1. "two" \in Filters!Keys /\ 1 \in Filters!Values
    BY DEF Filters!Keys, Filters!Values
  <2>2. /\ Filters!NoFilter \in FilterOf /\ Filters!One("two", 1) \in Changes
        /\ \A c \in Changes, g \in FilterOf : Filters!Over(c, g) \in FilterOf
    BY <2>1, ChangeTypes
  <2>3. f \in FilterOf
    BY <2>2
  <2> QED BY <1>4, <2>3, FollowStep
<1>5. ASSUME NEW i \in 1..Len(timers), Filters!Fire(i)
      PROVE  FiltersInv'
  BY <1>5, FireStep
<1> QED BY <1>1, <1>2, <1>3, <1>4, <1>5, RenderStep DEF Filters!Next

LEMMA FiltersStay ==
  ASSUME part = "filters", FiltersInv, [Next]_vars
  PROVE  FiltersInv'
<1>1. CASE Filters!Next
  BY <1>1, FiltersNext
<1>2. CASE UNCHANGED vars
  BY <1>2 DEF vars, OfFilters, FiltersInv, FilterTypes, CallsInv, MountsInv, ControlsInv,
              BoxCalls, LaterBox, LastWord
<1> QED BY <1>1, <1>2, OnePart

LEMMA FiltersAlways == Spec => [](part = "filters" => FiltersInv)
<1>1. Init => (part = "filters" => FiltersInv)
  BY FiltersInit DEF Init
<1>2. (part = "filters" => FiltersInv) /\ [Next]_vars => (part = "filters" => FiltersInv)'
  BY FiltersStay, OnePart
<1> QED BY <1>1, <1>2, PTL DEF Spec

(* useUpdateQuery.ts:15-33, debounce.ts: whatever is chosen, typed, cleared, *)
(* followed or rendered, and in whatever order the delays end, what was last *)
(* chosen for a key is in the address or is the last that will be written.   *)
THEOREM ChoicesArrive == Spec => []ChoicesAreOnTheirWay
<1>1. (part = "filters" => FiltersInv) => ChoicesAreOnTheirWay
  <2> SUFFICES ASSUME FiltersInv, NEW k \in Filters!Keys \ lost
               PROVE  LET holders == {i \in 1..Len(timers) : k \in DOMAIN timers[i].data}
                      IN wanted[k] =
                           IF holders = {} THEN url[k]
                           ELSE timers[CHOOSE i \in holders :
                                         \A j \in holders : j <= i].data[k]
    BY DEF ChoicesAreOnTheirWay, Filters!ChoicesAreOnTheirWay
  <2>1. timers \in Seq(Delayed) /\ LastWord(timers, k, wanted[k], url[k])
    BY DEF FiltersInv, FilterTypes, CallsInv
  <2> QED BY <2>1, LastWordIsDecided
<1> QED BY <1>1, FiltersAlways, PTL

(* filter-sidebar-logic.tsx:117-122, order-filters.tsx: when nothing is on   *)
(* its way, the search box shows the search of the address, and a draft that *)
(* was not changed the filters.                                              *)
THEOREM ControlsFollow == Spec => []ControlsShowAddress
<1>1. (part = "filters" => FiltersInv) => ControlsShowAddress
  <2> SUFFICES ASSUME FiltersInv, timers = <<>>, seen = Filters!Here, lost = {}
               PROVE  /\ kind.box => box = url["text"]
                      /\ kind.syncs /\ kind.drafts /\ ~edited => draft = url
    BY DEF ControlsShowAddress, Filters!ControlsShowAddress
  <2>1. FilterTypes /\ ControlsInv /\ "text" \in Filters!Keys
    BY DEF FiltersInv, Filters!Keys
  <2>2. seen.url = url
    BY DEF Filters!Here
  <2>3. ASSUME NEW k \in Filters!Keys  PROVE wanted[k] = url[k]
    <3>1. LastWord(timers, k, wanted[k], url[k])
      BY DEF FiltersInv, CallsInv
    <3> QED BY <3>1 DEF LastWord
  <2>4. wanted = url
    BY <2>1, <2>3 DEF FilterTypes, FilterOf
  <2> QED BY <2>1, <2>2, <2>4 DEF ControlsInv
<1> QED BY <1>1, FiltersAlways, PTL

LEMMA FiltersTypeOK ==
  ASSUME FiltersInv
  PROVE  Filters!TypeOK
<1>1. FilterTypes /\ MountsInv
  BY DEF FiltersInv
<1>2. mount \in 0..FilterActs + FilterActs
  <2>1. Len(timers) \in Nat /\ mount \in Nat /\ acts \in 0..FilterActs /\ FilterActs \in Nat
    BY <1>1, PagesAssumption DEF FilterTypes
  <2> QED BY <1>1, <2>1 DEF MountsInv
<1>3. ASSUME NEW i \in 1..Len(timers)
      PROVE  timers[i].data \in [DOMAIN timers[i].data -> Filters!Values]
  <2>1. timers \in Seq(Delayed)
    BY <1>1 DEF FilterTypes
  <2>2. timers[i] \in Delayed
    BY <2>1
  <2>3. timers[i].data \in Changes
    BY <2>2 DEF Delayed
  <2> QED BY <2>3 DEF Changes
<1> QED BY <1>1, <1>2, <1>3 DEF Filters!TypeOK, FilterTypes, FilterOf

-----------------------------------------------------------------------------
(* The product's page.                                                     *)

(* variants.find finds one that qualifies, when there is one. *)
LEMMA FoundOf ==
  ASSUME NEW p \in DOMAIN Products, NEW hits, hits \subseteq DOMAIN Products[p]
  PROVE  /\ hits = {} => Product!Found(p, hits) = None
         /\ hits # {} => \E i \in hits : Product!Found(p, hits) = Products[p][i].id
<1>1. DOMAIN Products[p] \subseteq Nat
  BY ProductsAssumption
<1>2. ASSUME hits # {}
      PROVE  \E i \in hits : Product!Found(p, hits) = Products[p][i].id
  <2>1. \E x \in hits : \A y \in hits : x <= y
    BY <1>1, <1>2, SmallestOf
  <2>2. Product!Min(hits) \in hits
    BY <2>1 DEF Product!Min
  <2> QED BY <1>2, <2>2 DEF Product!Found
<1> QED BY <1>2 DEF Product!Found

LEMMA VariantsOf ==
  ASSUME NEW p \in DOMAIN Products
  PROVE  /\ Product!ToSet(Products[p]) = {Products[p][i] : i \in DOMAIN Products[p]}
         /\ \A i \in DOMAIN Products[p] : Products[p][i].id \in Product!Ids
         /\ 1 \in DOMAIN Products[p]
         /\ Product!Of(p) \subseteq Product!Ids
<1>1. /\ DOMAIN Products[p] = 1..Len(Products[p]) /\ Len(Products[p]) \in Nat
      /\ Len(Products[p]) # 0
  BY ProductsAssumption
<1>2. 1 \in DOMAIN Products[p]
  BY <1>1
<1>3. Product!ToSet(Products[p]) = {Products[p][i] : i \in DOMAIN Products[p]}
  BY DEF Product!ToSet
<1>4. Product!Of(p) \subseteq Product!Ids
  BY DEF Product!Of, Product!Ids
<1>5. ASSUME NEW i \in DOMAIN Products[p]
      PROVE  Products[p][i].id \in Product!Ids
  BY <1>3, <1>4 DEF Product!Of
<1> QED BY <1>2, <1>3, <1>4, <1>5

LEMMA MatchOf ==
  ASSUME NEW p \in DOMAIN Products, NEW copy, NEW chosen
  PROVE  /\ Product!FirstInStock(copy, p) \in Product!Ids \union {None}
         /\ Product!Match(p, copy, chosen) \in Product!Ids \union {None}
<1>1. Product!FirstInStock(copy, p) \in Product!Ids \union {None}
  <2> DEFINE hits == {i \in DOMAIN Products[p] : Product!InStock(copy, Products[p][i])}
  <2>1. \/ Product!Found(p, hits) = None
        \/ \E i \in hits : Product!Found(p, hits) = Products[p][i].id
    BY FoundOf
  <2> QED BY <2>1, VariantsOf DEF Product!FirstInStock
<1>2. Product!Match(p, copy, chosen) \in Product!Ids \union {None}
  <2> DEFINE hits == {i \in DOMAIN Products[p] :
                        Product!OptionsOf(Products[p][i]) = chosen}
  <2>1. \/ Product!Found(p, hits) = None
        \/ \E i \in hits : Product!Found(p, hits) = Products[p][i].id
    BY FoundOf
  <2> QED BY <1>1, <2>1, VariantsOf DEF Product!Match
<1> QED BY <1>1, <1>2

(* The values there are of an option. *)
Offered(e) == {None} \union
  UNION {{v[e] : v \in Product!ToSet(Products[p])} : p \in DOMAIN Products}

ProductTypes ==
  /\ stock \in [Product!Ids -> 0..MaxStock] /\ data \in [Product!Ids -> 0..MaxStock]
  /\ page \in DOMAIN Products
  /\ picked \in Product!Ids \union {None} /\ button \in Product!Ids \union {None}
  /\ choice = [e \in Product!Dims |-> choice[e]]
  /\ \A e \in Product!Dims : choice[e] \in Offered(e)
  /\ quantity \in 1..MaxQuantity /\ acts \in 0..ProductActs
  /\ cart \in [Product!Ids -> [quantity : 0..MaxStock, inventory : 0..MaxStock]]
  /\ undo = None \/ undo \in [id : Product!Ids, inventory : 1..MaxStock]

LEMMA FirstOf ==
  ASSUME NEW p \in DOMAIN Products
  PROVE  /\ Product!First(p) = [e \in Product!Dims |-> Product!First(p)[e]]
         /\ \A e \in Product!Dims : Product!First(p)[e] \in Offered(e)
<1>1. Products[p][1] \in Product!ToSet(Products[p])
  BY VariantsOf
<1>2. \A e \in Product!Dims : Products[p][1][e] \in Offered(e)
  BY <1>1 DEF Offered
<1> QED BY <1>2 DEF Product!First, Product!OptionsOf

LEMMA ProductInit ==
  ASSUME Product!Init
  PROVE  ProductTypes
<1>1. /\ 1 \in DOMAIN Products /\ Stocks \subseteq [Product!Ids -> 0..MaxStock]
      /\ ProductActs \in Nat /\ MaxStock \in Nat \ {0} /\ MaxQuantity \in Nat \ {0}
  BY ProductsAssumption, PagesAssumption
<1>2. /\ stock \in [Product!Ids -> 0..MaxStock] /\ data = stock /\ page = 1
      /\ quantity = 1 /\ acts = 0 /\ undo = None /\ button = picked
  BY <1>1 DEF Product!Init
<1>3. picked \in Product!Ids \union {None}
  BY <1>1, MatchOf DEF Product!Init
<1>4. cart \in [Product!Ids -> [quantity : 0..MaxStock, inventory : 0..MaxStock]]
  BY <1>1 DEF Product!Init, Product!Empty
<1>5. /\ choice = [e \in Product!Dims |-> choice[e]]
      /\ \A e \in Product!Dims : choice[e] \in Offered(e)
  BY <1>1, FirstOf DEF Product!Init
<1> QED BY <1>1, <1>2, <1>3, <1>4, <1>5 DEF ProductTypes

LEMMA ProductActs1 ==
  ASSUME ProductTypes, Product!Act
  PROVE  acts' \in 0..ProductActs
BY PagesAssumption DEF ProductTypes, Product!Act

LEMMA ToggleStep ==
  ASSUME ProductTypes, NEW d \in Product!Dims,
         NEW v \in Product!ToSet(Products[page]), Product!Toggle(d, v[d])
  PROVE  ProductTypes'
<1>1. /\ UNCHANGED <<stock, data, page, quantity, button, cart, undo>>
      /\ choice' = [choice EXCEPT ![d] = IF @ = v[d] THEN None ELSE v[d]]
      /\ picked' = Product!Match(page, data, choice')
  BY DEF Product!Toggle
<1>2. acts' \in 0..ProductActs
  BY ProductActs1 DEF Product!Toggle
<1>3. picked' \in Product!Ids \union {None}
  BY <1>1, MatchOf DEF ProductTypes
<1>4. v[d] \in Offered(d) /\ None \in Offered(d)
  BY DEF Offered, ProductTypes
<1>5. /\ choice' = [e \in Product!Dims |-> choice'[e]]
      /\ \A e \in Product!Dims : choice'[e] \in Offered(e)
  BY <1>1, <1>4 DEF ProductTypes
<1> QED BY <1>1, <1>2, <1>3, <1>5 DEF ProductTypes

(* What the server answers: no more than there is. *)
LEMMA AddStep ==
  ASSUME ProductTypes, NEW v, NEW n \in {1}, Product!Add(v, n)
  PROVE  cart' \in [Product!Ids -> [quantity : 0..MaxStock, inventory : 0..MaxStock]]
<1> DEFINE m == cart[v].quantity + n
<1>1. cart' = IF m > stock[v] THEN cart
              ELSE [cart EXCEPT ![v] = [quantity |-> m, inventory |-> stock[v]]]
  BY DEF Product!Add, Product!Put
<1>2. cart \in [Product!Ids -> [quantity : 0..MaxStock, inventory : 0..MaxStock]]
      /\ MaxStock \in Nat
  BY PagesAssumption DEF ProductTypes
<1>3. CASE v \notin Product!Ids
  BY <1>1, <1>2, <1>3
<1>4. CASE v \in Product!Ids
  <2>1. stock[v] \in 0..MaxStock /\ cart[v].quantity \in 0..MaxStock
    BY <1>2, <1>4 DEF ProductTypes
  <2>2. m > stock[v] \/ m \in 0..MaxStock
    BY <1>2, <2>1
  <2> HIDE DEF m
  <2> QED BY <1>1, <1>2, <1>4, <2>1, <2>2
<1> QED BY <1>3, <1>4

LEMMA CartStep ==
  ASSUME ProductTypes,
         Product!AddToCart \/ \E p \in DOMAIN Products : Product!AddFromCard(p)
  PROVE  ProductTypes'
<1>1. UNCHANGED <<stock, data, page, choice, picked, quantity, button, undo>>
  BY DEF Product!AddToCart, Product!AddFromCard, Product!hooks
<1>2. acts' \in 0..ProductActs
  BY ProductActs1 DEF Product!AddToCart, Product!AddFromCard
<1>3. \E v : Product!Add(v, 1)
  BY DEF Product!AddToCart, Product!AddFromCard
<1>4. cart' \in [Product!Ids -> [quantity : 0..MaxStock, inventory : 0..MaxStock]]
  BY <1>3, AddStep
<1> QED BY <1>1, <1>2, <1>4 DEF ProductTypes

LEMMA RefreshedOf ==
  ASSUME ProductTypes, NEW p \in DOMAIN Products
  PROVE  Product!Refreshed(p) \in [Product!Ids -> 0..MaxStock]
BY DEF ProductTypes, Product!Refreshed

(* The page is loaded, or its copies are refreshed. *)
LEMMA LoadStep ==
  ASSUME ProductTypes,
         \/ Product!Reload \/ Product!NoticeEnds
         \/ \E p \in DOMAIN Products : Product!Follow(p) \/ Product!Refresh(p)
  PROVE  ProductTypes'
<1>1. CASE Product!Reload \/ Product!NoticeEnds
  <2>1. /\ UNCHANGED <<stock, page, cart>> /\ data' = stock /\ undo' = None
        /\ choice' = Product!First(page)
        /\ picked' = Product!Match(page, data', Product!First(page))
        /\ quantity' = 1 /\ button' = picked' /\ Product!Act
    BY <1>1 DEF Product!Reload, Product!NoticeEnds, Product!Mount
  <2>2. acts' \in 0..ProductActs
    BY <2>1, ProductActs1
  <2>3. page \in DOMAIN Products /\ 1 \in 1..MaxQuantity
    BY PagesAssumption DEF ProductTypes
  <2>4. picked' \in Product!Ids \union {None}
    BY <2>1, <2>3, MatchOf
  <2>5. /\ choice' = [e \in Product!Dims |-> choice'[e]]
        /\ \A e \in Product!Dims : choice'[e] \in Offered(e)
    BY <2>1, <2>3, FirstOf
  <2> QED BY <2>1, <2>2, <2>3, <2>4, <2>5 DEF ProductTypes
<1>2. ASSUME NEW p \in DOMAIN Products, Product!Follow(p) \/ Product!Refresh(p)
      PROVE  ProductTypes'
  <2>1. /\ UNCHANGED <<stock, choice, picked, quantity, button, cart, undo>>
        /\ data' = Product!Refreshed(p) /\ page' \in {page, p}
        /\ Product!Act \/ acts' = acts
    BY <1>2 DEF Product!Follow, Product!Refresh, Product!hooks
  <2>2. acts' \in 0..ProductActs
    BY <2>1, ProductActs1 DEF ProductTypes
  <2>3. data' \in [Product!Ids -> 0..MaxStock]
    BY <2>1, RefreshedOf
  <2> QED BY <2>1, <2>2, <2>3 DEF ProductTypes
<1> QED BY <1>1, <1>2

LEMMA StockStep ==
  ASSUME ProductTypes,
         \/ Product!Undo
         \/ \E v \in Product!Ids : \/ Product!MarkOutOfStock(v)
                                   \/ \E n \in 0..MaxStock : Product!Elsewhere(v, n)
  PROVE  ProductTypes'
<1>1. UNCHANGED <<data, page, choice, picked, quantity, button, cart>>
  BY DEF Product!Undo, Product!MarkOutOfStock, Product!Elsewhere, Product!hooks
<1>2. acts' \in 0..ProductActs
  BY ProductActs1
     DEF Product!Undo, Product!MarkOutOfStock, Product!Elsewhere, ProductTypes
<1>3. MaxStock \in Nat /\ 0 \in 0..MaxStock
  BY PagesAssumption
<1>4. stock' \in [Product!Ids -> 0..MaxStock]
  <2>1. CASE Product!Undo
    <3>1. undo.inventory \in 0..MaxStock
      BY <1>3, <2>1 DEF Product!Undo, ProductTypes
    <3> QED BY <2>1, <3>1 DEF Product!Undo, ProductTypes
  <2>2. CASE ~Product!Undo
    BY <1>3, <2>2 DEF Product!MarkOutOfStock, Product!Elsewhere, ProductTypes
  <2> QED BY <2>1, <2>2
<1>5. undo' = None \/ undo' \in [id : Product!Ids, inventory : 1..MaxStock]
  <2>1. ASSUME NEW v \in Product!Ids, Product!MarkOutOfStock(v)
        PROVE  undo' \in [id : Product!Ids, inventory : 1..MaxStock]
    <3>1. data[v] \in 0..MaxStock /\ data[v] > 0
      BY <2>1 DEF Product!MarkOutOfStock, ProductTypes
    <3>2. data[v] \in 1..MaxStock
      BY <1>3, <3>1
    <3> QED BY <2>1, <3>2 DEF Product!MarkOutOfStock
  <2>2. CASE Product!Undo \/ \E v \in Product!Ids :
                               \E n \in 0..MaxStock : Product!Elsewhere(v, n)
    BY <2>2 DEF Product!Undo, Product!Elsewhere, ProductTypes
  <2> QED BY <2>1, <2>2
<1> QED BY <1>1, <1>2, <1>4, <1>5 DEF ProductTypes

LEMMA ProductNext ==
  ASSUME ProductTypes, Product!Next
  PROVE  ProductTypes'
<1>1. ASSUME NEW d \in Product!Dims, NEW v \in Product!ToSet(Products[page]),
             Product!Toggle(d, v[d])
      PROVE  ProductTypes'
  BY <1>1, ToggleStep
<1>2. ASSUME NEW n \in 1..MaxQuantity, Product!ChangeQuantity(n)
      PROVE  ProductTypes'
  <2>1. acts' \in 0..ProductActs
    BY <1>2, ProductActs1 DEF Product!ChangeQuantity
  <2> QED BY <1>2, <2>1 DEF ProductTypes, Product!ChangeQuantity
<1> QED BY <1>1, <1>2, CartStep, LoadStep, StockStep DEF Product!Next

LEMMA ProductStays ==
  ASSUME part = "product", ProductTypes, [Next]_vars
  PROVE  ProductTypes'
<1>1. CASE Product!Next
  BY <1>1, ProductNext
<1>2. CASE UNCHANGED vars
  BY <1>2 DEF vars, OfProduct, ProductTypes
<1> QED BY <1>1, <1>2, OnePart

LEMMA ProductAlways == Spec => [](part = "product" => ProductTypes)
<1>1. Init => (part = "product" => ProductTypes)
  BY ProductInit DEF Init
<1>2. (part = "product" => ProductTypes) /\ [Next]_vars => (part = "product" => ProductTypes)'
  BY ProductStays, OnePart
<1> QED BY <1>1, <1>2, PTL DEF Spec

(* The variant that is selected has the options that are chosen; the one     *)
(* that made the option available has them too, where neither leaves one     *)
(* open, and so is the same.                                                 *)
LEMMA ToggleLeadsToStock ==
  ASSUME page \in DOMAIN Products, choice = [e \in Product!Dims |-> choice[e]],
         Product!ToldApart(page), NEW d \in Product!Exact,
         NEW val, Product!Toggle(d, val), picked' # None
  PROVE  data[picked'] > 0
<1> DEFINE Variants == Product!ToSet(Products[page])
           Hits(c) == {i \in DOMAIN Products[page] :
                         Product!OptionsOf(Products[page][i]) = c}
           Left == {i \in DOMAIN Products[page] :
                      Product!InStock(data, Products[page][i])}
<1>1. /\ val # None /\ Product!IsOptionAvailable(d, val)
      /\ choice' = [choice EXCEPT ![d] = IF @ = val THEN None ELSE val]
      /\ picked' = Product!Match(page, data, choice')
  BY DEF Product!Toggle
<1>2. /\ d \in Product!Dims
      /\ \A e \in Product!Dims \ {d} : choice'[e] = choice[e]
      /\ choice'[d] \in {None, val}
  BY <1>1 DEF Product!Dims
<1>3. PICK w \in Variants :
        /\ w[d] = val /\ data[w.id] > 0
        /\ \A e \in Product!Dims \ {d} : choice[e] # None => w[e] = choice[e]
  BY <1>1 DEF Product!IsOptionAvailable, Product!InStock
<1>4. PICK iw \in DOMAIN Products[page] : w = Products[page][iw]
  BY <1>3, VariantsOf
<1>5. CASE Len(Products[page]) = 1
  <2>1. DOMAIN Products[page] = 1..1
    BY <1>5, ProductsAssumption
  <2>2. w = Products[page][1]
    BY <1>4, <2>1
  <2> QED BY <1>1, <1>3, <1>5, <2>2 DEF Product!Match
<1>6. CASE Len(Products[page]) # 1 /\ choice' = Product!NoChoice
  <2>1. picked' = Product!Found(page, Left)
    BY <1>1, <1>6 DEF Product!Match, Product!FirstInStock
  <2>2. PICK i \in Left : picked' = Products[page][i].id
    <3> HIDE DEF Left
    <3>1. Left \subseteq DOMAIN Products[page]
      BY DEF Left
    <3> QED BY <2>1, <3>1, FoundOf
  <2> QED BY <2>2 DEF Product!InStock
<1>7. CASE Len(Products[page]) # 1 /\ choice' # Product!NoChoice
  <2>1. picked' = Product!Found(page, Hits(choice'))
    BY <1>1, <1>7 DEF Product!Match
  <2>2. PICK i \in Hits(choice') : picked' = Products[page][i].id
    <3>1. Hits(choice') \subseteq DOMAIN Products[page]
      OBVIOUS
    <3> HIDE DEF Hits
    <3> QED BY <2>1, <3>1, FoundOf
  <2> DEFINE x == Products[page][i]
  <2>3. x \in Variants /\ Product!OptionsOf(x) = choice'
    BY <2>2, VariantsOf
  <2>4. \A e \in Product!Dims : x[e] = choice'[e]
    BY <2>3 DEF Product!OptionsOf
  <2>5. \A e \in Product!Dims : x[e] # None => w[e] = x[e]
    BY <1>2, <1>3, <2>4
  <2>6. w = x
    BY <1>3, <2>3, <2>5 DEF Product!ToldApart
  <2> QED BY <1>3, <2>2, <2>6
<1> QED BY <1>5, <1>6, <1>7

(* useProductVariant.ts:79-157: whatever was chosen before, and on whichever *)
(* product's page, choosing or unchoosing an option that is available never  *)
(* selects a variant that is sold out.                                       *)
THEOREM OptionsLeadToStock == Spec => ChoiceIsInStock
<1>1. ASSUME part = "product" => ProductTypes, part = "product"
      PROVE  Product!LeadsToStock
  BY <1>1, ToggleLeadsToStock DEF Product!LeadsToStock, ProductTypes
<1>2. (part = "product" => ProductTypes) /\ [Next]_vars
        => [part = "product" => Product!LeadsToStock]_vars
  BY <1>1
<1> QED BY <1>2, ProductAlways, PTL DEF Spec, ChoiceIsInStock

LEMMA ProductTypeOK ==
  ASSUME ProductTypes
  PROVE  Product!TypeOK
<1>1. \A d \in Product!Dims : choice[d] = None
                       \/ \E p \in DOMAIN Products :
                            \E v \in Product!ToSet(Products[p]) : choice[d] = v[d]
  BY DEF ProductTypes, Offered
<1> QED BY <1>1 DEF ProductTypes, Product!TypeOK

-----------------------------------------------------------------------------
(* The types of all parts.                                                 *)

(* The prompt's are part of its invariant.                                 *)
LEMMA PromptTypeOK ==
  ASSUME PromptInv
  PROVE  Prompt!TypeOK
<1>1. /\ perm \in Prompt!Permissions /\ {sub, made} \subseteq 0..MaxKeys
      /\ table \subseteq 1..MaxKeys
      /\ storage \in [synced : BOOLEAN, keys : 0..MaxKeys, later : BOOLEAN]
  BY DEF PromptInv, BrowserInv, StorageInv
<1>2. effect \in BOOLEAN
  BY DEF PromptInv, UiInv
<1>3. ui \in Ui /\ listener \in [checking : BOOLEAN, syncing : BOOLEAN]
  BY DEF PromptInv, UiInv
<1>4. {check, subscribing} \subseteq Prompt!Call
  BY DEF PromptInv, PromptCall
<1> QED BY <1>1, <1>2, <1>3, <1>4 DEF PromptInv, BoundsInv, Ui, Prompt!TypeOK

(* What the pages keep stays within the types their modules state, for any *)
(* number of conversations, images, rows, pages, keys and products, and    *)
(* whatever the person at the page, the other pages, the backend and the   *)
(* network do.  That the numbers stay within their bounds needs more than  *)
(* the types: a request for the gallery commits its change at most once    *)
(* (services/gallery.py:298-352), a request of a form is announced at most *)
(* once (lib/cache.py:89-124), and the uploads that came during a save are *)
(* among those the page keeps (gallery-images-upload.tsx:29-51).           *)
THEOREM TypesHold == Spec => []TypeOK
<1> DEFINE Parts == part \in {"chat", "gallery", "form", "filters", "product", "prompt",
                              "sign_in"}
<1>1. Spec => []Parts
  <2>1. Init => Parts
    BY DEF Init
  <2>2. Parts /\ [Next]_vars => Parts'
    BY PartKept
  <2> QED BY <2>1, <2>2, PTL DEF Spec
<1>2. Spec => [](part = "filters" => Filters!TypeOK)
  <2>1. (part = "filters" => FiltersInv) => (part = "filters" => Filters!TypeOK)
    BY FiltersTypeOK
  <2> QED BY <2>1, FiltersAlways, PTL
<1>3. Spec => [](part = "product" => Product!TypeOK)
  <2>1. (part = "product" => ProductTypes) => (part = "product" => Product!TypeOK)
    BY ProductTypeOK
  <2> QED BY <2>1, ProductAlways, PTL
<1>4. Spec => [](part = "prompt" => Prompt!TypeOK)
  <2>1. (part = "prompt" => PromptInv) => (part = "prompt" => Prompt!TypeOK)
    BY PromptTypeOK
  <2> QED BY <2>1, PromptInvariance, PTL
<1>5. Spec => [](part = "sign_in" => Guest!TypeOK)
  <2>1. (part = "sign_in" => GuestInv) => (part = "sign_in" => Guest!TypeOK)
    BY GuestTypeOK DEF GuestInv
  <2> QED BY <2>1, GuestAlways, PTL
<1>6. /\ Parts
      /\ part = "chat" => Chat!TypeOK
      /\ part = "gallery" => Gallery!TypeOK
      /\ part = "form" => Form!TypeOK
      /\ part = "filters" => Filters!TypeOK
      /\ part = "product" => Product!TypeOK
      /\ part = "prompt" => Prompt!TypeOK
      /\ part = "sign_in" => Guest!TypeOK
      => TypeOK
  BY DEF TypeOK
<1> QED BY <1>1, <1>2, <1>3, <1>4, <1>5, <1>6, ChatTypesHold, GalleryTypesHold, FormTypesHold,
           PTL
=============================================================================
