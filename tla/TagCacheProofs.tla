--------------------------- MODULE TagCacheProofs ---------------------------
(***************************************************************************)
(* Proofs about TagCache for any processes, keys, tags, requests, and      *)
(* faults.                                                                 *)
(***************************************************************************)
EXTENDS TagCache, TLAPS

Active(w) == writer[w].pc \notin {"idle", "done"}

(* The rest of w's invalidation will look k up.                            *)
WillFind(w, k) ==
  /\ k \in Changes[w]
  /\ \/ /\ writer[w].pc = "keys"
        /\ k \in ClearsKeys[w] \/ TagsOf[k] \intersect ClearsTags[w] # {}
     \/ /\ writer[w].pc \in {"tags", "delete", "drop"}
        /\ TagsOf[k] \intersect writer[w].tags # {}

(* It will delete the shared copy of k, and has not just done so.          *)
WillDelete(w, k) ==
  /\ k \in Changes[w]
  /\ \/ /\ WillFind(w, k)
        /\ ~(writer[w].pc = "drop" /\ k \in writer[w].active)
     \/ writer[w].pc = "delete" /\ k \in writer[w].active

(* It will have every process evict k.                                     *)
WillEvict(w, k) == Active(w) /\ k \in writer[w].found

Told(p, k) == \E i \in 1..Len(channel[p]) : k \in channel[p][i]

OnItsWayOut(p, k) == Told(p, k) \/ \E w \in Writers : WillEvict(w, k)

Indexed(k) == \A t \in TagsOf[k] : k \in index[t]

Indexing(k) == \E r \in Readers : reader[r].pc = "index" /\ reader[r].key = k

(* What a request of a route holds is current, and what it copies or       *)
(* indexes is in Redis, unless the key was raced.                          *)
ReaderInv(r) ==
  LET q == reader[r] IN
  /\ q.pc \in {"redis", "copy", "db", "set", "index"} =>
       q.proc \in Processes /\ q.key \in Keys
  /\ q.pc \in {"copy", "set", "index"} => q.val \in Nat
  /\ q.key \notin raced =>
       /\ q.pc \in {"copy", "set", "index"} => q.val = version[q.key]
       /\ q.pc \in {"copy", "index"} => redis[q.key] = version[q.key]
       /\ q.pc = "index" => \A t \in TagsOf[q.key] \ q.tags : q.key \in index[t]

WriterInv(w) ==
  LET q == writer[w] IN
  /\ Active(w) => q.proc \in Processes
  /\ q.pc \in {"idle", "keys"} => q.found = {}
  /\ q.pc \in {"delete", "drop"} => q.tag \in Tags /\ q.active \subseteq q.found

(* A stale shared copy will be deleted.                                    *)
SharedInv(k) ==
  redis[k] \in {None, version[k]} \/ \E w \in Writers : WillDelete(w, k)

(* A shared copy is in the index of each of its tags, or is being put      *)
(* there.                                                                  *)
IndexInv(k) == redis[k] = None \/ Indexed(k) \/ Indexing(k)

(* A local copy that no index leads to is on its way out...                *)
OrphanInv(p, k) == redis[k] = None => l1[p][k] = None \/ OnItsWayOut(p, k)

(* ... and a stale one is, or will be found.                               *)
LocalInv(p, k) ==
  \/ l1[p][k] \in {None, version[k]}
  \/ OnItsWayOut(p, k)
  \/ Indexed(k) /\ \E w \in Writers : WillFind(w, k)

CacheInv ==
  /\ TypeOK
  /\ \A r \in Readers : ReaderInv(r)
  /\ \A w \in Writers : WriterInv(w)
  /\ \A k \in Keys \ raced :
       /\ SharedInv(k)
       /\ IndexInv(k)
       /\ \A p \in Processes \ deaf : OrphanInv(p, k) /\ LocalInv(p, k)

-----------------------------------------------------------------------------
(* Types.                                                                  *)

LEMMA BlankTypes ==
  /\ NewReader \in ReaderRow /\ ServedReader \in ReaderRow
  /\ NewWriter \in WriterRow /\ DoneWriter \in WriterRow
BY DEF NewReader, ServedReader, NewWriter, DoneWriter, ReaderRow, WriterRow

LEMMA ReadEffect ==
  ASSUME TypeOK, NEW r \in Readers, NEW new \in ReaderRow, Read(r, new)
  PROVE  /\ reader' \in [Readers -> ReaderRow]
         /\ reader'[r] = new
         /\ \A s \in Readers \ {r} : reader'[s] = reader[s]
BY DEF Read, TypeOK

LEMMA WriteEffect ==
  ASSUME TypeOK, NEW w \in Writers, NEW new \in WriterRow, Write(w, new)
  PROVE  /\ writer' \in [Writers -> WriterRow]
         /\ writer'[w] = new
         /\ \A v \in Writers \ {w} : writer'[v] = writer[v]
BY DEF Write, TypeOK

LEMMA RowFields ==
  ASSUME TypeOK
  PROVE  /\ \A r \in Readers : /\ reader[r] \in ReaderRow
                               /\ reader[r].tags \subseteq Tags
                               /\ reader[r].key \in Keys \union {None}
         /\ \A w \in Writers : /\ writer[w] \in WriterRow
                               /\ writer[w].tags \subseteq Tags
                               /\ writer[w].active \subseteq Keys
                               /\ writer[w].found \subseteq Keys
BY DEF TypeOK, ReaderRow, WriterRow

LEMMA EvictEffect ==
  ASSUME TypeOK, NEW p \in Processes, NEW ks \in SUBSET Keys,
         l1' = [l1 EXCEPT ![p] = Without(@, ks)]
  PROVE  /\ l1' \in [Processes -> [Keys -> Nat \union {None}]]
         /\ \A k \in ks : l1'[p][k] = None
         /\ \A o \in Processes, k \in Keys : l1'[o][k] \in {None, l1[o][k]}
BY DEF TypeOK, Without

-----------------------------------------------------------------------------
(* All that the invariant needs to know of a step of reader r.             *)
ReaderEffect(r) ==
  /\ TypeOK'
  /\ UNCHANGED <<version, writer, channel, deaf>>
  /\ raced \subseteq raced'
  /\ \A s \in Readers \ {r} : reader'[s] = reader[s]
  /\ ReaderInv(r)'
  /\ \A t \in Tags : index[t] \subseteq index'[t]
  /\ \A k \in Keys \ raced' :
       /\ \/ redis'[k] = redis[k]
          \/ redis'[k] = version[k] /\ Indexing(k)'
       /\ \A p \in Processes : \/ l1'[p][k] = l1[p][k]
                               \/ l1'[p][k] = version[k] /\ redis[k] # None
       /\ reader[r].pc = "index" /\ reader[r].key = k =>
            Indexed(k)' \/ Indexing(k)'

LEMMA AskEffect ==
  ASSUME CacheInv, NEW r \in Readers, NEW p \in Processes, NEW k \in Keys,
         Ask(r, p, k)
  PROVE  ReaderEffect(r)
<1> DEFINE new == IF l1[p][k] # None THEN ServedReader
                  ELSE [NewReader EXCEPT !.pc = "redis", !.proc = p,
                                         !.key = k]
<1>1. new \in ReaderRow /\ new.pc \in {"done", "redis"}
      /\ (new.pc = "redis" => new.proc \in Processes /\ new.key \in Keys)
  BY DEF NewReader, ServedReader, ReaderRow
<1>2. Read(r, new)
  BY DEF Ask
<1> HIDE DEF new
<1>3. /\ reader' \in [Readers -> ReaderRow] /\ reader'[r] = new
      /\ \A s \in Readers \ {r} : reader'[s] = reader[s]
  BY <1>1, <1>2, ReadEffect DEF CacheInv
<1>4. TypeOK'
  BY <1>3 DEF Ask, CacheInv, TypeOK, store
<1> QED BY <1>1, <1>3, <1>4 DEF ReaderEffect, ReaderInv, Ask, store

LEMMA ReadRedisEffect ==
  ASSUME CacheInv, NEW r \in Readers, ReadRedis(r)
  PROVE  ReaderEffect(r)
<1> DEFINE q == reader[r]
           new == [q EXCEPT !.val = redis[q.key],
                            !.pc = IF redis[q.key] = None THEN "db" ELSE "copy"]
<1>0. TypeOK /\ q \in ReaderRow /\ q.pc = "redis" /\ q.key \in Keys
      /\ q.proc \in Processes
  BY RowFields DEF CacheInv, ReaderInv, ReadRedis
<1>1. redis[q.key] \in Nat \union {None}
  BY <1>0 DEF TypeOK
<1>2. /\ new \in ReaderRow /\ new.key = q.key /\ new.val = redis[q.key]
      /\ new.proc = q.proc
      /\ new.pc = IF redis[q.key] = None THEN "db" ELSE "copy"
  BY <1>0, <1>1 DEF ReaderRow
<1>3. Read(r, new)
  BY DEF ReadRedis
<1>5. UNCHANGED <<version, redis, index, l1, channel, deaf, writer, faults>>
  BY DEF ReadRedis, store
<1>6. /\ raced \subseteq raced' /\ raced' \subseteq Keys
      /\ q.key \notin raced' => redis[q.key] \in {None, version[q.key]}
  BY <1>0 DEF ReadRedis, Race, TypeOK
<1> HIDE DEF new
<1>4. /\ reader' \in [Readers -> ReaderRow] /\ reader'[r] = new
      /\ \A s \in Readers \ {r} : reader'[s] = reader[s]
  BY <1>0, <1>2, <1>3, ReadEffect
<1>7. TypeOK'
  BY <1>0, <1>4, <1>5, <1>6 DEF TypeOK
<1>8. ReaderInv(r)'
  BY <1>0, <1>1, <1>2, <1>4, <1>5, <1>6 DEF ReaderInv
<1> QED BY <1>0, <1>4, <1>5, <1>6, <1>7, <1>8 DEF ReaderEffect

LEMMA ReadDbEffect ==
  ASSUME CacheInv, NEW r \in Readers, ReadDb(r)
  PROVE  ReaderEffect(r)
<1> DEFINE q == reader[r]
           new == [q EXCEPT !.val = version[q.key], !.pc = "set"]
<1>0. TypeOK /\ q \in ReaderRow /\ q.pc = "db" /\ q.key \in Keys
      /\ q.proc \in Processes
  BY RowFields DEF CacheInv, ReaderInv, ReadDb
<1>1. version[q.key] \in Nat
  BY <1>0 DEF TypeOK
<1>2. /\ new \in ReaderRow /\ new.key = q.key /\ new.val = version[q.key]
      /\ new.proc = q.proc /\ new.pc = "set"
  BY <1>0, <1>1 DEF ReaderRow
<1>3. Read(r, new)
  BY DEF ReadDb
<1>5. UNCHANGED <<version, redis, index, l1, channel, deaf, writer, faults,
                  raced>>
  BY DEF ReadDb, store
<1> HIDE DEF new
<1>4. /\ reader' \in [Readers -> ReaderRow] /\ reader'[r] = new
      /\ \A s \in Readers \ {r} : reader'[s] = reader[s]
  BY <1>0, <1>2, <1>3, ReadEffect
<1>7. TypeOK'
  BY <1>0, <1>4, <1>5 DEF TypeOK
<1>8. ReaderInv(r)'
  BY <1>0, <1>1, <1>2, <1>4, <1>5 DEF ReaderInv
<1> QED BY <1>0, <1>4, <1>5, <1>7, <1>8 DEF ReaderEffect

LEMMA SetKeyEffect ==
  ASSUME CacheInv, NEW r \in Readers, SetKey(r)
  PROVE  ReaderEffect(r)
<1> DEFINE q == reader[r]
           new == [q EXCEPT !.pc = "index", !.tags = TagsOf[q.key]]
<1>0. /\ TypeOK /\ q \in ReaderRow /\ q.pc = "set" /\ q.key \in Keys
      /\ q.proc \in Processes /\ q.val \in Nat
      /\ q.key \notin raced => q.val = version[q.key]
  BY RowFields DEF CacheInv, ReaderInv, SetKey
<1>1. TagsOf[q.key] \subseteq Tags
  BY <1>0, TagCacheAssumption
<1>2. /\ new \in ReaderRow /\ new.key = q.key /\ new.val = q.val
      /\ new.proc = q.proc /\ new.pc = "index" /\ new.tags = TagsOf[q.key]
  BY <1>0, <1>1 DEF ReaderRow
<1>3. Read(r, new) /\ redis' = [redis EXCEPT ![q.key] = q.val]
  BY DEF SetKey
<1>5. UNCHANGED <<version, index, l1, channel, deaf, writer, faults, raced>>
  BY DEF SetKey
<1>6. /\ redis' \in [Keys -> Nat \union {None}] /\ redis'[q.key] = q.val
      /\ \A k \in Keys \ {q.key} : redis'[k] = redis[k]
  BY <1>0, <1>3 DEF TypeOK
<1> HIDE DEF new
<1>4. /\ reader' \in [Readers -> ReaderRow] /\ reader'[r] = new
      /\ \A s \in Readers \ {r} : reader'[s] = reader[s]
  BY <1>0, <1>2, <1>3, ReadEffect
<1>7. TypeOK'
  BY <1>0, <1>4, <1>5, <1>6 DEF TypeOK
<1>8. ReaderInv(r)'
  BY <1>0, <1>2, <1>4, <1>5, <1>6 DEF ReaderInv
<1>9. \A k \in Keys : k = q.key => Indexing(k)'
  BY <1>2, <1>4 DEF Indexing
<1> QED BY <1>0, <1>4, <1>5, <1>6, <1>7, <1>8, <1>9 DEF ReaderEffect

LEMMA IndexTagEffect ==
  ASSUME CacheInv, NEW r \in Readers, NEW t \in Tags, IndexTag(r, t)
  PROVE  ReaderEffect(r)
<1> DEFINE q == reader[r]
           new == [q EXCEPT !.tags = @ \ {t}]
<1>0. /\ TypeOK /\ q \in ReaderRow /\ q.pc = "index" /\ q.key \in Keys
      /\ q.proc \in Processes /\ q.val \in Nat /\ ReaderInv(r)
  BY RowFields DEF CacheInv, ReaderInv, IndexTag
<1>2. /\ new \in ReaderRow /\ new.key = q.key /\ new.val = q.val
      /\ new.proc = q.proc /\ new.pc = "index" /\ new.tags = q.tags \ {t}
  BY <1>0 DEF ReaderRow
<1>3. Read(r, new) /\ index' = [index EXCEPT ![t] = @ \union {q.key}]
  BY DEF IndexTag
<1>5. UNCHANGED <<version, redis, l1, channel, deaf, writer, faults, raced>>
  BY DEF IndexTag
<1>6. /\ index' \in [Tags -> SUBSET Keys] /\ q.key \in index'[t]
      /\ \A u \in Tags : index[u] \subseteq index'[u]
  BY <1>0, <1>3 DEF TypeOK
<1> HIDE DEF new
<1>4. /\ reader' \in [Readers -> ReaderRow] /\ reader'[r] = new
      /\ \A s \in Readers \ {r} : reader'[s] = reader[s]
  BY <1>0, <1>2, <1>3, ReadEffect
<1>7. TypeOK'
  BY <1>0, <1>4, <1>5, <1>6 DEF TypeOK
<1>8. ReaderInv(r)'
  BY <1>0, <1>2, <1>4, <1>5, <1>6, TagCacheAssumption DEF ReaderInv
<1>9. \A k \in Keys : k = q.key => Indexing(k)'
  BY <1>2, <1>4 DEF Indexing
<1> QED BY <1>0, <1>4, <1>5, <1>6, <1>7, <1>8, <1>9 DEF ReaderEffect

(* The last step of a reader: the copy of its process, if it makes one.    *)
LEMMA ServedEffect ==
  ASSUME CacheInv, NEW r \in Readers, Read(r, ServedReader),
         UNCHANGED <<version, redis, index, channel, deaf, writer>>,
         faults' \in 0..MaxFaults, raced \subseteq raced', raced' \subseteq Keys,
         l1' \in [Processes -> [Keys -> Nat \union {None}]],
         \A k \in Keys \ raced' :
           /\ \A p \in Processes :
                \/ l1'[p][k] = l1[p][k]
                \/ l1'[p][k] = version[k] /\ redis[k] # None
           /\ reader[r].pc = "index" /\ reader[r].key = k => Indexed(k)
  PROVE  ReaderEffect(r)
<1>1. /\ reader' \in [Readers -> ReaderRow] /\ reader'[r] = ServedReader
      /\ \A s \in Readers \ {r} : reader'[s] = reader[s]
  BY BlankTypes, ReadEffect DEF CacheInv
<1>2. ServedReader.pc = "done"
  BY DEF ServedReader, NewReader
<1>3. TypeOK'
  BY <1>1 DEF CacheInv, TypeOK
<1>4. ReaderInv(r)'
  BY <1>1, <1>2 DEF ReaderInv
<1>5. \A k \in Keys \ raced' :
        reader[r].pc = "index" /\ reader[r].key = k => Indexed(k)'
  BY DEF Indexed
<1> QED BY <1>1, <1>3, <1>4, <1>5 DEF ReaderEffect

LEMMA CopyStep ==
  ASSUME CacheInv, NEW r \in Readers, Copy(r) \/ Fill(r)
  PROVE  ReaderEffect(r)
<1> DEFINE q == reader[r]
<1>1. /\ Read(r, ServedReader) /\ l1' = [l1 EXCEPT ![q.proc][q.key] = q.val]
      /\ UNCHANGED <<version, redis, index, channel, deaf, writer, faults,
                     raced>>
      /\ q.pc = "copy" \/ (q.pc = "index" /\ q.tags = {})
  BY DEF Copy, Fill, store
<1>2. /\ TypeOK /\ q.key \in Keys /\ q.proc \in Processes /\ q.val \in Nat
      /\ q.key \notin raced => /\ q.val = version[q.key]
                               /\ redis[q.key] = version[q.key]
                               /\ q.pc = "index" => Indexed(q.key)
  BY <1>1 DEF CacheInv, ReaderInv, Indexed
<1>3. redis[q.key] = version[q.key] => redis[q.key] # None
  BY <1>2, TagCacheAssumption DEF TypeOK
<1>4. /\ l1' \in [Processes -> [Keys -> Nat \union {None}]]
      /\ l1'[q.proc][q.key] = q.val
      /\ \A o \in Processes, j \in Keys :
           <<o, j>> # <<q.proc, q.key>> => l1'[o][j] = l1[o][j]
  BY <1>1, <1>2 DEF TypeOK
<1>5. faults \in 0..MaxFaults /\ raced \subseteq Keys
  BY <1>2 DEF TypeOK
<1>6. ASSUME NEW k \in Keys \ raced', NEW p \in Processes
      PROVE  \/ l1'[p][k] = l1[p][k]
             \/ l1'[p][k] = version[k] /\ redis[k] # None
  BY <1>1, <1>2, <1>3, <1>4
<1>7. ASSUME NEW k \in Keys \ raced', q.pc = "index", q.key = k
      PROVE  Indexed(k)
  BY <1>1, <1>2, <1>7
<1> QED BY <1>1, <1>4, <1>5, <1>6, <1>7, ServedEffect

LEMMA FillFailsEffect ==
  ASSUME CacheInv, NEW r \in Readers, FillFails(r)
  PROVE  ReaderEffect(r)
<1>1. /\ Read(r, ServedReader)
      /\ UNCHANGED <<version, redis, index, l1, channel, deaf, writer>>
      /\ raced' = raced \union {reader[r].key}
      /\ faults' = faults + 1 /\ faults < MaxFaults
  BY DEF FillFails, Race, store
<1>2. reader[r].key \in Keys /\ TypeOK
  BY DEF FillFails, CacheInv, ReaderInv
<1>3. faults' \in 0..MaxFaults
  BY <1>1, <1>2, TagCacheAssumption DEF TypeOK
<1>4. raced' \subseteq Keys /\ l1 \in [Processes -> [Keys -> Nat \union {None}]]
  BY <1>1, <1>2 DEF TypeOK
<1> QED BY <1>1, <1>3, <1>4, ServedEffect

LEMMA ReaderStepEffect ==
  ASSUME CacheInv, NEW r \in Readers,
         \/ ReaderStep(r) \/ FillFails(r)
         \/ \E p \in Processes, k \in Keys : Ask(r, p, k)
  PROVE  ReaderEffect(r)
BY AskEffect, ReadRedisEffect, ReadDbEffect, SetKeyEffect, IndexTagEffect,
   CopyStep, FillFailsEffect DEF ReaderStep

-----------------------------------------------------------------------------
(* All that the invariant needs to know of a step of writer w.             *)
WriterEffect(w) ==
  /\ TypeOK'
  /\ UNCHANGED <<reader, deaf>>
  /\ raced \subseteq raced'
  /\ \A v \in Writers \ {w} : writer'[v] = writer[v]
  /\ WriterInv(w)'
  /\ \A k \in Keys \ raced' :
       /\ \/ version'[k] = version[k]
          \/ ~Holding(k) /\ WillFind(w, k)' /\ WillDelete(w, k)'
       /\ \/ redis'[k] = redis[k]
          \/ redis'[k] = None /\ ~Holding(k) /\ WillEvict(w, k)'
       /\ \/ \A t \in Tags : k \in index[t] => k \in index'[t]
          \/ ~Holding(k) /\ redis'[k] = None
       /\ WillFind(w, k) /\ Indexed(k) => WillFind(w, k)' \/ WillEvict(w, k)'
       /\ WillDelete(w, k) /\ Indexed(k) =>
            WillDelete(w, k)' \/ redis'[k] = None
       /\ \A p \in Processes \ deaf :
            /\ l1'[p][k] \in {None, l1[p][k]}
            /\ Told(p, k) => Told(p, k)'
            /\ WillEvict(w, k) =>
                 WillEvict(w, k)' \/ l1'[p][k] = None \/ Told(p, k)'

(* What a step that leaves versions, local copies and messages alone has   *)
(* to show.                                                                *)
LEMMA QuietWriterEffect ==
  ASSUME CacheInv, NEW w \in Writers, NEW new \in WriterRow, Write(w, new),
         UNCHANGED <<version, l1, channel, reader, deaf>>,
         faults' \in 0..MaxFaults, raced \subseteq raced', raced' \subseteq Keys,
         redis' \in [Keys -> Nat \union {None}], index' \in [Tags -> SUBSET Keys],
         WriterInv(w)',
         \A k \in Keys \ raced' :
           /\ \/ redis'[k] = redis[k]
              \/ redis'[k] = None /\ ~Holding(k) /\ WillEvict(w, k)'
           /\ \/ \A t \in Tags : k \in index[t] => k \in index'[t]
              \/ ~Holding(k) /\ redis'[k] = None
           /\ WillFind(w, k) /\ Indexed(k) => WillFind(w, k)' \/ WillEvict(w, k)'
           /\ WillDelete(w, k) /\ Indexed(k) =>
                WillDelete(w, k)' \/ redis'[k] = None
           /\ WillEvict(w, k) => WillEvict(w, k)'
  PROVE  WriterEffect(w)
<1>1. /\ writer' \in [Writers -> WriterRow]
      /\ \A v \in Writers \ {w} : writer'[v] = writer[v]
  BY WriteEffect DEF CacheInv
<1>2. TypeOK'
  BY <1>1 DEF CacheInv, TypeOK
<1>3. \A p \in Processes, k \in Keys : Told(p, k) => Told(p, k)'
  BY DEF Told
<1>4. raced' \subseteq Keys
  OBVIOUS
<1> QED BY <1>1, <1>2, <1>3 DEF WriterEffect

LEMMA CommitEffect ==
  ASSUME CacheInv, NEW w \in Writers, NEW p \in Processes, Commit(w, p)
  PROVE  WriterEffect(w)
<1> DEFINE new == [writer[w] EXCEPT !.pc = "keys", !.proc = p]
<1>0. TypeOK /\ writer[w] \in WriterRow /\ writer[w].pc = "idle"
      /\ writer[w].found = {}
  BY RowFields DEF CacheInv, WriterInv, Commit
<1>1. new \in WriterRow /\ new.pc = "keys" /\ new.proc = p /\ new.found = {}
  BY <1>0 DEF WriterRow
<1>2. /\ Write(w, new)
      /\ UNCHANGED <<redis, index, l1, channel, deaf, reader, faults>>
      /\ version' = [k \in Keys |-> IF k \in Changes[w] THEN version[k] + 1
                                    ELSE version[k]]
      /\ raced' = raced \union {k \in Changes[w] : Holding(k)}
  BY DEF Commit, Race, store
<1> HIDE DEF new
<1>3. /\ writer' \in [Writers -> WriterRow] /\ writer'[w] = new
      /\ \A v \in Writers \ {w} : writer'[v] = writer[v]
  BY <1>0, <1>1, <1>2, WriteEffect
<1>4. Changes[w] \subseteq Keys
  BY TagCacheAssumption
<1>5. version' \in [Keys -> Nat] /\ raced' \subseteq Keys
  BY <1>0, <1>2, <1>4 DEF TypeOK
<1>6. TypeOK'
  BY <1>0, <1>2, <1>3, <1>5 DEF TypeOK
<1>7. WriterInv(w)'
  BY <1>1, <1>3 DEF WriterInv, Active
<1>8. ASSUME NEW k \in Keys \ raced'
      PROVE  \/ version'[k] = version[k]
             \/ ~Holding(k) /\ WillFind(w, k)' /\ WillDelete(w, k)'
  <2>1. CASE k \notin Changes[w]
    BY <1>2, <2>1
  <2>2. CASE k \in Changes[w]
    <3>1. ~Holding(k)
      BY <1>2, <2>2
    <3>2. WillFind(w, k)'
      BY <1>1, <1>3, <2>2, TagCacheAssumption DEF WillFind
    <3>3. WillDelete(w, k)'
      BY <1>1, <1>3, <2>2, <3>2 DEF WillDelete
    <3> QED BY <3>1, <3>2, <3>3
  <2> QED BY <2>1, <2>2
<1>9. \A k \in Keys : ~WillFind(w, k) /\ ~WillDelete(w, k) /\ ~WillEvict(w, k)
  BY <1>0 DEF WillFind, WillDelete, WillEvict, Active
<1>10. \A o \in Processes, k \in Keys : Told(o, k) => Told(o, k)'
  BY <1>2 DEF Told
<1> QED BY <1>2, <1>3, <1>6, <1>7, <1>8, <1>9, <1>10 DEF WriterEffect

LEMMA DeleteKeysEffect ==
  ASSUME CacheInv, NEW w \in Writers, DeleteKeys(w)
  PROVE  WriterEffect(w)
<1> DEFINE q == writer[w]
           new == [q EXCEPT !.pc = "tags", !.tags = ClearsTags[w],
                            !.found = ClearsKeys[w]]
<1>0. /\ TypeOK /\ q \in WriterRow /\ q.pc = "keys" /\ q.found = {}
      /\ q.proc \in Processes
      /\ ClearsKeys[w] \subseteq Keys /\ ClearsTags[w] \subseteq Tags
  BY RowFields, TagCacheAssumption
  DEF CacheInv, WriterInv, Active, DeleteKeys
<1>1. /\ new \in WriterRow /\ new.pc = "tags" /\ new.proc = q.proc
      /\ new.tags = ClearsTags[w] /\ new.found = ClearsKeys[w]
  BY <1>0 DEF WriterRow
<1>2. /\ Write(w, new)
      /\ UNCHANGED <<version, index, l1, channel, deaf, reader, faults>>
      /\ redis' = Without(redis, ClearsKeys[w])
      /\ raced' = raced \union {k \in ClearsKeys[w] : Holding(k)}
  BY DEF DeleteKeys, Race
<1> HIDE DEF new
<1>3. /\ writer' \in [Writers -> WriterRow] /\ writer'[w] = new
  BY <1>0, <1>1, <1>2, WriteEffect
<1>4. /\ redis' \in [Keys -> Nat \union {None}]
      /\ \A k \in Keys : redis'[k] = IF k \in ClearsKeys[w] THEN None
                                     ELSE redis[k]
      /\ raced \subseteq raced' /\ raced' \subseteq Keys
      /\ faults' \in 0..MaxFaults /\ index' \in [Tags -> SUBSET Keys]
  BY <1>0, <1>2 DEF TypeOK, Without
<1>5. WriterInv(w)'
  BY <1>0, <1>1, <1>3 DEF WriterInv, Active
<1>6. ASSUME NEW k \in Keys \ raced'
      PROVE  /\ \/ redis'[k] = redis[k]
                \/ redis'[k] = None /\ ~Holding(k) /\ WillEvict(w, k)'
             /\ WillFind(w, k) => WillFind(w, k)' \/ WillEvict(w, k)'
             /\ WillDelete(w, k) => WillDelete(w, k)' \/ redis'[k] = None
             /\ WillEvict(w, k) => WillEvict(w, k)'
  BY <1>0, <1>1, <1>2, <1>3, <1>4
  DEF WillFind, WillDelete, WillEvict, Active
<1>7. \A k \in Keys, t \in Tags : k \in index[t] => k \in index'[t]
  BY <1>2
<1> QED BY <1>1, <1>2, <1>4, <1>5, <1>6, <1>7, QuietWriterEffect

LEMMA ReadTagEffect ==
  ASSUME CacheInv, NEW w \in Writers, NEW t \in Tags, ReadTag(w, t)
  PROVE  WriterEffect(w)
<1> DEFINE q == writer[w]
           to == IF index[t] = {} THEN "tags" ELSE "delete"
           new == [q EXCEPT !.tags = @ \ {t}, !.tag = t, !.active = index[t],
                            !.found = @ \union index[t], !.pc = to]
<1>0. /\ TypeOK /\ q \in WriterRow /\ q.pc = "tags" /\ q.proc \in Processes
      /\ index[t] \subseteq Keys /\ q.found \subseteq Keys
      /\ q.tags \subseteq Tags
  BY RowFields DEF CacheInv, WriterInv, Active, ReadTag, TypeOK
<1>1. /\ new \in WriterRow /\ new.pc = to /\ new.proc = q.proc
      /\ new.tags = q.tags \ {t} /\ new.tag = t /\ new.active = index[t]
      /\ new.found = q.found \union index[t]
  BY <1>0 DEF WriterRow
<1>2. /\ Write(w, new)
      /\ UNCHANGED <<version, redis, index, l1, channel, deaf, reader, faults,
                     raced>>
  BY DEF ReadTag, store
<1> HIDE DEF new
<1>3. /\ writer' \in [Writers -> WriterRow] /\ writer'[w] = new
  BY <1>0, <1>1, <1>2, WriteEffect
<1>4. /\ redis' \in [Keys -> Nat \union {None}] /\ raced' \subseteq Keys
      /\ faults' \in 0..MaxFaults /\ index' \in [Tags -> SUBSET Keys]
  BY <1>0, <1>2 DEF TypeOK
<1>5. WriterInv(w)'
  BY <1>0, <1>1, <1>3 DEF WriterInv, Active
<1>6. ASSUME NEW k \in Keys \ raced'
      PROVE  /\ WillFind(w, k) /\ Indexed(k) =>
                  WillFind(w, k)' \/ WillEvict(w, k)'
             /\ WillDelete(w, k) /\ Indexed(k) => WillDelete(w, k)'
             /\ WillEvict(w, k) => WillEvict(w, k)'
  <2>1. t \in TagsOf[k] /\ Indexed(k) => k \in index[t] /\ to = "delete"
    BY DEF Indexed
  <2> QED BY <1>0, <1>1, <1>3, <2>1
          DEF WillFind, WillDelete, WillEvict, Active
<1>7. \A k \in Keys, u \in Tags : k \in index[u] => k \in index'[u]
  BY <1>2
<1>8. \A k \in Keys : redis'[k] = redis[k]
  BY <1>2
<1> QED BY <1>1, <1>2, <1>4, <1>5, <1>6, <1>7, <1>8, QuietWriterEffect

LEMMA DeleteActiveEffect ==
  ASSUME CacheInv, NEW w \in Writers, DeleteActive(w)
  PROVE  WriterEffect(w)
<1> DEFINE q == writer[w]
           new == [q EXCEPT !.pc = "drop"]
<1>0. /\ TypeOK /\ q \in WriterRow /\ q.pc = "delete" /\ q.proc \in Processes
      /\ q.active \subseteq q.found /\ q.found \subseteq Keys /\ q.tag \in Tags
  BY RowFields DEF CacheInv, WriterInv, Active, DeleteActive
<1>1. /\ new \in WriterRow /\ new.pc = "drop" /\ new.proc = q.proc
      /\ new.tags = q.tags /\ new.tag = q.tag /\ new.active = q.active
      /\ new.found = q.found
  BY <1>0 DEF WriterRow
<1>2. /\ Write(w, new)
      /\ UNCHANGED <<version, index, l1, channel, deaf, reader, faults>>
      /\ redis' = Without(redis, q.active)
      /\ raced' = raced \union {k \in q.active : Holding(k)}
  BY DEF DeleteActive, Race
<1> HIDE DEF new
<1>3. /\ writer' \in [Writers -> WriterRow] /\ writer'[w] = new
  BY <1>0, <1>1, <1>2, WriteEffect
<1>4. /\ redis' \in [Keys -> Nat \union {None}]
      /\ \A k \in Keys : redis'[k] = IF k \in q.active THEN None ELSE redis[k]
      /\ raced \subseteq raced' /\ raced' \subseteq Keys
      /\ faults' \in 0..MaxFaults /\ index' \in [Tags -> SUBSET Keys]
  BY <1>0, <1>2 DEF TypeOK, Without
<1>5. WriterInv(w)'
  BY <1>0, <1>1, <1>3 DEF WriterInv, Active
<1>6. ASSUME NEW k \in Keys \ raced'
      PROVE  /\ \/ redis'[k] = redis[k]
                \/ redis'[k] = None /\ ~Holding(k) /\ WillEvict(w, k)'
             /\ WillFind(w, k) => WillFind(w, k)'
             /\ WillDelete(w, k) => WillDelete(w, k)' \/ redis'[k] = None
             /\ WillEvict(w, k) => WillEvict(w, k)'
  BY <1>0, <1>1, <1>2, <1>3, <1>4
  DEF WillFind, WillDelete, WillEvict, Active
<1>7. \A k \in Keys, t \in Tags : k \in index[t] => k \in index'[t]
  BY <1>2
<1> QED BY <1>1, <1>2, <1>4, <1>5, <1>6, <1>7, QuietWriterEffect

LEMMA DropTagEffect ==
  ASSUME CacheInv, NEW w \in Writers, DropTag(w)
  PROVE  WriterEffect(w)
<1> DEFINE q == writer[w]
           new == [q EXCEPT !.pc = "tags", !.tag = None, !.active = {}]
<1>0. /\ TypeOK /\ q \in WriterRow /\ q.pc = "drop" /\ q.proc \in Processes
      /\ q.tag \in Tags /\ index[q.tag] \subseteq Keys
  BY RowFields DEF CacheInv, WriterInv, Active, DropTag, TypeOK
<1>1. /\ new \in WriterRow /\ new.pc = "tags" /\ new.proc = q.proc
      /\ new.tags = q.tags /\ new.found = q.found
  BY <1>0 DEF WriterRow
<1>2. /\ Write(w, new)
      /\ UNCHANGED <<version, redis, l1, channel, deaf, reader, faults>>
      /\ index' = [index EXCEPT ![q.tag] = {}]
      /\ raced' = raced \union
                    {k \in index[q.tag] :
                       \/ Holding(k)
                       \/ /\ redis[k] # None
                          /\ \/ k \notin q.active \/ redis[k] = version[k]
                             \/ Overlapping(w, k)}
  BY DEF DropTag, Race
<1> HIDE DEF new
<1>3. /\ writer' \in [Writers -> WriterRow] /\ writer'[w] = new
  BY <1>0, <1>1, <1>2, WriteEffect
<1>4. /\ index' \in [Tags -> SUBSET Keys]
      /\ \A t \in Tags : index'[t] = IF t = q.tag THEN {} ELSE index[t]
      /\ raced \subseteq raced' /\ raced' \subseteq Keys
      /\ faults' \in 0..MaxFaults /\ redis' \in [Keys -> Nat \union {None}]
  BY <1>0, <1>2 DEF TypeOK
<1>5. WriterInv(w)'
  BY <1>0, <1>1, <1>3 DEF WriterInv, Active
<1>6. ASSUME NEW k \in Keys \ raced'
      PROVE  /\ \/ \A t \in Tags : k \in index[t] => k \in index'[t]
                \/ ~Holding(k) /\ redis'[k] = None
             /\ WillFind(w, k) => WillFind(w, k)'
             /\ WillDelete(w, k) => WillDelete(w, k)'
             /\ WillEvict(w, k) => WillEvict(w, k)'
  <2>1. ASSUME k \in index[q.tag]  PROVE redis'[k] = None /\ ~Holding(k)
    <3>1. /\ SharedInv(k) /\ ~Holding(k) /\ redis' = redis
          /\ redis[k] # None =>
               k \in q.active /\ redis[k] # version[k] /\ ~Overlapping(w, k)
      BY <1>2, <2>1 DEF CacheInv
    <3>2. \A v \in Writers \ {w} : WillDelete(v, k) => Overlapping(w, k)
      BY DEF WillDelete, WillFind, Overlapping
    <3>3. k \in q.active => ~WillDelete(w, k)
      BY <1>0 DEF WillDelete
    <3> QED BY <3>1, <3>2, <3>3 DEF SharedInv
  <2> QED BY <1>0, <1>1, <1>3, <1>4, <2>1
          DEF WillFind, WillDelete, WillEvict, Active
<1>7. \A k \in Keys : redis'[k] = redis[k]
  BY <1>2
<1> QED BY <1>1, <1>2, <1>4, <1>5, <1>6, <1>7, QuietWriterEffect

LEMMA FlushEffect ==
  ASSUME CacheInv, NEW w \in Writers, NEW p \in Processes, Flush(w, p)
  PROVE  WriterEffect(w)
<1> DEFINE q == writer[w]
           new == [q EXCEPT !.pc = "publish", !.proc = p, !.found = Keys]
<1>0. TypeOK /\ q \in WriterRow /\ q.pc = "idle"
  BY RowFields DEF CacheInv, Flush
<1>1. /\ new \in WriterRow /\ new.pc = "publish" /\ new.proc = p
      /\ new.found = Keys
  BY <1>0 DEF WriterRow
<1>2. /\ Write(w, new)
      /\ UNCHANGED <<version, l1, channel, deaf, reader, faults>>
      /\ redis' = [k \in Keys |-> None] /\ index' = [t \in Tags |-> {}]
      /\ raced' = raced \union {k \in Keys : Holding(k)}
  BY DEF Flush, Race
<1> HIDE DEF new
<1>3. /\ writer' \in [Writers -> WriterRow] /\ writer'[w] = new
  BY <1>0, <1>1, <1>2, WriteEffect
<1>4. /\ redis' \in [Keys -> Nat \union {None}]
      /\ index' \in [Tags -> SUBSET Keys]
      /\ raced \subseteq raced' /\ raced' \subseteq Keys
      /\ faults' \in 0..MaxFaults
  BY <1>0, <1>2 DEF TypeOK
<1>5. WriterInv(w)'
  BY <1>0, <1>1, <1>3 DEF WriterInv, Active
<1>6. ASSUME NEW k \in Keys \ raced'
      PROVE  redis'[k] = None /\ ~Holding(k) /\ WillEvict(w, k)'
  BY <1>1, <1>2, <1>3 DEF WillEvict, Active
<1> QED BY <1>1, <1>2, <1>4, <1>5, <1>6, QuietWriterEffect

LEMMA PublishEffect ==
  ASSUME CacheInv, NEW w \in Writers, Publish(w)
  PROVE  WriterEffect(w)
<1> DEFINE q == writer[w]
<1>0. /\ TypeOK /\ q \in WriterRow /\ q.proc \in Processes
      /\ q.found \subseteq Keys
      /\ q.pc = "publish" \/ (q.pc = "tags" /\ q.tags = {})
  BY RowFields DEF CacheInv, WriterInv, Active, Publish
<1>2. /\ Write(w, DoneWriter)
      /\ UNCHANGED <<version, redis, index, deaf, reader, faults, raced>>
      /\ l1' = [l1 EXCEPT ![q.proc] = Without(@, q.found)]
      /\ channel' = [p \in Processes |->
                       IF q.found = {} \/ p \in deaf THEN channel[p]
                       ELSE Append(channel[p], q.found)]
  BY DEF Publish, store
<1>3. /\ writer' \in [Writers -> WriterRow] /\ writer'[w] = DoneWriter
      /\ \A v \in Writers \ {w} : writer'[v] = writer[v]
  BY <1>0, <1>2, BlankTypes, WriteEffect
<1>4. /\ l1' \in [Processes -> [Keys -> Nat \union {None}]]
      /\ \A k \in q.found : l1'[q.proc][k] = None
      /\ \A o \in Processes, k \in Keys : l1'[o][k] \in {None, l1[o][k]}
  BY <1>0, <1>2, EvictEffect
<1>5. channel' \in [Processes -> Seq(SUBSET Keys)]
  BY <1>0, <1>2 DEF TypeOK
<1>6. TypeOK'
  BY <1>0, <1>2, <1>3, <1>4, <1>5 DEF TypeOK
<1>7. DoneWriter.pc = "done" /\ DoneWriter.found = {}
  BY DEF DoneWriter, NewWriter
<1>8. WriterInv(w)'
  BY <1>3, <1>7 DEF WriterInv, Active
<1>9. ASSUME NEW p \in Processes \ deaf, NEW k \in Keys
      PROVE  /\ Told(p, k) => Told(p, k)'
             /\ k \in q.found => Told(p, k)'
  <2>1. channel[p] \in Seq(SUBSET Keys)
    BY <1>0 DEF TypeOK
  <2>2. CASE q.found = {}
    BY <1>2, <2>2 DEF Told
  <2>3. CASE q.found # {}
    <3>1. channel'[p] = Append(channel[p], q.found)
      BY <1>2, <2>3
    <3>2. /\ Len(channel'[p]) = Len(channel[p]) + 1
          /\ \A i \in 1..Len(channel[p]) : channel'[p][i] = channel[p][i]
          /\ channel'[p][Len(channel[p]) + 1] = q.found
          /\ Len(channel[p]) \in Nat
      BY <1>0, <2>1, <3>1
    <3> QED BY <3>2 DEF Told
  <2> QED BY <2>2, <2>3
<1>10. \A k \in Keys : ~WillFind(w, k) /\ ~WillDelete(w, k)
  BY <1>0 DEF WillFind, WillDelete
<1> QED BY <1>0, <1>2, <1>3, <1>4, <1>6, <1>8, <1>9, <1>10
        DEF WriterEffect, WillEvict

LEMMA InvalidationFailsEffect ==
  ASSUME CacheInv, NEW w \in Writers, InvalidationFails(w)
  PROVE  WriterEffect(w)
<1> DEFINE q == writer[w]
<1>0. /\ TypeOK /\ q \in WriterRow /\ q.proc \in Processes
      /\ q.found \subseteq Keys /\ WriterInv(w)
      /\ ClearsKeys[w] \subseteq Keys /\ ClearsTags[w] \subseteq Tags
      /\ Changes[w] \subseteq Keys
  BY RowFields, TagCacheAssumption
  DEF CacheInv, WriterInv, Active, InvalidationFails
<1>1. /\ UNCHANGED <<version, redis, index, l1, channel, deaf, reader>>
      /\ raced' = raced \union Changes[w] \union q.found
      /\ faults' = faults + 1 /\ faults < MaxFaults
  BY DEF InvalidationFails, Race, store
<1>2. PICK new \in WriterRow :
        /\ Write(w, new)
        /\ new.proc \in Processes \/ new.pc = "done"
        /\ new.pc \in {"tags", "done"}
  <2>1. CASE q.pc = "keys" /\ Write(w, [q EXCEPT !.pc = "tags",
                                !.tags = ClearsTags[w], !.found = ClearsKeys[w]])
    <3> DEFINE n == [q EXCEPT !.pc = "tags", !.tags = ClearsTags[w],
                              !.found = ClearsKeys[w]]
    <3>1. n \in WriterRow /\ n.proc = q.proc /\ n.pc = "tags"
      BY <1>0 DEF WriterRow
    <3> QED BY <1>0, <2>1, <3>1
  <2>2. ASSUME NEW t \in q.tags, q.pc = "tags",
               Write(w, [q EXCEPT !.tags = @ \ {t}])
        PROVE  \E n \in WriterRow : /\ Write(w, n)
                                    /\ n.proc \in Processes \/ n.pc = "done"
                                    /\ n.pc \in {"tags", "done"}
    <3> DEFINE n == [q EXCEPT !.tags = @ \ {t}]
    <3>1. n \in WriterRow /\ n.proc = q.proc /\ n.pc = "tags"
      BY <1>0, <2>2 DEF WriterRow
    <3> QED BY <1>0, <2>2, <3>1
  <2>3. CASE Write(w, [q EXCEPT !.pc = "tags"])
    <3> DEFINE n == [q EXCEPT !.pc = "tags"]
    <3>1. n \in WriterRow /\ n.proc = q.proc /\ n.pc = "tags"
      BY <1>0 DEF WriterRow
    <3> QED BY <1>0, <2>3, <3>1
  <2>4. CASE Write(w, DoneWriter)
    <3>1. DoneWriter.pc = "done"
      BY DEF DoneWriter, NewWriter
    <3> QED BY <2>4, <3>1, BlankTypes
  <2> QED BY <2>1, <2>2, <2>3, <2>4 DEF InvalidationFails
<1>3. writer' \in [Writers -> WriterRow] /\ writer'[w] = new
  BY <1>0, <1>2, WriteEffect
<1>4. WriterInv(w)'
  BY <1>2, <1>3 DEF WriterInv, Active
<1>5. \A k \in Keys \ raced' :
        ~WillFind(w, k) /\ ~WillDelete(w, k) /\ ~WillEvict(w, k)
  BY <1>1 DEF WillFind, WillDelete, WillEvict
<1>6. /\ redis' \in [Keys -> Nat \union {None}]
      /\ index' \in [Tags -> SUBSET Keys]
      /\ raced \subseteq raced' /\ raced' \subseteq Keys
      /\ faults' \in 0..MaxFaults
  BY <1>0, <1>1, TagCacheAssumption DEF TypeOK
<1>7. /\ \A k \in Keys : redis'[k] = redis[k]
      /\ \A k \in Keys, t \in Tags : k \in index[t] => k \in index'[t]
  BY <1>1
<1> QED BY <1>1, <1>2, <1>4, <1>5, <1>6, <1>7, QuietWriterEffect

LEMMA WriterStepEffect ==
  ASSUME CacheInv, NEW w \in Writers,
         \/ WriterStep(w) \/ InvalidationFails(w)
         \/ \E p \in Processes : Commit(w, p) \/ Flush(w, p)
  PROVE  WriterEffect(w)
BY CommitEffect, DeleteKeysEffect, ReadTagEffect, DeleteActiveEffect,
   DropTagEffect, FlushEffect, PublishEffect, InvalidationFailsEffect
DEF WriterStep

-----------------------------------------------------------------------------
(* Each kind of step keeps the invariant.                                  *)

LEMMA ReaderStepKeeps ==
  ASSUME CacheInv, NEW r \in Readers, ReaderEffect(r)
  PROVE  CacheInv'
<1>0. /\ TypeOK /\ TypeOK' /\ raced \subseteq raced'
      /\ UNCHANGED <<version, writer, channel, deaf>>
      /\ \A k \in Keys : version[k] \in Nat /\ version[k] # None
  BY TagCacheAssumption DEF CacheInv, ReaderEffect, TypeOK
<1>1. ASSUME NEW s \in Readers  PROVE ReaderInv(s)'
  <2>1. CASE s = r
    BY <2>1 DEF ReaderEffect
  <2>2. CASE s # r
    <3>1. reader'[s] = reader[s] /\ ReaderInv(s)
      BY <2>2 DEF ReaderEffect, CacheInv
    <3>2. /\ \A k \in Keys \ raced' :
               redis'[k] = redis[k] \/ redis'[k] = version[k]
          /\ \A k \in Keys, t \in Tags : k \in index[t] => k \in index'[t]
      BY DEF ReaderEffect
    <3>3. reader[s].key \in Keys => TagsOf[reader[s].key] \subseteq Tags
      BY TagCacheAssumption
    <3> QED BY <1>0, <3>1, <3>2, <3>3 DEF ReaderInv
  <2> QED BY <2>1, <2>2
<1>2. \A w \in Writers : WriterInv(w)'
  BY <1>0 DEF CacheInv, WriterInv, Active
<1>3. \A k \in Keys :
        /\ Indexed(k) => Indexed(k)'
        /\ \A w \in Writers : /\ WillFind(w, k) => WillFind(w, k)'
                              /\ WillDelete(w, k) => WillDelete(w, k)'
        /\ \A p \in Processes : OnItsWayOut(p, k) => OnItsWayOut(p, k)'
  BY <1>0, TagCacheAssumption
  DEF Indexed, WillFind, WillDelete, OnItsWayOut, Told, WillEvict, Active,
      ReaderEffect
<1>4. ASSUME NEW k \in Keys \ raced'
      PROVE  /\ SharedInv(k)'
             /\ IndexInv(k)'
             /\ \A p \in Processes \ deaf' : OrphanInv(p, k)' /\ LocalInv(p, k)'
  <2>0. /\ SharedInv(k) /\ IndexInv(k)
        /\ \A p \in Processes \ deaf' : OrphanInv(p, k) /\ LocalInv(p, k)
    BY <1>0 DEF CacheInv
  <2>1. /\ \/ redis'[k] = redis[k]
           \/ redis'[k] = version[k] /\ Indexing(k)'
        /\ \A p \in Processes : \/ l1'[p][k] = l1[p][k]
                                \/ l1'[p][k] = version[k] /\ redis[k] # None
        /\ version'[k] = version[k]
    BY <1>0 DEF ReaderEffect
  <2>2. SharedInv(k)'
    BY <1>3, <2>0, <2>1 DEF SharedInv
  <2>3. IndexInv(k)'
    <3>1. Indexing(k) => Indexing(k)' \/ Indexed(k)'
      BY DEF Indexing, ReaderEffect
    <3> QED BY <1>3, <2>0, <2>1, <3>1 DEF IndexInv
  <2>4. ASSUME NEW p \in Processes \ deaf'
        PROVE  OrphanInv(p, k)' /\ LocalInv(p, k)'
    <3>1. OrphanInv(p, k)'
      BY <1>0, <1>3, <2>0, <2>1 DEF OrphanInv
    <3>2. LocalInv(p, k)'
      BY <1>0, <1>3, <2>0, <2>1 DEF LocalInv
    <3> QED BY <3>1, <3>2
  <2> QED BY <2>2, <2>3, <2>4
<1> QED BY <1>0, <1>1, <1>2, <1>4 DEF CacheInv

LEMMA WriterStepKeeps ==
  ASSUME CacheInv, NEW w \in Writers, WriterEffect(w)
  PROVE  CacheInv'
<1>0. /\ TypeOK /\ TypeOK' /\ raced \subseteq raced'
      /\ UNCHANGED <<reader, deaf>>
      /\ \A v \in Writers \ {w} : writer'[v] = writer[v]
      /\ \A k \in Keys : version[k] \in Nat /\ version[k] # None
  BY TagCacheAssumption DEF CacheInv, WriterEffect, TypeOK
<1>1. ASSUME NEW r \in Readers  PROVE ReaderInv(r)'
  <2>0. ReaderInv(r) /\ reader'[r] = reader[r]
    BY <1>0 DEF CacheInv
  <2>1. ASSUME reader[r].key \in Keys \ raced',
               reader[r].pc \in {"copy", "set", "index"}
        PROVE  /\ Holding(reader[r].key)
               /\ version'[reader[r].key] = version[reader[r].key]
               /\ redis'[reader[r].key] = redis[reader[r].key]
               /\ \A t \in Tags : reader[r].key \in index[t] =>
                                    reader[r].key \in index'[t]
    <3>1. Holding(reader[r].key)
      BY <2>1 DEF Holding
    <3> QED BY <2>1, <3>1 DEF WriterEffect
  <2>2. reader[r].key \in Keys => TagsOf[reader[r].key] \subseteq Tags
    BY TagCacheAssumption
  <2> QED BY <1>0, <2>0, <2>1, <2>2 DEF ReaderInv
<1>2. \A v \in Writers : WriterInv(v)'
  BY <1>0 DEF CacheInv, WriterInv, Active, WriterEffect
<1>3. ASSUME NEW k \in Keys, NEW v \in Writers \ {w}
      PROVE  /\ WillFind(v, k) => WillFind(v, k)'
             /\ WillDelete(v, k) => WillDelete(v, k)'
             /\ WillEvict(v, k) => WillEvict(v, k)'
  BY <1>0 DEF WillFind, WillDelete, WillEvict, Active
<1>4. ASSUME NEW k \in Keys \ raced'
      PROVE  /\ SharedInv(k)'
             /\ IndexInv(k)'
             /\ \A p \in Processes \ deaf' : OrphanInv(p, k)' /\ LocalInv(p, k)'
  <2>0. /\ SharedInv(k) /\ IndexInv(k)
        /\ \A p \in Processes \ deaf : OrphanInv(p, k) /\ LocalInv(p, k)
        /\ redis[k] \in Nat \union {None}
    BY <1>0 DEF CacheInv, TypeOK
  <2>1. /\ \/ version'[k] = version[k]
           \/ ~Holding(k) /\ WillFind(w, k)' /\ WillDelete(w, k)'
        /\ \/ redis'[k] = redis[k]
           \/ redis'[k] = None /\ ~Holding(k) /\ WillEvict(w, k)'
        /\ \/ \A t \in Tags : k \in index[t] => k \in index'[t]
           \/ ~Holding(k) /\ redis'[k] = None
        /\ WillFind(w, k) /\ Indexed(k) => WillFind(w, k)' \/ WillEvict(w, k)'
        /\ WillDelete(w, k) /\ Indexed(k) =>
             WillDelete(w, k)' \/ redis'[k] = None
    BY DEF WriterEffect
  <2>2. Indexing(k) => Holding(k) /\ redis[k] = version[k] /\ Indexing(k)'
    BY <1>0 DEF Indexing, Holding, CacheInv, ReaderInv
  <2>3. Indexed(k) => Indexed(k)' \/ redis'[k] = None
    BY <2>1, TagCacheAssumption DEF Indexed
  <2>4. SharedInv(k)'
    <3> SUFFICES ASSUME redis'[k] # None, redis'[k] # version'[k]
                 PROVE  \E v \in Writers : WillDelete(v, k)'
      BY DEF SharedInv
    <3>1. redis'[k] = redis[k]
      BY <2>1
    <3>2. CASE version'[k] = version[k]
      <4>1. PICK v \in Writers : WillDelete(v, k)
        BY <2>0, <3>1, <3>2 DEF SharedInv
      <4>2. CASE v = w
        <5>1. Indexed(k)
          BY <2>0, <2>2, <3>1, <3>2 DEF IndexInv
        <5> QED BY <2>1, <4>1, <4>2, <5>1
      <4>3. CASE v # w
        BY <1>3, <4>1, <4>3
      <4> QED BY <4>2, <4>3
    <3>3. CASE WillDelete(w, k)'
      BY <3>3
    <3> QED BY <2>1, <3>2, <3>3
  <2>5. IndexInv(k)'
    BY <2>0, <2>1, <2>2, <2>3 DEF IndexInv
  <2>6. ASSUME NEW p \in Processes \ deaf
        PROVE  OrphanInv(p, k)' /\ LocalInv(p, k)'
    <3>1. /\ l1'[p][k] \in {None, l1[p][k]}
          /\ Told(p, k) => Told(p, k)'
          /\ WillEvict(w, k) =>
               WillEvict(w, k)' \/ l1'[p][k] = None \/ Told(p, k)'
      BY DEF WriterEffect
    <3>2. OnItsWayOut(p, k) => OnItsWayOut(p, k)' \/ l1'[p][k] = None
      BY <1>3, <3>1 DEF OnItsWayOut
    <3>3. WillEvict(w, k)' => OnItsWayOut(p, k)'
      BY DEF OnItsWayOut
    <3>4. OrphanInv(p, k)'
      BY <2>0, <2>1, <3>1, <3>2, <3>3 DEF OrphanInv
    <3>5. LocalInv(p, k)'
      <4> SUFFICES ASSUME l1'[p][k] # None, l1'[p][k] # version'[k],
                          ~OnItsWayOut(p, k)'
                   PROVE  Indexed(k)' /\ \E v \in Writers : WillFind(v, k)'
        BY DEF LocalInv
      <4>1. l1'[p][k] = l1[p][k] /\ ~OnItsWayOut(p, k)
        BY <3>1, <3>2
      <4>2. redis'[k] # None
        BY <3>4 DEF OrphanInv
      <4>3. redis[k] # None
        BY <2>0, <4>1 DEF OrphanInv
      <4>4. CASE version'[k] = version[k]
        <5>1. PICK v \in Writers : Indexed(k) /\ WillFind(v, k)
          BY <2>0, <4>1, <4>4 DEF LocalInv
        <5>2. WillFind(v, k)'
          BY <1>3, <2>1, <3>3, <5>1
        <5> QED BY <2>3, <4>2, <5>1, <5>2
      <4>5. CASE ~Holding(k) /\ WillFind(w, k)'
        <5>1. Indexed(k)
          BY <2>0, <2>2, <4>3, <4>5 DEF IndexInv
        <5> QED BY <2>3, <4>2, <4>5, <5>1
      <4> QED BY <2>1, <4>4, <4>5
    <3> QED BY <3>4, <3>5
  <2> QED BY <1>0, <2>4, <2>5, <2>6
<1> QED BY <1>0, <1>1, <1>2, <1>4 DEF CacheInv

(* A step that only takes local copies and messages away, or a listener.   *)
LEMMA EvictionKeeps ==
  ASSUME CacheInv, TypeOK',
         UNCHANGED <<version, redis, index, reader, writer, raced>>,
         deaf \subseteq deaf',
         \A p \in Processes \ deaf', k \in Keys :
           /\ l1'[p][k] \in {None, l1[p][k]}
           /\ Told(p, k) => Told(p, k)' \/ l1'[p][k] = None
  PROVE  CacheInv'
<1>1. \A r \in Readers : ReaderInv(r)'
  BY DEF CacheInv, ReaderInv
<1>2. \A w \in Writers : WriterInv(w)'
  BY DEF CacheInv, WriterInv, Active
<1>3. \A k \in Keys :
        /\ Indexed(k)' = Indexed(k) /\ Indexing(k)' = Indexing(k)
        /\ \A w \in Writers : /\ WillFind(w, k)' = WillFind(w, k)
                              /\ WillDelete(w, k)' = WillDelete(w, k)
                              /\ WillEvict(w, k)' = WillEvict(w, k)
  BY DEF Indexed, Indexing, WillFind, WillDelete, WillEvict, Active
<1>4. ASSUME NEW k \in Keys \ raced'
      PROVE  /\ SharedInv(k)'
             /\ IndexInv(k)'
             /\ \A p \in Processes \ deaf' : OrphanInv(p, k)' /\ LocalInv(p, k)'
  <2>0. /\ SharedInv(k) /\ IndexInv(k)
        /\ \A p \in Processes \ deaf' : OrphanInv(p, k) /\ LocalInv(p, k)
    BY DEF CacheInv
  <2>1. SharedInv(k)' /\ IndexInv(k)'
    BY <1>3, <2>0 DEF SharedInv, IndexInv
  <2>2. ASSUME NEW p \in Processes \ deaf'
        PROVE  OrphanInv(p, k)' /\ LocalInv(p, k)'
    <3>1. OnItsWayOut(p, k) => OnItsWayOut(p, k)' \/ l1'[p][k] = None
      BY <1>3 DEF OnItsWayOut
    <3> QED BY <1>3, <2>0, <3>1 DEF OrphanInv, LocalInv
  <2> QED BY <2>1, <2>2
<1> QED BY <1>1, <1>2, <1>4 DEF CacheInv

LEMMA ListenKeeps ==
  ASSUME CacheInv, NEW p \in Processes, Listen(p)
  PROVE  CacheInv'
<1>0. /\ TypeOK /\ channel[p] \in Seq(SUBSET Keys) /\ channel[p] # <<>>
      /\ UNCHANGED <<version, redis, index, deaf, reader, writer, faults,
                     raced>>
      /\ l1' = [l1 EXCEPT ![p] = Without(@, Head(channel[p]))]
      /\ channel' = [channel EXCEPT ![p] = Tail(@)]
  BY DEF CacheInv, TypeOK, Listen, store
<1>1. Head(channel[p]) \in SUBSET Keys
  BY <1>0
<1>2. /\ l1' \in [Processes -> [Keys -> Nat \union {None}]]
      /\ \A k \in Head(channel[p]) : l1'[p][k] = None
      /\ \A o \in Processes, k \in Keys : l1'[o][k] \in {None, l1[o][k]}
  BY <1>0, <1>1, EvictEffect
<1>3. /\ channel' \in [Processes -> Seq(SUBSET Keys)]
      /\ channel'[p] = Tail(channel[p])
      /\ \A o \in Processes \ {p} : channel'[o] = channel[o]
  BY <1>0 DEF TypeOK
<1>4. TypeOK'
  BY <1>0, <1>2, <1>3 DEF TypeOK
<1>5. ASSUME NEW o \in Processes, NEW k \in Keys, Told(o, k)
      PROVE  Told(o, k)' \/ l1'[o][k] = None
  <2>1. CASE o # p
    BY <1>3, <1>5, <2>1 DEF Told
  <2>2. CASE o = p
    <3>1. PICK i \in 1..Len(channel[p]) : k \in channel[p][i]
      BY <1>5, <2>2 DEF Told
    <3>2. CASE i = 1
      BY <1>0, <1>2, <2>2, <3>1, <3>2
    <3>3. CASE i # 1
      <4>1. /\ i - 1 \in 1..Len(Tail(channel[p]))
            /\ Tail(channel[p])[i - 1] = channel[p][i]
        BY <1>0, <3>1, <3>3
      <4> QED BY <1>3, <2>2, <3>1, <4>1 DEF Told
    <3> QED BY <3>2, <3>3
  <2> QED BY <2>1, <2>2
<1> QED BY <1>0, <1>2, <1>4, <1>5, EvictionKeeps

LEMMA ListenerEndsKeeps ==
  ASSUME CacheInv, NEW p \in Processes, ListenerEnds(p)
  PROVE  CacheInv'
<1>0. /\ TypeOK /\ faults < MaxFaults /\ faults' = faults + 1
      /\ UNCHANGED <<version, redis, index, l1, reader, writer, raced>>
      /\ deaf' = deaf \union {p}
      /\ channel' = [channel EXCEPT ![p] = <<>>]
  BY DEF CacheInv, ListenerEnds, store
<1>1. /\ channel' \in [Processes -> Seq(SUBSET Keys)]
      /\ \A o \in Processes \ {p} : channel'[o] = channel[o]
  BY <1>0 DEF TypeOK
<1>2. TypeOK'
  BY <1>0, <1>1, TagCacheAssumption DEF TypeOK
<1>3. \A o \in Processes \ deaf', k \in Keys : Told(o, k) => Told(o, k)'
  BY <1>0, <1>1 DEF Told
<1> QED BY <1>0, <1>2, <1>3, EvictionKeeps

LEMMA EvictKeeps ==
  ASSUME CacheInv, NEW p \in Processes, NEW k \in Keys, Evict(p, k)
  PROVE  CacheInv'
<1>0. /\ TypeOK
      /\ UNCHANGED <<version, redis, index, channel, deaf, reader, writer,
                     faults, raced>>
      /\ l1' = [l1 EXCEPT ![p][k] = None]
  BY DEF CacheInv, Evict, store
<1>1. /\ l1' \in [Processes -> [Keys -> Nat \union {None}]]
      /\ \A o \in Processes, j \in Keys : l1'[o][j] \in {None, l1[o][j]}
  BY <1>0 DEF TypeOK
<1>2. TypeOK'
  BY <1>0, <1>1 DEF TypeOK
<1>3. \A o \in Processes, j \in Keys : Told(o, j) => Told(o, j)'
  BY <1>0 DEF Told
<1> QED BY <1>0, <1>1, <1>2, <1>3, EvictionKeeps

LEMMA ExpireKeeps ==
  ASSUME CacheInv, NEW k \in Keys, Expire(k)
  PROVE  CacheInv'
<1>0. /\ TypeOK
      /\ UNCHANGED <<version, l1, channel, deaf, reader, writer, faults>>
      /\ redis' = [redis EXCEPT ![k] = None]
      /\ index' = [t \in Tags |-> index[t] \ {k}]
      /\ raced' = raced \union
                    (IF Holding(k) \/ \E p \in Processes : l1[p][k] # None
                     THEN {k} ELSE {})
  BY DEF CacheInv, Expire, Race
<1>1. /\ redis' \in [Keys -> Nat \union {None}] /\ redis'[k] = None
      /\ index' \in [Tags -> SUBSET Keys]
      /\ raced \subseteq raced' /\ raced' \subseteq Keys
      /\ \A j \in Keys \ {k} : /\ redis'[j] = redis[j]
                               /\ \A t \in Tags : j \in index'[t] <=> j \in index[t]
      /\ k \notin raced' => ~Holding(k) /\ \A p \in Processes : l1[p][k] = None
  BY <1>0 DEF TypeOK
<1>2. TypeOK'
  BY <1>0, <1>1 DEF TypeOK
<1>3. ASSUME NEW r \in Readers  PROVE ReaderInv(r)'
  <2>1. /\ ReaderInv(r)
        /\ reader[r].key = k /\ k \notin raced' =>
             reader[r].pc \notin {"copy", "set", "index"}
        /\ reader[r].key \in Keys => TagsOf[reader[r].key] \subseteq Tags
    BY <1>1, TagCacheAssumption DEF CacheInv, Holding
  <2> QED BY <1>0, <1>1, <2>1 DEF ReaderInv
<1>4. \A w \in Writers : WriterInv(w)'
  BY <1>0 DEF CacheInv, WriterInv, Active
<1>5. ASSUME NEW j \in Keys \ raced'
      PROVE  /\ SharedInv(j)'
             /\ IndexInv(j)'
             /\ \A p \in Processes \ deaf' : OrphanInv(p, j)' /\ LocalInv(p, j)'
  <2>1. CASE j = k
    BY <1>0, <1>1, <2>1 DEF SharedInv, IndexInv, OrphanInv, LocalInv
  <2>2. CASE j # k
    <3>0. /\ SharedInv(j) /\ IndexInv(j)
          /\ \A p \in Processes \ deaf' : OrphanInv(p, j) /\ LocalInv(p, j)
      BY <1>0, <1>1 DEF CacheInv
    <3>1. /\ Indexed(j)' <=> Indexed(j)
          /\ Indexing(j)' <=> Indexing(j)
          /\ \A w \in Writers : /\ WillFind(w, j)' <=> WillFind(w, j)
                                /\ WillDelete(w, j)' <=> WillDelete(w, j)
                                /\ WillEvict(w, j)' <=> WillEvict(w, j)
          /\ \A p \in Processes : Told(p, j)' <=> Told(p, j)
      <4>1. Indexed(j)' <=> Indexed(j)
        <5>1. TagsOf[j] \subseteq Tags
          BY TagCacheAssumption
        <5> QED BY <1>1, <2>2, <5>1 DEF Indexed
      <4>2. Indexing(j)' <=> Indexing(j)
        BY <1>0 DEF Indexing
      <4>3. \A w \in Writers : /\ WillFind(w, j)' <=> WillFind(w, j)
                               /\ WillDelete(w, j)' <=> WillDelete(w, j)
                               /\ WillEvict(w, j)' <=> WillEvict(w, j)
        BY <1>0 DEF WillFind, WillDelete, WillEvict, Active
      <4>4. \A p \in Processes : Told(p, j)' <=> Told(p, j)
        BY <1>0 DEF Told
      <4> QED BY <4>1, <4>2, <4>3, <4>4
    <3>2. redis'[j] = redis[j] /\ version' = version /\ l1' = l1
      BY <1>0, <1>1, <2>2
    <3>3. SharedInv(j)' /\ IndexInv(j)'
      BY <3>0, <3>1, <3>2 DEF SharedInv, IndexInv
    <3>4. \A p \in Processes \ deaf' : OrphanInv(p, j)' /\ LocalInv(p, j)'
      BY <3>0, <3>1, <3>2 DEF OrphanInv, LocalInv, OnItsWayOut
    <3> QED BY <3>3, <3>4
  <2> QED BY <2>1, <2>2
<1> QED BY <1>2, <1>3, <1>4, <1>5 DEF CacheInv

LEMMA RestartKeeps ==
  ASSUME CacheInv, NEW p \in Processes, Restart(p)
  PROVE  CacheInv'
<1>0. /\ TypeOK /\ faults < MaxFaults /\ faults' = faults + 1
      /\ UNCHANGED <<version, redis, index>>
      /\ deaf' = deaf \ {p}
      /\ l1' = [l1 EXCEPT ![p] = [k \in Keys |-> None]]
      /\ channel' = [channel EXCEPT ![p] = <<>>]
      /\ reader' = [r \in Readers |-> IF reader[r].proc = p THEN ServedReader
                                      ELSE reader[r]]
      /\ writer' = [w \in Writers |-> IF writer[w].proc = p THEN DoneWriter
                                      ELSE writer[w]]
  BY DEF CacheInv, Restart, store
<1>1. /\ l1' \in [Processes -> [Keys -> Nat \union {None}]]
      /\ \A k \in Keys : l1'[p][k] = None
      /\ \A o \in Processes \ {p} : l1'[o] = l1[o]
      /\ channel' \in [Processes -> Seq(SUBSET Keys)]
      /\ \A o \in Processes \ {p} : channel'[o] = channel[o]
  BY <1>0 DEF TypeOK
<1>2. /\ raced \subseteq raced' /\ raced' \subseteq Keys
      /\ \A w \in Writers : writer[w].proc = p =>
           Changes[w] \union writer[w].found \subseteq raced'
      /\ \A r \in Readers : reader[r].proc = p /\ reader[r].pc = "index" =>
           reader[r].key \in raced'
  <2> DEFINE Lost == UNION {Changes[w] \union writer[w].found :
                            w \in {v \in Writers : writer[v].proc = p}}
             Half == {reader[r].key : r \in {s \in Readers :
                        reader[s].proc = p /\ reader[s].pc = "index"}}
  <2>1. raced' = raced \union (Lost \union Half)
    BY DEF Restart, Race
  <2>2. /\ raced \subseteq Keys
        /\ \A w \in Writers : Changes[w] \union writer[w].found \subseteq Keys
        /\ \A r \in Readers : reader[r].pc = "index" => reader[r].key \in Keys
    BY <1>0, RowFields, TagCacheAssumption DEF CacheInv, ReaderInv, TypeOK
  <2>3. ASSUME NEW w \in Writers, writer[w].proc = p
        PROVE  Changes[w] \union writer[w].found \subseteq Lost
    BY <2>3
  <2>4. ASSUME NEW r \in Readers, reader[r].proc = p, reader[r].pc = "index"
        PROVE  reader[r].key \in Half
    <3>1. r \in {s \in Readers : reader[s].proc = p /\ reader[s].pc = "index"}
      BY <2>4
    <3> QED BY <3>1, Zenon
  <2>5. Lost \subseteq Keys
    BY <2>2
  <2>6. Half \subseteq Keys
    BY <2>2, Zenon
  <2> HIDE DEF Lost, Half
  <2> QED BY <2>1, <2>2, <2>3, <2>4, <2>5, <2>6
<1>3. /\ reader' \in [Readers -> ReaderRow] /\ writer' \in [Writers -> WriterRow]
      /\ \A r \in Readers : reader'[r].pc = "done" \/ reader'[r] = reader[r]
      /\ \A w \in Writers : \/ /\ writer'[w].pc = "done"
                            \/ writer'[w] = writer[w]
  <2>1. ServedReader.pc = "done" /\ DoneWriter.pc = "done"
    BY DEF ServedReader, DoneWriter, NewReader, NewWriter
  <2> QED BY <1>0, <2>1, BlankTypes DEF TypeOK
<1>4. TypeOK'
  BY <1>0, <1>1, <1>2, <1>3, TagCacheAssumption DEF TypeOK
<1>5. ASSUME NEW r \in Readers  PROVE ReaderInv(r)'
  BY <1>0, <1>2, <1>3 DEF CacheInv, ReaderInv
<1>6. ASSUME NEW w \in Writers  PROVE WriterInv(w)'
  BY <1>3 DEF CacheInv, WriterInv, Active
<1>7. ASSUME NEW k \in Keys \ raced'
      PROVE  /\ SharedInv(k)'
             /\ IndexInv(k)'
             /\ \A o \in Processes \ deaf' : OrphanInv(o, k)' /\ LocalInv(o, k)'
  <2>0. /\ SharedInv(k) /\ IndexInv(k)
        /\ \A o \in Processes \ deaf : OrphanInv(o, k) /\ LocalInv(o, k)
    BY <1>2 DEF CacheInv
  <2>1. ASSUME NEW w \in Writers
        PROVE  /\ WillFind(w, k) => WillFind(w, k)'
               /\ WillDelete(w, k) => WillDelete(w, k)'
               /\ WillEvict(w, k) => WillEvict(w, k)'
    <3>1. CASE writer[w].proc = p
      BY <1>2, <3>1 DEF WillFind, WillDelete, WillEvict
    <3>2. CASE writer[w].proc # p
      <4>1. writer'[w] = writer[w]
        BY <1>0, <3>2
      <4> QED BY <4>1 DEF WillFind, WillDelete, WillEvict, Active
    <3> QED BY <3>1, <3>2
  <2>2. Indexed(k)' = Indexed(k)
    BY <1>0 DEF Indexed
  <2>3. Indexing(k) => Indexing(k)'
    BY <1>0, <1>2 DEF Indexing
  <2>4. SharedInv(k)' /\ IndexInv(k)'
    BY <1>0, <2>0, <2>1, <2>2, <2>3 DEF SharedInv, IndexInv
  <2>5. ASSUME NEW o \in Processes \ deaf'
        PROVE  OrphanInv(o, k)' /\ LocalInv(o, k)'
    <3>1. CASE o = p
      BY <1>1, <3>1 DEF OrphanInv, LocalInv
    <3>2. CASE o # p
      <4>1. /\ OrphanInv(o, k) /\ LocalInv(o, k) /\ l1'[o] = l1[o]
            /\ OnItsWayOut(o, k) => OnItsWayOut(o, k)'
        BY <1>0, <1>1, <2>0, <2>1, <3>2 DEF OnItsWayOut, Told
      <4> QED BY <1>0, <2>1, <2>2, <4>1 DEF OrphanInv, LocalInv
    <3> QED BY <3>1, <3>2
  <2> QED BY <2>4, <2>5
<1> QED BY <1>4, <1>5, <1>6, <1>7 DEF CacheInv

-----------------------------------------------------------------------------

LEMMA InvariantInit == ASSUME Init PROVE CacheInv
<1>1. /\ NewReader.pc = "idle" /\ NewWriter.pc = "idle" /\ NewWriter.found = {}
  BY DEF NewReader, NewWriter
<1>2. TypeOK
  BY BlankTypes, TagCacheAssumption DEF Init, TypeOK
<1>3. /\ \A r \in Readers : ReaderInv(r)
      /\ \A w \in Writers : WriterInv(w)
  BY <1>1 DEF Init, ReaderInv, WriterInv, Active
<1>4. \A k \in Keys : /\ SharedInv(k) /\ IndexInv(k)
                      /\ \A p \in Processes : OrphanInv(p, k) /\ LocalInv(p, k)
  BY DEF Init, SharedInv, IndexInv, OrphanInv, LocalInv
<1> QED BY <1>2, <1>3, <1>4 DEF CacheInv

LEMMA InvariantStep == ASSUME CacheInv, [Next]_vars PROVE CacheInv'
<1>1. CASE UNCHANGED vars
  <2>1. TypeOK'
    BY <1>1 DEF vars, store, CacheInv, TypeOK
  <2>2. \A p \in Processes, k \in Keys :
          Told(p, k) => Told(p, k)'
    BY <1>1 DEF vars, Told
  <2> QED BY <1>1, <2>1, <2>2, EvictionKeeps DEF vars, store
<1>2. ASSUME NEW r \in Readers,
             \/ ReaderStep(r) \/ FillFails(r)
             \/ \E p \in Processes, k \in Keys : Ask(r, p, k)
      PROVE  CacheInv'
  BY <1>2, ReaderStepEffect, ReaderStepKeeps
<1>3. ASSUME NEW w \in Writers,
             \/ WriterStep(w) \/ InvalidationFails(w)
             \/ \E p \in Processes : Commit(w, p) \/ Flush(w, p)
      PROVE  CacheInv'
  BY <1>3, WriterStepEffect, WriterStepKeeps
<1>4. ASSUME NEW p \in Processes,
             \/ Listen(p) \/ ListenerEnds(p) \/ Restart(p)
             \/ \E k \in Keys : Evict(p, k)
      PROVE  CacheInv'
  BY <1>4, ListenKeeps, ListenerEndsKeeps, RestartKeeps, EvictKeeps
<1>5. ASSUME NEW k \in Keys, Expire(k)  PROVE CacheInv'
  BY <1>5, ExpireKeeps
<1> QED BY <1>1, <1>2, <1>3, <1>4, <1>5 DEF Next, Finished

(* CacheInv holds in every reachable state: the strengthening the theorems *)
(* below rest on.                                                          *)
THEOREM CacheInvariance == Spec => []CacheInv
<1>1. Init => CacheInv
  BY InvariantInit
<1>2. CacheInv /\ [Next]_vars => CacheInv'
  BY InvariantStep
<1> QED BY <1>1, <1>2, PTL DEF Spec

(* Every variable keeps its type.                                          *)
THEOREM CacheTypeCorrect == Spec => []TypeOK
<1>1. CacheInv => TypeOK
  BY DEF CacheInv
<1> QED BY <1>1, CacheInvariance, PTL

(* Once every invalidation of a key has ended its copy in Redis is that of *)
(* the present rows, for any requests of any number of processes, unless a *)
(* fill or a failure raced with one of them (cache.py:181-208).            *)
THEOREM SharedCopyIsCurrentCorrect == Spec => []SharedCopyIsCurrent
<1>1. CacheInv => SharedCopyIsCurrent
  <2>1. ASSUME NEW w \in Writers, NEW k \in Keys, WillDelete(w, k)
        PROVE  Invalidating(k)
    BY <2>1 DEF WillDelete, WillFind, Invalidating
  <2> QED BY <2>1 DEF CacheInv, SharedInv, SharedCopyIsCurrent
<1> QED BY <1>1, CacheInvariance, PTL

(* A process whose listener is alive serves no older value from its own    *)
(* memory than the last ended invalidation left, but for what its channel  *)
(* still holds (cache.py:71-93, 210-216).                                  *)
THEOREM LocalCopyIsCurrentCorrect == Spec => []LocalCopyIsCurrent
<1>1. CacheInv => LocalCopyIsCurrent
  <2>1. ASSUME NEW w \in Writers, NEW k \in Keys,
               WillFind(w, k) \/ WillEvict(w, k)
        PROVE  Invalidating(k)
    BY <2>1 DEF WillFind, WillEvict, Active, Invalidating
  <2> QED BY <2>1
          DEF CacheInv, LocalInv, OnItsWayOut, Told, LocalCopyIsCurrent
<1> QED BY <1>1, CacheInvariance, PTL

(* A copy that is not being filled or invalidated is found by each of its  *)
(* tags: no later invalidation misses it (cache.py:156-159, 196-206).      *)
THEOREM IndexCoversCopiesCorrect == Spec => []IndexCoversCopies
<1>1. CacheInv => IndexCoversCopies
  <2>1. ASSUME NEW w \in Writers, NEW k \in Keys, WillEvict(w, k)
        PROVE  Invalidating(k)
    BY <2>1 DEF WillEvict, Active, Invalidating
  <2>2. \A k \in Keys : Indexing(k) => Holding(k)
    BY DEF Indexing, Holding
  <2> SUFFICES ASSUME CacheInv, NEW k \in Keys \ raced,
                      ~Invalidating(k), ~Holding(k), ~Indexed(k)
               PROVE  /\ redis[k] = None
                      /\ \A p \in Processes \ deaf : l1[p][k] = None \/ Told(p, k)
    BY DEF IndexCoversCopies, Indexed, Told
  <2>3. redis[k] = None
    BY <2>2 DEF CacheInv, IndexInv
  <2>4. \A p \in Processes \ deaf : l1[p][k] = None \/ Told(p, k)
    BY <2>1, <2>3 DEF CacheInv, OrphanInv, OnItsWayOut
  <2> QED BY <2>3, <2>4
<1> QED BY <1>1, CacheInvariance, PTL
=============================================================================
