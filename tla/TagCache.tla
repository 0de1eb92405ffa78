------------------------------ MODULE TagCache ------------------------------
(***************************************************************************)
(* The two-level cache of the backend (services/cache.py): one Redis store *)
(* with an index of keys per tag, one local cache (L1) per process, and    *)
(* the channel on which an invalidation tells every process what to evict. *)
(*                                                                         *)
(* A reader is one request of a cacheable route, a writer one request that *)
(* changes rows and then invalidates.  Every Redis command is a step, as   *)
(* the pipelines are opened with transaction=False.  A value is the        *)
(* version of the rows it was computed from.                               *)
(*                                                                         *)
(* The cache promises nothing where a fill and an invalidation overlap, a  *)
(* command fails or a process is lost: `raced' is a history variable that  *)
(* collects the keys to which that happened.  No guard reads it.           *)
(***************************************************************************)
EXTENDS Integers, Sequences, FiniteSets

CONSTANTS
  Processes, Keys, Tags,
  TagsOf,          \* the tags of the route that fills a key
  Readers, Writers,   \* bound: requests, each once
  Changes,         \* the keys whose rows a writer changes
  ClearsKeys, ClearsTags,   \* the arguments of its invalidate call
  MaxFaults,       \* bound: failing commands, lost processes, deaf listeners
  None

ASSUME TagCacheAssumption ==
  /\ TagsOf \in [Keys -> SUBSET Tags]
  /\ Changes \in [Writers -> SUBSET Keys]
  /\ ClearsKeys \in [Writers -> SUBSET Keys]
  /\ ClearsTags \in [Writers -> SUBSET Tags]
  /\ MaxFaults \in Nat
  /\ None \notin Nat /\ None \notin Processes /\ None \notin Keys
  \* the routes name what they change
  /\ \A w \in Writers : \A k \in Changes[w] :
       k \in ClearsKeys[w] \/ TagsOf[k] \intersect ClearsTags[w] # {}

VARIABLES
  version,     \* the rows behind a key
  redis,       \* the shared copies
  index,       \* tag:<tag>, the keys of a tag
  l1,          \* the copies of each process
  channel,     \* messages a process has not handled
  deaf,        \* processes whose listener has ended
  reader, writer,   \* requests and their local variables
  faults, raced

store == <<redis, index>>
vars == <<version, store, l1, channel, deaf, reader, writer, faults, raced>>

ReaderRow == [pc   : {"idle", "redis", "copy", "db", "set", "index", "done"},
              proc : Processes \union {None},
              key  : Keys \union {None},
              val  : Nat \union {None},
              tags : SUBSET Tags]          \* not indexed yet
WriterRow == [pc     : {"idle", "keys", "tags", "delete", "drop", "publish",
                        "done"},
              proc   : Processes \union {None},
              tags   : SUBSET Tags,        \* not invalidated yet
              tag    : Tags \union {None},
              active : SUBSET Keys,        \* active_keys of the tag
              found  : SUBSET Keys]        \* all_concrete_keys

NewReader == [pc |-> "idle", proc |-> None, key |-> None, val |-> None,
              tags |-> {}]
NewWriter == [pc |-> "idle", proc |-> None, tags |-> {}, tag |-> None,
              active |-> {}, found |-> {}]
ServedReader == [NewReader EXCEPT !.pc = "done"]
DoneWriter == [NewWriter EXCEPT !.pc = "done"]

Init ==
  /\ version = [k \in Keys |-> 0]
  /\ redis = [k \in Keys |-> None]
  /\ index = [t \in Tags |-> {}]
  /\ l1 = [p \in Processes |-> [k \in Keys |-> None]]
  /\ channel = [p \in Processes |-> <<>>]
  /\ deaf = {}
  /\ reader = [r \in Readers |-> NewReader]
  /\ writer = [w \in Writers |-> NewWriter]
  /\ faults = 0
  /\ raced = {}

Without(f, ks) == [k \in Keys |-> IF k \in ks THEN None ELSE f[k]]
Read(r, new) == reader' = [reader EXCEPT ![r] = new]
Write(w, new) == writer' = [writer EXCEPT ![w] = new]
Race(ks) == raced' = raced \union ks

-----------------------------------------------------------------------------
(* A request of a cacheable route.                                         *)

(* L1Cache.get *)
Ask(r, p, k) ==
  /\ reader[r].pc = "idle"
  /\ Read(r, IF l1[p][k] # None THEN ServedReader
             ELSE [NewReader EXCEPT !.pc = "redis", !.proc = p, !.key = k])
  /\ UNCHANGED <<version, store, l1, channel, deaf, writer, faults, raced>>

ReadRedis(r) ==
  LET q == reader[r] IN
  /\ q.pc = "redis"
  /\ Read(r, [q EXCEPT !.val = redis[q.key],
                       !.pc = IF redis[q.key] = None THEN "db" ELSE "copy"])
  /\ Race({q.key} \intersect {k \in Keys : redis[k] \notin {None, version[k]}})
  /\ UNCHANGED <<version, store, l1, channel, deaf, writer, faults>>

Copy(r) ==
  LET q == reader[r] IN
  /\ q.pc = "copy"
  /\ l1' = [l1 EXCEPT ![q.proc][q.key] = q.val]
  /\ Read(r, ServedReader)
  /\ UNCHANGED <<version, store, channel, deaf, writer, faults, raced>>

(* The route itself. *)
ReadDb(r) ==
  LET q == reader[r] IN
  /\ q.pc = "db"
  /\ Read(r, [q EXCEPT !.val = version[q.key], !.pc = "set"])
  /\ UNCHANGED <<version, store, l1, channel, deaf, writer, faults, raced>>

\* mutant: the tags of the route are not resolved
SetKeyUntagged(r) ==
  LET q == reader[r] IN
  /\ q.pc = "set"
  /\ redis' = [redis EXCEPT ![q.key] = q.val]
  /\ Read(r, [q EXCEPT !.pc = "index", !.tags = {}])
  /\ UNCHANGED <<version, index, l1, channel, deaf, writer, faults, raced>>

(* set_with_tags: setex, one zadd and expire per tag, then the local copy. *)
SetKey(r) ==
  LET q == reader[r] IN
  /\ q.pc = "set"
  /\ redis' = [redis EXCEPT ![q.key] = q.val]
  /\ Read(r, [q EXCEPT !.pc = "index", !.tags = TagsOf[q.key]])
  /\ UNCHANGED <<version, index, l1, channel, deaf, writer, faults, raced>>

\* mutant: the members of a tag are values
IndexTagByValue(r, t) ==
  LET q == reader[r] IN
  /\ q.pc = "index" /\ t \in q.tags
  /\ index' = [index EXCEPT ![t] = @ \union {q.val}]
  /\ Read(r, [q EXCEPT !.tags = @ \ {t}])
  /\ UNCHANGED <<version, redis, l1, channel, deaf, writer, faults, raced>>

IndexTag(r, t) ==
  LET q == reader[r] IN
  /\ q.pc = "index" /\ t \in q.tags
  /\ index' = [index EXCEPT ![t] = @ \union {q.key}]
  /\ Read(r, [q EXCEPT !.tags = @ \ {t}])
  /\ UNCHANGED <<version, redis, l1, channel, deaf, writer, faults, raced>>

Fill(r) ==
  LET q == reader[r] IN
  /\ q.pc = "index" /\ q.tags = {}
  /\ l1' = [l1 EXCEPT ![q.proc][q.key] = q.val]
  /\ Read(r, ServedReader)
  /\ UNCHANGED <<version, store, channel, deaf, writer, faults, raced>>

(* A command raises: the pipeline is given up and logged, the route's      *)
(* answer is not affected.                                                 *)
FillFails(r) ==
  LET q == reader[r] IN
  /\ q.pc \in {"set", "index"} /\ faults < MaxFaults
  /\ faults' = faults + 1
  /\ Race({q.key})
  /\ Read(r, ServedReader)
  /\ UNCHANGED <<version, store, l1, channel, deaf, writer>>

-----------------------------------------------------------------------------
(* A request that changes rows.                                            *)

(* Some request holds a value of k that it has not stored everywhere yet. *)
Holding(k) == \E r \in Readers :
                reader[r].key = k /\ reader[r].pc \in {"copy", "set", "index"}

Commit(w, p) ==
  /\ writer[w].pc = "idle"
  /\ version' = [k \in Keys |-> IF k \in Changes[w] THEN version[k] + 1
                                ELSE version[k]]
  /\ Write(w, [writer[w] EXCEPT !.pc = "keys", !.proc = p])
  /\ Race({k \in Changes[w] : Holding(k)})
  /\ UNCHANGED <<store, l1, channel, deaf, reader, faults>>

(* invalidate: the keys it names *)
DeleteKeys(w) ==
  /\ writer[w].pc = "keys"
  /\ redis' = Without(redis, ClearsKeys[w])
  /\ Write(w, [writer[w] EXCEPT !.pc = "tags", !.tags = ClearsTags[w],
                                !.found = ClearsKeys[w]])
  /\ Race({k \in ClearsKeys[w] : Holding(k)})
  /\ UNCHANGED <<version, index, l1, channel, deaf, reader, faults>>

(* zremrangebyscore and zrange; a tag without keys is passed over. *)
ReadTag(w, t) ==
  LET q == writer[w] IN
  /\ q.pc = "tags" /\ t \in q.tags
  /\ Write(w, [q EXCEPT !.tags = @ \ {t}, !.tag = t, !.active = index[t],
                        !.found = @ \union index[t],
                        !.pc = IF index[t] = {} THEN "tags" ELSE "delete"])
  /\ UNCHANGED <<version, store, l1, channel, deaf, reader, faults, raced>>

\* mutant: only the tag is deleted, not its keys
DeleteActiveNot(w) ==
  /\ writer[w].pc = "delete"
  /\ Write(w, [writer[w] EXCEPT !.pc = "drop"])
  /\ Race({k \in writer[w].active : Holding(k)})
  /\ UNCHANGED <<version, store, l1, channel, deaf, reader, faults>>

DeleteActive(w) ==
  /\ writer[w].pc = "delete"
  /\ redis' = Without(redis, writer[w].active)
  /\ Write(w, [writer[w] EXCEPT !.pc = "drop"])
  /\ Race({k \in writer[w].active : Holding(k)})
  /\ UNCHANGED <<version, index, l1, channel, deaf, reader, faults>>

(* Another request that changes k is on its way. *)
Overlapping(w, k) == \E v \in Writers \ {w} :
                       writer[v].pc \notin {"idle", "done"} /\ k \in Changes[v]

(* The tag goes with every key that was added, or filled again, since it   *)
(* was read.                                                               *)
DropTag(w) ==
  LET q == writer[w] IN
  /\ q.pc = "drop"
  /\ index' = [index EXCEPT ![q.tag] = {}]
  /\ Race({k \in index[q.tag] :
             \/ Holding(k)
             \/ /\ redis[k] # None
                /\ \/ k \notin q.active \/ redis[k] = version[k]
                   \/ Overlapping(w, k)})
  /\ Write(w, [q EXCEPT !.pc = "tags", !.tag = None, !.active = {}])
  /\ UNCHANGED <<version, redis, l1, channel, deaf, reader, faults>>

(* clear_cache: flushdb *)
Flush(w, p) ==
  /\ writer[w].pc = "idle"
  /\ redis' = [k \in Keys |-> None]
  /\ index' = [t \in Tags |-> {}]
  /\ Race({k \in Keys : Holding(k)})
  /\ Write(w, [writer[w] EXCEPT !.pc = "publish", !.proc = p, !.found = Keys])
  /\ UNCHANGED <<version, l1, channel, deaf, reader, faults>>

\* mutant: the other processes are not told
PublishNot(w) ==
  LET q == writer[w] IN
  /\ q.pc = "publish" \/ (q.pc = "tags" /\ q.tags = {})
  /\ l1' = [l1 EXCEPT ![q.proc] = Without(@, q.found)]
  /\ Write(w, DoneWriter)
  /\ UNCHANGED <<version, store, channel, deaf, reader, faults, raced>>

(* The process evicts its own copies and tells every process, itself       *)
(* included.  With nothing found there is nothing to tell.                 *)
Publish(w) ==
  LET q == writer[w] IN
  /\ q.pc = "publish" \/ (q.pc = "tags" /\ q.tags = {})
  /\ l1' = [l1 EXCEPT ![q.proc] = Without(@, q.found)]
  /\ channel' = [p \in Processes |->
                   IF q.found = {} \/ p \in deaf THEN channel[p]
                   ELSE Append(channel[p], q.found)]
  /\ Write(w, DoneWriter)
  /\ UNCHANGED <<version, store, deaf, reader, faults, raced>>

(* A command of the invalidation raises: it is logged and the invalidation *)
(* goes on with what is left.                                              *)
InvalidationFails(w) ==
  LET q == writer[w] IN
  /\ q.pc \in {"keys", "tags", "delete", "drop", "publish"}
  /\ faults < MaxFaults
  /\ faults' = faults + 1
  /\ Race(Changes[w] \union q.found)
  /\ \/ /\ q.pc = "keys"
        /\ Write(w, [q EXCEPT !.pc = "tags", !.tags = ClearsTags[w],
                              !.found = ClearsKeys[w]])
     \/ /\ q.pc = "tags"
        /\ \E t \in q.tags : Write(w, [q EXCEPT !.tags = @ \ {t}])
     \/ /\ q.pc \in {"delete", "drop"}
        /\ Write(w, [q EXCEPT !.pc = "tags"])
     \/ /\ q.pc = "publish" \/ (q.pc = "tags" /\ q.tags = {})
        /\ Write(w, DoneWriter)
  /\ UNCHANGED <<version, store, l1, channel, deaf, reader>>

-----------------------------------------------------------------------------
(* The processes.                                                          *)

\* mutant: only __ALL__ is understood
ListenForAll(p) ==
  /\ p \notin deaf /\ channel[p] # <<>>
  /\ l1' = [l1 EXCEPT ![p] = IF Head(channel[p]) = Keys
                             THEN Without(@, Keys) ELSE @]
  /\ channel' = [channel EXCEPT ![p] = Tail(@)]
  /\ UNCHANGED <<version, store, deaf, reader, writer, faults, raced>>

(* run_l1_invalidation_listener *)
Listen(p) ==
  /\ p \notin deaf /\ channel[p] # <<>>
  /\ l1' = [l1 EXCEPT ![p] = Without(@, Head(channel[p]))]
  /\ channel' = [channel EXCEPT ![p] = Tail(@)]
  /\ UNCHANGED <<version, store, deaf, reader, writer, faults, raced>>

(* A connection error ends the task; nothing starts it again. *)
ListenerEnds(p) ==
  /\ p \notin deaf /\ faults < MaxFaults
  /\ faults' = faults + 1
  /\ deaf' = deaf \union {p}
  /\ channel' = [channel EXCEPT ![p] = <<>>]
  /\ UNCHANGED <<version, store, l1, reader, writer, raced>>

(* The process is lost and started again. *)
Restart(p) ==
  /\ faults < MaxFaults
  /\ faults' = faults + 1
  /\ l1' = [l1 EXCEPT ![p] = [k \in Keys |-> None]]
  /\ channel' = [channel EXCEPT ![p] = <<>>]
  /\ deaf' = deaf \ {p}
  /\ reader' = [r \in Readers |-> IF reader[r].proc = p
                                  THEN ServedReader
                                  ELSE reader[r]]
  /\ writer' = [w \in Writers |-> IF writer[w].proc = p
                                  THEN DoneWriter
                                  ELSE writer[w]]
  /\ Race((UNION {Changes[w] \union writer[w].found :
                  w \in {v \in Writers : writer[v].proc = p}})
          \union {reader[r].key : r \in {s \in Readers : /\ reader[s].proc = p
                                       /\ reader[s].pc = "index"}})
  /\ UNCHANGED <<version, store>>

(* The time to live of a shared copy, by which its entry in the index      *)
(* counts as expired too, and of a local copy, or its eviction as the      *)
(* least recently used one.  A local copy may outlive the shared one, and  *)
(* no later invalidation will find it.                                     *)
Expire(k) ==
  /\ redis[k] # None
  /\ redis' = [redis EXCEPT ![k] = None]
  /\ index' = [t \in Tags |-> index[t] \ {k}]
  /\ Race(IF Holding(k) \/ \E p \in Processes : l1[p][k] # None
          THEN {k} ELSE {})
  /\ UNCHANGED <<version, l1, channel, deaf, reader, writer, faults>>

Evict(p, k) ==
  /\ l1[p][k] # None
  /\ l1' = [l1 EXCEPT ![p][k] = None]
  /\ UNCHANGED <<version, store, channel, deaf, reader, writer, faults, raced>>

Finished ==
  /\ \A r \in Readers : reader[r].pc = "done"
  /\ \A w \in Writers : writer[w].pc = "done"
  /\ UNCHANGED vars

ReaderStep(r) ==
  \/ ReadRedis(r) \/ Copy(r) \/ ReadDb(r) \/ SetKey(r) \/ Fill(r)
  \/ \E t \in Tags : IndexTag(r, t)
WriterStep(w) ==
  \/ DeleteKeys(w) \/ DeleteActive(w) \/ DropTag(w) \/ Publish(w)
  \/ \E t \in Tags : ReadTag(w, t)

Next ==
  \/ \E r \in Readers : \/ ReaderStep(r) \/ FillFails(r)
                        \/ \E p \in Processes, k \in Keys : Ask(r, p, k)
  \/ \E w \in Writers : \/ WriterStep(w) \/ InvalidationFails(w)
                        \/ \E p \in Processes : Commit(w, p) \/ Flush(w, p)
  \/ \E p \in Processes : \/ Listen(p) \/ ListenerEnds(p) \/ Restart(p)
                          \/ \E k \in Keys : Evict(p, k)
  \/ \E k \in Keys : Expire(k)
  \/ Finished

(* The event loops run what they have started and the listeners what has   *)
(* arrived.  Nothing is assumed about expiry.                              *)
Spec ==
  /\ Init /\ [][Next]_vars
  /\ \A r \in Readers : WF_vars(ReaderStep(r))
  /\ \A w \in Writers : WF_vars(WriterStep(w))
  /\ \A p \in Processes : WF_vars(Listen(p))

-----------------------------------------------------------------------------
(* Every variable has its type, and a request works on one key in one      *)
(* process of the backend.                                                 *)
TypeOK ==
  /\ version \in [Keys -> Nat]
  /\ redis \in [Keys -> Nat \union {None}]
  /\ index \in [Tags -> SUBSET Keys]
  /\ l1 \in [Processes -> [Keys -> Nat \union {None}]]
  /\ channel \in [Processes -> Seq(SUBSET Keys)]
  /\ deaf \subseteq Processes
  /\ reader \in [Readers -> ReaderRow]
  /\ writer \in [Writers -> WriterRow]
  /\ faults \in 0..MaxFaults
  /\ raced \subseteq Keys

(* An invalidation of k has begun and not ended. *)
Invalidating(k) == \E w \in Writers :
  /\ writer[w].pc \notin {"idle", "done"}
  /\ k \in Changes[w] \union writer[w].found

(* Once every invalidation of a key has ended, the copy in Redis is that   *)
(* of the present rows: what invalidate deletes by key and by tag is all   *)
(* that the changed rows were copied to (cache.py:181-208).                *)
SharedCopyIsCurrent ==
  \A k \in Keys \ raced :
    Invalidating(k) \/ redis[k] \in {None, version[k]}

(* No process serves an older value from its own memory than the last      *)
(* ended invalidation left, except between the message and its handling    *)
(* and when its listener has ended (cache.py:71-93, 210-216).              *)
LocalCopyIsCurrent ==
  \A p \in Processes \ deaf, k \in Keys \ raced :
    \/ Invalidating(k)
    \/ \E i \in 1..Len(channel[p]) : k \in channel[p][i]
    \/ l1[p][k] \in {None, version[k]}

(* A copy, shared or local, can be found by each of its tags unless it is  *)
(* being filled or invalidated: that is what every later invalidation      *)
(* relies on (cache.py:156-159, 196-206).                                  *)
IndexCoversCopies ==
  \A k \in Keys \ raced :
    \/ Invalidating(k) \/ Holding(k)
    \/ \A t \in TagsOf[k] : k \in index[t]
    \/ /\ redis[k] = None
       /\ \A p \in Processes \ deaf :
            \/ l1[p][k] = None
            \/ \E i \in 1..Len(channel[p]) : k \in channel[p][i]

(* What is stale does not stay so: with the listeners alive every process  *)
(* comes back to the present rows of a key, without waiting for any time   *)
(* to live.                                                                *)
CopiesCatchUp ==
  \A k \in Keys :
    []<>(\/ k \in raced \/ deaf # {}
         \/ /\ redis[k] \in {None, version[k]}
            /\ \A p \in Processes : l1[p][k] \in {None, version[k]})
=============================================================================
