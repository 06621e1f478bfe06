--------------------------- MODULE ContainerCache ---------------------------
(***************************************************************************)
(* The container-to-pod cache of KubeClient                                *)
(* (runtime-detection/response-server/k8s/client.py): every processing     *)
(* thread may use it, and nothing locks it. A step of a lookup ends where  *)
(* the attributes are read or written and where the API is called, so      *)
(* threads interleave between any two of them.                             *)
(*                                                                         *)
(* Time passes only while a list call is under way or no lookup runs: the  *)
(* other steps take no time compared to the periods below. A container     *)
(* stands for its id and its pod, which never change while it lives.       *)
(***************************************************************************)
EXTENDS Integers

CONSTANTS
  Threads,      \* threads that look containers up, again and again
  Containers,
  Ttl,          \* 30 s: age beyond which the cache is refreshed
  MissTtl,      \* 2 s: age beyond which a miss refreshes it
  FetchMax,     \* 10 s: timeout of the list call
  MaxTime,      \* bound on the clock
  Starts,       \* situations a behaviour begins in: "warm", with a cache;
                \* "cold", without; "coldAlone", without and with one thread
  NoContainer

ASSUME CacheAssumption ==
  /\ Ttl \in Nat /\ MissTtl \in Nat /\ FetchMax \in Nat /\ MaxTime \in Nat
  /\ Starts \subseteq {"warm", "cold", "coldAlone"}

VARIABLES
  clock,
  started,      \* when each container came up
  stopped,      \* when it went down
  hasCache,     \* hasattr(self, '_container_cache')
  cache,        \* _container_cache: the containers it maps to their pods
  cacheTime,    \* _cache_timestamp, or NoStamp while there is none
  pc,           \* the step each thread is at
  looking,      \* the container it looks up
  now,          \* the time it read
  round,        \* 1, or 2 once it refreshed because of a miss
  began,        \* when its list call began
  reply,        \* what its list call answered
  failed,       \* history: some list call failed
  emptied       \* history: when a first lookup last emptied a cache there was

clusterVars == <<started, stopped>>
cacheVars   == <<hasCache, cache, cacheTime>>
localVars   == <<looking, now, round, began, reply>>
historyVars == <<failed, emptied>>
vars == <<clock, clusterVars, cacheVars, pc, localVars, historyVars>>

Never == MaxTime + 1

(* _cache_timestamp = 0 is the epoch: older than any limit. *)
Epoch   == -(Ttl + MissTtl + 1)
NoStamp == Epoch - 1

Running == { c \in Containers : started[c] <= clock /\ stopped[c] = Never }

Steps   == {"idle", "create", "createStamp", "age", "list", "install", "stamp",
            "search", "missed"}
Answers == {"hit", "miss", "raised"}

(* The threads there are; one that is "absent" never looks. *)
Present == { t \in Threads : pc[t] # "absent" }

Init ==
  /\ clock = 0
  /\ started \in [Containers -> {0, Never}]
  /\ stopped = [c \in Containers |-> Never]
  /\ hasCache \in { start = "warm" : start \in Starts }
  /\ cache = IF hasCache THEN Running ELSE {}
  /\ cacheTime = IF hasCache THEN 0 ELSE NoStamp
  /\ \/ /\ "cold" \in Starts \/ hasCache
        /\ pc = [t \in Threads |-> "idle"]
     \/ /\ "coldAlone" \in Starts /\ ~hasCache
        /\ \E t \in Threads :
             pc = [u \in Threads |-> IF u = t THEN "idle" ELSE "absent"]
  /\ looking = [t \in Threads |-> NoContainer]
  /\ now = [t \in Threads |-> 0]
  /\ round = [t \in Threads |-> 1]
  /\ began = [t \in Threads |-> 0]
  /\ reply = [t \in Threads |-> {}]
  /\ failed = FALSE /\ emptied = NoStamp

Goto(t, step) == pc' = [pc EXCEPT ![t] = step]

-----------------------------------------------------------------------------
(* A lookup, up to "if not hasattr(self, '_container_cache')".             *)
Look(t, c) ==
  /\ pc[t] = "idle" /\ started[c] <= clock
  /\ looking' = [looking EXCEPT ![t] = c]
  /\ Goto(t, IF hasCache THEN "age" ELSE "create")
  /\ UNCHANGED <<clock, clusterVars, cacheVars, now, round, began, reply, historyVars>>

(* self._container_cache = {}, also when another thread has created it, and *)
(* filled it, since this one looked.                                        *)
CreateCache(t) ==
  /\ pc[t] = "create"
  /\ hasCache' = TRUE
  /\ cache' = {}
  /\ emptied' = IF hasCache THEN clock ELSE emptied
  /\ Goto(t, "createStamp")
  /\ UNCHANGED <<clock, clusterVars, cacheTime, localVars, failed>>

(* self._cache_timestamp = 0 *)
CreateStamp(t) ==
  /\ pc[t] = "createStamp"
  /\ cacheTime' = Epoch
  /\ Goto(t, "age")
  /\ UNCHANGED <<clock, clusterVars, hasCache, cache, localVars, historyVars>>

(* Fault: the cache is never too old. *)
TooOldNever(time, limit) == FALSE

TooOld(time, limit) == time - cacheTime > limit

(* now = time.time(), and the age of the cache. Without the attribute the  *)
(* read raises AttributeError.                                             *)
ReadAge(t) ==
  /\ pc[t] = "age"
  /\ now' = [now EXCEPT ![t] = clock]
  /\ began' = [began EXCEPT ![t] = clock]
  /\ Goto(t, IF cacheTime = NoStamp THEN "raised"
             ELSE IF TooOld(clock, Ttl) THEN "list" ELSE "search")
  /\ UNCHANGED <<clock, clusterVars, cacheVars, looking, round, reply, historyVars>>

(* The API server lists the pods; its answer is on the way. *)
ListPods(t) ==
  /\ pc[t] = "list"
  /\ reply' = [reply EXCEPT ![t] = Running]
  /\ Goto(t, "install")
  /\ UNCHANGED <<clock, clusterVars, cacheVars, looking, now, round, began, historyVars>>

(* The call fails: the cache stays as it is, and counts as refreshed. *)
ListFails(t) ==
  /\ pc[t] = "list"
  /\ failed' = TRUE
  /\ Goto(t, "stamp")
  /\ UNCHANGED <<clock, clusterVars, cacheVars, localVars, emptied>>

(* self._container_cache = cache *)
Install(t) ==
  /\ pc[t] = "install"
  /\ cache' = reply[t]
  /\ Goto(t, "stamp")
  /\ UNCHANGED <<clock, clusterVars, hasCache, cacheTime, localVars, historyVars>>

(* self._cache_timestamp = now *)
Stamp(t) ==
  /\ pc[t] = "stamp"
  /\ cacheTime' = now[t]
  /\ Goto(t, "search")
  /\ UNCHANGED <<clock, clusterVars, hasCache, cache, localVars, historyVars>>

(* The loop over the items of the dict this thread sees. *)
Search(t) ==
  /\ pc[t] = "search"
  /\ Goto(t, IF looking[t] \in cache THEN "hit"
             ELSE IF round[t] = 1 THEN "missed" ELSE "miss")
  /\ UNCHANGED <<clock, clusterVars, cacheVars, localVars, historyVars>>

(* Fault: a miss is an answer, without another list call. *)
AnswerMiss(t) ==
  /\ pc[t] = "missed"
  /\ Goto(t, "miss")
  /\ UNCHANGED <<clock, clusterVars, cacheVars, localVars, historyVars>>

(* "Cache miss - force refresh once", unless it was refreshed just now. *)
RefreshOnMiss(t) ==
  /\ pc[t] = "missed"
  /\ IF TooOld(now[t], MissTtl)
     THEN /\ Goto(t, "list")
          /\ round' = [round EXCEPT ![t] = 2]
          /\ began' = [began EXCEPT ![t] = clock]
     ELSE Goto(t, "miss") /\ UNCHANGED <<round, began>>
  /\ UNCHANGED <<clock, clusterVars, cacheVars, looking, now, reply, historyVars>>

(* The thread has its answer and its local variables are gone; its next    *)
(* event may look again.                                                   *)
Return(t) ==
  /\ pc[t] \in Answers
  /\ Goto(t, "idle")
  /\ looking' = [looking EXCEPT ![t] = NoContainer]
  /\ now' = [now EXCEPT ![t] = 0]
  /\ round' = [round EXCEPT ![t] = 1]
  /\ began' = [began EXCEPT ![t] = 0]
  /\ reply' = [reply EXCEPT ![t] = {}]
  /\ UNCHANGED <<clock, clusterVars, cacheVars, historyVars>>

-----------------------------------------------------------------------------
(* Around the lookups. *)

StartContainer(c) ==
  /\ started[c] = Never
  /\ started' = [started EXCEPT ![c] = clock]
  /\ UNCHANGED <<clock, stopped, cacheVars, pc, localVars, historyVars>>

StopContainer(c) ==
  /\ c \in Running
  /\ stopped' = [stopped EXCEPT ![c] = clock]
  /\ UNCHANGED <<clock, started, cacheVars, pc, localVars, historyVars>>

Tick ==
  /\ clock < MaxTime
  /\ \A t \in Threads :
       \/ pc[t] \in {"idle", "absent"}
       \/ pc[t] \in {"list", "install"} /\ clock < began[t] + FetchMax
  /\ clock' = clock + 1
  /\ UNCHANGED <<clusterVars, cacheVars, pc, localVars, historyVars>>

Step(t) ==
  \/ CreateCache(t) \/ CreateStamp(t) \/ ReadAge(t)
  \/ ListPods(t) \/ ListFails(t) \/ Install(t) \/ Stamp(t)
  \/ Search(t) \/ RefreshOnMiss(t) \/ Return(t)

Next ==
  \/ \E t \in Threads : Step(t) \/ \E c \in Containers : Look(t, c)
  \/ \E c \in Containers : StartContainer(c) \/ StopContainer(c)
  \/ Tick

Spec == Init /\ [][Next]_vars

-----------------------------------------------------------------------------
(* Properties.                                                             *)

(* A pod that is gone is reported for at most the lifetime of the cache    *)
(* plus one slow list call, however late replies overwrite newer ones;     *)
(* unless the API failed (client.py:243-251, 308).                         *)
HitsAreFresh ==
  \A t \in Threads :
    pc[t] = "hit" /\ ~failed => stopped[looking[t]] >= clock - Ttl - FetchMax

(* The container has been running all the time since s. *)
UpSince(c, s) == started[c] < s /\ stopped[c] = Never

(* A container that has been up for longer than the lifetime of the cache  *)
(* and one slow list call is found, whatever other threads do to the cache *)
(* and its time between the steps of the lookup (client.py:243-262), once  *)
(* the cache is past its lifetime since a first lookup emptied it under    *)
(* others: of first lookups at the same time a late one replaces what      *)
(* another has filled, and until a refresh any container may be missed     *)
(* (client.py:238-239). One that has been up for longer than two seconds   *)
(* is found by a lookup that no other thread can disturb: a miss is        *)
(* answered only after a refresh as young as that (client.py:253-259).     *)
MissesAreNew ==
  \A t \in Threads :
    pc[t] = "miss" /\ ~failed =>
      /\ now[t] - Ttl > emptied => ~UpSince(looking[t], now[t] - Ttl - FetchMax)
      /\ Present = {t} => ~UpSince(looking[t], now[t] - MissTtl)

-----------------------------------------------------------------------------
(* What the repository says of the program and the code does not do.       *)

(* process is "Thread-safe" (core/processor.py:46): a lookup answers, it   *)
(* does not raise. While one thread is between its two assignments that    *)
(* create the cache, another finds the first attribute but not the second. *)
LookupsDoNotRaise == \A t \in Threads : pc[t] # "raised"
=============================================================================
