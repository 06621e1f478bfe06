---------------------------- MODULE CacheProofs ----------------------------
(***************************************************************************)
(* Proofs about ContainerCache: how old a pod reported and how young a     *)
(* container missed can be, for every number of threads and containers and *)
(* every setting of the periods.                                           *)
(*                                                                         *)
(* Both theorems rest on the same observation. The clock stands still      *)
(* while any thread is at a step that takes no time, so what a thread      *)
(* writes or finds there can be dated by the clock, whichever other thread *)
(* overwrote the cache in between. A list call dates from its beginning.   *)
(***************************************************************************)
EXTENDS ContainerCache, TLAPS

Round2 == {1, 2}

(* What the variables hold. *)
CacheTypeOK ==
  /\ clock \in 0..MaxTime
  /\ started \in [Containers -> 0..Never]
  /\ stopped \in [Containers -> 0..Never]
  /\ hasCache \in BOOLEAN
  /\ cache \in SUBSET Containers
  /\ cacheTime \in Int
  /\ pc \in [Threads -> Steps \cup Answers \cup {"absent"}]
  /\ looking \in [Threads -> Containers \cup {NoContainer}]
  /\ \A t \in Threads : pc[t] \notin {"idle", "absent"} => looking[t] \in Containers
  /\ now \in [Threads -> Int]
  /\ round \in [Threads -> Round2]
  /\ began \in [Threads -> Int]
  /\ reply \in [Threads -> SUBSET Containers]
  /\ failed \in BOOLEAN
  /\ emptied \in Int

(* The order of the times that were read, and how long a list call lasts.  *)
Times ==
  /\ NoStamp <= cacheTime /\ cacheTime <= clock
  /\ NoStamp <= emptied /\ emptied <= clock
  /\ \A t \in Threads :
       /\ 0 <= now[t] /\ now[t] <= began[t] /\ began[t] <= clock
       /\ pc[t] \in {"list", "install"} => clock <= began[t] + FetchMax

-----------------------------------------------------------------------------
(* What a hit rests on: every pod in the set was up at the time, or later. *)

StillUpAt(containers, time) == \A c \in containers : stopped[c] >= time

Fresh ==
  /\ StillUpAt(cache, cacheTime - FetchMax)
  /\ \A t \in Threads :
       /\ pc[t] = "install" => StillUpAt(reply[t], began[t])
       /\ pc[t] = "stamp"   => StillUpAt(cache, clock - FetchMax)
       /\ pc[t] = "search"  => StillUpAt(cache, clock - Ttl - FetchMax)
       /\ pc[t] = "hit"     => stopped[looking[t]] >= clock - Ttl - FetchMax

FreshInv == CacheTypeOK /\ Times /\ (~failed => Fresh)

-----------------------------------------------------------------------------
(* What a miss rests on: no container that was up before the time, and has *)
(* been since, is left out of the set.                                     *)

NoneLeftOut(containers, time) == \A c \in Containers : UpSince(c, time) => c \in containers

(* The cache is created before its first stamp, and before it is used. *)
Creation ==
  /\ ~hasCache => cacheTime = NoStamp
  /\ \A t \in Threads : pc[t] \notin {"absent", "idle", "create"} => hasCache

(* Each part holds only of times after the cache was last emptied. While a *)
(* thread may still empty it the clock stands still, so what is found then *)
(* is as old as the emptying.                                              *)
Complete ==
  /\ cacheTime > emptied => NoneLeftOut(cache, cacheTime - FetchMax)
  /\ \A t \in Threads :
       /\ pc[t] = "install" => NoneLeftOut(reply[t], began[t])
       /\ pc[t] = "stamp" /\ clock > emptied => NoneLeftOut(cache, clock - FetchMax)
       /\ pc[t] = "search" /\ clock - Ttl > emptied =>
            NoneLeftOut(cache, clock - Ttl - FetchMax)
       /\ pc[t] \in {"missed", "miss"} /\ clock - Ttl > emptied =>
            ~UpSince(looking[t], clock - Ttl - FetchMax)

(* A thread that is alone finds the cache as it left it. *)
LeftAsItWas(t) ==
  /\ NoneLeftOut(cache, cacheTime)
  /\ pc[t] = "create" => ~hasCache
  /\ pc[t] \in {"list", "install", "stamp", "search", "missed", "miss"} => cacheTime <= now[t]
  /\ pc[t] \in {"idle", "create", "createStamp", "age"} => round[t] = 1
  /\ pc[t] = "stamp" => NoneLeftOut(cache, now[t])
  /\ pc[t] = "search" /\ round[t] = 2 => cacheTime = now[t]
  /\ pc[t] \in {"missed", "miss"} => ~UpSince(looking[t], cacheTime)
  /\ pc[t] = "miss" => cacheTime >= now[t] - MissTtl

Alone == \A t \in Threads : Present = {t} => LeftAsItWas(t)

MissInv == CacheTypeOK /\ Times /\ Creation /\ (~failed => Complete /\ Alone)

-----------------------------------------------------------------------------
(* Types and times. *)

(* At the start. *)
LEMMA CacheInit == Init => CacheTypeOK /\ Times
<1> SUFFICES ASSUME Init PROVE CacheTypeOK /\ Times
  OBVIOUS
<1>1. pc \in [Threads -> {"idle", "absent"}]
  BY DEF Init
<1>2. /\ clock \in 0..MaxTime
      /\ started \in [Containers -> 0..Never] /\ stopped \in [Containers -> 0..Never]
  BY CacheAssumption DEF CacheAssumption, Init, Never
<1>3. hasCache \in BOOLEAN /\ cache \in SUBSET Containers /\ cacheTime \in Int
  <2>1. hasCache \in BOOLEAN
    BY Zenon DEF Init
  <2>2. 0 \in Int /\ NoStamp \in Int
    BY CacheAssumption DEF CacheAssumption, Epoch, NoStamp
  <2> QED
    BY <2>1, <2>2 DEF Init, Running
<1>4. /\ looking \in [Threads -> Containers \cup {NoContainer}]
      /\ now \in [Threads -> Int] /\ round \in [Threads -> Round2]
      /\ began \in [Threads -> Int]
  BY DEF Init, Round2
<1>5. reply \in [Threads -> SUBSET Containers] /\ failed \in BOOLEAN
  BY Zenon DEF Init
<1>6. emptied \in Int
  BY CacheAssumption DEF CacheAssumption, Init, Epoch, NoStamp
<1>7. CacheTypeOK
  <2>1. pc \in [Threads -> Steps \cup Answers \cup {"absent"}]
    BY <1>1 DEF Steps
  <2>2. \A t \in Threads : pc[t] \in {"idle", "absent"}
    BY <1>1
  <2> QED
    BY <1>2, <1>3, <1>4, <1>5, <1>6, <2>1, <2>2 DEF CacheTypeOK
<1>8. Times
  BY <1>1, CacheAssumption DEF CacheAssumption, Init, Times, Epoch, NoStamp
<1> QED
  BY <1>7, <1>8

(* Types. *)
LEMMA TypesStay == CacheTypeOK /\ [Next]_vars => CacheTypeOK'
<1> SUFFICES ASSUME CacheTypeOK, [Next]_vars PROVE CacheTypeOK'
  OBVIOUS
<1> USE CacheAssumption DEF CacheAssumption, CacheTypeOK, Never, clusterVars, cacheVars,
        localVars, historyVars, Goto, Steps, Answers, Round2
<1>1. ASSUME NEW t \in Threads, NEW c \in Containers, Look(t, c) PROVE CacheTypeOK'
  BY <1>1 DEF Look
<1>2. ASSUME NEW t \in Threads, CreateCache(t) PROVE CacheTypeOK'
  BY <1>2 DEF CreateCache
<1>3. ASSUME NEW t \in Threads, CreateStamp(t) PROVE CacheTypeOK'
  BY <1>3 DEF CreateStamp, Epoch
<1>4. ASSUME NEW t \in Threads, ReadAge(t) PROVE CacheTypeOK'
  BY <1>4 DEF ReadAge
<1>5. ASSUME NEW t \in Threads, ListPods(t) PROVE CacheTypeOK'
  BY <1>5 DEF ListPods, Running
<1>6. ASSUME NEW t \in Threads, ListFails(t) PROVE CacheTypeOK'
  BY <1>6 DEF ListFails
<1>7. ASSUME NEW t \in Threads, Install(t) PROVE CacheTypeOK'
  BY <1>7 DEF Install
<1>8. ASSUME NEW t \in Threads, Stamp(t) PROVE CacheTypeOK'
  BY <1>8 DEF Stamp
<1>9. ASSUME NEW t \in Threads, Search(t) PROVE CacheTypeOK'
  BY <1>9 DEF Search
<1>10. ASSUME NEW t \in Threads, RefreshOnMiss(t) PROVE CacheTypeOK'
  BY <1>10 DEF RefreshOnMiss
<1>11. ASSUME NEW t \in Threads, Return(t) PROVE CacheTypeOK'
  BY <1>11 DEF Return
<1>12. ASSUME NEW c \in Containers, StartContainer(c) \/ StopContainer(c)
       PROVE CacheTypeOK'
  BY <1>12 DEF StartContainer, StopContainer
<1>13. CASE Tick
  BY <1>13 DEF Tick
<1>14. CASE UNCHANGED vars
  BY <1>14 DEF vars
<1> QED
  BY <1>1, <1>2, <1>3, <1>4, <1>5, <1>6, <1>7, <1>8, <1>9, <1>10, <1>11, <1>12, <1>13,
     <1>14 DEF Next, Step

(* Times, and the clock waits for a list call no longer than FetchMax. *)
LEMMA TimesStay == CacheTypeOK /\ Times /\ [Next]_vars => Times'
<1> SUFFICES ASSUME CacheTypeOK, Times, [Next]_vars PROVE Times'
  OBVIOUS
<1> USE CacheAssumption DEF CacheAssumption, CacheTypeOK, Times, Epoch, NoStamp,
        clusterVars, cacheVars, localVars, historyVars, Goto
<1>1. ASSUME NEW t \in Threads, NEW c \in Containers, Look(t, c) PROVE Times'
  BY <1>1 DEF Look
<1>2. ASSUME NEW t \in Threads, CreateCache(t) \/ CreateStamp(t) PROVE Times'
  BY <1>2 DEF CreateCache, CreateStamp
<1>3. ASSUME NEW t \in Threads, ReadAge(t) PROVE Times'
  BY <1>3 DEF ReadAge
<1>4. ASSUME NEW t \in Threads, ListPods(t) \/ ListFails(t) PROVE Times'
  BY <1>4 DEF ListPods, ListFails
<1>5. ASSUME NEW t \in Threads, Install(t) \/ Stamp(t) \/ Search(t) PROVE Times'
  BY <1>5 DEF Install, Stamp, Search
<1>6. ASSUME NEW t \in Threads, RefreshOnMiss(t) PROVE Times'
  BY <1>6 DEF RefreshOnMiss
<1>7. ASSUME NEW t \in Threads, Return(t) PROVE Times'
  BY <1>7 DEF Return
<1>8. ASSUME NEW c \in Containers, StartContainer(c) \/ StopContainer(c) PROVE Times'
  BY <1>8 DEF StartContainer, StopContainer
<1>9. CASE Tick
  BY <1>9 DEF Tick
<1>10. CASE UNCHANGED vars
  BY <1>10 DEF vars
<1> QED
  BY <1>1, <1>2, <1>3, <1>4, <1>5, <1>6, <1>7, <1>8, <1>9, <1>10 DEF Next, Step

(* A failure is not forgotten. *)
LEMMA FailureStays == CacheTypeOK /\ [Next]_vars /\ ~failed' => ~failed
BY DEF CacheTypeOK, Next, Step, Look, CreateCache, CreateStamp, ReadAge, ListPods,
   ListFails, Install, Stamp, Search, RefreshOnMiss, Return, StartContainer, StopContainer,
   Tick, historyVars, vars

-----------------------------------------------------------------------------
(* Hits. *)

(* Only a failed list call, which failed tells of, keeps old pods longer. *)
LEMMA FreshStays ==
  CacheTypeOK /\ Times /\ ~failed /\ Fresh /\ [Next]_vars /\ ~failed' => Fresh'
<1> SUFFICES ASSUME CacheTypeOK, Times, ~failed, Fresh, [Next]_vars, ~failed'
             PROVE  Fresh'
  OBVIOUS
<1> USE CacheAssumption DEF CacheAssumption, CacheTypeOK, Times, Fresh, StillUpAt, Never,
        clusterVars, cacheVars, localVars, historyVars, Goto
<1>1. ASSUME NEW t \in Threads, NEW c \in Containers, Look(t, c) PROVE Fresh'
  BY <1>1 DEF Look
<1>2. ASSUME NEW t \in Threads, CreateCache(t) PROVE Fresh'
  BY <1>2 DEF CreateCache
<1>3. ASSUME NEW t \in Threads, CreateStamp(t) PROVE Fresh'
  BY <1>3 DEF CreateStamp, Epoch
<1>4. ASSUME NEW t \in Threads, ReadAge(t) PROVE Fresh'
  BY <1>4 DEF ReadAge, TooOld
<1>5. ASSUME NEW t \in Threads, ListPods(t) PROVE Fresh'
  BY <1>5 DEF ListPods, Running
<1>6. ASSUME NEW t \in Threads, ListFails(t) PROVE Fresh'
  BY <1>6 DEF ListFails
<1>7. ASSUME NEW t \in Threads, Install(t) PROVE Fresh'
  BY <1>7 DEF Install
<1>8. ASSUME NEW t \in Threads, Stamp(t) PROVE Fresh'
  BY <1>8 DEF Stamp
<1>9. ASSUME NEW t \in Threads, Search(t) PROVE Fresh'
  BY <1>9 DEF Search
<1>10. ASSUME NEW t \in Threads, RefreshOnMiss(t) PROVE Fresh'
  BY <1>10 DEF RefreshOnMiss
<1>11. ASSUME NEW t \in Threads, Return(t) PROVE Fresh'
  BY <1>11 DEF Return, Answers
<1>12. ASSUME NEW c \in Containers, StartContainer(c) \/ StopContainer(c)
       PROVE Fresh'
  BY <1>12 DEF StartContainer, StopContainer, Running
<1>13. CASE Tick
  BY <1>13 DEF Tick
<1>14. CASE UNCHANGED vars
  BY <1>14 DEF vars
<1> QED
  BY <1>1, <1>2, <1>3, <1>4, <1>5, <1>6, <1>7, <1>8, <1>9, <1>10, <1>11, <1>12, <1>13,
     <1>14 DEF Next, Step

-----------------------------------------------------------------------------
(* Misses. *)

(* Who creates the cache. *)
LEMMA CreationStays ==
  CacheTypeOK /\ Creation /\ [Next]_vars
    => Creation'
<1> SUFFICES ASSUME CacheTypeOK, Creation, [Next]_vars
             PROVE  Creation'
  OBVIOUS
<1> USE CacheAssumption DEF CacheAssumption, CacheTypeOK, clusterVars, cacheVars,
        localVars, historyVars, Goto, Creation, Present
<1>1. ASSUME NEW t \in Threads, NEW c \in Containers, Look(t, c) PROVE Creation'
  BY <1>1 DEF Look
<1>2. ASSUME NEW t \in Threads, CreateCache(t) PROVE Creation'
  BY <1>2 DEF CreateCache
<1>3. ASSUME NEW t \in Threads, CreateStamp(t) PROVE Creation'
  BY <1>3 DEF CreateStamp, Epoch, NoStamp
<1>4. ASSUME NEW t \in Threads, ReadAge(t) PROVE Creation'
  BY <1>4 DEF ReadAge, TooOld
<1>5. ASSUME NEW t \in Threads, ListPods(t) PROVE Creation'
  BY <1>5 DEF ListPods, Running
<1>6. ASSUME NEW t \in Threads, ListFails(t) PROVE Creation'
  BY <1>6 DEF ListFails
<1>7. ASSUME NEW t \in Threads, Install(t) PROVE Creation'
  BY <1>7 DEF Install
<1>8. ASSUME NEW t \in Threads, Stamp(t) PROVE Creation'
  BY <1>8 DEF Stamp
<1>9. ASSUME NEW t \in Threads, Search(t) PROVE Creation'
  BY <1>9 DEF Search
<1>10. ASSUME NEW t \in Threads, RefreshOnMiss(t) PROVE Creation'
  BY <1>10 DEF RefreshOnMiss, TooOld
<1>11. ASSUME NEW t \in Threads, Return(t) PROVE Creation'
  BY <1>11 DEF Return, Answers
<1>12. ASSUME NEW c \in Containers, StartContainer(c) \/ StopContainer(c) PROVE Creation'
  BY <1>12 DEF StartContainer, StopContainer, Running
<1>13. CASE Tick
  BY <1>13 DEF Tick
<1>14. CASE UNCHANGED vars
  BY <1>14 DEF vars
<1> QED
  BY <1>1, <1>2, <1>3, <1>4, <1>5, <1>6, <1>7, <1>8, <1>9, <1>10, <1>11, <1>12, <1>13,
     <1>14 DEF Next, Step

(* No thread comes or goes. *)
LEMMA PresentStays ==
  CacheTypeOK /\ [Next]_vars
    => Present' = Present
<1> SUFFICES ASSUME CacheTypeOK, [Next]_vars
             PROVE  Present' = Present
  OBVIOUS
<1> USE CacheAssumption DEF CacheTypeOK, Present, clusterVars, cacheVars, localVars, historyVars, Goto
<1>1. ASSUME NEW t \in Threads, Step(t) PROVE Present' = Present
  BY <1>1 DEF Step, CreateCache, CreateStamp, ReadAge, ListPods, ListFails, Install, Stamp,
     Search, RefreshOnMiss, Return, Answers
<1>2. ASSUME NEW t \in Threads, NEW c \in Containers, Look(t, c) PROVE Present' = Present
  BY <1>2 DEF Look
<1>3. ASSUME UNCHANGED pc PROVE Present' = Present
  BY <1>3
<1> QED
  BY <1>1, <1>2, <1>3 DEF Next, StartContainer, StopContainer, Tick, vars

(* However many threads there are. *)
LEMMA CompleteStays ==
  CacheTypeOK /\ Times /\ Creation /\ ~failed /\ Complete /\ [Next]_vars /\ ~failed'
    => Complete'
<1> SUFFICES ASSUME CacheTypeOK, Times, Creation, ~failed, Complete,
                    [Next]_vars, ~failed'
             PROVE  Complete'
  OBVIOUS
<1> USE CacheAssumption DEF CacheAssumption, CacheTypeOK, Times, clusterVars, cacheVars, localVars,
        historyVars, Goto, Never, Complete, NoneLeftOut, UpSince
<1>1. ASSUME NEW t \in Threads, NEW c \in Containers, Look(t, c) PROVE Complete'
  BY <1>1 DEF Look
<1>2. ASSUME NEW t \in Threads, CreateCache(t) PROVE Complete'
  <2>1. CASE hasCache
    BY <1>2, <2>1 DEF CreateCache
  <2>2. CASE ~hasCache
    BY <1>2, <2>2 DEF CreateCache, Creation
  <2> QED
    BY <2>1, <2>2
<1>3. ASSUME NEW t \in Threads, CreateStamp(t) PROVE Complete'
  BY <1>3 DEF CreateStamp, Epoch, NoStamp
<1>4. ASSUME NEW t \in Threads, ReadAge(t) PROVE Complete'
  BY <1>4 DEF ReadAge, TooOld
<1>5. ASSUME NEW t \in Threads, ListPods(t) PROVE Complete'
  BY <1>5 DEF ListPods, Running
<1>6. ASSUME NEW t \in Threads, ListFails(t) PROVE Complete'
  BY <1>6 DEF ListFails
<1>7. ASSUME NEW t \in Threads, Install(t) PROVE Complete'
  BY <1>7 DEF Install
<1>8. ASSUME NEW t \in Threads, Stamp(t) PROVE Complete'
  BY <1>8 DEF Stamp
<1>9. ASSUME NEW t \in Threads, Search(t) PROVE Complete'
  BY <1>9 DEF Search
<1>10. ASSUME NEW t \in Threads, RefreshOnMiss(t) PROVE Complete'
  BY <1>10 DEF RefreshOnMiss, TooOld
<1>11. ASSUME NEW t \in Threads, Return(t) PROVE Complete'
  BY <1>11 DEF Return, Answers
<1>12. ASSUME NEW c \in Containers, StartContainer(c) \/ StopContainer(c) PROVE Complete'
  BY <1>12 DEF StartContainer, StopContainer, Running
<1>13. CASE Tick
  BY <1>13 DEF Tick
<1>14. CASE UNCHANGED vars
  BY <1>14 DEF vars
<1> QED
  BY <1>1, <1>2, <1>3, <1>4, <1>5, <1>6, <1>7, <1>8, <1>9, <1>10, <1>11, <1>12, <1>13,
     <1>14 DEF Next, Step

(* When there is one thread. *)
LEMMA AloneStays ==
  CacheTypeOK /\ Times /\ Creation /\ ~failed /\ Complete /\ Alone /\ [Next]_vars /\ ~failed'
    => Alone'
<1> SUFFICES ASSUME CacheTypeOK, Times, Creation, ~failed, Complete, Alone,
                    [Next]_vars, ~failed', NEW u \in Threads, Present' = {u}
             PROVE  LeftAsItWas(u)'
  BY DEF Alone
<1>a. LeftAsItWas(u) /\ \A t \in Threads : pc[t] # "absent" => t = u
  BY PresentStays DEF Alone, Present
<1> USE <1>a, CacheAssumption DEF CacheAssumption, CacheTypeOK, Times, clusterVars, cacheVars, localVars,
        historyVars, Goto, Never, LeftAsItWas, NoneLeftOut, UpSince
<1>1. ASSUME NEW t \in Threads, NEW c \in Containers, Look(t, c) PROVE LeftAsItWas(u)'
  BY <1>1 DEF Look
<1>2. ASSUME NEW t \in Threads, CreateCache(t) PROVE LeftAsItWas(u)'
  BY <1>2 DEF CreateCache, Creation, Epoch, NoStamp
<1>3. ASSUME NEW t \in Threads, CreateStamp(t) PROVE LeftAsItWas(u)'
  BY <1>3 DEF CreateStamp, Epoch, NoStamp
<1>4. ASSUME NEW t \in Threads, ReadAge(t) PROVE LeftAsItWas(u)'
  BY <1>4 DEF ReadAge, TooOld
<1>5. ASSUME NEW t \in Threads, ListPods(t) PROVE LeftAsItWas(u)'
  BY <1>5 DEF ListPods, Running
<1>6. ASSUME NEW t \in Threads, ListFails(t) PROVE LeftAsItWas(u)'
  BY <1>6 DEF ListFails
<1>7. ASSUME NEW t \in Threads, Install(t) PROVE LeftAsItWas(u)'
  BY <1>7 DEF Install, Complete
<1>8. ASSUME NEW t \in Threads, Stamp(t) PROVE LeftAsItWas(u)'
  BY <1>8 DEF Stamp
<1>9. ASSUME NEW t \in Threads, Search(t) PROVE LeftAsItWas(u)'
  BY <1>9 DEF Search, Round2
<1>10. ASSUME NEW t \in Threads, RefreshOnMiss(t) PROVE LeftAsItWas(u)'
  BY <1>10 DEF RefreshOnMiss, TooOld
<1>11. ASSUME NEW t \in Threads, Return(t) PROVE LeftAsItWas(u)'
  BY <1>11 DEF Return, Answers
<1>12. ASSUME NEW c \in Containers, StartContainer(c) \/ StopContainer(c) PROVE LeftAsItWas(u)'
  BY <1>12 DEF StartContainer, StopContainer, Running
<1>13. CASE Tick
  BY <1>13 DEF Tick
<1>14. CASE UNCHANGED vars
  BY <1>14 DEF vars
<1> QED
  BY <1>1, <1>2, <1>3, <1>4, <1>5, <1>6, <1>7, <1>8, <1>9, <1>10, <1>11, <1>12, <1>13,
     <1>14 DEF Next, Step

-----------------------------------------------------------------------------
(* The results. *)

(* A pod reported was up at most the lifetime of the cache and one list    *)
(* call ago, with any number of threads.                                   *)
THEOREM HitsFresh == Spec => []HitsAreFresh
<1>1. Init => FreshInv
  <2> SUFFICES ASSUME Init PROVE FreshInv
    OBVIOUS
  <2>1. CacheTypeOK /\ Times
    BY CacheInit
  <2>2. (\A t \in Threads : pc[t] \in {"idle", "absent"}) /\ (cache # {} => cacheTime = 0)
    BY DEF Init
  <2>3. \A c \in cache : stopped[c] >= cacheTime - FetchMax
    BY <2>1, <2>2, CacheAssumption DEF CacheAssumption, CacheTypeOK, Never
  <2> QED
    BY <2>1, <2>2, <2>3 DEF FreshInv, Fresh, StillUpAt
<1>2. FreshInv /\ [Next]_vars => FreshInv'
  BY FailureStays, TypesStay, TimesStay, FreshStays DEF FreshInv
<1>3. FreshInv => HitsAreFresh
  BY DEF FreshInv, Fresh, HitsAreFresh
<1> QED
  BY <1>1, <1>2, <1>3, PTL DEF Spec

(* A container missed has not been up for longer than the lifetime of the  *)
(* cache and one list call, with any number of threads, once the cache is  *)
(* past its lifetime since a late first lookup emptied it; for a thread    *)
(* that is alone, not for longer than the time after which a miss          *)
(* refreshes.                                                              *)
THEOREM MissesNew == Spec => []MissesAreNew
<1>1. Init => MissInv
  <2> SUFFICES ASSUME Init PROVE MissInv
    OBVIOUS
  <2>1. CacheTypeOK /\ Times
    BY CacheInit
  <2>2. \A t \in Threads : pc[t] \in {"idle", "absent"} /\ round[t] = 1
    BY DEF Init
  <2>3. ~hasCache => cacheTime = NoStamp
    BY DEF Init
  <2>4. \A c \in Containers : ~UpSince(c, cacheTime) /\ ~UpSince(c, cacheTime - FetchMax)
    <3>1. cacheTime \in {0, NoStamp}
      BY DEF Init
    <3> QED
      BY <2>1, <3>1, CacheAssumption
      DEF CacheAssumption, CacheTypeOK, UpSince, Epoch, NoStamp
  <2>5. Creation
    BY <2>2, <2>3 DEF Creation
  <2>6. Complete /\ Alone
    BY <2>2, <2>4 DEF Complete, Alone, LeftAsItWas, NoneLeftOut
  <2> QED
    BY <2>1, <2>5, <2>6 DEF MissInv
<1>2. MissInv /\ [Next]_vars => MissInv'
  BY FailureStays, TypesStay, TimesStay, CreationStays, CompleteStays, AloneStays
  DEF MissInv
<1>3. MissInv => MissesAreNew
  <2> SUFFICES ASSUME MissInv, ~failed, NEW t \in Threads, pc[t] = "miss"
               PROVE  /\ now[t] - Ttl > emptied => ~UpSince(looking[t], now[t] - Ttl - FetchMax)
                      /\ Present = {t} => ~UpSince(looking[t], now[t] - MissTtl)
    BY DEF MissesAreNew
  <2>1. clock - Ttl > emptied => ~UpSince(looking[t], clock - Ttl - FetchMax)
    BY DEF MissInv, Complete
  <2>2. Present = {t} => ~UpSince(looking[t], cacheTime) /\ cacheTime >= now[t] - MissTtl
    BY DEF MissInv, Alone, LeftAsItWas
  <2> QED
    BY <2>1, <2>2, CacheAssumption DEF CacheAssumption, MissInv, CacheTypeOK, Times, UpSince
<1> QED
  BY <1>1, <1>2, <1>3, PTL DEF Spec

(* The cache has its time, but for a thread that is about to set it.       *)
Stamped ==
  /\ hasCache => cacheTime # NoStamp \/ \E t \in Threads : pc[t] = "createStamp"
  /\ \A t \in Threads :
       pc[t] \notin {"absent", "idle", "create", "createStamp"} => cacheTime # NoStamp

(* Who creates the cache is alone, unless there is a cold start of several. *)
CreatedAlone ==
  /\ ~hasCache => \A t \in Present : Present = {t}
  /\ \A t \in Threads : pc[t] \in {"create", "createStamp"} => Present = {t}

StampInv == CacheTypeOK /\ CreatedAlone /\ Stamped /\ Times /\ LookupsDoNotRaise

(* No thread joins the one that creates the cache. *)
LEMMA CreatedAloneStays ==
  CacheTypeOK /\ CreatedAlone /\ [Next]_vars => CreatedAlone'
<1> SUFFICES ASSUME CacheTypeOK, CreatedAlone, [Next]_vars PROVE CreatedAlone'
  OBVIOUS
<1>1. Present' = Present
  BY PresentStays
<1> USE <1>1 DEF CacheTypeOK, CreatedAlone, cacheVars, Goto
<1>2. ASSUME NEW t \in Threads, NEW c \in Containers, Look(t, c) PROVE CreatedAlone'
  BY <1>2 DEF Look, Present
<1>3. ASSUME NEW t \in Threads, CreateCache(t) \/ CreateStamp(t) PROVE CreatedAlone'
  BY <1>3 DEF CreateCache, CreateStamp
<1>4. ASSUME NEW t \in Threads,
             \/ ReadAge(t) \/ ListPods(t) \/ ListFails(t) \/ Install(t)
             \/ Stamp(t) \/ Search(t) \/ RefreshOnMiss(t) \/ Return(t)
      PROVE  CreatedAlone'
  <2>1. UNCHANGED hasCache
    BY <1>4 DEF ReadAge, ListPods, ListFails, Install, Stamp, Search, RefreshOnMiss, Return
  <2>2. \E step \in (Steps \cup Answers) \ {"create", "createStamp"} :
          pc' = [pc EXCEPT ![t] = step]
    BY <1>4 DEF ReadAge, ListPods, ListFails, Install, Stamp, Search, RefreshOnMiss, Return,
       Steps, Answers
  <2> QED
    BY <2>1, <2>2
<1>5. ASSUME UNCHANGED <<cacheVars, pc>> PROVE CreatedAlone'
  BY <1>5
<1>6. ASSUME NEW c \in Containers, StartContainer(c) \/ StopContainer(c)
      PROVE  UNCHANGED <<cacheVars, pc>>
  BY <1>6 DEF StartContainer, StopContainer
<1>7. Tick \/ UNCHANGED vars => UNCHANGED <<cacheVars, pc>>
  BY DEF Tick, vars
<1> QED
  BY <1>2, <1>3, <1>4, <1>5, <1>6, <1>7 DEF Next, Step

LEMMA StampInit == ASSUME Init, "cold" \notin Starts PROVE StampInv
<1>1. CacheTypeOK /\ Times
  BY CacheInit
<1>2. \A t \in Threads : pc[t] \in {"idle", "absent"}
  BY DEF Init
<1>3. ~hasCache => \A t \in Present : Present = {t}
  BY DEF Init, Present
<1>4. hasCache => cacheTime # NoStamp
  BY CacheAssumption DEF CacheAssumption, Init, Epoch, NoStamp
<1>5. CreatedAlone /\ Stamped /\ LookupsDoNotRaise
  BY <1>2, <1>3, <1>4 DEF CreatedAlone, Stamped, LookupsDoNotRaise
<1> QED
  BY <1>1, <1>5 DEF StampInv

(* Only the thread that creates the cache is there before its time is set. *)
LEMMA StampStays ==
  ASSUME StampInv, [Next]_vars
  PROVE  Stamped' /\ LookupsDoNotRaise'
<1> DEFINE Goal == Stamped' /\ LookupsDoNotRaise'
<1> USE DEF Stamped, LookupsDoNotRaise, Goto, cacheVars
<1>1. /\ pc \in [Threads -> Steps \cup Answers \cup {"absent"}]
      /\ \A t \in Threads : now[t] >= 0 /\ now[t] \in Int
      /\ Stamped /\ LookupsDoNotRaise /\ CreatedAlone
  BY DEF StampInv, CacheTypeOK, Times
<1>2. Epoch # NoStamp /\ \A n \in Int : n >= 0 => n # NoStamp
  BY CacheAssumption DEF CacheAssumption, Epoch, NoStamp
<1>3. ASSUME NEW t \in Threads, pc[t] \notin {"absent", "createStamp"}
      PROVE  \A u \in Threads : pc[u] # "createStamp"
  BY <1>1, <1>3 DEF CreatedAlone, Present
<1>4. ASSUME NEW t \in Threads, NEW c \in Containers, Look(t, c) PROVE Goal
  BY <1>1, <1>3, <1>4 DEF Look
<1>5. ASSUME NEW t \in Threads, CreateCache(t) PROVE Goal
  <2>1. \A u \in Threads : u # t => pc[u] = "absent"
    BY <1>1, <1>5 DEF CreateCache, CreatedAlone, Present
  <2> QED
    BY <1>1, <1>5, <2>1 DEF CreateCache
<1>6. ASSUME NEW t \in Threads, CreateStamp(t) PROVE Goal
  BY <1>1, <1>2, <1>6 DEF CreateStamp
<1>7. ASSUME NEW t \in Threads, ReadAge(t) PROVE Goal
  BY <1>1, <1>7 DEF ReadAge
<1>8. ASSUME NEW t \in Threads, ListPods(t) \/ ListFails(t) \/ Install(t)
      PROVE  Goal
  BY <1>1, <1>8 DEF ListPods, ListFails, Install
<1>9. ASSUME NEW t \in Threads, Stamp(t) PROVE Goal
  BY <1>1, <1>2, <1>9 DEF Stamp
<1>10. ASSUME NEW t \in Threads, Search(t) \/ RefreshOnMiss(t) \/ Return(t) PROVE Goal
  <2>1. pc[t] \in {"search", "missed", "hit", "miss"} /\ UNCHANGED cacheVars
    BY <1>1, <1>10 DEF Search, RefreshOnMiss, Return, Answers
  <2>2. \E step \in {"hit", "miss", "missed", "list", "idle"} : pc' = [pc EXCEPT ![t] = step]
    BY <1>10 DEF Search, RefreshOnMiss, Return
  <2> QED
    BY <1>1, <2>1, <2>2
<1>11. ASSUME UNCHANGED <<cacheVars, pc>> PROVE Goal
  BY <1>1, <1>11
<1>12. ASSUME NEW c \in Containers, StartContainer(c) \/ StopContainer(c)
       PROVE  UNCHANGED <<cacheVars, pc>>
  BY <1>12 DEF StartContainer, StopContainer
<1>13. Tick \/ UNCHANGED vars => UNCHANGED <<cacheVars, pc>>
  BY DEF Tick, vars
<1> QED
  BY <1>4, <1>5, <1>6, <1>7, <1>8, <1>9, <1>10, <1>11, <1>12, <1>13 DEF Next, Step

(* The two assignments that create the cache are the only place where a    *)
(* lookup can raise: with a cache at the start, or with one thread when    *)
(* there is none, none ever does, whatever the list calls answer           *)
(* (client.py:232-262).                                                    *)
THEOREM LookupsReturn == "cold" \notin Starts => (Spec => []LookupsDoNotRaise)
<1> SUFFICES ASSUME "cold" \notin Starts PROVE Spec => []LookupsDoNotRaise
  OBVIOUS
<1>1. Init => StampInv
  BY StampInit
<1>2. StampInv /\ [Next]_vars => StampInv'
  BY TypesStay, TimesStay, CreatedAloneStays, StampStays DEF StampInv
<1>3. StampInv => LookupsDoNotRaise
  BY DEF StampInv
<1> QED
  BY <1>1, <1>2, <1>3, PTL DEF Spec
=============================================================================
