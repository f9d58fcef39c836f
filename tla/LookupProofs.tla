----------------------------- MODULE LookupProofs -----------------------------
(***************************************************************************)
(* Proofs about Lookup: for any number of calls in flight, any contents of *)
(* the dataset, any time to live and any bound on a fetch, what an answer  *)
(* is, how old it may be and that no fetch is needless.                    *)
(*                                                                         *)
(* None of these is inductive.  What an answer is needs to know what every *)
(* index in flight and in the cache was made from (IndexInv).  That an     *)
(* answer from the cache is not too old needs the age of what the cache    *)
(* holds (CacheInv), which needs the age of what every call in flight is   *)
(* about to store (FetchInv) and the order of a call's own times           *)
(* (CallsInv).                                                             *)
(***************************************************************************)
EXTENDS Lookup, TLAPS, WellFoundedInduction

Begun == {"check", "fetch", "fetched", "join", "done"}

(***************************************************************************)
(* The times of one call are in order, and what it stored is at most as    *)
(* young as what the cache holds.                                          *)
(***************************************************************************)
CallInv(r) ==
    /\ pc[r] \in Begun => began[r] \in 0..now
    /\ pc[r] \in {"idle", "check"} => asked[r] = None
    /\ asked[r] # None => began[r] \in 0..now /\ asked[r] \in began[r]..now
    /\ Fetching(r) => asked[r] # None /\ now - asked[r] <= MaxFetch
    /\ stored[r] # None => cfg.ttl > 0 /\ cache.at # None /\ stored[r] <= cache.at
    /\ pc[r] \in {"join", "done"} /\ asked[r] = None => cfg.ttl > 0

CallsInv == \A r \in Runs : CallInv(r)

(***************************************************************************)
(* What a fetch brought was current when it was asked for, or later.       *)
(***************************************************************************)
FetchInv ==
    \A r \in Runs : pc[r] = "fetched" =>
        version[r] # 0 /\ CurrentAtOrAfter(version[r], asked[r])

(***************************************************************************)
(* What the cache holds was current one fetch before it was stored.        *)
(***************************************************************************)
CacheInv ==
    cache.at # None =>
        /\ cache.at \in 0..now
        /\ cache.version # 0
        /\ CurrentAtOrAfter(cache.version, cache.at - MaxFetch)

IInv == TypeOK /\ CallsInv /\ FetchInv /\ CacheInv /\ BoundedStaleness /\ EachFetchIsNeeded

(***************************************************************************)
(* An index was made from what the engine returns of version v.  Every     *)
(* index a call holds, and the one in the cache, was made from the version *)
(* that goes with it.                                                      *)
(***************************************************************************)
Made(ix, v) == v \in 1..Len(versions) /\ ix = IndexOf(RightSide(versions[v]))

IndexInv ==
    /\ \A r \in Runs : pc[r] \in {"fetched", "join", "done"} => Made(index[r], version[r])
    /\ cache.at # None => Made(cache.index, cache.version)

JoinIInv == TypeOK /\ IndexInv /\ AnswersJoin

-------------------------------------------------------------------------------
(***************************************************************************)
(* The type invariant is inductive by itself.                              *)
(***************************************************************************)
LEMMA TypeInit == Init => TypeOK
  BY LookupAssumption DEF Init, TypeOK, Steps, Time, NoCache

LEMMA TypeStep == TypeOK /\ [Next]_vars => TypeOK'
<1> SUFFICES ASSUME TypeOK, [Next]_vars PROVE TypeOK'
  OBVIOUS
<1>1. now \in Nat /\ now \in 0..MaxTime /\ MaxTime \in Nat /\ MaxWrites \in Nat
  BY LookupAssumption DEF TypeOK
<1>2. CASE Tick
  BY <1>2, <1>1 DEF Tick, TypeOK
<1>3. CASE Write
  BY <1>3, <1>1 DEF Write, TypeOK
<1>4. ASSUME NEW r \in Runs, Begin(r) PROVE TypeOK'
  <2>1. began' \in [Runs -> Time] /\ pc' \in [Runs -> Steps]
    BY <1>4, <1>1 DEF Begin, TypeOK, Steps, Time
  <2>2. left' \in [Runs -> Lefts \cup {<<>>}]
    BY <1>4 DEF Begin, TypeOK
  <2> QED
    BY <1>4, <2>1, <2>2 DEF Begin, TypeOK
<1>5. ASSUME NEW r \in Runs, NoWorkspace(r) \/ FetchFails(r) PROVE TypeOK'
  BY <1>5 DEF NoWorkspace, FetchFails, TypeOK, Steps
<1>6. ASSUME NEW r \in Runs, Serve(r) PROVE TypeOK'
  <2>1. version' \in [Runs -> 0..Len(versions)] /\ DOMAIN index' = Runs
    BY <1>6 DEF Serve, TypeOK
  <2> QED
    BY <1>6, <2>1 DEF Serve, TypeOK, Steps
<1>7. ASSUME NEW r \in Runs, Ask(r) PROVE TypeOK'
  BY <1>7, <1>1 DEF Ask, TypeOK, Steps, Time
<1>8. ASSUME NEW r \in Runs, Read(r) PROVE TypeOK'
  <2>1. version' \in [Runs -> 0..Len(versions)] /\ DOMAIN index' = Runs
    BY <1>8, <1>1 DEF Read, TypeOK
  <2> QED
    BY <1>8, <2>1 DEF Read, TypeOK, Steps
<1>9. ASSUME NEW r \in Runs, Store(r) PROVE TypeOK'
  <2>1. cache' = cache \/ cache' = [index |-> index[r], version |-> version[r], at |-> now]
    BY <1>9 DEF Store, Stamp
  <2>2. cache'.version \in 0..Len(versions) /\ cache'.at \in Time
    BY <2>1, <1>1 DEF TypeOK, Time
  <2>3. stored' \in [Runs -> Time]
    BY <1>9, <1>1 DEF Store, TypeOK, Time
  <2> QED
    BY <1>9, <2>2, <2>3 DEF Store, TypeOK, Steps
<1>10. ASSUME NEW r \in Runs, Answer(r) PROVE TypeOK'
  BY <1>10 DEF Answer, TypeOK, Steps
<1>11. CASE UNCHANGED vars
  BY <1>11 DEF vars, TypeOK
<1> QED
  BY <1>2, <1>3, <1>4, <1>5, <1>6, <1>7, <1>8, <1>9, <1>10, <1>11 DEF Next

(***************************************************************************)
(* Every variable has its type, whatever the constants.                    *)
(***************************************************************************)
THEOREM TypeCorrect == Spec => []TypeOK
  BY TypeInit, TypeStep, PTL DEF Spec

-------------------------------------------------------------------------------
(***************************************************************************)
(* No step makes a version older than it is: what was current at a moment  *)
(* that has come stays so.                                                 *)
(***************************************************************************)
AgesStay ==
    \A v \in Nat \ {0}, t \in Int :
        v <= Len(versions) /\ t <= now /\ CurrentAtOrAfter(v, t) => CurrentAtOrAfter(v, t)'

LEMMA Ages ==
  ASSUME TypeOK, [Next]_vars
  PROVE  AgesStay
<1>1. CASE Write
  <2>1. /\ Len(versions') = Len(versions) + 1
        /\ since' = Append(since, now)
        /\ since \in Seq(0..MaxTime) /\ Len(since) = Len(versions)
    BY <1>1 DEF Write, TypeOK
  <2>2. /\ since'[Len(versions) + 1] = now
        /\ \A i \in 1..Len(versions) : since'[i] = since[i]
    BY <2>1
  <2> QED
    BY <2>1, <2>2 DEF AgesStay, CurrentAtOrAfter
<1>2. ASSUME UNCHANGED <<versions, since>> PROVE AgesStay
  BY <1>2 DEF AgesStay, CurrentAtOrAfter
<1> QED
  BY <1>1, <1>2 DEF Next, Tick, Begin, NoWorkspace, Serve, Ask, Read, FetchFails, Store,
                    Answer, vars

(***************************************************************************)
(* Types the steps below cite.                                             *)
(***************************************************************************)
LEMMA Types ==
  ASSUME TypeOK
  PROVE  /\ now \in Nat
         /\ cfg.ttl \in Nat
         /\ Len(versions) \in Nat \ {0}
         /\ cache.version \in 0..Len(versions) /\ cache.at \in Nat \cup {None}
         /\ pc \in [Runs -> Steps] /\ version \in [Runs -> 0..Len(versions)]
         /\ began \in [Runs -> Nat \cup {None}]
         /\ asked \in [Runs -> Nat \cup {None}]
         /\ stored \in [Runs -> Nat \cup {None}]
         /\ MaxFetch \in Nat /\ None \notin Int
BY LookupAssumption DEF TypeOK, Time, Config

LEMMA CallsStep ==
  ASSUME IInv, [Next]_vars
  PROVE  CallsInv'
<1> USE Types DEF CallsInv, CallInv, Begun, Fetching
<1>0. TypeOK /\ CallsInv /\ CacheInv
  BY DEF IInv
<1>1. CASE Tick
  BY <1>0, <1>1 DEF Tick
<1>2. CASE Write
  BY <1>0, <1>2 DEF Write
<1>3. ASSUME NEW r \in Runs, Begin(r) PROVE CallsInv'
  BY <1>0, <1>3 DEF Begin
<1>4. ASSUME NEW r \in Runs, NoWorkspace(r) \/ FetchFails(r) PROVE CallsInv'
  BY <1>0, <1>4 DEF NoWorkspace, FetchFails
<1>5. ASSUME NEW r \in Runs, Serve(r) PROVE CallsInv'
  BY <1>0, <1>5 DEF Serve, Fresh
<1>6. ASSUME NEW r \in Runs, Ask(r) PROVE CallsInv'
  BY <1>0, <1>6 DEF Ask
<1>7. ASSUME NEW r \in Runs, Read(r) PROVE CallsInv'
  BY <1>0, <1>7 DEF Read
<1>8. ASSUME NEW r \in Runs, Store(r) PROVE CallsInv'
  <2>1. CASE cfg.ttl > 0
    <3>1. cache'.at = now /\ stored' = [stored EXCEPT ![r] = now]
      BY <1>8, <2>1 DEF Store, Stamp
    <3> QED
      BY <1>0, <1>8, <2>1, <3>1 DEF Store, CacheInv
  <2>2. CASE ~(cfg.ttl > 0)
    BY <1>0, <1>8, <2>2 DEF Store
  <2> QED
    BY <2>1, <2>2
<1>9. ASSUME NEW r \in Runs, Answer(r) PROVE CallsInv'
  BY <1>0, <1>9 DEF Answer
<1>10. CASE UNCHANGED vars
  BY <1>0, <1>10 DEF vars
<1> QED
  BY <1>1, <1>2, <1>3, <1>4, <1>5, <1>6, <1>7, <1>8, <1>9, <1>10 DEF Next

(***************************************************************************)
(* Only a read makes a fetched index, of the version that is current, and  *)
(* the time it was asked for has come.                                     *)
(***************************************************************************)
LEMMA FetchStep ==
  ASSUME IInv, [Next]_vars
  PROVE  FetchInv'
<1> USE Types
<1>0. TypeOK /\ CallsInv /\ FetchInv
  BY DEF IInv
<1>1. AgesStay
  BY <1>0, Ages
<1>2. SUFFICES ASSUME NEW r \in Runs, pc'[r] = "fetched"
               PROVE  version'[r] # 0 /\ CurrentAtOrAfter(version[r], asked[r])'
  BY DEF FetchInv
<1>3. ASSUME Read(r) PROVE version'[r] # 0 /\ CurrentAtOrAfter(version[r], asked[r])'
  BY <1>0, <1>3 DEF Read, CurrentAtOrAfter
<1>4. ASSUME ~Read(r)
      PROVE  pc[r] = "fetched" /\ version'[r] = version[r] /\ asked'[r] = asked[r]
  BY <1>0, <1>2, <1>4 DEF Next, Tick, Write, Begin, NoWorkspace, Serve, Ask, Read,
                           FetchFails, Store, Answer, vars
<1>5. ASSUME ~Read(r) PROVE version'[r] # 0 /\ CurrentAtOrAfter(version[r], asked[r])'
  <2>1. /\ version[r] \in Nat \ {0} /\ version[r] <= Len(versions)
        /\ asked[r] \in Int /\ asked[r] <= now
        /\ CurrentAtOrAfter(version[r], asked[r])
    BY <1>0, <1>4, <1>5 DEF FetchInv, CallsInv, CallInv, Fetching
  <2>2. ASSUME NEW v, v = version[r], NEW t, t = asked[r]
        PROVE  CurrentAtOrAfter(v, t)'
    BY <1>1, <2>1, <2>2 DEF AgesStay
  <2> QED
    BY <1>4, <1>5, <2>1, <2>2 DEF CurrentAtOrAfter
<1> QED
  BY <1>3, <1>5

(***************************************************************************)
(* Only a completed fetch fills the cache; its index was current when it   *)
(* was asked for, which is less than MaxFetch ago.                         *)
(***************************************************************************)
LEMMA CacheStep ==
  ASSUME IInv, [Next]_vars
  PROVE  CacheInv'
<1> USE Types
<1>0. TypeOK /\ CallsInv /\ FetchInv /\ CacheInv
  BY DEF IInv
<1>1. AgesStay
  BY <1>0, Ages
<1>2. ASSUME UNCHANGED cache, now' \in Nat, now <= now' PROVE CacheInv'
  <2>1. SUFFICES ASSUME cache.at # None
                 PROVE  CurrentAtOrAfter(cache.version, cache.at - MaxFetch)'
    BY <1>0, <1>2 DEF CacheInv
  <2>2. ASSUME NEW v, v = cache.version, NEW t, t = cache.at - MaxFetch
        PROVE  CurrentAtOrAfter(v, t)'
    <3>1. v \in Nat \ {0} /\ v <= Len(versions) /\ t \in Int /\ t <= now
      BY <1>0, <2>1, <2>2 DEF CacheInv
    <3>2. CurrentAtOrAfter(v, t)
      BY <1>0, <2>1, <2>2 DEF CacheInv, CurrentAtOrAfter
    <3> QED
      BY <1>1, <3>1, <3>2 DEF AgesStay
  <2> QED
    BY <1>2, <2>2 DEF CurrentAtOrAfter
<1>3. ASSUME NEW r \in Runs, Store(r), cfg.ttl > 0 PROVE CacheInv'
  <2>1. /\ cache'.at = now /\ cache'.version = version[r]
        /\ UNCHANGED <<now, versions, since>>
    BY <1>3 DEF Store, Stamp
  <2>2. /\ version[r] # 0 /\ CurrentAtOrAfter(version[r], asked[r])
        /\ asked[r] \in Nat /\ now - asked[r] <= MaxFetch
    BY <1>0, <1>3 DEF Store, FetchInv, CallsInv, CallInv, Fetching
  <2>3. CurrentAtOrAfter(version[r], now - MaxFetch)
    <3>1. CASE version[r] = Len(versions)
      BY <3>1 DEF CurrentAtOrAfter
    <3>2. CASE version[r] # Len(versions)
      <4>1. version[r] + 1 \in 1..Len(versions)
        BY <1>0, <2>2, <3>2
      <4>2. since[version[r] + 1] \in Nat
        BY <1>0, <4>1, LookupAssumption DEF TypeOK
      <4>3. since[version[r] + 1] >= asked[r]
        BY <2>2, <3>2 DEF CurrentAtOrAfter
      <4>4. asked[r] >= now - MaxFetch
        BY <1>0, <2>2
      <4>5. since[version[r] + 1] >= now - MaxFetch
        BY <1>0, <2>2, <4>2, <4>3, <4>4
      <4> QED
        BY <4>5 DEF CurrentAtOrAfter
    <3> QED
      BY <3>1, <3>2
  <2> QED
    BY <1>0, <2>1, <2>2, <2>3 DEF CacheInv, CurrentAtOrAfter
<1>4. UNCHANGED cache \/ \E r \in Runs : Store(r) /\ cfg.ttl > 0
  BY DEF Next, Tick, Write, Begin, NoWorkspace, Serve, Ask, Read, FetchFails, Store,
         Answer, vars
<1>5. now' \in Nat /\ now <= now'
  BY <1>0 DEF Next, Tick, Write, Begin, NoWorkspace, Serve, Ask, Read, FetchFails, Store,
              Answer, vars
<1> QED
  BY <1>2, <1>3, <1>4, <1>5

(***************************************************************************)
(* A call gets its index from the cache, young enough by the check, or     *)
(* from its own fetch; after that only writes can make it older.           *)
(***************************************************************************)
Horizon(r) == IF asked[r] # None THEN began[r] ELSE began[r] - (cfg.ttl - 1) - MaxFetch

LEMMA OlderStill ==
  ASSUME TypeOK, NEW v \in 1..Len(versions), NEW t \in Int, NEW u \in Int, u <= t,
         CurrentAtOrAfter(v, t)
  PROVE  CurrentAtOrAfter(v, u)
<1>1. CASE v = Len(versions)
  BY <1>1 DEF CurrentAtOrAfter
<1>2. CASE v # Len(versions)
  <2>1. v + 1 \in 1..Len(versions)
    BY Types, <1>2
  <2>2. since[v + 1] \in Int
    BY <2>1, LookupAssumption DEF TypeOK
  <2>3. since[v + 1] >= t
    BY <1>2 DEF CurrentAtOrAfter
  <2> QED
    BY <2>2, <2>3 DEF CurrentAtOrAfter
<1> QED
  BY <1>1, <1>2

LEMMA StalenessStep ==
  ASSUME IInv, [Next]_vars
  PROVE  BoundedStaleness'
<1> USE Types
<1>0. TypeOK /\ CallsInv /\ FetchInv /\ CacheInv /\ BoundedStaleness
  BY DEF IInv
<1>1. AgesStay
  BY <1>0, Ages
<1> DEFINE Good(r) == version[r] # 0 /\ CurrentAtOrAfter(version[r], Horizon(r))
<1>2. SUFFICES ASSUME NEW r \in Runs, pc'[r] \in {"join", "done"} PROVE Good(r)'
  BY DEF BoundedStaleness, Horizon
<1>3. CASE Serve(r)
  <2>1. /\ version'[r] = cache.version
        /\ UNCHANGED <<cfg, versions, since, began, asked>>
        /\ pc[r] = "check" /\ cache.at # None /\ now - cache.at < cfg.ttl
    BY <1>0, <1>3 DEF Serve, Fresh
  <2>2. /\ asked[r] = None /\ began[r] \in 0..now
        /\ cache.version # 0 /\ cache.at \in 0..now
        /\ CurrentAtOrAfter(cache.version, cache.at - MaxFetch)
    BY <1>0, <2>1 DEF CallsInv, CallInv, Begun, CacheInv
  <2>3. began[r] - (cfg.ttl - 1) - MaxFetch <= cache.at - MaxFetch
    BY <1>0, <2>1, <2>2
  <2>4. CurrentAtOrAfter(cache.version, Horizon(r))
    <3>1. /\ cache.version \in 1..Len(versions)
          /\ cache.at - MaxFetch \in Int /\ Horizon(r) \in Int
          /\ Horizon(r) <= cache.at - MaxFetch
      BY <1>0, <2>2, <2>3 DEF Horizon
    <3> QED
      BY <1>0, <2>2, <3>1, OlderStill
  <2> QED
    BY <2>1, <2>2, <2>4 DEF CurrentAtOrAfter, Horizon
<1>4. CASE Store(r)
  <2>1. /\ UNCHANGED <<cfg, versions, since, began, asked, version>> /\ pc[r] = "fetched"
    BY <1>4 DEF Store
  <2>2. /\ version[r] # 0 /\ CurrentAtOrAfter(version[r], asked[r])
        /\ asked[r] \in Nat /\ began[r] \in Nat /\ began[r] <= asked[r]
    BY <1>0, <2>1 DEF FetchInv, CallsInv, CallInv, Fetching
  <2>3. Horizon(r) = began[r] /\ version[r] \in 1..Len(versions)
    BY <1>0, <2>2 DEF Horizon
  <2>4. CurrentAtOrAfter(version[r], Horizon(r))
    BY <1>0, <2>2, <2>3, OlderStill
  <2> QED
    BY <2>1, <2>2, <2>4 DEF CurrentAtOrAfter, Horizon
<1>5. ASSUME ~Serve(r), ~Store(r) PROVE Good(r)'
  <2>1. /\ pc[r] \in {"join", "done"} /\ version'[r] = version[r] /\ cfg' = cfg
        /\ began'[r] = began[r] /\ asked'[r] = asked[r]
    BY <1>0, <1>2, <1>5 DEF Next, Tick, Write, Begin, NoWorkspace, Serve, Ask, Read,
                             FetchFails, Store, Answer, vars
  <2>2. /\ version[r] \in Nat \ {0} /\ version[r] <= Len(versions)
        /\ CurrentAtOrAfter(version[r], Horizon(r))
    BY <1>0, <2>1 DEF BoundedStaleness, Horizon
  <2>3. Horizon(r) \in Int /\ Horizon(r) <= now
    BY <1>0, <2>1 DEF Horizon, CallsInv, CallInv, Begun
  <2>4. ASSUME NEW v, v = version[r], NEW t, t = Horizon(r) PROVE CurrentAtOrAfter(v, t)'
    BY <1>1, <2>2, <2>3, <2>4 DEF AgesStay
  <2>5. Horizon(r)' = Horizon(r)
    BY <2>1 DEF Horizon
  <2> QED
    BY <2>1, <2>2, <2>4, <2>5 DEF CurrentAtOrAfter
<1> QED
  BY <1>3, <1>4, <1>5

(***************************************************************************)
(* A call that asks found the cache empty or too old, so whatever was      *)
(* stored before is older still; a call that stores does so after every    *)
(* call that has begun.                                                    *)
(***************************************************************************)
LEMMA NeededStep ==
  ASSUME IInv, [Next]_vars
  PROVE  EachFetchIsNeeded'
<1> USE Types
<1>0. TypeOK /\ CallsInv /\ EachFetchIsNeeded
  BY DEF IInv
<1>1. SUFFICES ASSUME NEW r \in Runs, NEW s \in Runs,
                      asked'[r] # None, stored'[s] # None, stored'[s] < began'[r]
               PROVE  asked'[r] - stored'[s] >= cfg'.ttl
  BY DEF EachFetchIsNeeded
<1>2. CASE Ask(r)
  <2>1. /\ asked'[r] = now /\ cfg' = cfg /\ stored' = stored /\ ~Fresh
    BY <1>0, <1>2 DEF Ask
  <2>2. /\ cfg.ttl > 0 /\ cache.at # None /\ stored[s] <= cache.at
        /\ stored[s] \in Nat
    BY <1>0, <1>1, <2>1 DEF CallsInv, CallInv
  <2>3. now - cache.at >= cfg.ttl
    BY <1>0, <2>1, <2>2 DEF Fresh
  <2> QED
    BY <1>0, <2>1, <2>2, <2>3
<1>3. CASE Store(s) /\ cfg.ttl > 0
  <2>1. stored'[s] = now /\ began' = began /\ asked' = asked
    BY <1>0, <1>3 DEF Store
  <2>2. began[r] \in Nat /\ began[r] <= now
    BY <1>0, <1>1, <2>1 DEF CallsInv, CallInv
  <2> QED
    BY <1>0, <1>1, <2>1, <2>2
<1>4. ASSUME ~Ask(r), ~(Store(s) /\ cfg.ttl > 0)
      PROVE  asked'[r] - stored'[s] >= cfg'.ttl
  <2>1. asked'[r] = asked[r] /\ stored'[s] = stored[s] /\ cfg' = cfg
    BY <1>0, <1>4 DEF Next, Tick, Write, Begin, NoWorkspace, Serve, Ask, Read, FetchFails,
                       Store, Answer, vars
  <2>2. began'[r] = began[r]
    <3>1. pc[r] # "idle"
      BY <1>0, <1>1, <2>1 DEF CallsInv, CallInv
    <3> QED
      BY <1>0, <3>1 DEF Next, Tick, Write, Begin, NoWorkspace, Serve, Ask, Read, FetchFails,
                        Store, Answer, vars
  <2> QED
    BY <1>0, <1>1, <2>1, <2>2 DEF EachFetchIsNeeded
<1> QED
  BY <1>2, <1>3, <1>4

-------------------------------------------------------------------------------
(***************************************************************************)
(* The inductive invariant: types, the order of the times of every call,   *)
(* and the age of what is in flight, in the cache and in every answer.     *)
(***************************************************************************)
THEOREM Invariance == Spec => []IInv
<1>1. Init => IInv
  <2> SUFFICES ASSUME Init PROVE IInv
    OBVIOUS
  <2>1. TypeOK
    BY TypeInit
  <2>2. CallsInv /\ FetchInv /\ BoundedStaleness /\ EachFetchIsNeeded
    BY DEF Init, CallsInv, CallInv, Begun, Fetching, FetchInv, BoundedStaleness,
           EachFetchIsNeeded
  <2>3. CacheInv
    BY DEF Init, CacheInv, NoCache
  <2> QED
    BY <2>1, <2>2, <2>3 DEF IInv
<1>2. IInv /\ [Next]_vars => IInv'
  <2> SUFFICES ASSUME IInv, [Next]_vars PROVE IInv'
    OBVIOUS
  <2>1. TypeOK'
    BY TypeStep DEF IInv
  <2> QED
    BY <2>1, CallsStep, FetchStep, CacheStep, StalenessStep, NeededStep DEF IInv
<1> QED
  BY <1>1, <1>2, PTL DEF Spec

(***************************************************************************)
(* An answer is never made from a version replaced before the call began,  *)
(* or, from the cache, before the time to live and one fetch ago.          *)
(***************************************************************************)
THEOREM StalenessIsBounded == Spec => []BoundedStaleness
<1>1. IInv => BoundedStaleness
  BY DEF IInv
<1> QED
  BY <1>1, Invariance, PTL

(***************************************************************************)
(* A call that begins behind a filled cache asks again only when the index *)
(* is older than its time to live.                                         *)
(***************************************************************************)
THEOREM FetchesAreNeeded == Spec => []EachFetchIsNeeded
<1>1. IInv => EachFetchIsNeeded
  BY DEF IInv
<1> QED
  BY <1>1, Invariance, PTL

-------------------------------------------------------------------------------
(***************************************************************************)
(* A nonempty set of places has a last one.                                *)
(***************************************************************************)
LEMMA LastPlace ==
  ASSUME NEW n \in Nat, NEW S \in SUBSET (1..n), S # {}
  PROVE  Last(S) \in S /\ \A j \in S : j <= Last(S)
<1> DEFINE T == {k \in 0..n : n - k \in S}
<1>1. T \subseteq Nat /\ T # {}
  <2>1. PICK i \in S : TRUE
    OBVIOUS
  <2>2. i \in 1..n
    OBVIOUS
  <2>3. n - i \in 0..n /\ n - (n - i) = i
    BY <2>2
  <2>4. n - i \in T
    BY <2>1, <2>3
  <2>5. T \subseteq Nat
    OBVIOUS
  <2> QED
    BY <2>4, <2>5
<1>2. \E k \in T : \A j \in T : ~ (<<j, k>> \in OpToRel(<, Nat))
  BY <1>1, NatLessThanWellFounded, WFMin
<1>3. OpToRel(<, Nat) = {p \in Nat \X Nat : p[1] < p[2]}
  BY DEF OpToRel
<1>4. PICK k \in T : \A j \in T : ~ (<<j, k>> \in {p \in Nat \X Nat : p[1] < p[2]})
  BY <1>2, <1>3
<1>5. \A j \in T : ~ (j < k)
  BY <1>1, <1>4
<1>6. ASSUME NEW j \in S PROVE j <= n - k
  <2>1. n - j \in 0..n /\ n - (n - j) = j /\ j \in 1..n
    OBVIOUS
  <2>2. n - j \in T
    BY <2>1
  <2> QED
    BY <2>1, <2>2, <1>5
<1>7. n - k \in S
  OBVIOUS
<1> QED
  BY <1>6, <1>7 DEF Last

(***************************************************************************)
(* What the engine returns is a sequence of rows.                          *)
(***************************************************************************)
LEMMA RightSideRows ==
  ASSUME TypeOK, NEW t \in Tables
  PROVE  RightSide(t) \in Seq(Rows)
<1>1. cfg.limit \in Nat \cup {NoLimit} /\ DefaultLimit \in Nat /\ MaxLimit \in Nat
  BY LookupAssumption DEF TypeOK, Config
<1>2. t \in Seq(Rows) /\ Len(t) \in Nat
  BY LookupAssumption
<1>3. PICK asks \in Nat : RightSide(t) = SubSeq(t, 1, Smaller(Smaller(asks, MaxLimit), Len(t)))
  BY <1>1 DEF RightSide
<1>4. PICK n \in 0..Len(t) : n = Smaller(Smaller(asks, MaxLimit), Len(t))
  BY <1>1, <1>2 DEF Smaller
<1> QED
  BY <1>2, <1>3, <1>4

(***************************************************************************)
(* The join with the index of some rows is the join with those rows.       *)
(***************************************************************************)
LEMMA IndexedPartner ==
  ASSUME NEW rows \in Seq(Rows), NEW l
  PROVE  /\ TextOf[l.key] \in DOMAIN IndexOf(rows) <=> Holding(rows, TextOf[l.key]) # {}
         /\ Partner(rows, l, Pair(IndexOf(rows), l).right)
<1> DEFINE text == TextOf[l.key]
           same == Holding(rows, text)
<1>1. Len(rows) \in Nat /\ DOMAIN rows = 1..Len(rows)
  OBVIOUS
<1>2. same \in SUBSET (1..Len(rows))
  BY <1>1 DEF Holding
<1>3. text \in DOMAIN IndexOf(rows) <=> same # {}
  BY DEF IndexOf, Holding
<1>4. CASE same = {}
  BY <1>3, <1>4 DEF Partner, Pair
<1>5. CASE same # {}
  <2>1. Last(same) \in same /\ \A j \in same : j <= Last(same)
    BY <1>1, <1>2, <1>5, LastPlace
  <2>2. IndexOf(rows)[text] = rows[Last(same)]
    BY <1>3, <1>5 DEF IndexOf
  <2>3. Pair(IndexOf(rows), l).right = rows[Last(same)]
    BY <1>3, <1>5, <2>2 DEF Pair
  <2> QED
    BY <1>3, <1>5, <2>1, <2>3 DEF Partner
<1> QED
  BY <1>3, <1>4, <1>5

LEMMA JoinsAnswer ==
  ASSUME TypeOK, NEW rows \in Seq(Rows), NEW lefts, NEW answer \in Joins(IndexOf(rows), lefts)
  PROVE  Answered(rows, lefts, answer)
<1> DEFINE K == {i \in DOMAIN lefts : \/ cfg.mode = "left"
                                      \/ Holding(rows, TextOf[lefts[i].key]) # {}}
<1>1. cfg.mode \in {"left", "inner"}
  BY LookupAssumption DEF TypeOK, Config
<1>2. Kept(IndexOf(rows), lefts) = K
  <2>1. \A i \in DOMAIN lefts : TextOf[lefts[i].key] \in DOMAIN IndexOf(rows)
                                  <=> Holding(rows, TextOf[lefts[i].key]) # {}
    BY IndexedPartner
  <2> QED
    BY <1>1, <2>1 DEF Kept
<1>3. PICK s \in Ascending(K) :
         answer = [m \in DOMAIN s |-> Pair(IndexOf(rows), lefts[s[m]])]
  BY <1>2 DEF Joins
<1>4. DOMAIN answer = DOMAIN s
  BY <1>3
<1>5. ASSUME NEW m \in DOMAIN s
      PROVE  /\ answer[m].left = lefts[s[m]]
             /\ Partner(rows, lefts[s[m]], answer[m].right)
  <2>1. answer[m] = Pair(IndexOf(rows), lefts[s[m]])
    BY <1>3
  <2>2. Pair(IndexOf(rows), lefts[s[m]]).left = lefts[s[m]]
    BY DEF Pair
  <2>3. Partner(rows, lefts[s[m]], Pair(IndexOf(rows), lefts[s[m]]).right)
    BY IndexedPartner
  <2> QED
    BY <2>1, <2>2, <2>3
<1> QED
  BY <1>3, <1>4, <1>5 DEF Answered

(***************************************************************************)
(* Versions are only added, and the lookup's options stay.                 *)
(***************************************************************************)
MadeStays ==
    /\ \A ix, v : Made(ix, v) => Made(ix, v)'
    /\ \A rows, lefts, answer :
           Answered(rows, lefts, answer) => Answered(rows, lefts, answer)'
    /\ \A v \in 1..Len(versions) : RightSide(versions[v])' = RightSide(versions[v])

LEMMA VersionsStay ==
  ASSUME TypeOK, [Next]_vars
  PROVE  MadeStays
<1>1. cfg' = cfg
  BY DEF Next, Tick, Write, Begin, NoWorkspace, Serve, Ask, Read, FetchFails, Store, Answer,
         vars
<1>2. /\ Len(versions) \in Nat /\ Len(versions') \in Nat /\ Len(versions) <= Len(versions')
      /\ \A v \in 1..Len(versions) : versions'[v] = versions[v]
  <2>1. versions \in Seq(Tables) /\ Len(versions) \in Nat
    BY DEF TypeOK
  <2>2. CASE Write
    BY <2>1, <2>2 DEF Write
  <2>3. CASE versions' = versions
    BY <2>1, <2>3
  <2> QED
    BY <2>2, <2>3 DEF Next, Tick, Begin, NoWorkspace, Serve, Ask, Read, FetchFails, Store,
                      Answer, vars
<1>3. \A v \in 1..Len(versions) : RightSide(versions[v])' = RightSide(versions[v])
  BY <1>1, <1>2 DEF RightSide
<1>4. ASSUME NEW ix, NEW v, Made(ix, v) PROVE Made(ix, v)'
  <2>1. v \in 1..Len(versions) /\ v \in 1..Len(versions')
    BY <1>2, <1>4 DEF Made
  <2>2. ix = IndexOf(RightSide(versions[v])')
    BY <1>3, <1>4, <2>1 DEF Made
  <2> QED
    BY <2>1, <2>2 DEF Made
<1>5. ASSUME NEW rows, NEW lefts, NEW answer, Answered(rows, lefts, answer)
      PROVE  Answered(rows, lefts, answer)'
  BY <1>1, <1>5 DEF Answered
<1> QED
  BY <1>3, <1>4, <1>5 DEF MadeStays

(***************************************************************************)
(* An index comes from a fetch, which made it from the current version, or *)
(* from the cache, which took it from one.                                 *)
(***************************************************************************)
LEMMA IndexStep ==
  ASSUME JoinIInv, [Next]_vars
  PROVE  IndexInv'
<1>0. TypeOK /\ IndexInv /\ MadeStays
  BY VersionsStay DEF JoinIInv
<1> USE Types
<1>1. /\ \A ix, v : Made(ix, v) => Made(ix, v)'
      /\ DOMAIN index = Runs
  BY <1>0 DEF MadeStays, TypeOK
<1>2. ASSUME NEW r \in Runs, pc'[r] \in {"fetched", "join", "done"}
      PROVE  \E ix, v : ix = index'[r] /\ v = version'[r] /\ Made(ix, v)'
  <2>1. CASE Read(r)
    <3>1. /\ index'[r] = IndexOf(RightSide(versions[Len(versions)]))
          /\ version'[r] = Len(versions)
      BY <1>0, <1>1, <2>1 DEF Read
    <3>2. Made(index'[r], version'[r])
      BY <1>0, <3>1 DEF Made
    <3> QED
      BY <1>1, <3>2
  <2>2. CASE Serve(r)
    <3>1. index'[r] = cache.index /\ version'[r] = cache.version /\ cache.at # None
      BY <1>0, <1>1, <2>2 DEF Serve, Fresh
    <3>2. Made(index'[r], version'[r])
      BY <1>0, <3>1 DEF IndexInv
    <3> QED
      BY <1>1, <3>2
  <2>3. ASSUME ~Read(r), ~Serve(r)
        PROVE  \E ix, v : ix = index'[r] /\ v = version'[r] /\ Made(ix, v)'
    <3>1. /\ pc[r] \in {"fetched", "join", "done"}
          /\ index'[r] = index[r] /\ version'[r] = version[r]
      BY <1>0, <1>1, <1>2, <2>3 DEF Next, Tick, Write, Begin, NoWorkspace, Serve, Ask, Read,
                                    FetchFails, Store, Answer, vars
    <3>2. Made(index'[r], version'[r])
      BY <1>0, <3>1 DEF IndexInv
    <3> QED
      BY <1>1, <3>2
  <2> QED
    BY <2>1, <2>2, <2>3
<1>3. ASSUME cache'.at # None
      PROVE  \E ix, v : ix = cache'.index /\ v = cache'.version /\ Made(ix, v)'
  <2>1. CASE cache' = cache
    BY <1>0, <1>1, <1>3, <2>1 DEF IndexInv
  <2>2. ASSUME NEW r \in Runs, Store(r), cfg.ttl > 0
        PROVE  \E ix, v : ix = cache'.index /\ v = cache'.version /\ Made(ix, v)'
    <3>1. pc[r] = "fetched" /\ cache'.index = index[r] /\ cache'.version = version[r]
      BY <2>2 DEF Store
    <3> QED
      BY <1>0, <1>1, <3>1 DEF IndexInv
  <2> QED
    BY <2>1, <2>2 DEF Next, Tick, Write, Begin, NoWorkspace, Serve, Ask, Read, FetchFails,
                      Store, Answer, vars
<1>4. \A r \in Runs : pc'[r] \in {"fetched", "join", "done"} => Made(index[r], version[r])'
  BY <1>2 DEF Made
<1>5. cache'.at # None => Made(cache.index, cache.version)'
  BY <1>3 DEF Made
<1> QED
  BY <1>4, <1>5 DEF IndexInv

(***************************************************************************)
(* An answer is made in one step, with an index that is the one of its     *)
(* version; what it was made from stays.                                   *)
(***************************************************************************)
LEMMA AnswerStep ==
  ASSUME JoinIInv, [Next]_vars
  PROVE  AnswersJoin'
<1>0. TypeOK /\ IndexInv /\ AnswersJoin /\ MadeStays
  BY VersionsStay DEF JoinIInv
<1>t. /\ versions \in Seq(Tables) /\ Len(versions) \in Nat
      /\ pc \in [Runs -> Steps] /\ DOMAIN out = Runs
      /\ DOMAIN version = Runs /\ DOMAIN left = Runs
  BY <1>0 DEF TypeOK
<1> SUFFICES ASSUME NEW r \in Runs, pc'[r] = "done"
             PROVE  Answered(RightSide(versions[version[r]]), left[r], out[r])'
  BY DEF AnswersJoin
<1>1. \E v, lefts, answer :
          /\ v \in 1..Len(versions)
          /\ v = version'[r] /\ v = version[r] /\ lefts = left'[r] /\ answer = out'[r]
          /\ Answered(RightSide(versions[v]), lefts, answer)
  <2>1. CASE Answer(r)
    <3>1. /\ pc[r] = "join" /\ version' = version /\ left' = left
          /\ out'[r] \in Joins(index[r], left[r])
      BY <1>t, <2>1 DEF Answer
    <3>2. PICK v \in 1..Len(versions) :
             v = version[r] /\ index[r] = IndexOf(RightSide(versions[v]))
      BY <1>0, <3>1 DEF IndexInv, Made
    <3>3. versions[v] \in Tables
      BY <1>t, <3>2
    <3>4. RightSide(versions[v]) \in Seq(Rows)
      BY <1>0, <3>3, RightSideRows
    <3>5. Answered(RightSide(versions[v]), left[r], out'[r])
      BY <1>0, <3>1, <3>2, <3>4, JoinsAnswer
    <3> QED
      BY <3>1, <3>2, <3>5
  <2>2. ASSUME ~Answer(r)
        PROVE  \E v, lefts, answer :
                   /\ v \in 1..Len(versions)
                   /\ v = version'[r] /\ v = version[r] /\ lefts = left'[r] /\ answer = out'[r]
                   /\ Answered(RightSide(versions[v]), lefts, answer)
    <3>1. /\ pc[r] = "done" /\ version'[r] = version[r] /\ left'[r] = left[r]
          /\ out'[r] = out[r]
      BY <1>t, <2>2 DEF Next, Tick, Write, Begin, NoWorkspace, Serve, Ask, Read, FetchFails,
                        Store, Answer, vars
    <3>2. /\ version[r] \in 1..Len(versions)
          /\ Answered(RightSide(versions[version[r]]), left[r], out[r])
      BY <1>0, <3>1 DEF IndexInv, Made, AnswersJoin
    <3> QED
      BY <3>1, <3>2
  <2> QED
    BY <2>1, <2>2
<1>2. PICK v, lefts, answer :
          /\ v \in 1..Len(versions)
          /\ v = version'[r] /\ v = version[r] /\ lefts = left'[r] /\ answer = out'[r]
          /\ Answered(RightSide(versions[v]), lefts, answer)
  BY <1>1
<1>3. PICK rows : rows = RightSide(versions[v]) /\ rows = RightSide(versions[v])'
  BY <1>0, <1>2 DEF MadeStays
<1>4. Answered(rows, lefts, answer)'
  BY <1>0, <1>2, <1>3 DEF MadeStays
<1> QED
  BY <1>2, <1>3, <1>4

(***************************************************************************)
(* The inductive invariant of the answers: an index goes with the version  *)
(* it was made from, in every call and in the cache.                       *)
(***************************************************************************)
THEOREM JoinInvariance == Spec => []JoinIInv
<1>1. Init => JoinIInv
  BY TypeInit DEF Init, JoinIInv, IndexInv, AnswersJoin, NoCache
<1>2. JoinIInv /\ [Next]_vars => JoinIInv'
  <2> SUFFICES ASSUME JoinIInv, [Next]_vars PROVE JoinIInv'
    OBVIOUS
  <2>1. TypeOK'
    BY TypeStep DEF JoinIInv
  <2> QED
    BY <2>1, IndexStep, AnswerStep DEF JoinIInv
<1> QED
  BY <1>1, <1>2, PTL DEF Spec

(***************************************************************************)
(* However writes, fetches and stores interleave, an answer is the join of *)
(* its rows, in their order, with one version of the dataset.              *)
(***************************************************************************)
THEOREM AnswersAreJoins == Spec => []AnswersJoin
<1>1. JoinIInv => AnswersJoin
  BY DEF JoinIInv
<1> QED
  BY <1>1, JoinInvariance, PTL
===============================================================================
