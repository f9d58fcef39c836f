-------------------------------- MODULE Lookup --------------------------------
(***************************************************************************)
(* The lookup operator (pipe/lookup.go): a hash join with the rows of      *)
(* another dataset, which it fetches through the engine.  One operator is  *)
(* shared by the execution that built it and by every live replay of that  *)
(* plan, so several calls of Apply may be in flight.  With cacheTtlMs set  *)
(* they share the index of the last completed fetch; its lock is released  *)
(* while a fetch is under way.  Other clients write to the dataset.        *)
(*                                                                         *)
(* The versions of the dataset are kept with the time each became current, *)
(* and every index with the version it was made from: the code has         *)
(* neither, they say what an answer is worth.                              *)
(***************************************************************************)
EXTENDS Integers, Sequences, FiniteSets

CONSTANTS
    Runs,          \* calls of Apply
    Keys,          \* values of the join columns, the missing one among them
    TextOf,        \* TextOf[k]: what fmt.Sprintf("%v") makes of a key
    NoLimit,       \* a lookup without a limit
    None,          \* no fetch, no store, no row on the right
    Tables,        \* contents the dataset may have
    Lefts,         \* rows Apply may be called with
    Configs,       \* lookups a pipe may have
    DefaultLimit,  \* EngineConfig.DefaultLimit
    MaxLimit,      \* EngineConfig.MaxLimit
    MaxFetch,      \* how long the host lets a fetch take
    MaxTime,       \* bounds the time and
    MaxWrites      \* how often the dataset changes

(***************************************************************************)
(* ttl: cacheTtlMs in ticks; a row of the dataset has a key and an         *)
(* identity that stands for its other columns.                             *)
(***************************************************************************)
Config == [ttl : Nat, mode : {"left", "inner"}, limit : Nat \cup {NoLimit}]
Rows == [key : Keys, id : Int]

ASSUME LookupAssumption ==
    /\ NoLimit \notin Int
    /\ None \notin Int
    /\ Tables # {} /\ Tables \subseteq Seq(Rows) /\ Lefts \subseteq Seq(Rows)
    /\ Configs \subseteq Config
    /\ DefaultLimit \in Nat \ {0} /\ MaxLimit \in Nat \ {0}
    /\ MaxFetch \in Nat /\ MaxTime \in Nat /\ MaxWrites \in Nat

VARIABLES
    cfg,         \* LookupConfig
    now,         \* the clock
    versions,    \* the contents the dataset has had, the last one current
    since,       \* since[v]: when versions[v] became current
    cache,       \* cachedIndex and cachedAt
    pc,          \* where a call is
    left,        \* the rows it was given
    began,       \* when
    asked,       \* when it asked for the right side itself, if it did
    stored,      \* when it filled the cache, if it did
    index,       \* the index it joins with
    version,     \* the version that was made from
    out          \* its answer

vars == <<cfg, now, versions, since, cache, pc, left, began, asked, stored, index, version, out>>

Steps == {"idle", "check", "fetch", "fetched", "join", "done", "failed"}

-------------------------------------------------------------------------------
Smaller(a, b) == IF a < b THEN a ELSE b

(***************************************************************************)
(* What the engine returns of table t: the lookup's own limit, or the      *)
(* engine's default for a query that has none, and never over the cap.     *)
(***************************************************************************)
RightSide(t) ==
    LET asks == IF cfg.limit = NoLimit THEN DefaultLimit ELSE cfg.limit
    IN  SubSeq(t, 1, Smaller(Smaller(asks, MaxLimit), Len(t)))

(***************************************************************************)
(* The index: for every text of a key the last row that has it.            *)
(***************************************************************************)
Holding(rows, text) == {i \in DOMAIN rows : TextOf[rows[i].key] = text}
Last(S) == CHOOSE i \in S : \A j \in S : j <= i

IndexOfFirst(rows) ==
    [text \in {TextOf[rows[i].key] : i \in DOMAIN rows} |->
        rows[CHOOSE i \in Holding(rows, text) : \A j \in Holding(rows, text) : i <= j]]
IndexOf(rows) ==
    [text \in {TextOf[rows[i].key] : i \in DOMAIN rows} |-> rows[Last(Holding(rows, text))]]

NoCache == [index |-> <<>>, version |-> 0, at |-> None]

(***************************************************************************)
(* The hash join.  A row of the answer is the left row and the row of the  *)
(* right side merged into it, None if it passes through as it is; an inner *)
(* join drops it.  Places in ascending order have one such order.          *)
(***************************************************************************)
Ascending(S) ==
    {s \in [1..Cardinality(S) -> S] : \A m, n \in DOMAIN s : m < n => s[m] < s[n]}

Pair(ix, l) ==
    [left |-> l,
     right |-> IF TextOf[l.key] \in DOMAIN ix THEN ix[TextOf[l.key]] ELSE None]

Kept(ix, rows) ==
    {i \in DOMAIN rows : cfg.mode = "inner" => TextOf[rows[i].key] \in DOMAIN ix}
Joins(ix, rows) ==
    {[m \in DOMAIN s |-> Pair(ix, rows[s[m]])] : s \in Ascending(Kept(ix, rows))}

-------------------------------------------------------------------------------
Init ==
    /\ cfg \in Configs
    /\ now = 0
    /\ \E t \in Tables : versions = <<t>>
    /\ since = <<0>>
    /\ cache = NoCache
    /\ pc = [r \in Runs |-> "idle"]
    /\ left = [r \in Runs |-> <<>>]
    /\ began = [r \in Runs |-> None]
    /\ asked = [r \in Runs |-> None]
    /\ stored = [r \in Runs |-> None]
    /\ index = [r \in Runs |-> <<>>]
    /\ version = [r \in Runs |-> 0]
    /\ out = [r \in Runs |-> <<>>]

(***************************************************************************)
(* Time passes; a fetch the host does not answer in time has failed.       *)
(***************************************************************************)
Fetching(r) == pc[r] \in {"fetch", "fetched"}

Tick ==
    /\ now < MaxTime
    /\ \A r \in Runs : Fetching(r) => now - asked[r] < MaxFetch
    /\ now' = now + 1
    /\ UNCHANGED <<cfg, versions, since, cache, pc, left, began, asked, stored, index, version, out>>

Write ==
    /\ Len(versions) <= MaxWrites
    /\ \E t \in Tables \ {versions[Len(versions)]} : versions' = Append(versions, t)
    /\ since' = Append(since, now)
    /\ UNCHANGED <<cfg, now, cache, pc, left, began, asked, stored, index, version, out>>

(***************************************************************************)
(* Apply is called; without a workspace in its context it returns at once. *)
(***************************************************************************)
Begin(r) ==
    /\ pc[r] = "idle"
    /\ \E rows \in Lefts : left' = [left EXCEPT ![r] = rows]
    /\ pc' = [pc EXCEPT ![r] = "check"]
    /\ began' = [began EXCEPT ![r] = now]
    /\ UNCHANGED <<cfg, now, versions, since, cache, asked, stored, index, version, out>>

NoWorkspace(r) ==
    /\ pc[r] = "idle"
    /\ pc' = [pc EXCEPT ![r] = "failed"]
    /\ UNCHANGED <<cfg, now, versions, since, cache, left, began, asked, stored, index, version, out>>

(***************************************************************************)
(* Under the lock: is there an index, and is it young enough?              *)
(***************************************************************************)
FreshOneLonger == cfg.ttl > 0 /\ cache.at # None /\ now - cache.at <= cfg.ttl
Fresh == cfg.ttl > 0 /\ cache.at # None /\ now - cache.at < cfg.ttl

Serve(r) ==
    /\ pc[r] = "check"
    /\ Fresh
    /\ index' = [index EXCEPT ![r] = cache.index]
    /\ version' = [version EXCEPT ![r] = cache.version]
    /\ pc' = [pc EXCEPT ![r] = "join"]
    /\ UNCHANGED <<cfg, now, versions, since, cache, left, began, asked, stored, out>>

Ask(r) ==
    /\ pc[r] = "check"
    /\ ~Fresh
    /\ asked' = [asked EXCEPT ![r] = now]
    /\ pc' = [pc EXCEPT ![r] = "fetch"]
    /\ UNCHANGED <<cfg, now, versions, since, cache, left, began, stored, index, version, out>>

(***************************************************************************)
(* The engine reads the dataset at some moment of the fetch, or the fetch  *)
(* fails; the index is made from what it returned.                         *)
(***************************************************************************)
Read(r) ==
    /\ pc[r] = "fetch"
    /\ index' = [index EXCEPT ![r] = IndexOf(RightSide(versions[Len(versions)]))]
    /\ version' = [version EXCEPT ![r] = Len(versions)]
    /\ pc' = [pc EXCEPT ![r] = "fetched"]
    /\ UNCHANGED <<cfg, now, versions, since, cache, left, began, asked, stored, out>>

FetchFails(r) ==
    /\ pc[r] = "fetch"
    /\ pc' = [pc EXCEPT ![r] = "failed"]
    /\ UNCHANGED <<cfg, now, versions, since, cache, left, began, asked, stored, index, version, out>>

(***************************************************************************)
(* Under the lock again: whoever comes last wins, and the index counts as  *)
(* young from this moment on.                                              *)
(***************************************************************************)
Stamp(r) == now

Store(r) ==
    /\ pc[r] = "fetched"
    /\ IF cfg.ttl > 0
       THEN /\ cache' = [index |-> index[r], version |-> version[r], at |-> Stamp(r)]
            /\ stored' = [stored EXCEPT ![r] = now]
       ELSE UNCHANGED <<cache, stored>>
    /\ pc' = [pc EXCEPT ![r] = "join"]
    /\ UNCHANGED <<cfg, now, versions, since, left, began, asked, index, version, out>>

Answer(r) ==
    /\ pc[r] = "join"
    /\ \E answer \in Joins(index[r], left[r]) : out' = [out EXCEPT ![r] = answer]
    /\ pc' = [pc EXCEPT ![r] = "done"]
    /\ UNCHANGED <<cfg, now, versions, since, cache, left, began, asked, stored, index, version>>

Next ==
    \/ Tick
    \/ Write
    \/ \E r \in Runs : \/ Begin(r) \/ NoWorkspace(r) \/ Serve(r) \/ Ask(r)
                       \/ Read(r) \/ FetchFails(r) \/ Store(r) \/ Answer(r)

Spec == Init /\ [][Next]_vars

-------------------------------------------------------------------------------
Time == Nat \cup {None}

(***************************************************************************)
(* Every variable has its type: versions are numbered, times are natural.  *)
(***************************************************************************)
TypeOK ==
    /\ cfg \in Configs
    /\ now \in 0..MaxTime
    /\ versions \in Seq(Tables)
    /\ since \in Seq(0..MaxTime)
    /\ Len(since) = Len(versions) /\ Len(versions) \in 1..(MaxWrites + 1)
    /\ cache.version \in 0..Len(versions) /\ cache.at \in Time
    /\ pc \in [Runs -> Steps]
    /\ left \in [Runs -> Lefts \cup {<<>>}]
    /\ DOMAIN index = Runs /\ DOMAIN out = Runs
    /\ version \in [Runs -> 0..Len(versions)]
    /\ began \in [Runs -> Time] /\ asked \in [Runs -> Time] /\ stored \in [Runs -> Time]

(***************************************************************************)
(* Whatever is written, fetched and stored meanwhile, an answer is the     *)
(* join with what the engine returned of a single version of the dataset:  *)
(* the rows of the left side in their order, all of them (left) or those   *)
(* with a partner (inner), each with the last row of that version under    *)
(* its key.                                                                *)
(***************************************************************************)
Partner(rows, l, p) ==
    LET same == Holding(rows, TextOf[l.key])
    IN  IF same = {} THEN p = None
        ELSE \E i \in same : p = rows[i] /\ \A j \in same : j <= i

Answered(rows, lefts, answer) ==
    \E s \in Ascending({i \in DOMAIN lefts : \/ cfg.mode = "left"
                                            \/ Holding(rows, TextOf[lefts[i].key]) # {}}) :
        /\ DOMAIN answer = DOMAIN s
        /\ \A m \in DOMAIN s : /\ answer[m].left = lefts[s[m]]
                               /\ Partner(rows, lefts[s[m]], answer[m].right)

AnswersJoin ==
    \A r \in Runs : pc[r] = "done" =>
        Answered(RightSide(versions[version[r]]), left[r], out[r])

(***************************************************************************)
(* How old an answer may be.  A call that fetched joins with a version     *)
(* that was current when it began or later; one served from the cache with *)
(* a version that was current within the time to live and one fetch before *)
(* that: an index is stamped when its fetch is over and a slower fetch may *)
(* replace the index of a faster one that read later.                      *)
(***************************************************************************)
CurrentAtOrAfter(v, t) == v = Len(versions) \/ since[v + 1] >= t

BoundedStaleness ==
    \A r \in Runs : pc[r] \in {"join", "done"} =>
        /\ version[r] # 0
        /\ CurrentAtOrAfter(version[r],
               IF asked[r] # None THEN began[r] ELSE began[r] - (cfg.ttl - 1) - MaxFetch)

(***************************************************************************)
(* No needless fetch: a call that begins after another has filled the      *)
(* cache asks for the right side only when that index is too old.          *)
(***************************************************************************)
EachFetchIsNeeded ==
    \A r, s \in Runs :
        asked[r] # None /\ stored[s] # None /\ stored[s] < began[r]
            => asked[r] - stored[s] >= cfg.ttl

===============================================================================
